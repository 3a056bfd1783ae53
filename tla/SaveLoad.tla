------------------------------ MODULE SaveLoad ------------------------------
(***************************************************************************)
(* Saving and loading (executorthread.cpp:158-169, basewindow.cpp:113-158):*)
(* the state of the 8049 and of both 8155s goes to a file, which a full    *)
(* disk or the end of the program may cut off; the latches of the ports    *)
(* do not.  History variables keep the session that was saved and, after a *)
(* load, let it run on beside the emulator, so that resuming can be        *)
(* compared with never having stopped.                                     *)
(***************************************************************************)
EXTENDS Wiring, StateFile

CONSTANTS Pos, Data, Raise, Lower,   \* as in Board
          Cpus,                      \* states of the 8049 on saving
          Fresh,                     \* its state at the start of the program
          Torn                       \* how much of a file may get to the disk

ASSUME SessionOK ==
    /\ Pos \subseteq Cell
    /\ Data \subseteq Byte /\ Raise \subseteq Byte /\ Lower \subseteq Byte
    /\ Cpus \subseteq CpuState /\ Fresh \in CpuState
    /\ Torn \subseteq Nat

VARIABLES
    now,       \* the emulator: the board and the 8049
    disk,      \* the bytes of the file
    ui,        \* "saving" while the UI thread waits for the executor
    stage,     \* "fresh", "saved" once a file was written, "resumed" once it was loaded
    saved,     \* history: the emulator when the file was last written
    twin,      \* history: the saved session, had it gone on instead
    aligned    \* history: on loading, the ports held what they held on saving

sessionVars == <<now, disk, ui, stage, saved, twin, aligned>>

Init ==
    /\ \E latches \in [Chips -> Cell], cpu \in Cpus :
          now = [board |-> PowerOn(latches), cpu |-> cpu]
    /\ disk = <<>> /\ ui = "idle"
    /\ stage = "fresh" /\ saved = now /\ twin = now /\ aligned = FALSE

\* An instruction, as a function of the session; the saved session executes it too.
\* Of the 8049 it changes the accumulator; the rest is in Intel8049 and Intel8049Data.
Do(F(_)) ==
    /\ now' = F(now)
    /\ twin' = IF stage = "resumed" THEN F(twin) ELSE twin
    /\ UNCHANGED <<disk, ui, stage, saved, aligned>>

MovxIn(s, pos) ==
    LET b == MovxRead(s.board, pos) IN [s EXCEPT !.board = b, !.cpu.a = b.bus]
MovxOut(s, pos) == [s EXCEPT !.board = MovxWrite(s.board, pos, s.cpu.a)]

Instruction ==
    \/ \E pos \in Pos :
         \/ LET F(s) == MovxIn(s, pos) IN Do(F)
         \/ LET F(s) == MovxOut(s, pos) IN Do(F)
    \/ \E d \in Raise : LET F(s) == [s EXCEPT !.board = OrP2(s.board, d)] IN Do(F)
    \/ \E d \in Lower : LET F(s) == [s EXCEPT !.board = AndP2(s.board, d)] IN Do(F)
    \/ LET F(s) == [s EXCEPT !.board = WriteBus(s.board, s.cpu.a)] IN Do(F)  \* OUTL BUS,A
    \/ LET F(s) == [s EXCEPT !.cpu.a = s.board.bus] IN Do(F)                 \* INS A,BUS
    \/ \E d \in Data : LET F(s) == [s EXCEPT !.cpu.a = d] IN Do(F)

Reset == LET F(s) == [s EXCEPT !.board = ResetAll(s.board), !.cpu.a = {}] IN Do(F)

\* onSaveStateClicked() truncates the file, and the executor goes on until it serves the
\* command.  One session is saved, and loaded once.
SaveClicked ==
    /\ ui = "idle" /\ stage /= "resumed"
    /\ disk' = <<>> /\ ui' = "saving" /\ stage' = "saved"
    /\ UNCHANGED <<now, saved, twin, aligned>>

\* SAVE_STATE and the rest of onSaveStateClicked().  A full disk shows when the file is
\* closed, behind the last check.
StateOf(s) == [cpu |-> s.cpu, pid |-> saveToState(s.board.chips["pid"]),
               pidExtension |-> saveToState(s.board.chips["pidExtension"])]
SaveState ==
    /\ ui = "saving"
    /\ LET file == StateHeader \o WriteState(StateOf(now)) IN
       \E size \in Torn \cup {Len(file)} : size <= Len(file) /\ disk' = SubSeq(file, 1, size)
    /\ ui' = "idle" /\ saved' = now
    /\ UNCHANGED <<now, stage, twin, aligned>>

\* The program ends and is started again; the file is what there is of it.
Restart ==
    /\ stage /= "resumed"
    /\ \E latches \in [Chips -> Cell] : now' = [board |-> PowerOn(latches), cpu |-> Fresh]
    /\ ui' = "idle"
    /\ UNCHANGED <<disk, stage, saved, twin, aligned>>

\* LOAD_STATE: initFromState() of all three, into ports that keep their latches.
Loaded(file, s) ==
    [board |-> [s.board EXCEPT !.chips = [n \in Chips |-> initFromState(file[n])]],
     cpu   |-> file.cpu]

\* onLoadStateClicked()
Load ==
    /\ ui = "idle" /\ stage = "saved"
    /\ Accepted(disk)
    /\ stage' = "resumed"
    /\ now' = Loaded(ReadState(disk), now)
    /\ twin' = saved
    /\ aligned' = (now.board.p2 = saved.board.p2 /\ now.board.bus = saved.board.bus)
    /\ UNCHANGED <<disk, ui, saved>>

Next == Instruction \/ Reset \/ SaveClicked \/ SaveState \/ Restart \/ Load
Spec == Init /\ [][Next]_sessionVars

-----------------------------------------------------------------------------
(* Properties.                                                             *)

\* A load brings back one saved moment of the machine, whole: every member of the 8049
\* and of both chips, through two lists of fields that know nothing of each other; and a
\* file of which the end is missing is not loaded, wherever it was cut off
\* (emulatorstate.cpp:70-188, basewindow.cpp:113-158).
LoadedWasSaved ==
    [][stage = "saved" /\ stage' = "resumed" => StateOf(now') = StateOf(saved)]_sessionVars

\* Loaded on a board whose ports hold what they held on saving, a session goes on as if
\* it had never been saved: the file lacks nothing but the ports
\* (intel8155.cpp:49-97, intel8049.h:91-129).
ResumesOnSamePorts == stage = "resumed" /\ aligned => now = twin

\* What the program and the panel see of a session.
Visible(s) ==
    [acc |-> s.cpu.a,
     ram |-> [n \in Chips |-> s.board.chips[n].ram],
     port |-> [n \in Chips |-> <<s.board.chips[n].pa, s.board.chips[n].pb,
                                s.board.chips[n].pc>>]]

\* A loaded session goes on as the saved one would have: after the same instructions the
\* accumulator, the memories and the ports are the same.  This is what README.md:40-43
\* says of the save states; the code loads into whatever P2 holds
\* (executorthread.cpp:158-163).
SessionResumes == stage = "resumed" => Visible(now) = Visible(twin)
=============================================================================
