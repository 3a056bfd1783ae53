--------------------------- MODULE MCDisassembly ---------------------------
(* Two instances of Disassembly for TLC.  The small one has ROMs of NOPs in which one byte is *)
(* any opcode.  In the first page, a jump has a target that starts a line; in the second, one *)
(* that does not, unless it goes to another page.  The other one is the constructor with the *)
(* firmware, all of it. *)
EXTENDS Disassembly, MCFirmware

With(p, op, d) == [i \in 0..Size - 1 |-> IF i = p THEN op ELSE IF i = p + 1 THEN d ELSE 0]
Patterns == {With(0, op, 2) : op \in 0..255} \cup {With(2, op, 3) : op \in 0..255}

\* What start leads to in so many turns, which are enough if CodeOK holds of it.
Reached(leads(_), start, turns) ==
    LET turn[n \in 0..turns] ==
            IF n = 0 THEN [seen |-> start, new |-> start]
            ELSE LET last == turn[n - 1]
                     found == UNION {leads(addr) : addr \in last.new}
                 IN  [seen |-> last.seen \cup found, new |-> found \ last.seen]
    IN  turn[turns].seen

Follow(r, addr) == IF addr < Size THEN Leads(r, addr) ELSE {}
Reachable == [r \in Roms |-> Reached(LAMBDA addr : Follow(r, addr), {0} \cup Vectors, Size + 1)]

RomSize == Len(Dump)
Flow == INSTANCE ProgramFlow
          WITH Page <- 256, Size <- RomSize, Tables <- FirmwareTables
FollowCP1(addr) == IF addr < RomSize THEN Flow!Leads(CP1, addr) ELSE {}
ReachableCP1 == [r \in {CP1} |-> Reached(FollowCP1, {0, 3, 7}, 128)]
Firmware == INSTANCE Disassembly
              WITH Page <- 256, Size <- RomSize, Tables <- FirmwareTables,
                   Roms <- {CP1}, Vectors <- {3, 7}, Code <- ReachableCP1
ASSUME Firmware!CodeOK

\* Each behavior is one of the two.
Begins == Init \/ Firmware!Init
Steps == \/ rom /= CP1 /\ Next
         \/ rom = CP1 /\ Firmware!Disassemble
         \/ rom = CP1 /\ Firmware!Ready /\ UNCHANGED vars
Both == Begins /\ [][Steps]_vars

\* The sweep finds every instruction of the firmware, which has tables and other data between
\* them (i8049disassemblywidget.cpp:91-97, disassembler.cpp:51-60).
FirmwareIsFound == rom = CP1 => Firmware!SweepFindsCode
=============================================================================
