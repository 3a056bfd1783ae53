------------------------------- MODULE Board -------------------------------
(***************************************************************************)
(* The instructions of the 8049 that reach the board, with MOVX pin by pin *)
(* (intel8049.cpp:473-486, 545-556): between two pins the UI thread may    *)
(* write a RAM cell, as the assembler window does.  The other instructions *)
(* use one port each and are one step.                                     *)
(***************************************************************************)
EXTENDS Wiring

CONSTANTS Pos,     \* the addresses MOVX uses
          Data,    \* the values the program computes
          Raise,   \* the operands of ORL P2,#data
          Lower,   \* the operands of ANL P2,#data
          Keys     \* the nibbles the keyboard answers MOVD with

ASSUME BoardOK ==
    /\ Pos \subseteq Cell /\ Data \subseteq Byte
    /\ Raise \subseteq Byte /\ Lower \subseteq Byte
    /\ Keys \subseteq SUBSET (0..3)

VARIABLES board,
          acc,     \* regs_.a
          movx     \* the MOVX under way: its address and the pin written next

boardVars == <<board, acc, movx>>

Between == [at |-> "none"]     \* two instructions
Movx == [kind : {"read", "write"}, pos : Pos,
         at : {"address", "latch", "low", "data", "high", "load"}]

BoardTypeOK == board \in Board /\ acc \in Byte /\ movx \in Movx \cup {Between}

\* The latches are the one member the constructor does not initialise.
Init ==
    /\ \E latches \in [Chips -> Cell] : board = PowerOn(latches)
    /\ acc = {} /\ movx = Between

-----------------------------------------------------------------------------
(* MOVX A,@Rr and MOVX @Rr,A.                                              *)

MovxBegin(kind, pos) ==
    /\ movx = Between
    /\ board' = PinALE(board, TRUE)
    /\ movx' = [kind |-> kind, pos |-> pos, at |-> "address"]
    /\ UNCHANGED acc

\* The pin or the bus is written, and `to' comes next.  Faulty variant: the end of the
\* instruction is not noticed.
PinForever(from, to, b) ==
    /\ movx.at = from
    /\ board' = b
    /\ movx' = [movx EXCEPT !.at = to]
    /\ UNCHANGED acc

Pin(from, to, b) ==
    /\ movx.at = from
    /\ board' = b
    /\ movx' = IF to = "none" THEN Between ELSE [movx EXCEPT !.at = to]
    /\ UNCHANGED acc

Reading == movx.kind = "read"

MovxStep ==
    \/ Pin("address", "latch", WriteBus(board, movx.pos))
    \/ Pin("latch", "low", PinALE(board, FALSE))
    \/ movx.at = "low"  /\ Reading  /\ Pin("low", "high", PinRD(board, FALSE))
    \/ movx.at = "high" /\ Reading  /\ Pin("high", "load", PinRD(board, TRUE))
    \/ movx.at = "low"  /\ ~Reading /\ Pin("low", "data", PinWR(board, FALSE))
    \/ Pin("data", "high", WriteBus(board, acc))
    \/ movx.at = "high" /\ ~Reading /\ Pin("high", "none", PinWR(board, TRUE))

MovxLoad ==
    /\ movx.at = "load"
    /\ acc' = board.bus
    /\ movx' = Between
    /\ UNCHANGED board

-----------------------------------------------------------------------------
(* The other instructions.                                                 *)

Instruction(b, a) == movx = Between /\ board' = b /\ acc' = a /\ UNCHANGED movx

\* OUTL BUS,A, ORL BUS,#data and ANL BUS,#data.  OUTL P2,A lands here too: the port
\* is op & 1, and 0x3a & 1 is BUS (intel8049.cpp:278-284).
BusOut ==
    \/ Instruction(WriteBus(board, acc), acc)
    \/ \E d \in Data : \/ Instruction(WriteBus(board, board.bus \cup d), acc)
                       \/ Instruction(WriteBus(board, board.bus \cap d), acc)

\* INS A,BUS and, for the same reason, IN A,P2 (intel8049.cpp:100-113).
BusIn == Instruction(board, board.bus)

P2Out ==
    \/ \E d \in Raise : Instruction(OrP2(board, d), acc)
    \/ \E d \in Lower : Instruction(AndP2(board, d), acc)

\* MOVD A,Pp: the falling PROG lets the keyboard write the low nibble of P2.
\* MOVD, ORLD and ANLD Pp,A leave the low nibble of A there (intel8049.cpp:115-129,
\* 286-301, 529-542, 604-618).
MovdIn == \E k \in Keys : Instruction(NibbleP2(board, k), k)
MovdOut == Instruction(NibbleP2(board, acc \cap (0..3)), acc)

Compute == \E d \in Data : Instruction(board, d)

\* ExecutorThread::doReset(), between two instructions.
Reset == Instruction(ResetAll(board), {})

\* Ram::write() by the UI thread, at any time.
Poke ==
    /\ \E n \in Chips, c \in Pos, v \in Data :
         board' = [board EXCEPT !.chips[n].ram[c] = v]
    /\ UNCHANGED <<acc, movx>>

Next ==
    \/ \E kind \in {"read", "write"}, pos \in Pos : MovxBegin(kind, pos)
    \/ MovxStep \/ MovxLoad
    \/ BusOut \/ BusIn \/ P2Out \/ MovdIn \/ MovdOut \/ Compute \/ Reset \/ Poke

Spec == Init /\ [][Next]_boardVars

-----------------------------------------------------------------------------
(* Properties.                                                             *)

\* The select and I/O pins of both chips are the bits of the P2 latch: no instruction
\* writes one without the other (dataport.cpp:44-55, main.cpp:67-78).
LinesFollowPort ==
    \A n \in Chips : /\ board.chips[n].ce = (CEBit[n] \in board.p2)
                     /\ board.chips[n].io = (7 \in board.p2)

\* From the falling ALE to the end of a MOVX both chips hold the address that the
\* instruction put on the bus, whatever the other thread does meanwhile
\* (intel8155.cpp:114-122, intel8049.cpp:473-486, 545-556).
AddressHeld ==
    movx.at \in {"low", "data", "high", "load"} =>
        \A n \in Chips : board.chips[n].latch = movx.pos

PortName == {"pa", "pb", "pc"}

\* The abstract memory: a read takes effect when the chips see RD rise, a write when
\* they see WR rise.
Abstract == INSTANCE Memory WITH
    ram   <- [n \in Chips |-> board.chips[n].ram],
    port  <- [n \in Chips |-> [p \in PortName |-> board.chips[n][p]]],
    lines <- board.p2 \cap (4..7),
    acc   <- IF movx.at = "load" THEN board.bus ELSE acc

\* MOVX over ALE, RD, WR and the bus is one read or one write of the memory the
\* program selected (main.cpp:63-78, intel8155.cpp:114-218).
ImplementsMemory == Abstract!Spec
=============================================================================
