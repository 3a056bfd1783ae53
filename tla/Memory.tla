------------------------------- MODULE Memory -------------------------------
(***************************************************************************)
(* What the program of the 8049 may rely on: two memories with three ports *)
(* each, of which the ones selected by the last write to P2 answer.  No    *)
(* pins, no edges, no bus: a MOVX is one step.  Board is shown to          *)
(* implement this.                                                         *)
(***************************************************************************)
EXTENDS Integers

CONSTANTS Cell

Byte == SUBSET (0..7)
Chips == {"pid", "pidExtension"}
PortName == {"pa", "pb", "pc"}
RegisterOf(addr) ==
    IF 1 \in addr THEN IF 0 \in addr THEN "pc" ELSE "pb"
                  ELSE IF 0 \in addr THEN "pa" ELSE "command"

VARIABLES ram,     \* [Chips -> [Cell -> Byte]]
          port,    \* [Chips -> [PortName -> Byte]]
          lines,   \* the bits 4 to 7 of P2
          acc      \* the accumulator

memoryVars == <<ram, port, lines, acc>>

Cleared == [ram  |-> [n \in Chips |-> [c \in Cell |-> {}]],
            port |-> [n \in Chips |-> [p \in PortName |-> {}]]]

Init == /\ ram = Cleared.ram /\ port = Cleared.port
        /\ lines = 4..7 /\ acc = {}

Selected == {n \in Chips : (IF n = "pid" THEN 4 ELSE 5) \notin lines}
IOMode == 7 \in lines

\* When both chips are selected the extension answers; when none is, the program
\* reads back the address.  The command register reads as 0.
Answer(addr) ==
    LET n == IF "pidExtension" \in Selected THEN "pidExtension" ELSE "pid"
    IN  IF Selected = {} THEN addr
        ELSE IF ~IOMode THEN ram[n][addr]
        ELSE IF RegisterOf(addr) \in PortName THEN port[n][RegisterOf(addr)]
        ELSE {}

Read(addr) == acc' = Answer(addr) /\ UNCHANGED <<ram, port, lines>>

Write(addr) ==
    /\ ram' = [n \in Chips |-> IF n \in Selected /\ ~IOMode
                                 THEN [ram[n] EXCEPT ![addr] = acc] ELSE ram[n]]
    /\ port' = [n \in Chips |-> IF n \in Selected /\ IOMode /\ RegisterOf(addr) \in PortName
                                  THEN [port[n] EXCEPT ![RegisterOf(addr)] = acc]
                                  ELSE port[n]]
    /\ UNCHANGED <<lines, acc>>

\* Every write to the upper half of P2 with bit 6 set clears both chips, whether or
\* not the bit was set before.
Select(new) ==
    /\ lines' = new
    /\ IF 6 \in new THEN ram' = Cleared.ram /\ port' = Cleared.port
                    ELSE UNCHANGED <<ram, port>>
    /\ acc' = acc

Compute == acc' \in Byte /\ UNCHANGED <<ram, port, lines>>

\* The assembler window writes a cell behind the program's back.
Poke == \E n \in Chips, c \in Cell, v \in Byte :
          ram' = [ram EXCEPT ![n][c] = v] /\ UNCHANGED <<port, lines, acc>>

Next == \/ \E addr \in Cell : Read(addr) \/ Write(addr)
        \/ \E new \in SUBSET (4..7) : Select(new)
        \/ Compute \/ Poke
        \/ Init'      \* the CPU is reset

Spec == Init /\ [][Next]_memoryVars
=============================================================================
