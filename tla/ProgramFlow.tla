---------------------------- MODULE ProgramFlow ----------------------------
(***************************************************************************)
(* Where the instructions of a ROM lead, by the cases of module Decoder.   *)
(***************************************************************************)
EXTENDS Decoder

CONSTANTS Size,      \* bytes of the ROM
          Beyond,    \* what is read behind the last byte
          Tables     \* the addresses of the bytes that JMPP reads

Byte(r, addr) == IF addr < Size THEN r[addr] ELSE Beyond

\* Where pc can be after the instruction op whose fetches left it at next.  That JMPP reads
\* only tables is an assumption on the program, which computes the place in the table.
SamePage(addr) == {InPage(PageOf(addr), a) : a \in 0..Page - 1}
Goes(r, op, next, bank, operand) ==
    IF Effect(op) \in {"jump", "call"} THEN {Far(bank, op, operand)}
    ELSE IF Effect(op) = "jumpByTable"
      THEN {InPage(PageOf(next), Byte(r, a)) : a \in SamePage(next) \cap Tables}
    ELSE {next} \cup (IF Effect(op) \in Conditional THEN {Near(next, operand)} ELSE {})

\* Where the instruction at addr can lead, at once or by a later return.
Leads(r, addr) ==
    LET op == r[addr]  next == addr + Bytes(op)
    IN  (IF Effect(op) \in Returns THEN {}
         ELSE UNION {Goes(r, op, next, bank, Byte(r, addr + 1)) : bank \in {0, 1}})
          \cup (IF Effect(op) = "call" THEN {next} ELSE {})
=============================================================================
