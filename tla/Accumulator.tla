---------------------------- MODULE Accumulator ----------------------------
(***************************************************************************)
(* What a program may rely on when it computes: the carry and the          *)
(* accumulator are one number, which the additions and the rotations       *)
(* through carry treat as such; no other flag changes but the one an       *)
(* instruction is for.  Intel8049Data is shown to implement this.          *)
(***************************************************************************)
EXTENDS Integers

CONSTANTS Nibble, Radix

VARIABLES value,    \* carry and accumulator, 9 bits
          half,     \* AC
          flag0, f1,
          bank,     \* the register bank selected
          lower     \* the rest of PSW: stack pointer and bit 3

flags == <<flag0, f1, bank, lower>>
accVars == <<value, half, flags>>

Full == Nibble * Nibble
Byte == 0..Full - 1
Carry == value \div Full
A == value % Full

Init == value = 0 /\ half = 0 /\ flag0 = 0 /\ f1 = 0 /\ bank = 0 /\ lower = Full \div 32

\* The whole sum, with the carry or without; the half carry is that of the lower digits.
Add ==
    \E v \in Byte, c \in {0, Carry} :
        /\ value' = A + v + c
        /\ half' = ((A % Nibble) + (v % Nibble) + c) \div Nibble
        /\ UNCHANGED flags

RotateLeft == value' = ((2 * value) % (2 * Full)) + Carry
RotateRight == value' = value \div 2 + (value % 2) * Full
Rotate == (RotateLeft \/ RotateRight) /\ UNCHANGED <<half, flags>>

\* Moves and logic keep every flag; CLR C and CPL C set the carry and nothing else.
Move == value' \in Carry * Full..Carry * Full + Full - 1 /\ UNCHANGED <<half, flags>>
SetCarry == \E c \in {0, 1} : value' = c * Full + A /\ UNCHANGED <<half, flags>>

\* DA A adds what is missing to a decimal carry, to either digit.
Correct ==
    \E low, high \in {0, Nibble - Radix}, c \in {0, 1} :
        /\ value' = c * Full + ((A + low + high * Nibble) % Full)
        /\ UNCHANGED <<half, flags>>

SetFlag0 == flag0' \in {0, 1} /\ UNCHANGED <<value, half, f1, bank, lower>>
SetF1 == f1' \in {0, 1} /\ UNCHANGED <<value, half, flag0, bank, lower>>
SelectBank == bank' \in {0, 1} /\ UNCHANGED <<value, half, flag0, f1, lower>>

\* MOV PSW,A unpacks the accumulator into the flags.
Unpack ==
    /\ value' = (A \div (Full \div 2)) * Full + A
    /\ half' = (A \div (Full \div 4)) % 2
    /\ flag0' = (A \div (Full \div 8)) % 2
    /\ bank' = (A \div (Full \div 16)) % 2
    /\ lower' = A % (Full \div 16)
    /\ UNCHANGED f1

Next == Move \/ Rotate \/ SetCarry \/ Correct \/ SetFlag0 \/ SetF1 \/ SelectBank
        \/ Unpack \/ Add
Spec == Init /\ [][Next]_accVars
=============================================================================
