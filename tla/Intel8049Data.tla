--------------------------- MODULE Intel8049Data ---------------------------
(***************************************************************************)
(* Intel8049 (src/emulation/intel8049.cpp): what the instructions do to    *)
(* the accumulator, PSW, F1 and the RAM with its two register banks.       *)
(* Jumps, calls, interrupts and the timer are in module Intel8049, the     *)
(* ports in module Board; here a byte from outside may be any of Input.    *)
(*                                                                         *)
(* A byte is two nibbles.  In the code a nibble counts to 16 and a decimal *)
(* digit to 10; both are parameters, so that smaller ones can be checked.  *)
(* The flags are the upper four bits of PSW.                               *)
(***************************************************************************)
EXTENDS Integers

CONSTANTS Nibble, Radix,     \* 16 and 10
          RamSize, Regs,     \* 128 and 8: the RAM and the registers of a bank
          Bank1,             \* 24: REGISTER_BANK_1_BASE; bank 0 is at 0
          Input,             \* what the ROM, the ports and T supply
          Garbage            \* what can be found behind the vector of the RAM

Full == Nibble * Nibble
Byte == 0..Full - 1

ASSUME DataOK ==
    /\ Nibble \in {4, 8, 16} /\ Radix \in 2..Nibble - 1
    /\ {Regs, Bank1, RamSize} \subseteq Nat \ {0}
    /\ Regs <= Bank1 /\ Bank1 + Regs <= RamSize /\ RamSize <= Full
    /\ Input \subseteq Byte /\ Garbage \subseteq Byte

VARIABLES
    a, psw, f1,   \* regs_
    ram,          \* ram_
    digits        \* history: the decimal sum of the addition just executed, or NoSum

dataVars == <<a, psw, f1, ram, digits>>
NoSum == -1

\* getBit() and setBit(), with the weight of the bit.  Faulty variant: the old bit is
\* not cleared.
CY == Full \div 2
AC == Full \div 4
F0 == Full \div 8
BS == Full \div 16
getBit(val, w) == (val \div w) % 2
OnlySet(val, w, bitVal) == IF bitVal = 1 /\ getBit(val, w) = 0 THEN val + w ELSE val
setBit(val, w, bitVal) == val + (bitVal - getBit(val, w)) * w

\* The conversion to uint8_t.  Faulty variant: none.
Unwrapped(n) == n
Wrap(n) == n % Full
Low(v)  == v % Nibble
High(v) == v \div Nibble

\* readReg() and writeReg().  Faulty variant: the carry selects the bank.
BaseByCarry == IF getBit(psw, CY) = 0 THEN 0 ELSE Bank1
Base == IF getBit(psw, BS) = 0 THEN 0 ELSE Bank1
Reg == 0..Regs - 1
readReg(r) == ram[Base + r]
writeReg(r, val) == ram' = [ram EXCEPT ![Base + r] = val]

\* @Rr: R0 or R1, of which most instructions mask a bit more than the RAM has.
Pointer == {r \in Reg : r < 2}
Masked(r) == readReg(r) % RamSize

\* Ram::read() and write() check nothing: outside of the vector a read finds what is
\* there, a write has no effect on the CPU.
ReadAt(pos) == IF pos < RamSize THEN {ram[pos]} ELSE Garbage
WriteAt(pos, val) == ram' = IF pos < RamSize THEN [ram EXCEPT ![pos] = val] ELSE ram

\* reset(): bit 3 of PSW is set.
Init ==
    /\ a = 0 /\ psw = Full \div 32 /\ f1 = 0 /\ digits = NoSum
    /\ ram = [i \in 0..RamSize - 1 |-> 0]

-----------------------------------------------------------------------------
(* Instructions that compute in the accumulator.                           *)

Source == Input \cup {readReg(r) : r \in Reg} \cup {ram[Masked(r)] : r \in Pointer}
WildSource == Source \cup UNION {ReadAt(readReg(r)) : r \in Pointer}

\* The number a byte stands for, read as two decimal digits.
IsDecimal(v) == Low(v) < Radix /\ High(v) < Radix
Decimal(v) == Radix * High(v) + Low(v)

\* addToAcc().  Faulty variant: the half carry leaves the carry out.
SetFlags(carry, half) == psw' = setBit(setBit(psw, CY, carry), AC, half)
Flag(condition) == IF condition THEN 1 ELSE 0
Sum(value, carry) ==
    /\ a' = Wrap(a + value + carry)
    /\ digits' = IF IsDecimal(a) /\ IsDecimal(value)
                   THEN Decimal(a) + Decimal(value) + carry ELSE NoSum
    /\ UNCHANGED <<f1, ram>>
addHalf(value, carry) ==
    /\ SetFlags(Flag(a + value + carry >= Full), Flag(Low(a) + Low(value) >= Nibble))
    /\ Sum(value, carry)
addToAcc(value, carry) ==
    /\ SetFlags(Flag(a + value + carry >= Full),
                Flag(Low(a) + Low(value) + carry >= Nibble))
    /\ Sum(value, carry)

\* ADD A,@Rr does not mask its pointer, ADDC A,@Rr does.
ADD == \E v \in WildSource : addToAcc(v, 0)
ADDC == \E v \in Source : addToAcc(v, getBit(psw, CY))

\* DA A.  The carry of the addition counts for the upper digit only; what CY is in the
\* end comes from hiNibble alone.  Faulty variant: the half carry is forgotten.
daNoHalf ==
    LET low == IF Low(a) >= Radix THEN Wrap(a + Nibble - Radix) ELSE a
        hiNibble == High(low) + (IF High(low) >= Radix \/ getBit(psw, CY) = 1
                                   THEN Nibble - Radix ELSE 0)
    IN  /\ a' = Wrap(hiNibble * Nibble) + Low(low)
        /\ psw' = setBit(psw, CY, Flag(hiNibble >= Nibble))
        /\ digits' = NoSum /\ UNCHANGED <<f1, ram>>
DA ==
    LET low == IF Low(a) >= Radix \/ getBit(psw, AC) = 1
                 THEN Wrap(a + Nibble - Radix) ELSE a
        hiNibble == High(low) + (IF High(low) >= Radix \/ getBit(psw, CY) = 1
                                   THEN Nibble - Radix ELSE 0)
    IN  /\ a' = Wrap(hiNibble * Nibble) + Low(low)
        /\ psw' = setBit(psw, CY, Flag(hiNibble >= Nibble))
        /\ digits' = NoSum /\ UNCHANGED <<f1, ram>>

\* Everything else that touches the accumulator only.
SetA(val) == a' = val /\ digits' = NoSum /\ UNCHANGED <<psw, f1, ram>>

INC_A == SetA(Wrap(a + 1))
DEC_A == SetA(Wrap(a + Full - 1))
CLR_A == SetA(0)
CPL_A == SetA(Full - 1 - a)
SWAP == SetA(Low(a) * Nibble + High(a))
RL == SetA(Wrap(2 * a) + getBit(a, CY))
RR == SetA(setBit(a \div 2, CY, a % 2))

\* ORL, ANL and XRL work on each bit.
Weight == {w \in {1, 2, 4, 8, 16, 32, 64, 128} : w < Full}
Logic(v) ==
    \E op \in {{{0, 1}, {1}}, {{1}}, {{0, 1}}} :      \* ORL, ANL, XRL: what gives a 1
    \E r \in Byte :
        /\ \A w \in Weight : getBit(r, w) = Flag({getBit(a, w), getBit(v, w)} \in op)
        /\ SetA(r)
LOGIC == \E v \in Source : Logic(v)

\* MOV A, MOVP, MOVP3, MOVX A, IN, INS, MOVD A: a byte from anywhere.
MOV_A == \E v \in Source : SetA(v)

\* RRC takes the new carry from the accumulator, sets bit 7 from the old one, and then CY.
\* Faulty variant: CY is set first.
RotateRight(carry) == a' = setBit(a \div 2, CY, carry)
RotatesFlags(carry) ==
    psw' = setBit(psw, CY, carry) /\ digits' = NoSum /\ UNCHANGED <<f1, ram>>
rrcTooLate == RotatesFlags(a % 2) /\ RotateRight(getBit(setBit(psw, CY, a % 2), CY))
RRC == RotatesFlags(a % 2) /\ RotateRight(getBit(psw, CY))
RLC == RotatesFlags(getBit(a, CY)) /\ a' = Wrap(2 * a) + getBit(psw, CY)

-----------------------------------------------------------------------------
(* Flags and PSW.                                                          *)

SetPsw(val) == psw' = val /\ digits' = NoSum /\ UNCHANGED <<a, f1, ram>>

CLR_C == SetPsw(setBit(psw, CY, 0))
CPL_C == SetPsw(setBit(psw, CY, 1 - getBit(psw, CY)))
CLR_F0 == SetPsw(setBit(psw, F0, 0))
CPL_F0 == SetPsw(setBit(psw, F0, 1 - getBit(psw, F0)))
SEL_RB == \E bank \in {0, 1} : SetPsw(setBit(psw, BS, bank))
MOV_PSW_A == SetPsw(a)
MOV_A_PSW == SetA(psw)
F1 == /\ f1' \in {0, 1 - f1}         \* CLR F1, CPL F1
      /\ digits' = NoSum /\ UNCHANGED <<a, psw, ram>>

-----------------------------------------------------------------------------
(* Registers and RAM.                                                      *)

Keep == digits' = NoSum /\ UNCHANGED <<psw, f1>>

\* XCH A,@Rr does not mask its pointer, MOV @Rr,#data neither.
XCH == Keep /\ \E r \in Reg : a' = readReg(r) /\ writeReg(r, a)
XCH_AT == Keep /\ \E r \in Pointer : a' \in ReadAt(readReg(r)) /\ WriteAt(readReg(r), a)
XCHD ==
    /\ Keep
    /\ \E r \in Pointer :
         LET pos == Masked(r) IN
         /\ ram' = [ram EXCEPT ![pos] = High(@) * Nibble + Low(a)]
         /\ a' = High(a) * Nibble + Low(ram[pos])

\* INC, DEC and DJNZ Rr, MOV Rr,A and MOV Rr,#data.
COUNT == Keep /\ UNCHANGED a /\ \E r \in Reg :
             writeReg(r, Wrap(readReg(r) + 1)) \/ writeReg(r, Wrap(readReg(r) + Full - 1))
MOV_R == Keep /\ UNCHANGED a /\ \E r \in Reg, v \in Input \cup {a} : writeReg(r, v)

INC_AT == Keep /\ UNCHANGED a /\ \E r \in Pointer : WriteAt(Masked(r), Wrap(ram[Masked(r)] + 1))
MOV_AT == Keep /\ UNCHANGED a /\ \E r \in Pointer :
              WriteAt(Masked(r), a) \/ \E v \in Input : WriteAt(readReg(r), v)

Arithmetic == ADD \/ ADDC \/ DA \/ INC_A \/ DEC_A \/ RRC \/ RLC
Moves == CLR_A \/ CPL_A \/ SWAP \/ RL \/ RR \/ LOGIC \/ MOV_A \/ XCH \/ XCH_AT \/ XCHD
Flags == CLR_C \/ CPL_C \/ CLR_F0 \/ CPL_F0 \/ SEL_RB \/ MOV_PSW_A \/ MOV_A_PSW \/ F1
Memory == COUNT \/ MOV_R \/ INC_AT \/ MOV_AT

Next == Arithmetic \/ Moves \/ Flags \/ Memory
Spec == Init /\ [][Next]_dataVars

-----------------------------------------------------------------------------
(* Properties.                                                             *)

DataTypeOK ==
    /\ a \in Byte /\ psw \in Byte /\ f1 \in {0, 1}
    /\ ram \in [0..RamSize - 1 -> Byte]
    /\ digits \in Int

\* DA A after an addition of two decimal numbers leaves their decimal sum in CY and A, as
\* long as that is below 160: beyond it the code computes the carry from the corrected
\* digit alone and loses that of the addition (intel8049.cpp:385-395, 950-960).
DecimalExact ==
    [][DA /\ digits >= 0 /\ digits < Nibble * Radix =>
         /\ Radix * Radix * getBit(psw', CY) + Decimal(a') = digits
         /\ IsDecimal(a')]_dataVars

\* The registers of the bank that BS does not select keep their values, whatever the
\* program does without a pointer: an interrupt routine that selects the other bank
\* leaves those of the program alone (intel8049.cpp:877-885).
Indirect == XCH_AT \/ XCHD \/ INC_AT \/ MOV_AT
OtherBank == {r + Bank1 * (1 - getBit(psw, BS)) : r \in Reg}
BanksApart == [][Indirect \/ \A i \in OtherBank : ram'[i] = ram[i]]_dataVars

\* Carry and accumulator are one number of 9 bits, every flag a flag of its own, although
\* the code keeps the flags in bits of a byte that one assignment follows another on.
Programmer == INSTANCE Accumulator WITH
    value  <- getBit(psw, CY) * Full + a,
    half   <- getBit(psw, AC),
    flag0  <- getBit(psw, F0),
    bank   <- getBit(psw, BS),
    lower  <- psw % BS
ImplementsAccumulator == Programmer!Spec
=============================================================================
