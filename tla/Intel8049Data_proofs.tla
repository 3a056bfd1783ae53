------------------------ MODULE Intel8049Data_proofs ------------------------
(***************************************************************************)
(* Theorems about Intel8049Data, for the widths of the code and any RAM.   *)
(***************************************************************************)
EXTENDS Intel8049Data, TLAPS

Widths == Nibble = 16 /\ Radix = 10

LEMMA Weights ==
    Widths => Full = 256 /\ Byte = 0..255 /\ CY = 128 /\ AC = 64 /\ F0 = 32 /\ BS = 16
  BY SMT DEF Widths, Full, Byte, CY, AC, F0, BS

-----------------------------------------------------------------------------
(* The decimal correction.                                                 *)

\* What the last addition leaves, as long as digits remembers it.
Added(x, y, c) ==
    /\ IsDecimal(x) /\ IsDecimal(y)
    /\ digits = Decimal(x) + Decimal(y) + c
    /\ a = Wrap(x + y + c)
    /\ getBit(psw, CY) = Flag(x + y + c >= Full)
    /\ getBit(psw, AC) = Flag(Low(x) + Low(y) + c >= Nibble)
Remembered == digits >= 0 => \E x, y \in Byte, c \in {0, 1} : Added(x, y, c)

DataInv == DataTypeOK /\ Remembered

\* The two corrections of DA A at the code's widths, and the byte they leave.
FirstStep(acc, half) == IF acc % 16 >= 10 \/ half THEN (acc + 6) % 256 ELSE acc
HiNibble(low, carry) == low \div 16 + (IF low \div 16 >= 10 \/ carry THEN 6 ELSE 0)
Joined(hi, low) == ((hi * 16) % 256) + (low % 16)

\* The bytes with the digits xh xl and yh yl, and c, through addition and correction.
Raw(xl, xh, yl, yh, c) == 16 * (xh + yh) + xl + yl + c
LowOf(xl, xh, yl, yh, c) == FirstStep(Raw(xl, xh, yl, yh, c) % 256, xl + yl + c >= 16)
HiOf(xl, xh, yl, yh, c) ==
    HiNibble(LowOf(xl, xh, yl, yh, c), Raw(xl, xh, yl, yh, c) >= 256)
ByteOf(xl, xh, yl, yh, c) == Joined(HiOf(xl, xh, yl, yh, c), LowOf(xl, xh, yl, yh, c))

\* Below 160 the byte has the digits of the decimal sum, and HiOf says whether there is a
\* carry.
Digits(xl, xh, yl, yh, c) ==
    /\ xl \in 0..9 /\ xh \in 0..9 /\ yl \in 0..9 /\ yh \in 0..9 /\ c \in {0, 1}
    /\ 10 * (xh + yh) + xl + yl + c < 160
Corrected(xl, xh, yl, yh, c, hi, byte) ==
    /\ hi \in Int /\ byte \in Int /\ byte % 16 < 10 /\ byte \div 16 < 10
    /\ (IF hi >= 16 THEN 100 ELSE 0) + 10 * (byte \div 16) + (byte % 16)
         = 10 * (xh + yh) + xl + yl + c
LEMMA DecimalArithmetic ==
    \A xl, xh, yl, yh, c :
        Digits(xl, xh, yl, yh, c) =>
            Corrected(xl, xh, yl, yh, c, HiOf(xl, xh, yl, yh, c), ByteOf(xl, xh, yl, yh, c))
  <1> SUFFICES ASSUME NEW xl, NEW xh, NEW yl, NEW yh, NEW c, Digits(xl, xh, yl, yh, c)
               PROVE  Corrected(xl, xh, yl, yh, c,
                                HiOf(xl, xh, yl, yh, c), ByteOf(xl, xh, yl, yh, c))
    OBVIOUS
  <1>0. /\ xl \in 0..9 /\ xh \in 0..9 /\ yl \in 0..9 /\ yh \in 0..9 /\ c \in {0, 1}
        /\ 10 * (xh + yh) + xl + yl + c < 160
    BY DEF Digits
  <1> DEFINE sum == Raw(xl, xh, yl, yh, c)
             low == LowOf(xl, xh, yl, yh, c)
             hi == HiOf(xl, xh, yl, yh, c)
             byte == ByteOf(xl, xh, yl, yh, c)
             k == IF xl + yl + c >= 10 THEN 1 ELSE 0
             s == xl + yl + c - 10 * k
             h == xh + yh + k
  <1>1. k \in {0, 1} /\ s \in 0..9 /\ h \in 0..15
    BY <1>0
  <1>2. sum = 16 * (xh + yh) + xl + yl + c /\ sum < 256 /\ sum % 256 = sum
    BY <1>0 DEF Raw
  <1>3. low = 16 * h + s
    BY <1>0, <1>1, <1>2 DEF FirstStep, LowOf
  <1> HIDE DEF h, s, low
  <1>4. low \div 16 = h /\ low % 16 = s
    BY <1>0, <1>1, <1>3
  <1>5. hi = h + (IF h >= 10 THEN 6 ELSE 0)
    BY <1>0, <1>2, <1>4 DEF HiNibble, HiOf, low
  <1> HIDE DEF hi, sum
  <1>6. byte = ((hi * 16) % 256) + s
    BY <1>0, <1>4 DEF Joined, ByteOf, low, hi
  <1> HIDE DEF byte
  <1>7. CASE h >= 10
    <2>1. hi = h + 6 /\ byte = 16 * (h - 10) + s
      BY <1>0, <1>1, <1>5, <1>6, <1>7
    <2>2. byte \div 16 = h - 10 /\ byte % 16 = s
      BY <1>0, <1>1, <1>7, <2>1
    <2> QED
      BY <1>0, <1>1, <1>7, <2>1, <2>2 DEF h, s, Corrected, hi, byte
  <1>8. CASE h < 10
    <2>1. hi = h /\ byte = 16 * h + s
      BY <1>0, <1>1, <1>5, <1>6, <1>8
    <2>2. byte \div 16 = h /\ byte % 16 = s
      BY <1>0, <1>1, <1>8, <2>1
    <2> QED
      BY <1>0, <1>1, <1>8, <2>1, <2>2 DEF h, s, Corrected, hi, byte
  <1> QED
    BY <1>0, <1>1, <1>7, <1>8 DEF hi, byte

LEMMA Correction ==
    ASSUME Widths, DataTypeOK, DA, digits < 160,
           NEW x \in Byte, NEW y \in Byte, NEW c \in {0, 1}, Added(x, y, c)
    PROVE  100 * getBit(psw', CY) + Decimal(a') = digits /\ IsDecimal(a')
  <1> DEFINE xl == x % 16  xh == x \div 16  yl == y % 16  yh == y \div 16
             sum == Raw(xl, xh, yl, yh, c)
             low == LowOf(xl, xh, yl, yh, c)
             hi == HiOf(xl, xh, yl, yh, c)
             byte == ByteOf(xl, xh, yl, yh, c)
  <1>1. /\ x \in 0..255 /\ y \in 0..255 /\ psw \in 0..255
        /\ x = 16 * xh + xl /\ y = 16 * yh + yl
    <2>1. x \in 0..255 /\ y \in 0..255 /\ psw \in 0..255
      BY Weights DEF DataTypeOK
    <2> QED
      BY <2>1
  <1>2. xl \in 0..9 /\ xh \in 0..9 /\ yl \in 0..9 /\ yh \in 0..9
    BY <1>1 DEF Added, IsDecimal, Low, High, Widths
  <1>3. digits = 10 * (xh + yh) + xl + yl + c
    BY <1>2 DEF Added, Decimal, Low, High, Widths
  <1>4. a = sum % 256 /\ (getBit(psw, 128) = 1 <=> sum >= 256)
    BY <1>1, Weights DEF Added, Wrap, Flag, Raw
  <1>5. getBit(psw, 64) = 1 <=> xl + yl + c >= 16
    BY Weights DEF Added, Low, Flag, Widths
  <1>6. a' = byte /\ psw' = setBit(psw, 128, Flag(hi >= 16))
    <2>1. a + 16 - 10 = a + 6
      BY Weights DEF DataTypeOK
    <2>2. (IF Low(a) >= 10 \/ getBit(psw, 64) = 1 THEN Wrap(a + 16 - 10) ELSE a) = low
      BY <1>4, <1>5, <2>1, Weights DEF Low, Wrap, Widths, FirstStep, LowOf
    <2>3. hi = High(low) + (IF High(low) >= 10 \/ getBit(psw, 128) = 1 THEN 16 - 10 ELSE 0)
      BY <1>4 DEF High, Widths, HiNibble, HiOf
    <2>4. byte = ((hi * 16) % 256) + (low % 16)
      BY DEF ByteOf, Joined
    <2> HIDE DEF low, hi, byte
    <2> QED
      BY <2>2, <2>3, <2>4, Weights DEF DA, Low, Wrap, Widths
  <1> HIDE DEF xl, xh, yl, yh, sum, low, hi, byte
  <1>7. getBit(psw', 128) = IF hi >= 16 THEN 1 ELSE 0
    BY <1>1, <1>6 DEF Flag, setBit, getBit
  <1>8. /\ hi \in Int /\ byte \in Int /\ byte % 16 < 10 /\ byte \div 16 < 10
        /\ (IF hi >= 16 THEN 100 ELSE 0) + 10 * (byte \div 16) + (byte % 16) = digits
    <2>1. 10 * (xh + yh) + xl + yl + c < 160
      BY <1>2, <1>3
    <2>2. Corrected(xl, xh, yl, yh, c, hi, byte)
      BY <1>2, <2>1, DecimalArithmetic DEF hi, byte, Digits
    <2> QED
      BY <1>3, <2>2 DEF Corrected
  <1>9. Decimal(a') = 10 * (byte \div 16) + (byte % 16) /\ IsDecimal(a')
    BY <1>6, <1>8 DEF Decimal, IsDecimal, Low, High, Widths
  <1> QED
    <2> HIDE DEF Decimal
    <2>1. CASE hi >= 16
      BY <1>7, <1>8, <1>9, <2>1, Weights
    <2>2. CASE ~(hi >= 16)
      BY <1>7, <1>8, <1>9, <2>2, Weights
    <2> QED
      BY <2>1, <2>2
-----------------------------------------------------------------------------
(* The invariant.                                                          *)

LEMMA Remainder == \A n \in Nat, m \in Nat \ {0} : n % m \in 0..m - 1
  BY SMT

LEMMA Sizes ==
    /\ RamSize \in Nat /\ RamSize > 0 /\ Regs \in Nat /\ Bank1 \in Nat
    /\ Regs <= Bank1 /\ Bank1 + Regs <= RamSize
  <1>1. RamSize \in Nat \ {0} /\ Regs \in Nat \ {0} /\ Bank1 \in Nat \ {0}
    BY DataOK
  <1> QED
    BY <1>1, DataOK

LEMMA Registers ==
    ASSUME Widths, DataTypeOK
    PROVE  /\ Base = 0 \/ Base = Bank1
           /\ \A r \in Reg : readReg(r) \in 0..255 /\ Base + r \in 0..RamSize - 1
           /\ \A r \in Pointer : Masked(r) \in 0..RamSize - 1 /\ ram[Masked(r)] \in 0..255
           /\ Source \subseteq 0..255 /\ WildSource \subseteq 0..255
  <1>1. Base = 0 \/ Base = Bank1
    BY DEF Base
  <1>2. \A r \in Reg : Base + r \in 0..RamSize - 1
    BY <1>1, Sizes DEF Reg
  <1>3. ram \in [0..RamSize - 1 -> 0..255]
    BY Weights DEF DataTypeOK
  <1>4. \A r \in Reg : readReg(r) \in 0..255
    BY <1>2, <1>3 DEF readReg
  <1>5. \A r \in Pointer : r \in Reg /\ Masked(r) \in 0..RamSize - 1
    <2> TAKE r \in Pointer
    <2>1. r \in Reg
      BY DEF Pointer
    <2>2. readReg(r) \in Nat /\ RamSize \in Nat \ {0}
      BY <1>4, <2>1, Sizes
    <2> QED
      BY <2>1, <2>2, Remainder DEF Masked
  <1>6. \A r \in Pointer : ram[Masked(r)] \in 0..255
    BY <1>3, <1>5
  <1>7. Input \subseteq 0..255 /\ Garbage \subseteq 0..255
    BY DataOK, Weights
  <1>8. Source \subseteq 0..255
    BY <1>4, <1>6, <1>7 DEF Source
  <1>9. ASSUME NEW r \in Pointer PROVE ReadAt(readReg(r)) \subseteq 0..255
    <2>1. readReg(r) \in 0..255
      BY <1>4, <1>5
    <2>2. CASE readReg(r) < RamSize
      <3>1. readReg(r) \in 0..RamSize - 1
        BY <2>1, <2>2, Sizes
      <3> QED
        BY <1>3, <2>2, <3>1 DEF ReadAt
    <2>3. CASE ~(readReg(r) < RamSize)
      BY <1>7, <2>3 DEF ReadAt
    <2> QED
      BY <2>2, <2>3
  <1>10. WildSource \subseteq 0..255
    BY <1>8, <1>9 DEF WildSource
  <1> QED
    BY <1>1, <1>2, <1>4, <1>5, <1>6, <1>8, <1>10

LEMMA InitData == ASSUME Widths, Init PROVE DataInv
  BY Weights DEF Widths, Init, DataInv, DataTypeOK, Remembered, NoSum, Full, Byte

\* An addition leaves what it has added.
LEMMA AddKeeps ==
    ASSUME Widths, DataTypeOK, NEW v \in 0..255, NEW c \in {0, 1}, addToAcc(v, c)
    PROVE  DataTypeOK' /\ Remembered'
  <1> DEFINE carry == Flag(a + v + c >= Full)
             half == Flag(Low(a) + Low(v) + c >= Nibble)
             between == setBit(psw, 128, carry)
             after == setBit(between, 64, half)
  <1>1. /\ a \in 0..255 /\ psw \in 0..255 /\ f1 \in {0, 1}
        /\ ram \in [0..RamSize - 1 -> 0..255]
    BY Weights DEF DataTypeOK
  <1>2. carry \in {0, 1} /\ half \in {0, 1}
    BY DEF Flag
  <1>3. psw' = after
    BY Weights DEF addToAcc, SetFlags
  <1> HIDE DEF carry, half
  <1>4. between \in 0..255 /\ getBit(between, 128) = carry
    BY <1>1, <1>2 DEF setBit, getBit
  <1> HIDE DEF between
  <1>5. /\ after \in 0..255 /\ getBit(after, 128) = getBit(between, 128)
        /\ getBit(after, 64) = half
    <2>1. between \in 0..255
      BY <1>4
    <2>2. half \in {0, 1}
      BY <1>2
    <2> QED
      BY <2>1, <2>2 DEF setBit, getBit
  <1> HIDE DEF after
  <1>6. a' = (a + v + c) % 256 /\ f1' = f1 /\ ram' = ram
    BY Weights DEF addToAcc, Sum, Wrap
  <1>7. digits' = IF IsDecimal(a) /\ IsDecimal(v) THEN Decimal(a) + Decimal(v) + c ELSE -1
    BY DEF addToAcc, Sum, NoSum
  <1>8. digits' \in Int
    BY <1>1, <1>7 DEF Decimal, Low, High, Widths
  <1>9. /\ a' \in 0..255 /\ psw' \in 0..255 /\ f1' \in {0, 1} /\ digits' \in Int
        /\ ram' \in [0..RamSize - 1 -> 0..255]
    BY <1>1, <1>3, <1>5, <1>6, <1>8
  <1>10. DataTypeOK'
    BY <1>9, Weights DEF DataTypeOK
  <1>11. ASSUME NEW x, x = a, digits' >= 0 PROVE Added(x, v, c)'
    <2>1. IsDecimal(x) /\ IsDecimal(v) /\ digits' = Decimal(x) + Decimal(v) + c
      BY <1>7, <1>11
    <2>2. getBit(psw', 128) = carry /\ getBit(psw', 64) = half
      BY <1>3, <1>4, <1>5
    <2> QED
      BY <1>6, <1>11, <2>1, <2>2, Weights DEF Added, carry, half, Wrap
  <1>12. a \in Byte /\ v \in Byte
    BY <1>1, Weights
  <1>13. Remembered'
    <2> SUFFICES ASSUME digits' >= 0
                 PROVE  \E x, y \in Byte, d \in {0, 1} : Added(x, y, d)'
      BY DEF Remembered
    <2> QED
      BY <1>11, <1>12
  <1> QED
    BY <1>10, <1>13

\* Every other instruction forgets the sum, so that only the types are at stake.
LEMMA Forgets ==
    ASSUME Widths, digits' = NoSum, a' \in 0..255, psw' \in 0..255, f1' \in {0, 1},
           ram' \in [0..RamSize - 1 -> 0..255]
    PROVE  DataInv'
  <1>1. DataTypeOK'
    <2>1. NoSum \in Int
      BY DEF NoSum
    <2>2. Byte = 0..255
      BY Weights
    <2> QED
      BY <2>1, <2>2 DEF DataTypeOK
  <1>2. Remembered'
    <2>1. ~(digits' >= 0)
      BY DEF NoSum
    <2> QED
      BY <2>1 DEF Remembered
  <1> QED
    BY <1>1, <1>2 DEF DataInv

LEMMA StepData == ASSUME Widths, DataInv, [Next]_dataVars PROVE DataInv'
  <1>1. /\ a \in 0..255 /\ psw \in 0..255 /\ f1 \in {0, 1}
        /\ ram \in [0..RamSize - 1 -> 0..255]
    BY Weights DEF DataInv, DataTypeOK
  <1>2. DataTypeOK
    BY DEF DataInv
  <1>3. getBit(psw, CY) \in {0, 1} /\ getBit(a, CY) \in {0, 1} /\ a % 2 \in {0, 1}
    BY <1>1, Weights DEF getBit
  <1>4. CASE ADD \/ ADDC
    <2>1. PICK v \in WildSource, c \in {0, 1} : addToAcc(v, c)
      BY <1>3, <1>4 DEF ADD, ADDC, WildSource
    <2>2. v \in 0..255
      BY <1>2, Registers
    <2> QED
      BY <1>2, <2>1, <2>2, AddKeeps DEF DataInv
  <1>5. ASSUME NEW val \in 0..255, SetA(val) PROVE DataInv'
    BY <1>1, <1>5, Forgets DEF SetA
  <1>6. ASSUME NEW val \in 0..255, SetPsw(val) PROVE DataInv'
    BY <1>1, <1>6, Forgets DEF SetPsw
  <1>7. ASSUME Keep, a' \in 0..255, ram' \in [0..RamSize - 1 -> 0..255] PROVE DataInv'
    BY <1>1, <1>7, Forgets DEF Keep
  <1>8. CASE DA
    <2>1. digits' = NoSum /\ f1' = f1 /\ ram' = ram
      BY <1>8 DEF DA
    <2>2. a' \in 0..255 /\ psw' \in 0..255
      <3> DEFINE low == IF Low(a) >= Radix \/ getBit(psw, AC) = 1
                          THEN Wrap(a + Nibble - Radix) ELSE a
                 hi == High(low) + (IF High(low) >= Radix \/ getBit(psw, CY) = 1
                                      THEN Nibble - Radix ELSE 0)
      <3>1. a' = Wrap(hi * Nibble) + Low(low) /\ psw' = setBit(psw, CY, Flag(hi >= Nibble))
        BY <1>8 DEF DA
      <3>2. low \in 0..255
        BY <1>1, Weights DEF Wrap, Widths
      <3> HIDE DEF low
      <3>3. hi \in 0..21
        BY <3>2, Weights DEF High, Widths
      <3> HIDE DEF hi
      <3>4. a' \in 0..255
        BY <3>1, <3>2, <3>3, Weights DEF Wrap, Low, Widths
      <3>5. psw' \in 0..255
        BY <1>1, <3>1, Weights DEF setBit, getBit, Flag
      <3> QED
        BY <3>4, <3>5
    <2> QED
      BY <1>1, <2>1, <2>2, Forgets
  <1>9. CASE INC_A \/ DEC_A \/ CLR_A \/ CPL_A
    <2>1. /\ Wrap(a + 1) \in 0..255 /\ Wrap(a + Full - 1) \in 0..255
          /\ Full - 1 - a \in 0..255
      BY <1>1, Weights DEF Wrap
    <2> QED
      BY <1>5, <1>9, <2>1 DEF INC_A, DEC_A, CLR_A, CPL_A
  <1>10. CASE SWAP \/ RL \/ RR
    <2>1. Low(a) * Nibble + High(a) \in 0..255
      BY <1>1 DEF Low, High, Widths
    <2>2. Wrap(2 * a) + getBit(a, CY) \in 0..255
      BY <1>1, Weights DEF Wrap, getBit
    <2>3. setBit(a \div 2, CY, a % 2) \in 0..255
      BY <1>1, Weights DEF setBit, getBit
    <2> QED
      BY <1>5, <1>10, <2>1, <2>2, <2>3 DEF SWAP, RL, RR
  <1>11. CASE LOGIC \/ MOV_A \/ MOV_A_PSW
    <2>1. \E val \in 0..255 : SetA(val)
      BY <1>1, <1>2, <1>11, Registers, Weights DEF LOGIC, Logic, MOV_A, MOV_A_PSW
    <2> QED
      BY <1>5, <2>1
  <1>12. CASE RRC \/ RLC
    <2>1. digits' = NoSum /\ f1' = f1 /\ ram' = ram
      BY <1>12 DEF RRC, RLC, RotatesFlags
    <2>2. \E c \in {0, 1} : psw' = setBit(psw, CY, c)
      BY <1>3, <1>12 DEF RRC, RLC, RotatesFlags
    <2>3. psw' \in 0..255
      BY <1>1, <2>2, Weights DEF setBit, getBit
    <2>4. setBit(a \div 2, CY, getBit(psw, CY)) \in 0..255
      BY <1>1, Weights DEF setBit, getBit
    <2>5. Wrap(2 * a) + getBit(psw, CY) \in 0..255
      BY <1>1, Weights DEF Wrap, getBit
    <2>6. a' \in 0..255
      BY <1>12, <2>4, <2>5 DEF RRC, RLC, RotateRight
    <2> QED
      BY <1>1, <2>1, <2>3, <2>6, Forgets
  <1>13. CASE CLR_C \/ CPL_C \/ CLR_F0 \/ CPL_F0 \/ SEL_RB \/ MOV_PSW_A
    <2>1. \A c \in {0, 1} : /\ setBit(psw, CY, c) \in 0..255
                            /\ setBit(psw, F0, c) \in 0..255
                            /\ setBit(psw, BS, c) \in 0..255
      BY <1>1, Weights DEF setBit, getBit
    <2>2. 1 - getBit(psw, CY) \in {0, 1} /\ 1 - getBit(psw, F0) \in {0, 1}
      BY <1>1, Weights DEF getBit
    <2>3. \E val \in 0..255 : SetPsw(val)
      BY <1>1, <1>13, <2>1, <2>2
         DEF CLR_C, CPL_C, CLR_F0, CPL_F0, SEL_RB, MOV_PSW_A
    <2> QED
      BY <1>6, <2>3
  <1>14. CASE F1
    <2>1. f1' \in {0, 1}
      BY <1>1, <1>14 DEF F1
    <2> QED
      BY <1>1, <1>14, <2>1, Forgets DEF F1
  <1>15. ASSUME NEW r \in Reg, NEW val \in 0..255, writeReg(r, val)
         PROVE  ram' \in [0..RamSize - 1 -> 0..255]
    BY <1>1, <1>15 DEF writeReg
  <1>16. ASSUME NEW pos, NEW val \in 0..255, WriteAt(pos, val)
         PROVE  ram' \in [0..RamSize - 1 -> 0..255]
    BY <1>1, <1>16 DEF WriteAt
  <1>17. CASE XCH \/ XCH_AT \/ XCHD
    <2>1. CASE XCH
      <3>1. PICK r \in Reg : a' = readReg(r) /\ writeReg(r, a)
        BY <2>1 DEF XCH
      <3>2. a' \in 0..255
        BY <1>2, <3>1, Registers
      <3> QED
        BY <1>1, <1>7, <1>15, <2>1, <3>1, <3>2 DEF XCH
    <2>2. CASE XCH_AT
      <3>1. PICK r \in Pointer : a' \in ReadAt(readReg(r)) /\ WriteAt(readReg(r), a)
        BY <2>2 DEF XCH_AT
      <3>2. a' \in 0..255
        BY <1>2, <3>1, Registers DEF WildSource
      <3> QED
        BY <1>1, <1>7, <1>16, <2>2, <3>1, <3>2 DEF XCH_AT
    <2>3. CASE XCHD
      <3>1. PICK r \in Pointer :
              /\ ram' = [ram EXCEPT ![Masked(r)] = High(@) * Nibble + Low(a)]
              /\ a' = High(a) * Nibble + Low(ram[Masked(r)])
        BY <2>3 DEF XCHD
      <3>2. Masked(r) \in 0..RamSize - 1 /\ ram[Masked(r)] \in 0..255
        BY <1>2, Registers
      <3>3. \A v, w \in 0..255 : High(v) * Nibble + Low(w) \in 0..255
        BY DEF High, Low, Widths
      <3>4. a' \in 0..255 /\ High(ram[Masked(r)]) * Nibble + Low(a) \in 0..255
        BY <1>1, <3>1, <3>2, <3>3
      <3> QED
        BY <1>1, <1>7, <2>3, <3>1, <3>2, <3>4 DEF XCHD
    <2> QED
      BY <1>17, <2>1, <2>2, <2>3
  <1>18. CASE COUNT \/ MOV_R
    <2>1. \E r \in Reg, val \in 0..255 : writeReg(r, val)
      <3>1. CASE COUNT
        <4>1. PICK r \in Reg : \/ writeReg(r, Wrap(readReg(r) + 1))
                               \/ writeReg(r, Wrap(readReg(r) + Full - 1))
          BY <3>1 DEF COUNT
        <4>2. readReg(r) \in 0..255
          BY <1>2, Registers
        <4>3. Wrap(readReg(r) + 1) \in 0..255 /\ Wrap(readReg(r) + Full - 1) \in 0..255
          BY <4>2, Weights DEF Wrap
        <4> QED
          BY <4>1, <4>3
      <3>2. CASE MOV_R
        <4>1. PICK r \in Reg, v \in Input \cup {a} : writeReg(r, v)
          BY <3>2 DEF MOV_R
        <4>2. v \in 0..255
          <5>1. Input \subseteq 0..255
            BY DataOK, Weights
          <5> QED
            BY <1>1, <4>1, <5>1
        <4> QED
          BY <4>1, <4>2
      <3> QED
        BY <1>18, <3>1, <3>2
    <2>2. Keep /\ a' = a
      BY <1>18 DEF COUNT, MOV_R
    <2> QED
      BY <1>1, <1>7, <1>15, <2>1, <2>2
  <1>19. CASE INC_AT \/ MOV_AT
    <2>1. \E pos, val \in 0..255 : WriteAt(pos, val)
      <3>1. CASE INC_AT
        <4>1. PICK r \in Pointer : WriteAt(Masked(r), Wrap(ram[Masked(r)] + 1))
          BY <3>1 DEF INC_AT
        <4>2. Wrap(ram[Masked(r)] + 1) \in 0..255 /\ Masked(r) \in 0..255
          <5>1. ram[Masked(r)] \in 0..255 /\ Masked(r) \in 0..RamSize - 1
            BY <1>2, Registers
          <5>2. RamSize <= 256
            BY Weights, DataOK
          <5>3. (ram[Masked(r)] + 1) % 256 \in 0..255
            BY <5>1
          <5>4. Masked(r) \in 0..255
            BY <5>1, <5>2, Sizes
          <5> QED
            BY <5>3, <5>4, Weights DEF Wrap
        <4> QED
          BY <4>1, <4>2
      <3>2. CASE MOV_AT
        <4>1. PICK r \in Pointer : \/ WriteAt(Masked(r), a)
                                   \/ \E v \in Input : WriteAt(readReg(r), v)
          BY <3>2 DEF MOV_AT
        <4>2. Input \subseteq 0..255 /\ readReg(r) \in 0..255 /\ Masked(r) \in 0..255
          <5>1. /\ readReg(r) \in 0..255 /\ Masked(r) \in 0..RamSize - 1
            BY <1>2, Registers DEF Pointer
          <5> QED
            BY <5>1, Weights, DataOK, Sizes
        <4> QED
          BY <1>1, <4>1, <4>2
      <3> QED
        BY <1>19, <3>1, <3>2
    <2>2. Keep /\ a' = a
      BY <1>19 DEF INC_AT, MOV_AT
    <2> QED
      BY <1>1, <1>7, <1>16, <2>1, <2>2
  <1>20. CASE UNCHANGED dataVars
    BY <1>20 DEF DataInv, DataTypeOK, Remembered, Added, dataVars
  <1> QED
    BY <1>4, <1>8, <1>9, <1>10, <1>11, <1>12, <1>13, <1>14, <1>17, <1>18, <1>19, <1>20
       DEF Next, Arithmetic, Moves, Flags, Memory

-----------------------------------------------------------------------------
(* The theorems.                                                           *)

\* The data path and the history of the addition just executed stay consistent.
THEOREM DataInvariant == Widths => (Spec => []DataInv)
  <1> SUFFICES ASSUME Widths PROVE Spec => []DataInv
    OBVIOUS
  <1>1. Init => DataInv
    BY InitData
  <1>2. DataInv /\ [Next]_dataVars => DataInv'
    BY StepData
  <1> QED
    BY <1>1, <1>2, PTL DEF Spec

\* The accumulator, PSW and every cell of the RAM stay bytes, whatever the program does:
\* no carry, borrow or rotation gets past the conversions to uint8_t.
THEOREM DataIsTyped == Widths => (Spec => []DataTypeOK)
  <1>1. DataInv => DataTypeOK
    BY DEF DataInv
  <1> QED
    BY <1>1, DataInvariant, PTL

\* DA A is exact: after ADD or ADDC of two packed decimal numbers CY and A hold their
\* decimal sum, for every pair of numbers whose sum is below 160.
THEOREM DecimalSumsAreExact == Widths => (Spec => DecimalExact)
  <1> SUFFICES ASSUME Widths PROVE Spec => DecimalExact
    OBVIOUS
  <1>1. DataInv /\ [Next]_dataVars =>
          [DA /\ digits >= 0 /\ digits < Nibble * Radix =>
             /\ Radix * Radix * getBit(psw', CY) + Decimal(a') = digits
             /\ IsDecimal(a')]_dataVars
    <2> SUFFICES ASSUME DataInv, DA, digits >= 0, digits < Nibble * Radix
                 PROVE  /\ Radix * Radix * getBit(psw', CY) + Decimal(a') = digits
                        /\ IsDecimal(a')
      OBVIOUS
    <2>1. digits < 160 /\ Radix * Radix = 100
      BY DEF Widths
    <2>2. PICK x \in Byte, y \in Byte, c \in {0, 1} : Added(x, y, c)
      BY DEF DataInv, Remembered
    <2>3. 100 * getBit(psw', CY) + Decimal(a') = digits /\ IsDecimal(a')
      BY <2>1, <2>2, Correction DEF DataInv
    <2> QED
      BY <2>1, <2>3
  <1> QED
    BY <1>1, DataInvariant, PTL DEF Spec, DecimalExact

\* An instruction that names a register works on the selected bank only, so that an
\* interrupt routine which selects the other bank leaves the program's registers alone.
THEOREM BanksStayApart == Widths => (Spec => BanksApart)
  <1> SUFFICES ASSUME Widths PROVE Spec => BanksApart
    OBVIOUS
  <1>1. DataInv /\ [Next]_dataVars =>
          [Indirect \/ \A i \in OtherBank : ram'[i] = ram[i]]_dataVars
    <2> SUFFICES ASSUME DataInv, Next, ~Indirect, NEW i \in OtherBank
                 PROVE  ram'[i] = ram[i]
      OBVIOUS
    <2>1. psw \in 0..255 /\ ram \in [0..RamSize - 1 -> 0..255]
      BY Weights DEF DataInv, DataTypeOK
    <2>2. getBit(psw, BS) \in {0, 1}
      BY <2>1, Weights DEF getBit
    <2>3. ASSUME NEW r \in Reg, NEW val, writeReg(r, val) PROVE ram'[i] = ram[i]
      <3>1. Base + r # i
        BY <2>2, Sizes DEF Base, OtherBank, Reg
      <3>2. i \in 0..RamSize - 1
        BY <2>2, Sizes DEF OtherBank, Reg
      <3> QED
        BY <2>1, <2>3, <3>1, <3>2 DEF writeReg
    <2>4. CASE XCH \/ COUNT \/ MOV_R
      BY <2>3, <2>4 DEF XCH, COUNT, MOV_R
    <2>5. CASE ~(XCH \/ COUNT \/ MOV_R)
      <3>1. ram' = ram
        BY <2>5 DEF Next, Arithmetic, Moves, Flags, Memory, Indirect, ADD, ADDC, addToAcc,
           Sum, DA, INC_A, DEC_A, CLR_A, CPL_A, SWAP, RL, RR, LOGIC, Logic, MOV_A, SetA,
           RRC, RLC, RotatesFlags, CLR_C, CPL_C, CLR_F0, CPL_F0, SEL_RB, MOV_PSW_A,
           MOV_A_PSW, SetPsw, F1
      <3> QED
        BY <3>1
    <2> QED
      BY <2>4, <2>5
  <1> QED
    BY <1>1, DataInvariant, PTL DEF Spec, BanksApart

-----------------------------------------------------------------------------
(* The refinement.                                                         *)

LEMMA InitAccumulator == ASSUME Widths, Init PROVE Programmer!Init
  <1>1. getBit(8, 128) = 0 /\ getBit(8, 64) = 0 /\ getBit(8, 32) = 0 /\ getBit(8, 16) = 0
    BY DEF getBit
  <1> QED
    BY <1>1, Weights DEF Init, Programmer!Init, Programmer!Full, Widths

LEMMA View ==
    ASSUME Widths, a \in 0..255, psw \in 0..255
    PROVE  /\ Programmer!Full = 256 /\ Programmer!Byte = 0..255
           /\ Programmer!Carry = getBit(psw, 128) /\ Programmer!A = a
           /\ getBit(psw, 128) \in {0, 1}
           /\ getBit(psw, CY) * Full + a = getBit(psw, 128) * 256 + a
  <1>1. getBit(psw, 128) \in {0, 1}
    BY DEF getBit
  <1>2. /\ (getBit(psw, 128) * 256 + a) \div 256 = getBit(psw, 128)
        /\ (getBit(psw, 128) * 256 + a) % 256 = a
    BY <1>1
  <1>3. Programmer!Full = 256 /\ Programmer!Byte = 0..255
    BY DEF Programmer!Full, Programmer!Byte, Widths
  <1> QED
    BY <1>1, <1>2, <1>3, Weights DEF Programmer!Carry, Programmer!A

LEMMA AbstractMove ==
    ASSUME Widths, a \in 0..255, psw \in 0..255, a' \in 0..255, psw' = psw, f1' = f1
    PROVE  Programmer!Next
  <1>1. (getBit(psw, CY) * Full + a)' = getBit(psw, 128) * 256 + a'
    BY Weights
  <1>2. UNCHANGED <<getBit(psw, AC), Programmer!flags>>
    BY DEF Programmer!flags
  <1>3. getBit(psw, 128) * 256 + a' \in
          getBit(psw, 128) * 256..getBit(psw, 128) * 256 + 256 - 1
    BY View
  <1>4. Programmer!Move
    BY <1>1, <1>2, <1>3, View DEF Programmer!Move
  <1> QED
    BY <1>4 DEF Programmer!Next

\* An instruction that sets the carry and perhaps the accumulator.
LEMMA CarrySet ==
    ASSUME Widths, psw \in 0..255, NEW c \in {0, 1}, psw' = setBit(psw, CY, c), f1' = f1
    PROVE  /\ UNCHANGED <<getBit(psw, AC), Programmer!flags>>
           /\ (getBit(psw, CY) * Full + a)' = c * 256 + a'
  <1>1. /\ getBit(psw', 128) = c /\ getBit(psw', 64) = getBit(psw, 64)
        /\ getBit(psw', 32) = getBit(psw, 32) /\ getBit(psw', 16) = getBit(psw, 16)
        /\ psw' % 16 = psw % 16
    BY Weights DEF setBit, getBit
  <1> QED
    BY <1>1, Weights DEF Programmer!flags

LEMMA AbstractRotate ==
    ASSUME Widths, a \in 0..255, psw \in 0..255, RRC \/ RLC
    PROVE  Programmer!Next
  <1>1. CASE RRC
    <2>1. a' = a \div 2 + 128 * getBit(psw, 128)
      BY <1>1, Weights DEF RRC, RotateRight, setBit, getBit
    <2>2. psw' = setBit(psw, CY, a % 2) /\ f1' = f1
      BY <1>1 DEF RRC, RotatesFlags
    <2>3. (getBit(psw, CY) * Full + a)' = (a % 2) * 256 + a'
      BY <2>2, CarrySet
    <2>4. LET w == getBit(psw, 128) * 256 + a
          IN  (a % 2) * 256 + a' = w \div 2 + (w % 2) * 256
      BY <2>1, View
    <2>5. Programmer!RotateRight
      BY <2>3, <2>4, View DEF Programmer!RotateRight
    <2>6. UNCHANGED <<getBit(psw, AC), Programmer!flags>>
      BY <2>2, CarrySet
    <2> QED
      BY <2>5, <2>6 DEF Programmer!Next, Programmer!Rotate
  <1>2. CASE RLC
    <2>1. a' = ((2 * a) % 256) + getBit(psw, 128)
      BY <1>2, Weights DEF RLC, Wrap
    <2>2. psw' = setBit(psw, CY, getBit(a, CY)) /\ f1' = f1
      BY <1>2 DEF RLC, RotatesFlags
    <2>3. getBit(a, CY) = a \div 128 /\ getBit(a, CY) \in {0, 1}
      BY Weights DEF getBit
    <2>4. (getBit(psw, CY) * Full + a)' = (a \div 128) * 256 + a'
      BY <2>2, <2>3, CarrySet
    <2>5. LET w == getBit(psw, 128) * 256 + a
          IN  (a \div 128) * 256 + a' = ((2 * w) % (2 * 256)) + getBit(psw, 128)
      BY <2>1, View
    <2>6. Programmer!RotateLeft
      BY <2>4, <2>5, View DEF Programmer!RotateLeft
    <2>7. UNCHANGED <<getBit(psw, AC), Programmer!flags>>
      BY <2>2, <2>3, CarrySet
    <2> QED
      BY <2>6, <2>7 DEF Programmer!Next, Programmer!Rotate
  <1> QED
    BY <1>1, <1>2

LEMMA AbstractAdd ==
    ASSUME Widths, a \in 0..255, psw \in 0..255, NEW v \in 0..255,
           NEW c \in {0, getBit(psw, CY)}, addToAcc(v, c)
    PROVE  Programmer!Next
  <1> DEFINE carry == Flag(a + v + c >= 256)
             half == Flag((a % 16) + (v % 16) + c >= 16)
             between == setBit(psw, 128, carry)
             after == setBit(between, 64, half)
  <1>1. /\ psw' = after /\ f1' = f1 /\ a' = (a + v + c) % 256
    BY Weights DEF addToAcc, SetFlags, Sum, Low, Wrap, Widths
  <1>2. c \in {0, 1} /\ carry \in {0, 1} /\ half \in {0, 1}
    BY View, Weights DEF Flag
  <1>3. /\ carry * 256 + ((a + v + c) % 256) = a + v + c
        /\ half = ((a % 16) + (v % 16) + c) \div 16
    BY <1>2 DEF Flag
  <1> HIDE DEF carry, half
  <1>4. /\ between \in 0..255 /\ getBit(between, 128) = carry
        /\ getBit(between, 32) = getBit(psw, 32) /\ getBit(between, 16) = getBit(psw, 16)
        /\ between % 16 = psw % 16
    BY <1>2 DEF setBit, getBit
  <1> HIDE DEF between
  <1>5. between \in 0..255 /\ half \in {0, 1}
    BY <1>2, <1>4
  <1>6. /\ getBit(after, 128) = getBit(between, 128) /\ getBit(after, 64) = half
        /\ getBit(after, 32) = getBit(between, 32) /\ getBit(after, 16) = getBit(between, 16)
        /\ after % 16 = between % 16
    BY <1>5 DEF setBit, getBit
  <1> HIDE DEF after
  <1>7. (getBit(psw, CY) * Full + a)' = a + v + c
    BY <1>1, <1>3, <1>4, <1>6, Weights
  <1>8. getBit(psw, AC)' = ((a % 16) + (v % 16) + c) \div 16
    BY <1>1, <1>3, <1>6, Weights
  <1>9. UNCHANGED Programmer!flags
    BY <1>1, <1>4, <1>6, Weights DEF Programmer!flags
  <1>10. Programmer!Add
    BY <1>7, <1>8, <1>9, View, Weights DEF Programmer!Add, Widths
  <1> QED
    BY <1>10 DEF Programmer!Next

LEMMA AbstractCorrect ==
    ASSUME Widths, a \in 0..255, psw \in 0..255, DA
    PROVE  Programmer!Next
  <1> DEFINE half == Low(a) >= 10 \/ getBit(psw, AC) = 1
             l == IF half THEN 6 ELSE 0
             low == (a + l) % 256
             high == (low \div 16) >= 10 \/ getBit(psw, 128) = 1
             h == IF high THEN 6 ELSE 0
             hi == (low \div 16) + h
  <1>1. (IF half THEN Wrap(a + 16 - 10) ELSE a) = low
    BY Weights DEF Wrap
  <1>2. /\ a' = ((hi * 16) % 256) + (low % 16)
        /\ psw' = setBit(psw, CY, Flag(hi >= 16)) /\ f1' = f1
    <2> HIDE DEF half
    <2>1. (IF Low(a) >= 10 \/ getBit(psw, AC) = 1 THEN Wrap(a + 16 - 10) ELSE a) = low
      BY <1>1 DEF half
    <2> HIDE DEF low
    <2>2. hi = High(low) + (IF High(low) >= 10 \/ getBit(psw, CY) = 1 THEN 16 - 10 ELSE 0)
      BY Weights DEF High, Widths
    <2> HIDE DEF hi
    <2> QED
      BY <2>1, <2>2, Weights DEF DA, Low, Wrap, Widths
  <1>3. l \in {0, 6} /\ h \in {0, 6} /\ Flag(hi >= 16) \in {0, 1}
    BY DEF Flag
  <1> HIDE DEF l, h
  <1>4. low \in 0..255 /\ low = (a + l) % 256
    BY <1>3
  <1> HIDE DEF low
  <1>5. a' = (a + l + h * 16) % 256
    BY <1>2, <1>3, <1>4
  <1> DEFINE c == Flag(hi >= 16)
  <1>6. (getBit(psw, CY) * Full + a)' = c * 256 + a'
    BY <1>2, <1>3, CarrySet
  <1>7. UNCHANGED <<getBit(psw, AC), Programmer!flags>>
    BY <1>2, <1>3, CarrySet
  <1>8. l \in {0, Nibble - Radix} /\ h \in {0, Nibble - Radix} /\ c \in {0, 1}
    BY <1>3 DEF Widths
  <1> HIDE DEF c
  <1>9. (getBit(psw, CY) * Full + a)' = c * Programmer!Full
                                          + ((Programmer!A + l + h * Nibble) % Programmer!Full)
    BY <1>5, <1>6, View DEF Widths
  <1>10. Programmer!Correct
    BY <1>7, <1>8, <1>9 DEF Programmer!Correct
  <1> QED
    BY <1>10 DEF Programmer!Next

LEMMA AbstractFlags ==
    ASSUME Widths, a \in 0..255, psw \in 0..255, f1 \in {0, 1}, Flags
    PROVE  Programmer!Next
  <1>1. CASE CLR_C \/ CPL_C
    <2>1. PICK c \in {0, 1} : psw' = setBit(psw, CY, c) /\ f1' = f1 /\ a' = a
      <3>1. 0 \in {0, 1} /\ 1 - getBit(psw, CY) \in {0, 1}
        BY Weights DEF getBit
      <3> QED
        BY <1>1, <3>1 DEF CLR_C, CPL_C, SetPsw
    <2>2. (getBit(psw, CY) * Full + a)' = c * 256 + a
      BY <2>1, CarrySet
    <2>3. UNCHANGED <<getBit(psw, AC), Programmer!flags>>
      BY <2>1, CarrySet
    <2>4. Programmer!SetCarry
      BY <2>2, <2>3, View DEF Programmer!SetCarry
    <2> QED
      BY <2>4 DEF Programmer!Next
  <1>2. CASE CLR_F0 \/ CPL_F0
    <2>1. PICK c \in {0, 1} : psw' = setBit(psw, F0, c) /\ f1' = f1 /\ a' = a
      <3>1. 0 \in {0, 1} /\ 1 - getBit(psw, F0) \in {0, 1}
        BY Weights DEF getBit
      <3> QED
        BY <1>2, <3>1 DEF CLR_F0, CPL_F0, SetPsw
    <2>2. /\ getBit(psw', 32) = c /\ getBit(psw', 64) = getBit(psw, 64)
          /\ getBit(psw', 128) = getBit(psw, 128) /\ getBit(psw', 16) = getBit(psw, 16)
          /\ psw' % 16 = psw % 16
      BY <2>1, Weights DEF setBit, getBit
    <2>3. Programmer!SetFlag0
      BY <2>1, <2>2, Weights DEF Programmer!SetFlag0
    <2> QED
      BY <2>3 DEF Programmer!Next
  <1>3. CASE SEL_RB
    <2>1. PICK c \in {0, 1} : psw' = setBit(psw, BS, c) /\ f1' = f1 /\ a' = a
      BY <1>3 DEF SEL_RB, SetPsw
    <2>2. /\ getBit(psw', 16) = c /\ getBit(psw', 64) = getBit(psw, 64)
          /\ getBit(psw', 128) = getBit(psw, 128) /\ getBit(psw', 32) = getBit(psw, 32)
          /\ psw' % 16 = psw % 16
      BY <2>1, Weights DEF setBit, getBit
    <2>3. Programmer!SelectBank
      BY <2>1, <2>2, Weights DEF Programmer!SelectBank
    <2> QED
      BY <2>3 DEF Programmer!Next
  <1>4. CASE MOV_PSW_A
    <2>1. psw' = a /\ a' = a /\ f1' = f1
      BY <1>4 DEF MOV_PSW_A, SetPsw
    <2>2. /\ getBit(a, 128) = a \div 128 /\ getBit(a, 64) = (a \div 64) % 2
          /\ getBit(a, 32) = (a \div 32) % 2 /\ getBit(a, 16) = (a \div 16) % 2
      BY DEF getBit
    <2>3. (getBit(psw, CY) * Full + a)' = (a \div 128) * 256 + a
      BY <2>1, <2>2, Weights
    <2>4. /\ getBit(psw, AC)' = (a \div 64) % 2 /\ getBit(psw, F0)' = (a \div 32) % 2
          /\ getBit(psw, BS)' = (a \div 16) % 2 /\ (psw % BS)' = a % 16
      BY <2>1, <2>2, Weights
    <2>5. /\ Programmer!Full \div 2 = 128 /\ Programmer!Full \div 4 = 64
          /\ Programmer!Full \div 8 = 32 /\ Programmer!Full \div 16 = 16
      BY View
    <2>6. Programmer!Unpack
      BY <2>1, <2>3, <2>4, <2>5, View DEF Programmer!Unpack
    <2> QED
      BY <2>6 DEF Programmer!Next
  <1>5. CASE MOV_A_PSW
    <2>1. a' \in 0..255 /\ psw' = psw /\ f1' = f1
      BY <1>5 DEF MOV_A_PSW, SetA
    <2> QED
      BY <2>1, AbstractMove
  <1>6. CASE F1
    <2>1. f1' \in {0, 1} /\ a' = a /\ psw' = psw
      BY <1>6 DEF F1
    <2>2. Programmer!SetF1
      BY <2>1 DEF Programmer!SetF1
    <2> QED
      BY <2>2 DEF Programmer!Next
  <1> QED
    BY <1>1, <1>2, <1>3, <1>4, <1>5, <1>6 DEF Flags

\* What the data path does to carry, accumulator and flags is what module Accumulator
\* allows, at the widths of the code and for every RAM and input.
THEOREM AccumulatorIsImplemented == Widths => (Spec => ImplementsAccumulator)
  <1> SUFFICES ASSUME Widths PROVE Spec => Programmer!Spec
    BY DEF ImplementsAccumulator
  <1>1. Init => Programmer!Init
    BY InitAccumulator
  <1>2. DataInv /\ DataInv' /\ [Next]_dataVars => [Programmer!Next]_Programmer!accVars
    <2> SUFFICES ASSUME DataInv, DataInv', [Next]_dataVars
                 PROVE  Programmer!Next \/ UNCHANGED Programmer!accVars
      OBVIOUS
    <2>1. a \in 0..255 /\ psw \in 0..255 /\ f1 \in {0, 1} /\ a' \in 0..255
      BY Weights DEF DataInv, DataTypeOK
    <2>2. CASE ADD \/ ADDC
      <3>1. PICK v \in WildSource, c \in {0, getBit(psw, CY)} : addToAcc(v, c)
        BY <2>2 DEF ADD, ADDC, WildSource
      <3>2. v \in 0..255
        BY Registers DEF DataInv
      <3> QED
        BY <2>1, <3>1, <3>2, AbstractAdd
    <2>3. CASE DA
      BY <2>1, <2>3, AbstractCorrect
    <2>4. CASE RRC \/ RLC
      BY <2>1, <2>4, AbstractRotate
    <2>5. CASE Flags
      BY <2>1, <2>5, AbstractFlags
    <2>6. CASE Moves \/ Memory \/ INC_A \/ DEC_A
      <3>1. psw' = psw /\ f1' = f1
        BY <2>6 DEF Moves, Memory, INC_A, DEC_A, CLR_A, CPL_A, SWAP, RL, RR, LOGIC, Logic,
           MOV_A, SetA, XCH, XCH_AT, XCHD, COUNT, MOV_R, INC_AT, MOV_AT, Keep
      <3> QED
        BY <2>1, <3>1, AbstractMove
    <2>7. CASE UNCHANGED dataVars
      <3>1. a' = a /\ psw' = psw /\ f1' = f1
        BY <2>7 DEF dataVars
      <3> QED
        BY <3>1 DEF Programmer!accVars, Programmer!flags
    <2> QED
      BY <2>2, <2>3, <2>4, <2>5, <2>6, <2>7 DEF Next, Arithmetic
  <1> QED
    BY <1>1, <1>2, DataInvariant, PTL DEF Spec, Programmer!Spec
=============================================================================
