-------------------------- MODULE SaveLoad_proofs --------------------------
(***************************************************************************)
(* Theorems about SaveLoad, for every state of the machine that the file   *)
(* has room for, every instance of the RAMs and wherever a file is cut     *)
(* off: what is loaded is what was saved, and with equal port latches it   *)
(* goes on as if nothing had happened.                                     *)
(***************************************************************************)
EXTENDS SaveLoad, FiniteSetTheorems, SequenceTheorems, TLAPS

-----------------------------------------------------------------------------
(* Bytes and the numbers they stand for.                                   *)

LEMMA Powers ==
    /\ 2^0 = 1 /\ 2^1 = 2 /\ 2^2 = 4 /\ 2^3 = 8 /\ 2^4 = 16 /\ 2^5 = 32 /\ 2^6 = 64
    /\ 2^7 = 128 /\ 2^16 = 65536
  OBVIOUS

\* A byte is less than 256, and two bytes with the same number are one.
LEMMA NumberOfByte ==
    /\ \A x \in Byte : FromByte(x) \in 0..255
    /\ \A x, y \in Byte : FromByte(x) = FromByte(y) => x = y
  <1> DEFINE bit(b, x) == IF b \in x THEN 1 ELSE 0
  <1>1. ASSUME NEW x \in Byte
        PROVE  FromByte(x) = bit(0, x) + 2 * bit(1, x) + 4 * bit(2, x) + 8 * bit(3, x)
                             + 16 * bit(4, x) + 32 * bit(5, x) + 64 * bit(6, x)
                             + 128 * bit(7, x)
    BY Powers DEF FromByte, Weight
  <1>2. \A b, x : bit(b, x) \in 0..1 /\ (b \in x <=> bit(b, x) = 1)
    OBVIOUS
  <1> HIDE DEF bit
  <1>3. ASSUME NEW x \in Byte, NEW y \in Byte, FromByte(x) = FromByte(y)
        PROVE  x = y
    <2>1. /\ bit(0, x) = bit(0, y) /\ bit(1, x) = bit(1, y)
          /\ bit(2, x) = bit(2, y) /\ bit(3, x) = bit(3, y)
          /\ bit(4, x) = bit(4, y) /\ bit(5, x) = bit(5, y)
          /\ bit(6, x) = bit(6, y) /\ bit(7, x) = bit(7, y)
      BY <1>1, <1>2, <1>3, SMTT(60)
    <2>2. \A b \in 0..7 : b \in x <=> b \in y
      BY <1>2, <2>1
    <2> QED BY <2>2 DEF Byte
  <1>4. ASSUME NEW x \in Byte
        PROVE  FromByte(x) \in 0..255
    BY <1>1, <1>2
  <1> QED BY <1>3, <1>4

\* A number below 256 is a byte.
LEMMA ByteOfNumber ==
    ASSUME NEW n \in 0..255
    PROVE  ToByte(n) \in Byte /\ FromByte(ToByte(n)) = n
  <1> DEFINE x == ToByte(n)
             bit(b) == (n \div 2^b) % 2
  <1>1. /\ x \in Byte
        /\ \A b \in 0..7 : b \in x <=> bit(b) = 1
    BY DEF ToByte, Byte
  <1>2. /\ bit(0) = n % 2 /\ bit(1) = (n \div 2) % 2 /\ bit(2) = (n \div 4) % 2
        /\ bit(3) = (n \div 8) % 2 /\ bit(4) = (n \div 16) % 2 /\ bit(5) = (n \div 32) % 2
        /\ bit(6) = (n \div 64) % 2 /\ bit(7) = (n \div 128) % 2
    BY Powers
  <1>3. /\ bit(0) \in 0..1 /\ bit(1) \in 0..1 /\ bit(2) \in 0..1 /\ bit(3) \in 0..1
        /\ bit(4) \in 0..1 /\ bit(5) \in 0..1 /\ bit(6) \in 0..1 /\ bit(7) \in 0..1
    BY <1>2
  <1>4. n = bit(0) + 2 * bit(1) + 4 * bit(2) + 8 * bit(3) + 16 * bit(4) + 32 * bit(5)
            + 64 * bit(6) + 128 * bit(7)
    BY <1>2
  <1> HIDE DEF x, bit
  <1>5. /\ Weight(0, x) = bit(0) /\ Weight(1, x) = 2 * bit(1)
        /\ Weight(2, x) = 4 * bit(2) /\ Weight(3, x) = 8 * bit(3)
        /\ Weight(4, x) = 16 * bit(4) /\ Weight(5, x) = 32 * bit(5)
        /\ Weight(6, x) = 64 * bit(6) /\ Weight(7, x) = 128 * bit(7)
    BY <1>1, <1>3, Powers DEF Weight
  <1>6. FromByte(x) = n
    BY <1>4, <1>5 DEF FromByte
  <1> QED BY <1>1, <1>6 DEF x

\* A number that two bytes have room for.
IsWord(n) == n \in Nat /\ n < 65536

LEMMA WordRange == \A n : n \in 0..2^16 - 1 <=> IsWord(n)
  BY Powers DEF IsWord

\* Its two halves.
LEMMA Halves ==
    ASSUME NEW n, IsWord(n)
    PROVE  /\ n % 256 \in 0..255 /\ (n \div 256) % 256 \in 0..255
           /\ n = 256 * ((n \div 256) % 256) + (n % 256)
  <1>1. n % 256 \in 0..255 /\ n = 256 * (n \div 256) + (n % 256)
    BY DEF IsWord
  <1>2. n \div 256 \in 0..255
    BY DEF IsWord
  <1>3. (n \div 256) % 256 = n \div 256
    BY <1>2
  <1> QED BY <1>1, <1>2, <1>3

-----------------------------------------------------------------------------
(* Reading one field.                                                      *)

\* A field that stands in a file behind at, whole.
Sits(part, bytes, at) ==
    /\ at + Len(part) <= Len(bytes)
    /\ \A i \in 1..Len(part) : bytes[at + i] = part[i]

LEMMA Widths ==
    ASSUME NEW bytes, NEW at
    PROVE  /\ \A kind \in {"bool", "u8", "mode"} : Width(kind, bytes, at) = 1
           /\ Width("u16", bytes, at) = 2
           /\ \A kind \in {"u8v", "Ram"} : Width(kind, bytes, at) = 2 + read_u16(bytes, at)
  BY DEF Width

\* Whatever a file holds, what is read are bytes and numbers below 2^16.
LEMMA TwoBytes ==
    ASSUME NEW x \in Byte, NEW y \in Byte
    PROVE  256 * FromByte(y) + FromByte(x) \in Nat
  <1>1. FromByte(x) \in 0..255 /\ FromByte(y) \in 0..255
    BY NumberOfByte
  <1>2. PICK m \in 0..255, n \in 0..255 : m = FromByte(x) /\ n = FromByte(y)
    BY <1>1, Zenon
  <1>3. 256 * n + m \in Nat
    OBVIOUS
  <1> QED BY <1>2, <1>3, Zenon

LEMMA ReadTypes ==
    ASSUME NEW bytes \in Seq(Byte), NEW at \in Nat
    PROVE  Get(bytes, at) \in Byte /\ read_u16(bytes, at) \in Nat
  <1>1. \A i \in Nat : Get(bytes, i) \in Byte
    BY DEF Get, Byte
  <1> DEFINE l == Get(bytes, at + 1)
             h == Get(bytes, at + 2)
  <1>2. l \in Byte /\ h \in Byte
    BY <1>1
  <1>3. read_u16(bytes, at) = 256 * FromByte(h) + FromByte(l)
    BY DEF read_u16
  <1> HIDE DEF l, h
  <1>4. 256 * FromByte(h) + FromByte(l) \in Nat
    BY <1>2, TwoBytes
  <1> QED BY <1>1, <1>3, <1>4

LEMMA BoolReadsBack ==
    ASSUME NEW x \in BOOLEAN, NEW bytes \in Seq(Byte), NEW at \in Nat,
           at + 1 <= Len(bytes), bytes[at + 1] = Flag(x)
    PROVE  Value("bool", bytes, at) = x
  BY DEF Value, Get, Flag

LEMMA ByteReadsBack ==
    ASSUME NEW bytes \in Seq(Byte), NEW at \in Nat, at + 1 <= Len(bytes)
    PROVE  Value("u8", bytes, at) = bytes[at + 1]
  BY DEF Value, Get

LEMMA ModeReadsBack ==
    ASSUME NEW mode \in PortCMode, NEW bytes \in Seq(Byte), NEW at \in Nat,
           at + 1 <= Len(bytes), bytes[at + 1] = ModeByte(mode)
    PROVE  Value("mode", bytes, at) = mode
  <1> DEFINE k == CHOOSE i \in DOMAIN Modes : Modes[i] = mode
  <1>1. k \in 1..4 /\ Modes[k] = mode /\ DOMAIN Modes = 1..4
    BY DEF PortCMode, Modes
  <1> HIDE DEF k
  <1>2. FromByte(ToByte(k - 1)) = k - 1
    <2>1. k - 1 \in 0..255
      BY <1>1
    <2> QED BY <2>1, ByteOfNumber
  <1>3. Get(bytes, at + 1) = ToByte(k - 1)
    BY DEF Get, ModeByte, k
  <1> QED BY <1>1, <1>2, <1>3 DEF Value

LEMMA WordBytes ==
    ASSUME NEW n, IsWord(n)
    PROVE  LET w == write_u16(n)
           IN  /\ w \in Seq(Byte) /\ Len(w) = 2
               /\ 256 * FromByte(w[2]) + FromByte(w[1]) = n
  <1> DEFINE l == n % 256
             h == (n \div 256) % 256
  <1>1. l \in 0..255 /\ h \in 0..255 /\ n = 256 * h + l
    BY Halves
  <1>2. write_u16(n) = <<ToByte(l), ToByte(h)>>
    BY DEF write_u16
  <1> HIDE DEF l, h
  <1>3. /\ ToByte(l) \in Byte /\ FromByte(ToByte(l)) = l
        /\ ToByte(h) \in Byte /\ FromByte(ToByte(h)) = h
    BY <1>1, ByteOfNumber
  <1>4. /\ write_u16(n) \in Seq(Byte) /\ Len(write_u16(n)) = 2
        /\ write_u16(n)[1] = ToByte(l) /\ write_u16(n)[2] = ToByte(h)
    BY <1>2, <1>3
  <1>5. 256 * FromByte(write_u16(n)[2]) + FromByte(write_u16(n)[1]) = 256 * h + l
    BY <1>3, <1>4, Zenon
  <1> QED BY <1>1, <1>4, <1>5, Zenon

LEMMA WordReadsBack ==
    ASSUME NEW n, IsWord(n), NEW bytes \in Seq(Byte), NEW at \in Nat,
           at + 2 <= Len(bytes),
           bytes[at + 1] = write_u16(n)[1], bytes[at + 2] = write_u16(n)[2]
    PROVE  read_u16(bytes, at) = n
  <1>1. /\ Get(bytes, at + 1) = write_u16(n)[1]
        /\ Get(bytes, at + 2) = write_u16(n)[2]
    BY DEF Get
  <1>2. 256 * FromByte(write_u16(n)[2]) + FromByte(write_u16(n)[1]) = n
    BY WordBytes
  <1> QED BY <1>1, <1>2 DEF read_u16

\* Two parts, one after the other.
LEMMA Joined ==
    ASSUME NEW p \in Seq(Byte), NEW q \in Seq(Byte)
    PROVE  /\ p \o q \in Seq(Byte) /\ Len(p \o q) = Len(p) + Len(q)
           /\ Len(p) \in Nat /\ Len(q) \in Nat
           /\ \A i \in 1..Len(p) : (p \o q)[i] = p[i]
           /\ \A i \in 1..Len(q) : (p \o q)[Len(p) + i] = q[i]
  OBVIOUS

\* The bytes of a vector: two of length, then its own.
LEMMA VectorBytes ==
    ASSUME NEW v \in Vector
    PROVE  /\ v \in Seq(Byte) /\ Len(v) \in Nat /\ IsWord(Len(v))
           /\ write_u16(Len(v)) \in Seq(Byte) /\ Len(write_u16(Len(v))) = 2
           /\ write_u8v(v) \in Seq(Byte) /\ Len(write_u8v(v)) = Len(v) + 2
           /\ write_u8v(v)[1] = write_u16(Len(v))[1]
           /\ write_u8v(v)[2] = write_u16(Len(v))[2]
           /\ \A i \in 1..Len(v) : write_u8v(v)[i + 2] = v[i]
  <1>1. v \in Seq(Byte) /\ Len(v) \in Nat /\ IsWord(Len(v))
    BY Powers DEF Vector, IsWord
  <1>2. \A n : IsWord(n) =>
           write_u16(n) \in Seq(Byte) /\ Len(write_u16(n)) = 2
    BY WordBytes
  <1> DEFINE w == write_u16(Len(v))
             b == write_u8v(v)
  <1>3. w \in Seq(Byte) /\ Len(w) = 2 /\ b = w \o v
    BY <1>1, <1>2 DEF write_u8v
  <1> HIDE DEF w, b
  <1>4. /\ b \in Seq(Byte) /\ Len(b) = Len(w) + Len(v)
        /\ \A i \in 1..Len(w) : b[i] = w[i]
        /\ \A i \in 1..Len(v) : b[Len(w) + i] = v[i]
    <2>1. v \in Seq(Byte) /\ w \in Seq(Byte)
      BY <1>1, <1>3
    <2>2. /\ w \o v \in Seq(Byte) /\ Len(w \o v) = Len(w) + Len(v)
          /\ \A i \in 1..Len(w) : (w \o v)[i] = w[i]
          /\ \A i \in 1..Len(v) : (w \o v)[Len(w) + i] = v[i]
      BY <2>1, Joined
    <2> QED BY <1>3, <2>2
  <1>5. b[1] = w[1] /\ b[2] = w[2]
    BY <1>3, <1>4
  <1>6. \A i \in 1..Len(v) : b[i + 2] = v[i]
    BY <1>1, <1>3, <1>4
  <1> QED BY <1>1, <1>3, <1>4, <1>5, <1>6 DEF w, b

LEMMA VectorReadsBack ==
    ASSUME NEW v \in Vector, NEW bytes \in Seq(Byte), NEW at \in Nat,
           Sits(write_u8v(v), bytes, at)
    PROVE  /\ read_u16(bytes, at) = Len(v)
           /\ read_u8v(bytes, at) = v
  <1> DEFINE w == write_u8v(v)
             n == Len(v)
  <1>1. /\ v \in Seq(Byte) /\ n \in Nat /\ IsWord(n) /\ Len(w) = n + 2
        /\ w[1] = write_u16(n)[1] /\ w[2] = write_u16(n)[2]
        /\ \A i \in 1..n : w[i + 2] = v[i]
    BY VectorBytes
  <1> HIDE DEF w
  <1>2. at + n + 2 <= Len(bytes) /\ \A i \in 1..n + 2 : bytes[at + i] = w[i]
    BY <1>1 DEF Sits, w
  <1>3. read_u16(bytes, at) = n
    BY <1>1, <1>2, WordReadsBack
  <1>4. \A i \in 1..n : Get(bytes, at + 2 + i) = v[i]
    <2> TAKE i \in 1..n
    <2>1. i + 2 \in 1..n + 2 /\ at + (i + 2) = at + 2 + i /\ at + 2 + i \in 1..Len(bytes)
      BY <1>1, <1>2
    <2>2. bytes[at + 2 + i] = w[i + 2]
      BY <1>2, <2>1
    <2>3. at + 2 + i \in DOMAIN bytes
      BY <2>1
    <2> QED BY <1>1, <2>2, <2>3 DEF Get
  <1>5. read_u8v(bytes, at) = [i \in 1..n |-> v[i]]
    BY <1>3, <1>4 DEF read_u8v
  <1> QED BY <1>1, <1>3, <1>5

-----------------------------------------------------------------------------
(* A RAM and its bytes.                                                    *)

LEMMA CellsAreListed ==
    /\ Cardinality(Cell) \in Nat /\ Cardinality(Cell) <= 256
    /\ Cells \in [1..Cardinality(Cell) -> Cell]
    /\ \A c \in Cell : \E i \in DOMAIN Cells : Cells[i] = c
  <1> DEFINE n == Cardinality(Cell)
             number == [c \in Cell |-> FromByte(c)]
  <1>1. PICK m \in Nat : m = 255
    OBVIOUS
  <1>2. number \in Injection(Cell, 0..m)
    <2>1. number \in [Cell -> 0..m]
      BY <1>1, CellOK, NumberOfByte
    <2>2. \A a, b \in Cell : number[a] = number[b] => a = b
      BY CellOK, NumberOfByte
    <2> HIDE DEF number
    <2> QED BY <2>1, <2>2 DEF Injection, IsInjective
  <1>3. IsFiniteSet(0..m) /\ Cardinality(0..m) = m + 1
    BY FS_Interval
  <1>4. IsFiniteSet(Cell) /\ n <= m + 1
    BY <1>2, <1>3, FS_Injection
  <1>5. n \in Nat /\ ExistsBijection(1..n, Cell)
    BY <1>4, FS_CardinalityType
  <1>6. Cells \in [1..n -> Cell] /\ IsInjective(Cells)
    <2>1. \E f \in [1..n -> Cell] : IsInjective(f)
      BY <1>5 DEF ExistsBijection, Bijection, Injection
    <2> QED BY <2>1 DEF Cells, SetToSeq
  <1>7. Cardinality(1..n) = n /\ IsFiniteSet(1..n)
    BY <1>5, FS_Interval
  <1>8. Cells \in Surjection(1..n, Cell)
    BY <1>4, <1>6, <1>7, FS_Injection DEF Injection
  <1>9. \A c \in Cell : \E i \in DOMAIN Cells : Cells[i] = c
    BY <1>6, <1>8 DEF Surjection
  <1> HIDE DEF n
  <1>10. n <= 256
    BY <1>1, <1>4, <1>5
  <1> QED BY <1>5, <1>6, <1>9, <1>10 DEF n

\* content() is a vector, and copyFrom() is its inverse.
LEMMA RamAndContent ==
    ASSUME NEW ram \in [Cell -> Byte]
    PROVE  content(ram) \in Vector /\ copyFrom(content(ram)) = ram
  <1> DEFINE n == Cardinality(Cell)
             v == content(ram)
  <1>a. n \in Nat /\ n <= 256 /\ Cells \in [1..n -> Cell]
    BY CellsAreListed
  <1> HIDE DEF n
  <1>1. /\ n \in Nat /\ n <= 256
        /\ DOMAIN Cells = 1..n /\ \A i \in 1..n : Cells[i] \in Cell
        /\ \A c \in Cell : \E i \in DOMAIN Cells : Cells[i] = c
    BY <1>a, CellsAreListed
  <1>2. v = [i \in 1..n |-> ram[Cells[i]]]
    BY <1>1 DEF content
  <1> HIDE DEF v
  <1>3. v \in Seq(Byte) /\ Len(v) = n
    <2>1. v \in [1..n -> Byte]
      BY <1>1, <1>2
    <2> QED BY <1>1, <2>1
  <1>4. v \in Vector
    BY <1>1, <1>3, Powers DEF Vector
  <1>5. ASSUME NEW c \in Cell
        PROVE  v[CHOOSE i \in DOMAIN Cells : Cells[i] = c] = ram[c]
    <2> DEFINE k == CHOOSE i \in DOMAIN Cells : Cells[i] = c
    <2>1. k \in DOMAIN Cells /\ Cells[k] = c
      BY <1>1
    <2> HIDE DEF k
    <2>2. v[k] = ram[c]
      BY <1>1, <1>2, <2>1
    <2> QED BY <2>2 DEF k
  <1>6. copyFrom(v) = [c \in Cell |-> ram[c]]
    BY <1>5 DEF copyFrom
  <1> QED BY <1>4, <1>6 DEF v

LEMMA RamReadsBack ==
    ASSUME NEW ram \in [Cell -> Byte], NEW bytes \in Seq(Byte), NEW at \in Nat,
           Sits(write_u8v(content(ram)), bytes, at)
    PROVE  /\ read_u16(bytes, at) = Len(content(ram))
           /\ Value("Ram", bytes, at) = ram
  <1>1. content(ram) \in Vector /\ copyFrom(content(ram)) = ram
    BY RamAndContent
  <1>2. read_u16(bytes, at) = Len(content(ram)) /\ read_u8v(bytes, at) = content(ram)
    BY <1>1, VectorReadsBack
  <1>3. Value("Ram", bytes, at) = copyFrom(read_u8v(bytes, at))
    BY DEF Value
  <1> QED BY <1>1, <1>2, <1>3

-----------------------------------------------------------------------------
(* Where the fields of a list start.  The recursion has a solution, and    *)
(* only one, because the lists are given.                                  *)

\* start is where the fields start, by the recursion of Starts.
IsStarts(start, fields, bytes, at) ==
    start = [i \in 1..Len(fields) + 1 |->
               IF i = 1 THEN at
               ELSE start[i - 1] + Width(fields[i - 1][2], bytes, start[i - 1])]

LEMMA StartsExist ==
    ASSUME NEW fields, NEW bytes, NEW at, NEW g, IsStarts(g, fields, bytes, at)
    PROVE  IsStarts(Starts(fields, bytes, at), fields, bytes, at)
  <1>1. Starts(fields, bytes, at) = CHOOSE f : IsStarts(f, fields, bytes, at)
    BY DEF Starts, IsStarts
  <1> QED BY <1>1

\* The state of the 8049: 16 single bytes and pc, then ROM and RAM.
LEMMA CpuKinds ==
    /\ Len(CpuFields) = 19
    /\ \A i \in 1..17 \ {8} : CpuFields[i][2] \in {"bool", "u8", "mode"}
    /\ CpuFields[8][2] = "u16" /\ CpuFields[18][2] = "u8v" /\ CpuFields[19][2] = "u8v"
  BY DEF CpuFields

CpuStart(i, bytes, at) ==
    LET afterRom == at + 20 + read_u16(bytes, at + 18)
    IN  IF i <= 8 THEN at + i - 1
        ELSE IF i <= 18 THEN at + i
        ELSE IF i = 19 THEN afterRom
        ELSE afterRom + 2 + read_u16(bytes, afterRom)

LEMMA CpuStarts ==
    ASSUME NEW bytes, NEW at \in Nat, \A i \in Nat : read_u16(bytes, i) \in Nat
    PROVE  \A i \in 1..20 : Starts(CpuFields, bytes, at)[i] = CpuStart(i, bytes, at)
  <1> DEFINE g == [i \in 1..20 |-> CpuStart(i, bytes, at)]
             S == Starts(CpuFields, bytes, at)
  <1>a. read_u16(bytes, at + 18) \in Nat
    OBVIOUS
  <1>1. DOMAIN g = 1..20 /\ g[1] = at
    BY DEF CpuStart
  <1>b. /\ \A i \in 1..8 : g[i] = at + (i - 1)
        /\ \A i \in 9..18 : g[i] = at + i
    BY DEF CpuStart
  <1>c. g[19] = g[18] + 2 + read_u16(bytes, g[18])
    BY <1>a DEF CpuStart
  <1>d. g[20] = g[19] + 2 + read_u16(bytes, g[19])
    BY <1>a DEF CpuStart
  <1> HIDE DEF g, S
  <1>2. \A i \in 1..19 : g[i + 1] = g[i] + Width(CpuFields[i][2], bytes, g[i])
    <2>1. ASSUME NEW i \in 1..17 \ {8}
          PROVE  g[i + 1] = g[i] + Width(CpuFields[i][2], bytes, g[i])
      <3>1. Width(CpuFields[i][2], bytes, g[i]) = 1
        BY CpuKinds, Widths
      <3>2. g[i + 1] = g[i] + 1
        BY <1>b
      <3> QED BY <3>1, <3>2
    <2>2. g[9] = g[8] + Width(CpuFields[8][2], bytes, g[8])
      <3>1. Width(CpuFields[8][2], bytes, g[8]) = 2
        BY CpuKinds, Widths
      <3>2. g[9] = g[8] + 2
        BY <1>b
      <3> QED BY <3>1, <3>2
    <2>3. g[18] \in Nat /\ read_u16(bytes, g[18]) \in Nat
      BY <1>b
    <2>4. g[19] \in Nat /\ read_u16(bytes, g[19]) \in Nat
      BY <1>c, <2>3
    <2>5. g[19] = g[18] + Width(CpuFields[18][2], bytes, g[18])
      <3>1. Width(CpuFields[18][2], bytes, g[18]) = 2 + read_u16(bytes, g[18])
        BY CpuKinds, Widths
      <3> QED BY <1>c, <2>3, <3>1
    <2>6. g[20] = g[19] + Width(CpuFields[19][2], bytes, g[19])
      <3>1. Width(CpuFields[19][2], bytes, g[19]) = 2 + read_u16(bytes, g[19])
        BY CpuKinds, Widths
      <3> QED BY <1>d, <2>4, <3>1
    <2> QED BY <2>1, <2>2, <2>5, <2>6
  <1>3. \A i \in 1..20 : g[i] = IF i = 1 THEN at
                               ELSE g[i - 1] + Width(CpuFields[i - 1][2], bytes, g[i - 1])
    BY <1>1, <1>2
  <1>4. IsStarts(g, CpuFields, bytes, at)
    <2>1. g = [i \in 1..20 |-> g[i]]
      BY <1>1 DEF g
    <2>2. g = [i \in 1..20 |-> IF i = 1 THEN at
                 ELSE g[i - 1] + Width(CpuFields[i - 1][2], bytes, g[i - 1])]
      BY <1>3, <2>1
    <2> QED BY <2>2, CpuKinds DEF IsStarts
  <1>5. IsStarts(S, CpuFields, bytes, at)
    BY <1>4, StartsExist DEF S
  <1>6. S[1] = g[1] /\ \A i \in 1..19 : S[i] = g[i] => S[i + 1] = g[i + 1]
    BY <1>1, <1>2, <1>5, CpuKinds DEF IsStarts
  <1>7. \A i \in 1..20 : S[i] = g[i]
    BY <1>6
  <1> QED BY <1>7 DEF g, S

\* The state of an 8155: 14 single bytes, then the RAM.
LEMMA ChipKinds ==
    /\ Len(ChipFields) = 15
    /\ \A i \in 1..14 : ChipFields[i][2] \in {"bool", "u8", "mode"}
    /\ ChipFields[15][2] = "Ram"
  BY DEF ChipFields

ChipStart(i, bytes, at) ==
    IF i <= 15 THEN at + i - 1 ELSE at + 16 + read_u16(bytes, at + 14)

LEMMA ChipStarts ==
    ASSUME NEW bytes, NEW at \in Nat, \A i \in Nat : read_u16(bytes, i) \in Nat
    PROVE  \A i \in 1..16 : Starts(ChipFields, bytes, at)[i] = ChipStart(i, bytes, at)
  <1> DEFINE g == [i \in 1..16 |-> ChipStart(i, bytes, at)]
             S == Starts(ChipFields, bytes, at)
  <1>1. DOMAIN g = 1..16 /\ g[1] = at
    BY DEF ChipStart
  <1>2. \A i \in 1..15 : g[i] = at + (i - 1)
    BY DEF ChipStart
  <1>3. g[16] = g[15] + 2 + read_u16(bytes, g[15])
    BY DEF ChipStart
  <1> HIDE DEF g, S
  <1>4. \A i \in 1..15 : g[i + 1] = g[i] + Width(ChipFields[i][2], bytes, g[i])
    <2>1. ASSUME NEW i \in 1..14
          PROVE  g[i + 1] = g[i] + Width(ChipFields[i][2], bytes, g[i])
      <3>1. Width(ChipFields[i][2], bytes, g[i]) = 1
        BY ChipKinds, Widths
      <3>2. g[i + 1] = g[i] + 1
        BY <1>2
      <3> QED BY <3>1, <3>2
    <2>2. g[15] \in Nat /\ read_u16(bytes, g[15]) \in Nat
      BY <1>2
    <2>3. g[16] = g[15] + Width(ChipFields[15][2], bytes, g[15])
      <3>1. Width(ChipFields[15][2], bytes, g[15]) = 2 + read_u16(bytes, g[15])
        BY ChipKinds, Widths
      <3> QED BY <1>3, <2>2, <3>1
    <2> QED BY <2>1, <2>3
  <1>5. \A i \in 1..16 : g[i] = IF i = 1 THEN at
                               ELSE g[i - 1] + Width(ChipFields[i - 1][2], bytes, g[i - 1])
    BY <1>1, <1>4
  <1>6. IsStarts(g, ChipFields, bytes, at)
    <2>1. g = [i \in 1..16 |-> g[i]]
      BY <1>1 DEF g
    <2>2. g = [i \in 1..16 |-> IF i = 1 THEN at
                 ELSE g[i - 1] + Width(ChipFields[i - 1][2], bytes, g[i - 1])]
      BY <1>5, <2>1
    <2> QED BY <2>2, ChipKinds DEF IsStarts
  <1>7. IsStarts(S, ChipFields, bytes, at)
    BY <1>6, StartsExist DEF S
  <1>8. S[1] = g[1] /\ \A i \in 1..15 : S[i] = g[i] => S[i + 1] = g[i + 1]
    BY <1>1, <1>4, <1>7, ChipKinds DEF IsStarts
  <1>9. \A i \in 1..16 : S[i] = g[i]
    BY <1>8
  <1> QED BY <1>9 DEF g, S

\* A list whose fields are read as a state has them is read as that state.
LEMMA FieldsReadBack ==
    ASSUME NEW fields, NEW bytes, NEW at, NEW s,
           s = [name \in {fields[i][1] : i \in DOMAIN fields} |-> s[name]],
           \A i \in DOMAIN fields :
              Value(fields[i][2], bytes, Starts(fields, bytes, at)[i]) = s[fields[i][1]]
    PROVE  ReadFields(fields, bytes, at) = s
  <1> DEFINE start == Starts(fields, bytes, at)
             names == {fields[i][1] : i \in DOMAIN fields}
             place == [name \in names |-> CHOOSE i \in DOMAIN fields : fields[i][1] = name]
  <1>1. ReadFields(fields, bytes, at) =
          [name \in names |-> Value(fields[place[name]][2], bytes, start[place[name]])]
    BY DEF ReadFields
  <1>2. \A name \in names : place[name] \in DOMAIN fields /\ fields[place[name]][1] = name
    OBVIOUS
  <1> HIDE DEF start, place
  <1>3. \A name \in names :
           Value(fields[place[name]][2], bytes, start[place[name]]) = s[name]
    BY <1>2 DEF start
  <1> QED BY <1>1, <1>3

-----------------------------------------------------------------------------
(* What was written is read.                                               *)

\* The parts of a part.
LEMMA SitsInParts ==
    ASSUME NEW p \in Seq(Byte), NEW q \in Seq(Byte), NEW bytes, NEW at \in Nat,
           Len(bytes) \in Nat, Sits(p \o q, bytes, at)
    PROVE  Sits(p, bytes, at) /\ Sits(q, bytes, at + Len(p))
  <1>1. /\ Len(p) \in Nat /\ Len(q) \in Nat /\ Len(p \o q) = Len(p) + Len(q)
        /\ \A i \in 1..Len(p) : (p \o q)[i] = p[i]
        /\ \A i \in 1..Len(q) : (p \o q)[Len(p) + i] = q[i]
    BY Joined
  <1> DEFINE m == Len(p)
             n == Len(q)
             r == p \o q
  <1>2. /\ at + m + n <= Len(bytes)
        /\ \A i \in 1..m + n : bytes[at + i] = r[i]
    BY <1>1 DEF Sits
  <1> HIDE DEF r
  <1>3. \A i \in 1..m : bytes[at + i] = p[i]
    BY <1>1, <1>2 DEF r
  <1>4. \A i \in 1..n : bytes[at + m + i] = q[i]
    <2> TAKE i \in 1..n
    <2>1. m + i \in 1..m + n /\ at + (m + i) = at + m + i
      BY <1>1
    <2> QED BY <1>1, <1>2, <2>1 DEF r
  <1> QED BY <1>1, <1>2, <1>3, <1>4 DEF Sits

LEMMA FlagIsByte == \A x : Flag(x) \in Byte
  BY DEF Flag, Byte

\* The bytes in front of pc, and those between pc and the ROM.
CpuHead(s) ==
    <<Flag(s.tf), Flag(s.notInt), Flag(s.timerInterruptRequested), Flag(s.t0), Flag(s.t1),
      s.t, s.a>>
CpuMiddle(s) ==
    <<s.psw, s.dbf, s.f1,
      Flag(s.externalInterruptsEnabled), Flag(s.tcntInterruptsEnabled),
      Flag(s.counterRunning), Flag(s.timerRunning), s.cyclesUntilCount,
      Flag(s.inInterrupt)>>

LEMMA CpuParts ==
    ASSUME NEW s \in CpuState
    PROVE  /\ WriteCpu(s) = CpuHead(s) \o write_u16(s.pc) \o CpuMiddle(s)
                            \o write_u8v(s.rom) \o write_u8v(s.ram)
           /\ CpuHead(s) \in Seq(Byte) /\ Len(CpuHead(s)) = 7
           /\ IsWord(s.pc)
           /\ write_u16(s.pc) \in Seq(Byte) /\ Len(write_u16(s.pc)) = 2
           /\ CpuMiddle(s) \in Seq(Byte) /\ Len(CpuMiddle(s)) = 9
           /\ s.rom \in Vector /\ s.ram \in Vector
  <1>1. s.rom \in Vector /\ s.ram \in Vector
    BY DEF CpuState
  <1>2. IsWord(s.pc)
    <2>1. s.pc \in 0..2^16 - 1
      BY DEF CpuState
    <2> QED BY <2>1, WordRange, Zenon
  <1>3. write_u16(s.pc) \in Seq(Byte) /\ Len(write_u16(s.pc)) = 2
    BY <1>2, WordBytes
  <1>4. CpuHead(s) \in Seq(Byte) /\ Len(CpuHead(s)) = 7
    <2>1. s.t \in Byte /\ s.a \in Byte
      BY DEF CpuState
    <2>2. /\ Flag(s.tf) \in Byte /\ Flag(s.notInt) \in Byte
          /\ Flag(s.timerInterruptRequested) \in Byte
          /\ Flag(s.t0) \in Byte /\ Flag(s.t1) \in Byte
      BY FlagIsByte
    <2> QED BY <2>1, <2>2, SMTT(30) DEF CpuHead
  <1>5. CpuMiddle(s) \in Seq(Byte) /\ Len(CpuMiddle(s)) = 9
    <2>1. s.psw \in Byte /\ s.dbf \in Byte /\ s.f1 \in Byte /\ s.cyclesUntilCount \in Byte
      BY DEF CpuState
    <2>2. /\ Flag(s.externalInterruptsEnabled) \in Byte
          /\ Flag(s.tcntInterruptsEnabled) \in Byte /\ Flag(s.counterRunning) \in Byte
          /\ Flag(s.timerRunning) \in Byte /\ Flag(s.inInterrupt) \in Byte
      BY FlagIsByte
    <2> QED BY <2>1, <2>2, SMTT(30) DEF CpuMiddle
  <1>6. WriteCpu(s) = CpuHead(s) \o write_u16(s.pc) \o CpuMiddle(s)
                      \o write_u8v(s.rom) \o write_u8v(s.ram)
    BY DEF WriteCpu, CpuHead, CpuMiddle
  <1> QED BY <1>1, <1>2, <1>3, <1>4, <1>5, <1>6

\* Five parts, one after the other.
InTurn(all, a, b, c, d, e) ==
    \A bytes : \A at \in Nat :
        Len(bytes) \in Nat /\ Sits(all, bytes, at) =>
            /\ Sits(a, bytes, at)
            /\ Sits(b, bytes, at + Len(a))
            /\ Sits(c, bytes, at + (Len(a) + Len(b)))
            /\ Sits(d, bytes, at + (Len(a) + Len(b) + Len(c)))
            /\ Sits(e, bytes, at + (Len(a) + Len(b) + Len(c) + Len(d)))

LEMMA FiveParts ==
    ASSUME NEW a \in Seq(Byte), NEW b \in Seq(Byte), NEW c \in Seq(Byte),
           NEW d \in Seq(Byte), NEW e \in Seq(Byte)
    PROVE  LET all == a \o b \o c \o d \o e
           IN  /\ all \in Seq(Byte)
               /\ Len(all) = Len(a) + Len(b) + Len(c) + Len(d) + Len(e)
               /\ InTurn(all, a, b, c, d, e)
  <1> DEFINE ab == a \o b
             abc == ab \o c
             abcd == abc \o d
             all == abcd \o e
  <1>1. ab \in Seq(Byte) /\ Len(ab) = Len(a) + Len(b)
    BY Joined
  <1> HIDE DEF ab
  <1>2. abc \in Seq(Byte) /\ Len(abc) = Len(ab) + Len(c)
    BY <1>1, Joined
  <1> HIDE DEF abc
  <1>3. abcd \in Seq(Byte) /\ Len(abcd) = Len(abc) + Len(d)
    BY <1>2, Joined
  <1> HIDE DEF abcd
  <1>4. all \in Seq(Byte) /\ Len(all) = Len(abcd) + Len(e)
    BY <1>3, Joined
  <1>5. ASSUME NEW bytes, NEW at \in Nat, Len(bytes) \in Nat, Sits(all, bytes, at)
        PROVE  /\ Sits(a, bytes, at) /\ Sits(b, bytes, at + Len(a))
               /\ Sits(c, bytes, at + Len(ab)) /\ Sits(d, bytes, at + Len(abc))
               /\ Sits(e, bytes, at + Len(abcd))
    <2>1. Sits(abcd, bytes, at) /\ Sits(e, bytes, at + Len(abcd))
      BY <1>3, <1>5, SitsInParts
    <2>2. Sits(abc, bytes, at) /\ Sits(d, bytes, at + Len(abc))
      BY <1>2, <2>1, <1>5, SitsInParts DEF abcd
    <2>3. Sits(ab, bytes, at) /\ Sits(c, bytes, at + Len(ab))
      BY <1>1, <2>2, <1>5, SitsInParts DEF abc
    <2>4. Sits(a, bytes, at) /\ Sits(b, bytes, at + Len(a))
      BY <2>3, <1>5, SitsInParts DEF ab
    <2> QED BY <2>1, <2>2, <2>3, <2>4
  <1>6. all = a \o b \o c \o d \o e
    BY DEF ab, abc, abcd
  <1> HIDE DEF all
  <1>7. InTurn(all, a, b, c, d, e)
    BY <1>1, <1>2, <1>3, <1>5, Zenon DEF InTurn
  <1>8. Len(all) = Len(a) + Len(b) + Len(c) + Len(d) + Len(e)
    BY <1>1, <1>2, <1>3, <1>4
  <1> QED BY <1>4, <1>6, <1>7, <1>8, Zenon

LEMMA CpuSits ==
    ASSUME NEW s \in CpuState
    PROVE  /\ WriteCpu(s) \in Seq(Byte)
           /\ Len(WriteCpu(s)) = 22 + Len(s.rom) + Len(s.ram)
           /\ Len(s.rom) \in Nat /\ Len(s.ram) \in Nat
           /\ \A bytes : \A at \in Nat :
                Len(bytes) \in Nat /\ Sits(WriteCpu(s), bytes, at) =>
                  /\ Sits(CpuHead(s), bytes, at)
                  /\ Sits(write_u16(s.pc), bytes, at + 7)
                  /\ Sits(CpuMiddle(s), bytes, at + 9)
                  /\ Sits(write_u8v(s.rom), bytes, at + 18)
                  /\ Sits(write_u8v(s.ram), bytes, at + 20 + Len(s.rom))
  <1> DEFINE h == CpuHead(s)
             w == write_u16(s.pc)
             m == CpuMiddle(s)
             r == write_u8v(s.rom)
             q == write_u8v(s.ram)
             x == Len(s.rom)
             y == Len(s.ram)
  <1>1. /\ h \in Seq(Byte) /\ w \in Seq(Byte) /\ m \in Seq(Byte)
        /\ s.rom \in Vector /\ s.ram \in Vector
        /\ WriteCpu(s) = h \o w \o m \o r \o q
    BY CpuParts
  <1>2. r \in Seq(Byte) /\ q \in Seq(Byte)
    BY <1>1, VectorBytes
  <1>3. Len(h) = 7 /\ Len(w) = 2 /\ Len(m) = 9
    BY CpuParts
  <1>4. Len(r) = x + 2 /\ Len(q) = y + 2 /\ x \in Nat /\ y \in Nat
    BY <1>1, VectorBytes
  <1> HIDE DEF h, w, m, r, q, x, y
  <1>5. /\ WriteCpu(s) \in Seq(Byte)
        /\ Len(WriteCpu(s)) = Len(h) + Len(w) + Len(m) + Len(r) + Len(q)
        /\ InTurn(WriteCpu(s), h, w, m, r, q)
    BY <1>1, <1>2, FiveParts
  <1>6. /\ Len(h) + Len(w) = 9 /\ Len(h) + Len(w) + Len(m) = 18
        /\ Len(h) + Len(w) + Len(m) + Len(r) = 20 + x
        /\ Len(h) + Len(w) + Len(m) + Len(r) + Len(q) = 22 + x + y
    BY <1>3, <1>4
  <1>7. \A at \in Nat : at + (20 + x) = at + 20 + x
    BY <1>4
  <1>8. ASSUME NEW bytes, NEW at \in Nat, Len(bytes) \in Nat, Sits(WriteCpu(s), bytes, at)
        PROVE  /\ Sits(h, bytes, at) /\ Sits(w, bytes, at + 7) /\ Sits(m, bytes, at + 9)
               /\ Sits(r, bytes, at + 18) /\ Sits(q, bytes, at + 20 + x)
    <2>1. /\ Sits(h, bytes, at)
          /\ Sits(w, bytes, at + Len(h))
          /\ Sits(m, bytes, at + (Len(h) + Len(w)))
          /\ Sits(r, bytes, at + (Len(h) + Len(w) + Len(m)))
          /\ Sits(q, bytes, at + (Len(h) + Len(w) + Len(m) + Len(r)))
      BY <1>5, <1>8, Zenon DEF InTurn
    <2> QED BY <1>3, <1>6, <1>7, <2>1
  <1> QED BY <1>4, <1>5, <1>6, <1>8 DEF h, w, m, r, q, x, y

\* The fields behind the k-th of a list are read as the bytes of part.
AreRead(part, bytes, start, k) ==
    \A i \in 1..Len(part) :
        /\ Value("u8", bytes, start[k + i]) = part[i]
        /\ \A x \in BOOLEAN :
              part[i] = Flag(x) => Value("bool", bytes, start[k + i]) = x
        /\ \A x \in PortCMode :
              part[i] = ModeByte(x) => Value("mode", bytes, start[k + i]) = x

LEMMA SinglesReadBack ==
    ASSUME NEW bytes \in Seq(Byte), NEW at \in Nat, NEW part \in Seq(Byte),
           Sits(part, bytes, at),
           NEW start, NEW k, \A i \in 1..Len(part) : start[k + i] = at + (i - 1)
    PROVE  AreRead(part, bytes, start, k)
  <1> SUFFICES ASSUME NEW i \in 1..Len(part)
               PROVE  /\ Value("u8", bytes, at + (i - 1)) = part[i]
                      /\ \A x \in BOOLEAN :
                            part[i] = Flag(x) => Value("bool", bytes, at + (i - 1)) = x
                      /\ \A x \in PortCMode :
                            part[i] = ModeByte(x) => Value("mode", bytes, at + (i - 1)) = x
    BY DEF AreRead
  <1> DEFINE m == at + (i - 1)
  <1>1. m \in Nat /\ m + 1 = at + i
    OBVIOUS
  <1>2. m + 1 <= Len(bytes)
    <2>1. Len(part) \in Nat /\ Len(bytes) \in Nat /\ at + Len(part) <= Len(bytes)
      BY DEF Sits
    <2> QED BY <1>1, <2>1
  <1>3. bytes[m + 1] = part[i]
    BY <1>1 DEF Sits
  <1> HIDE DEF m
  <1> QED BY <1>1, <1>2, <1>3, BoolReadsBack, ByteReadsBack, ModeReadsBack DEF m

LEMMA CpuBytes ==
    ASSUME NEW s \in CpuState, NEW bytes \in Seq(Byte), NEW at \in Nat,
           Sits(WriteCpu(s), bytes, at)
    PROVE  /\ Sits(CpuHead(s), bytes, at) /\ Sits(CpuMiddle(s), bytes, at + 9)
           /\ Value("u16", bytes, at + 7) = s.pc
           /\ read_u16(bytes, at + 18) = Len(s.rom)
           /\ Value("u8v", bytes, at + 18) = s.rom
           /\ read_u16(bytes, at + 20 + Len(s.rom)) = Len(s.ram)
           /\ Value("u8v", bytes, at + 20 + Len(s.rom)) = s.ram
  <1>1. /\ Sits(CpuHead(s), bytes, at)
        /\ Sits(write_u16(s.pc), bytes, at + 7)
        /\ Sits(CpuMiddle(s), bytes, at + 9)
        /\ Sits(write_u8v(s.rom), bytes, at + 18)
        /\ Sits(write_u8v(s.ram), bytes, at + 20 + Len(s.rom))
        /\ Len(s.rom) \in Nat
    <2>1. Len(bytes) \in Nat
      OBVIOUS
    <2> QED BY <2>1, CpuSits
  <1>2. Value("u16", bytes, at + 7) = s.pc
    <2>1. IsWord(s.pc) /\ Len(write_u16(s.pc)) = 2
      BY CpuParts
    <2>a. (at + 7) + Len(write_u16(s.pc)) <= Len(bytes)
      BY <1>1 DEF Sits
    <2>b. at + 7 \in Nat
      OBVIOUS
    <2>2. (at + 7) + 2 <= Len(bytes) /\ at + 7 \in Nat
      BY <2>1, <2>a, <2>b
    <2>3. /\ bytes[(at + 7) + 1] = write_u16(s.pc)[1]
          /\ bytes[(at + 7) + 2] = write_u16(s.pc)[2]
      BY <1>1, <2>1 DEF Sits
    <2> DEFINE k == at + 7
    <2> HIDE DEF k
    <2>c. /\ k \in Nat /\ k + 2 <= Len(bytes)
          /\ bytes[k + 1] = write_u16(s.pc)[1] /\ bytes[k + 2] = write_u16(s.pc)[2]
      BY <2>2, <2>3 DEF k
    <2>4. read_u16(bytes, k) = s.pc
      BY <2>1, <2>c, WordReadsBack
    <2> QED BY <2>4 DEF Value, k
  <1>3. s.rom \in Vector /\ s.ram \in Vector
    BY CpuParts
  <1>4. at + 18 \in Nat /\ at + 20 + Len(s.rom) \in Nat
    BY <1>1
  <1>5. read_u16(bytes, at + 18) = Len(s.rom) /\ read_u8v(bytes, at + 18) = s.rom
    BY <1>1, <1>3, <1>4, VectorReadsBack
  <1>6. /\ read_u16(bytes, at + 20 + Len(s.rom)) = Len(s.ram)
        /\ read_u8v(bytes, at + 20 + Len(s.rom)) = s.ram
    BY <1>1, <1>3, <1>4, VectorReadsBack
  <1> QED BY <1>1, <1>2, <1>5, <1>6 DEF Value

\* Fields that start where the parts of the written state are have its members' values.
LEMMA CpuValues ==
    ASSUME NEW s \in CpuState, NEW bytes, NEW start,
           AreRead(CpuHead(s), bytes, start, 0), AreRead(CpuMiddle(s), bytes, start, 8),
           Value("u16", bytes, start[8]) = s.pc,
           Value("u8v", bytes, start[18]) = s.rom, Value("u8v", bytes, start[19]) = s.ram
    PROVE  \A i \in DOMAIN CpuFields :
              Value(CpuFields[i][2], bytes, start[i]) = s[CpuFields[i][1]]
  <1>1. /\ s.tf \in BOOLEAN /\ s.notInt \in BOOLEAN /\ s.timerInterruptRequested \in BOOLEAN
        /\ s.t0 \in BOOLEAN /\ s.t1 \in BOOLEAN
        /\ s.externalInterruptsEnabled \in BOOLEAN /\ s.tcntInterruptsEnabled \in BOOLEAN
        /\ s.counterRunning \in BOOLEAN /\ s.timerRunning \in BOOLEAN
        /\ s.inInterrupt \in BOOLEAN
    BY DEF CpuState
  <1>2. /\ Value("bool", bytes, start[1]) = s.tf /\ Value("bool", bytes, start[2]) = s.notInt
        /\ Value("bool", bytes, start[3]) = s.timerInterruptRequested
        /\ Value("bool", bytes, start[4]) = s.t0 /\ Value("bool", bytes, start[5]) = s.t1
        /\ Value("u8", bytes, start[6]) = s.t /\ Value("u8", bytes, start[7]) = s.a
    <2> DEFINE h == CpuHead(s)
    <2>1. /\ Len(h) = 7 /\ h[1] = Flag(s.tf) /\ h[2] = Flag(s.notInt)
          /\ h[3] = Flag(s.timerInterruptRequested) /\ h[4] = Flag(s.t0)
          /\ h[5] = Flag(s.t1) /\ h[6] = s.t /\ h[7] = s.a
      BY DEF CpuHead
    <2> HIDE DEF h
    <2>2. \A i \in 1..7 :
             /\ Value("u8", bytes, start[i]) = h[i]
             /\ \A x \in BOOLEAN : h[i] = Flag(x) => Value("bool", bytes, start[i]) = x
      BY <2>1 DEF AreRead, h
    <2> QED BY <1>1, <2>1, <2>2
  <1>3. /\ Value("u8", bytes, start[9]) = s.psw /\ Value("u8", bytes, start[10]) = s.dbf
        /\ Value("u8", bytes, start[11]) = s.f1
        /\ Value("bool", bytes, start[12]) = s.externalInterruptsEnabled
        /\ Value("bool", bytes, start[13]) = s.tcntInterruptsEnabled
        /\ Value("bool", bytes, start[14]) = s.counterRunning
        /\ Value("bool", bytes, start[15]) = s.timerRunning
        /\ Value("u8", bytes, start[16]) = s.cyclesUntilCount
        /\ Value("bool", bytes, start[17]) = s.inInterrupt
    <2> DEFINE m == CpuMiddle(s)
    <2>1. /\ Len(m) = 9 /\ m[1] = s.psw /\ m[2] = s.dbf /\ m[3] = s.f1
          /\ m[4] = Flag(s.externalInterruptsEnabled)
          /\ m[5] = Flag(s.tcntInterruptsEnabled) /\ m[6] = Flag(s.counterRunning)
          /\ m[7] = Flag(s.timerRunning) /\ m[8] = s.cyclesUntilCount
          /\ m[9] = Flag(s.inInterrupt)
      BY DEF CpuMiddle
    <2> HIDE DEF m
    <2>2. \A i \in 1..9 :
             /\ Value("u8", bytes, start[8 + i]) = m[i]
             /\ \A x \in BOOLEAN : m[i] = Flag(x) => Value("bool", bytes, start[8 + i]) = x
      BY <2>1 DEF AreRead, m
    <2> QED BY <1>1, <2>1, <2>2
  <1>4. DOMAIN CpuFields = 1..19
    BY DEF CpuFields
  <1>5. \A i \in 1..8 : Value(CpuFields[i][2], bytes, start[i]) = s[CpuFields[i][1]]
    BY <1>2 DEF CpuFields
  <1>6. \A i \in 9..19 : Value(CpuFields[i][2], bytes, start[i]) = s[CpuFields[i][1]]
    BY <1>3 DEF CpuFields
  <1>7. \A i \in 1..19 : i \in 1..8 \/ i \in 9..19
    OBVIOUS
  <1> QED BY <1>4, <1>5, <1>6, <1>7, Zenon

\* The members of the state are the names of the list.
LEMMA CpuMembers ==
    ASSUME NEW s \in CpuState
    PROVE  s = [name \in {CpuFields[i][1] : i \in DOMAIN CpuFields} |-> s[name]]
  <1> DEFINE names ==
        {"tf", "notInt", "timerInterruptRequested", "t0", "t1", "t", "a", "pc", "psw", "dbf",
         "f1", "externalInterruptsEnabled", "tcntInterruptsEnabled", "counterRunning",
         "timerRunning", "cyclesUntilCount", "inInterrupt", "rom", "ram"}
  <1>1. {CpuFields[i][1] : i \in DOMAIN CpuFields} = names
    BY SMTT(60) DEF CpuFields
  <1>2. DOMAIN s = names /\ s = [name \in DOMAIN s |-> s[name]]
    BY DEF CpuState
  <1> QED BY <1>1, <1>2

\* operator>> takes off what operator<< put on: every member of the 8049's state.
LEMMA CpuReadsBack ==
    ASSUME NEW s \in CpuState, NEW bytes \in Seq(Byte), NEW at \in Nat,
           Sits(WriteCpu(s), bytes, at)
    PROVE  /\ ReadFields(CpuFields, bytes, at) = s
           /\ End(CpuFields, bytes, at) = at + Len(WriteCpu(s))
  <1> DEFINE S == Starts(CpuFields, bytes, at)
             R == Len(s.rom)
  <1>1. \A i \in Nat : read_u16(bytes, i) \in Nat
    BY ReadTypes
  <1>2. R \in Nat /\ read_u16(bytes, at + 18) = R
    BY CpuBytes, CpuSits
  <1>3. \A i \in 1..20 : S[i] = CpuStart(i, bytes, at)
    BY <1>1, CpuStarts
  <1> HIDE DEF S, R
  <1>4. /\ S[8] = at + 7 /\ S[18] = at + 18
        /\ \A i \in 1..7 : S[0 + i] = at + (i - 1)
        /\ \A i \in 1..9 : S[8 + i] = (at + 9) + (i - 1)
    BY <1>3 DEF CpuStart
  <1>5. CpuStart(19, bytes, at) = at + 20 + R
    BY <1>2 DEF CpuStart
  <1>6. CpuStart(20, bytes, at) = at + 20 + R + 2 + read_u16(bytes, at + 20 + R)
    BY <1>2 DEF CpuStart
  <1>7. AreRead(CpuHead(s), bytes, S, 0) /\ AreRead(CpuMiddle(s), bytes, S, 8)
    <2>1. Sits(CpuHead(s), bytes, at) /\ Sits(CpuMiddle(s), bytes, at + 9)
      BY CpuBytes
    <2>2. /\ CpuHead(s) \in Seq(Byte) /\ Len(CpuHead(s)) = 7
          /\ CpuMiddle(s) \in Seq(Byte) /\ Len(CpuMiddle(s)) = 9
      BY CpuParts
    <2>3. at + 9 \in Nat
      OBVIOUS
    <2>4. AreRead(CpuHead(s), bytes, S, 0)
      BY <1>4, <2>1, <2>2, SinglesReadBack
    <2>5. AreRead(CpuMiddle(s), bytes, S, 8)
      BY <1>4, <2>1, <2>2, <2>3, SinglesReadBack
    <2> QED BY <2>4, <2>5
  <1>8. /\ Value("u16", bytes, S[8]) = s.pc
        /\ Value("u8v", bytes, S[18]) = s.rom
        /\ Value("u8v", bytes, S[19]) = s.ram
    <2>1. /\ Value("u16", bytes, at + 7) = s.pc
          /\ Value("u8v", bytes, at + 18) = s.rom
          /\ Value("u8v", bytes, at + 20 + R) = s.ram
      BY CpuBytes DEF R
    <2>2. S[19] = at + 20 + R
      BY <1>3, <1>5
    <2> QED BY <1>4, <2>1, <2>2
  <1>9. ReadFields(CpuFields, bytes, at) = s
    <2>1. \A i \in DOMAIN CpuFields :
             Value(CpuFields[i][2], bytes, Starts(CpuFields, bytes, at)[i])
               = s[CpuFields[i][1]]
      BY <1>7, <1>8, CpuValues DEF S
    <2>2. s = [name \in {CpuFields[i][1] : i \in DOMAIN CpuFields} |-> s[name]]
      BY CpuMembers
    <2> QED BY <2>1, <2>2, FieldsReadBack
  <1>10. End(CpuFields, bytes, at) = S[20]
    BY DEF End, S, CpuFields
  <1>11. read_u16(bytes, at + 20 + R) = Len(s.ram)
    BY CpuBytes DEF R
  <1>12. S[20] = at + Len(WriteCpu(s))
    <2>1. Len(WriteCpu(s)) = 22 + R + Len(s.ram) /\ Len(s.ram) \in Nat
      BY CpuSits DEF R
    <2>2. S[20] = at + 20 + R + 2 + Len(s.ram)
      BY <1>3, <1>6, <1>11
    <2>3. \A m, n \in Nat : at + 20 + m + 2 + n = at + (22 + m + n)
      OBVIOUS
    <2>4. at + 20 + R + 2 + Len(s.ram) = at + (22 + R + Len(s.ram))
      BY <1>2, <2>1, <2>3
    <2> QED BY <2>1, <2>2, <2>4
  <1> QED BY <1>9, <1>10, <1>12

\* The same for an 8155: fourteen single bytes, then the RAM.
ChipHead(s) ==
    <<s.latch, Flag(s.io), Flag(s.ce), Flag(s.ale), Flag(s.rd), Flag(s.wr),
      s.pa, s.pb, s.pc, Flag(s.paOut), Flag(s.pbOut), ModeByte(s.pcMode),
      Flag(s.paInterrupt), Flag(s.pbInterrupt)>>

LEMMA ModeIsByte == \A mode \in PortCMode : ModeByte(mode) \in Byte
  <1> SUFFICES ASSUME NEW mode \in PortCMode
               PROVE  ModeByte(mode) \in Byte
    OBVIOUS
  <1> DEFINE k == CHOOSE i \in DOMAIN Modes : Modes[i] = mode
  <1>1. k \in 1..4
    BY DEF PortCMode, Modes
  <1> HIDE DEF k
  <1>2. k - 1 \in 0..255
    BY <1>1
  <1> QED BY <1>2, ByteOfNumber DEF ModeByte, k

LEMMA ChipParts ==
    ASSUME NEW s \in Chip
    PROVE  /\ WriteChip(s) = ChipHead(s) \o write_u8v(content(s.ram))
           /\ ChipHead(s) \in Seq(Byte) /\ Len(ChipHead(s)) = 14
           /\ s.ram \in [Cell -> Byte]
           /\ content(s.ram) \in Vector /\ Len(content(s.ram)) \in Nat
           /\ write_u8v(content(s.ram)) \in Seq(Byte)
           /\ Len(write_u8v(content(s.ram))) = Len(content(s.ram)) + 2
           /\ WriteChip(s) \in Seq(Byte)
           /\ Len(WriteChip(s)) = 16 + Len(content(s.ram))
  <1>1. ChipHead(s) \in Seq(Byte) /\ Len(ChipHead(s)) = 14
    <2>1. /\ s.latch \in Byte /\ s.pa \in Byte /\ s.pb \in Byte /\ s.pc \in Byte
          /\ s.pcMode \in PortCMode
      BY DEF Chip
    <2>2. ModeByte(s.pcMode) \in Byte
      BY <2>1, ModeIsByte
    <2> QED BY <2>1, <2>2, FlagIsByte DEF ChipHead
  <1>2. WriteChip(s) = ChipHead(s) \o write_u8v(content(s.ram))
    BY DEF WriteChip, ChipHead
  <1>3. s.ram \in [Cell -> Byte]
    BY DEF Chip
  <1>4. content(s.ram) \in Vector
    BY <1>3, RamAndContent
  <1> DEFINE h == ChipHead(s)
             v == content(s.ram)
             w == write_u8v(v)
  <1>5. w \in Seq(Byte) /\ Len(w) = Len(v) + 2 /\ Len(v) \in Nat
    BY <1>4, VectorBytes
  <1> HIDE DEF h, v, w
  <1>6. h \o w \in Seq(Byte) /\ Len(h \o w) = Len(h) + Len(w)
    <2>1. h \in Seq(Byte)
      BY <1>1 DEF h
    <2> QED BY <1>5, <2>1, Joined
  <1>7. Len(h \o w) = 16 + Len(v)
    <2>1. Len(h) = 14
      BY <1>1 DEF h
    <2> QED BY <1>5, <1>6, <2>1
  <1> QED BY <1>1, <1>2, <1>3, <1>4, <1>5, <1>6, <1>7 DEF h, v, w

LEMMA ChipBytes ==
    ASSUME NEW s \in Chip, NEW bytes \in Seq(Byte), NEW at \in Nat,
           Sits(WriteChip(s), bytes, at)
    PROVE  /\ Sits(ChipHead(s), bytes, at)
           /\ read_u16(bytes, at + 14) = Len(content(s.ram))
           /\ Value("Ram", bytes, at + 14) = s.ram
  <1>1. Sits(ChipHead(s), bytes, at) /\ Sits(write_u8v(content(s.ram)), bytes, at + 14)
    <2>1. /\ ChipHead(s) \in Seq(Byte) /\ write_u8v(content(s.ram)) \in Seq(Byte)
          /\ Len(ChipHead(s)) = 14
          /\ WriteChip(s) = ChipHead(s) \o write_u8v(content(s.ram))
      BY ChipParts
    <2>2. Len(bytes) \in Nat
      OBVIOUS
    <2> QED BY <2>1, <2>2, SitsInParts
  <1>2. s.ram \in [Cell -> Byte] /\ at + 14 \in Nat
    BY ChipParts
  <1> QED BY <1>1, <1>2, RamReadsBack

LEMMA ChipValues ==
    ASSUME NEW s \in Chip, NEW bytes, NEW start,
           AreRead(ChipHead(s), bytes, start, 0), Value("Ram", bytes, start[15]) = s.ram
    PROVE  \A i \in DOMAIN ChipFields :
              Value(ChipFields[i][2], bytes, start[i]) = s[ChipFields[i][1]]
  <1>1. /\ s.io \in BOOLEAN /\ s.ce \in BOOLEAN /\ s.ale \in BOOLEAN
        /\ s.rd \in BOOLEAN /\ s.wr \in BOOLEAN
        /\ s.paOut \in BOOLEAN /\ s.pbOut \in BOOLEAN /\ s.pcMode \in PortCMode
        /\ s.paInterrupt \in BOOLEAN /\ s.pbInterrupt \in BOOLEAN
    BY DEF Chip
  <1>2. /\ Value("u8", bytes, start[1]) = s.latch /\ Value("bool", bytes, start[2]) = s.io
        /\ Value("bool", bytes, start[3]) = s.ce /\ Value("bool", bytes, start[4]) = s.ale
        /\ Value("bool", bytes, start[5]) = s.rd /\ Value("bool", bytes, start[6]) = s.wr
        /\ Value("u8", bytes, start[7]) = s.pa /\ Value("u8", bytes, start[8]) = s.pb
        /\ Value("u8", bytes, start[9]) = s.pc
        /\ Value("bool", bytes, start[10]) = s.paOut
        /\ Value("bool", bytes, start[11]) = s.pbOut
        /\ Value("mode", bytes, start[12]) = s.pcMode
        /\ Value("bool", bytes, start[13]) = s.paInterrupt
        /\ Value("bool", bytes, start[14]) = s.pbInterrupt
    <2> DEFINE h == ChipHead(s)
    <2>1. /\ Len(h) = 14 /\ h[1] = s.latch /\ h[2] = Flag(s.io) /\ h[3] = Flag(s.ce)
          /\ h[4] = Flag(s.ale) /\ h[5] = Flag(s.rd) /\ h[6] = Flag(s.wr)
          /\ h[7] = s.pa /\ h[8] = s.pb /\ h[9] = s.pc
          /\ h[10] = Flag(s.paOut) /\ h[11] = Flag(s.pbOut) /\ h[12] = ModeByte(s.pcMode)
          /\ h[13] = Flag(s.paInterrupt) /\ h[14] = Flag(s.pbInterrupt)
      BY DEF ChipHead
    <2> HIDE DEF h
    <2>2. \A i \in 1..14 :
             /\ Value("u8", bytes, start[i]) = h[i]
             /\ \A x \in BOOLEAN : h[i] = Flag(x) => Value("bool", bytes, start[i]) = x
             /\ \A x \in PortCMode : h[i] = ModeByte(x) => Value("mode", bytes, start[i]) = x
      BY <2>1 DEF AreRead, h
    <2> QED BY <1>1, <2>1, <2>2
  <1>3. DOMAIN ChipFields = 1..15
    BY DEF ChipFields
  <1>4. \A i \in 1..15 : Value(ChipFields[i][2], bytes, start[i]) = s[ChipFields[i][1]]
    BY <1>2 DEF ChipFields
  <1> QED BY <1>3, <1>4

LEMMA ChipMembers ==
    ASSUME NEW s \in Chip
    PROVE  s = [name \in {ChipFields[i][1] : i \in DOMAIN ChipFields} |-> s[name]]
  <1> DEFINE names ==
        {"latch", "io", "ce", "ale", "rd", "wr", "pa", "pb", "pc", "paOut", "pbOut",
         "pcMode", "paInterrupt", "pbInterrupt", "ram"}
  <1>1. {ChipFields[i][1] : i \in DOMAIN ChipFields} = names
    BY DEF ChipFields
  <1>2. DOMAIN s = names /\ s = [name \in DOMAIN s |-> s[name]]
    BY DEF Chip
  <1> QED BY <1>1, <1>2

\* operator>> takes off what operator<< put on: every member of an 8155's state.
LEMMA ChipReadsBack ==
    ASSUME NEW s \in Chip, NEW bytes \in Seq(Byte), NEW at \in Nat,
           Sits(WriteChip(s), bytes, at)
    PROVE  /\ ReadFields(ChipFields, bytes, at) = s
           /\ End(ChipFields, bytes, at) = at + Len(WriteChip(s))
  <1> DEFINE S == Starts(ChipFields, bytes, at)
             R == Len(content(s.ram))
  <1>1. \A i \in Nat : read_u16(bytes, i) \in Nat
    BY ReadTypes
  <1>2. R \in Nat /\ read_u16(bytes, at + 14) = R
    BY ChipBytes, ChipParts
  <1>3. \A i \in 1..16 : S[i] = ChipStart(i, bytes, at)
    BY <1>1, ChipStarts
  <1> HIDE DEF S, R
  <1>4. S[15] = at + 14 /\ \A i \in 1..14 : S[0 + i] = at + (i - 1)
    BY <1>3 DEF ChipStart
  <1>5. ChipStart(16, bytes, at) = at + 16 + R
    BY <1>2 DEF ChipStart
  <1>6. AreRead(ChipHead(s), bytes, S, 0)
    <2>1. Sits(ChipHead(s), bytes, at)
      BY ChipBytes
    <2>2. ChipHead(s) \in Seq(Byte) /\ Len(ChipHead(s)) = 14
      BY ChipParts
    <2> QED BY <1>4, <2>1, <2>2, SinglesReadBack
  <1>7. Value("Ram", bytes, S[15]) = s.ram
    BY <1>4, ChipBytes
  <1>8. ReadFields(ChipFields, bytes, at) = s
    <2>1. \A i \in DOMAIN ChipFields :
             Value(ChipFields[i][2], bytes, Starts(ChipFields, bytes, at)[i])
               = s[ChipFields[i][1]]
      BY <1>6, <1>7, ChipValues DEF S
    <2>2. s = [name \in {ChipFields[i][1] : i \in DOMAIN ChipFields} |-> s[name]]
      BY ChipMembers
    <2> QED BY <2>1, <2>2, FieldsReadBack
  <1>9. End(ChipFields, bytes, at) = S[16]
    BY DEF End, S, ChipFields
  <1>10. S[16] = at + Len(WriteChip(s))
    <2>1. Len(WriteChip(s)) = 16 + R
      BY ChipParts DEF R
    <2>2. S[16] = at + 16 + R
      BY <1>3, <1>5
    <2>3. \A n \in Nat : at + 16 + n = at + (16 + n)
      OBVIOUS
    <2> QED BY <1>2, <2>1, <2>2, <2>3
  <1> QED BY <1>8, <1>9, <1>10

-----------------------------------------------------------------------------
(* The whole file, and a file that is cut off.                             *)

SavedState == [cpu : CpuState, pid : Chip, pidExtension : Chip]
File(state) == StateHeader \o WriteState(state)

LEMMA HeaderBytes == StateHeader \in Seq(Byte) /\ Len(StateHeader) = 6
  <1> DEFINE h == <<ToByte(75), ToByte(67), ToByte(80), ToByte(49)>>
             v == <<ToByte(1), ToByte(0)>>
  <1>1. /\ ToByte(75) \in Byte /\ ToByte(67) \in Byte /\ ToByte(80) \in Byte
        /\ ToByte(49) \in Byte /\ ToByte(1) \in Byte /\ ToByte(0) \in Byte
    BY DEF ToByte, Byte
  <1>2. h \in Seq(Byte) /\ Len(h) = 4 /\ v \in Seq(Byte) /\ Len(v) = 2
    BY <1>1
  <1>3. StateHeader = h \o v
    BY DEF StateHeader
  <1> HIDE DEF h, v
  <1>4. h \o v \in Seq(Byte) /\ Len(h \o v) = Len(h) + Len(v)
    BY <1>2, Joined
  <1> QED BY <1>2, <1>3, <1>4

LEMMA FileBytes ==
    ASSUME NEW state \in SavedState
    PROVE  /\ File(state) \in Seq(Byte) /\ Len(File(state)) \in Nat
           /\ Len(WriteCpu(state.cpu)) \in Nat /\ Len(WriteChip(state.pid)) \in Nat
           /\ Len(WriteChip(state.pidExtension)) \in Nat
           /\ Len(File(state)) = 6 + Len(WriteCpu(state.cpu)) + Len(WriteChip(state.pid))
                                   + Len(WriteChip(state.pidExtension))
           /\ Sits(StateHeader, File(state), 0)
           /\ Sits(WriteCpu(state.cpu), File(state), 6)
           /\ Sits(WriteChip(state.pid), File(state), 6 + Len(WriteCpu(state.cpu)))
           /\ Sits(WriteChip(state.pidExtension), File(state),
                   6 + Len(WriteCpu(state.cpu)) + Len(WriteChip(state.pid)))
  <1> DEFINE h == StateHeader
             c == WriteCpu(state.cpu)
             p == WriteChip(state.pid)
             e == WriteChip(state.pidExtension)
             cp == c \o p
             cpe == cp \o e
             f == h \o cpe
  <1>1. c \in Seq(Byte) /\ p \in Seq(Byte) /\ e \in Seq(Byte)
    <2>1. state.cpu \in CpuState /\ state.pid \in Chip /\ state.pidExtension \in Chip
      BY DEF SavedState
    <2> QED BY <2>1, CpuSits, ChipParts
  <1>2. h \in Seq(Byte) /\ Len(h) = 6
    BY HeaderBytes
  <1>3. File(state) = f
    BY DEF File, WriteState
  <1> HIDE DEF h, c, p, e
  <1>4. /\ cp \in Seq(Byte) /\ Len(cp) = Len(c) + Len(p)
        /\ Len(c) \in Nat /\ Len(p) \in Nat /\ Len(e) \in Nat
    BY <1>1, Joined
  <1> HIDE DEF cp
  <1>5. cpe \in Seq(Byte) /\ Len(cpe) = Len(cp) + Len(e)
    BY <1>1, <1>4, Joined
  <1> HIDE DEF cpe
  <1>6. f \in Seq(Byte) /\ Len(f) = Len(h) + Len(cpe)
    BY <1>2, <1>5, Joined
  <1> HIDE DEF f
  <1>7. Len(f) \in Nat /\ Sits(f, f, 0)
    BY <1>6 DEF Sits
  <1>8. Sits(h, f, 0) /\ Sits(cpe, f, 6)
    <2>1. Sits(h \o cpe, f, 0)
      BY <1>7 DEF f
    <2>2. Sits(h, f, 0) /\ Sits(cpe, f, 0 + Len(h))
      BY <1>2, <1>5, <1>7, <2>1, SitsInParts
    <2>3. 0 + Len(h) = 6
      BY <1>2
    <2> QED BY <2>2, <2>3
  <1>9. Sits(cp, f, 6) /\ Sits(e, f, 6 + Len(cp))
    BY <1>1, <1>4, <1>7, <1>8, SitsInParts DEF cpe
  <1>10. Sits(c, f, 6) /\ Sits(p, f, 6 + Len(c))
    BY <1>1, <1>7, <1>9, SitsInParts DEF cp
  <1>11. 6 + Len(cp) = 6 + Len(c) + Len(p) /\ Len(f) = 6 + Len(c) + Len(p) + Len(e)
    BY <1>2, <1>4, <1>5, <1>6
  <1> QED BY <1>3, <1>4, <1>6, <1>7, <1>8, <1>9, <1>10, <1>11 DEF h, c, p, e

\* The reader finds every part where the writer put it.
THEOREM FileReadsBack ==
    ASSUME NEW state \in SavedState
    PROVE  ReadState(File(state)) = state /\ Parts(File(state))[4] = Len(File(state))
  <1> DEFINE f == File(state)
             c == Len(WriteCpu(state.cpu))
             p == Len(WriteChip(state.pid))
             e == Len(WriteChip(state.pidExtension))
  <1>1. state.cpu \in CpuState /\ state.pid \in Chip /\ state.pidExtension \in Chip
    BY DEF SavedState
  <1>2. /\ f \in Seq(Byte) /\ c \in Nat /\ p \in Nat /\ e \in Nat
        /\ Len(f) = 6 + c + p + e
        /\ Sits(WriteCpu(state.cpu), f, 6)
        /\ Sits(WriteChip(state.pid), f, 6 + c)
        /\ Sits(WriteChip(state.pidExtension), f, 6 + c + p)
    BY FileBytes
  <1> HIDE DEF f, c, p, e
  <1>3. 6 \in Nat /\ 6 + c \in Nat /\ 6 + c + p \in Nat
    BY <1>2
  <1>4. ReadFields(CpuFields, f, 6) = state.cpu /\ End(CpuFields, f, 6) = 6 + c
    BY <1>1, <1>2, <1>3, CpuReadsBack DEF c
  <1>5. /\ ReadFields(ChipFields, f, 6 + c) = state.pid
        /\ End(ChipFields, f, 6 + c) = 6 + c + p
    BY <1>1, <1>2, <1>3, ChipReadsBack DEF p
  <1>6. /\ ReadFields(ChipFields, f, 6 + c + p) = state.pidExtension
        /\ End(ChipFields, f, 6 + c + p) = 6 + c + p + e
    BY <1>1, <1>2, <1>3, ChipReadsBack DEF e
  <1>7. Parts(f) = <<6, 6 + c, 6 + c + p, 6 + c + p + e>>
    BY <1>4, <1>5, <1>6, HeaderBytes, Zenon DEF Parts
  <1>8. ReadState(f) = [cpu |-> state.cpu, pid |-> state.pid,
                        pidExtension |-> state.pidExtension]
    <2>1. /\ Parts(f)[1] = 6 /\ Parts(f)[2] = 6 + c /\ Parts(f)[3] = 6 + c + p
      BY <1>7
    <2> QED BY <1>4, <1>5, <1>6, <2>1, Zenon DEF ReadState
  <1>9. state = [cpu |-> state.cpu, pid |-> state.pid, pidExtension |-> state.pidExtension]
    BY DEF SavedState
  <1> QED BY <1>2, <1>7, <1>8, <1>9 DEF f

\* Where the lists end, by the lengths they read on the way.
LEMMA Ends ==
    ASSUME NEW bytes, NEW at \in Nat, \A i \in Nat : read_u16(bytes, i) \in Nat
    PROVE  /\ End(CpuFields, bytes, at) = CpuStart(20, bytes, at)
           /\ End(ChipFields, bytes, at) = ChipStart(16, bytes, at)
  <1>1. /\ Starts(CpuFields, bytes, at)[20] = CpuStart(20, bytes, at)
        /\ Starts(ChipFields, bytes, at)[16] = ChipStart(16, bytes, at)
    BY CpuStarts, ChipStarts
  <1>2. Len(CpuFields) + 1 = 20 /\ Len(ChipFields) + 1 = 16
    BY DEF CpuFields, ChipFields
  <1> QED BY <1>1, <1>2 DEF End

\* Two files that agree on the lengths in front of size agree on every list that ends there.
AgreeUpTo(size, cut, bytes) ==
    \A i \in Nat : /\ read_u16(cut, i) \in Nat /\ read_u16(bytes, i) \in Nat
                   /\ i + 2 <= size => read_u16(cut, i) = read_u16(bytes, i)

EndTogether(size, cut, bytes, at) ==
    /\ End(CpuFields, cut, at) \in Nat /\ at <= End(CpuFields, cut, at)
    /\ End(ChipFields, cut, at) \in Nat /\ at <= End(ChipFields, cut, at)
    /\ End(CpuFields, cut, at) <= size =>
         End(CpuFields, cut, at) = End(CpuFields, bytes, at)
    /\ End(ChipFields, cut, at) <= size =>
         End(ChipFields, cut, at) = End(ChipFields, bytes, at)

LEMMA ListsAgree ==
    ASSUME NEW size \in Nat, NEW cut, NEW bytes, AgreeUpTo(size, cut, bytes), NEW at \in Nat
    PROVE  EndTogether(size, cut, bytes, at)
  <1>1. /\ End(CpuFields, cut, at) = CpuStart(20, cut, at)
        /\ End(ChipFields, cut, at) = ChipStart(16, cut, at)
        /\ End(CpuFields, bytes, at) = CpuStart(20, bytes, at)
        /\ End(ChipFields, bytes, at) = ChipStart(16, bytes, at)
    BY Ends DEF AgreeUpTo
  <1> DEFINE x == read_u16(cut, at + 18)
             y == read_u16(cut, at + 20 + x)
             z == read_u16(cut, at + 14)
  <1>2. x \in Nat /\ z \in Nat
    <2>1. at + 18 \in Nat /\ at + 14 \in Nat
      OBVIOUS
    <2> QED BY <2>1 DEF AgreeUpTo
  <1>3. /\ at + 18 + 2 <= size => read_u16(bytes, at + 18) = x
        /\ at + 14 + 2 <= size => read_u16(bytes, at + 14) = z
    BY DEF AgreeUpTo
  <1> HIDE DEF x, z
  <1>4. y \in Nat /\ (at + 20 + x + 2 <= size => read_u16(bytes, at + 20 + x) = y)
    <2>1. at + 20 + x \in Nat
      BY <1>2
    <2> QED BY <2>1 DEF AgreeUpTo
  <1>5. CpuStart(20, cut, at) = at + 20 + x + 2 + y
    BY DEF CpuStart, x, y
  <1>6. ChipStart(16, cut, at) = at + 16 + z /\ ChipStart(16, bytes, at) =
          at + 16 + read_u16(bytes, at + 14)
    BY DEF ChipStart, z
  <1> HIDE DEF y
  <1>7. ASSUME at + 20 + x + 2 + y <= size
        PROVE  CpuStart(20, bytes, at) = at + 20 + x + 2 + y
    <2>1. at + 18 + 2 <= size /\ at + 20 + x + 2 <= size
      BY <1>2, <1>4, <1>7
    <2>2. read_u16(bytes, at + 18) = x /\ read_u16(bytes, at + 20 + x) = y
      BY <1>3, <1>4, <2>1
    <2> QED BY <2>2 DEF CpuStart
  <1>8. at + 16 + z <= size => read_u16(bytes, at + 14) = z
    BY <1>2, <1>3
  <1>9. /\ at + 20 + x + 2 + y \in Nat /\ at <= at + 20 + x + 2 + y
        /\ at + 16 + z \in Nat /\ at <= at + 16 + z
    BY <1>2, <1>4
  <1> QED BY <1>1, <1>5, <1>6, <1>7, <1>8, <1>9 DEF EndTogether

LEMMA CutAgrees ==
    ASSUME NEW file \in Seq(Byte), NEW size \in 0..Len(file)
    PROVE  LET cut == SubSeq(file, 1, size)
           IN  cut \in Seq(Byte) /\ Len(cut) = size /\ AgreeUpTo(size, cut, file)
  <1> DEFINE cut == SubSeq(file, 1, size)
  <1>1. /\ cut \in Seq(Byte) /\ Len(cut) = size /\ size \in Nat /\ Len(file) \in Nat
        /\ \A i \in 1..size : cut[i] = file[i]
    OBVIOUS
  <1> HIDE DEF cut
  <1>2. \A i \in Nat : read_u16(cut, i) \in Nat /\ read_u16(file, i) \in Nat
    BY <1>1, ReadTypes
  <1>3. ASSUME NEW i \in Nat, i + 2 <= size
        PROVE  read_u16(cut, i) = read_u16(file, i)
    <2>1. i + 1 \in 1..size /\ i + 2 \in 1..size
      BY <1>1, <1>3
    <2>2. /\ i + 1 \in DOMAIN cut /\ i + 2 \in DOMAIN cut
          /\ i + 1 \in DOMAIN file /\ i + 2 \in DOMAIN file
      BY <1>1, <2>1
    <2>3. Get(cut, i + 1) = Get(file, i + 1) /\ Get(cut, i + 2) = Get(file, i + 2)
      BY <1>1, <2>1, <2>2 DEF Get
    <2> QED BY <2>3 DEF read_u16
  <1> QED BY <1>1, <1>2, <1>3 DEF AgreeUpTo, cut

\* A file whose end is missing is not loaded, wherever it was cut off.
THEOREM CutIsRefused ==
    ASSUME NEW state \in SavedState, NEW size \in 0..Len(File(state)),
           Accepted(SubSeq(File(state), 1, size))
    PROVE  SubSeq(File(state), 1, size) = File(state)
  <1> DEFINE f == File(state)
             cut == SubSeq(f, 1, size)
             c == End(CpuFields, cut, 6)
             p == End(ChipFields, cut, c)
             e == End(ChipFields, cut, p)
  <1>1. f \in Seq(Byte) /\ Parts(f)[4] = Len(f)
    BY FileBytes, FileReadsBack
  <1>2. size \in Nat /\ Len(cut) = size /\ AgreeUpTo(size, cut, f)
    <2> HIDE DEF f
    <2>1. size \in 0..Len(f)
      BY DEF f
    <2> QED BY <1>1, <2>1, CutAgrees
  <1>3. Accepted(cut)
    OBVIOUS
  <1> HIDE DEF f, cut
  <1>4. Parts(cut)[4] = e /\ Parts(cut)[4] <= size
    BY <1>2, <1>3, HeaderBytes DEF Accepted, Parts
  <1>a. \A at \in Nat : EndTogether(size, cut, f, at)
    BY <1>2, ListsAgree
  <1>5. c \in Nat /\ 6 <= c /\ (c <= size => c = End(CpuFields, f, 6))
    BY <1>a DEF EndTogether
  <1> HIDE DEF c
  <1>6. p \in Nat /\ c <= p /\ (p <= size => p = End(ChipFields, f, c))
    BY <1>a, <1>5 DEF EndTogether
  <1> HIDE DEF p
  <1>7. e \in Nat /\ p <= e /\ (e <= size => e = End(ChipFields, f, p))
    BY <1>a, <1>6 DEF EndTogether
  <1>8. e <= size /\ p <= size /\ c <= size
    <2> HIDE DEF e
    <2> QED BY <1>2, <1>4, <1>5, <1>6, <1>7
  <1>9. e = Parts(f)[4]
    <2>1. /\ c = End(CpuFields, f, 6) /\ p = End(ChipFields, f, c)
          /\ e = End(ChipFields, f, p)
      BY <1>5, <1>6, <1>7, <1>8
    <2>2. Parts(f)[4] = End(ChipFields, f, End(ChipFields, f, End(CpuFields, f, 6)))
      BY HeaderBytes DEF Parts
    <2> QED BY <2>1, <2>2
  <1>10. size = Len(f)
    <2>1. size <= Len(f) /\ Len(f) \in Nat
      BY FileBytes DEF f
    <2>2. Len(f) <= size
      BY <1>1, <1>8, <1>9
    <2> QED BY <1>2, <2>1, <2>2
  <1>11. SubSeq(f, 1, Len(f)) = f
    BY <1>1
  <1> QED BY <1>10, <1>11 DEF f

-----------------------------------------------------------------------------
(* What the instructions make of a board is a board.                       *)

LEMMA NewChipType ==
    ASSUME NEW latch \in Byte
    PROVE  NewChip(latch) \in Chip
  BY DEF NewChip, Chip, Byte, PortCMode

LEMMA ResetType ==
    ASSUME NEW chip \in Chip
    PROVE  reset(chip) \in Chip
  <1> DEFINE fresh == NewChip(chip.latch)
  <1>1. fresh \in Chip
    BY NewChipType DEF Chip
  <1>2. reset(chip) = [fresh EXCEPT !.ce = chip.ce, !.io = chip.io, !.ale = chip.ale,
                                    !.rd = chip.rd, !.wr = chip.wr]
    BY DEF reset
  <1> HIDE DEF fresh
  <1> QED BY <1>1, <1>2 DEF Chip

LEMMA P2BitsType ==
    ASSUME NEW chip \in Chip, NEW n \in Chips, NEW p2 \in Byte, NEW mask
    PROVE  P2Bits(chip, n, p2, mask) \in Chip
  <1>1. \A c \in Chip : \A cur \in BOOLEAN :
           CEWritten(c, cur) \in Chip /\ IOWritten(c, cur) \in Chip
    BY DEF CEWritten, IOWritten, Chip
  <1>2. \A c \in Chip : \A cur \in BOOLEAN : ResetWritten(c, cur) \in Chip
    BY ResetType DEF ResetWritten
  <1> DEFINE ce == CEBit[n] \in p2
             rst == 6 \in p2
             io == 7 \in p2
             c1 == IF CEBit[n] \in mask THEN CEWritten(chip, ce) ELSE chip
             c2 == IF 6 \in mask THEN ResetWritten(c1, rst) ELSE c1
             c3 == IF 7 \in mask THEN IOWritten(c2, io) ELSE c2
  <1>3. ce \in BOOLEAN /\ rst \in BOOLEAN /\ io \in BOOLEAN
    OBVIOUS
  <1>4. P2Bits(chip, n, p2, mask) = c3
    BY DEF P2Bits
  <1> HIDE DEF ce, rst, io
  <1>5. c1 \in Chip
    BY <1>1, <1>3
  <1> HIDE DEF c1
  <1>6. c2 \in Chip
    BY <1>2, <1>3, <1>5
  <1> HIDE DEF c2
  <1>7. c3 \in Chip
    BY <1>1, <1>3, <1>6
  <1> QED BY <1>4, <1>7

LEMMA ConfigureType ==
    ASSUME NEW chip \in Chip, NEW data \in Byte
    PROVE  Configure(chip, data) \in Chip /\ Configure(chip, data).latch = chip.latch
  <1> DEFINE a == 0 \in data
             b == 1 \in data
             m == IF 2 \in data THEN IF 3 \in data THEN "ALT2" ELSE "ALT3"
                                ELSE IF 3 \in data THEN "ALT4" ELSE "ALT1"
             i == 4 \in data
             j == 5 \in data
  <1>1. m \in PortCMode
    BY DEF PortCMode
  <1>2. a \in BOOLEAN /\ b \in BOOLEAN /\ i \in BOOLEAN /\ j \in BOOLEAN
    OBVIOUS
  <1>3. Configure(chip, data) = [chip EXCEPT !.paOut = a, !.pbOut = b, !.pcMode = m,
                                             !.paInterrupt = i, !.pbInterrupt = j]
    BY DEF Configure
  <1> HIDE DEF a, b, m, i, j
  <1>4. \A c \in Chip : \A x \in BOOLEAN :
           /\ [c EXCEPT !.paOut = x] \in Chip /\ [c EXCEPT !.paOut = x].latch = c.latch
           /\ [c EXCEPT !.pbOut = x] \in Chip /\ [c EXCEPT !.pbOut = x].latch = c.latch
    BY DEF Chip
  <1>5. \A c \in Chip : \A x \in BOOLEAN :
           /\ [c EXCEPT !.paInterrupt = x] \in Chip
           /\ [c EXCEPT !.paInterrupt = x].latch = c.latch
           /\ [c EXCEPT !.pbInterrupt = x] \in Chip
           /\ [c EXCEPT !.pbInterrupt = x].latch = c.latch
    BY DEF Chip
  <1>6. \A c \in Chip : \A x \in PortCMode :
           [c EXCEPT !.pcMode = x] \in Chip /\ [c EXCEPT !.pcMode = x].latch = c.latch
    BY DEF Chip
  <1> DEFINE c1 == [chip EXCEPT !.paOut = a]
             c2 == [c1 EXCEPT !.pbOut = b]
             c3 == [c2 EXCEPT !.pcMode = m]
             c4 == [c3 EXCEPT !.paInterrupt = i]
             c5 == [c4 EXCEPT !.pbInterrupt = j]
  <1>7. Configure(chip, data) = c5
    BY <1>3
  <1>8. c1 \in Chip /\ c1.latch = chip.latch
    BY <1>2, <1>4
  <1> HIDE DEF c1
  <1>9. c2 \in Chip /\ c2.latch = chip.latch
    BY <1>2, <1>4, <1>8
  <1> HIDE DEF c2
  <1>10. c3 \in Chip /\ c3.latch = chip.latch
    BY <1>1, <1>6, <1>9
  <1> HIDE DEF c3
  <1>11. c4 \in Chip /\ c4.latch = chip.latch
    BY <1>2, <1>5, <1>10
  <1> HIDE DEF c4
  <1>12. c5 \in Chip /\ c5.latch = chip.latch
    BY <1>2, <1>5, <1>11
  <1> QED BY <1>7, <1>12

LEMMA StoreType ==
    ASSUME NEW chip \in Chip, NEW data \in Byte, chip.latch \in Cell
    PROVE  Store(chip, data) \in Chip /\ Store(chip, data).latch = chip.latch
  <1>1. CASE ~chip.io
    BY <1>1 DEF Store, Chip
  <1>2. CASE chip.io /\ Register(chip) = "command"
    <2>1. Store(chip, data) = Configure(chip, data)
      BY <1>2 DEF Store
    <2> QED BY <2>1, ConfigureType
  <1>3. CASE chip.io /\ Register(chip) = "pa"
    BY <1>3 DEF Store, Chip
  <1>4. CASE chip.io /\ Register(chip) = "pb"
    BY <1>4 DEF Store, Chip
  <1>5. CASE chip.io /\ Register(chip) = "pc"
    BY <1>5 DEF Store, Chip
  <1>6. Register(chip) \in {"pa", "pb", "pc", "command"}
    BY DEF Register
  <1> QED BY <1>1, <1>2, <1>3, <1>4, <1>5, <1>6

LEMMA PinTypes ==
    ASSUME NEW chip \in Chip, NEW cur \in BOOLEAN, NEW bus \in Byte
    PROVE  /\ ALEWritten(chip, cur, bus) \in Chip
           /\ ALEWritten(chip, cur, bus).ale = cur
           /\ chip.ale /\ ~cur => ALEWritten(chip, cur, bus).latch = bus
           /\ RDWritten(chip, cur) \in Chip
           /\ RDWritten(chip, cur).latch = chip.latch
           /\ chip.latch \in Cell =>
                /\ WRWritten(chip, cur, bus) \in Chip
                /\ WRWritten(chip, cur, bus).latch = chip.latch
                /\ Driven(chip) \in Byte
  <1>1. /\ ALEWritten(chip, cur, bus) \in Chip
        /\ ALEWritten(chip, cur, bus).ale = cur
        /\ chip.ale /\ ~cur => ALEWritten(chip, cur, bus).latch = bus
    BY DEF ALEWritten, Chip
  <1>2. RDWritten(chip, cur) \in Chip /\ RDWritten(chip, cur).latch = chip.latch
    BY DEF RDWritten, Chip
  <1>3. \A c \in Chip : [c EXCEPT !.wr = cur] \in Chip
                        /\ [c EXCEPT !.wr = cur].latch = c.latch
    BY DEF Chip
  <1>4. ASSUME chip.latch \in Cell
        PROVE  /\ WRWritten(chip, cur, bus) \in Chip
               /\ WRWritten(chip, cur, bus).latch = chip.latch
    <2>1. Store(chip, bus) \in Chip /\ Store(chip, bus).latch = chip.latch
      BY <1>4, StoreType
    <2>2. CASE ~chip.wr /\ cur /\ ~chip.ce
      <3>1. WRWritten(chip, cur, bus) = [Store(chip, bus) EXCEPT !.wr = cur]
        BY <2>2 DEF WRWritten
      <3> QED BY <1>3, <2>1, <3>1
    <2>3. CASE ~(~chip.wr /\ cur /\ ~chip.ce)
      <3>1. WRWritten(chip, cur, bus) = [chip EXCEPT !.wr = cur]
        BY <2>3 DEF WRWritten
      <3> QED BY <1>3, <3>1
    <2> QED BY <2>2, <2>3
  <1>5. ASSUME chip.latch \in Cell
        PROVE  Driven(chip) \in Byte
    <2>1. Register(chip) \in {"pa", "pb", "pc", "command"} /\ {} \in Byte
      BY DEF Register, Byte
    <2>2. /\ chip.pa \in Byte /\ chip.pb \in Byte /\ chip.pc \in Byte
          /\ chip.ram[chip.latch] \in Byte
      BY <1>5 DEF Chip
    <2> QED BY <2>1, <2>2 DEF Driven
  <1> QED BY <1>1, <1>2, <1>4, <1>5

\* Every chip holds the same address, which the RAMs have.
Addressed(b, pos) == b \in Board /\ \A n \in Chips : b.chips[n].latch = pos

LEMMA WriteBusType ==
    ASSUME NEW b \in Board, NEW value \in Byte
    PROVE  /\ WriteBus(b, value) \in Board
           /\ WriteBus(b, value).bus = value
           /\ WriteBus(b, value).chips = b.chips
  BY DEF WriteBus, Board

LEMMA PinALEType ==
    ASSUME NEW b \in Board, NEW cur \in BOOLEAN
    PROVE  /\ PinALE(b, cur) \in Board
           /\ \A n \in Chips : PinALE(b, cur).chips[n].ale = cur
           /\ (\A n \in Chips : b.chips[n].ale) /\ ~cur => Addressed(PinALE(b, cur), b.bus)
  <1> DEFINE chips == [n \in Chips |-> ALEWritten(b.chips[n], cur, b.bus)]
             new == [b EXCEPT !.chips = chips]
  <1>1. \A n \in Chips : b.chips[n] \in Chip /\ b.bus \in Byte
    BY DEF Board
  <1>2. chips \in [Chips -> Chip] /\ \A n \in Chips : chips[n].ale = cur
    BY <1>1, PinTypes
  <1>3. (\A n \in Chips : b.chips[n].ale) /\ ~cur => \A n \in Chips : chips[n].latch = b.bus
    BY <1>1, PinTypes
  <1>4. PinALE(b, cur) = new
    BY DEF PinALE
  <1> HIDE DEF chips
  <1>5. new \in Board /\ new.chips = chips
    BY <1>2 DEF Board
  <1> HIDE DEF new
  <1> QED BY <1>2, <1>3, <1>4, <1>5 DEF Addressed

LEMMA PinRDType ==
    ASSUME NEW b, NEW pos \in Cell, Addressed(b, pos), NEW cur \in BOOLEAN
    PROVE  Addressed(PinRD(b, cur), pos)
  <1> DEFINE chips == [n \in Chips |-> RDWritten(b.chips[n], cur)]
             bus == IF Drives(b.chips["pidExtension"], cur)
                      THEN Driven(b.chips["pidExtension"])
                    ELSE IF Drives(b.chips["pid"], cur) THEN Driven(b.chips["pid"])
                    ELSE b.bus
             new == [b EXCEPT !.chips = chips, !.bus = bus]
  <1>1. /\ b \in Board /\ b.bus \in Byte
        /\ \A n \in Chips : b.chips[n] \in Chip /\ b.chips[n].latch = pos
    BY DEF Addressed, Board
  <1>2. chips \in [Chips -> Chip] /\ \A n \in Chips : chips[n].latch = pos
    BY <1>1, PinTypes
  <1>3. bus \in Byte
    <2>1. "pid" \in Chips /\ "pidExtension" \in Chips
      BY DEF Chips
    <2>2. Driven(b.chips["pid"]) \in Byte /\ Driven(b.chips["pidExtension"]) \in Byte
      BY <1>1, <2>1, PinTypes
    <2> QED BY <1>1, <2>2
  <1>4. PinRD(b, cur) = new
    BY DEF PinRD
  <1> HIDE DEF chips, bus
  <1>5. new \in Board /\ new.chips = chips
    BY <1>1, <1>2, <1>3 DEF Board
  <1> QED BY <1>2, <1>4, <1>5 DEF Addressed

LEMMA PinWRType ==
    ASSUME NEW b, NEW pos \in Cell, Addressed(b, pos), NEW cur \in BOOLEAN
    PROVE  Addressed(PinWR(b, cur), pos)
  <1> DEFINE chips == [n \in Chips |-> WRWritten(b.chips[n], cur, b.bus)]
             new == [b EXCEPT !.chips = chips]
  <1>1. /\ b \in Board /\ b.bus \in Byte
        /\ \A n \in Chips : b.chips[n] \in Chip /\ b.chips[n].latch = pos
    BY DEF Addressed, Board
  <1>2. chips \in [Chips -> Chip] /\ \A n \in Chips : chips[n].latch = pos
    BY <1>1, PinTypes
  <1>3. PinWR(b, cur) = new
    BY DEF PinWR
  <1> HIDE DEF chips
  <1>4. new \in Board /\ new.chips = chips
    BY <1>1, <1>2 DEF Board
  <1> QED BY <1>2, <1>3, <1>4 DEF Addressed

\* A MOVX, from the address on.
LEMMA MovxTypes ==
    ASSUME NEW b \in Board, NEW pos \in Cell, NEW data \in Byte
    PROVE  /\ MovxRead(b, pos) \in Board /\ MovxRead(b, pos).bus \in Byte
           /\ MovxWrite(b, pos, data) \in Board
  <1> DEFINE b1 == PinALE(b, TRUE)
             b2 == WriteBus(b1, pos)
             b3 == PinALE(b2, FALSE)
             b4 == PinRD(b3, FALSE)
             b5 == PinRD(b4, TRUE)
             c4 == PinWR(b3, FALSE)
             c5 == WriteBus(c4, data)
             c6 == PinWR(c5, TRUE)
  <1>1. pos \in Byte
    BY CellOK
  <1>2. b1 \in Board /\ \A n \in Chips : b1.chips[n].ale
    BY PinALEType
  <1> HIDE DEF b1
  <1>3. b2 \in Board /\ b2.bus = pos /\ \A n \in Chips : b2.chips[n].ale
    BY <1>1, <1>2, WriteBusType
  <1> HIDE DEF b2
  <1>4. Addressed(b3, pos)
    BY <1>3, PinALEType
  <1> HIDE DEF b3
  <1>5. Addressed(b4, pos)
    BY <1>4, PinRDType
  <1> HIDE DEF b4
  <1>6. Addressed(b5, pos)
    BY <1>5, PinRDType
  <1>7. Addressed(c4, pos)
    BY <1>4, PinWRType
  <1> HIDE DEF c4
  <1>8. Addressed(c5, pos)
    BY <1>7, WriteBusType DEF Addressed
  <1> HIDE DEF c5
  <1>9. Addressed(c6, pos)
    BY <1>8, PinWRType
  <1>10. MovxRead(b, pos) = b5 /\ MovxWrite(b, pos, data) = c6
    BY DEF MovxRead, MovxWrite, b1, b2, b3, b4, c4, c5
  <1> HIDE DEF b5, c6
  <1> QED BY <1>6, <1>9, <1>10 DEF Addressed, Board

LEMMA WriteP2Type ==
    ASSUME NEW b \in Board, NEW value \in Byte, NEW mask
    PROVE  WriteP2(b, value, mask) \in Board
  <1> DEFINE p2 == (b.p2 \ mask) \cup value
             chips == [n \in Chips |-> P2Bits(b.chips[n], n, p2, mask)]
  <1>1. b.p2 \in Byte /\ \A n \in Chips : b.chips[n] \in Chip
    BY DEF Board
  <1>2. p2 \in Byte
    BY <1>1 DEF Byte
  <1> HIDE DEF p2
  <1>3. chips \in [Chips -> Chip]
    BY <1>1, <1>2, P2BitsType
  <1>4. WriteP2(b, value, mask) = [b EXCEPT !.p2 = p2, !.chips = chips]
    BY DEF WriteP2, p2
  <1> HIDE DEF chips
  <1> QED BY <1>2, <1>3, <1>4 DEF Board

LEMMA PortTypes ==
    ASSUME NEW b \in Board, NEW data \in Byte
    PROVE  /\ OrP2(b, data) \in Board /\ AndP2(b, data) \in Board
           /\ ResetCpu(b) \in Board /\ ResetAll(b) \in Board
  <1>1. b.p2 \cup data \in Byte /\ b.p2 \cap data \in Byte /\ {} \in Byte /\ 0..7 \in Byte
    BY DEF Board, Byte
  <1>2. OrP2(b, data) \in Board /\ AndP2(b, data) \in Board
    BY <1>1, WriteP2Type DEF OrP2, AndP2
  <1>3. ResetCpu(b) \in Board
    BY <1>1, WriteBusType, WriteP2Type DEF ResetCpu
  <1> DEFINE r == ResetCpu(b)
             chips == [n \in Chips |-> reset(r.chips[n])]
  <1>4. ResetAll(b) = [r EXCEPT !.chips = chips]
    BY DEF ResetAll
  <1> HIDE DEF r
  <1>5. chips \in [Chips -> Chip]
    BY <1>3, ResetType DEF Board, r
  <1> HIDE DEF chips
  <1>6. [r EXCEPT !.chips = chips] \in Board
    BY <1>3, <1>5 DEF Board, r
  <1> QED BY <1>2, <1>3, <1>4, <1>6

LEMMA PowerOnType ==
    ASSUME NEW latches \in [Chips -> Cell]
    PROVE  PowerOn(latches) \in Board
  <1> DEFINE chips == [n \in Chips |-> NewChip(latches[n])]
             b == [bus |-> {}, p2 |-> {}, chips |-> chips]
  <1>1. chips \in [Chips -> Chip]
    BY NewChipType, CellOK
  <1>2. PowerOn(latches) = ResetCpu(b)
    BY DEF PowerOn
  <1> HIDE DEF chips
  <1>3. b \in Board /\ {} \in Byte
    BY <1>1 DEF Board, Byte
  <1> HIDE DEF b
  <1> QED BY <1>2, <1>3, PortTypes

-----------------------------------------------------------------------------
(* Sessions.                                                               *)

Session == [board : Board, cpu : CpuState]

\* The file is as much of the session's state as got to the disk.
OnDisk(bytes, s) ==
    \E size \in 0..Len(File(StateOf(s))) : bytes = SubSeq(File(StateOf(s)), 1, size)

\* The inductive invariant.
SessionInv ==
    /\ now \in Session /\ saved \in Session
    /\ stage = "saved" => OnDisk(disk, saved)
    /\ ResumesOnSamePorts

LEMMA StateOfType ==
    ASSUME NEW s \in Session
    PROVE  /\ StateOf(s) \in SavedState
           /\ StateOf(s).cpu = s.cpu
           /\ \A n \in Chips : StateOf(s)[n] = s.board.chips[n]
  BY DEF StateOf, SavedState, Session, Board, Chips, saveToState

LEMMA InitSession == Init => SessionInv
  <1> SUFFICES ASSUME Init
               PROVE  SessionInv
    OBVIOUS
  <1>1. PICK latches \in [Chips -> Cell], cpu \in Cpus :
           now = [board |-> PowerOn(latches), cpu |-> cpu]
    BY Zenon DEF Init
  <1>2. PowerOn(latches) \in Board /\ cpu \in CpuState
    BY PowerOnType, SessionOK
  <1>3. \A b \in Board, c \in CpuState : [board |-> b, cpu |-> c] \in Session
    BY DEF Session
  <1>4. now \in Session
    BY <1>1, <1>2, <1>3, Zenon
  <1> QED BY <1>4 DEF Init, SessionInv, ResumesOnSamePorts

LEMMA CpuWithA ==
    ASSUME NEW cpu \in CpuState, NEW d \in Byte
    PROVE  [cpu EXCEPT !.a = d] \in CpuState
  BY DEF CpuState

\* An instruction makes a session of a session, and the same one of the same.
GoesOn ==
    /\ now' \in Session
    /\ UNCHANGED <<disk, ui, stage, saved, aligned>>
    /\ stage = "resumed" /\ now = twin => now' = twin'

LEMMA InstructionGoesOn ==
    ASSUME now \in Session, Instruction \/ Reset
    PROVE  GoesOn
  <1> DEFINE b == now.board
             cpu == now.cpu
  <1>1. b \in Board /\ cpu \in CpuState /\ cpu.a \in Byte /\ b.bus \in Byte /\ {} \in Byte
    BY DEF Session, CpuState, Board, Byte
  <1>2. \A x \in Board : [now EXCEPT !.board = x] \in Session
    BY DEF Session
  <1>3. \A d \in Byte : [now EXCEPT !.cpu.a = d] \in Session
    BY <1>1, CpuWithA DEF Session
  <1>4. \A x \in Board, d \in Byte : [now EXCEPT !.board = x, !.cpu.a = d] \in Session
    BY <1>1, CpuWithA DEF Session
  <1>5. ASSUME NEW pos \in Pos, LET F(s) == MovxIn(s, pos) IN Do(F)
        PROVE  GoesOn
    <2>1. MovxRead(b, pos) \in Board /\ MovxRead(b, pos).bus \in Byte
      BY <1>1, SessionOK, MovxTypes
    <2>2. MovxIn(now, pos) \in Session
      BY <1>4, <2>1 DEF MovxIn
    <2> QED BY <1>5, <2>2 DEF Do, GoesOn
  <1>6. ASSUME NEW pos \in Pos, LET F(s) == MovxOut(s, pos) IN Do(F)
        PROVE  GoesOn
    <2>1. MovxWrite(b, pos, cpu.a) \in Board
      BY <1>1, SessionOK, MovxTypes
    <2>2. MovxOut(now, pos) \in Session
      BY <1>2, <2>1 DEF MovxOut
    <2> QED BY <1>6, <2>2 DEF Do, GoesOn
  <1>7. ASSUME NEW d \in Raise, LET F(s) == [s EXCEPT !.board = OrP2(s.board, d)] IN Do(F)
        PROVE  GoesOn
    <2>1. OrP2(b, d) \in Board
      BY <1>1, SessionOK, PortTypes
    <2>2. [now EXCEPT !.board = OrP2(now.board, d)] \in Session
      BY <1>2, <2>1
    <2> QED BY <1>7, <2>2 DEF Do, GoesOn
  <1>8. ASSUME NEW d \in Lower, LET F(s) == [s EXCEPT !.board = AndP2(s.board, d)] IN Do(F)
        PROVE  GoesOn
    <2>1. AndP2(b, d) \in Board
      BY <1>1, SessionOK, PortTypes
    <2>2. [now EXCEPT !.board = AndP2(now.board, d)] \in Session
      BY <1>2, <2>1
    <2> QED BY <1>8, <2>2 DEF Do, GoesOn
  <1>9. ASSUME LET F(s) == [s EXCEPT !.board = WriteBus(s.board, s.cpu.a)] IN Do(F)
        PROVE  GoesOn
    <2>1. WriteBus(b, cpu.a) \in Board
      BY <1>1, WriteBusType
    <2>2. [now EXCEPT !.board = WriteBus(now.board, now.cpu.a)] \in Session
      BY <1>2, <2>1
    <2> QED BY <1>9, <2>2 DEF Do, GoesOn
  <1>10. ASSUME LET F(s) == [s EXCEPT !.cpu.a = s.board.bus] IN Do(F)
         PROVE  GoesOn
    <2>1. [now EXCEPT !.cpu.a = now.board.bus] \in Session
      BY <1>1, <1>3
    <2> QED BY <1>10, <2>1 DEF Do, GoesOn
  <1>11. ASSUME NEW d \in Data, LET F(s) == [s EXCEPT !.cpu.a = d] IN Do(F)
         PROVE  GoesOn
    <2>1. [now EXCEPT !.cpu.a = d] \in Session
      BY <1>3, SessionOK
    <2> QED BY <1>11, <2>1 DEF Do, GoesOn
  <1>12. ASSUME Reset
         PROVE  GoesOn
    <2>1. ResetAll(b) \in Board
      BY <1>1, PortTypes
    <2>2. [now EXCEPT !.board = ResetAll(now.board), !.cpu.a = {}] \in Session
      BY <1>1, <1>4, <2>1
    <2> QED BY <1>12, <2>2 DEF Reset, Do, GoesOn
  <1> QED BY <1>5, <1>6, <1>7, <1>8, <1>9, <1>10, <1>11, <1>12 DEF Instruction

\* Saving: the file is what got to the disk of the session that saved is now.
LEMMA SaveKeeps ==
    ASSUME SessionInv, SaveState
    PROVE  SessionInv'
  <1> DEFINE file == File(StateOf(now))
  <1>1. now \in Session /\ StateOf(now) \in SavedState
    BY StateOfType DEF SessionInv
  <1>2. file \in Seq(Byte) /\ Len(file) \in Nat
    BY <1>1, FileBytes
  <1>3. PICK size \in Torn \cup {Len(file)} :
           size <= Len(file) /\ disk' = SubSeq(file, 1, size)
    BY DEF SaveState, File
  <1> HIDE DEF file
  <1>4. size \in 0..Len(file)
    BY <1>2, <1>3, SessionOK
  <1>5. OnDisk(disk', now)
    BY <1>3, <1>4 DEF OnDisk, file
  <1>6. now' = now /\ saved' = now /\ stage' = stage /\ twin' = twin /\ aligned' = aligned
    BY DEF SaveState
  <1> QED BY <1>1, <1>5, <1>6 DEF SessionInv, ResumesOnSamePorts

\* Loading: what is read is what was saved.
LEMMA LoadGivesSaved ==
    ASSUME SessionInv, Load
    PROVE  /\ now' \in Session
           /\ StateOf(now') = StateOf(saved)
           /\ aligned' => now' = saved
  <1> DEFINE state == StateOf(saved)
  <1>1. now \in Session /\ saved \in Session /\ OnDisk(disk, saved) /\ Accepted(disk)
    BY DEF SessionInv, Load
  <1>2. state \in SavedState
    BY <1>1, StateOfType
  <1>3. disk = File(state)
    <2>1. PICK size \in 0..Len(File(state)) : disk = SubSeq(File(state), 1, size)
      BY <1>1 DEF OnDisk
    <2> HIDE DEF state
    <2> QED BY <1>1, <1>2, <2>1, CutIsRefused
  <1>4. ReadState(disk) = state
    <2> HIDE DEF state
    <2> QED BY <1>2, <1>3, FileReadsBack
  <1>5. now' = Loaded(state, now)
    BY <1>4 DEF Load
  <1>6. /\ state.cpu = saved.cpu
        /\ \A n \in Chips : state[n] = saved.board.chips[n]
    BY <1>1, StateOfType
  <1> HIDE DEF state
  <1>7. /\ saved.board \in Board /\ now.board \in Board /\ saved.cpu \in CpuState
    BY <1>1 DEF Session
  <1>8. [n \in Chips |-> initFromState(state[n])] = saved.board.chips
    <2>1. saved.board.chips = [n \in Chips |-> saved.board.chips[n]]
      BY <1>7 DEF Board
    <2> QED BY <1>6, <2>1 DEF initFromState
  <1>9. /\ now'.cpu = saved.cpu
        /\ now'.board = [now.board EXCEPT !.chips = saved.board.chips]
        /\ now' = [board |-> now'.board, cpu |-> now'.cpu]
    BY <1>5, <1>6, <1>8 DEF Loaded
  <1>10. /\ now'.board \in Board /\ now'.board.chips = saved.board.chips
         /\ now'.board.p2 = now.board.p2 /\ now'.board.bus = now.board.bus
    BY <1>7, <1>9 DEF Board
  <1>11. now' \in Session
    BY <1>7, <1>9, <1>10 DEF Session
  <1>12. StateOf(now') = StateOf(saved)
    BY <1>9, <1>10 DEF StateOf
  <1>13. ASSUME aligned'
         PROVE  now' = saved
    <2>1. now.board.p2 = saved.board.p2 /\ now.board.bus = saved.board.bus
      BY <1>13 DEF Load
    <2>2. now'.board = saved.board
      BY <1>7, <1>10, <2>1 DEF Board
    <2>3. saved = [board |-> saved.board, cpu |-> saved.cpu]
      BY <1>1 DEF Session
    <2> QED BY <1>9, <2>2, <2>3
  <1> QED BY <1>11, <1>12, <1>13

LEMMA StepSession ==
    ASSUME SessionInv, [Next]_sessionVars
    PROVE  SessionInv'
  <1>1. now \in Session /\ saved \in Session
    BY DEF SessionInv
  <1>2. ASSUME Instruction \/ Reset
        PROVE  SessionInv'
    <2>1. GoesOn
      BY <1>1, <1>2, InstructionGoesOn
    <2> QED BY <1>1, <2>1 DEF GoesOn, SessionInv, ResumesOnSamePorts
  <1>3. ASSUME SaveClicked
        PROVE  SessionInv'
    <2> DEFINE file == File(StateOf(saved))
    <2>1. file \in Seq(Byte) /\ Len(file) \in Nat
      BY <1>1, StateOfType, FileBytes
    <2> HIDE DEF file
    <2>2. 0 \in 0..Len(file) /\ SubSeq(file, 1, 0) = <<>>
      BY <2>1
    <2>3. OnDisk(<<>>, saved)
      BY <2>2 DEF OnDisk, file
    <2> QED BY <1>1, <1>3, <2>3 DEF SaveClicked, SessionInv, ResumesOnSamePorts
  <1>4. ASSUME SaveState
        PROVE  SessionInv'
    BY <1>4, SaveKeeps
  <1>5. ASSUME Restart
        PROVE  SessionInv'
    <2>1. PICK latches \in [Chips -> Cell] :
             now' = [board |-> PowerOn(latches), cpu |-> Fresh]
      BY <1>5 DEF Restart
    <2>2. now' \in Session
      BY <2>1, PowerOnType, SessionOK DEF Session
    <2> QED BY <1>1, <1>5, <2>2 DEF Restart, SessionInv, ResumesOnSamePorts
  <1>6. ASSUME Load
        PROVE  SessionInv'
    <2>1. now' \in Session /\ (aligned' => now' = saved)
      BY <1>6, LoadGivesSaved
    <2> QED BY <1>1, <1>6, <2>1 DEF Load, SessionInv, ResumesOnSamePorts
  <1>7. CASE UNCHANGED sessionVars
    BY <1>7 DEF sessionVars, SessionInv, ResumesOnSamePorts
  <1> QED BY <1>2, <1>3, <1>4, <1>5, <1>6, <1>7 DEF Next

\* What a session is made of, and what the file holds of the saved one.
THEOREM SessionInvariant == Spec => []SessionInv
  <1>1. Init => SessionInv
    BY InitSession
  <1>2. SessionInv /\ [Next]_sessionVars => SessionInv'
    BY StepSession
  <1> QED BY <1>1, <1>2, PTL DEF Spec

\* A session that was loaded on a board whose ports hold what they held on saving goes on
\* as if it had never been saved (executorthread.cpp:158-169, emulatorstate.cpp:70-188).
THEOREM SessionsResume == Spec => []ResumesOnSamePorts
  <1>1. SessionInv => ResumesOnSamePorts
    BY DEF SessionInv
  <1> QED BY <1>1, SessionInvariant, PTL

\* A load brings back the saved state, every member of the 8049 and of both chips; a file
\* whose end is missing is never loaded (emulatorstate.cpp:70-188, basewindow.cpp:113-158).
THEOREM LoadsAreWhole == Spec => LoadedWasSaved
  <1>1. SessionInv /\ [Next]_sessionVars =>
          (stage = "saved" /\ stage' = "resumed" => StateOf(now') = StateOf(saved))
    <2> SUFFICES ASSUME SessionInv, Next, stage = "saved", stage' = "resumed"
                 PROVE  StateOf(now') = StateOf(saved)
      BY DEF sessionVars
    <2>1. CASE Load
      BY <2>1, LoadGivesSaved
    <2>2. CASE ~Load
      <3>1. Instruction \/ Reset => stage' = stage
        BY DEF Instruction, Reset, Do
      <3>2. SaveClicked \/ SaveState \/ Restart => stage' # "resumed"
        BY DEF SaveClicked, SaveState, Restart
      <3> QED BY <2>2, <3>1, <3>2 DEF Next
    <2> QED BY <2>1, <2>2
  <1> QED BY <1>1, SessionInvariant, PTL DEF Spec, LoadedWasSaved
=============================================================================
