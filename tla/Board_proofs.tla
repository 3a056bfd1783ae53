---------------------------- MODULE Board_proofs ----------------------------
(***************************************************************************)
(* Theorems about Board: the select pins are the bits of P2, the address   *)
(* is held for the whole of a MOVX, and the pins, edges and the shared bus *)
(* together implement Memory.  They hold for every set of addresses, data  *)
(* and operands.                                                           *)
(***************************************************************************)
EXTENDS Board, TLAPS

Cleared == [c \in Cell |-> {}]

(* What each slot does to a chip.                                          *)

\* What the pins and the address are; a reset keeps them.
SamePins(new, old) ==
    /\ new.ale = old.ale /\ new.rd = old.rd /\ new.wr = old.wr
    /\ new.latch = old.latch

SamePorts(new, old) == new.pa = old.pa /\ new.pb = old.pb /\ new.pc = old.pc

SameStore(new, old) == new.ram = old.ram /\ SamePorts(new, old)

IsClear(chip) == chip.ram = Cleared /\ chip.pa = {} /\ chip.pb = {} /\ chip.pc = {}

\* A new chip is clear.
LEMMA NewChipIsClear ==
    ASSUME NEW latch \in Byte
    PROVE  /\ NewChip(latch) \in Chip /\ IsClear(NewChip(latch))
           /\ NewChip(latch).latch = latch
  BY DEF NewChip, Chip, Byte, IsClear, Cleared, PortCMode

\* reset() clears memory and ports and keeps the pins (intel8155.cpp).
LEMMA ResetKeepsPins ==
    ASSUME NEW chip \in Chip
    PROVE  /\ reset(chip) \in Chip
           /\ IsClear(reset(chip)) /\ SamePins(reset(chip), chip)
           /\ reset(chip).ce = chip.ce /\ reset(chip).io = chip.io
  <1> DEFINE fresh == NewChip(chip.latch)
  <1>1. fresh \in Chip /\ IsClear(fresh) /\ fresh.latch = chip.latch
    BY NewChipIsClear DEF Chip
  <1>2. reset(chip) = [fresh EXCEPT !.ce = chip.ce, !.io = chip.io, !.ale = chip.ale,
                                    !.rd = chip.rd, !.wr = chip.wr]
    BY DEF reset
  <1> HIDE DEF fresh
  <1> QED BY <1>1, <1>2 DEF Chip, IsClear, SamePins

\* The select pin and the I/O pin are set and nothing else.
LEMMA SelectSlots ==
    ASSUME NEW chip \in Chip, NEW cur \in BOOLEAN
    PROVE  /\ LET new == CEWritten(chip, cur)
              IN  /\ new \in Chip /\ SamePins(new, chip) /\ SameStore(new, chip)
                  /\ new.ce = cur /\ new.io = chip.io
           /\ LET new == IOWritten(chip, cur)
              IN  /\ new \in Chip /\ SamePins(new, chip) /\ SameStore(new, chip)
                  /\ new.io = cur /\ new.ce = chip.ce
  BY DEF CEWritten, IOWritten, Chip, SamePins, SameStore, SamePorts

\* A write to all of P2 sets the select pin and the I/O pin, and resets if bit 6 is set.
LEMMA WholePort ==
    ASSUME NEW chip \in Chip, NEW n \in Chips, NEW p2 \in Byte
    PROVE  LET new == P2Bits(chip, n, p2, 0..7)
           IN  /\ new \in Chip /\ SamePins(new, chip)
               /\ new.ce = (CEBit[n] \in p2) /\ new.io = (7 \in p2)
               /\ 6 \in p2 => IsClear(new)
               /\ 6 \notin p2 => SameStore(new, chip)
  <1> DEFINE ce == CEBit[n] \in p2
             io == 7 \in p2
             c1 == CEWritten(chip, ce)
             c2 == ResetWritten(c1, 6 \in p2)
             c3 == IOWritten(c2, io)
  <1>1. P2Bits(chip, n, p2, 0..7) = c3
    BY DEF P2Bits, Chips, CEBit
  <1>a. ce \in BOOLEAN /\ io \in BOOLEAN
    OBVIOUS
  <1>2. c1 \in Chip /\ SamePins(c1, chip) /\ SameStore(c1, chip) /\ c1.ce = ce
    <2> HIDE DEF ce
    <2> QED BY <1>a, SelectSlots
  <1>3. /\ c2 \in Chip /\ SamePins(c2, c1) /\ c2.ce = c1.ce
        /\ 6 \in p2 => IsClear(c2)
        /\ 6 \notin p2 => c2 = c1
    <2> HIDE DEF c1
    <2> QED BY <1>2, ResetKeepsPins DEF ResetWritten, SamePins
  <1>4. /\ c3 \in Chip /\ SamePins(c3, c2) /\ SameStore(c3, c2)
        /\ c3.ce = c2.ce /\ c3.io = io
        /\ IsClear(c2) => IsClear(c3)
    <2> HIDE DEF c2, io
    <2> QED BY <1>a, <1>3, SelectSlots DEF SameStore, SamePorts, IsClear
  <1> HIDE DEF c1, c2, c3
  <1> QED BY <1>1, <1>2, <1>3, <1>4 DEF SamePins, SameStore, SamePorts

\* A write to the low nibble of P2 reaches no chip.
LEMMA LowNibble ==
    ASSUME NEW chip, NEW n \in Chips, NEW p2
    PROVE  P2Bits(chip, n, p2, 0..3) = chip
  BY DEF P2Bits, Chips, CEBit

(* What the shared pins do.                                                *)

\* ALE: a falling edge latches the bus and nothing else happens.
LEMMA AleSlot ==
    ASSUME NEW chip \in Chip, NEW cur \in BOOLEAN, NEW bus \in Byte
    PROVE  LET new == ALEWritten(chip, cur, bus)
           IN  /\ new \in Chip /\ SameStore(new, chip)
               /\ new.ce = chip.ce /\ new.io = chip.io
               /\ new.rd = chip.rd /\ new.wr = chip.wr /\ new.ale = cur
               /\ new.latch = IF chip.ale /\ ~cur THEN bus ELSE chip.latch
  BY DEF ALEWritten, Chip, SameStore, SamePorts

\* RD: the chip only remembers the pin.
LEMMA RdSlot ==
    ASSUME NEW chip \in Chip, NEW cur \in BOOLEAN
    PROVE  LET new == RDWritten(chip, cur)
           IN  /\ new \in Chip /\ SameStore(new, chip)
               /\ new.ce = chip.ce /\ new.io = chip.io
               /\ new.ale = chip.ale /\ new.wr = chip.wr /\ new.rd = cur
               /\ new.latch = chip.latch
  BY DEF RDWritten, Chip, SameStore, SamePorts

\* The command register sets modes only.
LEMMA ConfigureKeeps ==
    ASSUME NEW chip \in Chip, NEW data \in Byte
    PROVE  LET new == Configure(chip, data)
           IN  /\ new \in Chip /\ SamePins(new, chip) /\ SameStore(new, chip)
               /\ new.ce = chip.ce /\ new.io = chip.io
  <1> DEFINE a == 0 \in data
             b == 1 \in data
             m == IF 2 \in data THEN IF 3 \in data THEN "ALT2" ELSE "ALT3"
                                ELSE IF 3 \in data THEN "ALT4" ELSE "ALT1"
             i == 4 \in data
             j == 5 \in data
  <1>2. m \in PortCMode
    BY DEF PortCMode
  <1>3. a \in BOOLEAN /\ b \in BOOLEAN /\ i \in BOOLEAN /\ j \in BOOLEAN
    OBVIOUS
  <1>4. Configure(chip, data) = [chip EXCEPT !.paOut = a, !.pbOut = b, !.pcMode = m,
                                             !.paInterrupt = i, !.pbInterrupt = j]
    BY DEF Configure
  <1> HIDE DEF a, b, m, i, j
  <1>5. LET new == [chip EXCEPT !.paOut = a, !.pbOut = b, !.pcMode = m,
                                !.paInterrupt = i, !.pbInterrupt = j]
        IN  /\ new \in Chip /\ SamePins(new, chip) /\ SameStore(new, chip)
            /\ new.ce = chip.ce /\ new.io = chip.io
    BY <1>2, <1>3 DEF Chip, SamePins, SameStore, SamePorts
  <1> QED BY <1>4, <1>5

\* What a selected chip takes from the bus goes to the addressed cell or register.
LEMMA StoreIsExact ==
    ASSUME NEW chip \in Chip, NEW data \in Byte, chip.latch \in Cell
    PROVE  LET new == Store(chip, data)
               reg == Register(chip)
           IN  /\ new \in Chip /\ SamePins(new, chip)
               /\ new.ce = chip.ce /\ new.io = chip.io
               /\ new.ram = IF chip.io THEN chip.ram
                                       ELSE [chip.ram EXCEPT ![chip.latch] = data]
               /\ new.pa = IF chip.io /\ reg = "pa" THEN data ELSE chip.pa
               /\ new.pb = IF chip.io /\ reg = "pb" THEN data ELSE chip.pb
               /\ new.pc = IF chip.io /\ reg = "pc" THEN data ELSE chip.pc
  <1>1. CASE ~chip.io
    BY <1>1 DEF Store, Chip, SamePins
  <1>2. CASE chip.io /\ Register(chip) = "command"
    <2>1. Store(chip, data) = Configure(chip, data)
      BY <1>2 DEF Store
    <2> DEFINE c == Configure(chip, data)
    <2>2. /\ c \in Chip /\ SamePins(c, chip) /\ SameStore(c, chip)
          /\ c.ce = chip.ce /\ c.io = chip.io
      BY ConfigureKeeps
    <2> HIDE DEF c
    <2>3. c.ram = chip.ram /\ c.pa = chip.pa /\ c.pb = chip.pb /\ c.pc = chip.pc
      BY <2>2 DEF SameStore, SamePorts
    <2>4. Store(chip, data) = c
      BY <2>1 DEF c
    <2> QED BY <1>2, <2>2, <2>3, <2>4
  <1>3. CASE chip.io /\ Register(chip) = "pa"
    BY <1>3 DEF Store, Chip, SamePins
  <1>4. CASE chip.io /\ Register(chip) = "pb"
    BY <1>4 DEF Store, Chip, SamePins
  <1>5. CASE chip.io /\ Register(chip) = "pc"
    BY <1>5 DEF Store, Chip, SamePins
  <1>6. Register(chip) \in {"pa", "pb", "pc", "command"}
    BY DEF Register
  <1> QED BY <1>1, <1>2, <1>3, <1>4, <1>5, <1>6

\* WR: a rising edge at a selected chip stores the bus.
LEMMA WrSlot ==
    ASSUME NEW chip \in Chip, NEW cur \in BOOLEAN, NEW bus \in Byte, chip.latch \in Cell
    PROVE  LET new == WRWritten(chip, cur, bus)
               old == IF ~chip.wr /\ cur /\ ~chip.ce THEN Store(chip, bus) ELSE chip
           IN  /\ new \in Chip /\ SameStore(new, old)
               /\ new.ce = chip.ce /\ new.io = chip.io
               /\ new.ale = chip.ale /\ new.rd = chip.rd /\ new.wr = cur
               /\ new.latch = chip.latch
  <1>1. CASE ~chip.wr /\ cur /\ ~chip.ce
    <2> DEFINE s == Store(chip, bus)
    <2>1. /\ s \in Chip /\ SamePins(s, chip) /\ s.ce = chip.ce /\ s.io = chip.io
      BY StoreIsExact
    <2>2. WRWritten(chip, cur, bus) = [s EXCEPT !.wr = cur]
      BY <1>1 DEF WRWritten
    <2> HIDE DEF s
    <2>3. LET new == [s EXCEPT !.wr = cur]
          IN  /\ new \in Chip /\ SameStore(new, s) /\ new.ce = s.ce /\ new.io = s.io
              /\ new.ale = s.ale /\ new.rd = s.rd /\ new.wr = cur /\ new.latch = s.latch
      BY <2>1 DEF Chip, SameStore, SamePorts
    <2> QED BY <1>1, <2>1, <2>2, <2>3 DEF s, SamePins
  <1>2. CASE ~(~chip.wr /\ cur /\ ~chip.ce)
    BY <1>2 DEF WRWritten, Chip, SameStore, SamePorts
  <1> QED BY <1>1, <1>2

\* A selected chip drives the bus with the addressed cell or register.
LEMMA DrivenIsByte ==
    ASSUME NEW chip \in Chip, chip.latch \in Cell
    PROVE  Driven(chip) \in Byte
  <1>1. CASE ~chip.io
    BY <1>1 DEF Driven, Chip
  <1>2. CASE chip.io
    BY <1>2 DEF Driven, Chip, Register, Byte
  <1> QED BY <1>1, <1>2 DEF Chip

(* What a call on the board does.                                          *)

\* A write to all of P2.
LEMMA PortWrite ==
    ASSUME NEW b \in Board, NEW v \in Byte, NEW old \in Byte
    PROVE  LET new == WriteP2(b, v, 0..7)
           IN  /\ new \in Board /\ new.p2 = v /\ new.bus = b.bus
               /\ \A n \in Chips : new.chips[n] = P2Bits(b.chips[n], n, v, 0..7)
  <1>1. (b.p2 \ (0..7)) \cup v = v
    BY DEF Board, Byte
  <1>2. \A n \in Chips : P2Bits(b.chips[n], n, v, 0..7) \in Chip
    BY WholePort DEF Board
  <1> QED BY <1>1, <1>2 DEF WriteP2, Board

\* A write to the low nibble of P2: chips and lines stay.
LEMMA NibbleWrite ==
    ASSUME NEW b \in Board, NEW v \in SUBSET (0..3)
    PROVE  LET new == NibbleP2(b, v)
           IN  /\ new \in Board /\ new.chips = b.chips /\ new.bus = b.bus
               /\ new.p2 \cap (4..7) = b.p2 \cap (4..7)
               /\ \A k \in 4..7 : (k \in new.p2) <=> (k \in b.p2)
  <1> DEFINE p == (b.p2 \ (0..3)) \cup v
  <1>1. /\ p \in Byte /\ p \cap (4..7) = b.p2 \cap (4..7)
        /\ \A k \in 4..7 : (k \in p) <=> (k \in b.p2)
    <2> DEFINE q == b.p2
    <2>1. q \in SUBSET (0..7)
      BY DEF Board, Byte
    <2> HIDE DEF q
    <2>2. \A k \in 4..7 : k \notin 0..3 /\ k \in 0..7
      OBVIOUS
    <2>3. (0..3) \subseteq (0..7)
      OBVIOUS
    <2>4. LET p2 == (q \ (0..3)) \cup v
          IN  /\ p2 \in SUBSET (0..7)
              /\ p2 \cap (4..7) = q \cap (4..7)
              /\ \A k \in 4..7 : (k \in p2) <=> (k \in q)
      BY <2>1, <2>2, <2>3, Zenon
    <2> QED BY <2>4 DEF q, Byte
  <1> HIDE DEF p
  <1>2. [n \in Chips |-> P2Bits(b.chips[n], n, p, 0..3)] = b.chips
    BY LowNibble DEF Board
  <1>3. NibbleP2(b, v) = [b EXCEPT !.p2 = p,
                                   !.chips = [n \in Chips |-> P2Bits(b.chips[n], n, p, 0..3)]]
    BY DEF NibbleP2, WriteP2, p
  <1>4. NibbleP2(b, v) = [b EXCEPT !.p2 = p, !.chips = b.chips]
    BY <1>2, <1>3
  <1> QED BY <1>1, <1>4 DEF Board

\* ALE at both chips.
LEMMA AleCall ==
    ASSUME NEW b \in Board, NEW cur \in BOOLEAN
    PROVE  LET new == PinALE(b, cur)
           IN  /\ new \in Board /\ new.p2 = b.p2 /\ new.bus = b.bus
               /\ \A n \in Chips : new.chips[n] = ALEWritten(b.chips[n], cur, b.bus)
  <1>1. \A n \in Chips : ALEWritten(b.chips[n], cur, b.bus) \in Chip
    BY AleSlot DEF Board
  <1> QED BY <1>1 DEF PinALE, Board

\* WR at both chips.
LEMMA WrCall ==
    ASSUME NEW b \in Board, NEW cur \in BOOLEAN, \A n \in Chips : b.chips[n].latch \in Cell
    PROVE  LET new == PinWR(b, cur)
           IN  /\ new \in Board /\ new.p2 = b.p2 /\ new.bus = b.bus
               /\ \A n \in Chips : new.chips[n] = WRWritten(b.chips[n], cur, b.bus)
  <1>1. \A n \in Chips : WRWritten(b.chips[n], cur, b.bus) \in Chip
    BY WrSlot DEF Board
  <1> QED BY <1>1 DEF PinWR, Board

\* RD at both chips: the extension has the last word on the bus.
LEMMA RdCall ==
    ASSUME NEW b \in Board, NEW cur \in BOOLEAN, \A n \in Chips : b.chips[n].latch \in Cell
    PROVE  LET new == PinRD(b, cur)
           IN  /\ new \in Board /\ new.p2 = b.p2
               /\ \A n \in Chips : new.chips[n] = RDWritten(b.chips[n], cur)
               /\ new.bus = IF Drives(b.chips["pidExtension"], cur)
                              THEN Driven(b.chips["pidExtension"])
                            ELSE IF Drives(b.chips["pid"], cur) THEN Driven(b.chips["pid"])
                            ELSE b.bus
  <1>1. \A n \in Chips : RDWritten(b.chips[n], cur) \in Chip
    BY RdSlot DEF Board
  <1>2. \A n \in Chips : Driven(b.chips[n]) \in Byte
    BY DrivenIsByte DEF Board
  <1> QED BY <1>1, <1>2 DEF PinRD, Board, Chips

\* A write to BUS, which nothing listens to.
LEMMA BusCall ==
    ASSUME NEW b \in Board, NEW v \in Byte
    PROVE  LET new == WriteBus(b, v)
           IN  /\ new \in Board /\ new.p2 = b.p2 /\ new.bus = v /\ new.chips = b.chips
  BY DEF WriteBus, Board

\* The reset of the CPU clears both chips, sets all of P2, and leaves the addresses.
LEMMA CpuResetCall ==
    ASSUME NEW b \in Board
    PROVE  LET new == ResetCpu(b)
           IN  /\ new \in Board /\ new.p2 = 0..7 /\ new.bus = {}
               /\ \A n \in Chips : /\ IsClear(new.chips[n]) /\ new.chips[n].ce
                                    /\ new.chips[n].io
                                    /\ SamePins(new.chips[n], b.chips[n])
  <1> DEFINE c == WriteBus(b, {})
  <1>1. c \in Board /\ c.bus = {} /\ c.chips = b.chips
    BY BusCall DEF Byte
  <1> HIDE DEF c
  <1>2. 0..7 \in Byte
    BY DEF Byte
  <1>3. LET new == WriteP2(c, 0..7, 0..7)
        IN  /\ new \in Board /\ new.p2 = 0..7 /\ new.bus = {}
            /\ \A n \in Chips : new.chips[n] = P2Bits(b.chips[n], n, 0..7, 0..7)
    BY <1>1, <1>2, PortWrite
  <1>4. \A n \in Chips : LET new == P2Bits(b.chips[n], n, 0..7, 0..7)
                         IN  IsClear(new) /\ new.ce /\ new.io /\ SamePins(new, b.chips[n])
    <2> TAKE n \in Chips
    <2>1. b.chips[n] \in Chip
      BY DEF Board
    <2>2. CEBit[n] \in 0..7 /\ 6 \in 0..7 /\ 7 \in 0..7
      BY DEF CEBit, Chips
    <2> DEFINE w == P2Bits(b.chips[n], n, 0..7, 0..7)
    <2>3. /\ SamePins(w, b.chips[n]) /\ w.ce = (CEBit[n] \in 0..7) /\ w.io = (7 \in 0..7)
          /\ 6 \in 0..7 => IsClear(w)
      BY <2>1, <1>2, WholePort
    <2> HIDE DEF w
    <2>4. w.ce /\ w.io
      BY <2>2, <2>3, Zenon
    <2> QED BY <2>2, <2>3, <2>4 DEF w
  <1> QED BY <1>3, <1>4 DEF ResetCpu, c

\* So does the reset of the machine, which resets the chips once more.
LEMMA AllResetCall ==
    ASSUME NEW b \in Board
    PROVE  LET new == ResetAll(b)
           IN  /\ new \in Board /\ new.p2 = 0..7 /\ new.bus = {}
               /\ \A n \in Chips : /\ IsClear(new.chips[n]) /\ new.chips[n].ce
                                    /\ new.chips[n].io
                                    /\ SamePins(new.chips[n], b.chips[n])
  <1> DEFINE c == ResetCpu(b)
  <1>1. /\ c \in Board /\ c.p2 = 0..7 /\ c.bus = {}
        /\ \A n \in Chips : c.chips[n].ce /\ c.chips[n].io /\ SamePins(c.chips[n], b.chips[n])
    BY CpuResetCall
  <1> HIDE DEF c
  <1>2. ResetAll(b) = [c EXCEPT !.chips = [n \in Chips |-> reset(c.chips[n])]]
    BY DEF ResetAll, c
  <1>3. \A n \in Chips : /\ reset(c.chips[n]) \in Chip /\ IsClear(reset(c.chips[n]))
                         /\ reset(c.chips[n]).ce /\ reset(c.chips[n]).io
                         /\ SamePins(reset(c.chips[n]), b.chips[n])
    <2> TAKE n \in Chips
    <2>1. c.chips[n] \in Chip
      BY <1>1 DEF Board
    <2>2. c.chips[n].ce /\ c.chips[n].io /\ SamePins(c.chips[n], b.chips[n])
      BY <1>1
    <2> QED BY <2>1, <2>2, ResetKeepsPins DEF SamePins
  <1> QED BY <1>1, <1>2, <1>3 DEF Board

-----------------------------------------------------------------------------
(* The invariant.                                                          *)

\* What is on the bus and on the pins at each place of a MOVX.
Edges ==
    /\ movx.at \in {"address", "latch"} => \A n \in Chips : board.chips[n].ale
    /\ movx.at \in {"latch", "low"} => board.bus = movx.pos
    /\ movx.at = "high" /\ Reading =>
         board.bus = movx.pos /\ \A n \in Chips : ~board.chips[n].rd
    /\ movx.at \in {"data", "high"} /\ ~Reading => \A n \in Chips : ~board.chips[n].wr
    /\ movx.at = "high" /\ ~Reading => board.bus = acc
    /\ movx.at = "data" => ~Reading
    /\ movx.at = "load" => Reading

\* Every address a chip ever holds is one that MOVX used, or the first one.
Addressed == \A n \in Chips : board.chips[n].latch \in Cell

BoardInv == BoardTypeOK /\ LinesFollowPort /\ AddressHeld /\ Addressed /\ Edges

\* The constructors and the reset at the end of main() establish it.
LEMMA InitBoardInv == Init => BoardInv
  <1> SUFFICES ASSUME Init PROVE BoardInv
    OBVIOUS
  <1>1. PICK latches \in [Chips -> Cell] : board = PowerOn(latches)
    BY DEF Init
  <1> DEFINE b == [bus |-> {}, p2 |-> {}, chips |-> [n \in Chips |-> NewChip(latches[n])]]
  <1>2. \A n \in Chips : latches[n] \in Byte /\ NewChip(latches[n]) \in Chip
                         /\ NewChip(latches[n]).latch \in Cell
    BY CellOK, NewChipIsClear
  <1>3. b \in Board /\ \A n \in Chips : b.chips[n].latch \in Cell
    BY <1>2 DEF Board, Byte
  <1>4. board = ResetCpu(b)
    BY <1>1 DEF PowerOn
  <1> HIDE DEF b
  <1>5. /\ board \in Board /\ board.p2 = 0..7
        /\ \A n \in Chips : /\ board.chips[n].ce /\ board.chips[n].io
                             /\ SamePins(board.chips[n], b.chips[n])
    BY <1>3, <1>4, CpuResetCall
  <1>6. acc = {} /\ movx = Between /\ movx.at = "none"
    BY DEF Init, Between
  <1>7. BoardTypeOK
    BY <1>5, <1>6 DEF BoardTypeOK, Byte
  <1>8. LinesFollowPort
    <2> SUFFICES ASSUME NEW n \in Chips
                 PROVE  /\ board.chips[n].ce = (CEBit[n] \in board.p2)
                        /\ board.chips[n].io = (7 \in board.p2)
      BY DEF LinesFollowPort
    <2>1. CEBit[n] \in 0..7 /\ 7 \in 0..7
      BY DEF CEBit, Chips
    <2>2. board.chips[n].ce \in BOOLEAN /\ board.chips[n].io \in BOOLEAN
      BY <1>5 DEF Board, Chip
    <2> QED BY <2>1, <2>2, <1>5
  <1>9. Addressed
    BY <1>3, <1>5 DEF Addressed, SamePins
  <1> QED BY <1>6, <1>7, <1>8, <1>9 DEF BoardInv, AddressHeld, Edges

\* A step that leaves the select pins, the I/O pin and the lines of P2 alone.
LEMMA LinesStay ==
    ASSUME LinesFollowPort,
           \A n \in Chips : /\ board'.chips[n].ce = board.chips[n].ce
                            /\ board'.chips[n].io = board.chips[n].io,
           \A k \in 4..7 : (k \in board'.p2) <=> (k \in board.p2)
    PROVE  LinesFollowPort'
  <1> SUFFICES ASSUME NEW n \in Chips
               PROVE  /\ board'.chips[n].ce = (CEBit[n] \in board'.p2)
                      /\ board'.chips[n].io = (7 \in board'.p2)
    BY DEF LinesFollowPort
  <1>1. CEBit[n] \in 4..7 /\ 7 \in 4..7
    BY DEF CEBit, Chips
  <1> QED BY <1>1 DEF LinesFollowPort

\* The address that the instruction puts on the bus is one of the RAM's.
LEMMA MovxTyped ==
    ASSUME BoardTypeOK, movx /= Between
    PROVE  /\ movx \in Movx /\ movx.pos \in Cell /\ movx.pos \in Byte
           /\ Reading \in BOOLEAN
  BY BoardOK, CellOK DEF BoardTypeOK, Movx, Reading

\* The next place of a MOVX.
LEMMA MovxOn ==
    ASSUME NEW to \in {"address", "latch", "low", "data", "high", "load"}, movx \in Movx
    PROVE  /\ [movx EXCEPT !.at = to] \in Movx /\ [movx EXCEPT !.at = to].at = to
           /\ [movx EXCEPT !.at = to].pos = movx.pos
           /\ [movx EXCEPT !.at = to].kind = movx.kind
  BY DEF Movx

\* The first pin.
LEMMA BeginKeeps ==
    ASSUME BoardInv, NEW kind \in {"read", "write"}, NEW pos \in Pos, MovxBegin(kind, pos)
    PROVE  BoardInv'
  <1> USE DEF BoardInv
  <1>1. board \in Board /\ board' = PinALE(board, TRUE) /\ acc' = acc
    BY DEF MovxBegin, BoardTypeOK
  <1>2. /\ board' \in Board /\ board'.p2 = board.p2 /\ board'.bus = board.bus
        /\ \A n \in Chips : board'.chips[n] = ALEWritten(board.chips[n], TRUE, board.bus)
    BY <1>1, AleCall
  <1>3. \A n \in Chips : /\ board'.chips[n].ce = board.chips[n].ce
                         /\ board'.chips[n].io = board.chips[n].io
                         /\ board'.chips[n].ale
                         /\ board'.chips[n].latch = board.chips[n].latch
    <2> TAKE n \in Chips
    <2>1. board.chips[n] \in Chip /\ board.bus \in Byte
      BY <1>1 DEF Board
    <2>2. board'.chips[n] = ALEWritten(board.chips[n], TRUE, board.bus)
      BY <1>2
    <2> QED BY <2>1, <2>2 DEF ALEWritten, Chip
  <1>4. /\ movx' \in Movx /\ movx'.at = "address" /\ movx'.kind = kind /\ movx'.pos = pos
    BY DEF MovxBegin, Movx
  <1>5. BoardTypeOK'
    BY <1>1, <1>2, <1>4 DEF BoardTypeOK
  <1>6. LinesFollowPort'
    BY <1>2, <1>3, LinesStay
  <1>7. Addressed'
    BY <1>3 DEF Addressed
  <1> QED BY <1>3, <1>4, <1>5, <1>6, <1>7 DEF AddressHeld, Edges

\* The address on the bus, ALE down, and the three pins of a read or a write.
LEMMA MovxKeeps ==
    ASSUME BoardInv, MovxStep
    PROVE  BoardInv'
  <1> USE DEF BoardInv
  <1>1. movx /= Between
    <2>1. movx.at \in {"address", "latch", "low", "high", "data"}
      BY DEF MovxStep, Pin
    <2> QED BY <2>1 DEF Between
  <1>2. /\ board \in Board /\ acc \in Byte /\ movx \in Movx
        /\ movx.pos \in Cell /\ movx.pos \in Byte /\ Reading \in BOOLEAN
    BY <1>1, MovxTyped DEF BoardTypeOK
  <1>3. \A n \in Chips : board.chips[n] \in Chip /\ board.chips[n].latch \in Cell
    BY <1>2 DEF Board, Addressed
  <1>4. board.bus \in Byte
    BY <1>2 DEF Board
  <1>5. ASSUME NEW to \in {"latch", "low", "data", "high", "load"},
               movx' = [movx EXCEPT !.at = to]
        PROVE  /\ movx' \in Movx /\ movx'.at = to /\ movx'.pos = movx.pos
               /\ Reading' = Reading
    BY <1>2, <1>5, MovxOn DEF Reading
  <1>6. CASE Pin("address", "latch", WriteBus(board, movx.pos))
    <2>1. /\ board' \in Board /\ board'.p2 = board.p2 /\ board'.bus = movx.pos
          /\ board'.chips = board.chips /\ acc' = acc
          /\ movx.at = "address" /\ movx' = [movx EXCEPT !.at = "latch"]
      BY <1>2, <1>6, BusCall DEF Pin
    <2>2. /\ movx' \in Movx /\ movx'.at = "latch" /\ movx'.pos = movx.pos
          /\ Reading' = Reading
      BY <1>5, <2>1
    <2>3. LinesFollowPort'
      BY <2>1, LinesStay
    <2>4. AddressHeld' /\ Addressed'
      BY <2>1, <2>2 DEF AddressHeld, Addressed
    <2> QED BY <1>2, <2>1, <2>2, <2>3, <2>4 DEF BoardTypeOK, Edges
  <1>7. CASE Pin("latch", "low", PinALE(board, FALSE))
    <2>1. /\ board' \in Board /\ board'.p2 = board.p2 /\ board'.bus = board.bus
          /\ \A n \in Chips : board'.chips[n] = ALEWritten(board.chips[n], FALSE, board.bus)
          /\ acc' = acc
          /\ movx.at = "latch" /\ movx' = [movx EXCEPT !.at = "low"]
      BY <1>2, <1>7, AleCall DEF Pin
    <2>2. /\ movx' \in Movx /\ movx'.at = "low" /\ movx'.pos = movx.pos
          /\ Reading' = Reading
      BY <1>5, <2>1
    <2>3. /\ board.bus = movx.pos /\ \A n \in Chips : board.chips[n].ale
      BY <2>1 DEF Edges
    <2>4. \A n \in Chips : /\ board'.chips[n].ce = board.chips[n].ce
                           /\ board'.chips[n].io = board.chips[n].io
                           /\ board'.chips[n].latch = movx.pos
      <3> TAKE n \in Chips
      <3>1. /\ board.chips[n] \in Chip /\ board.chips[n].ale
            /\ board'.chips[n] = ALEWritten(board.chips[n], FALSE, board.bus)
        BY <1>3, <2>1, <2>3
      <3> QED BY <3>1, <1>4, <2>3 DEF ALEWritten, Chip
    <2>5. LinesFollowPort'
      BY <2>1, <2>4, LinesStay
    <2>6. AddressHeld' /\ Addressed'
      BY <1>2, <2>2, <2>4 DEF AddressHeld, Addressed
    <2> QED BY <1>2, <2>1, <2>2, <2>3, <2>5, <2>6 DEF BoardTypeOK, Edges
  <1>8. ASSUME NEW cur \in BOOLEAN, board' = PinRD(board, cur)
        PROVE  /\ board' \in Board /\ board'.p2 = board.p2
               /\ ~cur => board'.bus = board.bus
               /\ \A n \in Chips : /\ board'.chips[n].ce = board.chips[n].ce
                                    /\ board'.chips[n].io = board.chips[n].io
                                    /\ board'.chips[n].rd = cur
                                    /\ board'.chips[n].latch = board.chips[n].latch
    <2>1. \A n \in Chips : board.chips[n].latch \in Cell
      BY <1>3
    <2>2. /\ board' \in Board /\ board'.p2 = board.p2
          /\ \A n \in Chips : board'.chips[n] = RDWritten(board.chips[n], cur)
          /\ ~cur => board'.bus = board.bus
      BY <1>2, <1>8, <2>1, RdCall DEF Drives
    <2> QED BY <1>3, <2>2, RdSlot
  <1>9. ASSUME NEW cur \in BOOLEAN, board' = PinWR(board, cur)
        PROVE  /\ board' \in Board /\ board'.p2 = board.p2 /\ board'.bus = board.bus
               /\ \A n \in Chips : /\ board'.chips[n].ce = board.chips[n].ce
                                    /\ board'.chips[n].io = board.chips[n].io
                                    /\ board'.chips[n].wr = cur
                                    /\ board'.chips[n].latch = board.chips[n].latch
    <2>1. \A n \in Chips : board.chips[n].latch \in Cell
      BY <1>3
    <2>2. /\ board' \in Board /\ board'.p2 = board.p2 /\ board'.bus = board.bus
          /\ \A n \in Chips : board'.chips[n] = WRWritten(board.chips[n], cur, board.bus)
      BY <1>2, <1>9, <2>1, WrCall
    <2> QED BY <1>3, <1>4, <2>2, WrSlot
  <1>10. CASE movx.at = "low" /\ Reading /\ Pin("low", "high", PinRD(board, FALSE))
    <2>1. /\ board' = PinRD(board, FALSE) /\ acc' = acc
          /\ movx.at = "low" /\ movx' = [movx EXCEPT !.at = "high"] /\ Reading
      BY <1>10 DEF Pin
    <2>2. movx' \in Movx /\ movx'.at = "high" /\ movx'.pos = movx.pos /\ Reading' = Reading
      BY <1>5, <2>1
    <2>3. LinesFollowPort'
      BY <1>8, <2>1, LinesStay
    <2>4. AddressHeld' /\ Addressed'
      BY <1>8, <2>1, <2>2 DEF AddressHeld, Addressed
    <2>5. Edges'
      BY <1>8, <2>1, <2>2 DEF Edges
    <2> QED BY <1>2, <1>8, <2>1, <2>2, <2>3, <2>4, <2>5 DEF BoardTypeOK
  <1>11. CASE movx.at = "high" /\ Reading /\ Pin("high", "load", PinRD(board, TRUE))
    <2>1. /\ board' = PinRD(board, TRUE) /\ acc' = acc
          /\ movx.at = "high" /\ movx' = [movx EXCEPT !.at = "load"] /\ Reading
      BY <1>11 DEF Pin
    <2>2. movx' \in Movx /\ movx'.at = "load" /\ movx'.pos = movx.pos /\ Reading' = Reading
      BY <1>5, <2>1
    <2>3. LinesFollowPort'
      BY <1>8, <2>1, LinesStay
    <2>4. AddressHeld' /\ Addressed'
      BY <1>8, <2>1, <2>2 DEF AddressHeld, Addressed
    <2>5. Edges'
      BY <2>1, <2>2 DEF Edges
    <2> QED BY <1>2, <1>8, <2>1, <2>2, <2>3, <2>4, <2>5 DEF BoardTypeOK
  <1>12. CASE movx.at = "low" /\ ~Reading /\ Pin("low", "data", PinWR(board, FALSE))
    <2>1. /\ board' = PinWR(board, FALSE) /\ acc' = acc
          /\ movx.at = "low" /\ movx' = [movx EXCEPT !.at = "data"] /\ ~Reading
      BY <1>12 DEF Pin
    <2>2. movx' \in Movx /\ movx'.at = "data" /\ movx'.pos = movx.pos /\ Reading' = Reading
      BY <1>5, <2>1
    <2>3. LinesFollowPort'
      BY <1>9, <2>1, LinesStay
    <2>4. AddressHeld' /\ Addressed'
      BY <1>9, <2>1, <2>2 DEF AddressHeld, Addressed
    <2>5. Edges'
      BY <1>9, <2>1, <2>2 DEF Edges
    <2> QED BY <1>2, <1>9, <2>1, <2>2, <2>3, <2>4, <2>5 DEF BoardTypeOK
  <1>13. CASE Pin("data", "high", WriteBus(board, acc))
    <2>1. /\ board' \in Board /\ board'.p2 = board.p2 /\ board'.bus = acc
          /\ board'.chips = board.chips /\ acc' = acc
          /\ movx.at = "data" /\ movx' = [movx EXCEPT !.at = "high"]
      BY <1>2, <1>13, BusCall DEF Pin
    <2>2. movx' \in Movx /\ movx'.at = "high" /\ movx'.pos = movx.pos /\ Reading' = Reading
      BY <1>5, <2>1
    <2>3. LinesFollowPort'
      BY <2>1, LinesStay
    <2>4. AddressHeld' /\ Addressed'
      BY <2>1, <2>2 DEF AddressHeld, Addressed
    <2>5. ~Reading /\ \A n \in Chips : ~board.chips[n].wr
      BY <2>1 DEF Edges
    <2>6. Edges'
      BY <2>1, <2>2, <2>5 DEF Edges
    <2> QED BY <1>2, <2>1, <2>2, <2>3, <2>4, <2>6 DEF BoardTypeOK
  <1>14. CASE movx.at = "high" /\ ~Reading /\ Pin("high", "none", PinWR(board, TRUE))
    <2>1. board' = PinWR(board, TRUE) /\ acc' = acc /\ movx' = Between
      BY <1>14 DEF Pin
    <2>2. LinesFollowPort'
      BY <1>9, <2>1, LinesStay
    <2>3. Addressed'
      BY <1>9, <2>1 DEF Addressed
    <2>4. AddressHeld' /\ Edges'
      BY <2>1 DEF Between, AddressHeld, Edges
    <2> QED BY <1>2, <1>9, <2>1, <2>2, <2>3, <2>4 DEF BoardTypeOK
  <1> QED BY <1>6, <1>7, <1>10, <1>11, <1>12, <1>13, <1>14 DEF MovxStep

\* The accumulator takes what the bus has.
LEMMA LoadKeeps ==
    ASSUME BoardInv, MovxLoad
    PROVE  BoardInv'
  <1>1. board' = board /\ acc' = board.bus /\ movx' = Between
    BY DEF MovxLoad
  <1>2. BoardTypeOK'
    BY <1>1 DEF BoardInv, BoardTypeOK, Board
  <1>3. LinesFollowPort' /\ Addressed'
    BY <1>1 DEF BoardInv, LinesFollowPort, Addressed
  <1>4. AddressHeld' /\ Edges'
    BY <1>1 DEF Between, AddressHeld, Edges
  <1> QED BY <1>2, <1>3, <1>4 DEF BoardInv

\* An instruction of one step keeps the invariant if its effect on the board does.
LEMMA InstructionKeeps ==
    ASSUME BoardInv, NEW b, NEW a, Instruction(b, a),
           b \in Board, a \in Byte,
           \A n \in Chips : /\ b.chips[n].ce = (CEBit[n] \in b.p2)
                            /\ b.chips[n].io = (7 \in b.p2)
                            /\ b.chips[n].latch \in Cell
    PROVE  BoardInv'
  <1>1. board' = b /\ acc' = a /\ movx' = Between
    BY DEF Instruction
  <1>2. BoardTypeOK'
    BY <1>1 DEF BoardTypeOK
  <1>3. LinesFollowPort' /\ Addressed'
    BY <1>1 DEF LinesFollowPort, Addressed
  <1>4. AddressHeld' /\ Edges'
    BY <1>1 DEF Between, AddressHeld, Edges
  <1> QED BY <1>2, <1>3, <1>4 DEF BoardInv

\* The instructions that write BUS or nothing.
LEMMA BusKeeps ==
    ASSUME BoardInv, BusOut \/ BusIn \/ Compute
    PROVE  BoardInv'
  <1>1. /\ board \in Board /\ board.bus \in Byte /\ acc \in Byte
        /\ \A n \in Chips : /\ board.chips[n].ce = (CEBit[n] \in board.p2)
                             /\ board.chips[n].io = (7 \in board.p2)
                             /\ board.chips[n].latch \in Cell
    BY DEF BoardInv, BoardTypeOK, Board, LinesFollowPort, Addressed
  <1>2. ASSUME NEW v \in Byte, Instruction(WriteBus(board, v), acc)
        PROVE  BoardInv'
    <2> DEFINE b == WriteBus(board, v)
    <2>1. b \in Board /\ b.p2 = board.p2 /\ b.chips = board.chips
      BY <1>1, BusCall
    <2> HIDE DEF b
    <2>2. Instruction(b, acc)
      BY <1>2 DEF b
    <2> QED BY <1>1, <2>1, <2>2, InstructionKeeps
  <1>3. ASSUME NEW a \in Byte, Instruction(board, a)
        PROVE  BoardInv'
    BY <1>1, <1>3, InstructionKeeps
  <1>4. \A d \in Data : d \in Byte /\ board.bus \cup d \in Byte /\ board.bus \cap d \in Byte
    BY <1>1, BoardOK DEF Byte
  <1>5. CASE BusOut
    BY <1>1, <1>2, <1>4, <1>5 DEF BusOut
  <1>6. CASE BusIn
    BY <1>1, <1>3, <1>6 DEF BusIn
  <1>7. CASE Compute
    BY <1>3, <1>4, <1>7 DEF Compute
  <1> QED BY <1>5, <1>6, <1>7

\* ORL and ANL write all of P2.
LEMMA P2Keeps ==
    ASSUME BoardInv, P2Out
    PROVE  BoardInv'
  <1>1. board \in Board /\ board.p2 \in Byte /\ acc \in Byte
    BY DEF BoardInv, BoardTypeOK, Board
  <1>2. ASSUME NEW v \in Byte, Instruction(WriteP2(board, v, 0..7), acc)
        PROVE  BoardInv'
    <2> DEFINE b == WriteP2(board, v, 0..7)
    <2>1. /\ b \in Board /\ b.p2 = v
          /\ \A n \in Chips : b.chips[n] = P2Bits(board.chips[n], n, v, 0..7)
      BY <1>1, PortWrite
    <2>2. ASSUME NEW n \in Chips
          PROVE  /\ b.chips[n].ce = (CEBit[n] \in b.p2)
                 /\ b.chips[n].io = (7 \in b.p2)
                 /\ b.chips[n].latch \in Cell
      <3>1. board.chips[n] \in Chip /\ board.chips[n].latch \in Cell
        BY <1>1 DEF Board, BoardInv, Addressed
      <3> DEFINE c == P2Bits(board.chips[n], n, v, 0..7)
      <3>2. /\ SamePins(c, board.chips[n])
            /\ c.ce = (CEBit[n] \in v) /\ c.io = (7 \in v)
        BY <3>1, WholePort
      <3> HIDE DEF b, c
      <3>3. b.chips[n] = c /\ b.p2 = v
        BY <2>1 DEF c
      <3> QED BY <3>1, <3>2, <3>3 DEF SamePins
    <2> HIDE DEF b
    <2>3. Instruction(b, acc)
      BY <1>2 DEF b
    <2> QED BY <1>1, <2>1, <2>2, <2>3, InstructionKeeps
  <1>3. \A d \in Raise : board.p2 \cup d \in Byte
    BY <1>1, BoardOK DEF Byte
  <1>4. \A d \in Lower : board.p2 \cap d \in Byte
    BY <1>1, BoardOK DEF Byte
  <1> QED BY <1>2, <1>3, <1>4 DEF P2Out, OrP2, AndP2

\* MOVD writes the low nibble of P2, which selects nothing.
LEMMA NibbleKeeps ==
    ASSUME BoardInv, MovdIn \/ MovdOut
    PROVE  BoardInv'
  <1>1. board \in Board /\ acc \in Byte
    BY DEF BoardInv, BoardTypeOK
  <1>2. ASSUME NEW v \in SUBSET (0..3), NEW a \in Byte, Instruction(NibbleP2(board, v), a)
        PROVE  BoardInv'
    <2> DEFINE b == NibbleP2(board, v)
    <2>1. /\ b \in Board /\ b.chips = board.chips
          /\ \A k \in 4..7 : (k \in b.p2) <=> (k \in board.p2)
      BY <1>1, NibbleWrite
    <2> HIDE DEF b
    <2>2. ASSUME NEW n \in Chips
          PROVE  /\ b.chips[n].ce = (CEBit[n] \in b.p2)
                 /\ b.chips[n].io = (7 \in b.p2)
                 /\ b.chips[n].latch \in Cell
      <3>1. CEBit[n] \in 4..7 /\ 7 \in 4..7
        BY DEF CEBit, Chips
      <3> QED BY <2>1, <3>1 DEF BoardInv, LinesFollowPort, Addressed
    <2>3. Instruction(b, a)
      BY <1>2 DEF b
    <2> QED BY <1>1, <2>1, <2>2, <2>3, InstructionKeeps
  <1>3. \A k \in Keys : k \in SUBSET (0..3) /\ k \in Byte
    <2>1. \A k \in Keys : k \in SUBSET (0..3)
      BY BoardOK
    <2>2. (0..3) \subseteq (0..7)
      OBVIOUS
    <2> QED BY <2>1, <2>2 DEF Byte
  <1>4. CASE MovdIn
    BY <1>2, <1>3, <1>4 DEF MovdIn
  <1>5. CASE MovdOut
    <2>1. acc \cap (0..3) \in SUBSET (0..3)
      OBVIOUS
    <2> QED BY <1>1, <1>2, <1>5, <2>1 DEF MovdOut
  <1> QED BY <1>4, <1>5

\* The reset of the machine.
LEMMA ResetKeeps ==
    ASSUME BoardInv, Reset
    PROVE  BoardInv'
  <1>1. board \in Board /\ {} \in Byte
    BY DEF BoardInv, BoardTypeOK, Byte
  <1> DEFINE b == ResetAll(board)
  <1>2. /\ b \in Board /\ b.p2 = 0..7
        /\ \A n \in Chips : /\ b.chips[n].ce /\ b.chips[n].io
                             /\ SamePins(b.chips[n], board.chips[n])
    BY <1>1, AllResetCall
  <1> HIDE DEF b
  <1>3. ASSUME NEW n \in Chips
        PROVE  /\ b.chips[n].ce = (CEBit[n] \in b.p2)
               /\ b.chips[n].io = (7 \in b.p2)
               /\ b.chips[n].latch \in Cell
    <2>1. CEBit[n] \in 0..7 /\ 7 \in 0..7
      BY DEF CEBit, Chips
    <2>2. b.chips[n].ce \in BOOLEAN /\ b.chips[n].io \in BOOLEAN
      BY <1>2 DEF Board, Chip
    <2>3. b.chips[n].latch \in Cell
      BY <1>2 DEF BoardInv, Addressed, SamePins
    <2> QED BY <1>2, <2>1, <2>2, <2>3
  <1>4. Instruction(b, {})
    BY DEF Reset, b
  <1> QED BY <1>1, <1>2, <1>3, <1>4, InstructionKeeps

\* The assembler window writes a cell: neither pins nor address change.
LEMMA PokeKeeps ==
    ASSUME BoardInv, Poke
    PROVE  BoardInv'
  <1>1. PICK m \in Chips, c \in Pos, v \in Data :
           board' = [board EXCEPT !.chips[m].ram[c] = v]
    BY DEF Poke
  <1>2. acc' = acc /\ movx' = movx /\ v \in Byte /\ c \in Cell
    BY BoardOK DEF Poke
  <1>3. board \in Board /\ \A n \in Chips : board.chips[n] \in Chip
    BY DEF BoardInv, BoardTypeOK, Board
  <1> DEFINE poked == [board.chips[m] EXCEPT !.ram = [board.chips[m].ram EXCEPT ![c] = v]]
  <1>4. poked \in Chip /\ SamePins(poked, board.chips[m])
        /\ poked.ce = board.chips[m].ce /\ poked.io = board.chips[m].io
    BY <1>2, <1>3 DEF Chip, SamePins
  <1>5. board' = [board EXCEPT !.chips = [board.chips EXCEPT ![m] = poked]]
    BY <1>1, <1>3 DEF Board
  <1> HIDE DEF poked
  <1>6. /\ board' \in Board /\ board'.p2 = board.p2 /\ board'.bus = board.bus
        /\ \A n \in Chips : board'.chips[n] = IF n = m THEN poked ELSE board.chips[n]
    BY <1>3, <1>4, <1>5 DEF Board
  <1>7. \A n \in Chips : /\ SamePins(board'.chips[n], board.chips[n])
                         /\ board'.chips[n].ce = board.chips[n].ce
                         /\ board'.chips[n].io = board.chips[n].io
    BY <1>4, <1>6 DEF SamePins
  <1>8. LinesFollowPort'
    BY <1>6, <1>7, LinesStay DEF BoardInv
  <1>9. AddressHeld' /\ Addressed' /\ Edges'
    BY <1>2, <1>6, <1>7 DEF BoardInv, AddressHeld, Addressed, Edges, SamePins, Reading
  <1> QED BY <1>2, <1>6, <1>8, <1>9 DEF BoardInv, BoardTypeOK

\* Every step keeps the invariant.
LEMMA NextBoardInv == BoardInv /\ [Next]_boardVars => BoardInv'
  <1> SUFFICES ASSUME BoardInv, [Next]_boardVars PROVE BoardInv'
    OBVIOUS
  <1>1. CASE UNCHANGED boardVars
    BY <1>1 DEF boardVars, BoardInv, BoardTypeOK, LinesFollowPort, AddressHeld, Addressed,
                Edges, Reading
  <1>2. CASE Next
    BY <1>2, BeginKeeps, MovxKeeps, LoadKeeps, BusKeeps, P2Keeps, NibbleKeeps, ResetKeeps,
       PokeKeeps DEF Next
  <1> QED BY <1>1, <1>2

\* For every set of addresses, data and operands, at every moment the select and I/O pins
\* of both chips are bits 4, 5 and 7 of P2, through resets and nibble writes
\* (dataport.cpp:44-55, main.cpp:67-78).
THEOREM SelectionIsP2 == Spec => [](BoardTypeOK /\ LinesFollowPort)
  <1>1. BoardInv => BoardTypeOK /\ LinesFollowPort
    BY DEF BoardInv
  <1> QED BY <1>1, InitBoardInv, NextBoardInv, PTL DEF Spec

\* From the falling ALE to its end a MOVX finds the address it put on the bus in both
\* chips, whatever the UI thread writes meanwhile (intel8155.cpp:114-122).
THEOREM AddressIsHeld == Spec => []AddressHeld
  <1>1. BoardInv => AddressHeld
    BY DEF BoardInv
  <1> QED BY <1>1, InitBoardInv, NextBoardInv, PTL DEF Spec

-----------------------------------------------------------------------------
(* The board implements Memory.                                            *)

\* What the program sees of the accumulator.
Seen == IF movx.at = "load" THEN board.bus ELSE acc

\* A chip is selected, and in I/O mode, for the memory exactly when it is by its pins.
LEMMA SelectedIsEnabled ==
    ASSUME BoardInv, NEW n \in Chips
    PROVE  /\ (n \in Abstract!Selected) <=> ~board.chips[n].ce
           /\ Abstract!IOMode <=> board.chips[n].io
  <1>1. board.chips[n] \in Chip
    BY DEF BoardInv, BoardTypeOK, Board
  <1>2. /\ board.chips[n].ce = (CEBit[n] \in board.p2)
        /\ board.chips[n].io = (7 \in board.p2)
    BY DEF BoardInv, LinesFollowPort
  <1>3. CEBit[n] = (IF n = "pid" THEN 4 ELSE 5)
    BY DEF CEBit, Chips
  <1>4. CEBit[n] \in 4..7 /\ 7 \in 4..7
    BY DEF CEBit, Chips
  <1>5. n \in Abstract!Chips
    BY DEF Chips, Abstract!Chips
  <1>6. (n \in Abstract!Selected) <=> CEBit[n] \notin board.p2
    BY <1>3, <1>4, <1>5 DEF Abstract!Selected
  <1>7. Abstract!IOMode <=> 7 \in board.p2
    BY <1>4 DEF Abstract!IOMode
  <1> QED BY <1>2, <1>6, <1>7

\* The register that the latched address means.
LEMMA SameRegister ==
    ASSUME NEW chip, NEW addr, chip.latch = addr
    PROVE  /\ Register(chip) = Abstract!RegisterOf(addr)
           /\ Register(chip) \in {"pa", "pb", "pc", "command"}
           /\ Register(chip) \in Abstract!PortName <=> Register(chip) /= "command"
  BY DEF Register, Abstract!RegisterOf, Abstract!PortName

\* A step that leaves memory, ports, lines and the accumulator as the program sees them.
LEMMA Stutters ==
    ASSUME \A n \in Chips : SameStore(board'.chips[n], board.chips[n]),
           board'.p2 \cap (4..7) = board.p2 \cap (4..7)
    PROVE  /\ UNCHANGED Abstract!memoryVars <=> Seen' = Seen
           /\ Abstract!Compute <=> Seen' \in Byte
  <1>1. [n \in Chips |-> board'.chips[n].ram] = [n \in Chips |-> board.chips[n].ram]
    BY DEF SameStore
  <1>2. \A n \in Chips : [p \in PortName |-> board'.chips[n][p]]
                         = [p \in PortName |-> board.chips[n][p]]
    BY DEF SameStore, SamePorts, PortName
  <1>3. [n \in Chips |-> [p \in PortName |-> board'.chips[n][p]]]
      = [n \in Chips |-> [p \in PortName |-> board.chips[n][p]]]
    BY <1>2
  <1> QED BY <1>1, <1>3 DEF Abstract!memoryVars, Abstract!Compute, Seen, Byte, Abstract!Byte

\* The rising RD: the program reads what it selected.
LEMMA ReadIsRead ==
    ASSUME BoardInv, Reading, Pin("high", "load", PinRD(board, TRUE))
    PROVE  Abstract!Read(movx.pos)
  <1>1. /\ board' = PinRD(board, TRUE) /\ movx.at = "high" /\ acc' = acc
        /\ movx'.at = "load"
    <2>1. movx \in Movx
      BY MovxTyped DEF Pin, Between, BoardInv
    <2> QED BY <2>1 DEF Pin, Movx
  <1>2. board \in Board /\ \A n \in Chips : board.chips[n] \in Chip
    BY DEF BoardInv, BoardTypeOK, Board
  <1>3. /\ board.bus = movx.pos
        /\ \A n \in Chips : ~board.chips[n].rd /\ board.chips[n].latch = movx.pos
                            /\ board.chips[n].latch \in Cell
    BY <1>1 DEF BoardInv, Edges, AddressHeld, Addressed
  <1>4. /\ board'.p2 = board.p2
        /\ \A n \in Chips : board'.chips[n] = RDWritten(board.chips[n], TRUE)
        /\ board'.bus = IF Drives(board.chips["pidExtension"], TRUE)
                          THEN Driven(board.chips["pidExtension"])
                        ELSE IF Drives(board.chips["pid"], TRUE)
                          THEN Driven(board.chips["pid"])
                        ELSE board.bus
    BY <1>1, <1>2, <1>3, RdCall
  <1>5. \A n \in Chips : SameStore(board'.chips[n], board.chips[n])
    <2> TAKE n \in Chips
    <2> QED BY <1>2, <1>4 DEF RDWritten, Chip, SameStore, SamePorts
  <1>6. \A n \in Chips : Drives(board.chips[n], TRUE) <=> n \in Abstract!Selected
    BY <1>3, SelectedIsEnabled DEF Drives
  <1>7. ASSUME NEW n \in Chips
        PROVE  Driven(board.chips[n]) =
                 IF ~Abstract!IOMode THEN board.chips[n].ram[movx.pos]
                 ELSE IF Abstract!RegisterOf(movx.pos) \in Abstract!PortName
                   THEN board.chips[n][Abstract!RegisterOf(movx.pos)]
                 ELSE {}
    <2>1. board.chips[n].latch = movx.pos
      BY <1>3
    <2>2. Register(board.chips[n]) = Abstract!RegisterOf(movx.pos)
      BY <2>1, SameRegister
    <2>3. (Abstract!RegisterOf(movx.pos) \in Abstract!PortName)
          <=> Register(board.chips[n]) /= "command"
      BY <2>1, <2>2, SameRegister
    <2>4. Abstract!IOMode <=> board.chips[n].io
      BY SelectedIsEnabled
    <2> QED BY <2>1, <2>2, <2>3, <2>4 DEF Driven
  <1>8. "pid" \in Chips /\ "pidExtension" \in Chips
    BY DEF Chips
  <1>9. (Abstract!Selected = {}) <=> "pid" \notin Abstract!Selected
                                     /\ "pidExtension" \notin Abstract!Selected
    BY DEF Abstract!Selected, Abstract!Chips
  <1>10. board'.bus = Abstract!Answer(movx.pos)
    <2>1. CASE "pidExtension" \in Abstract!Selected
      BY <1>4, <1>6, <1>7, <1>8, <1>9, <2>1 DEF Abstract!Answer, Abstract!PortName, PortName
    <2>2. CASE "pidExtension" \notin Abstract!Selected /\ "pid" \in Abstract!Selected
      BY <1>4, <1>6, <1>7, <1>8, <1>9, <2>2 DEF Abstract!Answer, Abstract!PortName, PortName
    <2>3. CASE "pidExtension" \notin Abstract!Selected /\ "pid" \notin Abstract!Selected
      BY <1>3, <1>4, <1>6, <1>8, <1>9, <2>3 DEF Abstract!Answer
    <2> QED BY <2>1, <2>2, <2>3
  <1>11. [n \in Chips |-> board'.chips[n].ram] = [n \in Chips |-> board.chips[n].ram]
    BY <1>5 DEF SameStore
  <1>12. \A n \in Chips : [p \in PortName |-> board'.chips[n][p]]
                          = [p \in PortName |-> board.chips[n][p]]
    BY <1>5 DEF SameStore, SamePorts, PortName
  <1> QED BY <1>1, <1>4, <1>10, <1>11, <1>12 DEF Abstract!Read

\* The rising WR: what the program wrote goes where it selected.
LEMMA WriteIsWrite ==
    ASSUME BoardInv, ~Reading, Pin("high", "none", PinWR(board, TRUE))
    PROVE  Abstract!Write(movx.pos)
  <1>1. /\ board' = PinWR(board, TRUE) /\ movx.at = "high" /\ acc' = acc
        /\ movx'.at = "none"
    BY DEF Pin, Between
  <1>2. /\ board \in Board /\ board.bus \in Byte
        /\ \A n \in Chips : board.chips[n] \in Chip
    BY DEF BoardInv, BoardTypeOK, Board
  <1>3. /\ board.bus = acc
        /\ \A n \in Chips : ~board.chips[n].wr /\ board.chips[n].latch = movx.pos
                            /\ board.chips[n].latch \in Cell
    BY <1>1 DEF BoardInv, Edges, AddressHeld, Addressed
  <1>4. /\ board'.p2 = board.p2
        /\ \A n \in Chips : board'.chips[n] = WRWritten(board.chips[n], TRUE, board.bus)
    BY <1>1, <1>2, <1>3, WrCall
  <1> DEFINE reg == Abstract!RegisterOf(movx.pos)
  <1>5. ASSUME NEW n \in Chips
        PROVE  /\ board'.chips[n].ram =
                    IF n \in Abstract!Selected /\ ~Abstract!IOMode
                      THEN [board.chips[n].ram EXCEPT ![movx.pos] = acc]
                      ELSE board.chips[n].ram
               /\ \A p \in PortName : board'.chips[n][p] =
                    IF n \in Abstract!Selected /\ Abstract!IOMode /\ reg = p
                      THEN acc ELSE board.chips[n][p]
    <2>1. /\ board.chips[n] \in Chip /\ board.chips[n].latch \in Cell
          /\ board.chips[n].latch = movx.pos /\ ~board.chips[n].wr
      BY <1>2, <1>3
    <2>2. Register(board.chips[n]) = reg
      BY <2>1, SameRegister
    <2>3. /\ (n \in Abstract!Selected) <=> ~board.chips[n].ce
          /\ Abstract!IOMode <=> board.chips[n].io
      BY SelectedIsEnabled
    <2> DEFINE s == Store(board.chips[n], acc)
    <2>4. /\ s.ram = IF board.chips[n].io THEN board.chips[n].ram
                      ELSE [board.chips[n].ram EXCEPT ![movx.pos] = acc]
          /\ s.pa = IF board.chips[n].io /\ reg = "pa" THEN acc ELSE board.chips[n].pa
          /\ s.pb = IF board.chips[n].io /\ reg = "pb" THEN acc ELSE board.chips[n].pb
          /\ s.pc = IF board.chips[n].io /\ reg = "pc" THEN acc ELSE board.chips[n].pc
          /\ s \in Chip
      BY <1>2, <1>3, <2>1, <2>2, StoreIsExact
    <2> HIDE DEF s, reg
    <2>5. board'.chips[n] = IF ~board.chips[n].ce THEN [s EXCEPT !.wr = TRUE]
                            ELSE [board.chips[n] EXCEPT !.wr = TRUE]
      BY <1>3, <1>4, <2>1 DEF WRWritten, s
    <2>6. /\ SameStore([s EXCEPT !.wr = TRUE], s)
          /\ SameStore([board.chips[n] EXCEPT !.wr = TRUE], board.chips[n])
      BY <2>1, <2>4 DEF Chip, SameStore, SamePorts
    <2>7. CASE board.chips[n].ce
      <3>1. SameStore(board'.chips[n], board.chips[n])
        BY <2>5, <2>6, <2>7
      <3> QED BY <2>3, <2>7, <3>1 DEF SameStore, SamePorts, PortName
    <2>8. CASE ~board.chips[n].ce
      <3>1. SameStore(board'.chips[n], s)
        BY <2>5, <2>6, <2>8
      <3> QED BY <2>3, <2>4, <2>8, <3>1 DEF SameStore, SamePorts, PortName
    <2> QED BY <2>7, <2>8
  <1>6. [n \in Chips |-> board'.chips[n].ram] =
          [n \in Chips |-> IF n \in Abstract!Selected /\ ~Abstract!IOMode
                            THEN [board.chips[n].ram EXCEPT ![movx.pos] = acc]
                            ELSE board.chips[n].ram]
    BY <1>5
  <1>7. ASSUME NEW n \in Chips
        PROVE  [p \in PortName |-> board'.chips[n][p]] =
                 IF n \in Abstract!Selected /\ Abstract!IOMode /\ reg \in PortName
                   THEN [[p \in PortName |-> board.chips[n][p]] EXCEPT ![reg] = acc]
                   ELSE [p \in PortName |-> board.chips[n][p]]
    <2> HIDE DEF reg
    <2>1. CASE n \in Abstract!Selected /\ Abstract!IOMode /\ reg \in PortName
      <3>1. \A p \in PortName : board'.chips[n][p] =
                                 IF p = reg THEN acc ELSE board.chips[n][p]
        BY <1>5, <2>1
      <3> QED BY <2>1, <3>1
    <2>2. CASE ~(n \in Abstract!Selected /\ Abstract!IOMode /\ reg \in PortName)
      <3>1. \A p \in PortName : board'.chips[n][p] = board.chips[n][p]
        BY <1>5, <2>2
      <3> QED BY <2>2, <3>1
    <2> QED BY <2>1, <2>2
  <1>8. [n \in Chips |-> [p \in PortName |-> board'.chips[n][p]]] =
          [n \in Chips |-> IF n \in Abstract!Selected /\ Abstract!IOMode /\ reg \in PortName
                            THEN [[p \in PortName |-> board.chips[n][p]] EXCEPT ![reg] = acc]
                            ELSE [p \in PortName |-> board.chips[n][p]]]
    BY <1>7
  <1>9. \A n \in Chips : /\ [k \in Chips |-> board.chips[k].ram][n] = board.chips[n].ram
                         /\ [k \in Chips |-> [p \in PortName |-> board.chips[k][p]]][n]
                            = [p \in PortName |-> board.chips[n][p]]
    OBVIOUS
  <1>10. Abstract!Chips = Chips /\ Abstract!PortName = PortName
    BY DEF Abstract!Chips, Chips, Abstract!PortName, PortName
  <1>11. movx.at /= "load" /\ movx'.at /= "load"
    BY <1>1
  <1> QED BY <1>1, <1>4, <1>6, <1>8, <1>9, <1>10, <1>11 DEF Abstract!Write

\* A write to P2 with bit 6 clears both chips, without it changes neither.
LEMMA P2IsSelect ==
    ASSUME BoardInv, P2Out
    PROVE  \E new \in SUBSET (4..7) : Abstract!Select(new)
  <1>1. board \in Board /\ board.p2 \in Byte /\ \A n \in Chips : board.chips[n] \in Chip
    BY DEF BoardInv, BoardTypeOK, Board
  <1>2. ASSUME NEW v \in Byte, Instruction(WriteP2(board, v, 0..7), acc)
        PROVE  Abstract!Select(v \cap (4..7))
    <2>1. /\ movx = Between /\ movx' = Between /\ acc' = acc
          /\ board' = WriteP2(board, v, 0..7)
      BY <1>2 DEF Instruction
    <2>2. /\ board'.p2 = v
          /\ \A n \in Chips : board'.chips[n] = P2Bits(board.chips[n], n, v, 0..7)
      BY <1>1, <2>1, PortWrite
    <2>3. \A n \in Chips : /\ 6 \in v => IsClear(board'.chips[n])
                           /\ 6 \notin v => SameStore(board'.chips[n], board.chips[n])
      BY <1>1, <2>2, WholePort
    <2>4. 6 \in v <=> 6 \in v \cap (4..7)
      OBVIOUS
    <2>5. movx.at /= "load" /\ movx'.at /= "load"
      BY <2>1 DEF Between
    <2>6. CASE 6 \in v
      <3>1. [n \in Chips |-> board'.chips[n].ram] = Abstract!Cleared.ram
        BY <2>3, <2>6 DEF IsClear, Cleared, Abstract!Cleared, Abstract!Chips, Chips
      <3>2. [n \in Chips |-> [p \in PortName |-> board'.chips[n][p]]] = Abstract!Cleared.port
        <4>1. \A n \in Chips : [p \in PortName |-> board'.chips[n][p]]
                               = [p \in PortName |-> {}]
          BY <2>3, <2>6 DEF IsClear, PortName
        <4> QED BY <4>1 DEF Abstract!Cleared, Abstract!Chips, Chips, Abstract!PortName, PortName
      <3> QED BY <2>1, <2>2, <2>4, <2>5, <2>6, <3>1, <3>2 DEF Abstract!Select
    <2>7. CASE 6 \notin v
      <3>1. [n \in Chips |-> board'.chips[n].ram] = [n \in Chips |-> board.chips[n].ram]
        BY <2>3, <2>7 DEF SameStore
      <3>2. \A n \in Chips : [p \in PortName |-> board'.chips[n][p]]
                             = [p \in PortName |-> board.chips[n][p]]
        BY <2>3, <2>7 DEF SameStore, SamePorts, PortName
      <3> QED BY <2>1, <2>2, <2>4, <2>5, <2>7, <3>1, <3>2 DEF Abstract!Select
    <2> QED BY <2>6, <2>7
  <1>3. \A v \in Byte : v \cap (4..7) \in SUBSET (4..7)
    OBVIOUS
  <1>4. \A d \in Raise : board.p2 \cup d \in Byte
    BY <1>1, BoardOK DEF Byte
  <1>5. \A d \in Lower : board.p2 \cap d \in Byte
    BY <1>1, BoardOK DEF Byte
  <1>6. PICK v \in Byte : Instruction(WriteP2(board, v, 0..7), acc)
    BY <1>4, <1>5 DEF P2Out, OrP2, AndP2
  <1> QED BY <1>2, <1>3, <1>6

\* A clear board between two instructions is the memory's beginning.
LEMMA ClearIsInit ==
    ASSUME NEW b \in Board, b.p2 = 0..7, \A n \in Chips : IsClear(b.chips[n])
    PROVE  /\ [n \in Chips |-> b.chips[n].ram] = Abstract!Cleared.ram
           /\ [n \in Chips |-> [p \in PortName |-> b.chips[n][p]]] = Abstract!Cleared.port
           /\ b.p2 \cap (4..7) = 4..7
  <1>1. [n \in Chips |-> b.chips[n].ram] = Abstract!Cleared.ram
    BY DEF IsClear, Cleared, Abstract!Cleared, Abstract!Chips, Chips
  <1>2. \A n \in Chips : [p \in PortName |-> b.chips[n][p]] = [p \in PortName |-> {}]
    BY DEF IsClear, PortName
  <1>3. [n \in Chips |-> [p \in PortName |-> b.chips[n][p]]] = Abstract!Cleared.port
    BY <1>2 DEF Abstract!Cleared, Abstract!Chips, Chips, Abstract!PortName, PortName
  <1> QED BY <1>1, <1>3

\* The constructors and the reset at the end of main() leave a clear memory.
LEMMA InitIsInit == Init => Abstract!Init
  <1> SUFFICES ASSUME Init PROVE Abstract!Init
    OBVIOUS
  <1>1. PICK latches \in [Chips -> Cell] : board = PowerOn(latches)
    BY DEF Init
  <1> DEFINE b == [bus |-> {}, p2 |-> {}, chips |-> [n \in Chips |-> NewChip(latches[n])]]
  <1>2. \A n \in Chips : latches[n] \in Byte /\ NewChip(latches[n]) \in Chip
    BY CellOK, NewChipIsClear
  <1>3. b \in Board
    BY <1>2 DEF Board, Byte
  <1>4. board = ResetCpu(b)
    BY <1>1 DEF PowerOn
  <1> HIDE DEF b
  <1>5. board \in Board /\ board.p2 = 0..7 /\ \A n \in Chips : IsClear(board.chips[n])
    BY <1>3, <1>4, CpuResetCall
  <1>6. acc = {} /\ movx.at /= "load"
    BY DEF Init, Between
  <1> QED BY <1>5, <1>6, ClearIsInit DEF Abstract!Init

\* The reset of the machine does, too.
LEMMA ResetIsInit ==
    ASSUME BoardInv, Reset
    PROVE  Abstract!Init'
  <1>1. board \in Board
    BY DEF BoardInv, BoardTypeOK
  <1>2. /\ ResetAll(board) \in Board /\ ResetAll(board).p2 = 0..7
        /\ \A n \in Chips : IsClear(ResetAll(board).chips[n])
    BY <1>1, AllResetCall
  <1>3. board' = ResetAll(board) /\ acc' = {} /\ movx'.at /= "load"
    BY DEF Reset, Instruction, Between
  <1>4. board' \in Board /\ board'.p2 = 0..7 /\ \A n \in Chips : IsClear(board'.chips[n])
    BY <1>2, <1>3
  <1>5. /\ [n \in Chips |-> board'.chips[n].ram] = Abstract!Cleared.ram
        /\ [n \in Chips |-> [p \in PortName |-> board'.chips[n][p]]] = Abstract!Cleared.port
        /\ board'.p2 \cap (4..7) = 4..7
    BY <1>4, ClearIsInit
  <1> QED BY <1>3, <1>5 DEF Abstract!Init, Abstract!Cleared

\* The cell that the other thread writes.
LEMMA PokeIsPoke ==
    ASSUME BoardInv, Poke
    PROVE  Abstract!Poke
  <1>1. PICK m \in Chips, c \in Pos, v \in Data :
           board' = [board EXCEPT !.chips[m].ram[c] = v]
    BY DEF Poke
  <1>2. acc' = acc /\ movx' = movx /\ v \in Byte /\ c \in Cell
    BY BoardOK DEF Poke
  <1>3. board \in Board /\ \A n \in Chips : board.chips[n] \in Chip
    BY DEF BoardInv, BoardTypeOK, Board
  <1> DEFINE poked == [board.chips[m] EXCEPT !.ram = [board.chips[m].ram EXCEPT ![c] = v]]
  <1>4. /\ SamePorts(poked, board.chips[m])
        /\ poked.ram = [board.chips[m].ram EXCEPT ![c] = v]
    BY <1>3 DEF Chip, SamePorts
  <1>5. board' = [board EXCEPT !.chips = [board.chips EXCEPT ![m] = poked]]
    BY <1>1, <1>3 DEF Board
  <1> HIDE DEF poked
  <1>6. /\ board'.p2 = board.p2 /\ board'.bus = board.bus
        /\ \A n \in Chips : board'.chips[n] = IF n = m THEN poked ELSE board.chips[n]
    BY <1>3, <1>5 DEF Board
  <1>7. [n \in Chips |-> board'.chips[n].ram] =
          [[n \in Chips |-> board.chips[n].ram] EXCEPT ![m][c] = v]
    BY <1>4, <1>6
  <1>8. \A n \in Chips : [p \in PortName |-> board'.chips[n][p]]
                         = [p \in PortName |-> board.chips[n][p]]
    BY <1>4, <1>6 DEF SamePorts, PortName
  <1>9. m \in Abstract!Chips /\ v \in Abstract!Byte
    BY <1>2 DEF Abstract!Chips, Chips, Abstract!Byte, Byte
  <1>10. [n \in Chips |-> [p \in PortName |-> board'.chips[n][p]]]
       = [n \in Chips |-> [p \in PortName |-> board.chips[n][p]]]
    BY <1>8
  <1>11. Seen' = Seen /\ board'.p2 \cap (4..7) = board.p2 \cap (4..7)
    BY <1>2, <1>6 DEF Seen
  <1> DEFINE old == [n \in Chips |-> board.chips[n].ram]
             new == [n \in Chips |-> board'.chips[n].ram]
  <1>12. new = [old EXCEPT ![m][c] = v]
    BY <1>7
  <1>13. UNCHANGED <<[n \in Chips |-> [p \in PortName |-> board.chips[n][p]]],
                     board.p2 \cap (4..7), Seen>>
    BY <1>10, <1>11
  <1> HIDE DEF old, new
  <1>14. \E n \in Abstract!Chips, a \in Cell, w \in Abstract!Byte :
           /\ new = [old EXCEPT ![n][a] = w]
           /\ UNCHANGED <<[k \in Chips |-> [p \in PortName |-> board.chips[k][p]]],
                          board.p2 \cap (4..7), Seen>>
    BY <1>2, <1>9, <1>12, <1>13
  <1> USE DEF old, new
  <1> QED BY <1>14 DEF Abstract!Poke, Seen

\* The pins in between are seen by nobody.
LEMMA PinsAreSilent ==
    ASSUME BoardInv,
           \/ \E kind \in {"read", "write"}, pos \in Pos : MovxBegin(kind, pos)
           \/ MovxStep
           \/ MovxLoad
    PROVE  \/ UNCHANGED Abstract!memoryVars
           \/ \E addr \in Cell : Abstract!Read(addr) \/ Abstract!Write(addr)
  <1>1. /\ board \in Board /\ board.bus \in Byte /\ acc \in Byte
        /\ \A n \in Chips : board.chips[n] \in Chip /\ board.chips[n].latch \in Cell
    BY DEF BoardInv, BoardTypeOK, Board, Addressed
  <1>2. ASSUME NEW kind \in {"read", "write"}, NEW pos \in Pos, MovxBegin(kind, pos)
        PROVE  UNCHANGED Abstract!memoryVars
    <2>1. /\ board' = PinALE(board, TRUE) /\ acc' = acc
          /\ movx.at /= "load" /\ movx'.at /= "load"
      BY <1>2 DEF MovxBegin, Between
    <2>2. /\ board'.p2 = board.p2
          /\ \A n \in Chips : board'.chips[n] = ALEWritten(board.chips[n], TRUE, board.bus)
      BY <1>1, <2>1, AleCall
    <2>3. \A n \in Chips : SameStore(board'.chips[n], board.chips[n])
      <3> TAKE n \in Chips
      <3> QED BY <1>1, <2>2 DEF ALEWritten, Chip, SameStore, SamePorts
    <2> QED BY <2>1, <2>2, <2>3, Stutters DEF Seen
  <1>3. CASE MovxLoad
    <2>1. board' = board /\ acc' = board.bus /\ movx.at = "load" /\ movx'.at /= "load"
      BY <1>3 DEF MovxLoad, Between
    <2>2. \A n \in Chips : SameStore(board'.chips[n], board.chips[n])
      BY <2>1 DEF SameStore, SamePorts
    <2> QED BY <2>1, <2>2, Stutters DEF Seen
  <1>4. CASE MovxStep
    <2>1. movx \in Movx /\ movx.pos \in Cell /\ movx.pos \in Byte
      <3>1. movx.at \in {"address", "latch", "low", "high", "data"}
        BY <1>4 DEF MovxStep, Pin
      <3>2. movx /= Between
        BY <3>1 DEF Between
      <3> QED BY <3>2, MovxTyped DEF BoardInv
    <2>2. ASSUME NEW from \in {"address", "latch", "low", "data"},
                 NEW to \in {"latch", "low", "data", "high"}, NEW b,
                 Pin(from, to, b), b.p2 = board.p2,
                 \A n \in Chips : SameStore(b.chips[n], board.chips[n])
          PROVE  UNCHANGED Abstract!memoryVars
      <3>1. movx.at /= "load" /\ movx'.at /= "load" /\ acc' = acc /\ board' = b
        BY <2>1, <2>2 DEF Pin, Movx
      <3> QED BY <2>2, <3>1, Stutters DEF Seen
    <2>3. CASE Pin("address", "latch", WriteBus(board, movx.pos))
      <3> DEFINE b == WriteBus(board, movx.pos)
      <3>1. b.p2 = board.p2 /\ b.chips = board.chips
        BY <1>1, <2>1, BusCall
      <3>2. \A n \in Chips : SameStore(b.chips[n], board.chips[n])
        BY <3>1 DEF SameStore, SamePorts
      <3> HIDE DEF b
      <3>3. Pin("address", "latch", b)
        BY <2>3 DEF b
      <3> QED BY <2>2, <3>1, <3>2, <3>3
    <2>4. CASE Pin("latch", "low", PinALE(board, FALSE))
      <3> DEFINE b == PinALE(board, FALSE)
      <3>1. /\ b.p2 = board.p2
            /\ \A n \in Chips : b.chips[n] = ALEWritten(board.chips[n], FALSE, board.bus)
        BY <1>1, AleCall
      <3> HIDE DEF b
      <3>2. \A n \in Chips : SameStore(b.chips[n], board.chips[n])
        <4> TAKE n \in Chips
        <4> QED BY <1>1, <3>1 DEF ALEWritten, Chip, SameStore, SamePorts
      <3>3. Pin("latch", "low", b)
        BY <2>4 DEF b
      <3> QED BY <2>2, <3>1, <3>2, <3>3
    <2>5. CASE movx.at = "low" /\ Reading /\ Pin("low", "high", PinRD(board, FALSE))
      <3> DEFINE b == PinRD(board, FALSE)
      <3>1. /\ b.p2 = board.p2
            /\ \A n \in Chips : b.chips[n] = RDWritten(board.chips[n], FALSE)
        BY <1>1, RdCall
      <3> HIDE DEF b
      <3>2. \A n \in Chips : SameStore(b.chips[n], board.chips[n])
        <4> TAKE n \in Chips
        <4> QED BY <1>1, <3>1 DEF RDWritten, Chip, SameStore, SamePorts
      <3>3. Pin("low", "high", b)
        BY <2>5 DEF b
      <3> QED BY <2>2, <3>1, <3>2, <3>3
    <2>6. CASE movx.at = "low" /\ ~Reading /\ Pin("low", "data", PinWR(board, FALSE))
      <3> DEFINE b == PinWR(board, FALSE)
      <3>1. /\ b.p2 = board.p2
            /\ \A n \in Chips : b.chips[n] = WRWritten(board.chips[n], FALSE, board.bus)
        BY <1>1, WrCall
      <3> HIDE DEF b
      <3>2. \A n \in Chips : SameStore(b.chips[n], board.chips[n])
        <4> TAKE n \in Chips
        <4> QED BY <1>1, <3>1 DEF WRWritten, Chip, SameStore, SamePorts
      <3>3. Pin("low", "data", b)
        BY <2>6 DEF b
      <3> QED BY <2>2, <3>1, <3>2, <3>3
    <2>7. CASE Pin("data", "high", WriteBus(board, acc))
      <3> DEFINE b == WriteBus(board, acc)
      <3>1. b.p2 = board.p2 /\ b.chips = board.chips
        BY <1>1, BusCall
      <3>2. \A n \in Chips : SameStore(b.chips[n], board.chips[n])
        BY <3>1 DEF SameStore, SamePorts
      <3> HIDE DEF b
      <3>3. Pin("data", "high", b)
        BY <2>7 DEF b
      <3> QED BY <2>2, <3>1, <3>2, <3>3
    <2>8. CASE movx.at = "high" /\ Reading /\ Pin("high", "load", PinRD(board, TRUE))
      <3>1. Abstract!Read(movx.pos)
        BY <2>8, ReadIsRead
      <3> QED BY <2>1, <3>1
    <2>9. CASE movx.at = "high" /\ ~Reading /\ Pin("high", "none", PinWR(board, TRUE))
      <3>1. Abstract!Write(movx.pos)
        BY <2>9, WriteIsWrite
      <3>2. movx.pos \in Cell
        BY <2>1
      <3>3. \E addr \in Cell : Abstract!Write(addr)
        BY <3>1, <3>2, Zenon DEF Abstract!Write
      <3> QED BY <3>3, Zenon
    <2> DEFINE Silent == UNCHANGED Abstract!memoryVars
               Access == \E addr \in Cell : Abstract!Read(addr) \/ Abstract!Write(addr)
    <2>10. \/ Pin("address", "latch", WriteBus(board, movx.pos))
           \/ Pin("latch", "low", PinALE(board, FALSE))
           \/ movx.at = "low" /\ Reading /\ Pin("low", "high", PinRD(board, FALSE))
           \/ movx.at = "low" /\ ~Reading /\ Pin("low", "data", PinWR(board, FALSE))
           \/ Pin("data", "high", WriteBus(board, acc))
           \/ movx.at = "high" /\ Reading /\ Pin("high", "load", PinRD(board, TRUE))
           \/ movx.at = "high" /\ ~Reading /\ Pin("high", "none", PinWR(board, TRUE))
      BY <1>4, Zenon DEF MovxStep
    <2>11. Silent \/ Access
      BY <2>3, <2>4, <2>5, <2>6, <2>7, <2>8, <2>9, <2>10, Zenon
    <2> QED BY <2>11 DEF Silent, Access
  <1> QED BY <1>2, <1>3, <1>4

\* The other instructions change the accumulator only, as far as the program sees.
LEMMA OthersCompute ==
    ASSUME BoardInv, BusOut \/ BusIn \/ MovdIn \/ MovdOut \/ Compute
    PROVE  Abstract!Compute
  <1>1. board \in Board /\ board.bus \in Byte /\ acc \in Byte
    BY DEF BoardInv, BoardTypeOK, Board
  <1>2. ASSUME NEW b, NEW a \in Byte, Instruction(b, a), b.chips = board.chips,
               b.p2 \cap (4..7) = board.p2 \cap (4..7)
        PROVE  Abstract!Compute
    <2>1. \A n \in Chips : SameStore(board'.chips[n], board.chips[n])
      BY <1>2 DEF Instruction, SameStore, SamePorts
    <2>2. Seen' \in Byte
      BY <1>2 DEF Instruction, Seen, Between
    <2>3. board' = b
      BY <1>2 DEF Instruction
    <2> QED BY <1>2, <2>1, <2>2, <2>3, Stutters
  <1>3. ASSUME NEW v \in Byte, Instruction(WriteBus(board, v), acc)
        PROVE  Abstract!Compute
    BY <1>1, <1>2, <1>3, BusCall
  <1>4. ASSUME NEW a \in Byte, Instruction(board, a)
        PROVE  Abstract!Compute
    BY <1>2, <1>4
  <1>5. ASSUME NEW v \in SUBSET (0..3), NEW a \in Byte, Instruction(NibbleP2(board, v), a)
        PROVE  Abstract!Compute
    BY <1>1, <1>2, <1>5, NibbleWrite
  <1>6. \A d \in Data : d \in Byte /\ board.bus \cup d \in Byte /\ board.bus \cap d \in Byte
    BY <1>1, BoardOK DEF Byte
  <1>7. \A k \in Keys : k \in SUBSET (0..3) /\ k \in Byte
    <2>1. \A k \in Keys : k \in SUBSET (0..3)
      BY BoardOK
    <2>2. (0..3) \subseteq (0..7)
      OBVIOUS
    <2> QED BY <2>1, <2>2 DEF Byte
  <1>8. acc \cap (0..3) \in SUBSET (0..3)
    OBVIOUS
  <1>9. CASE BusOut
    BY <1>1, <1>3, <1>6, <1>9 DEF BusOut
  <1>10. CASE BusIn
    BY <1>1, <1>4, <1>10 DEF BusIn
  <1>11. CASE Compute
    BY <1>4, <1>6, <1>11 DEF Compute
  <1>12. CASE MovdIn
    BY <1>5, <1>7, <1>12 DEF MovdIn
  <1>13. CASE MovdOut
    BY <1>1, <1>5, <1>8, <1>13 DEF MovdOut
  <1> QED BY <1>9, <1>10, <1>11, <1>12, <1>13

\* Every step of the board is a step of the memory or none.
LEMMA NextIsNext == BoardInv /\ [Next]_boardVars => [Abstract!Next]_Abstract!memoryVars
  <1> SUFFICES ASSUME BoardInv, [Next]_boardVars
               PROVE  [Abstract!Next]_Abstract!memoryVars
    OBVIOUS
  <1>1. CASE UNCHANGED boardVars
    <2>1. \A n \in Chips : SameStore(board'.chips[n], board.chips[n])
      BY <1>1 DEF boardVars, SameStore, SamePorts
    <2> QED BY <1>1, <2>1, Stutters DEF boardVars, Seen
  <1>2. CASE \/ \E kind \in {"read", "write"}, pos \in Pos : MovxBegin(kind, pos)
             \/ MovxStep \/ MovxLoad
    BY <1>2, PinsAreSilent DEF Abstract!Next
  <1>3. CASE BusOut \/ BusIn \/ MovdIn \/ MovdOut \/ Compute
    BY <1>3, OthersCompute DEF Abstract!Next
  <1>4. CASE P2Out
    BY <1>4, P2IsSelect DEF Abstract!Next
  <1>5. CASE Poke
    BY <1>5, PokeIsPoke DEF Abstract!Next
  <1>6. CASE Reset
    BY <1>6, ResetIsInit DEF Abstract!Next
  <1> QED BY <1>1, <1>2, <1>3, <1>4, <1>5, <1>6 DEF Next

\* ALE, RD, WR, the shared bus and the select bits of P2 together are a memory of two
\* chips: a MOVX is one read or one write of what the program selected, whatever the other
\* thread does between its pins (main.cpp:63-78, intel8155.cpp:114-218).
THEOREM BoardIsMemory == Spec => ImplementsMemory
  <1> USE DEF ImplementsMemory, Abstract!Spec
  <1> QED BY InitBoardInv, NextBoardInv, InitIsInit, NextIsNext, PTL DEF Spec
=============================================================================
