------------------------------- MODULE Wiring -------------------------------
(***************************************************************************)
(* The board main() wires up: the 8049's BUS and P2 latches (DataPort) and *)
(* the two 8155s that listen to them.  Signals are direct connections, so  *)
(* a write to a port runs every slot before it returns: each operator maps *)
(* the board before the call to the board after it.                        *)
(***************************************************************************)
EXTENDS Intel8155

Chips == {"pid", "pidExtension"}

Board == [bus : Byte, p2 : Byte, chips : [Chips -> Chip]]

\* P2 bit 4 selects the chip of the main unit, bit 5 the one of the extension; bit 6
\* resets both and bit 7 switches both to I/O.
CEBit == [pid |-> 4, pidExtension |-> 5]

\* The slots connected to P2, called for the bits of the mask in ascending order.
P2Bits(chip, name, p2, mask) ==
    LET c1 == IF CEBit[name] \in mask THEN CEWritten(chip, CEBit[name] \in p2) ELSE chip
        c2 == IF 6 \in mask THEN ResetWritten(c1, 6 \in p2) ELSE c1
    IN  IF 7 \in mask THEN IOWritten(c2, 7 \in p2) ELSE c2

\* DataPort::write() on P2 and on BUS (nothing listens to the bits of BUS).
WriteP2(b, value, mask) ==
    LET new == (b.p2 \ mask) \cup value
    IN  [b EXCEPT !.p2 = new,
                  !.chips = [n \in Chips |-> P2Bits(b.chips[n], n, new, mask)]]
WriteBus(b, value) == [b EXCEPT !.bus = value]

\* ORL P2,#data and ANL P2,#data read the latch and write all of it back.
OrP2(b, data) == WriteP2(b, b.p2 \cup data, 0..7)
AndP2(b, data) == WriteP2(b, b.p2 \cap data, 0..7)

\* The low nibble only: MOVD and the keyboard that answers it.
NibbleP2(b, nibble) == WriteP2(b, nibble, 0..3)

\* The pins both chips share.
PinALE(b, cur) == [b EXCEPT !.chips = [n \in Chips |-> ALEWritten(b.chips[n], cur, b.bus)]]
PinWR(b, cur)  == [b EXCEPT !.chips = [n \in Chips |-> WRWritten(b.chips[n], cur, b.bus)]]

\* pinRDLowActiveWritten reaches the main unit first, so that the extension has the
\* last word on the bus when both are selected.
PinRD(b, cur) ==
    [b EXCEPT !.chips = [n \in Chips |-> RDWritten(b.chips[n], cur)],
              !.bus = IF Drives(b.chips["pidExtension"], cur)
                        THEN Driven(b.chips["pidExtension"])
                      ELSE IF Drives(b.chips["pid"], cur) THEN Driven(b.chips["pid"])
                      ELSE b.bus]

\* The port and bus effects of Intel8049::reset(), and of ExecutorThread::doReset(),
\* which then resets both chips once more.
ResetCpu(b) == WriteP2(WriteBus(b, {}), 0..7, 0..7)
ResetAll(b) == [ResetCpu(b) EXCEPT !.chips = [n \in Chips |-> reset(ResetCpu(b).chips[n])]]

\* MOVX A,@Rr and MOVX @Rr,A, pin by pin; Board takes the same steps one at a time.
MovxRead(b, pos) ==
    PinRD(PinRD(PinALE(WriteBus(PinALE(b, TRUE), pos), FALSE), FALSE), TRUE)
MovxWrite(b, pos, data) ==
    PinWR(WriteBus(PinWR(PinALE(WriteBus(PinALE(b, TRUE), pos), FALSE), FALSE), data), TRUE)

\* main(): new chips, new ports, and the reset at the end.
PowerOn(latches) ==
    ResetCpu([bus |-> {}, p2 |-> {}, chips |-> [n \in Chips |-> NewChip(latches[n])]])
=============================================================================
