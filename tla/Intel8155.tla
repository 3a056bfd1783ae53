----------------------------- MODULE Intel8155 -----------------------------
(***************************************************************************)
(* Intel8155 (src/emulation/intel8155.{h,cpp}): RAM and three ports on the *)
(* shared bus.  The class keeps the last value of each pin and acts on     *)
(* edges; every operator below is one of its slots, as a function of the   *)
(* chip.  A byte is the set of its bits that are 1.                        *)
(***************************************************************************)
EXTENDS Integers

CONSTANTS Cell    \* the RAM addresses of an instance, out of all bytes

Byte == SUBSET (0..7)

ASSUME CellOK == Cell \subseteq Byte

PortCMode == {"ALT1", "ALT2", "ALT3", "ALT4"}

Chip == [latch : Byte, ce : BOOLEAN, io : BOOLEAN,              \* ce is low active
         ale : BOOLEAN, rd : BOOLEAN, wr : BOOLEAN,
         pa : Byte, pb : Byte, pc : Byte,
         paOut : BOOLEAN, pbOut : BOOLEAN, pcMode : PortCMode,
         paInterrupt : BOOLEAN, pbInterrupt : BOOLEAN,
         ram : [Cell -> Byte]]

\* A chip as the constructor leaves it: every member has a value but the latch.
NewChip(latch) ==
    [latch |-> latch, ce |-> FALSE, io |-> FALSE,
     ale |-> FALSE, rd |-> FALSE, wr |-> FALSE,
     pa |-> {}, pb |-> {}, pc |-> {},
     paOut |-> FALSE, pbOut |-> FALSE, pcMode |-> "ALT1",
     paInterrupt |-> FALSE, pbInterrupt |-> FALSE,
     ram |-> [c \in Cell |-> {}]]

\* reset() leaves the latch and the pins alone.  Faulty variant: it clears the pins.
resetPins(chip) == NewChip(chip.latch)
reset(chip) ==
    [NewChip(chip.latch) EXCEPT !.ce = chip.ce, !.io = chip.io, !.ale = chip.ale,
                                !.rd = chip.rd, !.wr = chip.wr]

\* onPinALEWritten(): the falling edge latches the bus.  Faulty variant: the rising one.
ALELatchesEarly(chip, cur, bus) ==
    [chip EXCEPT !.ale = cur, !.latch = IF ~chip.ale /\ cur THEN bus ELSE @]
ALEWritten(chip, cur, bus) ==
    [chip EXCEPT !.ale = cur, !.latch = IF chip.ale /\ ~cur THEN bus ELSE @]

\* In I/O mode two bits of the latch select a register: 0 the command register,
\* then the ports A, B and C.
Register(chip) ==
    IF 1 \in chip.latch THEN IF 0 \in chip.latch THEN "pc" ELSE "pb"
                        ELSE IF 0 \in chip.latch THEN "pa" ELSE "command"

\* onPinRDLowActiveWritten(): the rising edge of a selected chip drives the bus.
Drives(chip, cur) == ~chip.rd /\ cur /\ ~chip.ce
Driven(chip) ==
    IF ~chip.io THEN chip.ram[chip.latch]
    ELSE IF Register(chip) = "command" THEN {} ELSE chip[Register(chip)]
RDWritten(chip, cur) == [chip EXCEPT !.rd = cur]

\* The command register; bits 2 and 3 choose the mode of port C.
Configure(chip, data) ==
    [chip EXCEPT !.paOut = 0 \in data, !.pbOut = 1 \in data,
                 !.pcMode = IF 2 \in data THEN IF 3 \in data THEN "ALT2" ELSE "ALT3"
                                          ELSE IF 3 \in data THEN "ALT4" ELSE "ALT1",
                 !.paInterrupt = 4 \in data, !.pbInterrupt = 5 \in data]

\* onPinWRLowActiveWritten(): the rising edge of a selected chip takes the bus.
Store(chip, data) ==
    IF ~chip.io THEN [chip EXCEPT !.ram[chip.latch] = data]
    ELSE IF Register(chip) = "command" THEN Configure(chip, data)
    ELSE [chip EXCEPT ![Register(chip)] = data]
\* Faulty variant: the falling edge.
WRStoresEarly(chip, cur, bus) ==
    IF chip.wr /\ ~cur /\ ~chip.ce
      THEN [Store(chip, bus) EXCEPT !.wr = cur]
      ELSE [chip EXCEPT !.wr = cur]
WRWritten(chip, cur, bus) ==
    IF ~chip.wr /\ cur /\ ~chip.ce
      THEN [Store(chip, bus) EXCEPT !.wr = cur]
      ELSE [chip EXCEPT !.wr = cur]

\* onPinResetWritten(), onPinCELowActiveWritten(), onPinIOWritten()
ResetWritten(chip, cur) == IF cur THEN reset(chip) ELSE chip
CEWritten(chip, cur) == [chip EXCEPT !.ce = cur]
IOWritten(chip, cur) == [chip EXCEPT !.io = cur]

\* saveToState() and initFromState() copy every member.  Faulty variant: not the pins.
saveToState(chip) == chip
initWithoutPins(state) == [state EXCEPT !.ce = FALSE, !.io = FALSE]
initFromState(state) == state
=============================================================================
