----------------------------- MODULE StateFile -----------------------------
(***************************************************************************)
(* The file of a saved state (emulation/emulatorstate.cpp, and the header  *)
(* of ui/basewindow.cpp): fields without names, one after the other, which *)
(* are written by one list of operators and read by another.  A byte is    *)
(* the set of its bits that are 1.                                         *)
(***************************************************************************)
EXTENDS Intel8155, SequencesExt

ToByte(n) == {b \in 0..7 : (n \div 2^b) % 2 = 1}
Weight(b, byte) == IF b \in byte THEN 2^b ELSE 0
FromByte(byte) ==
      Weight(0, byte) + Weight(1, byte) + Weight(2, byte) + Weight(3, byte)
    + Weight(4, byte) + Weight(5, byte) + Weight(6, byte) + Weight(7, byte)

\* The state of the 8049, and a vector that write_u8v() does not refuse.
Vector == {v \in Seq(Byte) : Len(v) < 2^16}
CpuState == [tf : BOOLEAN, notInt : BOOLEAN, timerInterruptRequested : BOOLEAN,
             t0 : BOOLEAN, t1 : BOOLEAN,
             t : Byte, a : Byte, pc : 0..2^16 - 1, psw : Byte, dbf : Byte, f1 : Byte,
             externalInterruptsEnabled : BOOLEAN, tcntInterruptsEnabled : BOOLEAN,
             counterRunning : BOOLEAN, timerRunning : BOOLEAN,
             cyclesUntilCount : Byte, inInterrupt : BOOLEAN,
             rom : Vector, ram : Vector]

\* The content_ of a Ram, and back.
Cells == SetToSeq(Cell)
content(ram) == [i \in DOMAIN Cells |-> ram[Cells[i]]]
copyFrom(bytes) == [c \in Cell |-> bytes[CHOOSE i \in DOMAIN Cells : Cells[i] = c]]

-----------------------------------------------------------------------------
(* Writing.                                                                *)

write_u16(n) == <<ToByte(n % 256), ToByte((n \div 256) % 256)>>
write_u8v(v) == write_u16(Len(v)) \o v
Flag(x) == IF x THEN {0} ELSE {}
Modes == <<"ALT1", "ALT2", "ALT3", "ALT4">>
ModeByte(mode) == ToByte((CHOOSE i \in DOMAIN Modes : Modes[i] = mode) - 1)

\* operator<< for the state of the 8049.
WriteCpu(s) ==
    <<Flag(s.tf), Flag(s.notInt), Flag(s.timerInterruptRequested), Flag(s.t0), Flag(s.t1),
      s.t, s.a>> \o write_u16(s.pc)
    \o <<s.psw, s.dbf, s.f1,
         Flag(s.externalInterruptsEnabled), Flag(s.tcntInterruptsEnabled),
         Flag(s.counterRunning), Flag(s.timerRunning), s.cyclesUntilCount,
         Flag(s.inInterrupt)>>
    \o write_u8v(s.rom) \o write_u8v(s.ram)

\* operator<< for the state of an 8155.
WriteChip(s) ==
    <<s.latch, Flag(s.io), Flag(s.ce), Flag(s.ale), Flag(s.rd), Flag(s.wr),
      s.pa, s.pb, s.pc, Flag(s.paOut), Flag(s.pbOut), ModeByte(s.pcMode),
      Flag(s.paInterrupt), Flag(s.pbInterrupt)>>
    \o write_u8v(content(s.ram))

\* writeStateHeader(): "KCP1" and the version.
StateHeader == <<ToByte(75), ToByte(67), ToByte(80), ToByte(49)>> \o <<ToByte(1), ToByte(0)>>

WriteState(state) ==
    WriteCpu(state.cpu) \o WriteChip(state.pid) \o WriteChip(state.pidExtension)

-----------------------------------------------------------------------------
(* Reading: at is the last byte taken; behind the end get() returns -1 and *)
(* the stream fails, which nothing looks at before the end.                *)

Get(bytes, at) == IF at \in DOMAIN bytes THEN bytes[at] ELSE 0..7

\* A field is <<name, kind>>.
CpuFields ==
    <<<<"tf", "bool">>, <<"notInt", "bool">>, <<"timerInterruptRequested", "bool">>,
      <<"t0", "bool">>, <<"t1", "bool">>,
      <<"t", "u8">>, <<"a", "u8">>, <<"pc", "u16">>, <<"psw", "u8">>, <<"dbf", "u8">>,
      <<"f1", "u8">>,
      <<"externalInterruptsEnabled", "bool">>, <<"tcntInterruptsEnabled", "bool">>,
      <<"counterRunning", "bool">>, <<"timerRunning", "bool">>,
      <<"cyclesUntilCount", "u8">>, <<"inInterrupt", "bool">>,
      <<"rom", "u8v">>, <<"ram", "u8v">>>>

\* Faulty variant: CE before IO, as it is in initFromState() of an older chip.
ChipFieldsSwapped ==
    <<<<"latch", "u8">>, <<"ce", "bool">>, <<"io", "bool">>, <<"ale", "bool">>,
      <<"rd", "bool">>, <<"wr", "bool">>,
      <<"pa", "u8">>, <<"pb", "u8">>, <<"pc", "u8">>,
      <<"paOut", "bool">>, <<"pbOut", "bool">>, <<"pcMode", "mode">>,
      <<"paInterrupt", "bool">>, <<"pbInterrupt", "bool">>, <<"ram", "Ram">>>>
ChipFields ==
    <<<<"latch", "u8">>, <<"io", "bool">>, <<"ce", "bool">>, <<"ale", "bool">>,
      <<"rd", "bool">>, <<"wr", "bool">>,
      <<"pa", "u8">>, <<"pb", "u8">>, <<"pc", "u8">>,
      <<"paOut", "bool">>, <<"pbOut", "bool">>, <<"pcMode", "mode">>,
      <<"paInterrupt", "bool">>, <<"pbInterrupt", "bool">>, <<"ram", "Ram">>>>

read_u16(bytes, at) == 256 * FromByte(Get(bytes, at + 2)) + FromByte(Get(bytes, at + 1))
read_u8v(bytes, at) == [i \in 1..read_u16(bytes, at) |-> Get(bytes, at + 2 + i)]

Width(kind, bytes, at) ==
    CASE kind = "u16"            -> 2
      [] kind \in {"u8v", "Ram"} -> 2 + read_u16(bytes, at)
      [] OTHER                   -> 1

\* A mode outside of the enumeration is none of the four.
Value(kind, bytes, at) ==
    CASE kind = "bool" -> Get(bytes, at + 1) /= {}
      [] kind = "u8"   -> Get(bytes, at + 1)
      [] kind = "u16"  -> read_u16(bytes, at)
      [] kind = "u8v"  -> read_u8v(bytes, at)
      [] kind = "Ram"  -> copyFrom(read_u8v(bytes, at))
      [] kind = "mode" -> LET i == FromByte(Get(bytes, at + 1)) + 1
                          IN  IF i \in DOMAIN Modes THEN Modes[i] ELSE "none"

\* operator>>: each field from behind the one before it, the first from behind at.
Starts(fields, bytes, at) ==
    LET start[i \in 1..Len(fields) + 1] ==
            IF i = 1 THEN at
            ELSE LET before == start[i - 1]
                 IN  before + Width(fields[i - 1][2], bytes, before)
    IN  start
End(fields, bytes, at) == Starts(fields, bytes, at)[Len(fields) + 1]
ReadFields(fields, bytes, at) ==
    LET start == Starts(fields, bytes, at)
        place == [name \in {fields[i][1] : i \in DOMAIN fields} |->
                     CHOOSE i \in DOMAIN fields : fields[i][1] = name]
    IN  [name \in DOMAIN place |->
            Value(fields[place[name]][2], bytes, start[place[name]])]

\* The parts of the file: behind the header, the 8049 and the first 8155.
Parts(bytes) ==
    LET pid == End(CpuFields, bytes, Len(StateHeader))
        ext == End(ChipFields, bytes, pid)
    IN  <<Len(StateHeader), pid, ext, End(ChipFields, bytes, ext)>>
ReadState(bytes) ==
    LET parts == Parts(bytes)
    IN  [cpu |-> ReadFields(CpuFields, bytes, parts[1]),
         pid |-> ReadFields(ChipFields, bytes, parts[2]),
         pidExtension |-> ReadFields(ChipFields, bytes, parts[3])]

\* readStateHeader()
HeaderRead(bytes) == IsPrefix(StateHeader, bytes)

\* The check behind the last field.  Faulty variant: only the header is checked.
AcceptedByHeader(bytes) == HeaderRead(bytes)
Accepted(bytes) == HeaderRead(bytes) /\ Parts(bytes)[4] <= Len(bytes)
=============================================================================
