---------------------------- MODULE Disassembly ----------------------------
(***************************************************************************)
(* The disassembly of the CPU window beside the CPU it is about: the       *)
(* constructor of DisassemblyContent sweeps the ROM once (module           *)
(* Disassembler), the executor thread fetches byte by byte what pc points  *)
(* at (module Decoder), and the UI thread moves the highlighted line to    *)
(* pc, which it reads whenever a signal is handled.                        *)
(***************************************************************************)
EXTENDS Disassembler, ProgramFlow, Sequences

CONSTANTS Roms,      \* the contents of the ROM
          Vectors,   \* where interrupts lead: 3 and 7
          Code       \* for each ROM, the addresses at which it has instructions

ASSUME DisassemblyOK ==
    /\ Page \in Nat \ {0} /\ Size \in Nat \ {0} /\ Size <= 8 * Page
    /\ Roms \subseteq [0..Size - 1 -> 0..255] /\ Beyond \in 0..255
    /\ Vectors \subseteq Nat /\ Tables \subseteq Nat

\* Every byte has one text and one case.
OneRow(op, rows) == \E row \in rows : \A other \in rows : op \in other[1] <=> other = row
ASSUME TablesOK == \A op \in 0..255 : OneRow(op, Rows) /\ OneRow(op, Cases)

\* Code is any set that begins with the reset and the interrupts and is closed under Leads.
\* Every ROM has one: that of all addresses; the smaller it is, the more InStep says.
ASSUME CodeOK ==
    /\ Code \in [Roms -> SUBSET Nat]
    /\ \A r \in Roms :
         /\ {0} \cup Vectors \subseteq Code[r]
         /\ \A addr \in Code[r] : addr < Size => Leads(r, addr) \subseteq Code[r]

VARIABLES
    rom,
    pos,          \* the sweep: where the next line starts
    lines,        \* lines_ and addressToLine_: the line at each address that has one
    highlighted,  \* the address of the highlighted line, or -1
    pc, dbf,
    frame,        \* the return address pushed last, 0 before the first
    cpu,          \* how far the executor thread is with an instruction
    from, data,   \* where it starts, and its second byte
    isRunning_,
    signals,      \* what the CPU window has not handled yet
    saved         \* pc and dbf in the saved state

cpuVars == <<pc, dbf, frame, cpu, from, data>>
viewVars == <<pos, lines, highlighted>>
vars == <<rom, viewVars, cpuVars, isRunning_, signals, saved>>

TypeOK ==
    /\ rom \in [0..Size - 1 -> 0..255] /\ pos \in 0..Size + 1
    /\ DOMAIN lines \subseteq 0..Size - 1 /\ highlighted \in -1..Size - 1
    /\ pc \in Nat /\ dbf \in {0, 1} /\ frame \in Nat
    /\ cpu \in {"rest", "operand", "execute", "aborted"}
    /\ from \in 0..Size - 1 /\ data \in 0..255 /\ isRunning_ \in BOOLEAN
    /\ signals \subseteq {"instructionExecuted", "executionStopped"}

Init ==
    /\ rom \in Roms
    /\ pos = 0 /\ lines = <<>> /\ highlighted = -1
    /\ pc = 0 /\ dbf = 0 /\ frame = 0 /\ cpu = "rest" /\ from = 0 /\ data = 0
    /\ isRunning_ = FALSE /\ signals = {} /\ saved = <<0, 0>>

ByteAt(addr) == Byte(rom, addr)

-----------------------------------------------------------------------------
(* The constructor.                                                        *)

Extended(f, addr, val) == [x \in DOMAIN f \cup {addr} |-> IF x = addr THEN val ELSE f[x]]

\* Faulty variant: the second byte of DJNZ is forgotten.
AdvanceShort(at, op) == at + (IF Text[op][3] = "DJNZ" THEN 1 ELSE Text[op][2])
Advance(at, op) == at + Text[op][2]

Disassemble ==
    /\ pos < Size
    /\ lines' = Extended(lines, pos, Line(pos, rom[pos], ByteAt(pos + 1)))
    /\ pos' = Advance(pos, rom[pos])
    /\ UNCHANGED <<rom, highlighted, cpuVars, isRunning_, signals, saved>>

Ready == ~(pos < Size)

-----------------------------------------------------------------------------
(* The executor thread.                                                    *)

\* fetch(): out of range is the end of the process.
Abort ==
    /\ cpu' = "aborted"
    /\ UNCHANGED <<rom, viewVars, pc, dbf, frame, from, data, isRunning_, signals, saved>>

\* executionStopped stands for breakpointHit and resetExecuted too: what their slots do to
\* the disassembly is the same.
Stopped == signals \cup {"executionStopped"}

\* executeSingleInstr() up to its switch; a single step stops the execution first.
Begin ==
    /\ Ready /\ cpu = "rest"
    /\ IF pc >= Size THEN Abort
       ELSE /\ from' = pc /\ pc' = pc + 1 /\ data' = 0
            /\ cpu' = IF Bytes(rom[pc]) = 2 THEN "operand" ELSE "execute"
            /\ isRunning_' \in {isRunning_, FALSE}
            /\ signals' = IF isRunning_' = isRunning_ THEN signals ELSE Stopped
            /\ UNCHANGED <<rom, viewVars, dbf, frame, saved>>

\* Faulty variant: the second byte is read and not fetched.
FetchNothing ==
    /\ cpu = "operand"
    /\ IF pc >= Size THEN Abort
       ELSE /\ data' = rom[pc] /\ pc' = pc /\ cpu' = "execute"
            /\ UNCHANGED <<rom, viewVars, dbf, frame, from, isRunning_, signals, saved>>
FetchOperand ==
    /\ cpu = "operand"
    /\ IF pc >= Size THEN Abort
       ELSE /\ data' = rom[pc] /\ pc' = pc + 1 /\ cpu' = "execute"
            /\ UNCHANGED <<rom, viewVars, dbf, frame, from, isRunning_, signals, saved>>

\* The rest of executeSingleInstr(), an interrupt at its end, and the stop conditions
\* that doExecuteInstr() looks at.  RET goes back to the frame pushed last; deeper frames
\* are in module Intel8049, and a program that writes to its stack is left out.
Execute ==
    /\ cpu = "execute" /\ cpu' = "rest"
    /\ LET op == rom[from]
           called == IF Effect(op) = "call" THEN pc ELSE frame
       IN  \E next \in IF Effect(op) \in Returns THEN {frame}
                                                ELSE Goes(rom, op, pc, dbf, data) :
             \/ pc' = next /\ frame' = called
             \/ pc' \in Vectors /\ frame' = next
    /\ dbf' = IF rom[from] = \he5 THEN 0 ELSE IF rom[from] = \hf5 THEN 1 ELSE dbf
    /\ from' = 0 /\ data' = 0     \* locals
    /\ \/ isRunning_' = isRunning_ /\ signals' = signals \cup {"instructionExecuted"}
       \/ isRunning_' = FALSE /\ signals' = Stopped \cup {"instructionExecuted"}
    /\ UNCHANGED <<rom, viewVars, saved>>

Start ==
    /\ Ready /\ cpu = "rest" /\ ~isRunning_
    /\ isRunning_' = TRUE
    /\ UNCHANGED <<rom, viewVars, cpuVars, signals, saved>>

Stop ==
    /\ cpu = "rest" /\ isRunning_
    /\ isRunning_' = FALSE /\ signals' = Stopped
    /\ UNCHANGED <<rom, viewVars, cpuVars, saved>>

Reset ==
    /\ Ready /\ cpu = "rest"
    /\ pc' = 0 /\ dbf' = 0 /\ isRunning_' = FALSE
    /\ signals' = Stopped
    /\ UNCHANGED <<rom, viewVars, frame, cpu, from, data, saved>>

SaveState ==
    /\ Ready /\ cpu = "rest"
    /\ saved' = <<pc, dbf>>
    /\ UNCHANGED <<rom, viewVars, cpuVars, isRunning_, signals>>

\* The CPU announces nothing; the 8155s pretend a reset.  Faulty variant: they do not.
LoadSilently ==
    /\ Ready /\ cpu = "rest"
    /\ pc' = saved[1] /\ dbf' = saved[2]
    /\ UNCHANGED <<rom, viewVars, frame, cpu, from, data, isRunning_, signals, saved>>
LoadState ==
    /\ Ready /\ cpu = "rest"
    /\ pc' = saved[1] /\ dbf' = saved[2]
    /\ signals' = Stopped
    /\ UNCHANGED <<rom, viewVars, frame, cpu, from, data, isRunning_, saved>>

-----------------------------------------------------------------------------
(* The UI thread.                                                          *)

\* goTo() goes back to an address with a line.
LineAt(addr) == CHOOSE l \in DOMAIN lines :
                    l <= addr /\ \A other \in DOMAIN lines : other <= addr => other <= l

\* The slots of CpuWindow.  A signal that is queued more than once is handled as often, each
\* time before or after the others.
Handle ==
    \E signal \in signals :
        /\ cpu /= "aborted"
        /\ highlighted' = IF signal = "instructionExecuted" /\ isRunning_
                             THEN highlighted ELSE LineAt(pc)
        /\ signals' = signals \ {signal}
        /\ UNCHANGED <<rom, pos, lines, cpuVars, isRunning_, saved>>

Dead == cpu = "aborted" /\ UNCHANGED vars

Next == Disassemble \/ Begin \/ FetchOperand \/ Execute \/ Start \/ Stop \/ Reset
        \/ SaveState \/ LoadState \/ Handle \/ Dead
Spec == Init /\ [][Next]_vars

-----------------------------------------------------------------------------
(* Properties.                                                             *)

\* What the instructions of an 8049 do, by their names.
Reading ==
    [NOP |-> "nothing", MOV |-> "move", INS |-> "move", OUTL |-> "move",
     MOVD |-> "moveNibble", ORLD |-> "orNibble", ANLD |-> "andNibble",
     MOVX |-> "moveExternal", MOVP |-> "moveFromPage", MOVP3 |-> "moveFromPage3",
     XCH |-> "exchange", XCHD |-> "exchangeLowHalf", SWAP |-> "swapHalves",
     ADD |-> "add", ADDC |-> "addWithCarry", DA |-> "decimal",
     ORL |-> "or", ANL |-> "and", XRL |-> "xor", INC |-> "increment", DEC |-> "decrement",
     CLR |-> "clear", CPL |-> "complement", RL |-> "rotateLeft", RR |-> "rotateRight",
     RLC |-> "rotateLeftWithCarry", RRC |-> "rotateRightWithCarry",
     EN |-> "enable", DIS |-> "disable", STRT |-> "start", STOP |-> "stop", SEL |-> "select",
     ENT0 |-> "putTheClockOnT0",
     JMP |-> "jump", CALL |-> "call", JMPP |-> "jumpByTable", RET |-> "return",
     RETR |-> "returnAndRestore", DJNZ |-> "decrementUnlessZero",
     JB |-> "ifBit", JTF |-> "ifOverflow", JF0 |-> "ifF0", JF1 |-> "ifF1",
     JT0 |-> "ifT0", JNT0 |-> "unlessT0", JT1 |-> "ifT1", JNT1 |-> "unlessT1",
     JNI |-> "unlessNotInt", JZ |-> "ifZero", JNZ |-> "unlessZero", JC |-> "ifCarry",
     JNC |-> "unlessCarry"]
Reads(opcode) == CASE opcode = ".DB" -> "nothing"
                   [] opcode = "IN"  -> "move"
                   [] OTHER          -> Reading[opcode]

\* The words of the text, in terms of the places the CPU works on.
Word == [A |-> "a", T |-> "t", C |-> "carry", I |-> "external", TCNTI |-> "tcnt",
         CNT |-> "counter", TCNT |-> "both", PSW |-> "psw",
         F0 |-> "f0", F1 |-> "f1", RB0 |-> "bank0", RB1 |-> "bank1",
         MB0 |-> "memory0", MB1 |-> "memory1"]
Meaning(arg) == IF Len(arg) = 2 THEN arg
                ELSE IF arg[1] = "@A" THEN <<"rom">> ELSE <<Word[arg[1]]>>

\* Where the CPU does something else than the text says: STRT CNT does not count, DA A loses
\* a carry, ENT0 CLK does nothing, JNI jumps without an interrupt.
Misread == {\h45, \h57, \h75, \h86}

\* Where it does so with something else: IN A,P2 and OUTL P2,A work on the bus; a
\* conditional jump across the end of a page goes to the page of its second byte; the
\* memory bank is not in the text of JMP and CALL; ENT0 CLK works on nothing.
Differs(op) ==
    \/ op \in {\h0a, \h3a, \h75}
    \/ Effect(op) \in Conditional /\ (from + 1) % Page = 0
    \/ Effect(op) \in {"jump", "call"} /\ dbf = 1

\* The line at which the CPU executes tells how many bytes it takes, what it does, and with
\* which registers, constants and address, for all 256 opcodes but those: two switches,
\* written independently, agree (disassembler.cpp:62-551, intel8049.cpp:62-863).
ShownIsExecuted ==
    cpu = "execute" /\ from \in DOMAIN lines =>
        LET line == lines[from]  op == rom[from]
        IN  /\ pc = from + line.bytes
            /\ op \in Misread \/ Effect(op) = Reads(line.opcode)
            /\ \/ Differs(op)
               \/ Places(op, pc, dbf, data) = [i \in DOMAIN line.args |-> Meaning(line.args[i])]

\* The sweep finds every instruction that the program can come to, by jumps, tables, returns
\* and interrupts: data between the instructions does not put it out of step
\* (i8049disassemblywidget.cpp:91-97, disassembler.cpp:51-60).
Aligned(addr) == addr \in DOMAIN lines \/ addr >= Size
Swept == \A addr \in Code[rom] : Aligned(addr)
SweepFindsCode == Ready => Swept

\* With such a ROM, instructions start where lines start, whatever path is taken, so that a
\* breakpoint can be set on each of them: pc does not leave the code, through operands that
\* are fetched one by one, interrupts, returns, resets and loads
\* (intel8049.cpp:887-893, i8049disassemblywidget.cpp:149-156).
InStep == Ready /\ cpu = "rest" => Aligned(pc) \/ ~Swept

\* When the machine is stopped and every signal is handled, the highlighted line is that of
\* pc, after a stop, a step, a breakpoint, a reset or a load in any order, although pc is
\* read while the executor thread may be in the middle of the next instruction
\* (cpuwindow.cpp:80-139, i8049disassemblywidget.cpp:240-249).
HighlightFollows ==
    Ready /\ cpu = "rest" /\ ~isRunning_ /\ signals = {} /\ highlighted >= 0 =>
        highlighted = LineAt(pc)
=============================================================================
