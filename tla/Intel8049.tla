----------------------------- MODULE Intel8049 -----------------------------
(***************************************************************************)
(* Intel8049 (src/emulation/intel8049.{h,cpp}): control flow, the stack,   *)
(* the timer and its interrupt.  executeSingleInstr() fetches, ticks once  *)
(* per cycle, does what the instruction does, and takes an interrupt.      *)
(*                                                                         *)
(* The program is arbitrary: any instruction may come next.  Accumulator,  *)
(* RAM and ports are abstract: a condition may hold or not, arithmetic may *)
(* leave any flags.  The widths are parameters, so that small ones can be  *)
(* checked: in the code a page has 256 bytes, a bank 8 pages, the stack 8  *)
(* frames, the timer counts to 256, once in 32 cycles.                     *)
(*                                                                         *)
(* Nothing drives the pins INT, T0 and T1, so there is no other interrupt  *)
(* and a counter that was started does not count.                          *)
(***************************************************************************)
EXTENDS Integers, Sequences

CONSTANTS PageSize, BankSize, RomSize, StackSize, Prescaler, TSize,
          TimerVector,   \* where the timer interrupt goes: 7
          Flags,         \* CY, AC, F0 and BS: the upper half of PSW
          NoFlags

ASSUME WidthsOK ==
    /\ {PageSize, BankSize, RomSize, Prescaler, TSize} \subseteq Nat \ {0}
    /\ StackSize \in Nat /\ StackSize > 1 /\ RomSize < 2 * BankSize
    /\ TimerVector \in Nat /\ NoFlags \in Flags

Frame == [pc : Nat, flags : Flags]

VARIABLES
    cpu,      \* the registers and flip-flops
    frames,   \* history: the calls and interrupts not returned from, oldest first
    clock,    \* history: the cycles the timer has run, from its last setting on
    wrapped   \* history: an overflow has come since tf_ was last read or cleared

cpuVars == <<cpu, frames, clock, wrapped>>

Cpu == [pc : Nat, dbf : {0, 1}, flags : Flags, bit3 : {0, 1},
        sp : 0..StackSize - 1,              \* the lower three bits of PSW
        stack : [0..StackSize - 1 -> Frame],      \* RAM 8 to 23, two bytes a frame
        t : 0..TSize - 1, counts : {"nothing", "cycles", "T1"},
        cyclesUntilCount : 0..Prescaler,
        tf : BOOLEAN, requested : BOOLEAN,        \* timerInterruptRequested_
        enabled : BOOLEAN,                        \* tcntInterruptsEnabled_
        inInterrupt : BOOLEAN]

\* reset() clears the RAM and leaves T alone.
resetCpu(t) ==
    [pc |-> 0, dbf |-> 0, flags |-> NoFlags, bit3 |-> 1, sp |-> 0,
     stack |-> [i \in 0..StackSize - 1 |-> [pc |-> 0, flags |-> NoFlags]],
     t |-> t, counts |-> "nothing", cyclesUntilCount |-> 0,
     tf |-> FALSE, requested |-> FALSE, enabled |-> FALSE, inInterrupt |-> FALSE]

Init == cpu = resetCpu(0) /\ frames = <<>> /\ clock = 0 /\ wrapped = FALSE

-----------------------------------------------------------------------------
(* The private methods, as functions of the CPU.                           *)

\* The stack pointer, three bits wide.  Faulty variants: it stops at the end, or goes on.
StopAtEnd(i) == IF i = StackSize - 1 THEN i ELSE i + 1
GoOn(i) == i + 1
Succ(i) == IF i = StackSize - 1 THEN 0 ELSE i + 1
Pred(i) == IF i = 0 THEN StackSize - 1 ELSE i - 1

push(c) == [c EXCEPT !.stack[c.sp] = [pc |-> c.pc, flags |-> c.flags], !.sp = Succ(c.sp)]

\* Faulty variant: the flags come back on every return.
popAll(c, restoreState) ==
    LET f == c.stack[Pred(c.sp)]
    IN  [c EXCEPT !.pc = f.pc, !.sp = Pred(c.sp), !.bit3 = 1, !.flags = f.flags,
                  !.inInterrupt = ~restoreState /\ @]
pop(c, restoreState) ==
    LET f == c.stack[Pred(c.sp)]
    IN  [c EXCEPT !.pc = f.pc, !.sp = Pred(c.sp), !.bit3 = 1,
                  !.flags = IF restoreState THEN f.flags ELSE @,
                  !.inInterrupt = ~restoreState /\ @]

\* Faulty variant: the flag follows the last count.
incForgets(c) ==
    [c EXCEPT !.tf = c.t = TSize - 1, !.requested = @ \/ c.t = TSize - 1,
              !.t = IF @ = TSize - 1 THEN 0 ELSE @ + 1]
incCounter(c) ==
    [c EXCEPT !.tf = @ \/ c.t = TSize - 1, !.requested = @ \/ c.t = TSize - 1,
              !.t = IF @ = TSize - 1 THEN 0 ELSE @ + 1]

tick(c) ==
    IF c.counts /= "cycles" THEN c
    ELSE IF c.cyclesUntilCount = 1
      THEN incCounter([c EXCEPT !.cyclesUntilCount = Prescaler])
      ELSE [c EXCEPT !.cyclesUntilCount = @ - 1]

\* One tick per cycle.  Faulty variant: one per instruction.
TickOnce(c, cycles) == tick(c)
Ticks(c, cycles) == IF cycles = 2 THEN tick(tick(c)) ELSE tick(c)

\* Faulty variants: interrupts inside an interrupt routine; or the flag as it was before
\* the instruction.
TakesNested(c) == c.requested /\ c.enabled
TakesStale(c) == ~cpu.inInterrupt /\ c.requested /\ c.enabled
Takes(c) == ~c.inInterrupt /\ c.requested /\ c.enabled

handleInterrupts(c) ==
    IF Takes(c)
      THEN [push(c) EXCEPT !.requested = FALSE, !.pc = TimerVector, !.inInterrupt = TRUE]
      ELSE c

-----------------------------------------------------------------------------
(* executeSingleInstr()                                                    *)

\* fetch() aborts the program beyond the ROM.
Fetched(bytes, cycles) == Ticks([cpu EXCEPT !.pc = @ + bytes], cycles)
InRom(bytes) == cpu.pc + bytes <= RomSize

Period == TSize * Prescaler
Running == cpu.counts = "cycles"
Elapsed(cycles) == IF Running THEN clock + cycles ELSE clock

\* An instruction leaves the CPU as c and the open calls as fs; then an interrupt may
\* be taken.  The timer's history follows the cycles the instruction reports.
Finish(c, fs) ==
    /\ cpu' = handleInterrupts(c)
    /\ frames' = IF Takes(c)
                   THEN Append(fs, [pc |-> c.pc, flags |-> c.flags, kind |-> "interrupt"])
                   ELSE fs
Counted(cycles) ==
    /\ clock' = Elapsed(cycles) % Period
    /\ wrapped' = (wrapped \/ Elapsed(cycles) >= Period)

Do(bytes, cycles, c) ==
    InRom(bytes) /\ Finish(c, frames) /\ Counted(cycles)

\* No control flow, no timer: arithmetic and moves, which set any flags.
Plain ==
    \E bytes \in 1..2, cycles \in 1..2, f \in Flags :
        /\ bytes <= cycles
        /\ Do(bytes, cycles, [Fetched(bytes, cycles) EXCEPT !.flags = f])

\* The addresses of the page that holds the last byte fetched.
PageOf(pc) == {a \in 0..2 * BankSize - 1 : a \div PageSize = pc \div PageSize}

Branch == \E to \in PageOf(cpu.pc + 1) \cup {cpu.pc + 2} :
              Do(2, 2, [Fetched(2, 2) EXCEPT !.pc = to])

\* JMPP reads its page from the PC, which is behind the instruction.
JMPP == \E to \in PageOf(cpu.pc + 1) : Do(1, 2, [Fetched(1, 2) EXCEPT !.pc = to])

Far == {a \in 0..2 * BankSize - 1 : a \div BankSize = cpu.dbf}

JMP == \E to \in Far : Do(2, 2, [Fetched(2, 2) EXCEPT !.pc = to])

SEL_MB == \E bank \in {0, 1} : Do(1, 1, [Fetched(1, 1) EXCEPT !.dbf = bank])

\* JTF looks at tf_ after both ticks.
JTF ==
    LET c == Fetched(2, 2) IN
    \E to \in PageOf(cpu.pc + 1) :
        /\ InRom(2)
        /\ Finish(IF c.tf THEN [c EXCEPT !.tf = FALSE, !.pc = to] ELSE c, frames)
        /\ clock' = Elapsed(2) % Period
        /\ wrapped' = FALSE

\* The program leaves room on the stack for an interrupt, and returns from calls with
\* RET and from interrupt routines with RETR.
Open == Len(frames) + (IF cpu.inInterrupt THEN 0 ELSE 1)
Top == frames[Len(frames)]
Outer == SubSeq(frames, 1, Len(frames) - 1)

CALL ==
    LET c == Fetched(2, 2) IN
    \E to \in Far :
        /\ InRom(2) /\ Open < StackSize
        /\ Finish([push(c) EXCEPT !.pc = to],
                  Append(frames, [pc |-> c.pc, flags |-> c.flags, kind |-> "call"]))
        /\ Counted(2)

RET ==
    /\ frames /= <<>> /\ Top.kind = "call"
    /\ InRom(1) /\ Finish(pop(Fetched(1, 2), FALSE), Outer) /\ Counted(2)

RETR ==
    /\ frames /= <<>> /\ Top.kind = "interrupt"
    /\ InRom(1) /\ Finish(pop(Fetched(1, 2), TRUE), Outer) /\ Counted(2)

\* MOV PSW,A by a program that keeps the stack pointer.
MOV_PSW_A ==
    \E f \in Flags, b \in {0, 1} : Do(1, 1, [Fetched(1, 1) EXCEPT !.flags = f, !.bit3 = b])

EN_TCNTI == Do(1, 1, [Fetched(1, 1) EXCEPT !.enabled = TRUE])
DIS_TCNTI == Do(1, 1, [Fetched(1, 1) EXCEPT !.enabled = FALSE, !.requested = FALSE])

\* The timer starts with a full count.
StartTimer(c) == [c EXCEPT !.counts = "cycles", !.cyclesUntilCount = Prescaler]
Overflows(cycles) == wrapped \/ Elapsed(cycles) >= Period

STRT_T ==
    LET c == StartTimer(Fetched(1, 1)) IN
    /\ InRom(1) /\ Finish(c, frames)
    /\ clock' = c.t * Prescaler /\ wrapped' = Overflows(1)

STRT_CNT == Do(1, 1, [Fetched(1, 1) EXCEPT !.counts = "T1"])
STOP_TCNT == Do(1, 1, [Fetched(1, 1) EXCEPT !.counts = "nothing"])

MOV_T_A ==
    \E v \in 0..TSize - 1 :
        /\ InRom(1) /\ Finish([Fetched(1, 1) EXCEPT !.t = v], frames)
        /\ clock' = v * Prescaler + (Elapsed(1) % Prescaler) /\ wrapped' = Overflows(1)

\* ExecutorThread::doReset() between two instructions.
Reset == /\ cpu' = resetCpu(cpu.t)
         /\ frames' = <<>> /\ clock' = 0 /\ wrapped' = FALSE

\* abort(): there is no program any more.
Aborted == ~InRom(1) /\ UNCHANGED cpuVars

Next == \/ Plain \/ Branch \/ JMPP \/ JMP \/ SEL_MB \/ JTF \/ CALL \/ RET \/ RETR
        \/ MOV_PSW_A \/ EN_TCNTI \/ DIS_TCNTI \/ STRT_T \/ STRT_CNT \/ STOP_TCNT
        \/ MOV_T_A \/ Reset \/ Aborted

Spec == Init /\ [][Next]_cpuVars

-----------------------------------------------------------------------------
(* Properties.                                                             *)

OpenFrame == [pc : Nat, flags : Flags, kind : {"call", "interrupt"}]

CpuTypeOK ==
    /\ cpu \in Cpu
    /\ frames \in Seq(OpenFrame)
    /\ clock \in 0..Period - 1
    /\ wrapped \in BOOLEAN

\* RAM 8 to 23 holds the frames of all calls and interrupts not returned from, in
\* order, up to a full stack, when the pointer has wrapped (intel8049.cpp:895-911).
StackHolds ==
    /\ Len(frames) <= StackSize
    /\ cpu.sp = IF Len(frames) = StackSize THEN 0 ELSE Len(frames)
    /\ \A i \in 1..Len(frames) :
         cpu.stack[i - 1] = [pc |-> frames[i].pc, flags |-> frames[i].flags]

\* inInterrupt_ says whether an interrupt routine is under way, and there is at most one,
\* however requests, calls and returns fall together (intel8049.cpp:902-911, 962-978).
InterruptOnce ==
    /\ cpu.inInterrupt <=> \E i \in 1..Len(frames) : frames[i].kind = "interrupt"
    /\ \A i, j \in 1..Len(frames) :
         frames[i].kind = "interrupt" /\ frames[j].kind = "interrupt" => i = j

\* An enabled request waits for nothing but the end of an interrupt routine
\* (intel8049.cpp:962-978).
PendingOnlyWhileBusy == cpu.requested /\ cpu.enabled => cpu.inInterrupt

\* T and the prescaler are the cycles that the instructions reported since the timer was
\* set; executor and timer never drift apart (intel8049.cpp:58-61, 913-928).
TimerExact ==
    Running => cpu.t * Prescaler + (Prescaler - cpu.cyclesUntilCount) = clock

\* The timer flag is set exactly when T has overflowed since the flag was last tested
\* true or reset, whichever way T was set meanwhile (intel8049.cpp:175-185, 913-917).
NoOverflowLost == cpu.tf <=> wrapped

\* After a return the program goes on behind the call, with the flags as they are, or
\* where it was interrupted, with the flags it had; unless the next interrupt is taken
\* at once, and then that one will return there (intel8049.cpp:488-493, 558-563, 866).
ReturnsHome ==
    [][RET \/ RETR =>
         LET now == IF Len(frames') = Len(frames) THEN frames'[Len(frames)] ELSE cpu'
         IN  /\ now.pc = Top.pc
             /\ now.flags = IF Top.kind = "call" THEN cpu.flags ELSE Top.flags]_cpuVars
=============================================================================
