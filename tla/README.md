# Verification of the Kosmos CP1 emulator

The repository is an emulator of the Kosmos CP1, a teaching computer of 1983: an
Intel 8049 with its ROM, an Intel 8155 (256 bytes of RAM and three ports) in the main
unit, a second 8155 in the memory extension, a keyboard, a display, switches and LEDs.
The program is a Qt application with two threads. This directory holds TLA+ models of
it, TLC configurations that check them, and proofs checked by TLAPS.

## 1. Inventory

Paths are relative to `src/` of the repository.

| Part | Source | State | Operations | Concurrency, failure, order |
|---|---|---|---|---|
| Executor thread | `executorthread.{h,cpp}` | command deque, `isRunning_`, breakpoints, `breakOnMovx_`, `interruptsSeen_` | eight posting methods, two blocking ones (`loadState`, `saveState`), the loop `run()` | its own thread; deque under a mutex; `isRunning_` shared without one; signals queued to the UI thread |
| CPU window | `ui/cpu/cpuwindow.cpp`, `ui/cpu/i8049disassemblywidget.cpp` | enabled actions, breakpoint marks, the check box | tool bar, marks, show and close, four slots | hears of the executor late; keeps copies of its settings |
| Panel window | `ui/panel/*.cpp` | title, pressed keys and their bits, digits and how far the display is in a scan, LEDs, switches | answers P1 and P2, shows ports | slots of ports run in the executor thread (direct connections), those of mouse and keys in the UI thread; the bits are shared without a lock |
| File menu | `ui/basewindow.cpp` | none | load state, save state | blocks the UI thread |
| Assembler window | `ui/assembler/assemblerwindow.cpp` | none | assemble and upload | writes RAM behind the executor's back |
| `main()` | `main.cpp` | all objects | wiring, start, quit, wait | start and end of the thread |
| Intel 8049 | `emulation/intel8049.{h,cpp}` | registers, flags, timer, stack in RAM | reset, one instruction, save, load | executor thread only |
| Intel 8155 | `emulation/intel8155.{h,cpp}`, `ram.cpp` | address latch, last pin values, ports, modes, RAM | a slot per pin, reset, save, load | edges, not levels; two chips share the pins |
| Ports | `emulation/dataport.cpp` | one byte | masked write, a signal per bit | the slots run inside the write |
| Save states | `emulation/emulatorstate.{h,cpp}`, `ui/basewindow.cpp` | the file | stream in and out | files cut off by a full disk or the end of the program; fields without names |
| Assembler | `assembler.cpp` | code, symbols, forward references | assemble | sequential |
| Disassembler | `util/disassembler.cpp`, `ui/cpu/i8049disassemblywidget.cpp` | the lines, the highlighted one | disassemble, go to an address | lines are made once; `pc` is read from another thread |
| Pacing | `throttler.cpp`, `performancemeasurer.cpp` | time stamps | throttle, measure | wall clock |

What makes each part correct:

- *Executor*: the last run control command prevails; a stop condition stops; blocking
  calls return and their stack frames are used only while they exist; the thread ends.
- *Windows*: when nothing is on its way, buttons, title and marks agree with the executor.
- *Upload*: an assembled program is in memory when the button's handler ends (it need not be:
  section 4).
- *Panel*: digits and LEDs come to show what the RAM and port B hold; a key that stays
  down, or up, is read so in the end; a program that writes 1s to port 1 reads the switches.
- *Board*: a MOVX reads or writes the one memory cell, or port, that P2 selects.
- *Save states*: what is loaded was once saved, whole; a loaded session goes on like the
  saved one.
- *Disassembly*: it says what the CPU does; instructions start where lines start; the
  highlighted line is the one of `pc` whenever the machine is at rest. Data in the ROM do not put
  the lines out of step with the code.
- *8049*: calls and interrupts return where they came from; the timer overflows every
  32 x 256 cycles; arithmetic agrees with the numbers the bytes stand for; the register
  banks are apart.
- *Assembler*: the words it puts out are those of the listing, whatever the order of
  definitions and uses.

Further hazards are listed, each with its line, in `PROJECT.json`.

## 2. Modules

| Module | Models | Extends |
|---|---|---|
| `ExecutorThread` | the thread, its methods and the calls into it | |
| `ExecutorThreadProps` | what it owes to its callers | `ExecutorThread` |
| `Debugger` | the windows composed with the thread | `ExecutorThreadProps` |
| `Debugger_proofs` | theorems about the thread and the windows, section 5 | `Debugger` |
| `Intel8155` | one chip: an operator per slot | |
| `Wiring` | BUS, P2 and two chips as `main()` connects them | `Intel8155` |
| `Board` | the 8049's instructions on that board, MOVX pin by pin | `Wiring` |
| `Memory` | abstract: what a program may rely on | |
| `Board_proofs` | theorems, section 5 | `Board` |
| `StateFile` | the bytes of a saved state, written and read | `Intel8155` |
| `SaveLoad` | sessions saved to a file, restarted, loaded | `Wiring`, `StateFile` |
| `SaveLoad_proofs` | theorems, section 5 | `SaveLoad` |
| `Intel8049` | control flow, stack, timer and interrupt of the CPU | |
| `Intel8049_proofs` | theorems, section 5 | `Intel8049` |
| `Intel8049Data` | accumulator, flags, RAM and register banks of the CPU | |
| `Accumulator` | abstract: carry and accumulator as one number, flags apart | |
| `Intel8049Data_proofs` | theorems, section 5 | `Intel8049Data` |
| `ProgramMemory` | pages of the ROM | |
| `Decoder` | the switch of `executeSingleInstr()` as a table | `ProgramMemory` |
| `ProgramFlow` | where the instructions of a ROM lead | `Decoder` |
| `Disassembler` | the switch of the disassembler as a table | `ProgramMemory` |
| `Disassembly` | the CPU window's disassembly beside the running CPU | `Disassembler`, `ProgramFlow` |
| `Disassembly_proofs` | theorems, section 5 | `Disassembly` |
| `Panel` | display, LEDs, keyboard, switches, and the firmware's scan | |
| `Panel_proofs` | theorems, section 5 | `Panel` |
| `Assembler` | one pass over a source, with references patched later | |
| `Assembler_proofs` | theorems, section 5 | `Assembler` |
| `MC*` | the instances TLC checks | the module checked |

### The executor thread

The methods of `ExecutorThread` are actions of the UI thread and only append to
`commands_`. The executor is a control point `at` and the actions named after its
methods. A step of the executor ends wherever the UI thread can see a difference: between
the assignment of `isRunning_` and the signal that reports it, between the signal and the
next test, between the three parts of a reset. `command` is the local of `run()`.

Names are those of the source. Two variables are history: `lastControl`, the last of
START, STOP, SINGLE_STEP and RESET posted, and `arrived`, whether the program counter was
reached by an instruction since the execution, a breakpoint or a state was last set.

`loadState()` and `saveState()` put a state and a semaphore on the caller's stack. These
are `callerState` and `done`; `caller` says in which of the two calls the UI thread is.
A call that does not wait would leave commands behind whose caller is elsewhere, which is
what `CallerOwnsState` excludes.

The machine is three values. An instruction goes to any address; at a MOVX it may write a
chip, and it may clear both (a write to P2). This is more than the firmware does and
leaves out nothing that the thread's own logic sees. One `resetExecuted` stands for the
signals of the three chips: all are connected to the same slot and emitted together.

Not every step is a command: the branch for NIL counts interrupts and reports the speed.
The throttle's delay changes no state and is left out; the report may come after any
instruction.

### The windows

`Debugger` adds what the windows keep and restricts the UI thread to what a user can do:
click an action that is enabled, toggle a mark in an enabled disassembly, show and close
the CPU window, load, save, upload, quit. Signals are handled one at a time from the
event queue. `onResetExecuted()` reads `isRunning_` when it is handled. The upload is
three actions, as the executor can run between the two RAMs; within one RAM the model
writes 256 cells at once, since contents are compared as wholes.

`ThreadSpec` is checked as a property of `Debugger`: the windows use the thread only in
the ways its own specification allows. Its safety part, `ThreadSafety`, is a theorem
(`WindowsUseThread`), so what is proved of the thread alone holds of the whole program.

### The board

A byte is the set of its bits that are 1: the masks of `DataPort::write()` become set
operations, and TLC chooses small sets. All connections are direct, so a write to a port
includes the slots behind it. `PinRD` keeps the order of the connections: with both chips
selected the extension writes the bus last.

`Board` takes a MOVX pin by pin so that the UI thread can write a RAM cell in between.
`Memory` says what the program sees: one read or write of the selected chip, one clearing
whenever P2 is written with bit 6 set. A read takes effect when RD rises, a write when WR
rises. The refinement mapping is the identity except for the accumulator, which
abstractly has its value as soon as the bus has it.

`OUTL P2,A` and `IN A,P2` reach BUS in this code (`op & 1` of 0x3a and 0x0a is 0); the
model does as the code does.

### Save states

`StateFile` has the fields of a state twice, as the code has: `WriteCpu` and `WriteChip` put
bytes one after the other, `CpuFields` and `ChipFields` are the lists by which
`operator>>` takes them off again. A read behind the end gives some byte and fails the
stream, so `Accepted` is the header and all fields. A byte is a set of bits. A vector is
preceded by its length in two bytes; `Vector` and `CpuState` are what `write_u8v` has room
for. In the runs a RAM has one cell and a ROM three bytes, in the theorems any number.

In `SaveLoad` a save is two steps: `SaveClicked` truncates the file, then the executor goes
on until `SaveState` takes the state and writes it. The file may be cut off at any place of
`Torn`, because the stream is tested before it is closed and a full disk shows on closing
(`basewindow.cpp:153-157`), and `Restart` ends the program anywhere. `saved` and `twin` are
history: the session when it was saved, and that session going on beside the loaded one.

### The 8049

An action is one `executeSingleInstr()`: fetch (`Fetched`, with the ticks of its cycles),
what the instruction does, and `handleInterrupts()` (`Finish`). `cpu` is the record of
registers; `push`, `pop`, `tick`, `incCounter` and `handleInterrupts` are functions on it
with the source's names. Instructions that neither jump nor touch stack, timer or
interrupts are one action, `Plain`, which leaves any flags (what they do is in
`Intel8049Data`); the conditional jumps are
`Branch`, taken or not. Nothing in the repository drives the pins INT, T0 and T1, so the
external interrupt never comes and a counter started with STRT CNT does not count.

The program is arbitrary but for three rules, without which the stack of a real 8049
promises nothing either: it leaves one frame free for an interrupt (`Open < StackSize`),
returns with RET from calls and with RETR from interrupt routines, and keeps the stack
pointer when it writes PSW. The firmware follows them.

History variables say what should be: `frames` is the list of calls and interrupts not
returned from, `clock` the cycles that instructions reported since the timer was set,
`wrapped` whether these passed a whole period since the flag was last cleared. The
widths (page, bank, stack, prescaler, T) are constants.

`Intel8049Data` has the instructions on accumulator, PSW, F1 and RAM, an action for each
opcode family; what comes from ROM, ports and timer is any byte of `Input`. A byte is two
nibbles of `Nibble` values and a decimal digit has `Radix`, both constants, so that TLC can
check small bytes by the same definitions that the theorems take at 16 and 10. `digits`, a
history variable, is the decimal sum of the addition just executed. `Accumulator` knows
neither bits nor PSW: carry and accumulator are one number that additions and rotations
through carry work on, and each flag is a variable of its own.

### The disassembly

Both switches over the opcodes are tables: `Decoder` says which bytes a case fetches and
which register, port or address it works on, `Disassembler` what the text of the line says.
`TablesOK` says that each has exactly one row for each of the 256 opcodes; TLC evaluates it.
That both take the same number of bytes and mean the same is proved.
A case's effect is named for what its code does, not for its comment, and `Reads` says what the
names of the text promise; `ShownIsExecuted` compares the two.
`Disassembly` sweeps the ROM with the one and runs it with the other. An instruction is
three steps (`Begin`, `FetchOperand`, `Execute`), since the UI thread reads `pc` in
between. The queue of signals is a set: two of a kind move the line twice, which is a
repetition of `Handle`. Only the frame pushed last is kept; deeper ones are in `Intel8049`.

Lines are found by one pass from address 0, code by following the program. The constant `Code`
is what the program can come to: `CodeOK` says that it has the reset and the interrupts in it
and with each instruction all places that this leads to (`Leads`), in either memory bank. That
`JMPP` reads nothing but the bytes of `Tables` is an assumption on the program, which computes
the place. `SweepFindsCode` says that there is a line for each address of `Code`, and `InStep`
that the CPU then starts every instruction at one. The first depends on the ROM. `MCFirmware`
is the one ROM there is, byte by byte, with the two tables of `cp1.asm`: the codes of the keys
(10 to 30, `cp1.asm:85-106`) and the opcodes of the interpreter (1024 to 1048,
`cp1.asm:981-1006`; the program tests for more before it jumps). `MCDisassembly` has a second
instance of `Disassembly` for it: TLC follows the code (`Reached`), evaluates `CodeOK` and sweeps,
which is `FirmwareIsFound`. The messages and tables between the routines happen to end where
an instruction starts.

### The panel

The slots of the panel window are called by ports, so the model needs someone who writes
them. That is the firmware (`cp1.asm`): each timer interrupt darkens the digit, selects the
next row, shows its digit and reads its keys, which are the four values of `isr`; the
program between interrupts (`prog`) draws into the RAM, writes port B, or writes and reads
port 1. `portC` holds the lowest 0 bit, which is all that display and keyboard look at.

Each of `onPidPortWritten`, `on8155PortWritten`, `onPinProgWritten`, `onPort1ValueWritten`
is part of the action that causes it. The last one is several actions, because
`CP5Switches::value()` reads eight bytes the user changes meanwhile, and its inner write
calls the slot again. `had`, a history variable, collects the settings that each switch
has during one such write. `switchesChanged` is connected but
emitted nowhere.

`CP1Display` leaves `activeDigit_` and `lastPortWritten_` uninitialized: `Init` chooses any
values, `Garbage` standing for a digit out of range. `setSegments` runs in the UI thread, from
its event queue. The keyboard's slots set and clear bits of keys, and the same key may have a
button on the panel, another one, and a key of the computer: `mouse` and `typed` say what
the user really holds. One mouse holds one button at a time. Loss of focus and auto-repeat
are left out, and so is stopping the machine, which only delays it.

### The assembler

`Assembler` reads any program, statement by statement; the text of a line is left out. A
line with a label and a statement does what two lines do, and a `.DB` or `.RAW` with several
values what several with one do, so each is an action of its own. `pc_` and the size of
`memory_` are separate variables, as in the code, where each handler changes both.

Two history variables: `listing` has, by address, what the source last put there, a name
standing for a label if no constant of that name is known yet; `orderly` says that `.EQU`
and `.ORG` used known names and that no `.ORG` went back. `Resolved` and `PatchesHit` are
about such programs; section 4 has the others. A name that `.EQU` or `.ORG` uses before it
is defined is registered as a reference of the next word (`assembler.cpp:253`), as if the
directive put one out: its label is then patched into whatever word comes there. A write
outside of `memory_` is undefined: it ends the program or is not seen.

## 3. Runs

| Run | Instance | Shows |
|---|---|---|
| `buttons` | 2 addresses, 1 of them a MOVX; all debugger commands, no files; 2 queued | `StopPrevails`, `NoRunThroughBreakpoint`, `StopIsServed`; `ButtonsAgree`, `TitleNotStopped`, `MarksAgree`, `StopIsShown` |
| `upload` | 2 contents, programs of one and two pages, load, save, quit | `CallerOwnsState`, `StateIsMachine`, `CallsReturn`, `QuitEnds`; `Debugger` implements `ThreadSpec` |
| `board` | addresses and data {} and {bit 0}, all four selections, I/O mode | `AddressHeld`, `LinesFollowPort`, `Memory` is implemented |
| `saveload` | one cell, two states of the CPU that differ in every flag, files whole, empty or cut in the middle | what is loaded was saved (`LoadedWasSaved`); into equal port latches it resumes the session (`ResumesOnSamePorts`) |
| `saveload_resume` | the same | it does not with other latches: **expected violation** |
| `cpu` | stack of 2, ROM of 3, banks of 2 and pages of 1, prescaler 2, T modulo 2, two values of the flags | `StackHolds`, `InterruptOnce`, `PendingOnlyWhileBusy`, `TimerExact`, `NoOverflowLost`, `ReturnsHome` |
| `arithmetic` | nibbles of 4 values, decimal digits of 3, a register in each bank | `DecimalExact`, `BanksApart`, `DataTypeOK`; `Accumulator` is implemented |
| `text` | ROMs of 2 pages of 2 bytes with each of the 256 opcodes at the start of each page, interrupts to 3, all bytes tables; and all 2048 bytes of `resources/CP1.bin`, its two jump tables, interrupts to 3 and 7 | `ShownIsExecuted`, `InStep`, `HighlightFollows`; `FirmwareIsFound` |
| `scan` | 2 rows, one key with two buttons of which one can be typed, one switch | `DisplayAlive`, `SwitchesFresh`, `DigitsGenuine`, `DisplaySettles`, `KeysSettle` |
| `letgo` | the same without switches | a key can stay down after the user let go: **expected violation** |
| `programs` | up to 3 words where 2 fit, one name for label and constant, numbers in and out of range | `Resolved`, `PatchesHit`, `CodeFits` |
| `origin` | the same | `.ORG` back drops the words behind it: **expected violation** |

### Bounds

`MaxCommands` bounds the commands queued when the user acts, `MaxSignals` the signals
queued when he acts or when the executor reports the speed. Both are guards of the
environment: the executor is never held up by them. Two commands are enough for any pair
to be queued in any order behind a third being served, which is where all orders that
matter arise: every command either commutes with the others or is overtaken by none. The
proofs need neither bound. Two addresses give one that is a stop condition and one that
is not. Two cells give every register of the I/O mode that has a meaning of its own but
ports B and C, which are written and read by the same code as A.

The widths of `cpu` are the smallest at which everything wraps: the stack pointer goes
round with one call and one interrupt open, two ticks of one instruction can cross an
overflow of T, and a jump can leave its page and its bank. Two rows give a first and a last
row, and a digit of each that must not be taken for the other. `MaxUpdates` bounds the
updates the UI thread is behind when the timer interrupts; one is enough for the executor
to be a scan ahead. Switches are read and written one by one by the same code, so one
switch is enough to find a missing reset; the theorem covers any number. The theorems
about `Intel8049` hold for the code's own widths as for all others.

In `programs` the RAMs have one word each, so that a program fits one, fits two, or is too
large. One name can be a label, a constant, both, defined twice, and used before and
after; that names do not disturb each other is left to the theorem.

In `arithmetic` a byte has sixteen values and wraps, a nibble holds digits that are decimal
and one that is not, and the carry between the nibbles is there with every pair of them.
In `text` the second page ends the ROM, so that an instruction of two bytes reads behind it, a
jump can stay in its page or leave it, and the byte behind an opcode is the start of a line
in one half of the ROMs and the middle of an instruction in the other. In 66 of
the 511 ROMs an instruction starts where there is no line, since a jump in the second page leads to
its own operand, and `InStep` says nothing of these.
`ShownIsExecuted` leaves out the effects of `Misread` (section 4) and the operands of `Differs`, which
are known: `IN A,P2` and `OUTL P2,A`, `ENT0 CLK`, conditional jumps at
the end of a page, and the memory bank, which is not in the text. The sweep of the
firmware needs no bound; no instruction of it is executed in the run, which the theorem makes up for. In `saveload` the file is cut in
the second chip's part; `Torn` names the place.

### Fairness

`run` is weakly fair: the executor is a thread of the operating system, and the mutex is
held for a few instructions only. `Return` is weakly fair: the semaphore was released.
In `Debugger` the event loop serves its queue; `HandleSignal` is strongly fair because the
user may interrupt it any number of times with a click and the event queue is served in
between. In `Panel`, the executor's steps are weakly fair while it has some to do and the
timer interrupt (`ClearDigit`) is strongly fair: the program may disable it again and again
by what it does between interrupts, but a request is latched and taken at the first
occasion, which is what `PendingOnlyWhileBusy` of `Intel8049` says. The display's
queue is served. No input is fair: the user may stop clicking. Deadlock is checked everywhere:
`quit` ends in a stuttering step that only a finished thread can take.

### Faulty variants

A few definitions come with a variant that makes a plausible mistake (`EnqueueFront`,
`OnlyHit`, `resetPins`, ...). Nothing uses them: they stand in for the real definition to
see that the property named in `PROJECT.json` then fails.

## 4. Disagreements

Three statements of the repository about the program are not what the code does.

- *A save state holds the complete state of CPU, RAM and I/O devices* (README.md:40-42).
  The latches of BUS, P1 and P2 are in no state structure, and loading leaves them as they
  are (`executorthread.cpp:158-163`). The chips' own select pins are restored, so the
  difference shows at the next `ORL P2` or `ANL P2`, which combine the operand with a latch
  of another session: run `saveload_resume`.
- *What the ROM reads is the keyboard state* (`panelwindow.cpp:50-51`). A mouse dragged off a
  button clears `pressed_` without `keyReleased` (`cp1button.cpp:59`), and the release
  outside then does nothing: the key's bit stays set until the key is pressed and released
  again. Run `letgo`.
- *`.ORG` takes any number* (assembler.h:37), and listing 23 of the samples ends with `.ORG 0`
  and one more word (`resources/listings/listing_023.asm:29-30`). `orgHandler()` resizes
  `memory_` to the new address (`assembler.cpp:262`), which drops all words behind it: the
  sample is assembled to that one word, without an error. Run `origin`.

More are known from reading and checked by no run:

- The upload (README.md:206, "Transfer assembled programs into emulated memory") posts STOP and
  writes the RAMs without waiting for it (`assemblerwindow.cpp:135-151`). What still runs, and a
  RESET queued before, write cells or clear both chips behind it: the executor is in the middle of
  an instruction that writes P2, the first RAM is written, the instruction clears both, the second
  is written.
- `JNI` jumps if `notInt_` is true (`intel8049.cpp:505`), when there is no interrupt, while
  `handleInterrupts()` has it the other way round (`intel8049.cpp:965`). Nothing drives the pin, so
  the jump is always taken. `ENT0 CLK` is reported as not implemented and does nothing
  (`intel8049.cpp:443-446`), and `STRT CNT` stops the timer and starts nothing. The disassembly
  shows them by their names, and `Misread` has them.
- `DA A` loses the carry of sums of 160 and more, because it tests the high digit after the
  accumulator wrapped (`intel8049.cpp:385-395`), which is why `DecimalExact` is bounded.
- `IN A,P2` and `OUTL P2,A` reach BUS.

## 5. Proofs

`Debugger_proofs` has two parts. The first is about the executor thread alone, under
`ThreadSafety`: `ThreadSpec` without its fairness. It holds for every set of addresses,
contents, files and operations, and without a bound on the queue (`ConstantsOK`):

- `CallsAreSafe`, `StatesAreWhole`: `TypeOK`, `CallerOwnsState`, `StateIsMachine`. They are one
  induction, `CallInv`. The semaphore stays within its type only because it is released once per
  call, which holds because the call's command is the last of the queue and unique,
  which holds because the caller posts nothing while it waits. `HeldCommand` says which
  commands the executor can hold at each control point.
- `StopIsFinal`: `StopPrevails`. Strengthened by `LastPosted` (the last run control
  command of the queue, or else the one being served, is `lastControl`) and `Halted` (the
  machine is not running between a stop and its signal).
- `BreakpointsHold`: `NoRunThroughBreakpoint`. Strengthened by `Checked`, which follows the
  two tests of `doExecuteInstr()` one by one.

The second part is about the windows, with any number of queued signals too:

- `WindowsUseThread`: every step of `Debugger` is a step of the thread or leaves it alone. The
  invariant `UiInv` says that an upload happens in no call of the executor, which is what lets
  it write the RAM. `ProgramIsSafe` states for the whole program what the first part proves.
- `MarksAreBreakpoints`: `MarksAgree`. The marks are compared with what the executor will
  break on once it has served its queue, so each post and each service keep the difference.
- `ButtonsShowTruth`: `ButtonsAgree`; `TitleShowsTruth`: `TitleNotStopped`. The invariant
  `ShowInv` speaks of `ToCome`, the queued signals and those the executor is about to emit:
  `HitThenStop` (a `breakpointHit` is always followed by `executionStopped`), `LastIsRight` (the
  last signal that decides the buttons is right about `isRunning_`) and `ShownIsRight` (if none
  is on its way, the windows are right already). Agreement on an empty queue alone is not
  inductive: what a window shows while signals are on their way may be wrong in many ways.

`Intel8049_proofs` proves for all widths (`WidthsOK`):

- `StackIsSound`: `CpuTypeOK`, `StackHolds`; `InterruptsDoNotNest`: `InterruptOnce`; and
  `RequestsAreTaken`: `PendingOnlyWhileBusy`. One induction, `CpuInv`. It is stated of a
  CPU and a list of frames, since it holds twice in a step: after the instruction, and
  after the interrupt. Its `Room` adds that a frame is left for an interrupt outside of
  interrupt routines: without it `push` could overwrite the oldest frame and `StackHolds`
  would not be inductive.
- `ReturnsAreExact`: `ReturnsHome`, from `CpuInv`. An interrupt taken at the end of the very
  return it follows is the case that makes this more than a reading of `pop`.
- `TimerIsExact`: `TimerExact`; `OverflowsAreKept`: `NoOverflowLost`. `TimerInv` adds that T
  and the prescaler, as one number, are the clock; `CpuInv` that the prescaler is not 0
  while T counts. The core is a lemma on one tick, applied
  twice for instructions of two cycles, and arithmetic modulo the period.

`Panel_proofs` proves for any number of rows, keys and switches (`PanelConstants`):

- `DisplayStaysAlive`: `PanelTypeOK`, `DisplayAlive`. Strengthened by `Scan`: what
  `lastPortWritten_` and `activeDigit_` are at each place of the scan; in particular that the
  dark write to port A never comes directly after one to port C. `Room` says
  that the queue has room for the digit when the routine comes to it.
- `SwitchesAreFresh`: `SwitchesFresh`. Strengthened by `Reading`: the bits read so far are
  settings of this write, and the flag is up exactly during it.
- `DisplayIsGenuine`: `DigitsGenuine`, from the same invariant.

`Assembler_proofs` proves for any names, numbers and size (`AssemblerConstants`):

- `OnePassSuffices`: `Resolved`; `CodeIsBounded`: `CodeFits`; and `PatchesAreSafe`: `AsmTypeOK`, `PatchesHit`. The
  invariant `AsmInv` adds `Waiting` (a pending reference is to a word that exists and to a
  name that is no label yet), `Below` (nothing of the listing is behind the last word, so
  what `.ORG` fills up is blank) and `Linked` (each word is final and nothing waits for
  it, or it waits for exactly the label it names). Both are needed: without the second half
  of `Linked` a patch could change a word that was already right.

`Board_proofs` proves for any addresses, data, operands and keys (`CellOK`, `BoardOK`):

- `SelectionIsP2`: `BoardTypeOK`, `LinesFollowPort`; `AddressIsHeld`: `AddressHeld`. One
  induction, `BoardInv`. Types alone are not inductive: a chip reads `ram[latch]`, so the latch
  has to be an address (`Addressed`), and it gets its value from a bus of which only the
  place in the MOVX says what is on it (`Edges`).
- `BoardIsMemory`: `ImplementsMemory`. Each slot has a lemma on what it does to one chip, each
  call one on the board; then every step is a read (`ReadIsRead`), a write (`WriteIsWrite`), a
  selection, a clearing, a cell written by the UI thread, a computation or nothing. `Edges`
  says why a pin is an edge: without it a rising RD could find a chip whose last RD was
  already high, and the program would read the address back.

`Intel8049Data_proofs` proves at the widths of the code (`Widths`: nibbles of 16, digits of
10), for every input and size of the RAM (`DataOK`):

- `DataIsTyped`: `DataTypeOK`; `DecimalSumsAreExact`: `DecimalExact`; `BanksStayApart`:
  `BanksApart`. The invariant `DataInv` ties `digits` to what the addition left in A, CY and AC;
  the two corrections of `DA A` are then a case distinction on the low digit and its carry.
- `AccumulatorIsImplemented`: `ImplementsAccumulator`. The lemmas on `setBit()` say that setting
  one flag changes no other, so that PSW is the sum of its flags.

`Disassembly_proofs` proves for every ROM (`DisassemblyOK`, and the table fact `TablesOK`, which is
finite and which TLC evaluates on every run of the module):

- `HighlightIsRight`: `HighlightFollows`. Strengthened by: a stopped machine whose line is
  wrong has a signal waiting that will put it right.
- `InstructionsAreLines`: `InStep`. Strengthened by `CodeInv`: the instruction under way, the frame
  and the saved `pc` are in the code, too. Its hypotheses are `CodeOK` and, in `InStep` itself,
  that the sweep has found the code; run `text` evaluates both for the only ROM.
- `TextIsExecuted`: `ShownIsExecuted`. Each row of the disassembler's table is matched with the
  case of the switch that has the same opcodes, and text and effect of the two are compared
  for every operand and every address; `ShownInv` says that the line at the start of an
  instruction was made from the bytes the CPU fetches. Left out are the effects of the four opcodes
  of `Misread`, and the operands in the cases of `Differs`.

`SaveLoad_proofs` proves for every state of the 8049 that the file has room for, every set of
cells, any instructions and data, and wherever a file is cut off (`CellOK`, `SessionOK`):

- `FileReadsBack`: reading the file of a state gives that state and stops at the last byte. Bytes
  and numbers are inverse to each other (`NumberOfByte`, `ByteOfNumber`); a part of the file
  `Sits` where the parts before it end; and the recursion of `Starts` puts each field there,
  although the reader finds the place only from the lengths it has read on the way.
- `CutIsRefused`: no proper beginning of that file is accepted. The lengths in front of the cut are
  those of the whole file, so the reader wants to end where the whole file ends, which is
  behind the cut. No case distinction by the place of the cut is needed.
- `LoadsAreWhole`: `LoadedWasSaved`; `SessionsResume`: `ResumesOnSamePorts`. The invariant
  `SessionInv` says that the file is a beginning of the saved session's, that both sessions are
  sessions, and that they are equal after a load on equal ports. Its type part needs that a
  MOVX reads `ram[latch]` only at an address it has latched itself (`Addressed`).

No proof uses the fairness of a specification. Each action has a lemma or a case, split
into the conjuncts it can disturb.

Every invariant that a run checks is proved but `FirmwareIsFound`, which is about one ROM, and
every action property. Only model-checked: that,
liveness, and the fairness in `ThreadSpec` (the prover does not treat fairness). What a
recursive function computes is proved only for the lists the code fixes, such as the fields
of the state file, and not for every list. The expected violations are TLC's.

## 6. Not modelled, and the plan

What is still open, in the order it would be taken:

1. The panel after a load. Loading restores port B without reporting it (the LEDs keep
   the old byte), and may resume the scan anywhere, before the display's members were ever
   written; what is still promised then should be stated and checked.
2. Pacing: the throttle adds delays and changes no state that another part reads, and the
   speed it reports is any number in `Debugger`.
3. Proofs: what item 1 adds; that the panel's operators on digits and keys do for the real
   board what `Panel` lets the firmware's scan do.

Left out for good: painting, dialogs, menus, resources and window management, the views
of registers and memory (they change nothing), the firmware (an input), and the vendored
formatting library.
