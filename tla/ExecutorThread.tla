--------------------------- MODULE ExecutorThread ---------------------------
(***************************************************************************)
(* ExecutorThread (src/executorthread.{h,cpp}): the thread that owns the   *)
(* emulated machine.  The methods of the class are called by the UI thread *)
(* and only append a Command to a deque under a mutex; loadState() and     *)
(* saveState() also wait on a semaphore until the executor has served the  *)
(* command.  The executor takes one command per round of its loop and,     *)
(* while isRunning_ and the deque is empty, executes one instruction.      *)
(*                                                                         *)
(* A step of the executor ends wherever the UI thread can see a difference *)
(* (the deque, isRunning_, a signal, the memories), so a method of several *)
(* such effects is several actions, joined by the control point `at'.      *)
(*                                                                         *)
(* The machine is abstract here: the CPU is its pc, each 8155 is one of a  *)
(* few contents, and an instruction goes anywhere.  Modules of their own   *)
(* model the hardware.                                                     *)
(***************************************************************************)
EXTENDS Integers, Sequences

CONSTANTS Addr,          \* the values of the program counter
          ResetPc,       \* the pc after Intel8049::reset()
          Movx,          \* the addresses that hold a MOVX instruction
          Isr,           \* the addresses executed with inInterrupt_ set
          Content,       \* what the RAM and ports of an 8155 can hold
          Blank,         \* the content Intel8155::reset() leaves
          Files,         \* the EmulatorStates a state file can hold
          Ops,           \* the operations the UI thread performs here
          MaxCommands,   \* bound: commands posted and not yet taken
          MaxSignals     \* bound: the UI posts only when no more are queued

ControlOp == {"START", "STOP", "SINGLE_STEP", "RESET"}
BreakpointOp == {"ADD_BP", "REMOVE_BP"}
StateOp == {"LOAD_STATE", "SAVE_STATE"}
Op == ControlOp \cup BreakpointOp \cup StateOp \cup {"NIL", "QUIT", "BREAK_ON_MOVX"}

EmulatorState == [cpu : Addr, pid : Content, pidExtension : Content]

ASSUME ConstantsOK ==
    /\ ResetPc \in Addr /\ Movx \subseteq Addr /\ Isr \subseteq Addr
    /\ Blank \in Content
    /\ Files \subseteq EmulatorState
    /\ Ops \subseteq Op \cup {"WRITE_RAM"}
    /\ MaxCommands \in Nat \ {0} /\ MaxSignals \in Nat

VARIABLES
    commands_, isRunning_, breakOnMovx_, breakpoints_, interruptsSeen_,
    at,              \* where the executor is in run()
    command,         \* the command fetchCommand() returned
    wasInInterrupt,  \* the local of the NIL case of run()
    machine,         \* *cpu_, *pid_ and *pidExtension_
    signals,         \* emitted, queued for the UI thread, not yet delivered
    caller,          \* the call the UI thread is in: "none", an operation, "quit"
    callerState,     \* the EmulatorState on the stack of loadState()/saveState()
    done,            \* the count of the QSemaphore on that stack
    lastControl,     \* history: the last run control command posted
    arrived          \* history: pc was reached by an instruction of this run

settings == <<breakOnMovx_, breakpoints_>>
call == <<caller, callerState, done>>
loop == <<command, wasInInterrupt, interruptsSeen_>>
threadVars == <<commands_, isRunning_, breakOnMovx_, breakpoints_, interruptsSeen_,
                at, command, wasInInterrupt, machine, signals,
                caller, callerState, done, lastControl, arrived>>

\* The commands that are posted; fetchCommand() makes up the NIL command itself.
Command == [op : ControlOp \cup StateOp \cup {"QUIT"}]
             \cup [op : BreakpointOp, param : Addr]
             \cup [op : {"BREAK_ON_MOVX"}, param : BOOLEAN]
NIL == [op |-> "NIL"]
NoState == [cpu |-> ResetPc, pid |-> Blank, pidExtension |-> Blank]

\* Where run() goes on once it has the command.
Entry(op) ==
    CASE op = "NIL"                              -> "execute"
      [] op = "START"                            -> "start"
      [] op \in {"STOP", "SINGLE_STEP", "RESET"} -> "stop"
      [] op = "QUIT"                             -> "finished"
      [] OTHER                                   -> "serve"

\* What follows doStopExecution() in STOP, doSingleStep() and doReset().
AfterStop(op) ==
    CASE op = "SINGLE_STEP" -> "execute"
      [] op = "RESET"       -> "resetCpu"
      [] OTHER              -> "fetch"

ControlPoint == {"fetch", "execute", "checkMovx", "movxHit", "checkBreakpoint",
                 "breakpointHit", "register", "start", "started", "stop", "stopped",
                 "resetCpu", "resetPid", "resetExtension", "serve", "release", "finished"}
Signal == {"executionStarted", "executionStopped", "resetExecuted", "breakpointHit",
           "performanceUpdate"}

FlagsOK == /\ isRunning_ \in BOOLEAN /\ breakOnMovx_ \in BOOLEAN
           /\ wasInInterrupt \in BOOLEAN /\ arrived \in BOOLEAN

TypeOK ==
    /\ FlagsOK
    /\ commands_ \in Seq(Command)
    /\ breakpoints_ \subseteq Addr
    /\ interruptsSeen_ \in 0..1
    /\ at \in ControlPoint
    /\ command \in Command \cup {NIL}
    /\ machine \in EmulatorState
    /\ signals \in Seq(Signal)
    /\ caller \in StateOp \cup {"none", "quit"}
    /\ callerState \in EmulatorState
    /\ done \in 0..1
    /\ lastControl \in ControlOp

ThreadInit ==
    /\ commands_ = <<>>
    /\ isRunning_ = FALSE /\ breakOnMovx_ = FALSE /\ breakpoints_ = {}
    /\ interruptsSeen_ = 0
    /\ at = "fetch" /\ command = NIL /\ wasInInterrupt = FALSE
    /\ machine = NoState
    /\ signals = <<>>
    /\ caller = "none" /\ callerState = NoState /\ done = 0
    /\ lastControl = "STOP" /\ arrived = FALSE

\* For TLC: the user waits while this much is under way.
Room == Len(commands_) < MaxCommands /\ Len(signals) <= MaxSignals

-----------------------------------------------------------------------------
(* The methods, called by the UI thread.                                   *)

\* push_back(), and as a faulty variant push_front().
EnqueueFront(q, cmd) == <<cmd>> \o q
Enqueue(q, cmd) == Append(q, cmd)

postCommand(cmd) ==
    /\ caller = "none"
    /\ commands_' = Enqueue(commands_, cmd)
    /\ lastControl' = IF cmd.op \in ControlOp THEN cmd.op ELSE lastControl
    /\ UNCHANGED <<isRunning_, settings, loop, at, machine, signals, arrived>>

\* startExecution(), stopExectuion(), singleStep() and reset()
Control(op) ==
    /\ op \in Ops
    /\ postCommand([op |-> op])
    /\ UNCHANGED call

enableBreakpoint(addr, enabled) ==
    /\ (IF enabled THEN "ADD_BP" ELSE "REMOVE_BP") \in Ops
    /\ postCommand([op |-> IF enabled THEN "ADD_BP" ELSE "REMOVE_BP", param |-> addr])
    /\ UNCHANGED call

setBreakOnMovX(brk) ==
    /\ "BREAK_ON_MOVX" \in Ops
    /\ postCommand([op |-> "BREAK_ON_MOVX", param |-> brk])
    /\ UNCHANGED call

\* loadState() and saveState() up to done.acquire(): the command holds pointers
\* to the state and the semaphore on the caller's stack.
loadState(state) ==
    /\ "LOAD_STATE" \in Ops
    /\ postCommand([op |-> "LOAD_STATE"])
    /\ caller' = "LOAD_STATE" /\ callerState' = state /\ done' = 0

\* Faulty variant: saveState() that does not wait.
saveStateNoWait ==
    /\ "SAVE_STATE" \in Ops
    /\ postCommand([op |-> "SAVE_STATE"])
    /\ UNCHANGED call

saveState ==
    /\ "SAVE_STATE" \in Ops
    /\ postCommand([op |-> "SAVE_STATE"])
    /\ caller' = "SAVE_STATE" /\ callerState' = NoState /\ done' = 0

\* done.acquire() succeeds and the call returns; its locals are gone.
Return ==
    /\ caller \in StateOp /\ done > 0
    /\ caller' = "none" /\ done' = done - 1 /\ callerState' = NoState
    /\ UNCHANGED <<commands_, isRunning_, settings, loop, at, machine, signals,
                   lastControl, arrived>>

\* quit(), after which main() only waits for the thread.
quit ==
    /\ "QUIT" \in Ops
    /\ postCommand([op |-> "QUIT"])
    /\ caller' = "quit" /\ UNCHANGED <<callerState, done>>

\* Ram::write() called by the UI thread itself: no lock, no command.
writeRam(chip, content) ==
    /\ machine' = [machine EXCEPT ![chip] = content]
    /\ UNCHANGED <<commands_, isRunning_, settings, loop, at, signals, call, lastControl,
                   arrived>>

\* The event loop of the UI thread takes the next queued signal.
Deliver ==
    /\ caller = "none" /\ signals /= <<>>
    /\ signals' = Tail(signals)
    /\ UNCHANGED <<commands_, isRunning_, settings, loop, at, machine, call, lastControl,
                   arrived>>

\* A UI thread that may call any method at any time.
Call ==
    \/ \E op \in ControlOp : Control(op)
    \/ \E addr \in Addr, enabled \in BOOLEAN : enableBreakpoint(addr, enabled)
    \/ \E brk \in BOOLEAN : setBreakOnMovX(brk)
    \/ \E state \in Files : loadState(state)
    \/ saveState \/ quit

WriteRam ==
    /\ caller = "none" /\ "WRITE_RAM" \in Ops
    /\ \E chip \in {"pid", "pidExtension"}, c \in Content : writeRam(chip, c)

-----------------------------------------------------------------------------
(* The executor thread.                                                    *)

\* No command is waiting while the machine runs.  Faulty variant: not looking.
NotLooking == isRunning_
RunsOn == isRunning_ /\ commands_ = <<>>

fetchCommand ==
    /\ at = "fetch"
    /\ \/ /\ commands_ /= <<>>
          /\ command' = Head(commands_) /\ commands_' = Tail(commands_)
       \/ /\ RunsOn
          /\ command' = NIL /\ UNCHANGED commands_
    /\ at' = Entry(command'.op)
    /\ wasInInterrupt' = (command'.op = "NIL" /\ machine.cpu \in Isr)
    /\ UNCHANGED <<isRunning_, settings, interruptsSeen_, machine, signals, call,
                   lastControl, arrived>>

doStartExecution ==
    /\ at = "start"
    /\ IF isRunning_
         THEN at' = "fetch" /\ UNCHANGED <<isRunning_, interruptsSeen_, arrived>>
         ELSE /\ isRunning_' = TRUE /\ interruptsSeen_' = 0 /\ arrived' = FALSE
              /\ at' = "started"
    /\ UNCHANGED <<commands_, settings, command, wasInInterrupt, machine, signals, call,
                   lastControl>>

doStopExecution ==
    /\ at = "stop"
    /\ isRunning_' = FALSE
    /\ at' = IF isRunning_ THEN "stopped" ELSE AfterStop(command.op)
    /\ UNCHANGED <<commands_, settings, loop, machine, signals, call, lastControl, arrived>>

\* What doExecuteInstr() emits when it stops.  Faulty variant: breakpointHit alone.
OnlyHit == <<"breakpointHit">>
HitSignals == <<"breakpointHit", "executionStopped">>

\* The signals emitted right after isRunning_ was assigned, and what run() does next.
Emission ==
    [started       |-> [emits |-> <<"executionStarted">>, next |-> "fetch"],
     stopped       |-> [emits |-> <<"executionStopped">>, next |-> AfterStop(command.op)],
     movxHit       |-> [emits |-> HitSignals, next |-> "checkBreakpoint"],
     breakpointHit |-> [emits |-> HitSignals,
                        next  |-> IF command.op = "NIL" THEN "register" ELSE "fetch"]]

Emit ==
    /\ at \in {"started", "stopped", "movxHit", "breakpointHit"}
    /\ signals' = signals \o Emission[at].emits
    /\ at' = Emission[at].next
    /\ UNCHANGED <<commands_, isRunning_, settings, loop, machine, call, lastControl, arrived>>

\* cpu_->executeSingleInstr(): control goes to some address.  A MOVX may also
\* write to the selected 8155, and a write to P2 with bit 6 set pulses the reset
\* line of both.
executeSingleInstr ==
    /\ at = "execute"
    /\ \E pc \in Addr :
         \/ /\ machine' = [machine EXCEPT !.cpu = pc]
            /\ UNCHANGED signals
         \/ /\ machine.cpu \in Movx
            /\ \E chip \in {"pid", "pidExtension"}, c \in Content :
                 machine' = [machine EXCEPT !.cpu = pc, ![chip] = c]
            /\ UNCHANGED signals
         \/ /\ Len(signals) <= MaxSignals
            /\ machine' = [cpu |-> pc, pid |-> Blank, pidExtension |-> Blank]
            /\ signals' = Append(signals, "resetExecuted")
    /\ at' = "checkMovx"
    /\ arrived' = TRUE
    /\ UNCHANGED <<commands_, isRunning_, settings, loop, call, lastControl>>

\* The two tests of doExecuteInstr() after the instruction.
checkBreakOnMovx ==
    /\ at = "checkMovx"
    /\ IF breakOnMovx_ /\ machine.cpu \in Movx
         THEN isRunning_' = FALSE /\ at' = "movxHit"
         ELSE UNCHANGED isRunning_ /\ at' = "checkBreakpoint"
    /\ UNCHANGED <<commands_, settings, loop, machine, signals, call, lastControl, arrived>>

\* Faulty variant: "else if", so that one option hides the other.
BreakpointElse == ~breakOnMovx_ /\ machine.cpu \in breakpoints_
BreakpointHere == machine.cpu \in breakpoints_

checkBreakpoints ==
    /\ at = "checkBreakpoint"
    /\ IF BreakpointHere
         THEN isRunning_' = FALSE /\ at' = "breakpointHit"
         ELSE UNCHANGED isRunning_ /\ at' = Emission.breakpointHit.next
    /\ UNCHANGED <<commands_, settings, loop, machine, signals, call, lastControl, arrived>>

\* The rest of the NIL case: count the interrupts entered (throttle() waits on every
\* other one and changes nothing else) and now and then report the speed.
\* Faulty variant: no modulus.
CountForever(n) == n + 1
NextCount(n) == (n + 1) % 2

register ==
    /\ at = "register"
    /\ interruptsSeen_' = IF ~wasInInterrupt /\ machine.cpu \in Isr
                            THEN NextCount(interruptsSeen_) ELSE interruptsSeen_
    /\ \/ UNCHANGED signals
       \/ Len(signals) <= MaxSignals /\ signals' = Append(signals, "performanceUpdate")
    /\ at' = "fetch"
    /\ UNCHANGED <<commands_, isRunning_, settings, command, wasInInterrupt, machine, call,
                   lastControl, arrived>>

\* doReset() after doStopExecution().  Intel8049::reset() writes 0xff to P2, whose
\* bit 6 resets both 8155s, before doReset() resets each of them itself.
Reset(from, to, m) ==
    /\ at = from
    /\ machine' = m
    /\ signals' = Append(signals, "resetExecuted")
    /\ at' = to
    /\ UNCHANGED <<commands_, isRunning_, settings, loop, call, lastControl, arrived>>

doReset ==
    \/ Reset("resetCpu", "resetPid", NoState)
    \/ Reset("resetPid", "resetExtension", [machine EXCEPT !.pid = Blank])
    \/ Reset("resetExtension", "fetch", [machine EXCEPT !.pidExtension = Blank])

\* ADD_BP, REMOVE_BP and BREAK_ON_MOVX
serveSetting ==
    /\ at = "serve" /\ command.op \notin StateOp
    /\ breakpoints_' = CASE command.op = "ADD_BP"    -> breakpoints_ \cup {command.param}
                         [] command.op = "REMOVE_BP" -> breakpoints_ \ {command.param}
                         [] OTHER                    -> breakpoints_
    /\ breakOnMovx_' = IF command.op = "BREAK_ON_MOVX" THEN command.param ELSE breakOnMovx_
    /\ at' = "fetch" /\ arrived' = FALSE
    /\ UNCHANGED <<commands_, isRunning_, loop, machine, signals, call, lastControl>>

\* LOAD_STATE: both 8155s emit resetExecuted, "to not emit every single change".
serveLoadState ==
    /\ at = "serve" /\ command.op = "LOAD_STATE"
    /\ machine' = callerState
    /\ signals' = signals \o <<"resetExecuted", "resetExecuted">>
    /\ at' = "release" /\ arrived' = FALSE
    /\ UNCHANGED <<commands_, isRunning_, settings, loop, call, lastControl>>

\* Faulty variant: the extension is not saved.
TwoPartSnapshot == [machine EXCEPT !.pidExtension = callerState.pidExtension]
Snapshot == machine

serveSaveState ==
    /\ at = "serve" /\ command.op = "SAVE_STATE"
    /\ callerState' = Snapshot
    /\ at' = "release"
    /\ UNCHANGED <<commands_, isRunning_, settings, loop, machine, signals, caller, done,
                   lastControl, arrived>>

\* Faulty variant of Released: LOAD_STATE forgets its caller.
ReleaseSaverOnly(n) == IF command.op = "LOAD_STATE" THEN n ELSE n + 1

\* QSemaphore::release().
Released(n) == n + 1

release ==
    /\ at = "release"
    /\ done' = Released(done)
    /\ at' = "fetch"
    /\ UNCHANGED <<commands_, isRunning_, settings, loop, machine, signals, caller,
                   callerState, lastControl, arrived>>

run == \/ fetchCommand \/ doStartExecution \/ doStopExecution \/ Emit
       \/ executeSingleInstr \/ checkBreakOnMovx \/ checkBreakpoints \/ register
       \/ doReset \/ serveSetting \/ serveLoadState \/ serveSaveState \/ release

\* The thread has ended; main() returns.
Ended == at = "finished" /\ caller = "quit" /\ UNCHANGED threadVars

ThreadNext == run \/ Call \/ WriteRam \/ Return \/ Deliver \/ Ended

\* The operating system schedules the executor thread; the UI thread gets on with a
\* call whose semaphore was released.  Nobody has to click anything.
ThreadFairness == WF_threadVars(run) /\ WF_threadVars(Return)
ThreadSafety == ThreadInit /\ [][ThreadNext]_threadVars
ThreadSpec == ThreadSafety /\ ThreadFairness
=============================================================================
