--------------------------- MODULE Debugger_proofs ---------------------------
(***************************************************************************)
(* Theorems about ExecutorThread and about Debugger, which EXTENDS it, for *)
(* every set of addresses, contents, files and programs and with no bound  *)
(* on either queue.  First the thread, whoever calls it; then the windows: *)
(* they use it only as ExecutorThread says, so that its theorems hold of   *)
(* the whole program, and what they show agrees with it.                   *)
(***************************************************************************)
EXTENDS Debugger, SequenceTheorems, TLAPS

(***************************************************************************)
(* The executor thread.                                                    *)
(***************************************************************************)

\* Which command the executor holds at each point of run().
HeldCommand ==
    /\ at \in {"execute", "checkMovx", "movxHit", "checkBreakpoint", "breakpointHit"} =>
           command.op \in {"NIL", "SINGLE_STEP"}
    /\ at = "register" => command.op = "NIL"
    /\ at \in {"start", "started"} => command.op = "START"
    /\ at \in {"stop", "stopped"} => command.op \in {"STOP", "SINGLE_STEP", "RESET"}
    /\ at \in {"resetCpu", "resetPid", "resetExtension"} => command.op = "RESET"
    /\ at = "serve" => command.op \in BreakpointOp \cup StateOp \cup {"BREAK_ON_MOVX"}
    /\ at = "release" => command.op \in StateOp

\* The type invariant needs the protocol of the blocking calls: a semaphore is released
\* once.  Neither is inductive without the other.
CallInv == TypeOK /\ HeldCommand /\ CallerOwnsState /\ StateIsMachine

-----------------------------------------------------------------------------

LEMMA AppendFacts ==
    ASSUME NEW S, NEW q \in Seq(S), NEW c \in S
    PROVE  /\ Append(q, c) \in Seq(S)
           /\ Len(Append(q, c)) = Len(q) + 1
           /\ \A i \in 1..Len(q) : Append(q, c)[i] = q[i]
           /\ Append(q, c)[Len(q) + 1] = c
  OBVIOUS

LEMMA HeadTailFacts ==
    ASSUME NEW S, NEW q \in Seq(S), q /= <<>>
    PROVE  /\ Head(q) \in S /\ Head(q) = q[1]
           /\ Tail(q) \in Seq(S)
           /\ Len(Tail(q)) = Len(q) - 1 /\ Len(q) \in Nat \ {0}
           /\ \A i \in 1..Len(Tail(q)) : Tail(q)[i] = q[i + 1]
  OBVIOUS

LEMMA CommandFacts ==
    ASSUME NEW c \in Command \cup {NIL}
    PROVE  /\ c.op \in Op
           /\ c \in Command => c.op /= "NIL"
           /\ c.op \in BreakpointOp => c.param \in Addr
           /\ c.op = "BREAK_ON_MOVX" => c.param \in BOOLEAN
  BY DEF Command, NIL, Op, ControlOp, BreakpointOp, StateOp

LEMMA MachineFacts ==
    ASSUME NEW m \in EmulatorState, NEW pc \in Addr, NEW c \in Content,
           NEW chip \in {"pid", "pidExtension"}
    PROVE  /\ [m EXCEPT !.cpu = pc] \in EmulatorState
           /\ [m EXCEPT ![chip] = c] \in EmulatorState
           /\ [m EXCEPT !.cpu = pc, ![chip] = c] \in EmulatorState
           /\ [cpu |-> pc, pid |-> Blank, pidExtension |-> Blank] \in EmulatorState
  <1> USE ConstantsOK DEF EmulatorState, ConstantsOK
  <1>1. CASE chip = "pid"
    BY <1>1
  <1>2. CASE chip = "pidExtension"
    BY <1>2
  <1> QED BY <1>1, <1>2

LEMMA InitCall == ThreadInit => CallInv
  <1> SUFFICES ASSUME ThreadInit PROVE CallInv
    OBVIOUS
  <1>1. NoState \in EmulatorState
    BY ConstantsOK DEF NoState, EmulatorState, ConstantsOK
  <1>2. FlagsOK
    BY DEF ThreadInit, FlagsOK
  <1>3. TypeOK
    BY <1>1, <1>2 DEF ThreadInit, TypeOK, ControlPoint, ControlOp
  <1>4. HeldCommand /\ CallerOwnsState /\ StateIsMachine
    BY DEF ThreadInit, HeldCommand, CallerOwnsState, StateIsMachine
  <1> QED BY <1>3, <1>4 DEF CallInv

-----------------------------------------------------------------------------
(* The methods.                                                            *)

LEMMA PostCall ==
    ASSUME CallInv, NEW cmd \in Command, postCommand(cmd),
           IF cmd.op \in StateOp
             THEN caller' = cmd.op /\ done' = 0 /\ callerState' \in EmulatorState
             ELSE /\ caller' \in {caller, "quit"}
                  /\ UNCHANGED <<done, callerState>>
    PROVE  CallInv'
  <1>1. caller = "none" /\ commands_' = Append(commands_, cmd)
    BY DEF postCommand, Enqueue
  <1>2. UNCHANGED <<isRunning_, breakOnMovx_, breakpoints_, command, wasInInterrupt,
                    interruptsSeen_, at, machine, signals, arrived>>
    BY DEF postCommand, settings, loop
  <1>3. \A i \in 1..Len(commands_) : commands_[i].op \notin StateOp
    BY <1>1 DEF CallInv, CallerOwnsState, StateOp
  <1>4. ~(at \in {"serve", "release"} /\ command.op \in StateOp)
    BY <1>1 DEF CallInv, CallerOwnsState, StateOp
  <1>5. commands_ \in Seq(Command)
    BY DEF CallInv, TypeOK
  <1>6. TypeOK'
    <2>1. lastControl' \in ControlOp
      BY DEF postCommand, CallInv, TypeOK
    <2>2. FlagsOK'
      BY <1>2 DEF CallInv, TypeOK, FlagsOK
    <2>3. caller' \in StateOp \cup {"none", "quit"} /\ done' \in 0..1
          /\ callerState' \in EmulatorState
      BY <1>1 DEF CallInv, TypeOK
    <2>4. commands_' \in Seq(Command)
      BY <1>1, <1>5, AppendFacts
    <2> QED BY <1>2, <2>1, <2>2, <2>3, <2>4 DEF CallInv, TypeOK
  <1>7. HeldCommand'
    BY <1>2 DEF CallInv, HeldCommand
  <1>8. CallerOwnsState'
    BY <1>1, <1>2, <1>3, <1>4, <1>5, AppendFacts DEF CallerOwnsState
  <1>9. StateIsMachine'
    BY <1>2, <1>4 DEF CallInv, HeldCommand, StateIsMachine
  <1> QED BY <1>6, <1>7, <1>8, <1>9 DEF CallInv

\* Control, enableBreakpoint, setBreakOnMovX, loadState, saveState and quit.
LEMMA CallCall ==
    ASSUME CallInv, Call
    PROVE  CallInv'
  <1>1. ASSUME NEW op \in ControlOp, Control(op) PROVE CallInv'
    <2>1. [op |-> op] \in Command /\ op \notin StateOp
      BY <1>1 DEF Command, ControlOp, StateOp
    <2> QED BY <1>1, <2>1, PostCall DEF Control, call
  <1>2. ASSUME NEW addr \in Addr, NEW enabled \in BOOLEAN, enableBreakpoint(addr, enabled)
        PROVE  CallInv'
    <2> DEFINE cmd == [op |-> IF enabled THEN "ADD_BP" ELSE "REMOVE_BP", param |-> addr]
    <2>1. cmd \in Command /\ cmd.op \notin StateOp
      BY DEF Command, BreakpointOp, StateOp
    <2>2. postCommand(cmd) /\ UNCHANGED call
      BY <1>2 DEF enableBreakpoint
    <2> QED BY <2>1, <2>2, PostCall DEF call
  <1>3. ASSUME NEW brk \in BOOLEAN, setBreakOnMovX(brk) PROVE CallInv'
    <2> DEFINE cmd == [op |-> "BREAK_ON_MOVX", param |-> brk]
    <2>1. cmd \in Command /\ cmd.op \notin StateOp
      BY Zenon DEF Command, StateOp
    <2>2. postCommand(cmd) /\ UNCHANGED call
      BY <1>3, Zenon DEF setBreakOnMovX
    <2> HIDE DEF cmd
    <2> QED BY <2>1, <2>2, PostCall DEF call
  <1>4. ASSUME NEW state \in Files, loadState(state) PROVE CallInv'
    <2>1. [op |-> "LOAD_STATE"] \in Command /\ "LOAD_STATE" \in StateOp
      BY DEF Command, StateOp
    <2>2. state \in EmulatorState
      BY ConstantsOK DEF ConstantsOK
    <2> QED BY <1>4, <2>1, <2>2, PostCall DEF loadState
  <1>5. ASSUME saveState PROVE CallInv'
    <2>1. [op |-> "SAVE_STATE"] \in Command /\ "SAVE_STATE" \in StateOp
      BY DEF Command, StateOp
    <2>2. NoState \in EmulatorState
      BY ConstantsOK DEF NoState, EmulatorState, ConstantsOK
    <2> QED BY <1>5, <2>1, <2>2, PostCall DEF saveState
  <1>6. ASSUME quit PROVE CallInv'
    <2>1. [op |-> "QUIT"] \in Command /\ "QUIT" \notin StateOp
      BY DEF Command, StateOp
    <2> QED BY <1>6, <2>1, PostCall DEF quit
  <1> QED BY <1>1, <1>2, <1>3, <1>4, <1>5, <1>6 DEF Call

-----------------------------------------------------------------------------
(* The executor.                                                           *)

\* Most steps neither touch the queue nor the call the UI thread is in.
LEMMA QuietStep ==
    ASSUME CallInv, TypeOK', HeldCommand', at' \notin {"serve", "release"},
           UNCHANGED <<commands_, caller, done>>
    PROVE  CallInv'
  BY DEF CallInv, CallerOwnsState, StateIsMachine

LEMMA FetchCall ==
    ASSUME CallInv, fetchCommand
    PROVE  CallInv'
  <1> USE DEF fetchCommand, settings, call
  <1>1. commands_ \in Seq(Command) /\ machine \in EmulatorState
    BY DEF CallInv, TypeOK
  <1>2. CASE commands_ /= <<>> /\ command' = Head(commands_) /\ commands_' = Tail(commands_)
    <2>1. command' \in Command /\ command' = commands_[1] /\ commands_' \in Seq(Command)
      BY <1>1, <1>2, HeadTailFacts
    <2>2. command'.op \in Op
      BY <2>1, CommandFacts
    <2>3. at' \in ControlPoint
      BY DEF Entry, ControlPoint
    <2>4. TypeOK'
      <3>1. FlagsOK'
        BY DEF CallInv, TypeOK, FlagsOK
      <3> QED BY <2>1, <2>3, <3>1 DEF CallInv, TypeOK
    <2>5. HeldCommand'
      BY <2>2 DEF HeldCommand, Entry, Op, ControlOp, BreakpointOp, StateOp
    <2>6. CallerOwnsState'
      <3>1. commands_ = <<>> => FALSE
        BY <1>2
      <3>2. Len(commands_) \in Nat \ {0} /\ Len(commands_') = Len(commands_) - 1
        BY <1>1, <1>2, HeadTailFacts
      <3>3. \A i \in 1..Len(commands_') : commands_'[i] = commands_[i + 1]
        BY <1>1, <1>2, HeadTailFacts
      <3>4. \A i \in 1..Len(commands_) : commands_[i].op \in StateOp =>
                caller = commands_[i].op /\ done = 0 /\ i = Len(commands_)
        BY DEF CallInv, CallerOwnsState
      <3>5. \A i \in 1..Len(commands_') : commands_'[i].op \in StateOp =>
                caller' = commands_'[i].op /\ done' = 0 /\ i = Len(commands_')
        <4> SUFFICES ASSUME NEW i \in 1..Len(commands_'), commands_'[i].op \in StateOp
                     PROVE  caller' = commands_'[i].op /\ done' = 0 /\ i = Len(commands_')
          OBVIOUS
        <4>1. i + 1 \in 1..Len(commands_) /\ commands_'[i] = commands_[i + 1]
          BY <3>2, <3>3
        <4>2. caller = commands_'[i].op /\ done = 0 /\ i + 1 = Len(commands_)
          BY <4>1, <3>4
        <4> QED BY <4>2, <3>2
      <3>6. command'.op \in StateOp => caller' = command'.op /\ done' = 0 /\ commands_' = <<>>
        <4>1. command'.op \in StateOp => Len(commands_') = 0
          BY <2>1, <3>2, <3>4
        <4> QED BY <2>1, <3>2, <3>4, <4>1
      <3> QED BY <3>5, <3>6 DEF CallerOwnsState
    <2>7. StateIsMachine'
      BY DEF StateIsMachine, Entry
    <2> QED BY <2>4, <2>5, <2>6, <2>7 DEF CallInv
  <1>3. CASE RunsOn /\ command' = NIL /\ UNCHANGED commands_
    <2>1. command' = NIL /\ command'.op = "NIL" /\ at' = "execute"
      BY <1>3 DEF NIL, Entry
    <2>2. TypeOK'
      <3>1. FlagsOK'
        BY DEF CallInv, TypeOK, FlagsOK
      <3> QED BY <1>3, <2>1, <3>1 DEF CallInv, TypeOK, ControlPoint
    <2>3. HeldCommand'
      BY <2>1 DEF HeldCommand
    <2> QED BY <1>3, <2>1, <2>2, <2>3, QuietStep
  <1> QED BY <1>2, <1>3

LEMMA StartStopCall ==
    ASSUME CallInv, doStartExecution \/ doStopExecution \/ checkBreakOnMovx \/ checkBreakpoints
    PROVE  CallInv'
  <1> USE DEF settings, loop, call
  <1>1. CASE doStartExecution
    <2> USE <1>1 DEF doStartExecution
    <2>1. FlagsOK'
      BY DEF CallInv, TypeOK, FlagsOK
    <2>2. TypeOK'
      BY <2>1 DEF CallInv, TypeOK, ControlPoint
    <2>3. HeldCommand'
      BY DEF CallInv, HeldCommand
    <2> QED BY <2>2, <2>3, QuietStep
  <1>2. CASE doStopExecution
    <2> USE <1>2 DEF doStopExecution
    <2>1. FlagsOK'
      BY DEF CallInv, TypeOK, FlagsOK
    <2>2. command.op \in {"STOP", "SINGLE_STEP", "RESET"}
      BY DEF CallInv, HeldCommand
    <2>3. at' \in {"stopped", "execute", "resetCpu", "fetch"}
      BY DEF AfterStop
    <2>4. TypeOK'
      BY <2>1, <2>3 DEF CallInv, TypeOK, ControlPoint
    <2>5. HeldCommand'
      BY <2>2 DEF HeldCommand, AfterStop
    <2> QED BY <2>3, <2>4, <2>5, QuietStep
  <1>3. CASE checkBreakOnMovx
    <2> USE <1>3 DEF checkBreakOnMovx
    <2>1. FlagsOK'
      BY DEF CallInv, TypeOK, FlagsOK
    <2>2. TypeOK'
      BY <2>1 DEF CallInv, TypeOK, ControlPoint
    <2>3. HeldCommand'
      BY DEF CallInv, HeldCommand
    <2> QED BY <2>2, <2>3, QuietStep
  <1>4. CASE checkBreakpoints
    <2> USE <1>4 DEF checkBreakpoints, Emission
    <2>1. FlagsOK'
      BY DEF CallInv, TypeOK, FlagsOK
    <2>2. at' \in {"breakpointHit", "register", "fetch"}
      OBVIOUS
    <2>3. TypeOK'
      BY <2>1, <2>2 DEF CallInv, TypeOK, ControlPoint
    <2>4. HeldCommand'
      BY DEF CallInv, HeldCommand
    <2> QED BY <2>2, <2>3, <2>4, QuietStep
  <1> QED BY <1>1, <1>2, <1>3, <1>4

LEMMA EmitCall ==
    ASSUME CallInv, Emit
    PROVE  CallInv'
  <1> USE DEF Emit, settings, loop, call
  <1>1. CallInv /\ FlagsOK' /\ Emission[at].emits \in Seq(Signal)
    <2>1. FlagsOK'
      BY DEF CallInv, TypeOK, FlagsOK
    <2>2. Emission[at].emits \in {<<"executionStarted">>, <<"executionStopped">>, HitSignals}
      BY DEF Emission
    <2>3. /\ <<"executionStarted">> \in Seq(Signal) /\ <<"executionStopped">> \in Seq(Signal)
          /\ HitSignals \in Seq(Signal)
      BY DEF HitSignals, Signal
    <2> QED BY <2>1, <2>2, <2>3
  <1>2. signals' \in Seq(Signal)
    BY <1>1 DEF CallInv, TypeOK
  <1>3. at' \in {"fetch", "execute", "resetCpu", "checkBreakpoint", "register"}
    BY DEF Emission, AfterStop
  <1>4. TypeOK'
    BY <1>1, <1>2, <1>3 DEF CallInv, TypeOK, ControlPoint
  <1>5. HeldCommand'
    BY DEF CallInv, HeldCommand, Emission, AfterStop
  <1> QED BY <1>3, <1>4, <1>5, QuietStep

LEMMA InstructionCall ==
    ASSUME CallInv, executeSingleInstr \/ register
    PROVE  CallInv'
  <1> USE DEF settings, loop, call
  <1>1. machine \in EmulatorState /\ signals \in Seq(Signal) /\ interruptsSeen_ \in 0..1
    BY DEF CallInv, TypeOK
  <1>2. CASE executeSingleInstr
    <2>1. signals' \in Seq(Signal)
      <3>1. Append(signals, "resetExecuted") \in Seq(Signal)
        BY <1>1, AppendFacts DEF Signal
      <3>2. signals' = signals \/ signals' = Append(signals, "resetExecuted")
        BY <1>2, Zenon DEF executeSingleInstr
      <3> QED BY <1>1, <3>1, <3>2
    <2>2. machine' \in EmulatorState
      <3>1. PICK pc \in Addr :
              \/ machine' = [machine EXCEPT !.cpu = pc]
              \/ \E chip \in {"pid", "pidExtension"}, c \in Content :
                   machine' = [machine EXCEPT !.cpu = pc, ![chip] = c]
              \/ machine' = [cpu |-> pc, pid |-> Blank, pidExtension |-> Blank]
        BY <1>2, Zenon DEF executeSingleInstr
      <3>2. Blank \in Content
        BY ConstantsOK DEF ConstantsOK
      <3>3. CASE machine' = [machine EXCEPT !.cpu = pc]
        <4>1. [machine EXCEPT !.cpu = pc] \in EmulatorState
          BY <1>1, <3>2, MachineFacts
        <4> QED BY <3>3, <4>1
      <3>4. CASE \E chip \in {"pid", "pidExtension"}, c \in Content :
                   machine' = [machine EXCEPT !.cpu = pc, ![chip] = c]
        <4>1. PICK chip \in {"pid", "pidExtension"}, c \in Content :
                machine' = [machine EXCEPT !.cpu = pc, ![chip] = c]
          BY <3>4
        <4>2. [machine EXCEPT !.cpu = pc, ![chip] = c] \in EmulatorState
          BY <1>1, MachineFacts
        <4> QED BY <4>1, <4>2
      <3>5. CASE machine' = [cpu |-> pc, pid |-> Blank, pidExtension |-> Blank]
        BY <3>2, <3>5 DEF EmulatorState
      <3> QED BY <3>1, <3>3, <3>4, <3>5
    <2>3. /\ at' = "checkMovx" /\ arrived' = TRUE
          /\ UNCHANGED <<commands_, isRunning_, breakOnMovx_, breakpoints_, command,
                         wasInInterrupt, interruptsSeen_, caller, callerState, done,
                         lastControl>>
      BY <1>2, Zenon DEF executeSingleInstr
    <2>4. FlagsOK'
      BY <2>3 DEF CallInv, TypeOK, FlagsOK
    <2>5. TypeOK'
      BY <2>1, <2>2, <2>3, <2>4 DEF CallInv, TypeOK, ControlPoint
    <2>6. HeldCommand'
      <3>1. at = "execute"
        BY <1>2 DEF executeSingleInstr
      <3> QED BY <2>3, <3>1 DEF CallInv, HeldCommand
    <2> QED BY <2>3, <2>5, <2>6, QuietStep
  <1>3. CASE register
    <2> USE <1>3 DEF register
    <2>1. interruptsSeen_' \in 0..1 /\ signals' \in Seq(Signal)
      BY <1>1 DEF NextCount, Signal
    <2>2. FlagsOK'
      BY DEF CallInv, TypeOK, FlagsOK
    <2>3. TypeOK'
      BY <2>1, <2>2 DEF CallInv, TypeOK, ControlPoint
    <2>4. HeldCommand'
      BY DEF HeldCommand
    <2> QED BY <2>3, <2>4, QuietStep
  <1> QED BY <1>2, <1>3

LEMMA ResetCall ==
    ASSUME CallInv, doReset
    PROVE  CallInv'
  <1> USE DEF settings, loop, call
  <1>1. machine \in EmulatorState /\ signals \in Seq(Signal)
    BY DEF CallInv, TypeOK
  <1>2. FlagsOK'
    BY DEF doReset, Reset, CallInv, TypeOK, FlagsOK
  <1>3. machine' \in EmulatorState
    BY <1>1, ConstantsOK DEF doReset, Reset, NoState, EmulatorState, ConstantsOK
  <1>4. signals' \in Seq(Signal) /\ at' \in {"resetPid", "resetExtension", "fetch"}
    BY <1>1 DEF doReset, Reset, Signal
  <1>5. TypeOK'
    BY <1>2, <1>3, <1>4 DEF doReset, Reset, CallInv, TypeOK, ControlPoint
  <1>6. HeldCommand'
    BY DEF doReset, Reset, CallInv, HeldCommand
  <1>7. UNCHANGED <<commands_, caller, done>>
    BY DEF doReset, Reset
  <1> QED BY <1>4, <1>5, <1>6, <1>7, QuietStep

\* serve and release touch the caller's stack frame.
LEMMA ServeCall ==
    ASSUME CallInv, serveSetting \/ serveLoadState \/ serveSaveState \/ release
    PROVE  CallInv'
  <1> USE DEF settings, loop, call
  <1>1. /\ machine \in EmulatorState /\ callerState \in EmulatorState
        /\ signals \in Seq(Signal) /\ done \in 0..1
        /\ command \in Command \cup {NIL} /\ breakpoints_ \subseteq Addr
    BY DEF CallInv, TypeOK
  <1>2. FlagsOK'
    <2>1. ASSUME serveSetting PROVE breakOnMovx_' \in BOOLEAN
      BY <1>1, <2>1, CommandFacts DEF serveSetting, CallInv, TypeOK, FlagsOK
    <2> QED BY <2>1 DEF serveSetting, serveLoadState, serveSaveState, release,
                        CallInv, TypeOK, FlagsOK
  <1>3. CASE serveSetting
    <2> USE <1>3 DEF serveSetting
    <2>1. breakpoints_' \subseteq Addr
      BY <1>1, CommandFacts DEF BreakpointOp
    <2>2. TypeOK'
      BY <1>2, <2>1 DEF CallInv, TypeOK, ControlPoint
    <2>3. HeldCommand'
      BY DEF HeldCommand
    <2> QED BY <2>2, <2>3, QuietStep
  <1>4. ASSUME serveLoadState \/ serveSaveState, TypeOK' PROVE CallInv'
    <2> USE <1>4 DEF serveLoadState, serveSaveState
    <2>1. /\ at = "serve" /\ at' = "release" /\ command.op \in StateOp
          /\ UNCHANGED <<commands_, command, caller, done>>
      BY DEF StateOp
    <2>2. HeldCommand' /\ CallerOwnsState'
      BY <2>1 DEF CallInv, HeldCommand, CallerOwnsState
    <2>3. StateIsMachine'
      BY DEF StateIsMachine, Snapshot
    <2> QED BY <2>2, <2>3 DEF CallInv
  <1>5. CASE serveLoadState
    <2> USE <1>5 DEF serveLoadState
    <2>1. signals' \in Seq(Signal)
      BY <1>1 DEF Signal
    <2>2. TypeOK'
      BY <1>1, <1>2, <2>1 DEF CallInv, TypeOK, ControlPoint
    <2> QED BY <1>4, <2>2
  <1>6. CASE serveSaveState
    <2> USE <1>6 DEF serveSaveState, Snapshot
    <2>1. TypeOK'
      BY <1>1, <1>2 DEF CallInv, TypeOK, ControlPoint
    <2> QED BY <1>4, <2>1
  <1>7. CASE release
    <2> USE <1>7 DEF release, Released
    <2>1. command.op \in StateOp /\ done = 0 /\ commands_ = <<>>
      BY DEF CallInv, HeldCommand, CallerOwnsState
    <2>2. TypeOK'
      BY <1>2, <2>1 DEF CallInv, TypeOK, ControlPoint
    <2>3. HeldCommand' /\ CallerOwnsState' /\ StateIsMachine'
      BY <2>1 DEF HeldCommand, CallerOwnsState, StateIsMachine
    <2> QED BY <2>2, <2>3 DEF CallInv
  <1> QED BY <1>3, <1>5, <1>6, <1>7

-----------------------------------------------------------------------------
(* The UI thread without a command.                                        *)

LEMMA UiCall ==
    ASSUME CallInv, Return \/ Deliver \/ WriteRam
    PROVE  CallInv'
  <1> USE DEF settings, loop, call
  <1>1. FlagsOK'
    BY DEF Return, Deliver, WriteRam, writeRam, CallInv, TypeOK, FlagsOK
  <1>2. CASE Return
    <2> USE <1>2 DEF Return
    <2>1. NoState \in EmulatorState
      BY ConstantsOK DEF NoState, EmulatorState, ConstantsOK
    <2>2. TypeOK'
      BY <1>1, <2>1 DEF CallInv, TypeOK
    <2>3. /\ \A i \in 1..Len(commands_) : commands_[i].op \notin StateOp
          /\ ~(at \in {"serve", "release"} /\ command.op \in StateOp)
      BY DEF CallInv, CallerOwnsState
    <2>4. HeldCommand' /\ CallerOwnsState' /\ StateIsMachine'
      BY <2>3 DEF CallInv, HeldCommand, CallerOwnsState, StateIsMachine
    <2> QED BY <2>2, <2>4 DEF CallInv
  <1>3. ASSUME caller = "none", TypeOK', UNCHANGED <<commands_, at, command, caller, done>>
        PROVE  CallInv'
    <2>1. ~(at \in {"serve", "release"} /\ command.op \in StateOp)
      BY <1>3 DEF CallInv, CallerOwnsState, StateOp
    <2> QED BY <1>3, <2>1 DEF CallInv, HeldCommand, CallerOwnsState, StateIsMachine
  <1>4. CASE Deliver
    <2> USE <1>4 DEF Deliver
    <2>1. signals' \in Seq(Signal)
      BY HeadTailFacts DEF CallInv, TypeOK
    <2>2. TypeOK'
      BY <1>1, <2>1 DEF CallInv, TypeOK
    <2> QED BY <1>3, <2>2
  <1>5. CASE WriteRam
    <2> USE <1>5 DEF WriteRam, writeRam
    <2>1. PICK chip \in {"pid", "pidExtension"}, c \in Content :
            machine' = [machine EXCEPT ![chip] = c]
      OBVIOUS
    <2>2. machine' \in EmulatorState
      <3>1. machine \in EmulatorState /\ ResetPc \in Addr
        BY ConstantsOK DEF ConstantsOK, CallInv, TypeOK
      <3>2. [machine EXCEPT ![chip] = c] \in EmulatorState
        BY <3>1, MachineFacts
      <3> QED BY <2>1, <3>2
    <2>3. TypeOK'
      BY <1>1, <2>2 DEF CallInv, TypeOK
    <2> QED BY <1>3, <2>3
  <1> QED BY <1>2, <1>4, <1>5

LEMMA StutterCall ==
    ASSUME CallInv, UNCHANGED threadVars
    PROVE  CallInv'
  <1> USE DEF threadVars
  <1>1. FlagsOK'
    BY DEF CallInv, TypeOK, FlagsOK
  <1>2. TypeOK'
    BY <1>1 DEF CallInv, TypeOK
  <1>3. HeldCommand' /\ CallerOwnsState' /\ StateIsMachine'
    BY DEF CallInv, HeldCommand, CallerOwnsState, StateIsMachine
  <1> QED BY <1>2, <1>3 DEF CallInv

LEMMA StepCall == CallInv /\ [ThreadNext]_threadVars => CallInv'
  <1> SUFFICES ASSUME CallInv, [ThreadNext]_threadVars PROVE CallInv'
    OBVIOUS
  <1>1. CASE run
    BY <1>1, FetchCall, StartStopCall, EmitCall, InstructionCall, ResetCall, ServeCall
       DEF run
  <1>2. CASE Call
    BY <1>2, CallCall
  <1>3. CASE WriteRam \/ Return \/ Deliver
    BY <1>3, UiCall
  <1>4. CASE Ended \/ UNCHANGED threadVars
    BY <1>4, StutterCall DEF Ended
  <1> QED BY <1>1, <1>2, <1>3, <1>4 DEF ThreadNext

\* loadState() and saveState(), as the executor and the UI thread run them, always keep
\* the protocol of the caller's stack frame, and hand over one moment of the machine
\* (executorthread.cpp:82-102, 158-169).
THEOREM CallsAreSafe == ThreadSafety => [](TypeOK /\ CallerOwnsState /\ StateIsMachine)
  <1>1. CallInv => TypeOK /\ CallerOwnsState /\ StateIsMachine
    BY DEF CallInv
  <1> QED BY <1>1, InitCall, StepCall, PTL DEF ThreadSafety

\* What they hand over is the machine of one moment: no step of the executor, and no write
\* of the UI thread, falls between the parts of a snapshot (executorthread.cpp:158-169).
THEOREM StatesAreWhole == ThreadSafety => []StateIsMachine
  BY CallsAreSafe, PTL

-----------------------------------------------------------------------------
(* Stopping.                                                               *)

MovxHere == breakOnMovx_ /\ machine.cpu \in Movx

\* lastControl is the last run control command of the queue or, when none is queued,
\* the one being carried out.
LastPosted ==
    /\ \A i \in 1..Len(commands_) :
         \/ commands_[i].op \notin ControlOp
         \/ \E j \in i + 1..Len(commands_) : commands_[j].op \in ControlOp
         \/ commands_[i].op = lastControl
    /\ at /= "fetch" /\ command.op \in ControlOp =>
         Queued(ControlOp) \/ command.op = lastControl

\* Between doStopExecution() and its signal nothing runs.
Halted ==
    at \in {"stopped", "movxHit", "breakpointHit", "resetCpu", "resetPid", "resetExtension"}
        => ~isRunning_

\* How much of the breakpoint tests is behind a running machine.
Checked ==
    /\ at = "started" => ~arrived
    /\ isRunning_ /\ arrived =>
         /\ at \in {"fetch", "start", "stop", "serve", "release", "register", "finished"}
              => ~BreakpointHere /\ ~MovxHere
         /\ at = "checkBreakpoint" => ~MovxHere

StopInv == LastPosted /\ StopPrevails
BreakInv == Halted /\ Checked

LEMMA PostStop ==
    ASSUME CallInv, StopInv, NEW cmd \in Command, postCommand(cmd)
    PROVE  StopInv'
  <1> DEFINE n == Len(commands_)
  <1>1. /\ commands_ \in Seq(Command)
        /\ commands_' = Append(commands_, cmd)
        /\ lastControl' = IF cmd.op \in ControlOp THEN cmd.op ELSE lastControl
        /\ UNCHANGED <<at, command, isRunning_>>
    BY DEF postCommand, Enqueue, loop, CallInv, TypeOK
  <1>2. /\ n \in Nat /\ Len(commands_') = n + 1 /\ commands_'[n + 1] = cmd
        /\ \A i \in 1..n : commands_'[i] = commands_[i]
    BY <1>1, AppendFacts
  <1>3. CASE cmd.op \in ControlOp
    <2>1. n + 1 \in 1..Len(commands_') /\ commands_'[n + 1].op \in ControlOp
      BY <1>2, <1>3
    <2>2. Queued(ControlOp)'
      BY <2>1 DEF Queued
    <2>3. LastPosted'
      <3>1. SUFFICES ASSUME NEW i \in 1..Len(commands_')
                     PROVE  \/ \E j \in i + 1..Len(commands_') : commands_'[j].op \in ControlOp
                            \/ commands_'[i].op = lastControl'
        BY <2>2 DEF LastPosted
      <3>2. CASE i = n + 1
        BY <1>1, <1>2, <1>3, <3>2
      <3>3. CASE i \in 1..n
        <4>1. n + 1 \in i + 1..Len(commands_')
          BY <1>2, <3>3
        <4> QED BY <2>1, <4>1
      <3> QED BY <1>2, <3>2, <3>3
    <2>4. StopPrevails'
      BY <2>2 DEF StopPrevails, ControlPending
    <2> QED BY <2>3, <2>4 DEF StopInv
  <1>4. CASE cmd.op \notin ControlOp
    <2>1. lastControl' = lastControl
      BY <1>1, <1>4
    <2>2. Queued(ControlOp)' <=> Queued(ControlOp)
      BY <1>2, <1>4 DEF Queued
    <2>3. LastPosted'
      <3>1. SUFFICES ASSUME NEW i \in 1..Len(commands_')
                     PROVE  \/ commands_'[i].op \notin ControlOp
                            \/ \E j \in i + 1..Len(commands_') : commands_'[j].op \in ControlOp
                            \/ commands_'[i].op = lastControl'
        BY <1>1, <2>1, <2>2 DEF LastPosted, StopInv
      <3>2. CASE i = n + 1
        BY <1>2, <1>4, <3>2
      <3>3. CASE i \in 1..n
        <4>1. \/ commands_[i].op \notin ControlOp
              \/ \E j \in i + 1..n : commands_[j].op \in ControlOp
              \/ commands_[i].op = lastControl
          BY <3>3 DEF LastPosted, StopInv
        <4>2. \A j \in i + 1..n : j \in i + 1..Len(commands_') /\ commands_'[j] = commands_[j]
          BY <1>2, <3>3
        <4> QED BY <1>2, <2>1, <3>3, <4>1, <4>2
      <3> QED BY <1>2, <3>2, <3>3
    <2>4. StopPrevails'
      BY <1>1, <2>1, <2>2 DEF StopInv, StopPrevails, ControlPending
    <2> QED BY <2>3, <2>4 DEF StopInv
  <1> QED BY <1>3, <1>4

\* A step of the executor that keeps its command.
LEMMA ServeStop ==
    ASSUME StopInv, at /= "fetch",
           UNCHANGED <<commands_, command, lastControl>>,
           isRunning_' => isRunning_ \/ command.op = "START",
           at' = "execute" => command.op \in ControlOp,
           command.op = "STOP" => ~isRunning_'
    PROVE  StopInv'
  <1>1. Queued(ControlOp)' <=> Queued(ControlOp)
    BY DEF Queued
  <1>2. LastPosted'
    BY <1>1 DEF StopInv, LastPosted
  <1>3. ASSUME lastControl = "STOP", ~Queued(ControlOp),
               ~(at' /= "fetch" /\ command.op \in ControlOp)
        PROVE  ~isRunning_' /\ at' /= "execute"
    <2>1. CASE command.op \in ControlOp
      <3>1. command.op = "STOP" /\ at' = "fetch"
        BY <1>3, <2>1 DEF StopInv, LastPosted
      <3> QED BY <3>1
    <2>2. CASE command.op \notin ControlOp
      <3>1. ~isRunning_
        BY <1>3, <2>2 DEF StopInv, StopPrevails, ControlPending
      <3> QED BY <2>2, <3>1 DEF ControlOp
    <2> QED BY <2>1, <2>2
  <1>4. StopPrevails'
    BY <1>1, <1>3 DEF StopPrevails, ControlPending
  <1> QED BY <1>2, <1>4 DEF StopInv

LEMMA FetchStop ==
    ASSUME CallInv, StopInv, fetchCommand
    PROVE  StopInv'
  <1>1. /\ at = "fetch" /\ at' = Entry(command'.op)
        /\ UNCHANGED <<isRunning_, lastControl>>
    BY DEF fetchCommand
  <1>2. CASE commands_ /= <<>> /\ command' = Head(commands_) /\ commands_' = Tail(commands_)
    <2> DEFINE n == Len(commands_')
    <2>1. commands_ \in Seq(Command)
      BY DEF CallInv, TypeOK
    <2>2. /\ Len(commands_) = n + 1 /\ n \in Nat
          /\ command' = commands_[1] /\ command' \in Command
          /\ \A i \in 1..n : commands_'[i] = commands_[i + 1]
      BY <1>2, <2>1, HeadTailFacts
    <2>3. command'.op \in Op \ {"NIL"} /\ at' /= "fetch"
      BY <1>1, <2>2, CommandFacts DEF Entry
    <2>4. \A i \in 1..Len(commands_) :
            \/ commands_[i].op \notin ControlOp
            \/ \E j \in i + 1..Len(commands_) : commands_[j].op \in ControlOp
            \/ commands_[i].op = lastControl
      BY DEF StopInv, LastPosted
    <2>5. Queued(ControlOp) <=> command'.op \in ControlOp \/ Queued(ControlOp)'
      <3>1. ASSUME Queued(ControlOp), command'.op \notin ControlOp PROVE Queued(ControlOp)'
        <4>1. PICK i \in 1..Len(commands_) : commands_[i].op \in ControlOp
          BY <3>1 DEF Queued
        <4>2. i - 1 \in 1..n /\ commands_'[i - 1] = commands_[i]
          BY <2>2, <3>1, <4>1
        <4> QED BY <4>1, <4>2 DEF Queued
      <3>2. ASSUME Queued(ControlOp)' PROVE Queued(ControlOp)
        <4>1. PICK i \in 1..n : commands_'[i].op \in ControlOp
          BY <3>2 DEF Queued
        <4>2. i + 1 \in 1..Len(commands_) /\ commands_[i + 1].op \in ControlOp
          BY <2>2, <4>1
        <4> QED BY <4>2 DEF Queued
      <3>3. ASSUME command'.op \in ControlOp PROVE Queued(ControlOp)
        BY <2>2, <3>3 DEF Queued
      <3> QED BY <3>1, <3>2, <3>3
    <2>6. LastPosted'
      <3>1. ASSUME NEW i \in 1..n
            PROVE  \/ commands_'[i].op \notin ControlOp
                   \/ \E j \in i + 1..n : commands_'[j].op \in ControlOp
                   \/ commands_'[i].op = lastControl'
        <4>1. i + 1 \in 1..Len(commands_) /\ commands_'[i] = commands_[i + 1]
          BY <2>2
        <4>2. CASE \E j \in i + 2..Len(commands_) : commands_[j].op \in ControlOp
          <5>1. PICK j \in i + 2..Len(commands_) : commands_[j].op \in ControlOp
            BY <4>2
          <5>2. j - 1 \in i + 1..n /\ j - 1 \in 1..n /\ commands_'[j - 1] = commands_[j]
            BY <2>2, <5>1
          <5> QED BY <5>1, <5>2
        <4>3. CASE ~\E j \in i + 2..Len(commands_) : commands_[j].op \in ControlOp
          <5>1. (i + 1) + 1 = i + 2
            OBVIOUS
          <5>2. commands_[i + 1].op \notin ControlOp \/ commands_[i + 1].op = lastControl
            BY <2>4, <4>1, <4>3, <5>1
          <5> QED BY <1>1, <4>1, <5>2
        <4> QED BY <4>2, <4>3
      <3>2. ASSUME command'.op \in ControlOp, ~Queued(ControlOp)'
            PROVE  command'.op = lastControl'
        <4>1. 1 \in 1..Len(commands_) /\ commands_[1].op \in ControlOp
          BY <2>2, <3>2
        <4>2. ~\E j \in 1 + 1..Len(commands_) : commands_[j].op \in ControlOp
          <5> SUFFICES ASSUME NEW j \in 1 + 1..Len(commands_), commands_[j].op \in ControlOp
                       PROVE  FALSE
            OBVIOUS
          <5>1. j - 1 \in 1..n /\ commands_'[j - 1] = commands_[j]
            BY <2>2
          <5> QED BY <3>2, <5>1 DEF Queued
        <4> QED BY <1>1, <2>2, <2>4, <4>1, <4>2
      <3> QED BY <3>1, <3>2 DEF LastPosted
    <2>7. StopPrevails'
      <3>1. ASSUME lastControl = "STOP", ~Queued(ControlOp)', command'.op \notin ControlOp
            PROVE  ~isRunning_' /\ at' /= "execute"
        <4>1. ~isRunning_
          BY <1>1, <2>5, <3>1 DEF StopInv, StopPrevails, ControlPending
        <4> QED BY <1>1, <2>3, <4>1 DEF Entry
      <3> QED BY <1>1, <2>3, <3>1 DEF StopPrevails, ControlPending
    <2> QED BY <2>6, <2>7 DEF StopInv
  <1>3. CASE RunsOn /\ command' = NIL /\ UNCHANGED commands_
    <2>1. isRunning_ /\ command'.op \notin ControlOp
      BY <1>3 DEF RunsOn, NIL, ControlOp
    <2>2. Queued(ControlOp)' <=> Queued(ControlOp)
      BY <1>3 DEF Queued
    <2>3. LastPosted'
      BY <1>1, <1>3, <2>1, <2>2 DEF StopInv, LastPosted
    <2>4. StopPrevails'
      BY <1>1, <2>1, <2>2 DEF StopInv, StopPrevails, ControlPending
    <2> QED BY <2>3, <2>4 DEF StopInv
  <1> QED BY <1>2, <1>3 DEF fetchCommand

\* Steps that leave the executor and the processor alone.
LEMMA IdleBreak ==
    ASSUME BreakInv,
           UNCHANGED <<at, isRunning_, breakOnMovx_, breakpoints_, arrived>>,
           machine'.cpu = machine.cpu
    PROVE  BreakInv'
  BY DEF BreakInv, Halted, Checked, BreakpointHere, MovxHere

LEMMA UiStop ==
    ASSUME CallInv, StopInv, BreakInv, Call \/ Return \/ Deliver \/ WriteRam \/ Ended
                                            \/ UNCHANGED threadVars
    PROVE  StopInv' /\ BreakInv'
  <1>1. CASE Call
    <2>1. PICK cmd \in Command : postCommand(cmd)
      <3>1. \A op \in ControlOp \cup StateOp \cup {"QUIT"} : [op |-> op] \in Command
        BY DEF Command
      <3>2. \A addr \in Addr, op \in BreakpointOp : [op |-> op, param |-> addr] \in Command
        BY DEF Command
      <3>3. \A brk \in BOOLEAN : [op |-> "BREAK_ON_MOVX", param |-> brk] \in Command
        BY Zenon DEF Command
      <3>4. CASE \E op \in ControlOp : Control(op)
        BY <3>1, <3>4 DEF Control
      <3>5. CASE \E addr \in Addr, enabled \in BOOLEAN : enableBreakpoint(addr, enabled)
        BY <3>2, <3>5 DEF enableBreakpoint, BreakpointOp
      <3>6. CASE \E brk \in BOOLEAN : setBreakOnMovX(brk)
        BY <3>3, <3>6, Zenon DEF setBreakOnMovX
      <3>7. CASE \E state \in Files : loadState(state)
        BY <3>1, <3>7 DEF loadState, StateOp
      <3>8. CASE saveState \/ quit
        BY <3>1, <3>8 DEF saveState, quit, StateOp
      <3> QED BY <1>1, <3>4, <3>5, <3>6, <3>7, <3>8 DEF Call
    <2>2. /\ UNCHANGED <<at, isRunning_, breakOnMovx_, breakpoints_, arrived>>
          /\ machine'.cpu = machine.cpu
      BY <2>1 DEF postCommand, settings
    <2> QED BY <2>1, <2>2, PostStop, IdleBreak
  <1>2. CASE Return \/ Deliver \/ WriteRam \/ Ended \/ UNCHANGED threadVars
    <2>1. UNCHANGED <<at, isRunning_, breakOnMovx_, breakpoints_, arrived, commands_, command,
                      lastControl>>
      BY <1>2 DEF Return, Deliver, WriteRam, writeRam, Ended, threadVars, settings, loop
    <2>2. machine'.cpu = machine.cpu
      <3>1. CASE WriteRam
        <4>1. PICK chip \in {"pid", "pidExtension"}, c \in Content :
                machine' = [machine EXCEPT ![chip] = c]
          BY <3>1 DEF WriteRam, writeRam
        <4> QED BY <4>1 DEF CallInv, TypeOK, EmulatorState
      <3>2. CASE ~WriteRam
        BY <1>2, <3>2 DEF Return, Deliver, Ended, threadVars
      <3> QED BY <3>1, <3>2
    <2>3. StopInv'
      BY <2>1 DEF StopInv, LastPosted, StopPrevails, ControlPending, Queued
    <2> QED BY <2>1, <2>2, <2>3, IdleBreak
  <1> QED BY <1>1, <1>2

LEMMA RunStop ==
    ASSUME CallInv, StopInv, BreakInv, run
    PROVE  StopInv'
  <1> USE DEF settings, loop, call
  <1>1. CASE fetchCommand
    BY <1>1, FetchStop
  <1>2. CASE doStartExecution
    BY <1>2, ServeStop DEF doStartExecution, CallInv, HeldCommand
  <1>3. CASE doStopExecution
    BY <1>3, ServeStop DEF doStopExecution, AfterStop, ControlOp, CallInv, HeldCommand
  <1>4. CASE Emit
    <2>1. at' = "execute" => command.op = "SINGLE_STEP"
      BY <1>4 DEF Emit, Emission, AfterStop
    <2>2. command.op = "STOP" => ~isRunning_
      BY <1>4 DEF Emit, CallInv, HeldCommand, BreakInv, Halted
    <2> QED BY <1>4, <2>1, <2>2, ServeStop DEF Emit, ControlOp
  <1>5. CASE checkBreakOnMovx \/ checkBreakpoints
    <2>1. at' /= "execute" /\ at /= "fetch" /\ command.op /= "STOP"
          /\ (isRunning_' => isRunning_)
          /\ UNCHANGED <<commands_, command, lastControl>>
      BY <1>5 DEF checkBreakOnMovx, checkBreakpoints, Emission, CallInv, HeldCommand
    <2> QED BY <2>1, ServeStop
  <1>6. CASE executeSingleInstr \/ register \/ doReset \/ serveSetting \/ serveLoadState
             \/ serveSaveState \/ release
    <2>1. at' /= "execute" /\ at /= "fetch" /\ UNCHANGED isRunning_
          /\ UNCHANGED <<commands_, command, lastControl>>
      BY <1>6, Zenon DEF executeSingleInstr, register, doReset, Reset, serveSetting,
                         serveLoadState, serveSaveState, release
    <2>2. at \in {"execute", "register", "resetCpu", "resetPid", "resetExtension", "serve",
                  "release"}
      BY <1>6, Zenon DEF executeSingleInstr, register, doReset, Reset, serveSetting,
                         serveLoadState, serveSaveState, release
    <2>3. command.op /= "STOP"
      BY <2>2 DEF CallInv, HeldCommand, BreakpointOp, StateOp
    <2> QED BY <2>1, <2>3, ServeStop
  <1> QED BY <1>1, <1>2, <1>3, <1>4, <1>5, <1>6 DEF run

LEMMA RunBreak ==
    ASSUME CallInv, BreakInv, run
    PROVE  BreakInv'
  <1> USE DEF settings, loop, call, BreakInv, Halted, Checked
  <1>1. CASE fetchCommand
    <2>1. at' \in {"execute", "start", "stop", "finished", "serve"}
      BY <1>1 DEF fetchCommand, Entry
    <2> QED BY <1>1, <2>1 DEF fetchCommand, BreakpointHere, MovxHere
  <1>2. CASE doStartExecution
    BY <1>2 DEF doStartExecution, BreakpointHere, MovxHere
  <1>3. CASE doStopExecution
    BY <1>3 DEF doStopExecution, AfterStop
  <1>4. CASE Emit
    <2>1. CASE at = "started"
      BY <1>4, <2>1 DEF Emit, Emission
    <2>2. CASE at \in {"stopped", "movxHit", "breakpointHit"}
      BY <1>4, <2>2 DEF Emit, Emission, AfterStop
    <2> QED BY <1>4, <2>1, <2>2 DEF Emit
  <1>5. CASE executeSingleInstr
    BY <1>5, Zenon DEF executeSingleInstr
  <1>6. CASE checkBreakOnMovx
    BY <1>6 DEF checkBreakOnMovx, MovxHere
  <1>7. CASE checkBreakpoints
    BY <1>7 DEF checkBreakpoints, Emission, BreakpointHere, MovxHere
  <1>8. CASE register \/ release
    BY <1>8 DEF register, release, BreakpointHere, MovxHere
  <1>9. CASE doReset
    BY <1>9 DEF doReset, Reset
  <1>10. CASE serveSetting \/ serveLoadState
    BY <1>10 DEF serveSetting, serveLoadState
  <1>11. CASE serveSaveState
    BY <1>11 DEF serveSaveState, BreakpointHere, MovxHere
  <1> QED BY <1>1, <1>2, <1>3, <1>4, <1>5, <1>6, <1>7, <1>8, <1>9, <1>10, <1>11 DEF run

LEMMA InitStop == ThreadInit => StopInv /\ BreakInv
  BY DEF ThreadInit, StopInv, LastPosted, StopPrevails, ControlPending, Queued, BreakInv,
         Halted, Checked

LEMMA StepStop == CallInv /\ StopInv /\ BreakInv /\ [ThreadNext]_threadVars
                    => StopInv' /\ BreakInv'
  BY UiStop, RunStop, RunBreak DEF ThreadNext

\* When STOP was the last run control command posted and the queue holds no other, the
\* machine is stopped, however the commands were interleaved with the loop of the
\* executor (executorthread.cpp:110-194).
THEOREM StopIsFinal == ThreadSafety => []StopPrevails
  <1>1. StopInv => StopPrevails
    BY DEF StopInv
  <1> QED BY <1>1, InitCall, StepCall, InitStop, StepStop, PTL DEF ThreadSafety

\* A running machine never goes on from a breakpoint, or from a MOVX with that option
\* set, that its last instruction arrived at (executorthread.cpp:223-239).
THEOREM BreakpointsHold == ThreadSafety => []NoRunThroughBreakpoint
  <1>1. BreakInv => NoRunThroughBreakpoint
    BY DEF BreakInv, Checked, NoRunThroughBreakpoint, BreakpointHere, MovxHere
  <1> QED BY <1>1, InitCall, StepCall, InitStop, StepStop, PTL DEF ThreadSafety

(***************************************************************************)
(* The windows.                                                            *)
(***************************************************************************)

\* While it uploads, the UI thread is in no call of the executor.
Uploading == ui \in Upload => caller = "none" /\ "WRITE_RAM" \in Ops

\* The signals that are queued and those about to be.
Emitting == {"started", "stopped", "movxHit", "breakpointHit"}
ToCome == IF at \in Emitting THEN signals \o Emission[at].emits ELSE signals

\* The signals that set the buttons whatever they showed, and what those should show.
Deciding == {"executionStarted", "executionStopped"}
Actual == IF isRunning_ THEN RunningButtons ELSE StoppedButtons

\* A breakpointHit is never the last word.
HitThenStop ==
    \A i \in 1..Len(ToCome) : ToCome[i] = "breakpointHit" =>
        i + 1 \in 1..Len(ToCome) /\ ToCome[i + 1] = "executionStopped"

\* The last deciding signal on its way is right about isRunning_; when there is none, the
\* windows are right already.
LastIsRight ==
    Holds(ToCome, Deciding) => (LastIs(ToCome, Deciding, "executionStarted") <=> isRunning_)
ShownIsRight ==
    ~Holds(ToCome, Deciding) =>
        buttons \in {NewButtons, Actual} /\ (isRunning_ => title /= "stopped")

Started == at = "started" => isRunning_
ShowInv == Started /\ HitThenStop /\ LastIsRight /\ ShownIsRight

-----------------------------------------------------------------------------
(* Queues.                                                                 *)

\* What Append does to Holds and LastIs.
LEMMA AppendLast ==
    ASSUME NEW S, NEW q \in Seq(S), NEW c \in S, NEW kind, NEW x \in kind
    PROVE  /\ Holds(Append(q, c), kind) <=> c \in kind \/ Holds(q, kind)
           /\ LastIs(Append(q, c), kind, x) <=>
                IF c \in kind THEN c = x ELSE LastIs(q, kind, x)
  <1> DEFINE r == Append(q, c)
             n == Len(q)
  <1>1. /\ n \in Nat /\ Len(r) = n + 1 /\ r[n + 1] = c
        /\ \A i \in 1..n : r[i] = q[i]
    BY AppendFacts
  <1> HIDE DEF r
  <1>2. Holds(r, kind) <=> c \in kind \/ Holds(q, kind)
    BY <1>1 DEF Holds
  <1>3. CASE c \in kind
    <2>1. ASSUME LastIs(r, kind, x) PROVE c = x
      <3>1. PICK i \in 1..Len(r) : r[i] = x /\ \A j \in i + 1..Len(r) : r[j] \notin kind
        BY <2>1 DEF LastIs
      <3>2. i = n + 1
        BY <1>1, <1>3, <3>1
      <3> QED BY <1>1, <3>1, <3>2
    <2>2. ASSUME c = x PROVE LastIs(r, kind, x)
      <3>1. n + 1 \in 1..Len(r) /\ \A j \in (n + 1) + 1..Len(r) : FALSE
        BY <1>1
      <3> QED BY <1>1, <2>2, <3>1 DEF LastIs
    <2> QED BY <1>2, <1>3, <2>1, <2>2 DEF r
  <1>4. CASE c \notin kind
    <2>1. ASSUME LastIs(r, kind, x) PROVE LastIs(q, kind, x)
      <3>1. PICK i \in 1..Len(r) : r[i] = x /\ \A j \in i + 1..Len(r) : r[j] \notin kind
        BY <2>1 DEF LastIs
      <3>2. i \in 1..n
        BY <1>1, <1>4, <3>1
      <3>3. \A j \in i + 1..n : q[j] \notin kind
        BY <1>1, <3>1, <3>2
      <3> QED BY <1>1, <3>1, <3>2, <3>3 DEF LastIs
    <2>2. ASSUME LastIs(q, kind, x) PROVE LastIs(r, kind, x)
      <3>1. PICK i \in 1..n : q[i] = x /\ \A j \in i + 1..n : q[j] \notin kind
        BY <2>2 DEF LastIs
      <3>2. i \in 1..Len(r) /\ \A j \in i + 1..Len(r) : j \in i + 1..n \/ j = n + 1
        BY <1>1
      <3> QED BY <1>1, <1>4, <3>1, <3>2 DEF LastIs
    <2> QED BY <1>2, <1>4, <2>1, <2>2 DEF r
  <1> QED BY <1>3, <1>4

\* What Tail does to them.
LEMMA TailLast ==
    ASSUME NEW S, NEW q \in Seq(S), q /= <<>>, NEW kind, NEW x \in kind
    PROVE  /\ Holds(q, kind) <=> Head(q) \in kind \/ Holds(Tail(q), kind)
           /\ LastIs(q, kind, x) <=>
                IF Holds(Tail(q), kind) THEN LastIs(Tail(q), kind, x) ELSE Head(q) = x
  <1> DEFINE t == Tail(q)
             n == Len(t)
  <1>1. /\ n \in Nat /\ Len(q) = n + 1 /\ Head(q) = q[1]
        /\ \A i \in 1..n : t[i] = q[i + 1]
    BY HeadTailFacts
  <1> HIDE DEF t
  <1>2. ASSUME NEW i \in 1..n + 1
        PROVE  i = 1 \/ (i - 1 \in 1..n /\ t[i - 1] = q[i])
    BY <1>1
  <1>3. Holds(q, kind) <=> q[1] \in kind \/ Holds(t, kind)
    <2>1. ASSUME Holds(t, kind) PROVE Holds(q, kind)
      <3>1. PICK i \in 1..n : t[i] \in kind
        BY <2>1 DEF Holds
      <3>2. i + 1 \in 1..Len(q) /\ q[i + 1] \in kind
        BY <1>1, <3>1
      <3> QED BY <3>2 DEF Holds
    <2> QED BY <1>1, <1>2, <2>1 DEF Holds
  <1>4. CASE Holds(t, kind)
    <2>1. ASSUME LastIs(q, kind, x) PROVE LastIs(t, kind, x)
      <3>1. PICK i \in 1..n + 1 : q[i] = x /\ \A j \in i + 1..n + 1 : q[j] \notin kind
        BY <1>1, <2>1 DEF LastIs
      <3>2. PICK k \in 1..n : t[k] \in kind
        BY <1>4 DEF Holds
      <3>3. i /= 1
        <4>1. q[k + 1] \in kind /\ k + 1 \in 1 + 1..n + 1
          BY <1>1, <3>2
        <4> QED BY <3>1, <4>1
      <3>4. i - 1 \in 1..n /\ t[i - 1] = x
        BY <1>2, <3>1, <3>3
      <3>5. \A j \in (i - 1) + 1..n : t[j] \notin kind
        BY <1>1, <3>1, <3>4
      <3> QED BY <3>4, <3>5 DEF LastIs
    <2>2. ASSUME LastIs(t, kind, x) PROVE LastIs(q, kind, x)
      <3>1. PICK i \in 1..n : t[i] = x /\ \A j \in i + 1..n : t[j] \notin kind
        BY <2>2 DEF LastIs
      <3>2. i + 1 \in 1..Len(q) /\ q[i + 1] = x
        BY <1>1, <3>1
      <3>3. \A j \in (i + 1) + 1..Len(q) : q[j] \notin kind
        BY <1>1, <1>2, <3>1
      <3> QED BY <3>2, <3>3 DEF LastIs
    <2> QED BY <1>1, <1>3, <1>4, <2>1, <2>2 DEF t
  <1>5. CASE ~Holds(t, kind)
    <2>1. \A i \in 2..n + 1 : q[i] \notin kind
      <3> SUFFICES ASSUME NEW i \in 2..n + 1 PROVE q[i] \notin kind
        OBVIOUS
      <3>1. i - 1 \in 1..n /\ t[i - 1] = q[i]
        BY <1>1, <1>2
      <3> QED BY <1>5, <3>1 DEF Holds
    <2>2. LastIs(q, kind, x) <=> q[1] = x
      <3>1. 1 \in 1..Len(q) /\ 1 + 1 = 2 /\ Len(q) = n + 1
        BY <1>1
      <3> QED BY <1>1, <2>1, <3>1 DEF LastIs
    <2> QED BY <1>1, <1>3, <1>5, <2>2 DEF t
  <1> QED BY <1>4, <1>5

-----------------------------------------------------------------------------
(* The windows use the executor as its specification allows.               *)

UiInv == WindowTypes /\ Uploading

\* What a command does to the user's marks.
MarksWith(cmd) ==
    CASE cmd.op = "ADD_BP"    -> marks \cup {cmd.param}
      [] cmd.op = "REMOVE_BP" -> marks \ {cmd.param}
      [] OTHER                -> marks
CheckedWith(cmd) == IF cmd.op = "BREAK_ON_MOVX" THEN cmd.param ELSE checked

\* The UI thread posts a command of the executor, with the marks to go with it.
Posts(cmd) ==
    /\ postCommand(cmd)
    /\ marks' = MarksWith(cmd) /\ checked' = CheckedWith(cmd)
    /\ UNCHANGED <<buttons, title>>

\* The UI thread does something that neither the queues nor the windows show.
Unseen == UNCHANGED <<commands_, isRunning_, breakOnMovx_, breakpoints_, at, command, signals,
                      buttons, marks, checked, title>>

LEMMA ControlPosts ==
    ASSUME NEW op \in ControlOp, Control(op), UNCHANGED <<buttons, marks, checked, title>>
    PROVE  Call /\ UNCHANGED call /\ \E cmd \in Command : Posts(cmd)
  <1> DEFINE cmd == [op |-> op]
  <1>1. cmd \in Command /\ cmd.op = op
    BY DEF Command
  <1>2. Posts(cmd)
    BY <1>1 DEF Control, Posts, MarksWith, CheckedWith, ControlOp
  <1> QED BY <1>1, <1>2 DEF Call, Control

\* Every step of the UI thread, as the executor sees it and as the windows do.
LEMMA UiStep ==
    ASSUME TypeOK, UiInv, UiNext
    PROVE  /\ Call \/ WriteRam \/ Return \/ Deliver \/ UNCHANGED threadVars
           /\ (\E cmd \in Command : Posts(cmd)) \/ HandleSignal \/ Unseen
           /\ UiInv'
  <1> USE DEF UiInv, call
  <1>1. /\ ui \in Upload => ui.at \in {"writePid", "writeExtension", "restart"}
        /\ ui \notin Upload => ui.at \in {"exec", "main"}
        /\ ui = EventLoop => ui \notin Upload
    BY DEF WindowTypes, Upload, EventLoop
  <1>2. ASSUME ui' = ui \/ ui' = EventLoop, UNCHANGED <<caller>> \/ ui \notin Upload
        PROVE  ui' \in Upload \cup {EventLoop, [at |-> "main"]} /\ Uploading'
    BY <1>1, <1>2 DEF WindowTypes, Upload, EventLoop, Uploading
  <1>3. CASE StartUp
    BY <1>3, <1>2, <1>1, ControlPosts DEF StartUp, ControlOp, WindowTypes
  <1>4. CASE Click
    <2>1. UNCHANGED windowVars /\ Idle /\ \E op \in ControlOp : Control(op)
      BY <1>4 DEF Click, ControlOp, Input
    <2> QED BY <2>1, <1>1, <1>2, ControlPosts DEF windowVars, WindowTypes, Idle
  <1>5. CASE ShowCpuWindow \/ CloseCpuWindow
    <2>1. /\ UNCHANGED <<buttons, marks, checked, title, ui>> /\ visible' \in BOOLEAN /\ Idle
          /\ \E op \in ControlOp : Control(op)
      BY <1>5 DEF ShowCpuWindow, CloseCpuWindow, ControlOp, Input
    <2> QED BY <2>1, <1>1, <1>2, ControlPosts DEF WindowTypes, Idle
  <1>6. CASE FileMenu
    <2>1. UNCHANGED windowVars /\ Idle
          /\ ((\E state \in Files : loadState(state)) \/ saveState \/ quit)
      BY <1>6 DEF FileMenu, Input
    <2>2. PICK op \in StateOp \cup {"QUIT"} : postCommand([op |-> op])
      BY <2>1 DEF loadState, saveState, quit, StateOp
    <2>3. [op |-> op] \in Command /\ Posts([op |-> op])
      BY <2>1, <2>2 DEF Posts, MarksWith, CheckedWith, Command, StateOp, windowVars
    <2> QED BY <2>1, <2>3, <1>1, <1>2 DEF Call, windowVars, WindowTypes, Idle
  <1>7. CASE ToggleBreakOnMovX
    <2> DEFINE cmd == [op |-> "BREAK_ON_MOVX", param |-> checked']
    <2>1. /\ checked' \in BOOLEAN /\ setBreakOnMovX(checked') /\ Idle
          /\ UNCHANGED <<buttons, marks, visible, title, ui>>
      BY <1>7 DEF ToggleBreakOnMovX, WindowTypes, Input
    <2>2. cmd \in Command /\ cmd.op = "BREAK_ON_MOVX" /\ cmd.param = checked'
      BY <2>1, Zenon DEF Command
    <2>3. postCommand(cmd) /\ UNCHANGED call
      BY <2>1, Zenon DEF setBreakOnMovX
    <2> HIDE DEF cmd
    <2>4. Posts(cmd)
      BY <2>1, <2>2, <2>3 DEF Posts, MarksWith, CheckedWith
    <2>5. Call
      BY <2>1, Zenon DEF Call
    <2> QED BY <2>1, <2>2, <2>4, <2>5, <1>1, <1>2 DEF WindowTypes, Idle
  <1>8. CASE \E addr \in Addr : ToggleBreakpoint(addr)
    <2>1. PICK addr \in Addr : ToggleBreakpoint(addr)
      BY <1>8
    <2> DEFINE enabled == addr \notin marks
               cmd == [op |-> IF enabled THEN "ADD_BP" ELSE "REMOVE_BP", param |-> addr]
    <2>2. /\ enableBreakpoint(addr, enabled) /\ Idle
          /\ marks' = IF addr \in marks THEN marks \ {addr} ELSE marks \cup {addr}
          /\ UNCHANGED <<buttons, checked, visible, title, ui>>
      BY <2>1 DEF ToggleBreakpoint, Input
    <2>3. cmd \in Command /\ cmd.param = addr
          /\ cmd.op = IF enabled THEN "ADD_BP" ELSE "REMOVE_BP"
      BY DEF Command, BreakpointOp
    <2>4. postCommand(cmd) /\ UNCHANGED call
      BY <2>2 DEF enableBreakpoint
    <2>5. Call
      <3>1. enabled \in BOOLEAN
        OBVIOUS
      <3> QED BY <2>2, <3>1, Zenon DEF Call
    <2> HIDE DEF cmd
    <2>6. Posts(cmd)
      BY <2>2, <2>3, <2>4 DEF Posts, MarksWith, CheckedWith
    <2> QED BY <2>2, <2>3, <2>5, <2>6, <1>1, <1>2 DEF WindowTypes, Idle
  <1>9. CASE \E code \in Codes : AssembleClicked(code)
    <2>1. PICK code \in Codes : AssembleClicked(code)
      BY <1>9
    <2>2. /\ Idle /\ caller = "none" /\ "WRITE_RAM" \in Ops
          /\ ui' = [at |-> "writePid", running |-> isRunning_, code |-> code]
          /\ Control("STOP") \/ UNCHANGED threadVars
          /\ UNCHANGED <<buttons, marks, checked, visible, title>>
      BY <2>1, Zenon DEF AssembleClicked, Input
    <2>3. isRunning_ \in BOOLEAN
      BY DEF TypeOK, FlagsOK
    <2>4. ui' \in Upload
      BY <2>2, <2>3 DEF Upload
    <2>5. CASE Control("STOP")
      <3>1. UNCHANGED call /\ "STOP" \in ControlOp
        BY <2>5 DEF Control, ControlOp
      <3> QED BY <2>2, <2>4, <2>5, <3>1, ControlPosts DEF WindowTypes, Uploading
    <2>6. CASE UNCHANGED threadVars
      BY <2>2, <2>4, <2>6 DEF WindowTypes, Uploading, Unseen, threadVars
    <2> QED BY <2>2, <2>5, <2>6
  <1>10. CASE WritePid \/ WriteExtension
    <2>1. /\ ui \in Upload /\ UNCHANGED <<buttons, marks, checked, visible, title>>
          /\ ui' = [ui EXCEPT !.at = "writeExtension"] \/ ui' = [ui EXCEPT !.at = "restart"]
          /\ \/ writeRam("pid", ui.code.pid)
             \/ SecondPage(ui.code) /\ writeRam("pidExtension", ui.code.pidExtension)
             \/ UNCHANGED threadVars
      BY <1>10, <1>1 DEF WritePid, WriteExtension
    <2>2. ui' \in Upload
      BY <2>1 DEF Upload
    <2>3. caller = "none" /\ "WRITE_RAM" \in Ops
      BY <2>1 DEF Uploading
    <2>4. ui.code.pid \in Content
          /\ (SecondPage(ui.code) => ui.code.pidExtension \in Content)
      BY <2>1, CodesOK DEF Upload, SecondPage
    <2>5. WriteRam \/ UNCHANGED threadVars
      BY <2>1, <2>3, <2>4 DEF WriteRam
    <2>6. Unseen /\ UNCHANGED caller
      BY <2>1 DEF writeRam, Unseen, threadVars, settings, loop
    <2> QED BY <2>1, <2>2, <2>3, <2>5, <2>6 DEF WindowTypes, Uploading
  <1>11. CASE Restart
    BY <1>11, <1>1, <1>2, ControlPosts DEF Restart, ControlOp, WindowTypes, Unseen, threadVars
  <1>12. CASE HandleSignal
    <2>1. Idle /\ Deliver /\ UNCHANGED <<marks, checked, visible, ui, caller>>
      BY <1>12 DEF HandleSignal, Deliver
    <2>2. buttons' \in Enabled
      BY <1>12 DEF HandleSignal, ButtonsAfter, WindowTypes, Enabled, RunningButtons,
                   StoppedButtons
    <2>3. title' \in {"running", "stopped", "percent"}
      BY <1>12 DEF HandleSignal, TitleAfter, WindowTypes
    <2> QED BY <1>12, <2>1, <2>2, <2>3, <1>1, <1>2 DEF WindowTypes, Idle
  <1>13. CASE Return /\ UNCHANGED windowVars
    BY <1>13, <1>1, <1>2 DEF Return, settings, loop, windowVars, Unseen, WindowTypes, Uploading,
                             StateOp
  <1> QED BY <1>3, <1>4, <1>5, <1>6, <1>7, <1>8, <1>9, <1>10, <1>11, <1>12, <1>13 DEF UiNext

LEMMA StepIsThread ==
    ASSUME TypeOK, UiInv, [Next]_vars
    PROVE  [ThreadNext]_threadVars /\ UiInv'
  <1>1. CASE run /\ UNCHANGED windowVars
    <2>1. UNCHANGED caller
      BY <1>1 DEF run, fetchCommand, doStartExecution, doStopExecution, Emit,
                  executeSingleInstr, checkBreakOnMovx, checkBreakpoints, register, doReset,
                  Reset, serveSetting, serveLoadState, serveSaveState, release, call
    <2> QED BY <1>1, <2>1 DEF ThreadNext, UiInv, WindowTypes, Uploading, windowVars
  <1>2. CASE UiNext
    BY <1>2, UiStep DEF ThreadNext
  <1>3. CASE (Ended \/ UNCHANGED threadVars) /\ UNCHANGED windowVars
    BY <1>3 DEF ThreadNext, Ended, UiInv, WindowTypes, Uploading, windowVars, threadVars
  <1> QED BY <1>1, <1>2, <1>3 DEF Next, vars

LEMMA InitUi == Init => ThreadInit /\ UiInv
  <1> SUFFICES ASSUME Init PROVE ThreadInit /\ UiInv
    OBVIOUS
  <1>1. ui = [at |-> "main"] /\ ui.at = "main"
    BY DEF Init
  <1>2. ui \notin Upload
    BY <1>1 DEF Upload
  <1>3. WindowTypes
    BY <1>1 DEF Init, WindowTypes, Enabled, NewButtons
  <1> QED BY <1>2, <1>3 DEF Init, UiInv, Uploading

\* Whatever the user does, the windows call the executor thread only as its specification
\* has it: no method while a call is open, no write to the RAMs in one
\* (cpuwindow.cpp:174-232, assemblerwindow.cpp:121-152, basewindow.cpp:110-158).
THEOREM WindowsUseThread == Spec => ThreadSafety /\ [](WindowTypeOK /\ Uploading)
  <1>1. CallInv /\ UiInv /\ [Next]_vars => [ThreadNext]_threadVars /\ CallInv' /\ UiInv'
    BY StepIsThread, StepCall DEF CallInv
  <1>2. CallInv /\ UiInv => WindowTypeOK /\ Uploading
    BY DEF CallInv, UiInv, WindowTypeOK
  <1> QED BY <1>1, <1>2, InitUi, InitCall, PTL DEF Spec, ThreadSafety

\* So what is proved of the thread holds of the program: stop prevails, breakpoints hold,
\* and no pointer leads into a frame that is gone (executorthread.cpp:82-239).
THEOREM ProgramIsSafe ==
    Spec => [](CallerOwnsState /\ StateIsMachine /\ StopPrevails /\ NoRunThroughBreakpoint)
  BY WindowsUseThread, CallsAreSafe, StopIsFinal, BreakpointsHold, PTL

-----------------------------------------------------------------------------
(* The marks.                                                              *)

\* Commands about one setting are told by their members.
LEMMA BpCommands ==
    ASSUME NEW c \in Command, NEW addr \in Addr
    PROVE  /\ c \in AboutBp(addr) <=> c.op \in BreakpointOp /\ c.param = addr
           /\ c = AddBp(addr) <=> c.op = "ADD_BP" /\ c.param = addr
           /\ AddBp(addr) \in AboutBp(addr)
  <1>1. CASE c \in [op : BreakpointOp, param : Addr]
    BY <1>1 DEF AboutBp, AddBp, BreakpointOp
  <1>2. CASE c \in [op : ControlOp \cup StateOp \cup {"QUIT"}]
    BY <1>2 DEF AboutBp, AddBp, BreakpointOp, ControlOp, StateOp
  <1>3. CASE c \in [op : {"BREAK_ON_MOVX"}, param : BOOLEAN]
    BY <1>3 DEF AboutBp, AddBp, BreakpointOp
  <1> QED BY <1>1, <1>2, <1>3 DEF Command

LEMMA MovxCommands ==
    ASSUME NEW c \in Command
    PROVE  /\ c \in AboutMovx <=> c.op = "BREAK_ON_MOVX"
           /\ c \in AboutMovx => (c = BreakOn <=> c.param)
           /\ BreakOn \in AboutMovx
  <1>1. CASE c \in [op : BreakpointOp, param : Addr]
    BY <1>1 DEF AboutMovx, BreakOn, BreakpointOp
  <1>2. CASE c \in [op : ControlOp \cup StateOp \cup {"QUIT"}]
    BY <1>2 DEF AboutMovx, BreakOn, ControlOp, StateOp
  <1>3. CASE c \in [op : {"BREAK_ON_MOVX"}, param : BOOLEAN]
    BY <1>3 DEF AboutMovx, BreakOn
  <1> QED BY <1>1, <1>2, <1>3 DEF Command

\* Fetching a command moves the last one of its kind from the queue to the hand, and
\* changes nothing otherwise.
LEMMA FetchKind ==
    ASSUME CallInv, fetchCommand, NEW kind, NEW x \in kind,
           \A c \in Command : c \in kind => Entry(c.op) = "serve"
    PROVE  \/ /\ Holds(commands_', kind) /\ Holds(commands_, kind)
              /\ LastIs(commands_', kind, x) <=> LastIs(commands_, kind, x)
           \/ /\ ~Holds(commands_', kind) /\ Holds(commands_, kind)
              /\ at' = "serve" /\ command' \in kind
              /\ LastIs(commands_, kind, x) <=> command' = x
           \/ /\ ~Holds(commands_', kind) /\ ~Holds(commands_, kind)
              /\ ~(at' = "serve" /\ command' \in kind)
  <1>1. CASE commands_ /= <<>> /\ command' = Head(commands_) /\ commands_' = Tail(commands_)
    <2>1. commands_ \in Seq(Command) /\ command' \in Command
      BY <1>1, HeadTailFacts DEF CallInv, TypeOK
    <2>2. /\ Holds(commands_, kind) <=> command' \in kind \/ Holds(commands_', kind)
          /\ LastIs(commands_, kind, x) <=>
               IF Holds(commands_', kind) THEN LastIs(commands_', kind, x) ELSE command' = x
      BY <1>1, <2>1, TailLast
    <2>3. command' \in kind => at' = "serve"
      BY <2>1 DEF fetchCommand
    <2> QED BY <2>2, <2>3
  <1>2. CASE RunsOn /\ command' = NIL /\ UNCHANGED commands_
    <2>1. commands_ = <<>> /\ at' = "execute"
      BY <1>2 DEF RunsOn, fetchCommand, NIL, Entry
    <2>2. ~Holds(commands_, kind)
      BY <2>1 DEF Holds
    <2> QED BY <1>2, <2>1, <2>2
  <1> QED BY <1>1, <1>2 DEF fetchCommand

\* The rest of the executor's steps see no setting, except serveSetting.
LEMMA OtherSteps ==
    ASSUME CallInv, run, ~fetchCommand, ~serveSetting
    PROVE  /\ UNCHANGED <<commands_, command, breakpoints_, breakOnMovx_>>
           /\ at = "serve" => command.op \in StateOp
           /\ at' /= "serve"
  <1> USE DEF settings, loop
  <1>1. CASE doStartExecution \/ doStopExecution \/ checkBreakOnMovx \/ checkBreakpoints
    BY <1>1 DEF doStartExecution, doStopExecution, AfterStop, checkBreakOnMovx,
                checkBreakpoints, Emission
  <1>2. CASE Emit
    BY <1>2 DEF Emit, Emission, AfterStop
  <1>3. CASE executeSingleInstr \/ register \/ doReset
    BY <1>3, Zenon DEF executeSingleInstr, register, doReset, Reset
  <1>4. CASE serveLoadState \/ serveSaveState \/ release
    BY <1>4 DEF serveLoadState, serveSaveState, release, StateOp
  <1> QED BY <1>1, <1>2, <1>3, <1>4 DEF run

LEMMA RunMarks ==
    ASSUME CallInv, MarksAgree, run, UNCHANGED <<marks, checked>>
    PROVE  MarksAgree'
  <1>1. CASE fetchCommand
    <2>1. UNCHANGED <<breakpoints_, breakOnMovx_>> /\ at /= "serve"
      BY <1>1 DEF fetchCommand, settings
    <2>2. ASSUME NEW addr \in Addr PROVE WillBreak(addr)' <=> WillBreak(addr)
      <3>1. /\ AddBp(addr) \in AboutBp(addr)
            /\ \A c \in Command : c \in AboutBp(addr) => Entry(c.op) = "serve"
        BY BpCommands DEF AddBp, AboutBp, BreakpointOp, Entry
      <3> QED BY <1>1, <2>1, <3>1, FetchKind DEF WillBreak
    <2>3. WillBreakOnMovx' <=> WillBreakOnMovx
      <3>1. /\ BreakOn \in AboutMovx
            /\ \A c \in Command : c \in AboutMovx => Entry(c.op) = "serve"
        BY MovxCommands DEF BreakOn, AboutMovx, Entry
      <3> QED BY <1>1, <2>1, <3>1, FetchKind DEF WillBreakOnMovx
    <2> QED BY <2>2, <2>3 DEF MarksAgree
  <1>2. CASE serveSetting
    <2>1. /\ at = "serve" /\ at' = "fetch" /\ UNCHANGED <<commands_, command>>
          /\ breakpoints_' = CASE command.op = "ADD_BP"    -> breakpoints_ \cup {command.param}
                               [] command.op = "REMOVE_BP" -> breakpoints_ \ {command.param}
                               [] OTHER                    -> breakpoints_
          /\ breakOnMovx_' = IF command.op = "BREAK_ON_MOVX" THEN command.param
                                                             ELSE breakOnMovx_
      BY <1>2 DEF serveSetting, loop
    <2>2. command \in Command
      BY <2>1 DEF CallInv, TypeOK, HeldCommand, NIL, BreakpointOp, StateOp
    <2>3. ASSUME NEW addr \in Addr PROVE WillBreak(addr)' <=> WillBreak(addr)
      <3>1. CASE Holds(commands_, AboutBp(addr))
        BY <2>1, <3>1 DEF WillBreak
      <3>2. CASE ~Holds(commands_, AboutBp(addr))
        <4>1. WillBreak(addr)' <=> addr \in breakpoints_'
          BY <2>1, <3>2 DEF WillBreak
        <4>2. WillBreak(addr) <=> IF command \in AboutBp(addr) THEN command = AddBp(addr)
                                  ELSE addr \in breakpoints_
          BY <2>1, <3>2 DEF WillBreak
        <4>3. addr \in breakpoints_' <=> IF command \in AboutBp(addr) THEN command = AddBp(addr)
                                         ELSE addr \in breakpoints_
          BY <2>1, <2>2, BpCommands DEF BreakpointOp
        <4> QED BY <4>1, <4>2, <4>3
      <3> QED BY <3>1, <3>2
    <2>4. WillBreakOnMovx' <=> WillBreakOnMovx
      <3>1. CASE Holds(commands_, AboutMovx)
        BY <2>1, <3>1 DEF WillBreakOnMovx
      <3>2. CASE ~Holds(commands_, AboutMovx)
        <4>1. breakOnMovx_' <=> IF command \in AboutMovx THEN command = BreakOn
                                                          ELSE breakOnMovx_
          BY <2>1, <2>2, MovxCommands, Zenon
        <4> QED BY <2>1, <3>2, <4>1, Zenon DEF WillBreakOnMovx
      <3> QED BY <3>1, <3>2
    <2> QED BY <2>3, <2>4 DEF MarksAgree
  <1>3. CASE ~fetchCommand /\ ~serveSetting
    <2>1. /\ UNCHANGED <<commands_, command, breakpoints_, breakOnMovx_>>
          /\ at = "serve" => command.op \in StateOp
          /\ at' /= "serve"
      BY <1>3, OtherSteps
    <2>2. at = "serve" => command \notin AboutMovx /\ \A addr : command \notin AboutBp(addr)
      BY <2>1 DEF AboutMovx, AboutBp, StateOp, BreakpointOp
    <2> QED BY <2>1, <2>2 DEF MarksAgree, WillBreak, WillBreakOnMovx
  <1> QED BY <1>1, <1>2, <1>3

LEMMA PostMarks ==
    ASSUME CallInv, MarksAgree, NEW cmd \in Command, Posts(cmd)
    PROVE  MarksAgree'
  <1>1. /\ commands_ \in Seq(Command) /\ commands_' = Append(commands_, cmd)
        /\ UNCHANGED <<at, command, breakpoints_, breakOnMovx_>>
        /\ marks' = MarksWith(cmd) /\ checked' = CheckedWith(cmd)
    BY DEF Posts, postCommand, Enqueue, settings, loop, CallInv, TypeOK
  <1>2. ASSUME NEW addr \in Addr PROVE (WillBreak(addr) <=> addr \in marks)'
    <2>1. AddBp(addr) \in AboutBp(addr)
      BY BpCommands
    <2>2. WillBreak(addr)' <=> IF cmd \in AboutBp(addr) THEN cmd = AddBp(addr)
                                                        ELSE WillBreak(addr)
      BY <1>1, <2>1, AppendLast DEF WillBreak
    <2>3. addr \in marks' <=> IF cmd \in AboutBp(addr) THEN cmd = AddBp(addr)
                                                        ELSE addr \in marks
      BY <1>1, BpCommands DEF MarksWith, BreakpointOp
    <2> QED BY <2>2, <2>3 DEF MarksAgree
  <1>3. (WillBreakOnMovx <=> checked)'
    <2>1. WillBreakOnMovx' <=> IF cmd \in AboutMovx THEN cmd = BreakOn ELSE WillBreakOnMovx
      BY <1>1, MovxCommands, AppendLast DEF WillBreakOnMovx
    <2>2. checked' <=> IF cmd \in AboutMovx THEN cmd = BreakOn ELSE checked
      BY <1>1, MovxCommands, Zenon DEF CheckedWith
    <2> QED BY <2>1, <2>2 DEF MarksAgree
  <1> QED BY <1>2, <1>3 DEF MarksAgree

LEMMA StepMarks ==
    ASSUME CallInv, UiInv, MarksAgree, [Next]_vars
    PROVE  MarksAgree'
  <1>1. CASE run /\ UNCHANGED windowVars
    BY <1>1, RunMarks DEF windowVars
  <1>2. CASE \E cmd \in Command : Posts(cmd)
    BY <1>2, PostMarks
  <1>3. ASSUME UNCHANGED <<commands_, at, command, breakpoints_, breakOnMovx_, marks, checked>>
        PROVE  MarksAgree'
    BY <1>3 DEF MarksAgree, WillBreak, WillBreakOnMovx
  <1>4. CASE HandleSignal \/ Unseen \/ ((Ended \/ UNCHANGED threadVars) /\ UNCHANGED windowVars)
    BY <1>3, <1>4 DEF HandleSignal, Deliver, settings, loop, Unseen, Ended, threadVars, windowVars
  <1> QED BY <1>1, <1>2, <1>4, UiStep DEF Next, vars, CallInv

\* Each mark is where the executor stops once it has served the queue, for any number of
\* clicks under way (i8049disassemblywidget.cpp:146-156, executorthread.cpp:149-157).
THEOREM MarksAreBreakpoints == Spec => []MarksAgree
  <1>1. Init => MarksAgree
    BY DEF Init, ThreadInit, MarksAgree, WillBreak, WillBreakOnMovx, Holds
  <1>2. CallInv /\ UiInv /\ [Next]_vars => CallInv' /\ UiInv'
    BY StepIsThread, StepCall DEF CallInv
  <1> QED BY <1>1, <1>2, StepMarks, InitUi, InitCall, PTL DEF Spec

-----------------------------------------------------------------------------
(* What is shown.                                                          *)

\* Removing the head does not mind what is put behind.
LEMMA TailConcat ==
    ASSUME NEW S, NEW q \in Seq(S), NEW r \in Seq(S), q /= <<>>
    PROVE  q \o r /= <<>> /\ Head(q \o r) = Head(q) /\ Tail(q \o r) = Tail(q) \o r
  <1>1. Len(q) \in Nat \ {0} /\ Tail(q) \in Seq(S) /\ Len(Tail(q)) = Len(q) - 1
    BY HeadTailFacts
  <1>2. q \o r \in Seq(S) /\ q \o r /= <<>> /\ Head(q \o r) = Head(q)
    BY <1>1
  <1>3. Tail(q) \o r \in Seq(S) /\ Tail(q \o r) \in Seq(S)
    BY <1>1, <1>2
  <1>4. Tail(q \o r) = Tail(q) \o r
    BY <1>1, <1>2, <1>3
  <1> QED BY <1>2, <1>4

LEMMA EmissionFacts ==
    ASSUME at \in Emitting
    PROVE  /\ Emission[at].emits = IF at = "started" THEN <<"executionStarted">>
                                   ELSE IF at = "stopped" THEN <<"executionStopped">>
                                   ELSE <<"breakpointHit", "executionStopped">>
           /\ Emission[at].emits \in Seq(Signal)
           /\ Emission'[at].emits = Emission[at].emits
  <1>1. /\ <<"executionStarted">> \in Seq(Signal) /\ <<"executionStopped">> \in Seq(Signal)
        /\ <<"breakpointHit", "executionStopped">> \in Seq(Signal)
    BY DEF Signal
  <1>2. Emission[at].emits = IF at = "started" THEN <<"executionStarted">>
                             ELSE IF at = "stopped" THEN <<"executionStopped">>
                             ELSE <<"breakpointHit", "executionStopped">>
    BY DEF Emitting, Emission, HitSignals
  <1>3. Emission'[at].emits = Emission[at].emits
    BY DEF Emitting, Emission
  <1> QED BY <1>1, <1>2, <1>3

\* The signals to come are signals, also while some are about to be emitted.
LEMMA ToComeType == TypeOK => ToCome \in Seq(Signal)
  <1> SUFFICES ASSUME TypeOK PROVE ToCome \in Seq(Signal)
    OBVIOUS
  <1>1. CASE at \in Emitting
    <2>1. Emission[at].emits \in Seq(Signal) /\ signals \in Seq(Signal)
      BY <1>1, EmissionFacts DEF TypeOK
    <2> QED BY <1>1, <2>1 DEF ToCome
  <1>2. CASE at \notin Emitting
    BY <1>2 DEF TypeOK, ToCome
  <1> QED BY <1>1, <1>2

\* One more signal on its way, that decides nothing.
LEMMA OneMore ==
    ASSUME TypeOK, ShowInv, NEW x \in Signal \ (Deciding \cup {"breakpointHit"}),
           ToCome' = Append(ToCome, x), UNCHANGED <<isRunning_, buttons, title>>, Started'
    PROVE  ShowInv'
  <1>1. ToCome \in Seq(Signal)
    BY ToComeType
  <1>2. /\ Len(ToCome') = Len(ToCome) + 1 /\ Len(ToCome) \in Nat
        /\ \A i \in 1..Len(ToCome) : ToCome'[i] = ToCome[i]
        /\ ToCome'[Len(ToCome) + 1] = x
    BY <1>1, AppendFacts
  <1>3. HitThenStop'
    BY <1>2 DEF ShowInv, HitThenStop
  <1>4. /\ Holds(ToCome', Deciding) <=> Holds(ToCome, Deciding)
        /\ LastIs(ToCome', Deciding, "executionStarted")
             <=> LastIs(ToCome, Deciding, "executionStarted")
    BY <1>1, AppendLast DEF Deciding
  <1> QED BY <1>3, <1>4 DEF ShowInv, LastIsRight, ShownIsRight, Actual

\* A signal on its way that decides, for the right value of isRunning_.
LEMMA OneDecides ==
    ASSUME TypeOK, NEW q \in Seq(Signal), NEW x \in Deciding, ToCome' = Append(q, x),
           \A i \in 1..Len(q) : q[i] = "breakpointHit" =>
               IF i = Len(q) THEN x = "executionStopped" ELSE q[i + 1] = "executionStopped",
           isRunning_' <=> x = "executionStarted", Started'
    PROVE  ShowInv'
  <1>1. x \in Signal /\ "executionStarted" \in Deciding
    BY DEF Deciding, Signal
  <1>2. /\ Len(ToCome') = Len(q) + 1 /\ Len(q) \in Nat
        /\ \A i \in 1..Len(q) : ToCome'[i] = q[i]
        /\ ToCome'[Len(q) + 1] = x
    BY <1>1, AppendFacts
  <1>3. HitThenStop'
    BY <1>2 DEF HitThenStop, Deciding
  <1>4. /\ Holds(ToCome', Deciding)
        /\ LastIs(ToCome', Deciding, "executionStarted") <=> x = "executionStarted"
    BY <1>1, AppendLast
  <1> QED BY <1>3, <1>4 DEF ShowInv, LastIsRight, ShownIsRight

LEMMA SameShow ==
    ASSUME ShowInv, ToCome' = ToCome, UNCHANGED <<isRunning_, buttons, title>>, Started'
    PROVE  ShowInv'
  BY DEF ShowInv, HitThenStop, LastIsRight, ShownIsRight, Actual

LEMMA HandleShow ==
    ASSUME TypeOK, ShowInv, HandleSignal
    PROVE  ShowInv'
  <1> DEFINE h == Head(signals)
  <1>1. /\ signals \in Seq(Signal) /\ signals /= <<>> /\ signals' = Tail(signals)
        /\ UNCHANGED <<at, isRunning_, command>>
        /\ buttons' = ButtonsAfter(h) /\ title' = TitleAfter(h)
    BY DEF HandleSignal, Deliver, loop, TypeOK
  <1>2. ToCome \in Seq(Signal)
    BY ToComeType
  <1>3. ToCome /= <<>> /\ Head(ToCome) = h /\ ToCome' = Tail(ToCome)
    <2>1. CASE at \notin Emitting
      BY <1>1, <2>1 DEF ToCome
    <2>2. CASE at \in Emitting
      <3> DEFINE e == Emission[at].emits
      <3>1. e \in Seq(Signal) /\ Emission'[at].emits = e
        BY <2>2, EmissionFacts
      <3>2. ToCome = signals \o e /\ ToCome' = Tail(signals) \o e
        BY <1>1, <2>2, <3>1 DEF ToCome
      <3> HIDE DEF e
      <3> QED BY <1>1, <3>1, <3>2, TailConcat
    <2> QED BY <2>1, <2>2
  <1>4. /\ Len(ToCome) = Len(ToCome') + 1 /\ Len(ToCome') \in Nat /\ h = ToCome[1]
        /\ \A i \in 1..Len(ToCome') : ToCome'[i] = ToCome[i + 1]
    BY <1>2, <1>3, HeadTailFacts
  <1>5. HitThenStop'
    <2> SUFFICES ASSUME NEW i \in 1..Len(ToCome'), ToCome'[i] = "breakpointHit"
                 PROVE  i + 1 \in 1..Len(ToCome') /\ ToCome'[i + 1] = "executionStopped"
      BY DEF HitThenStop
    <2>1. i + 1 \in 1..Len(ToCome) /\ ToCome[i + 1] = "breakpointHit"
      BY <1>4
    <2>2. (i + 1) + 1 \in 1..Len(ToCome) /\ ToCome[(i + 1) + 1] = "executionStopped"
      BY <2>1 DEF ShowInv, HitThenStop
    <2> QED BY <1>4, <2>2
  <1>6. /\ Holds(ToCome, Deciding) <=> h \in Deciding \/ Holds(ToCome', Deciding)
        /\ LastIs(ToCome, Deciding, "executionStarted") <=>
             IF Holds(ToCome', Deciding) THEN LastIs(ToCome', Deciding, "executionStarted")
                                         ELSE h = "executionStarted"
    BY <1>2, <1>3, TailLast DEF Deciding
  <1>7. LastIsRight'
    BY <1>1, <1>6 DEF ShowInv, LastIsRight
  <1>8. ASSUME ~Holds(ToCome', Deciding)
        PROVE  buttons' \in {NewButtons, Actual'} /\ (isRunning_' => title' /= "stopped")
    <2>1. h /= "breakpointHit"
      <3>1. ASSUME h = "breakpointHit" PROVE FALSE
        <4>1. 1 \in 1..Len(ToCome) /\ 1 + 1 \in 1..Len(ToCome)
              /\ ToCome[1 + 1] = "executionStopped"
          BY <1>4, <3>1 DEF ShowInv, HitThenStop
        <4>2. 1 \in 1..Len(ToCome') /\ ToCome'[1] = "executionStopped"
          BY <1>4, <4>1
        <4> QED BY <1>8, <4>2 DEF Holds, Deciding
      <3> QED BY <3>1
    <2>2. CASE h = "executionStarted"
      BY <1>1, <1>6, <1>8, <2>2 DEF ShowInv, LastIsRight, Deciding, ButtonsAfter, TitleAfter, Actual
    <2>3. CASE h = "executionStopped"
      BY <1>1, <1>6, <1>8, <2>3 DEF ShowInv, LastIsRight, Deciding, ButtonsAfter, TitleAfter, Actual
    <2>4. CASE h \notin Deciding
      <3>1. buttons \in {NewButtons, Actual} /\ (isRunning_ => title /= "stopped")
        BY <1>6, <1>8, <2>4 DEF ShowInv, ShownIsRight
      <3>2. CASE h = "resetExecuted"
        BY <1>1, <3>1, <3>2 DEF ButtonsAfter, TitleAfter, Actual
      <3>3. CASE h = "performanceUpdate"
        BY <1>1, <3>1, <3>3 DEF ButtonsAfter, TitleAfter, Actual
      <3>4. h \in Signal
        BY <1>1, HeadTailFacts
      <3> QED BY <2>1, <2>4, <3>2, <3>3, <3>4 DEF Signal, Deciding
    <2> QED BY <2>2, <2>3, <2>4 DEF Deciding
  <1>9. Started'
    BY <1>1 DEF ShowInv, Started
  <1> QED BY <1>5, <1>7, <1>8, <1>9 DEF ShowInv, ShownIsRight
\* The executor assigned isRunning_ and is about to say so.
LEMMA AnnounceShow ==
    ASSUME TypeOK, ShowInv, at \notin Emitting, at' \in Emitting, UNCHANGED signals,
           isRunning_' <=> at' = "started"
    PROVE  ShowInv'
  <1> USE DEF Deciding, Signal
  <1>1. signals \in Seq(Signal) /\ ToCome = signals
    BY DEF TypeOK, ToCome
  <1>2. \A i \in 1..Len(signals) : signals[i] = "breakpointHit" =>
            i /= Len(signals) /\ signals[i + 1] = "executionStopped"
    BY <1>1 DEF ShowInv, HitThenStop
  <1>3. ToCome' = signals \o Emission'[at'].emits
    BY DEF ToCome
  <1>4. Started'
    BY DEF Started
  <1>5. CASE at' = "started"
    <2>1. Emission'[at'].emits = <<"executionStarted">>
      BY <1>5 DEF Emission
    <2>2. ToCome' = Append(signals, "executionStarted")
      BY <1>1, <1>3, <2>1
    <2> QED BY <1>1, <1>2, <1>4, <1>5, <2>2, OneDecides
  <1>6. CASE at' = "stopped"
    <2>1. Emission'[at'].emits = <<"executionStopped">>
      BY <1>6 DEF Emission
    <2>2. ToCome' = Append(signals, "executionStopped")
      BY <1>1, <1>3, <2>1
    <2> QED BY <1>1, <1>2, <1>4, <1>6, <2>2, OneDecides
  <1>7. CASE at' \in {"movxHit", "breakpointHit"}
    <2> DEFINE q == Append(signals, "breakpointHit")
    <2>1. Emission'[at'].emits = <<"breakpointHit", "executionStopped">>
      BY <1>7 DEF Emission, HitSignals
    <2>2. ToCome' = Append(q, "executionStopped")
      BY <1>1, <1>3, <2>1
    <2>3. /\ q \in Seq(Signal) /\ Len(q) = Len(signals) + 1 /\ Len(signals) \in Nat
          /\ q[Len(q)] = "breakpointHit"
          /\ \A i \in 1..Len(signals) : q[i] = signals[i]
      BY <1>1, AppendFacts
    <2> HIDE DEF q
    <2>4. \A i \in 1..Len(q) : q[i] = "breakpointHit" =>
              IF i = Len(q) THEN TRUE ELSE q[i + 1] = "executionStopped"
      BY <1>2, <2>3
    <2> QED BY <1>4, <1>7, <2>2, <2>3, <2>4, OneDecides
  <1> QED BY <1>5, <1>6, <1>7 DEF Emitting

\* A step of the executor that leaves isRunning_ alone and emits at most what decides nothing.
LEMMA QuietShow ==
    ASSUME TypeOK, ShowInv, at \notin Emitting, at' \notin Emitting,
           UNCHANGED <<isRunning_, buttons, title>>,
           \/ UNCHANGED signals
           \/ \E x \in {"resetExecuted", "performanceUpdate"} : signals' = Append(signals, x)
    PROVE  ShowInv'
  <1>1. ToCome = signals /\ ToCome' = signals' /\ Started'
    BY DEF ToCome, Started, Emitting
  <1>2. CASE UNCHANGED signals
    BY <1>1, <1>2, SameShow
  <1>3. CASE \E x \in {"resetExecuted", "performanceUpdate"} : signals' = Append(signals, x)
    <2>1. PICK x \in {"resetExecuted", "performanceUpdate"} : signals' = Append(signals, x)
      BY <1>3
    <2>2. x \in Signal \ (Deciding \cup {"breakpointHit"})
      BY DEF Signal, Deciding
    <2> QED BY <1>1, <2>1, <2>2, OneMore
  <1> QED BY <1>2, <1>3

\* serveLoadState() emits two signals that decide nothing.
LEMMA LoadShow ==
    ASSUME TypeOK, ShowInv, serveLoadState, UNCHANGED <<buttons, title>>
    PROVE  ShowInv'
  <1> DEFINE r == signals \o <<"resetExecuted", "resetExecuted">>
             n == Len(signals)
  <1>1. /\ at = "serve" /\ at' = "release" /\ signals' = r /\ UNCHANGED isRunning_
        /\ signals \in Seq(Signal)
    BY DEF serveLoadState, TypeOK
  <1>2. ToCome = signals /\ ToCome' = r /\ Started'
    BY <1>1 DEF ToCome, Started, Emitting
  <1>3. /\ Append(signals, "resetExecuted") \in Seq(Signal)
        /\ r = Append(Append(signals, "resetExecuted"), "resetExecuted")
    BY <1>1 DEF Signal
  <1> HIDE DEF r
  <1>4. /\ n \in Nat /\ Len(r) = n + 2 /\ r[n + 1] = "resetExecuted" /\ r[n + 2] = "resetExecuted"
        /\ \A i \in 1..n : r[i] = signals[i]
    BY <1>1, <1>3, AppendFacts DEF Signal
  <1>5. HitThenStop'
    BY <1>2, <1>4 DEF ShowInv, HitThenStop
  <1>6. /\ Holds(r, Deciding) <=> Holds(signals, Deciding)
        /\ LastIs(r, Deciding, "executionStarted")
             <=> LastIs(signals, Deciding, "executionStarted")
    <2>1. /\ "resetExecuted" \in Signal /\ "resetExecuted" \notin Deciding
          /\ "executionStarted" \in Deciding
      BY DEF Deciding, Signal
    <2> DEFINE q == Append(signals, "resetExecuted")
    <2>2. /\ Holds(q, Deciding) <=> Holds(signals, Deciding)
          /\ LastIs(q, Deciding, "executionStarted")
               <=> LastIs(signals, Deciding, "executionStarted")
      BY <1>1, <2>1, AppendLast
    <2>3. q \in Seq(Signal) /\ r = Append(q, "resetExecuted")
      BY <1>3
    <2> HIDE DEF q
    <2>4. /\ Holds(r, Deciding) <=> Holds(q, Deciding)
          /\ LastIs(r, Deciding, "executionStarted") <=> LastIs(q, Deciding, "executionStarted")
      BY <2>1, <2>3, AppendLast
    <2> QED BY <2>2, <2>4
  <1> QED BY <1>1, <1>2, <1>5, <1>6 DEF ShowInv, LastIsRight, ShownIsRight, Actual

LEMMA RunShow ==
    ASSUME CallInv, BreakInv, ShowInv, run, UNCHANGED <<buttons, title>>
    PROVE  ShowInv'
  <1> USE DEF settings, loop, CallInv
  <1>1. CASE fetchCommand
    <2>1. at \notin Emitting /\ at' \notin Emitting /\ UNCHANGED <<isRunning_, signals>>
      BY <1>1 DEF fetchCommand, Entry, Emitting
    <2> QED BY <2>1, QuietShow
  <1>2. CASE doStartExecution
    <2>1. CASE isRunning_
      BY <1>2, <2>1, QuietShow DEF doStartExecution, Emitting
    <2>2. CASE ~isRunning_
      BY <1>2, <2>2, AnnounceShow DEF doStartExecution, Emitting
    <2> QED BY <2>1, <2>2
  <1>3. CASE doStopExecution
    <2>1. CASE isRunning_
      BY <1>3, <2>1, AnnounceShow DEF doStopExecution, Emitting
    <2>2. CASE ~isRunning_
      <3>1. at \notin Emitting /\ at' \notin Emitting /\ UNCHANGED signals /\ ~isRunning_'
        BY <1>3, <2>2 DEF doStopExecution, AfterStop, Emitting
      <3>2. isRunning_ \in BOOLEAN
        BY DEF TypeOK, FlagsOK
      <3>3. UNCHANGED isRunning_
        BY <1>3, <2>2, <3>2 DEF doStopExecution
      <3> QED BY <3>1, <3>3, QuietShow
    <2> QED BY <2>1, <2>2
  <1>4. CASE Emit
    <2>1. at \in Emitting /\ UNCHANGED isRunning_
          /\ signals' = signals \o Emission[at].emits /\ at' = Emission[at].next
      BY <1>4 DEF Emit, Emitting
    <2>2. at' \notin Emitting
      BY <2>1 DEF Emission, AfterStop, Emitting
    <2>3. ToCome' = ToCome /\ Started'
      BY <2>1, <2>2 DEF ToCome, Started, Emitting
    <2> QED BY <2>1, <2>3, SameShow
  <1>5. CASE executeSingleInstr
    <2>1. at \notin Emitting /\ at' \notin Emitting /\ UNCHANGED isRunning_
          /\ (UNCHANGED signals \/ signals' = Append(signals, "resetExecuted"))
      BY <1>5, Zenon DEF executeSingleInstr, Emitting
    <2> QED BY <2>1, QuietShow
  <1>6. CASE checkBreakOnMovx
    BY <1>6, AnnounceShow, QuietShow DEF checkBreakOnMovx, Emitting
  <1>7. CASE checkBreakpoints
    <2>1. Emission.breakpointHit.next \notin Emitting
      BY DEF Emission, Emitting
    <2>2. CASE BreakpointHere
      BY <1>7, <2>2, AnnounceShow DEF checkBreakpoints, Emitting
    <2>3. CASE ~BreakpointHere
      BY <1>7, <2>1, <2>3, QuietShow DEF checkBreakpoints, Emitting
    <2> QED BY <2>2, <2>3
  <1>8. CASE register
    BY <1>8, QuietShow DEF register, Emitting
  <1>9. CASE doReset
    BY <1>9, QuietShow DEF doReset, Reset, Emitting
  <1>10. CASE serveLoadState
    BY <1>10, LoadShow
  <1>11. CASE serveSetting \/ serveSaveState \/ release
    BY <1>11, QuietShow DEF serveSetting, serveSaveState, release, Emitting
  <1> QED BY <1>1, <1>2, <1>3, <1>4, <1>5, <1>6, <1>7, <1>8, <1>9, <1>10, <1>11 DEF run

LEMMA StepShow ==
    ASSUME CallInv, BreakInv, UiInv, ShowInv, [Next]_vars
    PROVE  ShowInv'
  <1>1. CASE run /\ UNCHANGED windowVars
    BY <1>1, RunShow DEF windowVars
  <1>2. ASSUME UNCHANGED <<at, command, signals, isRunning_, buttons, title>>
        PROVE  ShowInv'
    <2>1. ToCome' = ToCome /\ Started'
      BY <1>2 DEF ToCome, Emission, ShowInv, Started
    <2> QED BY <1>2, <2>1, SameShow
  <1>3. CASE \E cmd \in Command : Posts(cmd)
    BY <1>2, <1>3 DEF Posts, postCommand, loop
  <1>4. CASE HandleSignal
    BY <1>4, HandleShow DEF CallInv
  <1>5. CASE Unseen \/ ((Ended \/ UNCHANGED threadVars) /\ UNCHANGED windowVars)
    BY <1>2, <1>5 DEF Unseen, Ended, threadVars, windowVars
  <1> QED BY <1>1, <1>3, <1>4, <1>5, UiStep DEF Next, vars, CallInv

LEMMA InitShow == Init => ShowInv
  <1> SUFFICES ASSUME Init PROVE ShowInv
    OBVIOUS
  <1>1. ToCome = <<>> /\ at = "fetch" /\ ~isRunning_ /\ buttons = NewButtons
    BY DEF Init, ThreadInit, ToCome, Emitting
  <1>2. Len(ToCome) = 0
    BY <1>1
  <1> QED BY <1>1, <1>2 DEF ShowInv, Started, HitThenStop, LastIsRight, ShownIsRight, Holds

LEMMA ShowHolds == Spec => [](CallInv /\ UiInv /\ BreakInv /\ ShowInv)
  <1>1. CallInv /\ UiInv /\ StopInv /\ BreakInv /\ [Next]_vars
          => CallInv' /\ UiInv' /\ StopInv' /\ BreakInv'
    BY StepIsThread, StepCall, StepStop DEF CallInv
  <1> QED BY <1>1, InitUi, InitCall, InitStop, InitShow, StepShow, PTL DEF Spec

\* Once the windows have heard everything, nothing is to come.
LEMMA NothingToCome == Heard => ~Holds(ToCome, Deciding)
  BY DEF Heard, ToCome, Emitting, Holds

\* Once every signal is handled, the actions of the CPU window offer what the executor can
\* do, for any number of signals on their way before (cpuwindow.cpp:98-135).
THEOREM ButtonsShowTruth == Spec => []ButtonsAgree
  <1>1. ShowInv => ButtonsAgree
    BY NothingToCome DEF ShowInv, ShownIsRight, ButtonsAgree, Actual
  <1> QED BY <1>1, ShowHolds, PTL

\* And the title of a running emulator does not say that it is stopped
\* (panelwindow.cpp:60-67).
THEOREM TitleShowsTruth == Spec => []TitleNotStopped
  <1>1. ShowInv => TitleNotStopped
    BY NothingToCome DEF ShowInv, ShownIsRight, TitleNotStopped, Heard
  <1> QED BY <1>1, ShowHolds, PTL
=============================================================================
