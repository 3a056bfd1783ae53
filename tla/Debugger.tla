------------------------------ MODULE Debugger ------------------------------
(***************************************************************************)
(* The windows around the executor thread: CpuWindow (buttons, break on    *)
(* MOVX), the disassembly (breakpoint marks), the title of PanelWindow,    *)
(* the File menu of BaseWindow (load and save state), AssemblerWindow      *)
(* (upload of a program) and main().  All of them run in the one UI thread *)
(* and hear the executor's signals through its event queue.                *)
(***************************************************************************)
EXTENDS ExecutorThreadProps

CONSTANTS Codes    \* the programs the user assembles: RAM contents of both 8155s

ASSUME CodesOK == Codes \subseteq [pid : Content, pidExtension : Content \cup {"none"}]

VARIABLES
    buttons,     \* CpuWindow: which actions are enabled, and its child widgets
    marks,       \* DisassemblyContent::breakpoints_
    checked,     \* breakOnMovXAction_->isChecked()
    visible,     \* the CPU window is shown
    title,       \* the state PanelWindow shows in its title
    ui           \* what the UI thread executes: main(), its event loop, or an upload

windowVars == <<buttons, marks, checked, visible, title, ui>>
vars == <<threadVars, windowVars>>

EventLoop == [at |-> "exec"]
\* The locals of onAssembleClicked().
Upload == [at : {"writePid", "writeExtension", "restart"}, running : BOOLEAN, code : Codes]

Enabled == [step : BOOLEAN, stop : BOOLEAN, run : BOOLEAN, children : BOOLEAN]
NewButtons     == [step |-> TRUE, stop |-> TRUE, run |-> TRUE, children |-> FALSE]
RunningButtons == [step |-> FALSE, stop |-> TRUE, run |-> FALSE, children |-> FALSE]
StoppedButtons == [step |-> TRUE, stop |-> FALSE, run |-> TRUE, children |-> TRUE]

WindowTypes ==
    /\ buttons \in Enabled
    /\ marks \subseteq Addr
    /\ checked \in BOOLEAN /\ visible \in BOOLEAN
    /\ title \in {"running", "stopped", "percent"}
    /\ ui \in Upload \cup {EventLoop, [at |-> "main"]}
WindowTypeOK == TypeOK /\ WindowTypes

\* main() has reset the CPU, started the thread and created the windows.
Init ==
    /\ ThreadInit
    /\ buttons = NewButtons
    /\ marks = {} /\ checked = FALSE /\ visible = FALSE
    /\ title = "stopped"
    /\ ui = [at |-> "main"]

Idle == ui = EventLoop
Input == Idle /\ Room   \* the user does something

\* main() starts the execution and enters the event loop.
StartUp ==
    /\ ui.at = "main"
    /\ Control("START")
    /\ ui' = EventLoop
    /\ UNCHANGED <<buttons, marks, checked, visible, title>>

-----------------------------------------------------------------------------
(* User input.                                                             *)

\* The toolbar of CpuWindow; an action can be triggered only while enabled.
Click ==
    /\ Input /\ visible
    /\ \/ buttons.run /\ Control("START")
       \/ buttons.stop /\ Control("STOP")
       \/ buttons.step /\ Control("SINGLE_STEP")
       \/ Control("RESET")
    /\ UNCHANGED windowVars

ToggleBreakOnMovX ==
    /\ Input /\ visible
    /\ checked' = ~checked
    /\ setBreakOnMovX(checked')
    /\ UNCHANGED <<buttons, marks, visible, title, ui>>

\* mouseReleaseEvent() of an enabled disassembly.
ToggleBreakpoint(addr) ==
    /\ Input /\ visible /\ buttons.children
    /\ enableBreakpoint(addr, addr \notin marks)
    /\ marks' = IF addr \in marks THEN marks \ {addr} ELSE marks \cup {addr}
    /\ UNCHANGED <<buttons, checked, visible, title, ui>>

\* showEvent() and closeEvent() of CpuWindow.
ShowCpuWindow ==
    /\ Input /\ ~visible /\ Control("STOP")
    /\ visible' = TRUE
    /\ UNCHANGED <<buttons, marks, checked, title, ui>>

CloseCpuWindow ==
    /\ Input /\ visible /\ Control("START")
    /\ visible' = FALSE
    /\ UNCHANGED <<buttons, marks, checked, title, ui>>

\* onLoadStateClicked() with a readable file, onSaveStateClicked(), and the event
\* loop of main() left with a.exec().
FileMenu ==
    /\ Input
    /\ (\E state \in Files : loadState(state)) \/ saveState \/ quit
    /\ UNCHANGED windowVars

\* Faulty variant: the window stops the machine itself.
AssembleStopsItself(code) ==
    /\ Input /\ caller = "none" /\ "WRITE_RAM" \in Ops
    /\ ui' = [at |-> "writePid", running |-> isRunning_, code |-> code]
    /\ isRunning_' = FALSE
    /\ UNCHANGED <<commands_, settings, loop, at, machine, signals, call, lastControl,
                   arrived, buttons, marks, checked, visible, title>>

\* onAssembleClicked() without errors: read isRunning(), post STOP if it runs, write
\* both RAMs without waiting for the STOP, and post START if it ran.
AssembleClicked(code) ==
    /\ Input /\ caller = "none" /\ "WRITE_RAM" \in Ops
    /\ ui' = [at |-> "writePid", running |-> isRunning_, code |-> code]
    /\ IF isRunning_ THEN Control("STOP") ELSE UNCHANGED threadVars
    /\ UNCHANGED <<buttons, marks, checked, visible, title>>

WritePid ==
    /\ ui.at = "writePid"
    /\ writeRam("pid", ui.code.pid)
    /\ ui' = [ui EXCEPT !.at = "writeExtension"]
    /\ UNCHANGED <<buttons, marks, checked, visible, title>>

\* code.size() > 256.
SecondPage(code) == code.pidExtension /= "none"

WriteExtension ==
    /\ ui.at = "writeExtension"
    /\ IF SecondPage(ui.code)
         THEN writeRam("pidExtension", ui.code.pidExtension)
         ELSE UNCHANGED threadVars
    /\ ui' = [ui EXCEPT !.at = "restart"]
    /\ UNCHANGED <<buttons, marks, checked, visible, title>>

Restart ==
    /\ ui.at = "restart"
    /\ IF ui.running THEN Control("START") ELSE UNCHANGED threadVars
    /\ ui' = EventLoop
    /\ UNCHANGED <<buttons, marks, checked, visible, title>>

-----------------------------------------------------------------------------
(* Slots.                                                                  *)

\* onResetExecuted() asks the executor when the signal is handled, not when it was
\* emitted; the other slots rely on the signal alone.
ButtonsAfter(signal) ==
    CASE signal = "executionStarted" -> RunningButtons
      [] signal = "executionStopped" -> StoppedButtons
      [] signal = "resetExecuted"    -> IF isRunning_ THEN RunningButtons ELSE StoppedButtons
      [] signal = "breakpointHit"    -> [buttons EXCEPT !.children = TRUE]
      [] OTHER                       -> buttons

\* Faulty variant: a reset always shows "stopped".
TitleStoppedByReset(signal) ==
    CASE signal = "executionStarted"  -> "running"
      [] signal = "performanceUpdate" -> "percent"
      [] OTHER                        -> "stopped"

TitleAfter(signal) ==
    CASE signal = "executionStarted"                      -> "running"
      [] signal \in {"executionStopped", "breakpointHit"} -> "stopped"
      [] signal = "performanceUpdate"                     -> "percent"
      [] OTHER                                            -> title

HandleSignal ==
    /\ Idle /\ Deliver
    /\ buttons' = ButtonsAfter(Head(signals))
    /\ title' = TitleAfter(Head(signals))
    /\ UNCHANGED <<marks, checked, visible, ui>>

-----------------------------------------------------------------------------

UiNext ==
    \/ StartUp \/ Click \/ ToggleBreakOnMovX \/ (\E addr \in Addr : ToggleBreakpoint(addr))
    \/ ShowCpuWindow \/ CloseCpuWindow \/ FileMenu
    \/ (\E code \in Codes : AssembleClicked(code))
    \/ WritePid \/ WriteExtension \/ Restart \/ HandleSignal
    \/ Return /\ UNCHANGED windowVars

Next ==
    \/ run /\ UNCHANGED windowVars
    \/ UiNext
    \/ Ended /\ UNCHANGED windowVars

\* The executor thread is scheduled; the UI thread finishes what it is in and serves
\* its event queue.  User input is not fair.
Spec ==
    /\ Init /\ [][Next]_vars
    /\ WF_vars(run /\ UNCHANGED windowVars)
    /\ WF_vars(Return /\ UNCHANGED windowVars)
    /\ SF_vars(HandleSignal)
    /\ WF_vars(StartUp \/ WritePid \/ WriteExtension \/ Restart)

-----------------------------------------------------------------------------
(* Properties.                                                             *)

\* Nothing is on its way to the windows.
Heard == signals = <<>> /\ at \notin {"started", "stopped", "movxHit", "breakpointHit"}

\* Once every signal is handled and a first one was, the actions of the CPU window offer
\* exactly what the executor can do: Stop while it runs; Step, Run and the register views while it does
\* not.  Four slots decide this, one of them by reading isRunning_ late
\* (cpuwindow.cpp:98-135, executorthread.cpp:181-239).
ButtonsAgree ==
    Heard /\ buttons /= NewButtons =>
        buttons = IF isRunning_ THEN RunningButtons ELSE StoppedButtons

\* Once every signal is handled, the title of a running emulator does not say that it
\* is stopped (panelwindow.cpp:60-67).
TitleNotStopped == Heard /\ isRunning_ => title /= "stopped"

\* Some element of the queue q is of this kind; the last of them is x.
Holds(q, kind) == \E i \in 1..Len(q) : q[i] \in kind
LastIs(q, kind, x) ==
    \E i \in 1..Len(q) : q[i] = x /\ \A j \in i+1..Len(q) : q[j] \notin kind

\* Whether addr is a breakpoint once the executor has served what is queued.
AddBp(addr) == [op |-> "ADD_BP", param |-> addr]
AboutBp(addr) == [op : BreakpointOp, param : {addr}]
WillBreak(addr) ==
    IF Holds(commands_, AboutBp(addr)) THEN LastIs(commands_, AboutBp(addr), AddBp(addr))
    ELSE IF at = "serve" /\ command \in AboutBp(addr) THEN command = AddBp(addr)
    ELSE addr \in breakpoints_

BreakOn == [op |-> "BREAK_ON_MOVX", param |-> TRUE]
AboutMovx == [op : {"BREAK_ON_MOVX"}, param : BOOLEAN]
WillBreakOnMovx ==
    IF Holds(commands_, AboutMovx) THEN LastIs(commands_, AboutMovx, BreakOn)
    ELSE IF at = "serve" /\ command \in AboutMovx THEN command = BreakOn
    ELSE breakOnMovx_

\* The two copies of the stop conditions agree: a mark is drawn exactly where the
\* executor stops, or will stop when it has served the queue, and likewise for the
\* check box (i8049disassemblywidget.cpp:146-156, cpuwindow.cpp:197-199,
\* executorthread.cpp:149-157).
MarksAgree ==
    /\ \A addr \in Addr : WillBreak(addr) <=> addr \in marks
    /\ WillBreakOnMovx <=> checked

\* After the last control was STOP, the CPU window gets to show it: the thread serves
\* the queue and the window hears of it (cpuwindow.cpp:106-115, 230-232).
StopIsShown == lastControl = "STOP" ~> buttons = StoppedButtons \/ lastControl /= "STOP"
=============================================================================
