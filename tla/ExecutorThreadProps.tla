------------------------ MODULE ExecutorThreadProps ------------------------
(***************************************************************************)
(* What the thread owes to the windows that call it, stated over the       *)
(* specification of ExecutorThread.                                        *)
(***************************************************************************)
EXTENDS ExecutorThread

Queued(ops) == \E i \in 1..Len(commands_) : commands_[i].op \in ops

\* A run control command was posted and is not done with yet.
ControlPending == Queued(ControlOp) \/ (at /= "fetch" /\ command.op \in ControlOp)

\* loadState() and saveState() pass pointers into their own stack frame.  Whenever
\* the executor still holds such a command, queued or fetched, the caller is inside
\* that very call, its semaphore is untouched, and no later command exists: neither
\* pointer is ever used after the call returned (executorthread.cpp:82-102, 158-169).
CallerOwnsState ==
    /\ \A i \in 1..Len(commands_) : commands_[i].op \in StateOp =>
           caller = commands_[i].op /\ done = 0 /\ i = Len(commands_)
    /\ at \in {"serve", "release"} /\ command.op \in StateOp =>
           caller = command.op /\ done = 0 /\ commands_ = <<>>

\* The state a call hands over is the machine of one moment between two instructions:
\* when the executor releases the caller, the three parts of *state and the three parts
\* of the machine are the same, although the UI thread may write the RAMs at any time
\* it is not blocked (executorthread.cpp:158-169, assemblerwindow.cpp:139-148).
StateIsMachine == at = "release" => callerState = machine

\* STOP prevails: when the last run control command posted is STOP and it was taken, the
\* machine is stopped and no instruction is under way, whatever breakpoints, loads and
\* earlier commands did around it (executorthread.cpp:110-174, 189-194).
StopPrevails ==
    lastControl = "STOP" /\ ~ControlPending => ~isRunning_ /\ at /= "execute"

\* A running machine never goes on from an instruction it has just reached and should
\* have stopped at: neither one with a breakpoint nor, with the option set, a MOVX
\* (executorthread.cpp:223-239).
NoRunThroughBreakpoint ==
    at = "fetch" /\ isRunning_ /\ arrived =>
        machine.cpu \notin breakpoints_ /\ ~(breakOnMovx_ /\ machine.cpu \in Movx)

\* After the UI thread asked the machine to stop, it does stop, however many other
\* commands are queued around it (executorthread.cpp:205-221).
StopIsServed == lastControl \in {"STOP", "RESET"} ~> ~isRunning_ \/ lastControl = "START"

\* loadState() and saveState() return: the window that called one does not freeze
\* (executorthread.cpp:82-102).
CallsReturn == caller \in StateOp ~> caller = "none"

\* The thread ends after quit(), so that wait() in main() returns (main.cpp:99-100).
QuitEnds == caller = "quit" ~> at = "finished"
=============================================================================
