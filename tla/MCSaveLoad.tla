----------------------------- MODULE MCSaveLoad -----------------------------
(* A small instance of SaveLoad for TLC. *)
EXTENDS SaveLoad

MCCell == {{0}}
MCData == {{0}}
\* Select and deselect the main unit's chip; end the reset; select memory.
MCRaise == {{4, 5, 7}}
MCLower == {{5, 6, 7}, {4, 5, 7}, {4, 5, 6}}

\* Two states, in which no two flags side by side, nor two with one between them, are equal
\* in both; the bytes are distinct.
Code == [tf |-> 1, notInt |-> 2, timerInterruptRequested |-> 3, t0 |-> 0, t1 |-> 1,
         externalInterruptsEnabled |-> 2, tcntInterruptsEnabled |-> 3,
         counterRunning |-> 0, timerRunning |-> 1, inInterrupt |-> 2]
CpuWith(flags) ==
    [f \in DOMAIN Code |-> flags[f]] @@
    [t |-> {1}, a |-> {}, pc |-> 515, psw |-> {3}, dbf |-> {0}, f1 |-> {0, 1},
     cyclesUntilCount |-> {2}, rom |-> <<{4}, {5}, {6}>>, ram |-> <<{7}, {6, 7}>>]
MCCpus == {CpuWith([f \in DOMAIN Code |-> b \in ToByte(Code[f])]) : b \in 0..1}
MCFresh == CpuWith([f \in DOMAIN Code |-> f = "notInt"])
=============================================================================
