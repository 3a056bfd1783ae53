----------------------------- MODULE MCDebugger -----------------------------
(* Small instances of Debugger for TLC. *)
EXTENDS Debugger

CONSTANTS a0, a1, blank, code

NoFiles == {}
NoCodes == {}
MCFiles == {[cpu |-> a1, pid |-> code, pidExtension |-> blank]}
\* A program of one page and one of two.
MCCodes == {[pid |-> code, pidExtension |-> "none"],
            [pid |-> code, pidExtension |-> code]}
=============================================================================
