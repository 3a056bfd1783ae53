------------------------------ MODULE MCBoard ------------------------------
(* Small instances of Board for TLC: bytes are sets of bits. *)
EXTENDS Board

\* Two addresses, the command register and port A in I/O mode.  Data and addresses
\* are the same two bytes, so that every value on the bus is one of them.
MCCell == {{}, {0}}
MCKeys == {{}}
\* Disable one chip, or the other and I/O; enable a chip, both, or memory; end reset.
MCRaise == {{4}, {5, 7}}
MCLower == {{5, 6, 7}, {4, 6, 7}, {4, 5, 7}, {4, 5}}
=============================================================================
