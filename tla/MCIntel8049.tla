---------------------------- MODULE MCIntel8049 ----------------------------
(* A small instance of Intel8049 for TLC. *)
EXTENDS Intel8049

CONSTANTS f0, f1
=============================================================================
