-------------------------- MODULE MCIntel8049Data --------------------------
(* A small instance of Intel8049Data for TLC. *)
EXTENDS Intel8049Data
=============================================================================
