---------------------------- MODULE MCAssembler ----------------------------
(* A small instance of Assembler for TLC. *)
EXTENDS Assembler

CONSTANT name
=============================================================================
