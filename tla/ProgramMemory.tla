---------------------------- MODULE ProgramMemory ----------------------------
(***************************************************************************)
(* The program memory of the 8049: its pages, which a jump with one byte   *)
(* of address does not leave, and eight of which are a bank.               *)
(***************************************************************************)
EXTENDS Integers

CONSTANTS Page    \* 256 bytes

InPage(page, data) == Page * page + (data % Page)
PageOf(addr) == addr \div Page
=============================================================================
