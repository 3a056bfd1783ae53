------------------------------ MODULE MCPanel ------------------------------
(* Small instances of Panel for TLC. *)
EXTENDS Panel, TLC

CONSTANTS dark, lit, off, on, left, right, key0

\* A key of row 0 with two buttons, as the digits have.
MCKeyOf == left :> key0 @@ right :> key0
MCRowOf == key0 :> 0
None == <<>>
=============================================================================
