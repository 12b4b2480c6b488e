------------------------------ MODULE MCStream ------------------------------
(* A small instance of Stream for TLC: a type with one length and one with *)
(* two, and payload bytes that look like lengths and types, among them a   *)
(* length no type has.                                                     *)
EXTENDS Stream, TLC

MCByte == 0 .. 5
MCFlen == 1 :> [min |-> 1, max |-> 1] @@ 2 :> [min |-> 2, max |-> 3]
MCFrame == {<<1, 1>>, <<3, 2, 5, 2>>}
=============================================================================
