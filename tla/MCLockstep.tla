----------------------------- MODULE MCLockstep -----------------------------
(* Small instances of Lockstep for TLC.                                    *)
EXTENDS Lockstep

(* Every sample is a value of its own, named by seat, epoch and tick: the  *)
(* code moves inputs and never looks at them, so two rings that hold the   *)
(* same names hold the same inputs whatever the controllers show.          *)
MCInputs == {<<>>} \cup (Seat \X (0 .. 2 * MaxGlitch) \X Tick)
MCIdle == <<>>
MCSampled(s, e, t) == {<<s, e, t>>}

(* Bound of the run with faults: the game code goes wrong, and the room is *)
(* lost, only while both consoles are that early in a turn of the tick     *)
(* cells.  Every behaviour goes on to its end.                             *)
CONSTANT MaxTick
EarlyFaults ==
  <<glitches, room>>' # <<glitches, room>> => \A c \in Seat : con[c].tick <= MaxTick
=============================================================================
