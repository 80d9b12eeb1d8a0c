--------------------------- MODULE MCApuSequencer ---------------------------
(***************************************************************************)
(* Model checking of ApuSequencer with a sequence short enough to be run   *)
(* through from every combination of pending events.                       *)
(***************************************************************************)
EXTENDS ApuSequencer

MCLut == [s \in 0..4 |-> 4 * (s + 1)]
=============================================================================
