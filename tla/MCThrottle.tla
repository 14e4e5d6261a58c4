------------------------------ MODULE MCThrottle ------------------------------
(***************************************************************************)
(* Instances of Throttle for TLC.                                          *)
(***************************************************************************)
EXTENDS Throttle, TLC

Symmetry == Permutations(Callers) \cup Permutations(Keys)
=============================================================================
