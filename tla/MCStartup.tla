------------------------------ MODULE MCStartup ------------------------------
(***************************************************************************)
(* Instances of Startup for TLC.                                           *)
(***************************************************************************)
EXTENDS Startup, TLC

Symmetry == Permutations(Servers) \cup Permutations(Tools)
=============================================================================
