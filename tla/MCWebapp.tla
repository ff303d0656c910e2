------------------------------ MODULE MCWebapp ------------------------------
(***************************************************************************)
(* A page with two channels that nothing tells apart.                      *)
(***************************************************************************)
EXTENDS Webapp, TLC

Symmetric == Permutations(Channels) \cup Permutations(Components)
==============================================================================
