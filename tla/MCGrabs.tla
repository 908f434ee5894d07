------------------------------ MODULE MCGrabs -------------------------------
(***************************************************************************)
(* Model checking of Grabs.                                                *)
(***************************************************************************)
EXTENDS Grabs, TLC

Symmetry == Permutations(Clients) \cup Permutations(AllGrabs)
=============================================================================
