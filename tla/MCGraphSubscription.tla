------------------------ MODULE MCGraphSubscription ------------------------
(***************************************************************************)
(* Model checking of GraphSubscription: the constants are model values;    *)
(* users and connections are interchangeable where no liveness property is *)
(* checked.                                                                *)
(***************************************************************************)
EXTENDS GraphSubscription, TLC

Symmetry == Permutations(Users) \cup Permutations(Subs)
=============================================================================
