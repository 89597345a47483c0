------------------------------ MODULE LoginMC ------------------------------
(* Instances of Login for TLC.                                             *)
EXTENDS Login, TLC

Symmetric == Permutations(Handler)
==============================================================================
