------------------------------ MODULE SessionsMC ------------------------------
(* Instances of Sessions for TLC.                                           *)
EXTENDS Sessions, TLC

Symmetric == Permutations(Handler)
==============================================================================
