------------------------------ MODULE SharingMC ------------------------------
(* Instances of Sharing for TLC: nobody is an id that no user has.          *)
EXTENDS Sharing, TLC

CONSTANTS u1, u2, u3, nobody

Users == {u1, u2, u3}
Ids == Users \cup {nobody}
Symmetric == Permutations(Users) \cup Permutations(Handler)
==============================================================================
