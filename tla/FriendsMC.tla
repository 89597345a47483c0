------------------------------ MODULE FriendsMC ------------------------------
(***************************************************************************)
(* Instances of Friends for TLC.  Users are ids 2 and 3 (and 4); id 1 is   *)
(* user 3 spelled in upper case, which sorts before every lower-case id.   *)
(***************************************************************************)
EXTENDS Friends, TLC

CONSTANTS h1, h2

TwoUsers == {2, 3}
ThreeUsers == {2, 3, 4}
Spelled == {1, 2, 3}
Folded  == [i \in Id |-> IF i = 1 THEN 3 ELSE i]

TwoHandlers   == {h1, h2}
Handlers == Permutations(Handler)
==============================================================================
