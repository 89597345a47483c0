-------------------------------- MODULE PhoneMC --------------------------------
(* Instances of Phone for TLC.                                                 *)
EXTENDS Phone, TLC

CONSTANTS t1, t2, t3, ann, bob

Sessions == t1 :> ann @@ t2 :> bob @@ t3 :> ann

\* Two users follow each other on one of the screens, and two sessions of one
\* user on another.
UsableBy == [k \in Kind |-> CASE k = "share" -> {t1, t2} [] k = "name" -> {t1, t3} [] OTHER -> {t1}]

Slots == Permutations(Slot)
==============================================================================
