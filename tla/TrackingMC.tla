------------------------------ MODULE TrackingMC ------------------------------
(* Instances of Tracking for TLC.                                            *)
EXTENDS Tracking, TLC

CONSTANTS x, y, MK, EP, ride, show, west, east

At(p, c, a) == [park |-> p, category |-> c, active |-> a]

\* As it was; x dropped; x moved beside y, and y's category corrected.
Syncs ==
  {(x :> At(MK, ride, TRUE) @@ y :> At(EP, show, TRUE)),
   (x :> At(MK, ride, FALSE) @@ y :> At(EP, show, TRUE)),
   (x :> At(EP, ride, TRUE) @@ y :> At(EP, ride, TRUE))}

HalfADay == west :> 0 @@ east :> 1

Symmetric == Permutations(Handler) \cup Permutations(Object) \cup Permutations(Mime)
==============================================================================
