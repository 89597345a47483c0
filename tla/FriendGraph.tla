----------------------------- MODULE FriendGraph -----------------------------
(***************************************************************************)
(* The friend graph that design.md's Property 21 promises: between two     *)
(* different users there is nothing, or one pending request, or a          *)
(* friendship.  A request is made only where there is nothing; accepting   *)
(* turns it into a friendship, declining removes it; a friendship ends for *)
(* both users at once.  Only a step that marks the two users as muddled,   *)
(* because operations on them overlapped, may ask where there is something *)
(* or accept what is gone; declining and removing never differ.            *)
(***************************************************************************)
CONSTANT User

VARIABLES
  pending,  \* <<sender, recipient>> of every request waiting for an answer
  friends,  \* {a, b} for every two users who are friends
  muddled   \* {a, b} for every two users about whom operations overlapped

graphVars == <<pending, friends, muddled>>

Unrelated(a, b) ==
  <<a, b>> \notin pending /\ <<b, a>> \notin pending /\ {a, b} \notin friends

Init == pending = {} /\ friends = {} /\ muddled = {}

Ask(a, b) ==
  /\ a # b
  /\ Unrelated(a, b)
  /\ pending' = pending \cup {<<a, b>>}
  /\ UNCHANGED <<friends, muddled>>

Accept(a, b) ==
  /\ <<a, b>> \in pending
  /\ pending' = pending \ {<<a, b>>}
  /\ friends' = friends \cup {{a, b}}
  /\ UNCHANGED muddled

Decline(a, b) ==
  /\ <<a, b>> \in pending
  /\ pending' = pending \ {<<a, b>>}
  /\ UNCHANGED <<friends, muddled>>

Remove(a, b) ==
  /\ {a, b} \in friends
  /\ friends' = friends \ {{a, b}}
  /\ UNCHANGED <<pending, muddled>>

\* Asking beside another request or a friendship, and accepting a request that
\* is gone, or by which nobody becomes a friend.
Overlap(a, b) ==
  /\ a # b
  /\ muddled' = muddled \cup {{a, b}}
  /\ \/ pending' = pending \cup {<<a, b>>} /\ UNCHANGED friends
     \/ /\ pending' \in {pending, pending \ {<<a, b>>}}
        /\ friends' \in {friends, friends \cup {{a, b}}}

Next ==
  \E a, b \in User :
    Ask(a, b) \/ Accept(a, b) \/ Decline(a, b) \/ Remove(a, b) \/ Overlap(a, b)

Spec == Init /\ [][Next]_graphVars
==============================================================================
