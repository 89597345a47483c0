---------------------------- MODULE CatalogFeed ----------------------------
(***************************************************************************)
(* What the catalog promises its readers: the experiences listed are those *)
(* of one release of the upstream source, releases are published in order, *)
(* an experience once known stays known (its id is what users' ratings and *)
(* notes refer to), and the catalog is called loaded only after a release  *)
(* was published.                                                          *)
(*                                                                         *)
(* The promise holds until two syncs overlap because one outlived its      *)
(* lock; after that only the last two parts of it are kept.                *)
(***************************************************************************)
EXTENDS Naturals, Sequences

CONSTANTS Experience, Detail, Absent, Content

VARIABLES
  releases,  \* what the upstream source has shown so far, newest last
  catalog,   \* what readers are shown
  at,        \* the release they are shown, 0 before the first
  known,     \* the experiences that have an id
  loaded,    \* a sync was recorded as successful
  muddled    \* two syncs have overlapped

feed == <<releases, catalog, at, known, loaded, muddled>>

Nothing == [e \in Experience |-> Absent]
Listed(content) == {e \in Experience : content[e] # Absent}

Init ==
  /\ \E content \in Content : releases = <<content>>
  /\ catalog = Nothing
  /\ at = 0
  /\ known = {}
  /\ loaded = FALSE
  /\ muddled = FALSE

Release(content) ==
  /\ releases' = Append(releases, content)
  /\ UNCHANGED <<catalog, at, known, loaded, muddled>>

Publish(n) ==
  /\ ~muddled
  /\ n >= at
  /\ catalog' = releases[n]
  /\ at' = n
  /\ known' = known \cup Listed(releases[n])
  /\ UNCHANGED <<releases, loaded, muddled>>

Confirm ==
  /\ at > 0
  /\ loaded' = TRUE
  /\ UNCHANGED <<releases, catalog, at, known, muddled>>

Overlap ==
  /\ muddled' = TRUE
  /\ UNCHANGED <<releases, catalog, at, known, loaded>>

PublishMixture(n) ==
  /\ muddled
  /\ at' = n
  /\ catalog' \in [Experience -> Detail \cup {Absent}]
  /\ known \subseteq known' /\ known' \subseteq Experience
  /\ UNCHANGED <<releases, loaded, muddled>>

Next ==
  \/ \E content \in Content : Release(content)
  \/ \E n \in 1..Len(releases) : Publish(n) \/ PublishMixture(n)
  \/ Confirm
  \/ Overlap

Spec == Init /\ [][Next]_feed
==============================================================================
