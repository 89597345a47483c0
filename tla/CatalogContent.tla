-------------------------- MODULE CatalogContent ---------------------------
(***************************************************************************)
(* CatalogSync, over data that UpstreamSet made: what upstream answers to  *)
(* a sync, the walk of runSyncWithLock turns into the release it applies.  *)
(***************************************************************************)
EXTENDS CatalogSync, UpstreamSet

ContentOf(upstream) ==
  LET out == Walk(upstream)
  IN  [e \in Experience |-> IF e \in DOMAIN out THEN out[e] ELSE Absent]

ASSUME ContentAssumption == Content \subseteq {ContentOf(upstream) : upstream \in Answers}

\* A row, active or not, has all of its data of one release.
RowsAreOfReleases ==
  \A e \in Experience : rows[e].detail # Absent =>
    \E n \in DOMAIN releases : rows[e].detail = releases[n][e]

\* Every row is filed under the nearest park of its entity, in what upstream
\* answered at some time, even when two syncs overlap and mix their releases:
\* a row has all of its data of one release, and the walk that made the release
\* finds nearest parks whatever cycles, gaps and repetitions upstream's lists
\* have (sync.ts, resolvePark and buildUpstreamSet; repo.ts, applyReconciliation).
ParkIsNearest == WalksAreRight /\ RowsAreOfReleases
==============================================================================
