---------------------------- MODULE CatalogSync ----------------------------
(***************************************************************************)
(* The catalog: services/catalog/{readDecision,sync,reconcile,repo}.ts.    *)
(*                                                                         *)
(* A request for the catalog reads the age of the cache and, when that is  *)
(* over 24 hours or there is no cache, runs a sync and waits 5 seconds for *)
(* it; the sync goes on when the wait is over.  Syncs of all processes are *)
(* kept apart by a key in Redis that expires after 10 minutes.  Nothing    *)
(* keeps the calls to upstream within them: a sync can outlive its key.    *)
(*                                                                         *)
(* Durations are abstracted to what their order allows: the cache may grow *)
(* stale, the wait may end and the key may expire at any moment.           *)
(***************************************************************************)
EXTENDS Naturals, Sequences

CONSTANTS
  Experience,   \* ids of upstream entities; the row's id is computed from it
  Detail,       \* values of (name, park, category)
  Absent,       \* the entity is not in a release, or has no row
  Content,      \* what buildUpstreamSet can make of upstream's data
  Caller,       \* GET /catalog requests and scheduled jobs, each with its sync
  NoCaller,
  MaxReleases   \* bound: upstream shows no more versions of its data

ASSUME CatalogAssumption ==
  /\ Absent \notin Detail
  /\ Content \subseteq [Experience -> Detail \cup {Absent}]
  /\ NoCaller \notin Caller
  /\ MaxReleases \in Nat \ {0}

VARIABLES
  releases,    \* history: what upstream has shown, newest last
  rows,        \* table `experiences`
  stamp,       \* catalog_cache_metadata.last_successful_sync_at
  lock,        \* the key catalog:sync:lock
  read,        \* the request of each caller
  sync,        \* the sync it started
  published,   \* history: the release whose diff was applied last
  overlapped   \* history: a key has expired while its sync was running

vars == <<releases, rows, stamp, lock, read, sync, published, overlapped>>

Row == [detail : Detail \cup {Absent}, active : BOOLEAN]
NoRow == [detail |-> Absent, active |-> FALSE]
Age == {"never", "stale", "fresh"}

Reading == [stage : {"idle", "waiting", "listing"}, age : Age, stale : BOOLEAN]
NoReading == [stage |-> "idle", age |-> "never", stale |-> FALSE]
Listing(stale) == [NoReading EXCEPT !.stage = "listing", !.stale = stale]

Holding == {"fetching", "comparing", "applying", "recording", "failing", "releasing"}
\* fetched is a position in releases; overtaken: a diff was applied by another
\* sync after this one read the rows; expired: the key went before the sync.
Run == [stage : Holding \cup {"idle", "locking"}, fetched : Nat,
        upserts : SUBSET Experience, softDeletes : SUBSET Experience,
        ok : BOOLEAN, overtaken : BOOLEAN, expired : BOOLEAN]
NoRun == [stage |-> "idle", fetched |-> 0, upserts |-> {}, softDeletes |-> {},
          ok |-> FALSE, overtaken |-> FALSE, expired |-> FALSE]

Running(c) == sync[c].stage \in Holding

TypeOK ==
  /\ releases \in Seq(Content) /\ releases # <<>>
  /\ rows \in [Experience -> Row]
  /\ \A e \in Experience : rows[e].detail = Absent => ~rows[e].active
  /\ stamp \in Age
  /\ lock \in Caller \cup {NoCaller}
  /\ read \in [Caller -> Reading]
  /\ \A c \in Caller : read[c].stage = "waiting" => read[c].age # "fresh"
  /\ sync \in [Caller -> Run]
  /\ \A c \in Caller :
       sync[c].stage \in {"comparing", "applying"} =>
         sync[c].fetched \in 1..Len(releases)
  /\ published \in 0..Len(releases)
  /\ overlapped \in BOOLEAN

Init ==
  /\ \E content \in Content : releases = <<content>>
  /\ rows = [e \in Experience |-> NoRow]
  /\ stamp = "never"
  /\ lock = NoCaller
  /\ read = [c \in Caller |-> NoReading]
  /\ sync = [c \in Caller |-> NoRun]
  /\ published = 0
  /\ overlapped = FALSE

\* What listActiveExperiences returns without filters.
Catalog == [e \in Experience |-> IF rows[e].active THEN rows[e].detail ELSE Absent]

------------------------------------------------------------------------------
(* The read path.                                                          *)

\* getCacheAge, and the branch on it.
ReadAge(c) ==
  /\ read[c].stage = "idle" /\ sync[c].stage = "idle"
  /\ IF stamp = "fresh"
     THEN /\ read' = [read EXCEPT ![c] = Listing(FALSE)]
          /\ UNCHANGED sync
     ELSE /\ read' = [read EXCEPT ![c] =
               [NoReading EXCEPT !.stage = "waiting", !.age = stamp]]
          /\ sync' = [sync EXCEPT ![c].stage = "locking"]
  /\ UNCHANGED <<releases, rows, stamp, lock, published, overlapped>>

\* The sync failed or took too long: the age read before it decides between a
\* stale answer and catalog_unavailable.
WithoutSync(c) ==
  read' = [read EXCEPT ![c] =
    IF @.age = "never" THEN NoReading ELSE Listing(TRUE)]

\* The sync is over; it answers the request if that still waits.  A sync that
\* was skipped counts as a success (composeServices).
Settle(c, ok) ==
  CASE read[c].stage # "waiting" -> UNCHANGED read
    [] read[c].stage = "waiting" /\ ok -> read' = [read EXCEPT ![c] = Listing(FALSE)]
    [] read[c].stage = "waiting" /\ ~ok -> WithoutSync(c)

\* SYNC_RACE_DEADLINE_MS.  The sync is not cancelled.
Deadline(c) ==
  /\ read[c].stage = "waiting"
  /\ WithoutSync(c)
  /\ UNCHANGED <<releases, rows, stamp, lock, sync, published, overlapped>>

\* listActiveExperiences: Catalog is sent, or its query fails.
List(c) ==
  /\ read[c].stage = "listing"
  /\ read' = [read EXCEPT ![c] = NoReading]
  /\ UNCHANGED <<releases, rows, stamp, lock, sync, published, overlapped>>

------------------------------------------------------------------------------
(* A sync.                                                                 *)

Goto(c, stage) == sync' = [sync EXCEPT ![c].stage = stage]

\* What was fetched and compared is of no more use.
EndOf(c, stage) == [NoRun EXCEPT !.stage = stage, !.expired = sync[c].expired]

\* The processor of startCatalogScheduler, where a deployment starts it: a job
\* every 24 hours, whose result nobody waits for.
RunJob(c) ==
  /\ read[c].stage = "idle" /\ sync[c].stage = "idle"
  /\ Goto(c, "locking")
  /\ UNCHANGED <<releases, rows, stamp, lock, read, published, overlapped>>

\* acquireLock, SET NX PX.  When the answer is lost the key may be set all the
\* same, and the client's resent SET then finds it held.
Acquire(c) ==
  /\ sync[c].stage = "locking"
  /\ \/ lock = NoCaller /\ lock' = c /\ Goto(c, "fetching") /\ UNCHANGED read
     \/ lock # NoCaller /\ UNCHANGED lock /\ Goto(c, "idle") /\ Settle(c, TRUE)
     \/ \E resent \in BOOLEAN :
          /\ lock' \in {lock, IF lock = NoCaller THEN c ELSE lock}
          /\ resent => lock' # NoCaller
          /\ Goto(c, "idle")
          /\ Settle(c, resent)
  /\ UNCHANGED <<releases, rows, stamp, published, overlapped>>

\* getDestinations, getEntityChildren and buildUpstreamSet.
Fetch(c) ==
  /\ sync[c].stage = "fetching"
  /\ sync' = [sync EXCEPT ![c].stage = "comparing", ![c].fetched = Len(releases)]
  /\ UNCHANGED <<releases, rows, stamp, lock, read, published, overlapped>>

\* Mutant: an inactive row that upstream lists again is taken as unchanged.
UpsertsOfChanged(content) ==
  {e \in Experience : content[e] \notin {Absent, rows[e].detail}}

\* reconcile: new, inactive or materially changed.
Upserts(content) ==
  {e \in Experience : content[e] # Absent /\
     (~rows[e].active \/ rows[e].detail # content[e])}

SoftDeletes(content) ==
  {e \in Experience : content[e] = Absent /\ rows[e].active}

\* getCacheSnapshot and reconcile.
Compare(c) ==
  /\ sync[c].stage = "comparing"
  /\ sync' = [sync EXCEPT ![c] =
       [@ EXCEPT !.stage = "applying",
                 !.upserts = Upserts(releases[sync[c].fetched]),
                 !.softDeletes = SoftDeletes(releases[sync[c].fetched]),
                 !.overtaken = FALSE]]
  /\ UNCHANGED <<releases, rows, stamp, lock, read, published, overlapped>>

Reconciled(c) ==
  [e \in Experience |->
     IF e \in sync[c].upserts
     THEN [detail |-> releases[sync[c].fetched][e], active |-> TRUE]
     ELSE IF e \in sync[c].softDeletes THEN [rows[e] EXCEPT !.active = FALSE]
     ELSE rows[e]]

NothingToApply(c) == sync[c].upserts = {} /\ sync[c].softDeletes = {}

\* applyReconciliation, one transaction, none for an empty diff.  COMMIT may
\* be carried out and its answer lost: the sync then takes its failure path.
Apply(c) ==
  /\ sync[c].stage = "applying"
  /\ rows' = Reconciled(c)
  /\ published' = sync[c].fetched
  /\ \E stage \in {"recording", "failing"} :
       /\ NothingToApply(c) => stage = "recording"
       /\ sync' = [d \in Caller |->
            IF d = c THEN EndOf(c, stage)
            ELSE [sync[d] EXCEPT !.overtaken = sync[d].stage = "applying"]]
  /\ UNCHANGED <<releases, stamp, lock, read, overlapped>>

\* recordSyncRun('success'): the run and the pointer, one transaction.
RecordSuccess(c) ==
  /\ sync[c].stage = "recording"
  /\ stamp' = "fresh"
  /\ \/ sync' = [sync EXCEPT ![c].stage = "releasing", ![c].ok = TRUE]
     \/ Goto(c, "failing")
  /\ UNCHANGED <<releases, rows, lock, read, published, overlapped>>

\* Any step throws and leaves nothing behind.
Fail(c) ==
  /\ sync[c].stage \in {"fetching", "comparing", "applying", "recording"}
  /\ sync[c].stage = "applying" => ~NothingToApply(c)
  /\ sync' = [sync EXCEPT ![c] = EndOf(c, "failing")]
  /\ UNCHANGED <<releases, rows, stamp, lock, read, published, overlapped>>

\* Mutant: the pointer is moved whatever the status of the run.
RecordAnyRun(c) ==
  /\ sync[c].stage = "failing"
  /\ stamp' = "fresh"
  /\ Goto(c, "releasing")
  /\ UNCHANGED <<releases, rows, lock, read, published, overlapped>>

\* recordSyncRun('failed'), which leaves the pointer; its own failure is
\* swallowed.
RecordFailure(c) ==
  /\ sync[c].stage = "failing"
  /\ Goto(c, "releasing")
  /\ UNCHANGED <<releases, rows, stamp, lock, read, published, overlapped>>

\* Mutant: DEL without the comparison of tokens.
DeleteLock(c) ==
  /\ sync[c].stage = "releasing"
  /\ lock' = NoCaller
  /\ sync' = [sync EXCEPT ![c] = NoRun]
  /\ Settle(c, sync[c].ok)
  /\ UNCHANGED <<releases, rows, stamp, published, overlapped>>

\* releaseLock, compare and delete; when Redis fails the key is left to expire.
Release(c) ==
  /\ sync[c].stage = "releasing"
  /\ lock' \in {lock, IF lock = c THEN NoCaller ELSE lock}
  /\ sync' = [sync EXCEPT ![c] = NoRun]
  /\ Settle(c, sync[c].ok)
  /\ UNCHANGED <<releases, rows, stamp, published, overlapped>>

------------------------------------------------------------------------------
(* What happens to them.                                                   *)

\* The process that serves c dies.
Crash(c) ==
  /\ read[c].stage # "idle" \/ sync[c].stage # "idle"
  /\ read' = [read EXCEPT ![c] = NoReading]
  /\ sync' = [sync EXCEPT ![c] = NoRun]
  /\ UNCHANGED <<releases, rows, stamp, lock, published, overlapped>>

\* CATALOG_SYNC_LOCK_TTL_MS are over.
Expire ==
  /\ lock # NoCaller
  /\ lock' = NoCaller
  /\ IF Running(lock)
     THEN /\ overlapped' = TRUE
          /\ sync' = [sync EXCEPT ![lock].expired = TRUE]
     ELSE UNCHANGED <<overlapped, sync>>
  /\ UNCHANGED <<releases, rows, stamp, read, published>>

\* STALE_CACHE_AGE_HOURS are over.
GrowStale ==
  /\ stamp = "fresh"
  /\ stamp' = "stale"
  /\ UNCHANGED <<releases, rows, lock, read, sync, published, overlapped>>

ChangeUpstream(content) ==
  /\ Len(releases) < MaxReleases
  /\ releases' = Append(releases, content)
  /\ UNCHANGED <<rows, stamp, lock, read, sync, published, overlapped>>

SyncStep(c) ==
  \/ Acquire(c) \/ Fetch(c) \/ Compare(c) \/ Apply(c) \/ RecordSuccess(c)
  \/ Fail(c) \/ RecordFailure(c) \/ Release(c)

Next ==
  \/ \E c \in Caller :
       \/ ReadAge(c) \/ Deadline(c) \/ List(c) \/ RunJob(c) \/ SyncStep(c) \/ Crash(c)
  \/ Expire
  \/ GrowStale
  \/ \E content \in Content : ChangeUpstream(content)

Spec == Init /\ [][Next]_vars

------------------------------------------------------------------------------
(* Properties.                                                             *)

\* sync.ts, "Single in-flight sync per cluster" and "Atomic lock release":
\* two syncs run at once only if one of them outlived its key; a sync that
\* did so never takes the key of the next one away.
OneSyncPerKey ==
  \A c, d \in Caller :
    Running(c) /\ Running(d) /\ ~sync[c].expired /\ ~sync[d].expired => c = d

\* R1.13 to R1.16, R1.24: CatalogFeed.
Feed == INSTANCE CatalogFeed WITH
  catalog <- Catalog,
  at <- published,
  known <- {e \in Experience : rows[e] # NoRow},
  loaded <- stamp # "never",
  muddled <- overlapped

PublishesReleases == Feed!Spec

\* Whatever mixture overlapping syncs have left in the table, the next sync
\* that is not overtaken makes the catalog the release it fetched.
SyncRepairs ==
  [][\A c \in Caller : Apply(c) /\ ~sync[c].overtaken =>
       Catalog' = releases[sync[c].fetched]]_vars
==============================================================================
