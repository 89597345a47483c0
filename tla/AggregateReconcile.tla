-------------------------- MODULE AggregateReconcile --------------------------
(***************************************************************************)
(* RatingAggregate beside the periodic reconciler of aggregate/worker.ts:  *)
(* a tick lists the experiences with ratings or an aggregate row, keeps    *)
(* the first batchSize ids, and calls recomputeFromScratch on each, in the *)
(* order of the ids, which sums the ratings under the same advisory lock   *)
(* and overwrites the row.                                                 *)
(*                                                                         *)
(* A deployment wires emitRatingChanged to updateAggregate, or to the      *)
(* queue of ratingChangedQueue.ts, whose jobs the processor of             *)
(* startAggregateWorker applies in the same way, several at a time: the    *)
(* handler answers once the event is queued, and what fails is done again. *)
(***************************************************************************)
EXTENDS RatingAggregate, Sequences

CONSTANTS
  BatchSize,  \* batchSize; at least the number of experiences: unset
  Attempts,   \* attempts of a job: 3
  MaxQueued   \* bound: when so many jobs wait, no request arrives

ASSUME BatchAssumption ==
  /\ Experience \subseteq Nat /\ BatchSize \in Nat
  /\ Attempts \in Nat \ {0} /\ MaxQueued \in Nat

VARIABLES
  tick,     \* the reconciler's job
  hasRow,   \* experiences with a row in aggregate_ratings, be it all zeros
  queued,   \* whether events go through the queue
  queue,    \* jobs that wait
  attempt   \* of the job that a processor has; 0 for a request handler

Scan == [stage : {"idle", "walking"}, todo : SUBSET Experience]
          \cup [stage : {"locked"}, todo : SUBSET Experience, exp : Experience]
          \cup [stage : {"scanned"}, todo : SUBSET Experience, exp : Experience,
                row : AggregateRow]

jobs == <<queued, queue, attempt>>
reconcileVars == <<vars, tick, hasRow, jobs>>

ReconcileTypeOK ==
  /\ TypeOK
  /\ tick \in Scan
  /\ hasRow \subseteq Experience
  /\ \A e \in Experience \ hasRow : agg[e] = EmptyRow
  /\ queued \in BOOLEAN
  /\ queue \in Seq([job : Job, prior : Rating0, attempts : 0 .. Attempts])
  /\ attempt \in [Worker -> 0 .. Attempts]

\* Mutant: the recomputation takes no advisory lock.
TickHoldsNothing(e) == FALSE

TickHolds(e) == tick.stage \in {"locked", "scanned"} /\ tick.exp = e

\* Mutant: only experiences that have ratings, not those left with a row.
ListedRated == {e \in Experience : \E u \in User : ratings[<<u, e>>] # NoRating}

\* The ids listExperienceIdsForReconcile returns.
Listed == hasRow \cup {e \in Experience : \E u \in User : ratings[<<u, e>>] # NoRating}

\* ids.slice(0, batchSize) of the ids in their order.
Slice(ids) == {e \in ids : Cardinality({i \in ids : i < e}) < BatchSize}

StartTick ==
  /\ tick.stage = "idle"
  /\ tick' = [stage |-> "walking", todo |-> Slice(Listed)]

LockForRecompute(e) ==
  /\ tick.stage = "walking" /\ e \in tick.todo
  /\ \A i \in tick.todo : e <= i
  /\ \A w \in Worker : ~(HoldsAdvisoryLock(w) /\ ExpOf(w) = e)
  /\ tick' = [stage |-> "locked", todo |-> tick.todo \ {e}, exp |-> e]

\* SELECT SUM(value), COUNT(*) FROM ratings: the committed ratings.
ScanRatings ==
  /\ tick.stage = "locked"
  /\ tick' = [stage |-> "scanned", todo |-> tick.todo, exp |-> tick.exp,
              row |-> ExactRow(ratings, tick.exp)]

OverwriteAggregate ==
  /\ tick.stage = "scanned"
  /\ agg' = [agg EXCEPT ![tick.exp] = tick.row]
  /\ hasRow' = hasRow \cup {tick.exp}
  /\ tick' = [stage |-> "walking", todo |-> tick.todo]
  /\ UNCHANGED <<ratings, pc, job, prior, seen, lost, failures, jobs>>

\* A recompute fails: logged, and the walk goes on with the next experience.
SkipExperience ==
  /\ tick.stage \in {"locked", "scanned"}
  /\ failures < MaxFailures /\ failures' = failures + 1
  /\ tick' = [stage |-> "walking", todo |-> tick.todo]
  /\ UNCHANGED <<ratings, agg, pc, job, prior, seen, lost, hasRow, jobs>>

EndTick ==
  /\ tick.stage = "walking" /\ tick.todo = {}
  /\ tick' = [stage |-> "idle", todo |-> {}]

Reconcile ==
  \/ /\ StartTick \/ (\E e \in Experience : LockForRecompute(e)) \/ ScanRatings
          \/ EndTick
     /\ UNCHANGED <<vars, hasRow, jobs>>
  \/ OverwriteAggregate

------------------------------------------------------------------------------
(* Handlers, and the processors of the queue.                              *)

\* The job that w has, to wait for its next attempt.
Again(w) == [job |-> job[w], prior |-> prior[w], attempts |-> attempt[w]]

\* queue.add: the handler answers as soon as the event is in the queue.
Enqueue(w) ==
  /\ queued /\ attempt[w] = 0 /\ pc[w] = "committed"
  /\ queue' = Append(queue, Again(w))
  /\ Answer(w)
  /\ UNCHANGED <<ratings, agg, lost, failures, hasRow, attempt>>

\* The processor gets a job, which it will hand to updateAggregate.
Take(w) ==
  /\ pc[w] = "idle" /\ queue # <<>>
  /\ LET first == Head(queue)
     IN  /\ job' = [job EXCEPT ![w] = first.job]
         /\ prior' = [prior EXCEPT ![w] = first.prior]
         /\ attempt' = [attempt EXCEPT ![w] = first.attempts + 1]
  /\ queue' = Tail(queue)
  /\ Goto(w, "committed")
  /\ UNCHANGED <<ratings, agg, seen, lost, failures, hasRow>>

\* The UPSERT inserts a row where there is none.
Upserted(w) ==
  IF pc[w] = "read" /\ ChecksPass(NextRow(w)) THEN hasRow \cup {ExpOf(w)} ELSE hasRow

\* The statements of RatingAggregate; a lock waits for the reconciler's too.
Statement(w) ==
  /\ pc[w] = "committed" => (queued => attempt[w] > 0) /\ ~TickHolds(ExpOf(w))
  /\ pc[w] = "read" /\ attempt[w] > 0 => ChecksPass(NextRow(w))
  /\ Step(w)
  /\ hasRow' = Upserted(w)
  /\ attempt' = [attempt EXCEPT ![w] = IF pc'[w] = "idle" THEN 0 ELSE @]
  /\ UNCHANGED queue

\* A job that failed waits for its next attempt, if it has one left.
Requeue(w) ==
  /\ Answer(w)
  /\ attempt' = [attempt EXCEPT ![w] = 0]
  /\ queue' = IF attempt[w] < Attempts THEN Append(queue, Again(w)) ELSE queue

\* The database refuses the row, or a statement fails: nothing is applied.
JobFails(w) ==
  /\ attempt[w] > 0
  /\ \/ pc[w] = "read" /\ ~ChecksPass(NextRow(w)) /\ UNCHANGED failures
     \/ failures < MaxFailures /\ failures' = failures + 1
  /\ Requeue(w)
  /\ lost' = IF attempt[w] < Attempts THEN lost ELSE lost \cup {ExpOf(w)}
  /\ UNCHANGED <<ratings, agg, hasRow>>

\* The answer to COMMIT is lost, or the processor dies before the job is
\* completed: the event is applied, and will be once more.
AppliedAndFails(w) ==
  /\ attempt[w] > 0 /\ pc[w] = "read" /\ ChecksPass(NextRow(w))
  /\ failures < MaxFailures /\ failures' = failures + 1
  /\ agg' = [agg EXCEPT ![ExpOf(w)] = NextRow(w)]
  /\ hasRow' = Upserted(w)
  /\ Requeue(w)
  /\ lost' = lost \cup {ExpOf(w)}
  /\ UNCHANGED ratings

\* A request, and what may go wrong with it.  The busy flag of the control
\* keeps out a second request for the same row; a job of the row may be under
\* way (OneAtATime, which keeps that out too, is FALSE here).
Handle(w) ==
  /\ \/ /\ Len(queue) < MaxQueued
        /\ \E row \in Row, new \in Value :
             /\ \A x \in Worker : pc[x] = "idle" \/ attempt[x] > 0 \/ job[x].row # row
             /\ Request(w, row, new)
     \/ AbortRating(w)
     \/ LoseEvent(w) /\ attempt[w] = 0
  /\ UNCHANGED <<hasRow, queue, attempt>>

Proceed(w) ==
  /\ Statement(w) \/ Enqueue(w) \/ Take(w) \/ JobFails(w)
  /\ UNCHANGED <<tick, queued>>

ReconcileInit ==
  /\ Init
  /\ tick = [stage |-> "idle", todo |-> {}]
  /\ hasRow = {e \in Experience : \E u \in User : ratings[<<u, e>>] # NoRating}
  /\ queued \in BOOLEAN
  /\ queue = <<>>
  /\ attempt = [w \in Worker |-> 0]

ReconcileNext ==
  \/ \E w \in Worker :
       \/ Proceed(w)
       \/ (Handle(w) \/ AppliedAndFails(w)) /\ UNCHANGED <<tick, queued>>
  \/ Reconcile \/ SkipExperience

ReconcileSpec == ReconcileInit /\ [][ReconcileNext]_reconcileVars

\* The job scheduler fires for ever, lock waiters are queued, and so are jobs.
FairReconcileSpec ==
  /\ ReconcileSpec
  /\ SF_reconcileVars(Reconcile)
  /\ \A w \in Worker : SF_reconcileVars(Proceed(w))

\* No request is being served.
Quiet == \A w \in Worker : pc[w] = "idle" \/ attempt[w] > 0

\* Drift does not last: whatever events were lost, overtaken or applied twice,
\* once users stop changing ratings the aggregate becomes, and stays, exact
\* (design.md:292).
DriftRepaired ==
  <>[]Quiet => <>[](\A e \in Experience : agg[e] = ExactRow(ratings, e))

\* Between its scan and its commit the advisory lock keeps every handler's
\* update out: a rating that changed meanwhile has its event still in flight,
\* so the row about to be written is the exact one or an event follows it.
OverwriteIsCurrent ==
  (/\ tick.stage = "scanned" /\ tick.exp \notin lost /\ InFlight(tick.exp) = {}
   /\ \A i \in DOMAIN queue : queue[i].job.row[2] # tick.exp)
  => tick.row = ExactRow(ratings, tick.exp)
==============================================================================
