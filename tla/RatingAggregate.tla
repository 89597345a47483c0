--------------------------- MODULE RatingAggregate ---------------------------
(***************************************************************************)
(* PUT and DELETE of a rating, from the request to the aggregate row.      *)
(*                                                                         *)
(* A request handler first runs one transaction on table `ratings`         *)
(* (tracking/rating/repo.ts: SELECT ... FOR UPDATE, then UPSERT or DELETE, *)
(* COMMIT) and after the commit calls emitRatingChanged, which             *)
(* composeServices.ts wires straight to aggregateRepo.updateAggregate: a   *)
(* second transaction, under a per-experience advisory lock, that reads    *)
(* the row of `aggregate_ratings`, applies the delta and commits.          *)
(*                                                                         *)
(* The database is Postgres at READ COMMITTED: a statement reads what is   *)
(* committed when it runs, FOR UPDATE locks only rows that exist, and a    *)
(* writer waits for the uncommitted writer of the same row.  Locks are     *)
(* released by COMMIT and ROLLBACK, so who holds one follows from `pc`.    *)
(***************************************************************************)
EXTENDS MeanX10, FiniteSets

CONSTANTS
  User, Experience,
  Worker,         \* request handlers running concurrently in the API process
  Value,          \* what requests ask for: a rating, or NoRating to DELETE
  InitialRating,  \* the ratings table at the start
  OneAtATime,     \* TRUE: a user has one request per experience in flight
  MaxFailures     \* bound: once more events are lost, no request arrives

Row == User \X Experience

ASSUME ConstantsAssumption ==
  /\ IsFiniteSet(User)
  /\ Value \subseteq Rating0
  /\ InitialRating \in [Row -> Rating0]
  /\ OneAtATime \in BOOLEAN
  /\ MaxFailures \in Nat

VARIABLES
  ratings,   \* committed rows of `ratings`; NoRating where there is no row
  agg,       \* committed rows of `aggregate_ratings`; EmptyRow where none
  pc,        \* where each handler is
  job,       \* the row and the value a handler was asked to write
  prior,     \* previousValue: what its SELECT ... FOR UPDATE returned
  seen,      \* the aggregate row its readAggregateForUpdate returned
  lost,      \* history: experiences an event of which was never applied
  failures   \* how many times an event was lost

vars == <<ratings, agg, pc, job, prior, seen, lost, failures>>

Stage == {"idle", "begun", "selected", "written", "committed", "locked", "read"}
InRatingTx == {"begun", "selected", "written"}
Emitting   == {"committed", "locked", "read"}

Job == [row : Row, new : Rating0]
NoJob == [row |-> <<>>, new |-> NoRating]
AggregateRow == [sum : Int, count : Int, mean : Int]

ExpOf(w) == job[w].row[2]

\* Sum and number of the ratings of experience e in a table r.
Points(r, e) == Cardinality({p \in User \X Rating : p[2] <= r[<<p[1], e>>]})
Raters(r, e) == Cardinality({u \in User : r[<<u, e>>] # NoRating})
ExactRow(r, e) == RowOf(Points(r, e), Raters(r, e))

TypeOK ==
  /\ ratings \in [Row -> Rating0]
  /\ agg \in [Experience -> AggregateRow]
  /\ pc \in [Worker -> Stage]
  /\ job \in [Worker -> Job \cup {NoJob}]
  /\ \A w \in Worker : pc[w] # "idle" => job[w] \in Job
  /\ prior \in [Worker -> Rating0]
  /\ seen \in [Worker -> AggregateRow]
  /\ lost \subseteq Experience
  /\ failures \in Nat

Init ==
  /\ ratings = InitialRating
  /\ agg = [e \in Experience |-> ExactRow(InitialRating, e)]
  /\ pc = [w \in Worker |-> "idle"]
  /\ job = [w \in Worker |-> NoJob]
  /\ prior = [w \in Worker |-> NoRating]
  /\ seen = [w \in Worker |-> EmptyRow]
  /\ lost = {}
  /\ failures = 0

------------------------------------------------------------------------------
(* The transaction on `ratings`.                                           *)

Goto(w, stage) == pc' = [pc EXCEPT ![w] = stage]

\* The handler answers; its local variables are gone.
Answer(w) ==
  /\ Goto(w, "idle")
  /\ job' = [job EXCEPT ![w] = NoJob]
  /\ prior' = [prior EXCEPT ![w] = NoRating]
  /\ seen' = [seen EXCEPT ![w] = EmptyRow]

\* Handlers that hold the lock of their row of `ratings`: FOR UPDATE found
\* it, or it is written and not yet committed.
HoldsRow(w) ==
  \/ pc[w] = "selected" /\ prior[w] # NoRating
  \/ pc[w] = "written"

RowIsFree(w) == \A x \in Worker \ {w} : ~(HoldsRow(x) /\ job[x].row = job[w].row)

\* A PUT with a value in 1..10, or a DELETE (new = NoRating), passes
\* validation and begins its transaction.
Request(w, row, new) ==
  /\ pc[w] = "idle"
  /\ failures <= MaxFailures
  /\ OneAtATime => \A x \in Worker : pc[x] # "idle" => job[x].row # row
  /\ job' = [job EXCEPT ![w] = [row |-> row, new |-> new]]
  /\ Goto(w, "begun")
  /\ UNCHANGED <<ratings, agg, prior, seen, lost, failures>>

\* SELECT value ... FOR UPDATE.  It waits for the lock of a row that exists;
\* where there is none it returns at once and locks nothing.  A DELETE that
\* finds no row rolls back and answers rating_not_found.
SelectPrior(w) ==
  LET old == ratings[job[w].row] IN
  /\ pc[w] = "begun"
  /\ old # NoRating => RowIsFree(w)
  /\ \/ /\ old = NoRating /\ job[w].new = NoRating
        /\ Answer(w)
     \/ /\ old # NoRating \/ job[w].new # NoRating
        /\ prior' = [prior EXCEPT ![w] = old]
        /\ Goto(w, "selected")
        /\ UNCHANGED <<job, seen>>
  /\ UNCHANGED <<ratings, agg, lost, failures>>

\* INSERT ... ON CONFLICT DO UPDATE, or DELETE: not visible before COMMIT.
WriteRating(w) ==
  /\ pc[w] = "selected"
  /\ RowIsFree(w)
  /\ Goto(w, "written")
  /\ UNCHANGED <<ratings, agg, job, prior, seen, lost, failures>>

CommitRating(w) ==
  /\ pc[w] = "written"
  /\ ratings' = [ratings EXCEPT ![job[w].row] = job[w].new]
  /\ Goto(w, "committed")
  /\ UNCHANGED <<agg, job, prior, seen, lost, failures>>

\* Any statement fails: safeRollback, no event, a 5xx answer.
AbortRating(w) ==
  /\ pc[w] \in InRatingTx
  /\ Answer(w)
  /\ UNCHANGED <<ratings, agg, lost, failures>>

------------------------------------------------------------------------------
(* emitRatingChanged = updateAggregate, after the commit.                  *)

HoldsAdvisoryLock(w) == pc[w] \in {"locked", "read"}

\* Mutant: no pg_advisory_xact_lock.
LockNothing(w) ==
  /\ pc[w] = "committed"
  /\ Goto(w, "locked")
  /\ UNCHANGED <<ratings, agg, job, prior, seen, lost, failures>>

LockAggregate(w) ==
  /\ pc[w] = "committed"
  /\ \A x \in Worker \ {w} : ~(HoldsAdvisoryLock(x) /\ ExpOf(x) = ExpOf(w))
  /\ Goto(w, "locked")
  /\ UNCHANGED <<ratings, agg, job, prior, seen, lost, failures>>

ReadAggregate(w) ==
  /\ pc[w] = "locked"
  /\ seen' = [seen EXCEPT ![w] = agg[ExpOf(w)]]
  /\ Goto(w, "read")
  /\ UNCHANGED <<ratings, agg, job, prior, lost, failures>>

\* Mutant: the arguments swapped.
NextRowBackwards(w) == UpdateMeanX10(seen[w].sum, seen[w].count, job[w].new, prior[w])

NextRow(w) == UpdateMeanX10(seen[w].sum, seen[w].count, prior[w], job[w].new)

\* upsertAggregate and COMMIT; the CHECK constraints may refuse the row.
WriteAggregate(w) ==
  /\ pc[w] = "read"
  /\ Answer(w)
  /\ \/ /\ ChecksPass(NextRow(w))
        /\ agg' = [agg EXCEPT ![ExpOf(w)] = NextRow(w)]
        /\ UNCHANGED <<lost, failures>>
     \/ /\ ~ChecksPass(NextRow(w))
        /\ lost' = lost \cup {ExpOf(w)}
        /\ failures' = failures + 1
        /\ UNCHANGED agg
  /\ UNCHANGED ratings

\* A statement of updateAggregate fails, or the process dies after the
\* rating is committed: nothing ever applies this event.
LoseEvent(w) ==
  /\ failures < MaxFailures
  /\ failures' = failures + 1
  /\ pc[w] \in Emitting
  /\ Answer(w)
  /\ lost' = lost \cup {ExpOf(w)}
  /\ UNCHANGED <<ratings, agg>>

------------------------------------------------------------------------------
\* Mutant: the COMMIT of the rating is forgotten.
StepWithoutCommit(w) ==
  \/ SelectPrior(w) \/ WriteRating(w)
  \/ LockAggregate(w) \/ ReadAggregate(w) \/ WriteAggregate(w)

Step(w) ==
  \/ SelectPrior(w) \/ WriteRating(w) \/ CommitRating(w)
  \/ LockAggregate(w) \/ ReadAggregate(w) \/ WriteAggregate(w)

Next ==
  \E w \in Worker :
    \/ \E row \in Row, new \in Value : Request(w, row, new)
    \/ Step(w)
    \/ AbortRating(w)
    \/ LoseEvent(w)

Spec == Init /\ [][Next]_vars

\* Postgres queues lock waiters, so a handler that waits for a lock gets it:
\* strong fairness of a handler's own steps.  Requests need not arrive.
FairSpec == Spec /\ \A w \in Worker : SF_vars(Step(w))

------------------------------------------------------------------------------
(* Properties.                                                             *)

\* The value a row contributes to the aggregate: the one its handler in
\* flight replaced, as long as that handler's event is not applied.
Reflected == [row \in Row |->
  IF \E w \in Worker : pc[w] \in Emitting /\ job[w].row = row
  THEN prior[CHOOSE w \in Worker : pc[w] \in Emitting /\ job[w].row = row]
  ELSE ratings[row]]

\* No update of the aggregate row is lost: what a handler read under the
\* advisory lock is still the committed row when it writes (repo.ts:173-176).
ReadIsCurrent == \A w \in Worker : pc[w] = "read" => seen[w] = agg[ExpOf(w)]

\* When a user has one request per experience in flight, and no event of the
\* experience was lost, the aggregate row is what a recomputation from the
\* ratings would give, each change counting from the moment it is applied.
AggregateExact == \A e \in Experience \ lost : agg[e] = ExactRow(Reflected, e)

\* The CHECK constraints of aggregate_ratings never refuse an update, unless
\* an event was lost before ("cannot fail those checks", repo.ts:379-380).
ChecksNeverFire ==
  \A w \in Worker :
    pc[w] = "read" /\ ExpOf(w) \notin lost => ChecksPass(NextRow(w))

\* A published mean is the nearest tenth to the true one, the larger of two
\* equally near; fewer than three ratings publish none (R10.1, R10.4,
\* updateMeanX10.ts:62-71).
MeanIsNearestTenth ==
  \A e \in Experience :
    LET sum == agg[e].sum  count == agg[e].count  mean == agg[e].mean IN
    IF count < 3 THEN mean = NoMean
    ELSE /\ 2 * mean * count >  20 * sum - count
         /\ 2 * mean * count <= 20 * sum + count

\* The handlers whose event on experience e is committed and not applied.
InFlight(e) == {w \in Worker : pc[w] \in Emitting /\ ExpOf(w) = e}

\* The handlers together behave as the abstract board: no step does anything
\* but change one rating, reflect one change exactly, or lose an event.
Board == INSTANCE RatingBoard
  WITH rating <- ratings, reflected <- Reflected, board <- agg, adrift <- lost,
       Initial <- InitialRating
ImplementsBoard == Board!Spec

\* Every request is answered: no handler waits for a lock for ever.
Answered == \A w \in Worker : pc[w] # "idle" ~> pc[w] = "idle"
==============================================================================
