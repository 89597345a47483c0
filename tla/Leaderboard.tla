----------------------------- MODULE Leaderboard -----------------------------
(***************************************************************************)
(* The highest-rated list: aggregate/leaderboard.ts, a read-through cache  *)
(* in Redis over `aggregate_ratings` and `experiences`, and the query of   *)
(* HomeScreen.tsx that keeps its answer for five minutes more.             *)
(*                                                                         *)
(* Nothing invalidates the key: only its time to live does.  GET, the      *)
(* SELECT and SET are three steps, so a request that was slow may store a  *)
(* list over a newer one and give it a whole new life.  Time is told in    *)
(* ages, not in dates, so behaviours go on for ever in finitely many       *)
(* states; `old` is how long ago a list stopped being the true one.        *)
(***************************************************************************)
EXTENDS Integers, FiniteSets, Sequences

CONSTANTS
  Experience,
  Row,                      \* rows an experience may have, of both tables
  NameRank,                 \* place of lower(name) of each experience, ties too
  Phone,                    \* each has one request under way at most
  LEADERBOARD_TTL,          \* 300 seconds in the source
  CACHE_WINDOW,             \* 5 minutes, of the phone
  LEADERBOARD_LIMIT,        \* 10
  LEADERBOARD_MIN_COUNT,    \* 3
  MaxDelay,                 \* bound: no request takes longer
  MaxFailures               \* bound: failures of Redis, the database, the net

ASSUME LeaderboardAssumption ==
  /\ IsFiniteSet(Experience) /\ IsFiniteSet(Phone)
  /\ Row \subseteq [mean : Nat, count : Nat, active : BOOLEAN]
  \* mean_x10 is not NULL once there are enough ratings, and is within
  \* aggregate_ratings_mean_x10_chk.
  /\ \A row \in Row : row.count >= LEADERBOARD_MIN_COUNT => row.mean \in 10 .. 100
  /\ NameRank \in [Experience -> Nat]
  /\ LEADERBOARD_TTL \in Nat \ {0}
  /\ CACHE_WINDOW \in Nat \ {0}
  /\ LEADERBOARD_LIMIT \in Nat
  /\ LEADERBOARD_MIN_COUNT \in Nat
  /\ MaxDelay \in Nat
  /\ MaxFailures \in Nat

VARIABLES
  db,        \* aggregate row and active flag of each experience
  cache,     \* key highest-rated:v1, and what it has left to live
  pc,        \* where the request of each phone is
  job,       \* what it carries
  home,      \* what the query of each phone holds
  reads,     \* history: SELECTs since the key was last gone
  failures   \* history: how many there were

vars == <<db, cache, pc, job, home, reads, failures>>

------------------------------------------------------------------------------
(* The ranking.                                                            *)

Entry == [exp : Experience, mean : Nat, count : Nat]
Board == Seq(Entry)

Ranked(d) == {e \in Experience : d[e].active /\ d[e].count >= LEADERBOARD_MIN_COUNT}
EntryOf(d, e) == [exp |-> e, mean |-> d[e].mean, count |-> d[e].count]

\* ORDER BY mean_x10 DESC, count_ratings DESC, lower(name) ASC.
NotAfter(a, b) ==
  \/ a.mean > b.mean
  \/ a.mean = b.mean /\ a.count > b.count
  \/ a.mean = b.mean /\ a.count = b.count /\ NameRank[a.exp] <= NameRank[b.exp]

\* What readFromDb may return: names that differ in case only come in any order.
Boards(d) ==
  LET all   == {EntryOf(d, e) : e \in Ranked(d)}
      count == IF Cardinality(all) < LEADERBOARD_LIMIT
               THEN Cardinality(all) ELSE LEADERBOARD_LIMIT
  IN  {b \in [1 .. count -> all] :
         /\ \A i, j \in 1 .. count : i < j => b[i] # b[j] /\ NotAfter(b[i], b[j])
         /\ \A a \in all : a \notin {b[i] : i \in 1 .. count} =>
              \A i \in 1 .. count : NotAfter(b[i], a)}

\* Mutant: the threshold itself is taken for an invalid count.
ValidAbove(b) ==
  /\ Len(b) <= LEADERBOARD_LIMIT
  /\ \A i \in 1 .. Len(b) : /\ b[i].mean \in 10 .. 100
                            /\ b[i].count > LEADERBOARD_MIN_COUNT

\* validatePayload and validateEntry: value is mean_x10 / 10, in 1 .. 10.
Valid(b) ==
  /\ Len(b) <= LEADERBOARD_LIMIT
  /\ \A i \in 1 .. Len(b) : /\ b[i].mean \in 10 .. 100
                            /\ b[i].count >= LEADERBOARD_MIN_COUNT

------------------------------------------------------------------------------
\* A list nothing displays any more is not `old`; neither is "no list".
Held == [there : BOOLEAN, board : Board, old : Nat, age : Nat]
Nothing == [there |-> FALSE, board |-> <<>>, old |-> 0, age |-> 0]
Stage == {"idle", "get", "query", "set", "reply"}

TypeOK ==
  /\ db \in [Experience -> Row]
  /\ cache \in Held
  /\ pc \in [Phone -> Stage]
  /\ job \in [Phone -> Held]
  /\ home \in [Phone -> Held]
  /\ reads \in Nat
  /\ failures \in Nat

\* The key may hold what an operator or another release put there.
Foreign == {<<[exp |-> e, mean |-> 0, count |-> 0]>> : e \in Experience}

Init ==
  /\ db \in [Experience -> Row]
  /\ \/ cache = Nothing
     \/ \E b \in Foreign : cache = [there |-> TRUE, board |-> b, old |-> 0, age |-> 0]
  /\ pc = [p \in Phone |-> "idle"]
  /\ job = [p \in Phone |-> Nothing]
  /\ home = [p \in Phone |-> Nothing]
  /\ reads = 0
  /\ failures = 0

\* The same list under the table d: true again, or as old as it was.
Under(d, held) == IF held.board \in Boards(d) THEN [held EXCEPT !.old = 0] ELSE held

\* updateAggregate commits, or a catalog sync drops or revives an experience.
Change(e, row) ==
  /\ db' = [db EXCEPT ![e] = row]
  /\ cache' = Under(db', cache)
  /\ job' = [p \in Phone |-> Under(db', job[p])]
  /\ home' = [p \in Phone |-> Under(db', home[p])]
  /\ UNCHANGED <<pc, reads, failures>>

------------------------------------------------------------------------------
(* The phone.                                                              *)

\* The screen mounts: a list younger than staleTime is displayed as it is, and
\* one query at a time is under way.
Open(p) ==
  /\ pc[p] = "idle"
  /\ ~home[p].there \/ home[p].age >= CACHE_WINDOW
  /\ pc' = [pc EXCEPT ![p] = "get"]
  /\ job' = [job EXCEPT ![p] = Nothing]
  /\ UNCHANGED <<db, cache, home, reads, failures>>

\* gcTime: a query that no mounted screen uses is dropped.
Collect(p) ==
  /\ pc[p] = "idle"
  /\ home[p].there /\ home[p].age >= CACHE_WINDOW
  /\ home' = [home EXCEPT ![p] = Nothing]
  /\ UNCHANGED <<db, cache, pc, job, reads, failures>>

Receive(p) ==
  /\ pc[p] = "reply"
  /\ pc' = [pc EXCEPT ![p] = "idle"]
  /\ home' = [home EXCEPT ![p] = [job[p] EXCEPT !.age = 0]]
  /\ job' = [job EXCEPT ![p] = Nothing]
  /\ UNCHANGED <<db, cache, reads, failures>>

------------------------------------------------------------------------------
(* getLeaderboard.                                                         *)

Goto(p, stage) == pc' = [pc EXCEPT ![p] = stage]

\* Mutant: a hit renews the time to live (GETEX).
GetSliding(p) ==
  /\ pc[p] = "get"
  /\ IF cache.there /\ Valid(cache.board)
     THEN /\ Goto(p, "reply")
          /\ job' = [job EXCEPT ![p] = [cache EXCEPT !.age = job[p].age]]
          /\ cache' = [cache EXCEPT !.age = 0]
     ELSE Goto(p, "query") /\ UNCHANGED <<cache, job>>
  /\ UNCHANGED <<db, home, reads, failures>>

\* readFromCache: what does not parse or validate counts as a miss.
Get(p) ==
  /\ pc[p] = "get"
  /\ IF cache.there /\ Valid(cache.board)
     THEN /\ Goto(p, "reply")
          /\ job' = [job EXCEPT ![p] = [cache EXCEPT !.age = job[p].age]]
     ELSE Goto(p, "query") /\ UNCHANGED job
  /\ UNCHANGED <<db, cache, home, reads, failures>>

\* readFromDb: one SELECT.
Query(p) ==
  /\ pc[p] = "query"
  /\ \E b \in Boards(db) :
       job' = [job EXCEPT ![p] = [there |-> TRUE, board |-> b, old |-> 0, age |-> @.age]]
  /\ Goto(p, "set")
  /\ reads' = reads + 1
  /\ UNCHANGED <<db, cache, home, failures>>

\* Mutant: SET NX, and EXPIRE whether or not it stored anything.
SetOnce(p) ==
  /\ pc[p] = "set"
  /\ cache' = IF cache.there THEN [cache EXCEPT !.age = 0] ELSE [job[p] EXCEPT !.age = 0]
  /\ Goto(p, "reply")
  /\ UNCHANGED <<db, job, home, reads, failures>>

\* writeToCache: unconditional, with the whole time to live.
Set(p) ==
  /\ pc[p] = "set"
  /\ cache' = [job[p] EXCEPT !.age = 0]
  /\ Goto(p, "reply")
  /\ UNCHANGED <<db, job, home, reads, failures>>

\* A SET that fails is logged, and the list is answered all the same.
SetFails(p) ==
  /\ pc[p] = "set"
  /\ failures < MaxFailures /\ failures' = failures + 1
  /\ Goto(p, "reply")
  /\ UNCHANGED <<db, cache, job, home, reads>>

\* GET or the SELECT fails, or the answer is lost: the phone keeps its list.
Fail(p) ==
  /\ pc[p] # "idle"
  /\ failures < MaxFailures /\ failures' = failures + 1
  /\ Goto(p, "idle")
  /\ job' = [job EXCEPT ![p] = Nothing]
  /\ UNCHANGED <<db, cache, home, reads>>

------------------------------------------------------------------------------
\* Older than any list may be that is displayed: how much older is not told.
TooOld == CACHE_WINDOW + LEADERBOARD_TTL + 2 * MaxDelay + 1

Later(held) ==
  IF ~held.there THEN held
  ELSE [held EXCEPT !.age = @ + 1,
                    !.old = IF held.board \in Boards(db) THEN 0
                            ELSE IF @ < TooOld THEN @ + 1 ELSE TooOld]

\* A request that is under way has an age, whether or not it has a list.
Tick ==
  /\ \A p \in Phone : pc[p] # "idle" => job[p].age < MaxDelay
  /\ LET aged == Later(cache)
         gone == cache.there /\ aged.age >= LEADERBOARD_TTL
     IN  /\ cache' = IF gone THEN Nothing ELSE aged
         /\ reads' = IF gone THEN 0 ELSE reads
  /\ job' = [p \in Phone |->
       IF pc[p] = "idle" THEN Nothing ELSE [Later(job[p]) EXCEPT !.age = job[p].age + 1]]
  /\ home' = [p \in Phone |->
       IF home[p].age >= CACHE_WINDOW
       THEN Under(db, home[p])   \* its age is enough, and how old it is no matter
       ELSE Later(home[p])]
  /\ UNCHANGED <<db, pc, failures>>

Serve(p) == Get(p) \/ Query(p) \/ Set(p) \/ Receive(p)

Next ==
  \/ \E e \in Experience, row \in Row : Change(e, row)
  \/ \E p \in Phone : Open(p) \/ Collect(p) \/ Serve(p) \/ SetFails(p) \/ Fail(p)
  \/ Tick

\* Requests are served, time goes on, and the user comes back to the screen.
FairSpec ==
  /\ Init /\ [][Next]_vars
  /\ WF_vars(Tick)
  /\ \A p \in Phone : WF_vars(Open(p)) /\ WF_vars(Serve(p))

------------------------------------------------------------------------------
(* Properties.                                                             *)

\* R11.7, R11.8: leaderboard.ts:250 calls the time to live the only source of
\* staleness.  It is not: the request that stores a list and the one that
\* fetches it each add their own time, and the phone its window.
StaleBound ==
  /\ cache.there /\ Valid(cache.board) => cache.old <= cache.age + MaxDelay
  /\ \A p \in Phone : home[p].there /\ home[p].age < CACHE_WINDOW =>
       home[p].old <= home[p].age + LEADERBOARD_TTL + 2 * MaxDelay

\* R11.9: the SELECTs between two expiries of the key are one per phone that
\* was waiting, and those after failures, however many requests overlap.
ReadsBounded == reads <= Cardinality(Phone) + failures

\* Once ratings and the catalog stay as they are, every phone whose user comes
\* back ends up with the true list, and keeps it.
Refreshed ==
  <>[][UNCHANGED db]_vars => \A p \in Phone : <>[](home[p].there => home[p].old = 0)
==============================================================================
