------------------------------- MODULE Login -------------------------------
(***************************************************************************)
(* Accounts and failed logins: handleRegister and handleLogin of           *)
(* auth/routes.ts over tables `users`, `profiles` and `sessions`, behind   *)
(* the per-account limit of plugins/rateLimit.ts and the lockout of        *)
(* auth/lockout.ts.                                                        *)
(*                                                                         *)
(* The lockout is two Redis keys of a user, a sorted set of the times of   *)
(* failures and a lock with a time to live.  A failure is five commands,   *)
(* each atomic, none conditional on another, and the lock is looked up     *)
(* before a password check that takes long: logins of one account overlap  *)
(* at every point, and any of them may stop half way.                      *)
(*                                                                         *)
(* The specification is LoginSpec: the names that Phone has too begin with *)
(* Login here, and the proofs about both stand in one module.              *)
(***************************************************************************)
EXTENDS Integers, FiniteSets

CONSTANTS
  Email,              \* addresses somebody registers or logs in with
  Handler,            \* requests served concurrently
  LOCKOUT_THRESHOLD,  \* 5 in the source
  LOCKOUT_WINDOW,     \* 15 minutes, the TTL of both keys too
  RATE_MAX,           \* 5
  RATE_WINDOW,        \* 15 minutes
  MaxDelay,           \* bound: no request takes longer, nor than the window
  MaxFaults,          \* bound: failures that stop before the lock is set
  MaxTime             \* bound: the clock stops here

ASSUME LoginAssumption ==
  /\ IsFiniteSet(Handler)
  /\ LOCKOUT_THRESHOLD \in Nat \ {0}
  /\ LOCKOUT_WINDOW \in Nat \ {0}
  /\ RATE_MAX \in Nat \ {0}
  /\ RATE_WINDOW \in Nat \ {0}
  /\ MaxDelay \in 0 .. LOCKOUT_WINDOW
  /\ MaxFaults \in Nat
  /\ MaxTime \in Nat

VARIABLES
  rows,     \* committed rows of each address, by table
  counter,  \* key lockout:{userId}: its scores, and when it expires
  lock,     \* key locked:{userId}: when it expires
  rate,     \* requests of the current window of an address, and its end
  now,      \* the clock
  pc,       \* where each handler is
  job,      \* its request
  fresh,    \* history: failures of each moment since the last success, except
            \* those lost between ZADD and the lock
  tries,    \* history: failures of each moment
  faults    \* history: how many did not get to the lock

loginVars == <<rows, counter, lock, rate, now, pc, job, fresh, tries, faults>>

Time == 0 .. MaxTime
NoScores == [t \in Time |-> 0]
Never == MaxTime + LOCKOUT_WINDOW + 1
Account == {"user", "profile", "session"}
Record == {"zrem", "zadd", "expire", "zcard", "set"}
Stage == Record \cup {"idle", "fetch", "exists", "verify", "clear", "named", "issue",
                      "insert user", "insert profile", "insert session", "commit"}
\* right: the password is; own: rows of a transaction that is not committed.
Job == [email : Email, right : BOOLEAN, at : Time, since : Time, own : SUBSET Account]
NoJob == [email |-> 0, right |-> FALSE, at |-> 0, since |-> 0, own |-> {}]

LoginTypeOK ==
  /\ rows \in [Email -> SUBSET Account]
  /\ counter \in [Email -> [scores : [Time -> Nat], expires : Nat]]
  /\ lock \in [Email -> Nat]
  /\ rate \in [Email -> [count : Nat, ends : Nat]]
  /\ now \in Time
  /\ pc \in [Handler -> Stage]
  /\ job \in [Handler -> Job \cup {NoJob}]
  /\ \A h \in Handler : pc[h] # "idle" => job[h] \in Job
  /\ fresh \in [Email -> [Time -> Nat]]
  /\ tries \in [Email -> [Time -> Nat]]
  /\ faults \in Nat

LoginInit ==
  /\ rows = [e \in Email |-> {}]
  /\ counter = [e \in Email |-> [scores |-> NoScores, expires |-> 0]]
  /\ lock = [e \in Email |-> 0]
  /\ rate = [e \in Email |-> [count |-> 0, ends |-> 0]]
  /\ now = 0
  /\ pc = [h \in Handler |-> "idle"]
  /\ job = [h \in Handler |-> NoJob]
  /\ fresh = [e \in Email |-> NoScores]
  /\ tries = [e \in Email |-> NoScores]
  /\ faults = 0

\* How many of the failures counted by f came within the times of S: each is
\* told from the others of its moment by a number.
Sum(f, S) == Cardinality(UNION {{t} \X (1 .. f[t]) : t \in S \cap Time})

Answer(h) ==
  /\ pc' = [pc EXCEPT ![h] = "idle"]
  /\ job' = [job EXCEPT ![h] = NoJob]

Goto(h, stage) == pc' = [pc EXCEPT ![h] = stage] /\ UNCHANGED job

Redis == <<counter, lock, rate>>
History == <<fresh, tries, faults>>

------------------------------------------------------------------------------
(* POST /auth/register.                                                    *)

RegisterArrive(h, e) ==
  /\ pc[h] = "idle"
  /\ pc' = [pc EXCEPT ![h] = "insert user"]
  /\ job' = [job EXCEPT ![h] =
       [email |-> e, right |-> TRUE, at |-> 0, since |-> now, own |-> {}]]
  /\ UNCHANGED <<rows, Redis, now, History>>

\* INSERT INTO users: a key that another transaction has inserted and not
\* committed is waited for; a committed one is email_in_use, and a ROLLBACK.
InsertUser(h) ==
  /\ pc[h] = "insert user"
  /\ \A g \in Handler \ {h} :
       job[g].email = job[h].email => "user" \notin job[g].own
  /\ IF "user" \in rows[job[h].email]
     THEN Answer(h)
     ELSE /\ pc' = [pc EXCEPT ![h] = "insert profile"]
          /\ job' = [job EXCEPT ![h].own = @ \cup {"user"}]
  /\ UNCHANGED <<rows, Redis, now, History>>

InsertProfile(h) ==
  /\ pc[h] = "insert profile"
  /\ pc' = [pc EXCEPT ![h] = "insert session"]
  /\ job' = [job EXCEPT ![h].own = @ \cup {"profile"}]
  /\ UNCHANGED <<rows, Redis, now, History>>

\* Mutant: the statement goes to the pool, outside of the transaction.
InsertOutside(h) ==
  /\ pc[h] = "insert session"
  /\ pc' = [pc EXCEPT ![h] = "commit"]
  /\ rows' = [rows EXCEPT ![job[h].email] = @ \cup {"session"}]
  /\ UNCHANGED <<job, Redis, now, History>>

InsertSession(h) ==
  /\ pc[h] = "insert session"
  /\ pc' = [pc EXCEPT ![h] = "commit"]
  /\ job' = [job EXCEPT ![h].own = @ \cup {"session"}]
  /\ UNCHANGED <<rows, Redis, now, History>>

\* COMMIT and the answer 201; the answer may be lost.
Commit(h) ==
  /\ pc[h] = "commit"
  /\ rows' = [rows EXCEPT ![job[h].email] = @ \cup job[h].own]
  /\ Answer(h)
  /\ UNCHANGED <<Redis, now, History>>

------------------------------------------------------------------------------
(* POST /auth/login.                                                       *)

\* loginRateLimitConfig: a window of an address begins with its first request
\* after the previous one; a request above RATE_MAX is answered 429.
RateLimit(e) ==
  IF now >= rate[e].ends
  THEN rate' = [rate EXCEPT ![e] = [count |-> 1, ends |-> now + RATE_WINDOW]]
  ELSE /\ rate[e].count < RATE_MAX
       /\ rate' = [rate EXCEPT ![e].count = @ + 1]

LoginArrive(h, e, right) ==
  /\ pc[h] = "idle"
  /\ RateLimit(e)
  /\ pc' = [pc EXCEPT ![h] = "fetch"]
  /\ job' = [job EXCEPT ![h] =
       [email |-> e, right |-> right, at |-> 0, since |-> now, own |-> {}]]
  /\ UNCHANGED <<rows, counter, lock, now, History>>

\* fetchUserForLogin: an unknown address is invalid_credentials, and no
\* failure is recorded.
FetchUser(h) ==
  /\ pc[h] = "fetch"
  /\ IF "user" \in rows[job[h].email] THEN Goto(h, "exists") ELSE Answer(h)
  /\ UNCHANGED <<rows, Redis, now, History>>

\* isLocked, EXISTS: 423 account_locked.
IsLocked(h) ==
  /\ pc[h] = "exists"
  /\ IF now < lock[job[h].email] THEN Answer(h) ELSE Goto(h, "verify")
  /\ UNCHANGED <<rows, Redis, now, History>>

\* verifyPassword; recordFailure then reads the clock, clearOnSuccess does not.
Verify(h) ==
  /\ pc[h] = "verify"
  /\ pc' = [pc EXCEPT ![h] = IF job[h].right THEN "clear" ELSE "zrem"]
  /\ job' = [job EXCEPT ![h].at = now]
  /\ UNCHANGED <<rows, Redis, now, History>>

------------------------------------------------------------------------------
(* recordFailure, a command at a time.  An expired key is an empty one.    *)

Scores(e) == IF now < counter[e].expires THEN counter[e].scores ELSE NoScores

\* ZREMRANGEBYSCORE key -inf (t - LOCKOUT_WINDOW) - 1.
RemoveOld(h) ==
  /\ pc[h] = "zrem"
  /\ LET e == job[h].email IN
       counter' = [counter EXCEPT ![e].scores =
         [t \in Time |-> IF t < job[h].at - LOCKOUT_WINDOW THEN 0 ELSE Scores(e)[t]]]
  /\ Goto(h, "zadd")
  /\ UNCHANGED <<rows, lock, rate, now, History>>

\* ZADD: the member has a random suffix, so two failures of one moment count
\* twice.  A key that is created has no time to live yet.
Add(h) ==
  /\ pc[h] = "zadd"
  /\ LET e == job[h].email  t == job[h].at IN
       /\ counter' = [counter EXCEPT ![e] =
            [scores |-> [Scores(e) EXCEPT ![t] = @ + 1],
             expires |-> IF \A u \in Time : Scores(e)[u] = 0 THEN Never ELSE @.expires]]
       /\ fresh' = [fresh EXCEPT ![e][t] = @ + 1]
       /\ tries' = [tries EXCEPT ![e][t] = @ + 1]
  /\ Goto(h, "expire")
  /\ UNCHANGED <<rows, lock, rate, now, faults>>

\* EXPIRE answers 0 when the key is gone, and that is not looked at.
ExpireCounter(h) ==
  /\ pc[h] = "expire"
  /\ counter' = [counter EXCEPT ![job[h].email].expires =
       IF now < @ THEN now + LOCKOUT_WINDOW ELSE @]
  /\ Goto(h, "zcard")
  /\ UNCHANGED <<rows, lock, rate, now, History>>

\* Mutant: the failure after the threshold is the one that locks.
CountAbove(h) ==
  /\ pc[h] = "zcard"
  /\ IF Sum(Scores(job[h].email), Time) > LOCKOUT_THRESHOLD
     THEN Goto(h, "set") ELSE Answer(h)
  /\ UNCHANGED <<rows, Redis, now, History>>

\* Mutant: the failure before the threshold locks already.
CountBelow(h) ==
  /\ pc[h] = "zcard"
  /\ IF Sum(Scores(job[h].email), Time) >= LOCKOUT_THRESHOLD - 1
     THEN Goto(h, "set") ELSE Answer(h)
  /\ UNCHANGED <<rows, Redis, now, History>>

\* ZCARD, of the whole key: failures that others added meanwhile count.
Count(h) ==
  /\ pc[h] = "zcard"
  /\ IF Sum(Scores(job[h].email), Time) >= LOCKOUT_THRESHOLD
     THEN Goto(h, "set") ELSE Answer(h)
  /\ UNCHANGED <<rows, Redis, now, History>>

\* Mutant: SET with NX, which leaves a lock that stands as it is.
SetLockOnce(h) ==
  /\ pc[h] = "set"
  /\ lock' = [lock EXCEPT ![job[h].email] =
       IF now < @ THEN @ ELSE now + LOCKOUT_WINDOW]
  /\ Answer(h)
  /\ UNCHANGED <<rows, counter, rate, now, History>>

\* SET locked:{userId} 1 EX, then invalid_credentials.
SetLock(h) ==
  /\ pc[h] = "set"
  /\ lock' = [lock EXCEPT ![job[h].email] = now + LOCKOUT_WINDOW]
  /\ Answer(h)
  /\ UNCHANGED <<rows, counter, rate, now, History>>

------------------------------------------------------------------------------
(* The rest of a successful login.                                         *)

\* clearOnSuccess: one DEL of both keys.
Clear(h) ==
  /\ pc[h] = "clear"
  /\ LET e == job[h].email IN
       /\ counter' = [counter EXCEPT ![e] = [scores |-> NoScores, expires |-> 0]]
       /\ lock' = [lock EXCEPT ![e] = 0]
       /\ fresh' = [fresh EXCEPT ![e] = NoScores]
  /\ Goto(h, "named")
  /\ UNCHANGED <<rows, rate, now, tries, faults>>

\* fetchProfile, which answers internal_error when there is no row.
FetchProfile(h) ==
  /\ pc[h] = "named"
  /\ IF "profile" \in rows[job[h].email] THEN Goto(h, "issue") ELSE Answer(h)
  /\ UNCHANGED <<rows, Redis, now, History>>

IssueSession(h) ==
  /\ pc[h] = "issue"
  /\ rows' = [rows EXCEPT ![job[h].email] = @ \cup {"session"}]
  /\ Answer(h)
  /\ UNCHANGED <<Redis, now, History>>

------------------------------------------------------------------------------
\* A statement or a command fails, the process dies, or the client is gone:
\* the transaction is rolled back, and Redis keeps what it was sent.
Fail(h) ==
  /\ pc[h] # "idle"
  /\ IF pc[h] \in {"expire", "zcard", "set"}
     THEN /\ faults < MaxFaults
          /\ faults' = faults + 1
          /\ fresh' = [fresh EXCEPT ![job[h].email][job[h].at] = IF @ > 0 THEN @ - 1 ELSE 0]
     ELSE UNCHANGED <<faults, fresh>>
  /\ Answer(h)
  /\ UNCHANGED <<rows, Redis, now, tries>>

\* A key that expires between ZADD and EXPIRE takes the failure along.
Lost(e, t) ==
  IF now + 1 # counter[e].expires THEN 0
  ELSE Cardinality({h \in Handler :
         pc[h] = "expire" /\ job[h].email = e /\ job[h].at = t})

Tick ==
  /\ now < MaxTime
  /\ \A h \in Handler : pc[h] # "idle" => now < job[h].since + MaxDelay
  /\ now' = now + 1
  /\ fresh' = [e \in Email |-> [t \in Time |->
       IF fresh[e][t] > Lost(e, t) THEN fresh[e][t] - Lost(e, t) ELSE 0]]
  /\ UNCHANGED <<rows, Redis, pc, job, tries, faults>>

RegisterStep(h) ==
  \/ \E e \in Email : RegisterArrive(h, e)
  \/ InsertUser(h) \/ InsertProfile(h) \/ InsertSession(h) \/ Commit(h)

LoginStep(h) ==
  \/ \E e \in Email, right \in BOOLEAN : LoginArrive(h, e, right)
  \/ FetchUser(h) \/ IsLocked(h) \/ Verify(h)
  \/ RemoveOld(h) \/ Add(h) \/ ExpireCounter(h) \/ Count(h) \/ SetLock(h)
  \/ Clear(h) \/ FetchProfile(h) \/ IssueSession(h)

LoginNext ==
  \/ \E h \in Handler : RegisterStep(h) \/ LoginStep(h) \/ Fail(h)
  \/ Tick

LoginSpec == LoginInit /\ [][LoginNext]_loginVars

------------------------------------------------------------------------------
(* Properties.                                                             *)

\* R6.2, R6.4: an account is registered with its profile and its session or not at
\* all, so that a login never meets a user without a profile.
AccountIsWhole == \A e \in Email : rows[e] \in {{}, Account}

\* Property 15: a failure that nobody has got to the lock for yet.
Pending(e) == \E h \in Handler : job[h].email = e /\ pc[h] \in {"expire", "zcard", "set"}

\* Property 15, R6.7: THRESHOLD failures within a window lock the account for a
\* window after the last of them, whatever logins overlap.  A ZADD may come a
\* request's time after its score was read, so only failures closer than a
\* window less that time count, and not those that are lost (Lost, Fail).
FailuresLock ==
  \A e \in Email, t \in Time :
    /\ ~Pending(e)
    /\ fresh[e][t] > 0
    /\ now < t + LOCKOUT_WINDOW
    /\ Sum(fresh[e], (t - LOCKOUT_WINDOW + MaxDelay + 1) .. t) >= LOCKOUT_THRESHOLD
    => now < lock[e]

\* R6.7, design.md:766: what a flood gets from its overlapping logins is one
\* wrong password checked per login under way above those below the threshold.
GuessesBounded ==
  \A e \in Email :
    Sum(fresh[e], (now - LOCKOUT_WINDOW + 1) .. now)
      <= LOCKOUT_THRESHOLD - 1 + Cardinality(Handler)

\* Property 15, the other way: a lock stands only where THRESHOLD failures
\* came within a window and the time of a request before it was set.
LockIsEarned ==
  \A e \in Email : now < lock[e] =>
    LET set == lock[e] - LOCKOUT_WINDOW
    IN  Sum(tries[e], (set - LOCKOUT_WINDOW - MaxDelay) .. set) >= LOCKOUT_THRESHOLD
==============================================================================
