------------------------------ MODULE Sessions ------------------------------
(***************************************************************************)
(* Sessions: auth/sessionMiddleware.ts over table `sessions`, with the     *)
(* rows that login and registration insert and logout revokes              *)
(* (auth/routes.ts).                                                       *)
(*                                                                         *)
(* Every request is authorised by a SELECT of its session, a reading of    *)
(* the clock, and an UPDATE that stores what was computed from the row     *)
(* read, without a lock or a condition: requests of one session overlap,   *)
(* and the UPDATEs of two of them land in any order.                       *)
(***************************************************************************)
EXTENDS Integers

CONSTANTS
  Session,                 \* ids of sessions, one bearer token each
  Handler,                 \* requests served concurrently
  SESSION_BURST_GAP,       \* 30 minutes in the source
  SESSION_BURST_DURATION,  \* 24 hours
  SESSION_IDLE_WINDOW,     \* 30 days
  MaxDelay,                \* bound: no request is in the middleware for longer
  MaxTime                  \* bound: the clock stops here

ASSUME SessionAssumption ==
  /\ SESSION_BURST_GAP \in Nat
  /\ SESSION_BURST_DURATION \in Nat \ {0}
  /\ SESSION_IDLE_WINDOW \in Nat
  /\ SESSION_BURST_DURATION <= SESSION_IDLE_WINDOW
  /\ MaxDelay \in Nat
  /\ MaxTime \in Nat

VARIABLES
  row,    \* the row of `sessions` of each session
  now,    \* the clock
  pc,     \* where each handler is
  job,    \* its request, the row it read and what it will store
  burst,  \* history: since when each session has been in continuous use
  last    \* history: its last use

vars == <<row, now, pc, job, burst, last>>

\* last_seen_at, absolute_expires_at, revoked_at IS NOT NULL.
Row == [issued : BOOLEAN, seen : Nat, expires : Nat, revoked : BOOLEAN]
NoRow == [issued |-> FALSE, seen |-> 0, expires |-> 0, revoked |-> FALSE]
\* late: the session was revoked already when the request arrived.
Job == [session : Session, read : Row, at : Nat, since : Nat,
        late : BOOLEAN, logout : BOOLEAN]
Stage == {"idle", "arrived", "found", "accepted", "passed"}
NoJob == [session |-> 0, read |-> NoRow, at |-> 0, since |-> 0,
          late |-> FALSE, logout |-> FALSE]

TypeOK ==
  /\ row \in [Session -> Row]
  /\ now \in Nat
  /\ pc \in [Handler -> Stage]
  /\ job \in [Handler -> Job \cup {NoJob}]
  /\ \A h \in Handler : pc[h] # "idle" => job[h] \in Job
  /\ burst \in [Session -> Nat]
  /\ last \in [Session -> Nat]

Init ==
  /\ row = [s \in Session |-> NoRow]
  /\ now = MaxDelay
  /\ pc = [h \in Handler |-> "idle"]
  /\ job = [h \in Handler |-> NoJob]
  /\ burst = [s \in Session |-> 0]
  /\ last = [s \in Session |-> 0]

------------------------------------------------------------------------------
\* handleLogin and handleRegister: the INSERT follows the reading of the
\* clock, and the token is sent after it.
Login(s, issuedAt) ==
  /\ ~row[s].issued
  /\ row' = [row EXCEPT ![s] =
       [issued |-> TRUE, seen |-> issuedAt,
        expires |-> issuedAt + SESSION_BURST_DURATION, revoked |-> FALSE]]
  /\ burst' = [burst EXCEPT ![s] = issuedAt]
  /\ last' = [last EXCEPT ![s] = issuedAt]
  /\ UNCHANGED <<now, pc, job>>

------------------------------------------------------------------------------
(* The middleware.                                                         *)

Answer(h) ==
  /\ pc' = [pc EXCEPT ![h] = "idle"]
  /\ job' = [job EXCEPT ![h] = NoJob]

\* Any request but login and registration; `logout` is POST /auth/logout.
Arrive(h, s, logout) ==
  /\ pc[h] = "idle"
  /\ pc' = [pc EXCEPT ![h] = "arrived"]
  /\ job' = [job EXCEPT ![h] =
       [session |-> s, read |-> NoRow, at |-> 0, since |-> now,
        late |-> row[s].revoked, logout |-> logout]]
  /\ UNCHANGED <<row, now, burst, last>>

\* findByTokenHash.
Find(h) ==
  /\ pc[h] = "arrived"
  /\ IF row[job[h].session].issued
     THEN /\ pc' = [pc EXCEPT ![h] = "found"]
          /\ job' = [job EXCEPT ![h].read = row[job[h].session]]
     ELSE Answer(h)
  /\ UNCHANGED <<row, now, burst, last>>

IdleGap(h) == now - job[h].read.seen

Authorized(h) ==
  /\ ~job[h].read.revoked
  /\ now < job[h].read.expires
  /\ IdleGap(h) < SESSION_IDLE_WINDOW

\* Mutant: every use opens a new window.
SlideExpiry(h) == now + SESSION_BURST_DURATION

NewExpiry(h) ==
  IF IdleGap(h) >= SESSION_BURST_GAP
  THEN now + SESSION_BURST_DURATION
  ELSE job[h].read.expires

\* The clock is read once; all rules are evaluated on the row read before.
Decide(h) ==
  /\ pc[h] = "found"
  /\ IF Authorized(h)
     THEN /\ pc' = [pc EXCEPT ![h] = "accepted"]
          /\ job' = [job EXCEPT ![h].at = now, ![h].read.expires = NewExpiry(h)]
     ELSE Answer(h)
  /\ UNCHANGED <<row, now, burst, last>>

\* Two uses less than this apart are continuous whatever overlapped: the row
\* read, its last_seen_at and the previous use may each be MaxDelay behind.
Hop == SESSION_BURST_GAP - 3 * MaxDelay

NoteUse(s, at) ==
  /\ burst' = [burst EXCEPT ![s] =
       IF at >= last[s] + Hop THEN at
       ELSE IF at < @ /\ @ < at + Hop THEN at ELSE @]
  /\ last' = [last EXCEPT ![s] = IF at > @ THEN at ELSE @]

HandOn(h) ==
  IF job[h].logout
  THEN pc' = [pc EXCEPT ![h] = "passed"] /\ UNCHANGED job
  ELSE Answer(h)

\* Mutant: last_seen_at is left out of the UPDATE.
UpdateExpiry(h) ==
  /\ pc[h] = "accepted"
  /\ row' = [row EXCEPT ![job[h].session].expires = job[h].read.expires]
  /\ NoteUse(job[h].session, job[h].at)
  /\ HandOn(h)
  /\ UNCHANGED now

\* Mutant: the row that was read is saved back, revoked_at included.
SaveRow(h) ==
  /\ pc[h] = "accepted"
  /\ row' = [row EXCEPT ![job[h].session] = [job[h].read EXCEPT !.seen = job[h].at]]
  /\ NoteUse(job[h].session, job[h].at)
  /\ HandOn(h)
  /\ UNCHANGED now

\* updateActivity, WHERE id = $1: revoked_at is neither tested nor written.
UpdateActivity(h) ==
  /\ pc[h] = "accepted"
  /\ row' = [row EXCEPT ![job[h].session].seen = job[h].at,
                        ![job[h].session].expires = job[h].read.expires]
  /\ NoteUse(job[h].session, job[h].at)
  /\ HandOn(h)
  /\ UNCHANGED now

\* handleLogout, after the middleware let it through.
Revoke(h) ==
  /\ pc[h] = "passed"
  /\ row' = [row EXCEPT ![job[h].session].revoked = TRUE]
  /\ Answer(h)
  /\ UNCHANGED <<now, burst, last>>

\* A statement fails: the request ends with a 500 and what it had done stays.
Fail(h) ==
  /\ pc[h] \in {"arrived", "accepted", "passed"}
  /\ Answer(h)
  /\ UNCHANGED <<row, now, burst, last>>

------------------------------------------------------------------------------
Tick ==
  /\ now < MaxTime
  /\ \A h \in Handler : pc[h] # "idle" => now < job[h].since + MaxDelay
  /\ now' = now + 1
  /\ UNCHANGED <<row, pc, job, burst, last>>

Step(h) ==
  \/ \E s \in Session, logout \in BOOLEAN : Arrive(h, s, logout)
  \/ Find(h) \/ Decide(h) \/ UpdateActivity(h) \/ Revoke(h) \/ Fail(h)

Next ==
  \/ \E s \in Session, issuedAt \in (now - MaxDelay) .. now : Login(s, issuedAt)
  \/ \E h \in Handler : Step(h)
  \/ Tick

Spec == Init /\ [][Next]_vars

------------------------------------------------------------------------------
(* Properties.                                                             *)

\* Property 14, R6.8: no request that arrives after a logout committed is
\* authorised, though UPDATEs of requests that were under way then land later.
LogoutIsFinal == \A h \in Handler : pc[h] \in {"accepted", "passed"} => ~job[h].late

\* R6.5: in whatever order the UPDATEs of overlapping requests land, a session
\* expires at most SESSION_BURST_DURATION after the use stored beside it.
ExpiryFollowsUse ==
  \A s \in Session : row[s].issued =>
    /\ row[s].seen <= now
    /\ row[s].expires <= row[s].seen + SESSION_BURST_DURATION

\* R6.5: continuous use ends after SESSION_BURST_DURATION and the time that
\* two overlapping requests may spend, whatever each of them stores.
ContinuousUseEnds ==
  \A s \in Session :
    row[s].issued => last[s] < burst[s] + SESSION_BURST_DURATION + 2 * MaxDelay
==============================================================================
