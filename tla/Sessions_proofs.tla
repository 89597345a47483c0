--------------------------- MODULE Sessions_proofs ---------------------------
(***************************************************************************)
(* What TLAPS proves of Sessions, for any sessions, any number of          *)
(* overlapping requests and any windows.  The invariant says what the row  *)
(* a handler holds still guarantees once the table has moved on: nothing   *)
(* of what is in the table now, but that it ends soon after its own use,   *)
(* and that it shows a logout that came before the request.                *)
(***************************************************************************)
EXTENDS Sessions, TLAPS

Ends(r, t) == r.seen <= t /\ r.expires <= r.seen + SESSION_BURST_DURATION

RowsEnd == \A s \in Session :
  /\ row[s].issued => Ends(row[s], now)
  /\ row[s].revoked => row[s].issued

HeldEnd == \A h \in Handler :
  /\ pc[h] = "found" => Ends(job[h].read, now)
  /\ pc[h] \in {"accepted", "passed"} =>
       job[h].at <= now /\ job[h].read.expires <= job[h].at + SESSION_BURST_DURATION

LogoutShows == \A h \in Handler :
  /\ pc[h] = "arrived" /\ job[h].late => row[job[h].session].revoked
  /\ pc[h] = "found" /\ job[h].late => job[h].read.revoked
  /\ pc[h] \in {"accepted", "passed"} => ~job[h].late

HeldIssued == \A h \in Handler :
  pc[h] \in {"found", "accepted", "passed"} => row[job[h].session].issued

IInv == TypeOK /\ MaxDelay <= now /\ RowsEnd /\ HeldEnd /\ LogoutShows /\ HeldIssued

\* Init: nothing is issued, and no handler holds anything.
LEMMA InitInv == Init => IInv
  BY SessionAssumption DEF Init, IInv, TypeOK, RowsEnd, HeldEnd, LogoutShows, HeldIssued, Row,
     NoRow, Stage, Ends

\* A handler that answers holds nothing, and the others hold what they held.
LEMMA Answering ==
  ASSUME NEW h \in Handler, TypeOK, Answer(h)
  PROVE  /\ pc' \in [Handler -> Stage]
         /\ job' \in [Handler -> Job \cup {NoJob}]
         /\ pc'[h] = "idle"
         /\ \A g \in Handler \ {h} : pc'[g] = pc[g] /\ job'[g] = job[g]
  BY DEF Answer, TypeOK, Stage

RowsStay == \A s \in Session :
  /\ row[s].issued => row'[s].issued
  /\ row[s].revoked => row'[s].revoked

\* A step of one handler's keeps what every other one holds to, as long as the
\* table keeps its rows and logouts and the clock does not go back.
LEMMA OthersKept ==
  ASSUME NEW h \in Handler, IInv, now' = now, RowsStay,
         NEW g \in Handler \ {h}, pc'[g] = pc[g], job'[g] = job[g]
  PROVE  /\ pc'[g] = "found" => Ends(job'[g].read, now')
         /\ pc'[g] \in {"accepted", "passed"} =>
              /\ job'[g].at <= now'
              /\ job'[g].read.expires <= job'[g].at + SESSION_BURST_DURATION
         /\ pc'[g] = "arrived" /\ job'[g].late => row'[job'[g].session].revoked
         /\ pc'[g] = "found" /\ job'[g].late => job'[g].read.revoked
         /\ pc'[g] \in {"accepted", "passed"} => ~job'[g].late
         /\ pc'[g] \in {"found", "accepted", "passed"} => row'[job'[g].session].issued
         /\ pc'[g] # "idle" => job'[g] \in Job
<1>1. pc[g] # "idle" => job[g] \in Job
  BY DEF IInv, TypeOK
<1>2. pc[g] # "idle" => job[g].session \in Session
  BY <1>1 DEF Job
<1> QED
  BY <1>1, <1>2 DEF IInv, HeldEnd, LogoutShows, HeldIssued, RowsStay

\* Login fills the row of a session that nobody has.
LEMMA LoginStep ==
  ASSUME IInv, NEW s \in Session, NEW issuedAt \in (now - MaxDelay) .. now,
         Login(s, issuedAt)
  PROVE  IInv'
<1>1. issuedAt \in Nat /\ issuedAt <= now /\ now \in Nat
  BY SessionAssumption DEF IInv, TypeOK
<1> DEFINE new == [issued |-> TRUE, seen |-> issuedAt,
                   expires |-> issuedAt + SESSION_BURST_DURATION, revoked |-> FALSE]
<1>2. new \in Row /\ Ends(new, now) /\ new.issued /\ ~new.revoked
  BY <1>1, SessionAssumption DEF Row, Ends
<1>3. /\ ~row[s].issued /\ row' = [row EXCEPT ![s] = new]
      /\ burst' = [burst EXCEPT ![s] = issuedAt] /\ last' = [last EXCEPT ![s] = issuedAt]
      /\ now' = now /\ pc' = pc /\ job' = job
  BY DEF Login
<1> HIDE DEF new
<1>4. TypeOK'
  BY <1>1, <1>2, <1>3 DEF IInv, TypeOK
<1>5. RowsEnd'
  BY <1>2, <1>3 DEF IInv, TypeOK, RowsEnd
<1>6. RowsStay
  BY <1>2, <1>3 DEF IInv, TypeOK, RowsEnd, RowsStay
<1>7. HeldEnd'
  BY <1>3 DEF IInv, HeldEnd
<1>8. LogoutShows'
  <2> SUFFICES ASSUME NEW g \in Handler, pc[g] = "arrived", job[g].late
               PROVE  row'[job[g].session].revoked
    BY <1>3 DEF IInv, LogoutShows
  <2>1. job[g].session \in Session
    BY DEF IInv, TypeOK, Job
  <2> QED  BY <2>1, <1>6 DEF IInv, LogoutShows, RowsStay
<1>9. HeldIssued'
  <2> SUFFICES ASSUME NEW g \in Handler, pc[g] \in {"found", "accepted", "passed"}
               PROVE  row'[job[g].session].issued
    BY <1>3 DEF HeldIssued
  <2>1. job[g].session \in Session
    BY DEF IInv, TypeOK, Job
  <2> QED  BY <2>1, <1>6 DEF IInv, HeldIssued, RowsStay
<1> QED  BY <1>3, <1>4, <1>5, <1>7, <1>8, <1>9 DEF IInv

\* A request arrives; whether it comes after a logout is what the table shows.
LEMMA ArriveStep ==
  ASSUME IInv, NEW h \in Handler, NEW s \in Session, NEW logout \in BOOLEAN,
         Arrive(h, s, logout)
  PROVE  IInv'
<1> DEFINE new == [session |-> s, read |-> NoRow, at |-> 0, since |-> now,
                   late |-> row[s].revoked, logout |-> logout]
<1>1. new \in Job /\ new.session = s /\ new.late = row[s].revoked
  BY DEF IInv, TypeOK, Job, Row, NoRow
<1>2. /\ pc' = [pc EXCEPT ![h] = "arrived"] /\ job' = [job EXCEPT ![h] = new]
      /\ row' = row /\ now' = now /\ burst' = burst /\ last' = last
  BY DEF Arrive
<1> HIDE DEF new
<1>3. /\ pc'[h] = "arrived" /\ job'[h] = new
      /\ \A g \in Handler \ {h} : pc'[g] = pc[g] /\ job'[g] = job[g]
  BY <1>2 DEF IInv, TypeOK
<1>4. TypeOK'
  BY <1>1, <1>2, <1>3 DEF IInv, TypeOK, Stage
<1>5. RowsEnd'
  BY <1>2 DEF IInv, RowsEnd
<1>6. HeldEnd' /\ LogoutShows' /\ HeldIssued'
  BY <1>1, <1>2, <1>3, OthersKept DEF HeldEnd, LogoutShows, HeldIssued, RowsStay
<1> QED  BY <1>2, <1>4, <1>5, <1>6 DEF IInv

\* Whatever a handler read, it answers without having changed anything.
LEMMA AnswerStep ==
  ASSUME IInv, NEW h \in Handler, Answer(h), UNCHANGED <<row, now, burst, last>>
  PROVE  IInv'
<1>1. TypeOK'
  BY Answering, OthersKept DEF IInv, TypeOK, RowsStay
<1>2. RowsEnd'
  BY DEF IInv, RowsEnd
<1>3. HeldEnd' /\ LogoutShows' /\ HeldIssued'
  BY Answering, OthersKept DEF IInv, HeldEnd, LogoutShows, HeldIssued, RowsStay
<1> QED  BY <1>1, <1>2, <1>3 DEF IInv

\* The row found has what the table has at this moment.
LEMMA FindStep == ASSUME IInv, NEW h \in Handler, Find(h) PROVE IInv'
<1>1. pc[h] = "arrived" /\ job[h] \in Job /\ UNCHANGED <<row, now, burst, last>>
  BY DEF Find, IInv, TypeOK
<1>2. CASE ~row[job[h].session].issued
  BY <1>1, <1>2, AnswerStep DEF Find
<1>3. CASE row[job[h].session].issued
  <2> DEFINE new == [job[h] EXCEPT !.read = row[job[h].session]]
  <2>1. job[h].session \in Session
    BY <1>1 DEF Job
  <2>2. /\ new \in Job /\ new.read = row[job[h].session]
        /\ new.late = job[h].late /\ new.session = job[h].session
    BY <1>1, <2>1 DEF Job, IInv, TypeOK
  <2>3. pc' = [pc EXCEPT ![h] = "found"] /\ job' = [job EXCEPT ![h] = new]
    BY <1>3 DEF Find
  <2>4. Ends(new.read, now) /\ (new.late => new.read.revoked)
    BY <1>1, <1>3, <2>1, <2>2 DEF IInv, RowsEnd, LogoutShows
  <2> HIDE DEF new
  <2>5. /\ pc'[h] = "found" /\ job'[h] = new
        /\ \A g \in Handler \ {h} : pc'[g] = pc[g] /\ job'[g] = job[g]
    BY <2>3 DEF IInv, TypeOK
  <2>6. TypeOK'
    BY <1>1, <2>2, <2>3, <2>5 DEF IInv, TypeOK, Stage
  <2>7. RowsEnd'
    BY <1>1 DEF IInv, RowsEnd
  <2>8. HeldEnd' /\ LogoutShows' /\ HeldIssued'
    BY <1>1, <1>3, <2>2, <2>4, <2>5, OthersKept DEF HeldEnd, LogoutShows, HeldIssued, RowsStay
  <2> QED  BY <1>1, <2>6, <2>7, <2>8 DEF IInv
<1> QED  BY <1>2, <1>3

\* A row that is not accepted is forgotten.  The expiry kept is not later than
\* the one read, and the clock has not gone back since the use stored in it.
LEMMA DecideStep == ASSUME IInv, NEW h \in Handler, Decide(h) PROVE IInv'
<1>1. pc[h] = "found" /\ job[h] \in Job /\ UNCHANGED <<row, now, burst, last>>
  BY DEF Decide, IInv, TypeOK
<1>2. CASE ~Authorized(h)
  BY <1>1, <1>2, AnswerStep DEF Decide
<1>3. CASE Authorized(h)
  <2> DEFINE new == [job[h] EXCEPT !.at = now, !.read.expires = NewExpiry(h)]
  <2>1. job[h].read \in Row /\ now \in Nat /\ SESSION_BURST_DURATION \in Nat
    BY <1>1, SessionAssumption DEF Job, IInv, TypeOK
  <2>2. Ends(job[h].read, now)
    BY <1>1 DEF IInv, HeldEnd
  <2>3. NewExpiry(h) \in Nat /\ NewExpiry(h) <= now + SESSION_BURST_DURATION
    BY <2>1, <2>2 DEF NewExpiry, Ends, Row
  <2>4. /\ new \in Job /\ new.at = now /\ new.read.expires = NewExpiry(h)
        /\ new.late = job[h].late /\ new.session = job[h].session
    BY <1>1, <2>1, <2>3 DEF Job, Row
  <2>5. pc' = [pc EXCEPT ![h] = "accepted"] /\ job' = [job EXCEPT ![h] = new]
    BY <1>3 DEF Decide
  <2>6. ~new.late
    BY <1>1, <1>3, <2>4 DEF Authorized, IInv, LogoutShows
  <2> HIDE DEF new
  <2>7. /\ pc'[h] = "accepted" /\ job'[h] = new
        /\ \A g \in Handler \ {h} : pc'[g] = pc[g] /\ job'[g] = job[g]
    BY <2>5 DEF IInv, TypeOK
  <2>8. TypeOK'
    BY <1>1, <2>4, <2>5, <2>7 DEF IInv, TypeOK, Stage
  <2>9. RowsEnd'
    BY <1>1 DEF IInv, RowsEnd
  <2>10. row[job[h].session].issued
    BY <1>1 DEF IInv, HeldIssued
  <2>11. HeldEnd' /\ LogoutShows' /\ HeldIssued'
    BY <1>1, <2>1, <2>3, <2>4, <2>6, <2>7, <2>10, OthersKept
    DEF HeldEnd, LogoutShows, HeldIssued, RowsStay
  <2> QED  BY <1>1, <2>8, <2>9, <2>11 DEF IInv
<1> QED  BY <1>2, <1>3

\* NoteUse keeps the types of the two history variables.
LEMMA NoteType ==
  ASSUME TypeOK, NEW s \in Session, NEW at \in Nat, NoteUse(s, at)
  PROVE  burst' \in [Session -> Nat] /\ last' \in [Session -> Nat]
  BY DEF NoteUse, TypeOK

\* The UPDATE stores a use and an expiry that fit each other, whatever was
\* stored since the row was read, and leaves revoked_at as it is.
LEMMA UpdateStep == ASSUME IInv, NEW h \in Handler, UpdateActivity(h) PROVE IInv'
<1> DEFINE s == job[h].session
           new == [row[s] EXCEPT !.seen = job[h].at, !.expires = job[h].read.expires]
<1>1. /\ pc[h] = "accepted" /\ job[h] \in Job /\ now' = now
      /\ s \in Session /\ job[h].at \in Nat /\ job[h].read \in Row
  BY DEF UpdateActivity, IInv, TypeOK, Job
<1>2. /\ new \in Row /\ new.issued = row[s].issued /\ new.revoked = row[s].revoked
      /\ new.seen = job[h].at /\ new.expires = job[h].read.expires
  BY <1>1 DEF IInv, TypeOK, Row
<1>3. row' = [row EXCEPT ![s] = new]
  BY DEF UpdateActivity
<1>4. Ends(new, now)
  BY <1>1, <1>2 DEF IInv, HeldEnd, Ends
<1>5. /\ pc'[h] \in {"idle", "passed"}
      /\ pc'[h] = "passed" => job'[h] = job[h]
      /\ pc' \in [Handler -> Stage] /\ job' \in [Handler -> Job \cup {NoJob}]
      /\ \A g \in Handler \ {h} : pc'[g] = pc[g] /\ job'[g] = job[g]
  <2>1. CASE job[h].logout
    BY <1>1, <2>1 DEF UpdateActivity, HandOn, IInv, TypeOK, Stage
  <2>2. CASE ~job[h].logout
    BY <2>2, Answering DEF UpdateActivity, HandOn, IInv
  <2> QED  BY <2>1, <2>2
<1>6. burst' \in [Session -> Nat] /\ last' \in [Session -> Nat]
  BY <1>1, NoteType DEF UpdateActivity, IInv
<1> HIDE DEF new, s
<1>7. RowsStay
  BY <1>1, <1>2, <1>3 DEF IInv, TypeOK, RowsStay
<1>8. TypeOK'
  <2>1. row' \in [Session -> Row] /\ now' \in Nat
    BY <1>1, <1>2, <1>3 DEF IInv, TypeOK
  <2>2. \A g \in Handler : pc'[g] # "idle" => job'[g] \in Job
    BY <1>1, <1>5, <1>7, OthersKept
  <2> QED  BY <2>1, <2>2, <1>5, <1>6 DEF TypeOK
<1>9. RowsEnd'
  BY <1>1, <1>2, <1>3, <1>4 DEF IInv, TypeOK, RowsEnd
<1>10. HeldEnd' /\ LogoutShows' /\ HeldIssued'
  <2>1. /\ job[h].at <= now
        /\ job[h].read.expires <= job[h].at + SESSION_BURST_DURATION /\ ~job[h].late
    BY <1>1 DEF IInv, HeldEnd, LogoutShows
  <2>2. row'[job[h].session].issued
    BY <1>1, <1>7 DEF IInv, HeldIssued, RowsStay, Job
  <2> QED  BY <2>1, <2>2, <1>1, <1>5, <1>7, OthersKept DEF HeldEnd, LogoutShows, HeldIssued
<1> QED  BY <1>1, <1>8, <1>9, <1>10 DEF IInv

\* A logout revokes a session that was issued: it was read by this request.
LEMMA RevokeStep ==
  ASSUME IInv, NEW h \in Handler, Revoke(h)
  PROVE  IInv'
<1> DEFINE s == job[h].session
           new == [row[s] EXCEPT !.revoked = TRUE]
<1>1. /\ job[h] \in Job /\ s \in Session
      /\ now' = now /\ burst' = burst /\ last' = last /\ Answer(h)
  BY DEF Revoke, IInv, TypeOK, Job
<1>2. /\ new \in Row /\ new.issued = row[s].issued /\ new.revoked
      /\ new.seen = row[s].seen /\ new.expires = row[s].expires
  BY <1>1 DEF IInv, TypeOK, Row
<1>3. row' = [row EXCEPT ![s] = new] /\ row[s].issued
  BY DEF Revoke, IInv, HeldIssued
<1> HIDE DEF new, s
<1>4. RowsStay
  BY <1>1, <1>2, <1>3 DEF IInv, TypeOK, RowsStay
<1>5. TypeOK'
  <2>1. row' \in [Session -> Row]
    BY <1>1, <1>2, <1>3 DEF IInv, TypeOK
  <2>2. \A g \in Handler : pc'[g] # "idle" => job'[g] \in Job
    BY <1>1, <1>4, Answering, OthersKept DEF IInv
  <2> QED  BY <1>1, <2>1, <2>2, Answering DEF IInv, TypeOK
<1>6. RowsEnd'
  BY <1>1, <1>2, <1>3 DEF IInv, TypeOK, RowsEnd, Ends
<1>7. HeldEnd' /\ LogoutShows' /\ HeldIssued'
  BY <1>1, <1>4, Answering, OthersKept DEF IInv, HeldEnd, LogoutShows, HeldIssued
<1> QED  BY <1>1, <1>5, <1>6, <1>7 DEF IInv

\* The clock goes on, or nothing does.
LEMMA QuietStep == ASSUME IInv, Tick \/ UNCHANGED vars PROVE IInv'
<1>1. /\ UNCHANGED <<row, pc, job, burst, last>>
      /\ now \in Nat /\ now' \in Nat /\ now <= now' /\ MaxDelay \in Nat
  BY SessionAssumption DEF Tick, vars, IInv, TypeOK
<1>2. TypeOK' /\ MaxDelay <= now'
  BY <1>1 DEF IInv, TypeOK
<1>3. RowsEnd'
  BY <1>1 DEF IInv, TypeOK, RowsEnd, Ends, Row
<1>4. ASSUME NEW h \in Handler, pc[h] # "idle" PROVE job[h].at \in Nat /\ job[h].read \in Row
  BY <1>4 DEF IInv, TypeOK, Job
<1>5. HeldEnd'
  BY <1>1, <1>4 DEF IInv, HeldEnd, Ends, Row
<1>6. LogoutShows' /\ HeldIssued'
  BY <1>1 DEF IInv, LogoutShows, HeldIssued
<1> QED  BY <1>2, <1>3, <1>5, <1>6 DEF IInv

\* The invariant of the whole system.
LEMMA Invariant == Spec => []IInv
<1>1. ASSUME IInv, [Next]_vars PROVE IInv'
  <2>1. ASSUME NEW s \in Session, NEW issuedAt \in (now - MaxDelay) .. now,
               Login(s, issuedAt)
        PROVE  IInv'
    BY <1>1, <2>1, LoginStep
  <2>2. ASSUME NEW h \in Handler, Step(h) PROVE IInv'
    <3>1. CASE \E s \in Session, logout \in BOOLEAN : Arrive(h, s, logout)
      BY <1>1, <3>1, ArriveStep
    <3>2. CASE Find(h)            BY <1>1, <3>2, FindStep
    <3>3. CASE Decide(h)          BY <1>1, <3>3, DecideStep
    <3>4. CASE UpdateActivity(h)  BY <1>1, <3>4, UpdateStep
    <3>5. CASE Revoke(h)          BY <1>1, <3>5, RevokeStep
    <3>6. CASE Fail(h)            BY <1>1, <3>6, AnswerStep DEF Fail
    <3> QED  BY <2>2, <3>1, <3>2, <3>3, <3>4, <3>5, <3>6 DEF Step
  <2>3. CASE Tick \/ UNCHANGED vars
    BY <1>1, <2>3, QuietStep
  <2> QED  BY <1>1, <2>1, <2>2, <2>3 DEF Next
<1> QED  BY InitInv, <1>1, PTL DEF Spec

------------------------------------------------------------------------------
(* The theorems.                                                           *)

\* Every variable keeps its type.
THEOREM TypeCorrect == Spec => []TypeOK
<1>1. IInv => TypeOK
  BY DEF IInv
<1> QED  BY Invariant, <1>1, PTL

\* R6.8: no request that arrives after a logout committed is authorised, for
\* any number of requests under way and with no bound on how long they take.
THEOREM NoUseAfterLogout == Spec => []LogoutIsFinal
<1>1. IInv => LogoutIsFinal
  BY DEF IInv, LogoutIsFinal, LogoutShows
<1> QED  BY Invariant, <1>1, PTL

\* R6.5: a session expires at most SESSION_BURST_DURATION after the use stored
\* beside it, whichever of the overlapping UPDATEs lands last.
THEOREM ExpiresAfterUse == Spec => []ExpiryFollowsUse
<1>1. IInv => ExpiryFollowsUse
  BY DEF IInv, ExpiryFollowsUse, RowsEnd, Ends
<1> QED  BY Invariant, <1>1, PTL

\* R6.5 names 30 days of inactivity as a way for a session to end.  It never is
\* one: a row read whose expiry has not passed was used less than that ago, so
\* the third check of the middleware rejects nothing.
THEOREM IdleCheckRejectsNothing ==
  Spec => [](\A h \in Handler :
               pc[h] = "found" /\ now < job[h].read.expires =>
                 IdleGap(h) < SESSION_IDLE_WINDOW)
<1> DEFINE P == \A h \in Handler :
                  pc[h] = "found" /\ now < job[h].read.expires =>
                    IdleGap(h) < SESSION_IDLE_WINDOW
<1>1. ASSUME IInv PROVE P
  <2> SUFFICES ASSUME NEW h \in Handler, pc[h] = "found", now < job[h].read.expires
               PROVE  IdleGap(h) < SESSION_IDLE_WINDOW
    OBVIOUS
  <2>1. job[h].read \in Row /\ now \in Nat
    BY <1>1 DEF IInv, TypeOK, Job
  <2>2. Ends(job[h].read, now)
    BY <1>1 DEF IInv, HeldEnd
  <2> QED  BY <2>1, <2>2, SessionAssumption DEF Ends, Row, IdleGap
<1> HIDE DEF P
<1>2. Spec => []P
  BY Invariant, <1>1, PTL
<1> QED  BY <1>2 DEF P
------------------------------------------------------------------------------
(* Continuous use.  An expiry, wherever it is - in the table, or in a row   *)
(* that a handler read and will store - is at most a window after the last  *)
(* use, and a window and two delays after the use that began the continuous *)
(* one.  A handler that opens a new window read a row so old that any use   *)
(* stored since then began a continuous use of its own.                     *)

Recent(s, e) ==
  /\ e <= last[s] + SESSION_BURST_DURATION
  /\ e <= burst[s] + SESSION_BURST_DURATION + 2 * MaxDelay

SessionUse(s) ==
  row[s].issued =>
    /\ last[s] <= now /\ burst[s] <= last[s]
    /\ last[s] <= row[s].seen + MaxDelay
    /\ Recent(s, row[s].expires)
    /\ last[s] < burst[s] + SESSION_BURST_DURATION + 2 * MaxDelay

\* Nothing landed since the row was read, or what did began a continuous use.
Fresh(h) ==
  job[h].read.seen + SESSION_BURST_GAP <= job[h].since + MaxDelay =>
    \/ last[job[h].session] <= job[h].read.seen + MaxDelay
    \/ burst[job[h].session] >= job[h].since - MaxDelay

\* The handler opened a new window, or kept the one it read.
Extends(h) ==
  /\ job[h].read.expires = job[h].at + SESSION_BURST_DURATION
  /\ job[h].at >= job[h].read.seen + SESSION_BURST_GAP
Keeps(h) ==
  job[h].at < job[h].read.expires /\ Recent(job[h].session, job[h].read.expires)

HandlerUse(h) ==
  /\ pc[h] # "idle" => job[h].since <= now /\ now <= job[h].since + MaxDelay
  /\ pc[h] \in {"found", "accepted"} => Fresh(h)
  /\ pc[h] = "found" => Recent(job[h].session, job[h].read.expires)
  /\ pc[h] = "accepted" =>
       /\ job[h].since <= job[h].at /\ job[h].at <= now
       /\ Extends(h) \/ Keeps(h)

UseInv == (\A s \in Session : SessionUse(s)) /\ (\A h \in Handler : HandlerUse(h))

LEMMA UseInit == Init => UseInv
  BY DEF Init, UseInv, SessionUse, HandlerUse, NoRow

\* A step that notes no use keeps what is known of every session whose use
\* the row shows, and of every handler it does not move.
LEMMA UseKept ==
  ASSUME UseInv, UNCHANGED <<now, burst, last>>
  PROVE  /\ \A s \in Session :
              (row[s].issued <=> row'[s].issued) /\ row'[s].seen = row[s].seen
              /\ row'[s].expires = row[s].expires => SessionUse(s)'
         /\ \A g \in Handler : pc'[g] = pc[g] /\ job'[g] = job[g] => HandlerUse(g)'
<1> QED  BY DEF UseInv, SessionUse, HandlerUse, Recent, Fresh, Extends, Keeps

LEMMA UseAnswer ==
  ASSUME IInv, UseInv, NEW h \in Handler, Answer(h), UNCHANGED <<row, now, burst, last>>
  PROVE  UseInv'
<1>1. \A s \in Session : SessionUse(s)'
  BY UseKept
<1>2. \A g \in Handler \ {h} : HandlerUse(g)'
  BY UseKept, Answering DEF IInv
<1>3. pc'[h] = "idle"
  BY Answering DEF IInv
<1>4. HandlerUse(h)'
  BY <1>3 DEF HandlerUse
<1> QED  BY <1>1, <1>2, <1>4 DEF UseInv

LEMMA UseArrive ==
  ASSUME IInv, UseInv, NEW h \in Handler, NEW s \in Session, NEW logout \in BOOLEAN,
         Arrive(h, s, logout)
  PROVE  UseInv'
<1>1. /\ UNCHANGED <<row, now, burst, last>>
      /\ pc'[h] = "arrived" /\ job'[h].since = now
      /\ \A g \in Handler \ {h} : pc'[g] = pc[g] /\ job'[g] = job[g]
  BY DEF Arrive, IInv, TypeOK
<1>2. HandlerUse(h)'
  <2>1. now \in Nat /\ MaxDelay \in Nat
    BY SessionAssumption DEF IInv, TypeOK
  <2> QED  BY <1>1, <2>1 DEF HandlerUse
<1> QED  BY <1>1, <1>2, UseKept DEF UseInv

\* What Find reads is what the table shows of the last use.
LEMMA UseFind == ASSUME IInv, UseInv, NEW h \in Handler, Find(h) PROVE UseInv'
<1> DEFINE s == job[h].session
<1>1. /\ pc[h] = "arrived" /\ job[h] \in Job /\ s \in Session
      /\ UNCHANGED <<row, now, burst, last>>
  BY DEF Find, IInv, TypeOK, Job
<1>2. CASE ~row[s].issued
  BY <1>1, <1>2, UseAnswer DEF Find
<1>3. CASE row[s].issued
  <2>1. /\ pc'[h] = "found" /\ job'[h] = [job[h] EXCEPT !.read = row[s]]
        /\ \A g \in Handler \ {h} : pc'[g] = pc[g] /\ job'[g] = job[g]
    BY <1>1, <1>3 DEF Find, IInv, TypeOK
  <2>2. /\ job'[h].session = s /\ job'[h].since = job[h].since /\ job'[h].read = row[s]
    BY <1>1, <2>1 DEF Job
  <2>3. SessionUse(s) /\ HandlerUse(h)
    BY <1>1 DEF UseInv
  <2>4. HandlerUse(h)'
    BY <1>1, <1>3, <2>1, <2>2, <2>3 DEF HandlerUse, SessionUse, Fresh, Recent
  <2> QED  BY <1>1, <2>1, <2>4, UseKept DEF UseInv
<1> QED  BY <1>2, <1>3

\* The clock is read after the row, while the request is in the middleware.
LEMMA UseDecide == ASSUME IInv, UseInv, NEW h \in Handler, Decide(h) PROVE UseInv'
<1> DEFINE s == job[h].session
<1>1. /\ pc[h] = "found" /\ job[h] \in Job /\ s \in Session
      /\ UNCHANGED <<row, now, burst, last>>
  BY DEF Decide, IInv, TypeOK, Job
<1>2. CASE ~Authorized(h)
  BY <1>1, <1>2, UseAnswer DEF Decide
<1>3. CASE Authorized(h)
  <2>1. /\ pc'[h] = "accepted"
        /\ job'[h] = [job[h] EXCEPT !.at = now, !.read.expires = NewExpiry(h)]
        /\ \A g \in Handler \ {h} : pc'[g] = pc[g] /\ job'[g] = job[g]
    BY <1>1, <1>3 DEF Decide, IInv, TypeOK
  <2>2. /\ job'[h].session = s /\ job'[h].since = job[h].since /\ job'[h].at = now
        /\ job'[h].read.seen = job[h].read.seen /\ job'[h].read.expires = NewExpiry(h)
    BY <1>1, <2>1 DEF Job, Row
  <2>3. HandlerUse(h)
    BY <1>1 DEF UseInv
  <2>4. /\ now \in Nat /\ job[h].read.seen \in Nat /\ job[h].read.expires \in Nat
        /\ SESSION_BURST_GAP \in Nat /\ SESSION_BURST_DURATION \in Nat
    BY <1>1, SessionAssumption DEF IInv, TypeOK, Job, Row
  <2>5. now < job[h].read.expires
    BY <1>3 DEF Authorized
  <2>6. Extends(h)' \/ Keeps(h)'
    <3>1. CASE IdleGap(h) >= SESSION_BURST_GAP
      BY <2>2, <2>4, <3>1 DEF Extends, NewExpiry, IdleGap
    <3>2. CASE ~(IdleGap(h) >= SESSION_BURST_GAP)
      BY <1>1, <2>2, <2>3, <2>4, <2>5, <3>2 DEF Keeps, NewExpiry, HandlerUse, Recent
    <3> QED  BY <3>1, <3>2
  <2>7. Fresh(h)'
    BY <1>1, <2>2, <2>3 DEF HandlerUse, Fresh
  <2>8. HandlerUse(h)'
    BY <1>1, <2>1, <2>2, <2>3, <2>4, <2>6, <2>7 DEF HandlerUse
  <2> QED  BY <1>1, <2>1, <2>8, UseKept DEF UseInv
<1> QED  BY <1>2, <1>3

\* A session begins with its first use.
LEMMA UseLogin ==
  ASSUME IInv, UseInv, NEW s \in Session, NEW issuedAt \in (now - MaxDelay) .. now,
         Login(s, issuedAt)
  PROVE  UseInv'
<1>1. issuedAt \in Nat /\ issuedAt <= now /\ now \in Nat /\ MaxDelay \in Nat
      /\ SESSION_BURST_DURATION \in Nat \ {0}
  BY SessionAssumption DEF IInv, TypeOK
<1>2. /\ ~row[s].issued /\ UNCHANGED <<now, pc, job>>
      /\ row'[s].seen = issuedAt /\ row'[s].expires = issuedAt + SESSION_BURST_DURATION
      /\ burst'[s] = issuedAt /\ last'[s] = issuedAt
      /\ \A t \in Session \ {s} :
           row'[t] = row[t] /\ burst'[t] = burst[t] /\ last'[t] = last[t]
  BY DEF Login, IInv, TypeOK
<1>3. SessionUse(s)'
  BY <1>1, <1>2 DEF SessionUse, Recent
<1>4. \A t \in Session \ {s} : SessionUse(t)'
  BY <1>2 DEF UseInv, SessionUse, Recent
<1>5. ASSUME NEW h \in Handler PROVE HandlerUse(h)'
  <2>1. CASE pc[h] \in {"found", "accepted"}
    <3>1. job[h].session \in Session \ {s}
      BY <1>2, <2>1 DEF IInv, HeldIssued, TypeOK, Job
    <3> QED  BY <1>2, <3>1 DEF UseInv, HandlerUse, Fresh, Extends, Keeps, Recent
  <2>2. CASE pc[h] \notin {"found", "accepted"}
    BY <1>2, <2>2 DEF UseInv, HandlerUse
  <2> QED  BY <2>1, <2>2
<1> QED  BY <1>3, <1>4, <1>5 DEF UseInv

\* A use lands: the continuous use goes on, or begins again with it, and in
\* either case every expiry that is about is recent.
LEMMA UseLands ==
  ASSUME IInv, UseInv, NEW h \in Handler, UpdateActivity(h)
  PROVE  /\ \A s \in Session : SessionUse(s)'
         /\ \A g \in Handler \ {h} : HandlerUse(g)'
<1>1. PICK s \in Session : s = job[h].session
  BY DEF UpdateActivity, IInv, TypeOK, Job
<1> DEFINE at == job[h].at
           D == SESSION_BURST_DURATION
           M == MaxDelay
<1>2. /\ pc[h] = "accepted" /\ job[h] \in Job /\ s \in Session /\ now' = now
      /\ at \in Nat /\ job[h].read \in Row /\ row[s].issued
  BY <1>1 DEF UpdateActivity, IInv, TypeOK, Job, HeldIssued
<1>3. /\ now \in Nat /\ burst[s] \in Nat /\ last[s] \in Nat /\ M \in Nat /\ D \in Nat \ {0}
      /\ SESSION_BURST_GAP \in Nat /\ job[h].since \in Nat
      /\ job[h].read.seen \in Nat /\ job[h].read.expires \in Nat
      /\ row[s].expires \in Nat /\ row[s].seen \in Nat
  BY <1>2, SessionAssumption DEF IInv, TypeOK, Job, Row
<1>4. /\ row'[s].seen = at /\ row'[s].expires = job[h].read.expires
      /\ \A t \in Session \ {s} :
           row'[t] = row[t] /\ burst'[t] = burst[t] /\ last'[t] = last[t]
      /\ \A g \in Handler \ {h} : pc'[g] = pc[g] /\ job'[g] = job[g]
  <2>1. /\ row'[s].seen = at /\ row'[s].expires = job[h].read.expires
        /\ \A t \in Session \ {s} :
             row'[t] = row[t] /\ burst'[t] = burst[t] /\ last'[t] = last[t]
    BY <1>1, <1>2 DEF UpdateActivity, NoteUse, IInv, TypeOK, Row
  <2>2. \A g \in Handler \ {h} : pc'[g] = pc[g] /\ job'[g] = job[g]
    BY DEF UpdateActivity, HandOn, Answer, IInv, TypeOK
  <2> QED  BY <2>1, <2>2
<1>5. /\ last'[s] = IF at > last[s] THEN at ELSE last[s]
      /\ burst'[s] = IF at >= last[s] + Hop THEN at
                     ELSE IF at < burst[s] /\ burst[s] < at + Hop THEN at ELSE burst[s]
  BY <1>1, <1>2 DEF UpdateActivity, NoteUse, IInv, TypeOK
<1>6. SessionUse(s) /\ HandlerUse(h)
  BY <1>2 DEF UseInv
<1>7. /\ last[s] <= now /\ burst[s] <= last[s] /\ last[s] < burst[s] + D + 2 * M
      /\ at <= now /\ now <= job[h].since + M /\ job[h].since <= at
      /\ Extends(h) \/ Keeps(h)
      /\ Fresh(h)
  BY <1>2, <1>6 DEF SessionUse, HandlerUse
<1> DEFINE b == burst[s]
           l == last[s]
           b2 == burst'[s]
           l2 == last'[s]
           e == job[h].read.expires
<1>8. b \in Nat /\ l \in Nat /\ b2 \in Nat /\ l2 \in Nat
      /\ b <= l /\ l <= now /\ at <= now /\ now <= at + M /\ l < b + D + 2 * M
      /\ l2 = (IF at > l THEN at ELSE l)
      /\ b2 \in {at, b} /\ (at >= l + Hop => b2 = at)
  BY <1>2, <1>3, <1>5, <1>7
<1>9. ASSUME NEW f \in Nat, f <= l + D, f <= b + D + 2 * M
      PROVE  f <= l2 + D /\ f <= b2 + D + 2 * M
  <2> HIDE DEF b, l, b2, l2, at, D, M
  <2> QED  BY <1>2, <1>3, <1>8, <1>9
<1>10. l2 <= now /\ b2 <= l2 /\ l2 <= at + M
  <2> HIDE DEF b, l, b2, l2, at, D, M
  <2> QED  BY <1>2, <1>3, <1>8
<1>11. /\ e <= l2 + D /\ e <= b2 + D + 2 * M
       /\ l2 < b2 + D + 2 * M
  <2>1. CASE Keeps(h)
    <3>1. at < e /\ e <= l + D /\ e <= b + D + 2 * M
      BY <1>1, <2>1 DEF Keeps, Recent
    <3> HIDE DEF b, l, b2, l2, at, D, M, e
    <3>2. e \in Nat
      BY <1>3 DEF e
    <3> QED  BY <1>2, <1>3, <1>8, <1>9, <3>1, <3>2
  <2>2. CASE Extends(h)
    <3>1. e = at + D /\ at >= job[h].read.seen + SESSION_BURST_GAP
      BY <2>2 DEF Extends
    <3>2. \/ l <= job[h].read.seen + M
          \/ b >= job[h].since - M
      BY <1>1, <1>2, <1>3, <1>7, <3>1 DEF Fresh
    <3>3. CASE l <= job[h].read.seen + M
      <4>1. at >= l + Hop
        BY <1>2, <1>3, <3>1, <3>3 DEF Hop
      <4> HIDE DEF b, l, b2, l2, at, D, M, e
      <4> QED  BY <1>2, <1>3, <1>8, <3>1, <4>1
    <3>4. CASE b >= job[h].since - M
      <4>1. at <= job[h].since + M
        BY <1>2, <1>3, <1>7
      <4> HIDE DEF b, l, b2, l2, at, D, M, e
      <4> QED  BY <1>2, <1>3, <1>8, <3>1, <3>4, <4>1
    <3> QED  BY <3>2, <3>3, <3>4
  <2> QED  BY <1>7, <2>1, <2>2
<1>12. SessionUse(s)'
  BY <1>2, <1>4, <1>10, <1>11 DEF SessionUse, Recent
<1>13. \A t \in Session \ {s} : SessionUse(t)'
  BY <1>2, <1>4 DEF UseInv, SessionUse, Recent
<1>14. ASSUME NEW g \in Handler \ {h} PROVE HandlerUse(g)'
  <2>1. pc'[g] = pc[g] /\ job'[g] = job[g] /\ HandlerUse(g)
    BY <1>4 DEF UseInv
  <2>2. CASE pc[g] \notin {"found", "accepted"}
    BY <1>2, <2>1, <2>2 DEF HandlerUse
  <2>3. CASE pc[g] \in {"found", "accepted"} /\ job[g].session # s
    <3>1. job[g].session \in Session \ {s}
      BY <2>3 DEF IInv, TypeOK, Job
    <3>2. burst'[job[g].session] = burst[job[g].session]
          /\ last'[job[g].session] = last[job[g].session]
      BY <1>4, <3>1
    <3> QED  BY <1>2, <2>1, <3>2 DEF HandlerUse, Fresh, Extends, Keeps, Recent
  <2>4. CASE pc[g] \in {"found", "accepted"} /\ job[g].session = s
    <3>1. /\ job[g].since \in Nat /\ job[g].read.seen \in Nat /\ job[g].read.expires \in Nat
          /\ job[g].since <= now /\ now <= job[g].since + M
      BY <2>1, <2>4 DEF IInv, TypeOK, Job, Row, HandlerUse
    <3>2. Fresh(g)'
      <4> SUFFICES ASSUME job[g].read.seen + SESSION_BURST_GAP <= job[g].since + M
                   PROVE  l2 <= job[g].read.seen + M \/ b2 >= job[g].since - M
        BY <2>1, <2>4 DEF Fresh
      <4>1. l <= job[g].read.seen + M \/ b >= job[g].since - M
        BY <2>1, <2>4 DEF HandlerUse, Fresh
      <4>2. at >= job[g].since - M
        BY <1>2, <1>3, <1>8, <3>1
      <4>3. CASE b2 = at
        BY <4>2, <4>3
      <4>4. CASE b2 # at
        <5>1. b2 = b /\ at < l + Hop
          BY <1>2, <1>3, <1>8, <4>4 DEF Hop
        <5>2. CASE b >= job[g].since - M
          BY <5>1, <5>2
        <5>3. CASE l <= job[g].read.seen + M
          <6>1. at < job[g].read.seen + SESSION_BURST_GAP - 2 * M
            BY <1>2, <1>3, <3>1, <5>1, <5>3 DEF Hop
          <6> QED  BY <1>2, <1>3, <3>1, <4>2, <6>1
        <5> QED  BY <4>1, <5>2, <5>3
      <4> QED  BY <4>3, <4>4
    <3>3. ASSUME Recent(s, job[g].read.expires)
          PROVE  job[g].read.expires <= l2 + D /\ job[g].read.expires <= b2 + D + 2 * M
      <4>1. job[g].read.expires <= l + D /\ job[g].read.expires <= b + D + 2 * M
        BY <3>3 DEF Recent
      <4> HIDE DEF b, l, b2, l2, at, D, M, e
      <4> QED  BY <1>9, <3>1, <4>1
    <3>4. CASE pc[g] = "found"
      <4>1. Recent(s, job[g].read.expires)
        BY <2>1, <2>4, <3>4 DEF HandlerUse
      <4> QED  BY <1>2, <2>1, <2>4, <3>1, <3>2, <3>3, <3>4, <4>1 DEF HandlerUse, Recent
    <3>5. CASE pc[g] = "accepted"
      <4>1. Extends(g) \/ Keeps(g)
        BY <2>1, <3>5 DEF HandlerUse
      <4>2. Extends(g) => Extends(g)'
        BY <2>1 DEF Extends
      <4>3. Keeps(g) => Keeps(g)'
        BY <2>1, <2>4, <3>3 DEF Keeps, Recent
      <4>4. job[g].since <= job[g].at /\ job[g].at <= now
        BY <2>1, <3>5 DEF HandlerUse
      <4> QED  BY <1>2, <2>1, <3>1, <3>2, <3>5, <4>1, <4>2, <4>3, <4>4 DEF HandlerUse
    <3> QED  BY <2>4, <3>4, <3>5
  <2> QED  BY <2>2, <2>3, <2>4
<1> QED  BY <1>12, <1>13, <1>14

LEMMA UseUpdate == ASSUME IInv, UseInv, NEW h \in Handler, UpdateActivity(h) PROVE UseInv'
<1>1. pc'[h] \in {"idle", "passed"} /\ (pc'[h] = "passed" => job'[h] = job[h])
      /\ now' = now /\ pc[h] = "accepted"
  BY DEF UpdateActivity, HandOn, Answer, IInv, TypeOK
<1>2. HandlerUse(h)'
  BY <1>1 DEF UseInv, HandlerUse
<1> QED  BY <1>2, UseLands DEF UseInv

LEMMA UseRevoke == ASSUME IInv, UseInv, NEW h \in Handler, Revoke(h) PROVE UseInv'
<1>1. /\ UNCHANGED <<now, burst, last>> /\ job[h].session \in Session
      /\ Answer(h) /\ pc[h] = "passed"
      /\ row' = [row EXCEPT ![job[h].session].revoked = TRUE]
  BY DEF Revoke, IInv, TypeOK, Job
<1>2. \A s \in Session : (row[s].issued <=> row'[s].issued)
        /\ row'[s].seen = row[s].seen /\ row'[s].expires = row[s].expires
  BY <1>1 DEF IInv, TypeOK, Row
<1>3. HandlerUse(h)' /\ \A g \in Handler \ {h} : HandlerUse(g)'
  BY <1>1, UseKept, Answering DEF HandlerUse, IInv
<1> QED  BY <1>1, <1>2, <1>3, UseKept DEF UseInv

\* Time passes only while every request still has time.
LEMMA UseQuiet == ASSUME IInv, UseInv, Tick \/ UNCHANGED vars PROVE UseInv'
<1>1. CASE UNCHANGED vars
  BY <1>1, UseKept DEF vars, UseInv
<1>2. CASE Tick
  <2>1. /\ UNCHANGED <<row, pc, job, burst, last>> /\ now' = now + 1
        /\ now \in Nat /\ MaxDelay \in Nat
        /\ \A h \in Handler : pc[h] # "idle" => now < job[h].since + MaxDelay
    BY <1>2, SessionAssumption DEF Tick, IInv, TypeOK
  <2>2. \A s \in Session : SessionUse(s)'
    BY <2>1 DEF UseInv, SessionUse, Recent, IInv, TypeOK
  <2>3. ASSUME NEW h \in Handler PROVE HandlerUse(h)'
    <3>1. pc[h] # "idle" => job[h].since \in Nat /\ job[h].at \in Nat
      BY DEF IInv, TypeOK, Job
    <3> QED  BY <2>1, <3>1 DEF UseInv, HandlerUse, Fresh, Extends, Keeps, Recent
  <2> QED  BY <2>2, <2>3 DEF UseInv
<1> QED  BY <1>1, <1>2

LEMMA UseAlways == Spec => []UseInv
<1>1. ASSUME IInv, UseInv, [Next]_vars PROVE UseInv'
  <2>1. ASSUME NEW s \in Session, NEW issuedAt \in (now - MaxDelay) .. now,
               Login(s, issuedAt)
        PROVE  UseInv'
    BY <1>1, <2>1, UseLogin
  <2>2. ASSUME NEW h \in Handler, Step(h) PROVE UseInv'
    <3>1. CASE \E s \in Session, logout \in BOOLEAN : Arrive(h, s, logout)
      BY <1>1, <3>1, UseArrive
    <3>2. CASE Find(h)            BY <1>1, <3>2, UseFind
    <3>3. CASE Decide(h)          BY <1>1, <3>3, UseDecide
    <3>4. CASE UpdateActivity(h)  BY <1>1, <3>4, UseUpdate
    <3>5. CASE Revoke(h)          BY <1>1, <3>5, UseRevoke
    <3>6. CASE Fail(h)            BY <1>1, <3>6, UseAnswer DEF Fail
    <3> QED  BY <2>2, <3>1, <3>2, <3>3, <3>4, <3>5, <3>6 DEF Step
  <2>3. CASE Tick \/ UNCHANGED vars
    BY <1>1, <2>3, UseQuiet
  <2> QED  BY <1>1, <2>1, <2>2, <2>3 DEF Next
<1> QED  BY UseInit, Invariant, <1>1, PTL DEF Spec

\* R6.5: uses that follow one another closely end after SESSION_BURST_DURATION
\* and twice the time a request may spend in the middleware, for any number of
\* overlapping requests, in whatever order their UPDATEs land.
THEOREM UseEndsInTime == Spec => []ContinuousUseEnds
<1>1. UseInv => ContinuousUseEnds
  BY DEF UseInv, SessionUse, ContinuousUseEnds
<1> QED  BY UseAlways, <1>1, PTL
==============================================================================
