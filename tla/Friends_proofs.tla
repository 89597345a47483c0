---------------------------- MODULE Friends_proofs ----------------------------
(***************************************************************************)
(* Theorems about Friends, for any users, spellings and handlers.          *)
(***************************************************************************)
EXTENDS Friends, TLAPS

------------------------------------------------------------------------------
(* Pairs.                                                                  *)

\* canonicalPair orders two different ids.
LEMMA CanonicalOrder ==
  ASSUME NEW a \in Id, NEW b \in Id, a # b
  PROVE  /\ CanonicalPair(a, b) \in {<<a, b>>, <<b, a>>}
         /\ CanonicalPair(a, b)[1] < CanonicalPair(a, b)[2]
BY IdsAssumption DEF CanonicalPair

\* ... and has its two elements, so it depends only on the set of them.
LEMMA CanonicalElements ==
  ASSUME NEW a \in Id, NEW b \in Id, NEW f \in Id \X Id, f[1] < f[2], a # b
  PROVE  /\ {CanonicalPair(a, b)[1], CanonicalPair(a, b)[2]} = {a, b}
         /\ {f[1], f[2]} = {a, b} <=> f = CanonicalPair(a, b)
<1>1. {CanonicalPair(a, b)[1], CanonicalPair(a, b)[2]} = {a, b}
  BY CanonicalOrder
<1>2. PICK c \in Id, d \in Id : f = <<c, d>>
  OBVIOUS
<1>3. ASSUME {f[1], f[2]} = {a, b} PROVE f = CanonicalPair(a, b)
  <2>1. (c = a /\ d = b) \/ (c = b /\ d = a)
    BY <1>2, <1>3
  <2>2. QED
    BY <1>2, <2>1, IdsAssumption DEF CanonicalPair
<1>4. QED
  BY <1>1, <1>3

------------------------------------------------------------------------------
(* Types.                                                                  *)

LEMMA InitType == Init => TypeOK
BY DEF Init, TypeOK, Stage

LEMMA TypeStep == TypeOK /\ [Next]_vars => TypeOK'
<1> SUFFICES ASSUME TypeOK, [Next]_vars PROVE TypeOK'
  OBVIOUS
<1> USE DEF TypeOK
<1>1. CASE UNCHANGED vars
  BY <1>1 DEF vars
<1>2. ASSUME NEW w \in Handler, Answer(w)
      PROVE  /\ pc' \in [Handler -> Stage]
             /\ job' \in [Handler -> Job \cup {NoJob}]
             /\ \A x \in Handler : pc'[x] # "idle" => job'[x] \in Job
             /\ owns' \in [Handler -> BOOLEAN]
             /\ stale' \in [Handler -> BOOLEAN]
  BY <1>2 DEF Answer, Goto, Stage
<1>3. ASSUME NEW w \in Handler, NEW s \in Stage, NEW u \in User, NEW i \in Id,
             NEW row \in RequestRow, Begin(w, s, u, i, row)
      PROVE  TypeOK'
  BY <1>3 DEF Begin, Goto, Job
<1>4. ASSUME NEW w \in Handler, Ask(w) PROVE TypeOK'
  <2>1. Known \subseteq RequestRow
    BY DEF Known
  <2>2. \A u \in User, i \in Id :
          [id |-> 0, sender |-> u, recipient |-> Names[i]] \in RequestRow
    BY IdsAssumption DEF RequestRow
  <2>3. {"send", "accept", "decline", "remove"} \subseteq Stage
    BY DEF Stage, Sending, Accepting
  <2>4. QED
    BY <1>3, <1>4, <2>1, <2>2, <2>3, IdsAssumption
    DEF Ask, AskSend, AskRemove, AskAccept, AskDecline
<1>5. ASSUME NEW w \in Handler, CheckFriendship(w) \/ CheckRequests(w)
      PROVE  TypeOK'
  BY <1>2, <1>5 DEF CheckFriendship, CheckRequests, Goto, Stage, Sending
<1>6. ASSUME NEW w \in Handler, InsertRequest(w) PROVE TypeOK'
  <2>1. job[w] \in Job
    BY <1>6 DEF InsertRequest
  <2>2. [job[w].row EXCEPT !.id = nextId] \in RequestRow
    BY <2>1 DEF Job, RequestRow
  <2>3. [job[w] EXCEPT !.row = [job[w].row EXCEPT !.id = nextId]] \in Job
    BY <2>1, <2>2 DEF Job
  <2>4. QED
    BY <1>2, <1>6, <2>3 DEF InsertRequest, Goto, Stage, Sending
<1>7. ASSUME NEW w \in Handler, CommitSend(w) PROVE TypeOK'
  <2>1. job[w].row \in RequestRow
    BY <1>7 DEF CommitSend, Job
  <2>2. {"sent", "misordered"} \X {job[w].row} \subseteq Skew
    BY <2>1 DEF Skew
  <2>3. skews' \subseteq Skew
    BY <1>7, <2>2 DEF CommitSend
  <2>4. QED
    BY <1>2, <1>7, <2>1, <2>3 DEF CommitSend
<1>8. ASSUME NEW w \in Handler,
             SelectRequest(w) \/ InsertFriendship(w) \/ DeleteRequest(w)
      PROVE  TypeOK'
  BY <1>2, <1>8
  DEF SelectRequest, InsertFriendship, DeleteRequest, Goto, Stage, Accepting
<1>9. ASSUME NEW w \in Handler, CommitAccept(w) PROVE TypeOK'
  <2>1. job[w].row \in RequestRow /\ job[w].me \in User
    BY <1>9 DEF CommitAccept, Job
  <2>2. PairOf(job[w].row) \in Id \X Id
    BY <2>1 DEF PairOf, CanonicalPair, RequestRow
  <2>3. skews' \subseteq Skew
    BY <1>9, <2>1 DEF CommitAccept, Skew
  <2>4. QED
    BY <1>2, <1>9, <2>1, <2>2, <2>3 DEF CommitAccept
<1>10. ASSUME NEW w \in Handler, DeclineRequest(w) \/ RemoveFriend(w) \/ Abort(w)
       PROVE  TypeOK'
  BY <1>2, <1>10 DEF DeclineRequest, RemoveFriend, Abort
<1>11. QED
  BY <1>1, <1>4, <1>5, <1>6, <1>7, <1>8, <1>9, <1>10 DEF Next, Step

\* Every variable has its type in every reachable state, for any users and
\* spellings of their ids and any number of handlers.
THEOREM TypeCorrect == Spec => []TypeOK
BY InitType, TypeStep, PTL DEF Spec

------------------------------------------------------------------------------
(* What holds whatever overlaps.                                           *)

BetweenUsers(row) ==
  row.sender \in User /\ row.recipient \in User /\ row.sender # row.recipient

\* Rows that are or were committed have ids given before, and two users.
KnownRows == \A r \in Known : r.id < nextId /\ BetweenUsers(r)

\* So have rows inserted and not committed, whose ids and keys are new.
InsertedRows ==
  \A w \in Handler : pc[w] = "inserted" =>
    /\ job[w].row.id < nextId
    /\ BetweenUsers(job[w].row)
    /\ \A r \in Known : r.id # job[w].row.id
    /\ \A r \in requests : ~SameKey(r, job[w].row)

InsertedApart ==
  \A w, x \in Handler :
    pc[w] = "inserted" /\ pc[x] = "inserted" /\ w # x =>
      job[w].row.id # job[x].row.id /\ ~SameKey(job[w].row, job[x].row)

\* What a handler in flight knows of its row.
JobRow(w) ==
  /\ pc[w] \in Sending \cup {"remove"} =>
       /\ job[w].me # job[w].to
       /\ job[w].row.sender = job[w].me /\ job[w].row.recipient = Names[job[w].to]
  /\ pc[w] \in {"not_friends", "unrequested"} => Names[job[w].to] \in User
  /\ pc[w] \in Accepting \cup {"decline"} => job[w].row \in Known
  /\ pc[w] \in {"found", "befriended", "deleted"} => job[w].me = job[w].row.recipient

RowsInv ==
  /\ KnownRows /\ InsertedRows /\ InsertedApart
  /\ \A w \in Handler : JobRow(w)
  /\ AnsweredIsGone /\ OneOfAKind /\ Consented

\* A step that changes no table, of one handler that has no row inserted.
LEMMA QuietStep ==
  ASSUME TypeOK, RowsInv, NEW w \in Handler,
         UNCHANGED <<requests, friendships, nextId, accepted, declined>>,
         \A x \in Handler \ {w} : pc'[x] = pc[x] /\ job'[x] = job[x],
         pc'[w] # "inserted", JobRow(w)'
  PROVE  RowsInv'
<1>1. Known' = Known
  BY DEF Known
<1>2. KnownRows' /\ AnsweredIsGone' /\ Consented'
  BY <1>1 DEF RowsInv, KnownRows, AnsweredIsGone, Consented
<1>3. InsertedRows' /\ InsertedApart'
  BY <1>1 DEF RowsInv, InsertedRows, InsertedApart
<1>4. OneOfAKind'
  BY DEF RowsInv, OneOfAKind
<1>5. ASSUME NEW x \in Handler PROVE JobRow(x)'
  <2>1. CASE x = w
    BY <2>1
  <2>2. CASE x # w
    BY <1>1, <2>2 DEF RowsInv, JobRow
  <2>3. QED
    BY <2>1, <2>2
<1>6. QED
  BY <1>2, <1>3, <1>4, <1>5 DEF RowsInv

LEMMA RowsInit == Init => RowsInv
BY DEF Init, RowsInv, KnownRows, InsertedRows, InsertedApart, JobRow, Known,
       AnsweredIsGone, OneOfAKind, Consented, Sending, Accepting

\* A request that arrives: what its handler is to do, and with which row.
LEMMA AskBegins ==
  ASSUME TypeOK, NEW w \in Handler, Ask(w)
  PROVE  \E s \in {"send", "accept", "decline", "remove"}, u \in User, i \in Id,
            row \in RequestRow :
           /\ Begin(w, s, u, i, row)
           /\ s \in {"send", "remove"} =>
                u # i /\ row.sender = u /\ row.recipient = Names[i]
           /\ s \in {"accept", "decline"} => row \in Known
<1>1. Known \subseteq RequestRow
  BY DEF Known, TypeOK
<1>2. \A u \in User, i \in Id :
        [id |-> 0, sender |-> u, recipient |-> Names[i]] \in RequestRow
  BY IdsAssumption DEF RequestRow
<1>3. CASE \E u \in User, i \in Id : AskSend(w, u, i)
  BY <1>2, <1>3 DEF AskSend
<1>4. CASE \E u \in User, i \in Id : AskRemove(w, u, i)
  BY <1>2, <1>4 DEF AskRemove
<1>5. CASE \E u \in User, row \in Known : AskAccept(w, u, row) \/ AskDecline(w, u, row)
  BY <1>1, <1>5, IdsAssumption DEF AskAccept, AskDecline
<1>6. QED
  BY <1>3, <1>4, <1>5 DEF Ask

LEMMA RowsStep == TypeOK /\ RowsInv /\ [Next]_vars => RowsInv'
<1> SUFFICES ASSUME TypeOK, RowsInv, [Next]_vars PROVE RowsInv'
  OBVIOUS
<1> USE DEF TypeOK
<1>1. CASE UNCHANGED vars
  <2>1. Known' = Known
    BY <1>1 DEF vars, Known
  <2>2. QED
    BY <1>1, <2>1
    DEF vars, RowsInv, KnownRows, InsertedRows, InsertedApart, JobRow,
        AnsweredIsGone, OneOfAKind, Consented
<1>2. ASSUME NEW w \in Handler, Answer(w),
             UNCHANGED <<requests, friendships, nextId, accepted, declined>>
      PROVE  RowsInv'
  <2>1. JobRow(w)' /\ pc'[w] # "inserted"
    BY <1>2 DEF JobRow, Answer, Goto, Sending, Accepting
  <2>2. QED
    BY <1>2, <2>1, QuietStep DEF Answer, Goto
<1>3. ASSUME NEW w \in Handler, Ask(w) PROVE RowsInv'
  <2>1. PICK s \in {"send", "accept", "decline", "remove"}, u \in User, i \in Id,
             row \in RequestRow :
          /\ Begin(w, s, u, i, row)
          /\ s \in {"send", "remove"} =>
               u # i /\ row.sender = u /\ row.recipient = Names[i]
          /\ s \in {"accept", "decline"} => row \in Known
    BY <1>3, AskBegins
  <2>2. Known' = Known
    BY <2>1 DEF Begin, Known
  <2>3. JobRow(w)' /\ pc'[w] # "inserted"
    BY <2>1, <2>2 DEF Begin, Goto, JobRow, Sending, Accepting
  <2>4. QED
    BY <2>1, <2>3, QuietStep DEF Begin, Goto
<1>4. ASSUME NEW w \in Handler, CheckFriendship(w) \/ CheckRequests(w)
      PROVE  RowsInv'
  <2>1. CASE Answer(w)
    BY <1>2, <1>4, <2>1 DEF CheckFriendship, CheckRequests
  <2>2. CASE pc' # [pc EXCEPT ![w] = "idle"]
    <3>1. /\ JobRow(w)
          /\ pc[w] \in Sending /\ pc'[w] \in {"not_friends", "unrequested"}
          /\ job' = job
          /\ UNCHANGED <<requests, friendships, nextId, accepted, declined>>
          /\ Names[job[w].to] \in User
          /\ \A x \in Handler \ {w} : pc'[x] = pc[x]
      BY <1>4, <2>2
      DEF CheckFriendship, CheckRequests, Goto, Answer, RowsInv, JobRow, Sending
    <3>2. JobRow(w)'
      BY <3>1 DEF JobRow, Sending, Accepting
    <3>3. QED
      BY <3>1, <3>2, QuietStep
  <2>3. QED
    BY <1>4, <2>1, <2>2 DEF CheckFriendship, CheckRequests, Goto, Answer
<1>5. ASSUME NEW w \in Handler, InsertRequest(w) PROVE RowsInv'
  <2> DEFINE row == [job[w].row EXCEPT !.id = nextId]
  <2>1. CASE Answer(w) /\ UNCHANGED nextId
    BY <1>2, <1>5, <2>1 DEF InsertRequest
  <2>2. CASE /\ row.sender # row.recipient
             /\ \A r \in requests : ~SameKey(r, row)
             /\ job' = [job EXCEPT ![w].row = row]
             /\ nextId' = nextId + 1
             /\ Goto(w, "inserted")
    <3>1. /\ pc[w] = "unrequested" /\ job[w].row \in RequestRow /\ job[w].me \in User
          /\ ~KeyIsLocked(w)
          /\ UNCHANGED <<requests, friendships, accepted, declined>>
          /\ Known' = Known
      BY <1>5 DEF InsertRequest, Job, Known
    <3>2. /\ row.id = nextId /\ row.sender = job[w].row.sender
          /\ row.recipient = job[w].row.recipient
      BY <3>1 DEF RequestRow
    <3>3. BetweenUsers(row) /\ row.sender = job[w].me /\ row.recipient = Names[job[w].to]
      BY <2>2, <3>1, <3>2 DEF RowsInv, JobRow, BetweenUsers, Sending
    <3>4. /\ job'[w].row = row /\ job'[w].me = job[w].me /\ job'[w].to = job[w].to
          /\ pc'[w] = "inserted"
          /\ \A x \in Handler \ {w} : pc'[x] = pc[x] /\ job'[x] = job[x]
      BY <2>2, <3>1 DEF Goto, Job
    <3>5. \A x \in Handler \ {w} :
            pc[x] = "inserted" => ~SameKey(job[x].row, row) /\ job[x].row.id # row.id
      BY <3>1, <3>2 DEF KeyIsLocked, SameKey, RowsInv, InsertedRows, Job, RequestRow
    <3> HIDE DEF row
    <3>6. KnownRows' /\ (\A r \in Known : r.id # row.id)
      BY <2>2, <3>1, <3>2 DEF RowsInv, KnownRows, Known, RequestRow
    <3>7. InsertedRows'
      <4>1. \A x \in Handler : pc[x] = "inserted" => job[x].row.id \in Nat
        BY DEF Job, RequestRow
      <4>2. QED
        BY <2>2, <3>1, <3>2, <3>3, <3>4, <3>6, <4>1 DEF RowsInv, InsertedRows
    <3>8. InsertedApart'
      BY <3>4, <3>5 DEF RowsInv, InsertedApart, SameKey
    <3>9. ASSUME NEW x \in Handler PROVE JobRow(x)'
      BY <3>1, <3>3, <3>4, <3>9 DEF RowsInv, JobRow, Sending, Accepting
    <3>10. AnsweredIsGone' /\ Consented'
      BY <3>1 DEF RowsInv, AnsweredIsGone, Consented
    <3>11. OneOfAKind'
      BY <2>2, <3>1, <3>4 DEF RowsInv, OneOfAKind
    <3>12. QED
      BY <3>6, <3>7, <3>8, <3>9, <3>10, <3>11 DEF RowsInv
  <2>3. QED
    BY <1>5, <2>1, <2>2 DEF InsertRequest
<1>6. ASSUME NEW w \in Handler, CommitSend(w) PROVE RowsInv'
  <2> DEFINE row == job[w].row
  <2>1. /\ pc[w] = "inserted" /\ row \in RequestRow
        /\ requests' = requests \cup {row}
        /\ UNCHANGED <<friendships, nextId, accepted, declined>>
        /\ pc'[w] = "idle"
        /\ \A x \in Handler \ {w} : pc'[x] = pc[x] /\ job'[x] = job[x]
        /\ Known' = Known \cup {row}
    BY <1>6 DEF CommitSend, Answer, Goto, Job, Known
  <2>2. /\ row.id < nextId /\ BetweenUsers(row)
        /\ \A r \in Known : r.id # row.id
        /\ \A r \in requests : ~SameKey(r, row)
    BY <2>1 DEF RowsInv, InsertedRows
  <2>3. \A x \in Handler \ {w} : pc[x] = "inserted" =>
          job[x].row.id # row.id /\ ~SameKey(row, job[x].row)
    BY <2>1 DEF RowsInv, InsertedApart, SameKey
  <2> HIDE DEF row
  <2>4. KnownRows'
    BY <2>1, <2>2 DEF RowsInv, KnownRows
  <2>5. InsertedRows' /\ InsertedApart'
    BY <2>1, <2>3 DEF RowsInv, InsertedRows, InsertedApart
  <2>6. ASSUME NEW x \in Handler PROVE JobRow(x)'
    BY <2>1, <2>6 DEF RowsInv, JobRow, Sending, Accepting
  <2>7. AnsweredIsGone' /\ Consented'
    BY <2>1, <2>2 DEF RowsInv, AnsweredIsGone, Consented, Known
  <2>8. OneOfAKind'
    BY <2>1, <2>2, <2>3 DEF RowsInv, OneOfAKind, SameKey
  <2>9. QED
    BY <2>4, <2>5, <2>6, <2>7, <2>8 DEF RowsInv
<1>7. ASSUME NEW w \in Handler,
             SelectRequest(w) \/ InsertFriendship(w) \/ DeleteRequest(w)
      PROVE  RowsInv'
  <2>1. CASE SelectRequest(w) /\ Answer(w)
    BY <1>2, <2>1 DEF SelectRequest
  <2>2. CASE ~Answer(w)
    <3>1. /\ JobRow(w) /\ Known' = Known
          /\ pc[w] \in Accepting /\ pc'[w] \in {"found", "befriended", "deleted"}
          /\ job' = job
          /\ UNCHANGED <<requests, friendships, nextId, accepted, declined>>
          /\ job[w].me = job[w].row.recipient
          /\ \A x \in Handler \ {w} : pc'[x] = pc[x]
      BY <1>7, <2>2
      DEF SelectRequest, InsertFriendship, DeleteRequest, Goto, RowsInv, JobRow,
          Accepting, Known
    <3>2. JobRow(w)'
      BY <3>1 DEF JobRow, Sending, Accepting
    <3>3. QED
      BY <3>1, <3>2, QuietStep
  <2>3. QED
    BY <1>7, <2>1, <2>2 DEF InsertFriendship, DeleteRequest, Answer, Goto
<1>8. ASSUME NEW w \in Handler, CommitAccept(w) PROVE RowsInv'
  <2> DEFINE row == job[w].row
  <2>1. /\ pc[w] = "deleted" /\ row \in RequestRow /\ job[w].me \in User
        /\ requests' = requests \ {row}
        /\ friendships' \subseteq friendships \cup {PairOf(row)}
        /\ accepted' = accepted \cup {[row |-> row, by |-> job[w].me]}
        /\ UNCHANGED <<nextId, declined>>
        /\ pc'[w] = "idle"
        /\ \A x \in Handler \ {w} : pc'[x] = pc[x] /\ job'[x] = job[x]
    BY <1>8 DEF CommitAccept, Answer, Goto, Job
  <2>2. row \in Known /\ job[w].me = row.recipient
    BY <2>1 DEF RowsInv, JobRow, Accepting
  <2>4. BetweenUsers(row)
    BY <2>2 DEF RowsInv, KnownRows
  <2> HIDE DEF row
  <2>3. Known' = Known
    <3>1. {a.row : a \in accepted'} = {a.row : a \in accepted} \cup {row}
      <4> DEFINE new == [row |-> row, by |-> job[w].me]
      <4>1. accepted' = accepted \cup {new} /\ new.row = row
        BY <2>1
      <4> HIDE DEF new
      <4>2. QED
        BY <4>1
    <3>2. QED
      BY <2>1, <2>2, <3>1 DEF Known
  <2>5. /\ PairOf(row) \in User \X User /\ PairOf(row)[1] < PairOf(row)[2]
    <3>1. row.sender \in Id /\ row.recipient \in Id /\ row.sender # row.recipient
      BY <2>4, IdsAssumption DEF BetweenUsers
    <3>2. /\ PairOf(row) \in {<<row.sender, row.recipient>>, <<row.recipient, row.sender>>}
          /\ PairOf(row)[1] < PairOf(row)[2]
      BY <3>1, CanonicalOrder DEF PairOf
    <3>3. QED
      BY <2>4, <3>2 DEF BetweenUsers
  <2>6. KnownRows' /\ InsertedRows' /\ InsertedApart'
    BY <2>1, <2>3 DEF RowsInv, KnownRows, InsertedRows, InsertedApart
  <2>7. ASSUME NEW x \in Handler PROVE JobRow(x)'
    BY <2>1, <2>3, <2>7 DEF RowsInv, JobRow, Sending, Accepting
  <2>8. AnsweredIsGone' /\ OneOfAKind'
    BY <2>1 DEF RowsInv, AnsweredIsGone, OneOfAKind
  <2>9. Consented'
    <3>1. \E a \in accepted' : PairOf(a.row) = PairOf(row) /\ a.by = a.row.recipient
      <4> DEFINE new == [row |-> row, by |-> job[w].me]
      <4>1. new \in accepted' /\ new.row = row /\ new.by = new.row.recipient
        BY <2>1, <2>2
      <4>2. QED
        BY <4>1
    <3>2. ASSUME NEW f \in friendships
          PROVE  /\ f \in User \X User /\ f[1] < f[2]
                 /\ \E a \in accepted' : PairOf(a.row) = f /\ a.by = a.row.recipient
      BY <2>1 DEF RowsInv, Consented
    <3>3. QED
      BY <2>1, <2>5, <3>1, <3>2 DEF Consented
  <2>10. QED
    BY <2>6, <2>7, <2>8, <2>9 DEF RowsInv
<1>9. ASSUME NEW w \in Handler, DeclineRequest(w) PROVE RowsInv'
  <2>1. CASE UNCHANGED <<requests, declined>>
    BY <1>2, <1>9, <2>1 DEF DeclineRequest
  <2>2. CASE /\ requests' = requests \ {job[w].row}
             /\ declined' = declined \cup {job[w].row}
             /\ job[w].row \in requests
    <3>1. /\ UNCHANGED <<friendships, nextId, accepted>> /\ pc'[w] = "idle"
          /\ \A x \in Handler \ {w} : pc'[x] = pc[x] /\ job'[x] = job[x]
      BY <1>9 DEF DeclineRequest, Answer, Goto
    <3>2. Known' = Known
      BY <2>2, <3>1 DEF Known
    <3>3. KnownRows' /\ InsertedRows' /\ InsertedApart'
      BY <2>2, <3>1, <3>2 DEF RowsInv, KnownRows, InsertedRows, InsertedApart
    <3>4. ASSUME NEW x \in Handler PROVE JobRow(x)'
      BY <3>1, <3>2, <3>4 DEF RowsInv, JobRow, Sending, Accepting
    <3>5. AnsweredIsGone' /\ OneOfAKind' /\ Consented'
      BY <2>2, <3>1 DEF RowsInv, AnsweredIsGone, OneOfAKind, Consented
    <3>6. QED
      BY <3>3, <3>4, <3>5 DEF RowsInv
  <2>3. QED
    BY <1>9, <2>1, <2>2 DEF DeclineRequest
<1>10. ASSUME NEW w \in Handler, RemoveFriend(w) PROVE RowsInv'
  <2>1. /\ UNCHANGED <<requests, nextId, accepted, declined>> /\ pc'[w] = "idle"
        /\ friendships' \subseteq friendships
        /\ \A x \in Handler \ {w} : pc'[x] = pc[x] /\ job'[x] = job[x]
    BY <1>10 DEF RemoveFriend, Answer, Goto
  <2>2. Known' = Known
    BY <2>1 DEF Known
  <2>3. KnownRows' /\ InsertedRows' /\ InsertedApart'
    BY <2>1, <2>2 DEF RowsInv, KnownRows, InsertedRows, InsertedApart
  <2>4. ASSUME NEW x \in Handler PROVE JobRow(x)'
    BY <2>1, <2>2, <2>4 DEF RowsInv, JobRow, Sending, Accepting
  <2>5. AnsweredIsGone' /\ OneOfAKind' /\ Consented'
    BY <2>1 DEF RowsInv, AnsweredIsGone, OneOfAKind, Consented
  <2>6. QED
    BY <2>3, <2>4, <2>5 DEF RowsInv
<1>11. ASSUME NEW w \in Handler, Abort(w) PROVE RowsInv'
  BY <1>2, <1>11 DEF Abort
<1>12. QED
  BY <1>1, <1>3, <1>4, <1>5, <1>6, <1>7, <1>8, <1>9, <1>10, <1>11 DEF Next, Step

LEMMA RowsAlways == Spec => [](TypeOK /\ RowsInv)
BY InitType, TypeStep, RowsInit, RowsStep, PTL DEF Spec

\* Every friendship is a canonical row of two different users, and comes from
\* a request one of them sent and the other accepted, whatever overlaps.
THEOREM FriendsConsented == Spec => []Consented
<1>1. RowsInv => Consented
  BY DEF RowsInv
<1>2. QED
  BY <1>1, RowsAlways, PTL

\* No accepted or declined request is pending, whatever overlaps.
THEOREM AnsweredRequestIsGone == Spec => []AnsweredIsGone
<1>1. RowsInv => AnsweredIsGone
  BY DEF RowsInv
<1>2. QED
  BY <1>1, RowsAlways, PTL

\* sendRequest never leaves two requests of one user to another, however its
\* transactions interleave.
THEOREM RequestsAreUnique == Spec => []OneOfAKind
<1>1. RowsInv => OneOfAKind
  BY DEF RowsInv
<1>2. QED
  BY <1>1, RowsAlways, PTL

------------------------------------------------------------------------------
(* What a transaction that none has overtaken may rely on.                 *)

\* What the transaction has read is still so, unless the two ids were in the
\* wrong order when it looked for a friendship.
View(w) ==
  /\ pc[w] \in {"not_friends", "unrequested", "inserted"} /\ ~Misordered(w) =>
       \A f \in friendships : {f[1], f[2]} # Between(job[w].row)
  /\ pc[w] \in {"unrequested", "inserted"} =>
       \A r \in requests : Between(r) # Between(job[w].row)
  /\ pc[w] \in {"found", "befriended", "deleted"} => job[w].row \in requests
  /\ pc[w] \in {"befriended", "deleted"} =>
       owns[w] \/ PairOf(job[w].row) \in friendships

SkewInv ==
  /\ \A w \in Handler : ~stale[w] => View(w)
  /\ OnePending /\ NonePendingOfFriends /\ DeclineIsFinal

\* The friendship of a known request's two users.
LEMMA RowPair ==
  ASSUME TypeOK, RowsInv, NEW row \in Known
  PROVE  /\ row \in RequestRow /\ BetweenUsers(row)
         /\ PairOf(row) \in Id \X Id
         /\ {PairOf(row)[1], PairOf(row)[2]} = Between(row)
<1>1. row \in RequestRow /\ BetweenUsers(row)
  BY DEF TypeOK, RowsInv, KnownRows, Known
<1>2. row.sender \in Id /\ row.recipient \in Id /\ row.sender # row.recipient
  BY <1>1, IdsAssumption DEF BetweenUsers
<1>3. QED
  BY <1>1, <1>2, CanonicalOrder DEF PairOf, Between

\* The row of friendships that a request about two users selects is of the two,
\* and of the rows of the two it is the one, if it is in the right order.
LEMMA SelectsPair ==
  ASSUME TypeOK, RowsInv, NEW w \in Handler, pc[w] \in Sending \cup {"remove"}
  PROVE  /\ {Selects(w)[1], Selects(w)[2]} = Between(job[w].row)
         /\ \A f \in friendships :
              {f[1], f[2]} = Between(job[w].row) /\ ~Misordered(w) => f = Selects(w)
<1> DEFINE me == job[w].me
           to == job[w].to
<1>1. me \in User /\ me \in Id /\ to \in Id /\ Names[me] = me /\ Names[to] \in Id
  BY IdsAssumption DEF TypeOK, Job, Sending
<1>2. Between(job[w].row) = {me, Names[to]}
  BY DEF RowsInv, JobRow, Between
<1>3. {Selects(w)[1], Selects(w)[2]} = {me, Names[to]}
  BY <1>1 DEF Selects, CanonicalPair
<1>4. ASSUME NEW f \in friendships, {f[1], f[2]} = Between(job[w].row), ~Misordered(w)
      PROVE  f = Selects(w)
  <2>1. f \in Id \X Id /\ f[1] < f[2]
    BY DEF TypeOK, RowsInv, Consented
  <2>2. f[1] \in Nat /\ f[2] \in Nat /\ {f[1], f[2]} = {me, Names[to]}
    BY <1>2, <1>4, <2>1, IdsAssumption
  <2> HIDE DEF me, to
  <2>3. me # Names[to]
    BY <2>1, <2>2
  <2>4. f = CanonicalPair(me, Names[to])
    BY <1>1, <2>1, <2>2, <2>3, CanonicalElements
  <2>5. QED
    BY <1>4, <2>4 DEF Misordered, me, to
<1>5. QED
  BY <1>2, <1>3, <1>4

\* A handler that answers leaves what the others have read as it was, or they
\* are stale: it changes only rows about the two users of its own request.
LEMMA OthersView ==
  ASSUME TypeOK, RowsInv, SkewInv, NEW w \in Handler, Answer(w),
         \A r \in requests' : r \notin requests => Between(r) = Between(job[w].row),
         \A r \in requests : r \notin requests' => Between(r) = Between(job[w].row),
         \A f \in friendships' : f \notin friendships =>
           {f[1], f[2]} = Between(job[w].row),
         \A f \in friendships : f \notin friendships' =>
           {f[1], f[2]} = Between(job[w].row)
  PROVE  \A x \in Handler : ~stale'[x] => View(x)'
<1> SUFFICES ASSUME NEW x \in Handler, ~stale'[x] PROVE View(x)'
  OBVIOUS
<1>1. CASE x = w
  BY <1>1 DEF TypeOK, Answer, Goto, View
<1>2. CASE ~HasRead(x) /\ x # w
  BY <1>2 DEF TypeOK, Answer, Goto, View, HasRead
<1>3. CASE HasRead(x) /\ x # w
  <2>1. /\ ~stale[x] /\ pc'[x] = pc[x] /\ job'[x] = job[x] /\ owns'[x] = owns[x]
        /\ \/ UNCHANGED <<requests, friendships>>
           \/ Between(job[w].row) # Between(job[x].row)
    BY <1>3 DEF TypeOK, Answer, Goto
  <2>2. View(x) /\ (Misordered(x)' <=> Misordered(x))
    BY <2>1 DEF SkewInv, Misordered, Selects
  <2>3. CASE UNCHANGED <<requests, friendships>>
    BY <2>1, <2>2, <2>3 DEF View
  <2>4. CASE Between(job[w].row) # Between(job[x].row)
    <3>1. pc[x] \in {"befriended", "deleted"} =>
            {PairOf(job[x].row)[1], PairOf(job[x].row)[2]} = Between(job[x].row)
      BY RowPair DEF RowsInv, JobRow, Accepting
    <3>2. pc[x] \in {"befriended", "deleted"} =>
            owns[x] \/ PairOf(job[x].row) \in friendships'
      BY <2>2, <2>4, <3>1 DEF View
    <3>3. pc[x] \in {"not_friends", "unrequested", "inserted"} /\ ~Misordered(x) =>
            \A f \in friendships' : {f[1], f[2]} # Between(job[x].row)
      BY <2>2, <2>4 DEF View
    <3>4. pc[x] \in {"unrequested", "inserted"} =>
            \A r \in requests' : Between(r) # Between(job[x].row)
      BY <2>2, <2>4 DEF View
    <3>5. pc[x] \in {"found", "befriended", "deleted"} => job[x].row \in requests'
      BY <2>2, <2>4 DEF View
    <3>6. QED
      BY <2>1, <2>2, <3>2, <3>3, <3>4, <3>5 DEF View
  <2>5. QED
    BY <2>1, <2>3, <2>4
<1>4. QED
  BY <1>1, <1>2, <1>3

LEMMA SkewInit == Init => SkewInv
BY DEF Init, SkewInv, View, OnePending, NonePendingOfFriends, DeclineIsFinal

\* A step of one handler that changes no table and does not answer.
LEMMA QuietSkew ==
  ASSUME TypeOK, SkewInv, NEW w \in Handler,
         UNCHANGED <<requests, friendships, accepted, declined, stale, skews>>,
         \A x \in Handler \ {w} :
           pc'[x] = pc[x] /\ job'[x] = job[x] /\ owns'[x] = owns[x],
         ~stale[w] => View(w)'
  PROVE  SkewInv'
<1>1. ASSUME NEW x \in Handler \ {w}, ~stale[x] PROVE View(x)'
  <2>1. View(x) /\ (Misordered(x)' <=> Misordered(x))
    BY <1>1 DEF SkewInv, Misordered, Selects
  <2>2. QED
    BY <2>1 DEF View
<1>2. QED
  BY <1>1 DEF SkewInv, OnePending, NonePendingOfFriends, DeclineIsFinal

\* An answer that changes no table.
LEMMA QuietAnswer ==
  ASSUME TypeOK, RowsInv, SkewInv, NEW w \in Handler, Answer(w),
         UNCHANGED <<requests, friendships, accepted, declined, skews>>
  PROVE  SkewInv'
BY OthersView DEF SkewInv, OnePending, NonePendingOfFriends, DeclineIsFinal

LEMMA SkewStep == TypeOK /\ RowsInv /\ SkewInv /\ [Next]_vars => SkewInv'
<1> SUFFICES ASSUME TypeOK, RowsInv, SkewInv, [Next]_vars PROVE SkewInv'
  OBVIOUS
<1>1. CASE UNCHANGED vars
  BY <1>1
  DEF vars, SkewInv, View, Misordered, Selects, OnePending, NonePendingOfFriends,
      DeclineIsFinal
<1>2. ASSUME NEW w \in Handler, Ask(w) PROVE SkewInv'
  <2>1. PICK s \in {"send", "accept", "decline", "remove"}, u \in User, i \in Id,
             row \in RequestRow : Begin(w, s, u, i, row)
    BY <1>2, AskBegins
  <2>2. /\ pc'[w] = s
        /\ \A x \in Handler \ {w} : pc'[x] = pc[x] /\ job'[x] = job[x]
        /\ UNCHANGED <<requests, friendships, owns, accepted, declined, stale, skews>>
    BY <2>1 DEF Begin, Goto, TypeOK
  <2>3. View(w)'
    BY <2>2 DEF View
  <2>4. QED
    BY <2>2, <2>3, QuietSkew
<1>3. ASSUME NEW w \in Handler, CheckFriendship(w) PROVE SkewInv'
  <2>1. /\ pc[w] = "send"
        /\ UNCHANGED <<requests, friendships, accepted, declined, skews>>
    BY <1>3 DEF CheckFriendship
  <2>2. CASE Answer(w)
    BY <2>1, <2>2, QuietAnswer
  <2>3. CASE /\ Goto(w, "not_friends") /\ Selects(w) \notin friendships
             /\ UNCHANGED <<job, owns, stale>>
    <3>1. ~Misordered(w) => \A f \in friendships : {f[1], f[2]} # Between(job[w].row)
      BY <2>1, <2>3, SelectsPair DEF Sending
    <3>2. View(w)'
      BY <2>1, <2>3, <3>1 DEF View, Misordered, Selects, Goto, TypeOK
    <3>3. QED
      BY <2>1, <2>3, <3>2, QuietSkew DEF Goto, TypeOK
  <2>4. QED
    BY <1>3, <2>2, <2>3 DEF CheckFriendship
<1>4. ASSUME NEW w \in Handler, CheckRequests(w) PROVE SkewInv'
  <2>1. /\ pc[w] = "not_friends"
        /\ UNCHANGED <<requests, friendships, accepted, declined, skews>>
    BY <1>4 DEF CheckRequests
  <2>2. CASE Answer(w)
    BY <2>1, <2>2, QuietAnswer
  <2>3. CASE /\ Goto(w, "unrequested") /\ UNCHANGED <<job, owns, stale>>
             /\ \A r \in requests : Between(r) # Between(job[w].row)
    <3>1. ~stale[w] => View(w)'
      BY <2>1, <2>3 DEF SkewInv, View, Misordered, Selects, Goto, TypeOK
    <3>2. QED
      BY <2>1, <2>3, <3>1, QuietSkew DEF Goto, TypeOK
  <2>4. QED
    BY <1>4, <2>2, <2>3 DEF CheckRequests
<1>5. ASSUME NEW w \in Handler, InsertRequest(w) PROVE SkewInv'
  <2>1. /\ pc[w] = "unrequested" /\ job[w] \in Job
        /\ UNCHANGED <<requests, friendships, accepted, declined, skews>>
    BY <1>5 DEF InsertRequest, TypeOK
  <2>2. CASE Answer(w)
    BY <2>1, <2>2, QuietAnswer
  <2>3. CASE /\ job' = [job EXCEPT ![w].row = [job[w].row EXCEPT !.id = nextId]]
             /\ Goto(w, "inserted") /\ UNCHANGED <<owns, stale>>
    <3>1. /\ job'[w].me = job[w].me /\ job'[w].to = job[w].to
          /\ Between(job'[w].row) = Between(job[w].row)
          /\ \A x \in Handler \ {w} : pc'[x] = pc[x] /\ job'[x] = job[x]
          /\ pc'[w] = "inserted"
      BY <2>1, <2>3 DEF Between, Job, RequestRow, Goto, TypeOK
    <3>2. Misordered(w)' <=> Misordered(w)
      BY <3>1 DEF Misordered, Selects
    <3>3. ~stale[w] => View(w)'
      BY <2>1, <3>1, <3>2 DEF SkewInv, View
    <3>4. QED
      BY <2>1, <2>3, <3>1, <3>3, QuietSkew
  <2>4. QED
    BY <1>5, <2>2, <2>3 DEF InsertRequest
<1>6. ASSUME NEW w \in Handler, CommitSend(w) PROVE SkewInv'
  <2> DEFINE row == job[w].row
  <2>1. /\ pc[w] = "inserted" /\ Answer(w) /\ requests' = requests \cup {row}
        /\ UNCHANGED <<friendships, accepted, declined>>
    BY <1>6 DEF CommitSend
  <2>2. \A x \in Handler : ~stale'[x] => View(x)'
    BY <2>1, OthersView
  <2>3. /\ skews \subseteq skews'
        /\ stale[w] => <<"sent", row>> \in skews'
        /\ Misordered(w) => <<"misordered", row>> \in skews'
    BY <1>6 DEF CommitSend
  <2>4. /\ ~stale[w] => \A r \in requests : Between(r) # Between(row)
        /\ ~stale[w] /\ ~Misordered(w) =>
             \A f \in friendships : {f[1], f[2]} # Between(row)
    BY <2>1 DEF SkewInv, View
  <2> HIDE DEF row
  <2>5. OnePending'
    BY <2>1, <2>3, <2>4 DEF SkewInv, OnePending
  <2>6. NonePendingOfFriends'
    <3>1. ASSUME NEW r \in requests', NEW f \in friendships', Between(r) = {f[1], f[2]}
          PROVE  \E k \in skews' : /\ Between(k[2]) = Between(r)
                                   /\ k[2] = r \/ \E a \in accepted' : a.row = k[2]
      <4>1. CASE r \in requests
        BY <2>1, <2>3, <3>1, <4>1 DEF SkewInv, NonePendingOfFriends
      <4>2. CASE r = row
        <5>1. stale[w] \/ Misordered(w)
          BY <2>1, <2>4, <3>1, <4>2
        <5>2. PICK k \in skews' : k[2] = row
          BY <2>3, <5>1
        <5>3. QED
          BY <4>2, <5>2
      <4>3. QED
        BY <2>1, <4>1, <4>2
    <3>2. QED
      BY <3>1 DEF NonePendingOfFriends
  <2>7. DeclineIsFinal'
    BY <2>1, <2>3 DEF SkewInv, DeclineIsFinal
  <2>8. QED
    BY <2>2, <2>5, <2>6, <2>7 DEF SkewInv
<1>7. ASSUME NEW w \in Handler, SelectRequest(w) PROVE SkewInv'
  <2>1. /\ pc[w] = "accept"
        /\ UNCHANGED <<requests, friendships, accepted, declined, skews>>
    BY <1>7 DEF SelectRequest
  <2>2. CASE Answer(w)
    BY <2>1, <2>2, QuietAnswer
  <2>3. CASE /\ Goto(w, "found") /\ job[w].row \in requests
             /\ UNCHANGED <<job, owns, stale>>
    <3>1. View(w)'
      BY <2>1, <2>3 DEF View, Goto, TypeOK
    <3>2. QED
      BY <2>1, <2>3, <3>1, QuietSkew DEF Goto, TypeOK
  <2>4. QED
    BY <1>7, <2>2, <2>3 DEF SelectRequest
<1>8. ASSUME NEW w \in Handler, InsertFriendship(w) PROVE SkewInv'
  <2>1. /\ pc[w] = "found" /\ pc'[w] = "befriended"
        /\ owns'[w] = (PairOf(job[w].row) \notin friendships)
        /\ UNCHANGED <<requests, friendships, job, accepted, declined, stale, skews>>
        /\ \A x \in Handler \ {w} : pc'[x] = pc[x] /\ owns'[x] = owns[x]
    BY <1>8 DEF InsertFriendship, Goto, TypeOK
  <2>2. ~stale[w] => View(w)'
    BY <2>1 DEF SkewInv, View
  <2>3. QED
    BY <2>1, <2>2, QuietSkew
<1>9. ASSUME NEW w \in Handler, DeleteRequest(w) PROVE SkewInv'
  <2>1. /\ pc[w] = "befriended" /\ pc'[w] = "deleted"
        /\ UNCHANGED <<requests, friendships, job, owns, accepted, declined, stale, skews>>
        /\ \A x \in Handler \ {w} : pc'[x] = pc[x]
    BY <1>9 DEF DeleteRequest, Goto, TypeOK
  <2>2. ~stale[w] => View(w)'
    BY <2>1 DEF SkewInv, View
  <2>3. QED
    BY <2>1, <2>2, QuietSkew
<1>10. ASSUME NEW w \in Handler, CommitAccept(w) PROVE SkewInv'
  <2> DEFINE row == job[w].row
             new == [row |-> row, by |-> job[w].me]
  <2>1. /\ pc[w] = "deleted" /\ Answer(w) /\ requests' = requests \ {row}
        /\ friendships \subseteq friendships'
        /\ friendships' \subseteq friendships \cup {PairOf(row)}
        /\ accepted' = accepted \cup {new} /\ new.row = row
        /\ skews' = IF stale[w] THEN skews \cup {<<"accepted", row>>} ELSE skews
        /\ UNCHANGED declined
    BY <1>10 DEF CommitAccept
  <2>2. {PairOf(row)[1], PairOf(row)[2]} = Between(row)
    BY <2>1, RowPair DEF RowsInv, JobRow, Accepting
  <2>3. \A x \in Handler : ~stale'[x] => View(x)'
    BY <2>1, <2>2, OthersView
  <2>4. ~stale[w] => row \in requests /\ row \notin declined
    BY <2>1 DEF SkewInv, View, RowsInv, AnsweredIsGone
  <2> HIDE DEF row, new
  <2>5. OnePending'
    BY <2>1 DEF SkewInv, OnePending
  <2>6. NonePendingOfFriends'
    <3>1. ASSUME NEW r \in requests', NEW f \in friendships', Between(r) = {f[1], f[2]}
          PROVE  \E k \in skews' : /\ Between(k[2]) = Between(r)
                                   /\ k[2] = r \/ \E a \in accepted' : a.row = k[2]
      <4>1. CASE f \in friendships
        BY <2>1, <3>1, <4>1 DEF SkewInv, NonePendingOfFriends
      <4>2. CASE f = PairOf(row)
        <5>1. Between(r) = Between(row) /\ r \in requests /\ r # row
          BY <2>1, <2>2, <3>1, <4>2
        <5>2. \/ <<"accepted", row>> \in skews'
              \/ <<"sent", r>> \in skews' \/ <<"sent", row>> \in skews'
          <6>1. CASE stale[w]
            BY <2>1, <6>1
          <6>2. CASE ~stale[w]
            <7>1. {<<"sent", r>>, <<"sent", row>>} \cap skews # {}
              BY <2>4, <5>1, <6>2 DEF SkewInv, OnePending
            <7>2. QED
              BY <2>1, <7>1
          <6>3. QED
            BY <6>1, <6>2
        <5>3. PICK k \in skews' : k[2] = r \/ k[2] = row
          BY <5>2
        <5>4. Between(k[2]) = Between(r) /\ (k[2] = r \/ k[2] = new.row)
          BY <2>1, <5>1, <5>3
        <5>5. QED
          BY <2>1, <5>4
      <4>3. QED
        BY <2>1, <4>1, <4>2
    <3>2. QED
      BY <3>1 DEF NonePendingOfFriends
  <2>7. DeclineIsFinal'
    BY <2>1, <2>4 DEF SkewInv, DeclineIsFinal
  <2>8. QED
    BY <2>3, <2>5, <2>6, <2>7 DEF SkewInv
<1>11. ASSUME NEW w \in Handler, DeclineRequest(w) PROVE SkewInv'
  <2>1. Answer(w) /\ UNCHANGED <<friendships, accepted, skews>>
    BY <1>11 DEF DeclineRequest
  <2>2. CASE UNCHANGED <<requests, declined>>
    BY <2>1, <2>2, QuietAnswer
  <2>3. CASE /\ requests' = requests \ {job[w].row}
             /\ declined' = declined \cup {job[w].row}
             /\ job[w].row \in requests
    <3>1. \A a \in accepted : a.row # job[w].row
      BY <2>3 DEF RowsInv, AnsweredIsGone
    <3>2. \A x \in Handler : ~stale'[x] => View(x)'
      BY <2>1, <2>3, OthersView
    <3>3. OnePending' /\ NonePendingOfFriends' /\ DeclineIsFinal'
      BY <2>1, <2>3, <3>1 DEF SkewInv, OnePending, NonePendingOfFriends, DeclineIsFinal
    <3>4. QED
      BY <3>2, <3>3 DEF SkewInv
  <2>4. QED
    BY <1>11, <2>2, <2>3 DEF DeclineRequest
<1>12. ASSUME NEW w \in Handler, RemoveFriend(w) PROVE SkewInv'
  <2>1. /\ pc[w] = "remove" /\ Answer(w) /\ friendships' = friendships \ {Selects(w)}
        /\ UNCHANGED <<requests, accepted, declined, skews>>
    BY <1>12 DEF RemoveFriend
  <2>2. {Selects(w)[1], Selects(w)[2]} = Between(job[w].row)
    BY <2>1, SelectsPair
  <2>3. \A x \in Handler : ~stale'[x] => View(x)'
    BY <2>1, <2>2, OthersView
  <2>4. OnePending' /\ NonePendingOfFriends' /\ DeclineIsFinal'
    BY <2>1 DEF SkewInv, OnePending, NonePendingOfFriends, DeclineIsFinal
  <2>5. QED
    BY <2>3, <2>4 DEF SkewInv
<1>13. ASSUME NEW w \in Handler, Abort(w) PROVE SkewInv'
  BY <1>13, QuietAnswer DEF Abort
<1>14. QED
  BY <1>1, <1>2, <1>3, <1>4, <1>5, <1>6, <1>7, <1>8, <1>9, <1>10, <1>11, <1>12, <1>13
  DEF Next, Step

LEMMA SkewAlways == Spec => [](TypeOK /\ RowsInv /\ SkewInv)
BY InitType, TypeStep, RowsInit, RowsStep, SkewInit, SkewStep, PTL DEF Spec

\* Property 21 of design.md as far as the code keeps it, whatever overlaps: of
\* two requests between the same two users one was sent on a SELECT that another
\* commit about the two had overtaken (sendRequest's two checks),
THEOREM OneRequestPerPair == Spec => []OnePending
<1>1. SkewInv => OnePending
  BY DEF SkewInv
<1>2. QED
  BY <1>1, SkewAlways, PTL

\* ... one is pending between friends only after such a send or such an accept,
\* or after a look for the friendship with the two ids in the wrong order,
THEOREM NoRequestBetweenFriends == Spec => []NonePendingOfFriends
<1>1. SkewInv => NonePendingOfFriends
  BY DEF SkewInv
<1>2. QED
  BY <1>1, SkewAlways, PTL

\* ... and a request that was declined is accepted only by an accept whose
\* SELECT was overtaken.
THEOREM DeclinedStaysDeclined == Spec => []DeclineIsFinal
<1>1. SkewInv => DeclineIsFinal
  BY DEF SkewInv
<1>2. QED
  BY <1>1, SkewAlways, PTL

------------------------------------------------------------------------------
(* Friendships are made by accepts, and once by each request.              *)

\* No handler but one that commits an accept adds a row to friendships.
LEMMA FriendshipsGrow ==
  ASSUME [Next]_vars
  PROVE  friendships' \subseteq friendships \/ \E w \in Handler : CommitAccept(w)
<1>1. CASE UNCHANGED vars
  BY <1>1 DEF vars
<1>2. ASSUME NEW w \in Handler, Ask(w) \/ Abort(w) PROVE friendships' = friendships
  BY <1>2 DEF Ask, AskSend, AskRemove, AskAccept, AskDecline, Begin, Abort
<1>3. ASSUME NEW w \in Handler, Step(w)
      PROVE  friendships' \subseteq friendships \/ CommitAccept(w)
  BY <1>3
  DEF Step, CheckFriendship, CheckRequests, InsertRequest, CommitSend, SelectRequest,
      InsertFriendship, DeleteRequest, DeclineRequest, RemoveFriend
<1>4. QED
  BY <1>1, <1>2, <1>3 DEF Next

\* A friendship is made only by a request accepted then, and for the first time,
\* or by an accept whose SELECT another commit about the two had overtaken.
THEOREM FriendshipsAreMadeOnce == Spec => MadeByNewAccept
<1>1. TypeOK /\ RowsInv /\ SkewInv /\ [Next]_vars => NewAccept
  <2> SUFFICES ASSUME RowsInv, SkewInv, [Next]_vars,
                      NEW f \in friendships' \ friendships
               PROVE  \E a \in accepted' :
                        /\ PairOf(a.row) = f
                        /\ \/ \A b \in accepted : b.row # a.row
                           \/ <<"accepted", a.row>> \in skews'
    BY DEF NewAccept
  <2>1. PICK w \in Handler : CommitAccept(w)
    BY FriendshipsGrow
  <2> DEFINE row == job[w].row
             new == [row |-> row, by |-> job[w].me]
  <2>2. /\ pc[w] = "deleted" /\ f = PairOf(row)
        /\ new \in accepted' /\ new.row = row
        /\ stale[w] => <<"accepted", row>> \in skews'
    BY <2>1 DEF CommitAccept
  <2>3. ~stale[w] => \A b \in accepted : b.row # row
    BY <2>2 DEF SkewInv, View, RowsInv, AnsweredIsGone
  <2> HIDE DEF row, new
  <2>4. QED
    BY <2>2, <2>3
<1>2. QED
  BY <1>1, SkewAlways, PTL DEF MadeByNewAccept, Spec

------------------------------------------------------------------------------
(* Refinement of the friend graph.                                         *)

PendingOf(t) == {<<r.sender, r.recipient>> : r \in t}
FriendsOf(t) == {{f[1], f[2]} : f \in t}
MuddledOf(t) == {Between(k[2]) : k \in t}

\* Taking a row out of the table takes its key out of the graph.
LEMMA PendingWithout ==
  ASSUME RowsInv, NEW row \in requests
  PROVE  PendingOf(requests \ {row}) = PendingOf(requests) \ {<<row.sender, row.recipient>>}
<1>1. \A r \in requests : SameKey(r, row) => r = row
  BY DEF RowsInv, OneOfAKind
<1>2. QED
  BY <1>1 DEF PendingOf, SameKey

\* Every step of the handlers is a step of the graph, or none.
LEMMA GraphStep ==
  TypeOK /\ RowsInv /\ SkewInv /\ [Next]_vars => [Graph!Next]_(Graph!graphVars)
<1> SUFFICES ASSUME TypeOK, RowsInv, SkewInv, [Next]_vars
             PROVE  [Graph!Next]_(Graph!graphVars)
  OBVIOUS
<1> DEFINE pending == PendingOf(requests)
           friends == FriendsOf(friendships)
           muddled == MuddledOf(skews)
<1>1. ASSUME UNCHANGED <<requests, friendships, skews>> PROVE UNCHANGED Graph!graphVars
  BY <1>1 DEF Graph!graphVars
<1>2. ASSUME NEW w \in Handler, Ask(w) \/ Abort(w)
      PROVE  UNCHANGED <<requests, friendships, skews>>
  BY <1>2 DEF Ask, AskSend, AskRemove, AskAccept, AskDecline, Begin, Abort
<1>3. ASSUME NEW w \in Handler,
             \/ CheckFriendship(w) \/ CheckRequests(w) \/ InsertRequest(w)
             \/ SelectRequest(w) \/ InsertFriendship(w) \/ DeleteRequest(w)
      PROVE  UNCHANGED <<requests, friendships, skews>>
  BY <1>3 DEF CheckFriendship, CheckRequests, InsertRequest, SelectRequest,
              InsertFriendship, DeleteRequest
<1>4. ASSUME NEW w \in Handler, CommitSend(w) PROVE Graph!Next
  <2> DEFINE row == job[w].row
  <2>1. /\ pc[w] = "inserted" /\ requests' = requests \cup {row}
        /\ UNCHANGED friendships
        /\ skews' = skews \cup {k \in {"sent", "misordered"} \X {row} :
                                 IF k[1] = "sent" THEN stale[w] ELSE Misordered(w)}
    BY <1>4 DEF CommitSend
  <2>2. /\ BetweenUsers(row)
        /\ ~stale[w] => \A r \in requests : Between(r) # Between(row)
        /\ ~stale[w] /\ ~Misordered(w) =>
             \A f \in friendships : {f[1], f[2]} # Between(row)
    BY <2>1 DEF SkewInv, View, RowsInv, InsertedRows
  <2> HIDE DEF row
  <2>3. /\ PendingOf(requests') = pending \cup {<<row.sender, row.recipient>>}
        /\ FriendsOf(friendships') = friends
    BY <2>1 DEF PendingOf, FriendsOf
  <2>4. PICK a \in User, b \in User : a = row.sender /\ b = row.recipient /\ a # b
    BY <2>2 DEF BetweenUsers
  <2>5. CASE stale[w] \/ Misordered(w)
    <3>1. /\ \A k \in skews' \ skews : k[2] = row
          /\ <<"sent", row>> \in skews' \/ <<"misordered", row>> \in skews'
      BY <2>1, <2>5
    <3>2. skews \subseteq skews'
      BY <2>1
    <3>3. MuddledOf(skews') = muddled \cup {{a, b}}
      <4>1. PICK new \in skews' : new[2] = row
        BY <3>1
      <4>2. Between(row) = {a, b}
        BY <2>4 DEF Between
      <4>3. QED
        BY <3>1, <3>2, <4>1, <4>2 DEF MuddledOf
    <3>4. Graph!Overlap(a, b)
      BY <2>3, <2>4, <3>3 DEF Graph!Overlap, PendingOf, FriendsOf, MuddledOf
    <3>5. QED
      BY <3>4 DEF Graph!Next
  <2>6. CASE ~stale[w] /\ ~Misordered(w)
    <3>1. skews' = skews
      BY <2>1, <2>6
    <3>2. Graph!Unrelated(a, b)
      BY <2>2, <2>4, <2>6 DEF Graph!Unrelated, Between
    <3>3. Graph!Ask(a, b)
      BY <2>3, <2>4, <3>1, <3>2 DEF Graph!Ask, Graph!Unrelated, PendingOf, FriendsOf
    <3>4. QED
      BY <3>3 DEF Graph!Next
  <2>7. QED
    BY <2>5, <2>6
<1>5. ASSUME NEW w \in Handler, CommitAccept(w) PROVE Graph!Next
  <2> DEFINE row == job[w].row
  <2>1. /\ pc[w] = "deleted" /\ requests' = requests \ {row}
        /\ friendships' = IF owns[w] THEN friendships \cup {PairOf(row)} ELSE friendships
        /\ skews' = IF stale[w] THEN skews \cup {<<"accepted", row>>} ELSE skews
    BY <1>5 DEF CommitAccept
  <2>2. BetweenUsers(row) /\ {PairOf(row)[1], PairOf(row)[2]} = {row.sender, row.recipient}
    BY <2>1, RowPair DEF RowsInv, JobRow, Accepting, Between
  <2>3. ~stale[w] => row \in requests /\ (owns[w] \/ PairOf(row) \in friendships)
    BY <2>1 DEF SkewInv, View
  <2>4. PICK a \in User, b \in User : a = row.sender /\ b = row.recipient /\ a # b
    BY <2>2 DEF BetweenUsers
  <2> HIDE DEF row
  <2>5. /\ row \in requests => PendingOf(requests') = pending \ {<<a, b>>}
        /\ row \notin requests => PendingOf(requests') = pending
    <3>1. row \notin requests => requests' = requests
      BY <2>1
    <3>2. QED
      BY <2>1, <2>4, <3>1, PendingWithout
  <2>6. FriendsOf(friendships') =
          IF owns[w] THEN friends \cup {{a, b}} ELSE friends
    BY <2>1, <2>2, <2>4 DEF FriendsOf
  <2>7. CASE stale[w]
    <3>1. MuddledOf(skews') = muddled \cup {{a, b}}
      <4> DEFINE new == <<"accepted", row>>
      <4>1. skews' = skews \cup {new} /\ new[2] = row
        BY <2>1, <2>7
      <4>2. Between(row) = {a, b}
        BY <2>4 DEF Between
      <4> HIDE DEF new
      <4>3. QED
        BY <4>1, <4>2 DEF MuddledOf
    <3>2. Graph!Overlap(a, b)
      BY <2>4, <2>5, <2>6, <3>1 DEF Graph!Overlap, PendingOf, FriendsOf, MuddledOf
    <3>3. QED
      BY <3>2 DEF Graph!Next
  <2>8. CASE ~stale[w]
    <3>1. <<a, b>> \in pending /\ FriendsOf(friendships') = friends \cup {{a, b}}
      <4>1. PairOf(row) \in friendships => {a, b} \in friends
        BY <2>2, <2>4 DEF FriendsOf
      <4>2. QED
        BY <2>3, <2>4, <2>6, <2>8, <4>1 DEF PendingOf
    <3>2. Graph!Accept(a, b)
      BY <2>1, <2>3, <2>5, <2>8, <3>1 DEF Graph!Accept, PendingOf, FriendsOf
    <3>3. QED
      BY <3>2 DEF Graph!Next
  <2>9. QED
    BY <2>7, <2>8
<1>6. ASSUME NEW w \in Handler, DeclineRequest(w)
      PROVE  UNCHANGED <<requests, friendships, skews>> \/ Graph!Next
  <2> DEFINE row == job[w].row
  <2>1. UNCHANGED <<friendships, skews>>
    BY <1>6 DEF DeclineRequest
  <2>2. CASE UNCHANGED requests
    BY <2>1, <2>2
  <2>3. CASE row \in requests /\ requests' = requests \ {row}
    <3>1. BetweenUsers(row)
      BY <2>3 DEF RowsInv, KnownRows, Known
    <3> HIDE DEF row
    <3>2. /\ PendingOf(requests') = pending \ {<<row.sender, row.recipient>>}
          /\ FriendsOf(friendships') = friends
      BY <2>1, <2>3, PendingWithout
    <3>3. PICK a \in User, b \in User : a = row.sender /\ b = row.recipient
      BY <3>1 DEF BetweenUsers
    <3>4. Graph!Decline(a, b)
      BY <2>1, <2>3, <3>2, <3>3 DEF Graph!Decline, PendingOf, FriendsOf
    <3>5. QED
      BY <3>4 DEF Graph!Next
  <2>4. QED
    BY <1>6, <2>2, <2>3 DEF DeclineRequest
<1>7. ASSUME NEW w \in Handler, RemoveFriend(w)
      PROVE  UNCHANGED <<requests, friendships, skews>> \/ Graph!Next
  <2> DEFINE f == Selects(w)
  <2>1. /\ pc[w] = "remove" /\ friendships' = friendships \ {f}
        /\ UNCHANGED <<requests, skews>>
    BY <1>7 DEF RemoveFriend
  <2> HIDE DEF f
  <2>2. CASE f \notin friendships
    BY <2>1, <2>2
  <2>3. CASE f \in friendships
    <3>1. PICK a \in User, b \in User : f = <<a, b>> /\ a < b
      BY <2>3 DEF RowsInv, Consented
    <3>2. \A g \in friendships : {g[1], g[2]} = {a, b} => g = f
      <4>1. ASSUME NEW g \in friendships, {g[1], g[2]} = {a, b} PROVE g = f
        <5>1. PICK c \in User, d \in User : g = <<c, d>> /\ c < d
          BY DEF RowsInv, Consented
        <5>2. (c = a /\ d = b) \/ (c = b /\ d = a)
          BY <4>1, <5>1
        <5>3. QED
          BY <3>1, <5>1, <5>2, IdsAssumption
      <4>2. QED
        BY <4>1
    <3>3. FriendsOf(friendships') = friends \ {{a, b}} /\ {a, b} \in friends
      BY <2>1, <2>3, <3>1, <3>2 DEF FriendsOf
    <3>4. Graph!Remove(a, b)
      BY <2>1, <3>3 DEF Graph!Remove, PendingOf, FriendsOf
    <3>5. QED
      BY <3>4 DEF Graph!Next
  <2>4. QED
    BY <2>2, <2>3
<1>8. QED
  BY <1>1, <1>2, <1>3, <1>4, <1>5, <1>6, <1>7 DEF Next, Step, vars

\* The handlers implement the state machine of Property 21, whatever overlaps:
\* they depart from it only in a step that leaves a row in skews about the two.
THEOREM GraphImplemented == Spec => ImplementsGraph
<1>1. Init => Graph!Init
  BY DEF Init, Graph!Init
<1>2. TypeOK /\ RowsInv /\ SkewInv /\ [Next]_vars => [Graph!Next]_(Graph!graphVars)
  BY GraphStep
<1>3. QED
  BY <1>1, <1>2, SkewAlways, PTL DEF Spec, ImplementsGraph, Graph!Spec
==============================================================================
