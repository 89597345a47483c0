---------------------------- MODULE Sharing_proofs ----------------------------
(***************************************************************************)
(* Proofs that a share is delivered to all its recipients or not at all,   *)
(* to people who were friends of the sender together, and that a delivery  *)
(* settles; for every number of users, handlers and recipients.            *)
(***************************************************************************)
EXTENDS Sharing, TLAPS

Written == {"shared", "delivered"}

NewRows(w) ==
  {[share |-> job[w].share, recipient |-> i, opened |-> 0, deleted |-> 0] : i \in job[w].to}

\* What a handler holds while its transaction runs: the id of its INSERT is
\* its own and in no committed row, its rows are those of its recipients, and
\* past the check the recipients have all been friends of the sender.
TxInv ==
  /\ \A s \in shares : s.id < nextId
  /\ \A w \in Handler : pc[w] \in Written =>
       /\ job[w].share < nextId
       /\ \A s \in shares : s.id # job[w].share
       /\ \A x \in Handler \ {w} : pc[x] \in Written => job[x].share # job[w].share
  /\ \A w \in Handler : pc[w] = "delivered" => job[w].rows = NewRows(w)
  /\ \A w \in Handler : pc[w] \in {"checked"} \cup Written =>
       vouched[w] /\ job[w].to \subseteq User

Inv == TypeOK /\ TxInv /\ AllOrNone /\ SharedAmongFriends

------------------------------------------------------------------------------
(* Types.                                                                  *)

LEMMA InitInv == Init => Inv
BY DEF Init, Inv, TypeOK, TxInv, AllOrNone, SharedAmongFriends, Stage, Written

\* The row that an opening or a deletion leaves.
Opened == [r \in Delivery |->
  [r EXCEPT !.opened = IF r.opened = 0 THEN now ELSE r.opened]]
Deleted == [r \in Delivery |-> [r EXCEPT !.deleted = now]]

\* Both keep the key of the row.
LEMMA RowKept ==
  ASSUME TypeOK, NEW r \in Delivery
  PROVE  /\ Opened[r] \in Delivery /\ Deleted[r] \in Delivery
         /\ Opened[r].share = r.share /\ Opened[r].recipient = r.recipient
         /\ Deleted[r].share = r.share /\ Deleted[r].recipient = r.recipient
         /\ Opened[r].deleted = r.deleted
         /\ r.opened # 0 => Opened[r] = r
         /\ Deleted[r].opened = r.opened
BY DEF TypeOK, Opened, Deleted, Delivery

\* openShare and softDeleteForRecipient replace the rows they select.
LEMMA UpdatedRows ==
  ASSUME TypeOK, NEW u, NEW id
  PROVE  /\ OpenShare(u, id) =>
              inbox' = (inbox \ Rows(u, id)) \cup {Opened[r] : r \in Rows(u, id)}
         /\ SoftDelete(u, id) =>
              inbox' = (inbox \ Rows(u, id)) \cup {Deleted[r] : r \in Rows(u, id)}
<1> DEFINE R == Rows(u, id)
           O(r) == [r EXCEPT !.opened = IF r.opened = 0 THEN now ELSE r.opened]
           D(r) == [r EXCEPT !.deleted = now]
<1>1. \A r \in R : Opened[r] = O(r) /\ Deleted[r] = D(r)
  BY DEF TypeOK, Rows, Opened, Deleted
<1>2. {O(r) : r \in R} = {Opened[r] : r \in R} /\ {D(r) : r \in R} = {Deleted[r] : r \in R}
  <2> HIDE DEF R, O, D
  <2> QED
    BY <1>1
<1>3. QED
  BY <1>2 DEF OpenShare, SoftDelete

LEMMA TypeStep == TypeOK /\ [Next]_vars => TypeOK'
<1> SUFFICES ASSUME TypeOK, [Next]_vars PROVE TypeOK'
  OBVIOUS
<1> USE DEF TypeOK
<1>1. CASE UNCHANGED vars
  BY <1>1 DEF vars, shareVars
<1>2. ASSUME NEW w \in Handler, Answer(w)
      PROVE  /\ pc' \in [Handler -> Stage]
             /\ job' \in [Handler -> Job \cup {NoJob}]
             /\ \A x \in Handler : pc'[x] # "idle" => job'[x] \in Job
             /\ vouched' \in [Handler -> BOOLEAN]
  BY <1>2 DEF Answer, Goto, Stage
<1>3. ASSUME NEW w \in Handler, NEW s \in User, NEW to \in SUBSET Id, AskShare(w, s, to)
      PROVE  TypeOK'
  <2>1. [sender |-> s, to |-> to, share |-> 0, rows |-> {}] \in Job
    BY DEF Job
  <2>2. AllFriends(s, to) \in BOOLEAN
    BY DEF AllFriends
  <2>3. QED
    BY <1>3, <2>1, <2>2 DEF AskShare, Goto, Stage
<1>4. ASSUME NEW w \in Handler, CheckFriends(w) PROVE TypeOK'
  BY <1>2, <1>4 DEF CheckFriends, Goto, Stage
<1>5. ASSUME NEW w \in Handler, InsertShare(w) PROVE TypeOK'
  <2>1. job[w] \in Job /\ [job[w] EXCEPT !.share = nextId] \in Job
    BY <1>5 DEF InsertShare, Job
  <2>2. QED
    BY <1>5, <2>1 DEF InsertShare, Goto, Stage
<1>6. ASSUME NEW w \in Handler, InsertRecipients(w) PROVE TypeOK'
  <2>1. job[w] \in Job
    BY <1>6 DEF InsertRecipients
  <2>2. NewRows(w) \subseteq Delivery
    BY <2>1 DEF NewRows, Delivery, Job
  <2>3. [job[w] EXCEPT !.rows = NewRows(w)] \in Job
    BY <2>1, <2>2 DEF Job
  <2>4. QED
    BY <1>6, <2>3 DEF InsertRecipients, Goto, Stage, NewRows
<1>7. ASSUME NEW w \in Handler, CommitShare(w) PROVE TypeOK'
  <2>1. job[w] \in Job
    BY <1>7 DEF CommitShare
  <2>2. [id |-> job[w].share, sender |-> job[w].sender, to |-> job[w].to,
         vouched |-> vouched[w]] \in Share
    BY <2>1 DEF Job, Share
  <2>3. QED
    BY <1>2, <1>7, <2>1, <2>2 DEF CommitShare, Job
<1>8. ASSUME NEW w \in Handler, AbortShare(w) PROVE TypeOK'
  BY <1>2, <1>8 DEF AbortShare
<1>9. ASSUME NEW u \in User, NEW id, OpenShare(u, id) \/ SoftDelete(u, id)
      PROVE  TypeOK'
  <2>1. inbox' \subseteq Delivery
    BY <1>9, UpdatedRows, RowKept DEF Rows
  <2>2. QED
    BY <1>9, <2>1 DEF OpenShare, SoftDelete
<1>10. ASSUME NEW a \in User, NEW b \in User, ChangeFriends(a, b) PROVE TypeOK'
  <2>1. vouched' \in [Handler -> BOOLEAN]
    BY <1>10 DEF ChangeFriends, AllFriends
  <2>2. friends' \subseteq SUBSET User
    BY <1>10 DEF ChangeFriends
  <2>3. QED
    BY <1>10, <2>1, <2>2 DEF ChangeFriends, shareVars
<1>11. CASE Tick
  BY <1>11 DEF Tick
<1>12. QED
  BY <1>1, <1>3, <1>4, <1>5, <1>6, <1>7, <1>8, <1>9, <1>10, <1>11 DEF Next, Step

\* Every reachable state is well typed.
THEOREM TypeCorrect == Spec => []TypeOK
<1>1. Init => TypeOK
  BY InitInv DEF Inv
<1>2. QED
  BY <1>1, TypeStep, PTL DEF Spec

------------------------------------------------------------------------------
(* The transaction of createShareAtomic.                                   *)

\* Once the recipients have been friends together they have been for ever.
LEMMA VouchedStays ==
  ASSUME TypeOK, [Next]_vars, NEW w \in Handler,
         pc[w] # "idle", pc'[w] # "idle", vouched[w]
  PROVE  vouched'[w] /\ job'[w].to = job[w].to
<1> USE DEF TypeOK
<1>1. ASSUME NEW x \in Handler, NEW s \in User, NEW to \in SUBSET Id, AskShare(x, s, to)
      PROVE  vouched'[w] /\ job'[w].to = job[w].to
  BY <1>1 DEF AskShare
<1>2. ASSUME NEW x \in Handler, Step(x) \/ AbortShare(x)
      PROVE  vouched'[w] /\ job'[w].to = job[w].to
  <2>1. job[w] \in Job
    OBVIOUS
  <2>2. QED
    BY <1>2, <2>1 DEF Step, CheckFriends, InsertShare, InsertRecipients, CommitShare,
       AbortShare, Answer, Goto, Job
<1>3. ASSUME NEW a \in User, NEW b \in User, ChangeFriends(a, b)
      PROVE  vouched'[w] /\ job'[w].to = job[w].to
  BY <1>3 DEF ChangeFriends, shareVars
<1>4. CASE Tick \/ (\E u \in User, s \in shares : OpenShare(u, s.id) \/ SoftDelete(u, s.id))
           \/ UNCHANGED vars
  BY <1>4 DEF Tick, OpenShare, SoftDelete, vars, shareVars
<1>5. QED
  BY <1>1, <1>2, <1>3, <1>4 DEF Next

\* A handler that runs at a state where its recipients are friends is vouched
\* for: the property that AskShare and ChangeFriends keep up to date.
VouchInv == \A w \in Handler :
  pc[w] # "idle" /\ AllFriends(job[w].sender, job[w].to) => vouched[w]

LEMMA VouchStep == TypeOK /\ VouchInv /\ [Next]_vars => VouchInv'
<1> SUFFICES ASSUME TypeOK, VouchInv, [Next]_vars, NEW w \in Handler,
                    pc'[w] # "idle", AllFriends(job[w].sender, job[w].to)'
             PROVE  vouched'[w]
  BY DEF VouchInv
<1> USE DEF TypeOK
<1>1. ASSUME NEW x \in Handler, NEW s \in User, NEW to \in SUBSET Id, AskShare(x, s, to)
      PROVE  vouched'[w]
  <2>1. CASE x = w
    <3>1. job'[w].sender = s /\ job'[w].to = to /\ friends' = friends
      BY <1>1, <2>1 DEF AskShare
    <3>2. vouched'[w] = AllFriends(s, to)
      BY <1>1, <2>1 DEF AskShare
    <3>3. QED
      BY <3>1, <3>2 DEF AllFriends
  <2>2. CASE x # w
    BY <1>1, <2>2 DEF AskShare, VouchInv, AllFriends, Goto
  <2>3. QED
    BY <2>1, <2>2
<1>2. ASSUME NEW x \in Handler, Step(x) \/ AbortShare(x) PROVE vouched'[w]
  <2>1. pc[w] # "idle" /\ job'[w].sender = job[w].sender /\ job'[w].to = job[w].to
        /\ vouched'[w] = vouched[w] /\ friends' = friends
    BY <1>2 DEF Step, CheckFriends, InsertShare, InsertRecipients, CommitShare,
       AbortShare, Answer, Goto, Job
  <2>2. QED
    BY <2>1 DEF VouchInv, AllFriends
<1>3. ASSUME NEW a \in User, NEW b \in User, ChangeFriends(a, b) PROVE vouched'[w]
  BY <1>3 DEF ChangeFriends, shareVars
<1>4. CASE Tick \/ (\E u \in User, s \in shares : OpenShare(u, s.id) \/ SoftDelete(u, s.id))
           \/ UNCHANGED vars
  BY <1>4 DEF Tick, OpenShare, SoftDelete, vars, shareVars, VouchInv, AllFriends
<1>5. QED
  BY <1>1, <1>2, <1>3, <1>4 DEF Next

LEMMA TxStep == TypeOK /\ VouchInv /\ TxInv /\ [Next]_vars => TxInv'
<1> SUFFICES ASSUME TypeOK, VouchInv, TxInv, [Next]_vars PROVE TxInv'
  OBVIOUS
<1> USE DEF TypeOK
<1>1. ASSUME NEW w \in Handler, NEW s \in User, NEW to \in SUBSET Id, AskShare(w, s, to)
      PROVE  TxInv'
  BY <1>1 DEF AskShare, TxInv, Goto, Written, NewRows
<1>2. ASSUME NEW w \in Handler, CheckFriends(w) PROVE TxInv'
  <2>1. CASE AllFriends(job[w].sender, job[w].to)
    <3>1. vouched[w] /\ job[w].to \subseteq User
      BY <1>2, <2>1 DEF CheckFriends, VouchInv, AllFriends
    <3>2. QED
      BY <1>2, <2>1, <3>1 DEF CheckFriends, TxInv, Goto, Written, NewRows
  <2>2. CASE ~AllFriends(job[w].sender, job[w].to)
    BY <1>2, <2>2 DEF CheckFriends, Answer, TxInv, Goto, Written, NewRows
  <2>3. QED
    BY <2>1, <2>2
<1>3. ASSUME NEW w \in Handler, InsertShare(w) PROVE TxInv'
  <2>1. job[w] \in Job /\ nextId' = nextId + 1 /\ shares' = shares
    BY <1>3 DEF InsertShare
  <2>2. /\ job'[w].share = nextId /\ job'[w].to = job[w].to /\ vouched'[w] = vouched[w]
        /\ pc'[w] = "shared"
        /\ \A x \in Handler \ {w} : job'[x] = job[x] /\ pc'[x] = pc[x]
    BY <1>3, <2>1 DEF InsertShare, Goto, Job
  <2>3. vouched' = vouched /\ pc[w] = "checked"
    BY <1>3 DEF InsertShare
  <2>4. \A s \in shares' : s.id < nextId'
    BY <2>1 DEF TxInv, Share
  <2>5. \A x \in Handler : pc'[x] \in Written =>
          /\ job'[x].share < nextId'
          /\ \A s \in shares' : s.id # job'[x].share
          /\ \A y \in Handler \ {x} : pc'[y] \in Written => job'[y].share # job'[x].share
    <3>1. \A x \in Handler \ {w} : pc[x] \in Written => job[x].share \in Nat
      BY DEF Written, Job
    <3>2. QED
      BY <2>1, <2>2, <3>1 DEF TxInv, Share
  <2>6. \A x \in Handler : pc'[x] = "delivered" => job'[x].rows = NewRows(x)'
    BY <2>2 DEF TxInv, NewRows
  <2>7. \A x \in Handler : pc'[x] \in {"checked"} \cup Written =>
          vouched'[x] /\ job'[x].to \subseteq User
    BY <2>2, <2>3 DEF TxInv
  <2>8. QED
    BY <2>4, <2>5, <2>6, <2>7 DEF TxInv
<1>4. ASSUME NEW w \in Handler, InsertRecipients(w) PROVE TxInv'
  <2>1. job[w] \in Job /\ nextId' = nextId /\ shares' = shares /\ vouched' = vouched
    BY <1>4 DEF InsertRecipients
  <2>2. /\ job'[w].share = job[w].share /\ job'[w].to = job[w].to
        /\ job'[w].rows = NewRows(w)
        /\ pc[w] = "shared" /\ pc'[w] = "delivered"
        /\ \A x \in Handler \ {w} : job'[x] = job[x] /\ pc'[x] = pc[x]
    BY <1>4, <2>1 DEF InsertRecipients, Goto, Job, NewRows
  <2>3. QED
    BY <2>1, <2>2 DEF TxInv, NewRows, Written
<1>5. ASSUME NEW w \in Handler, CommitShare(w) PROVE TxInv'
  <2>1. pc'[w] = "idle" /\ nextId' = nextId /\ pc[w] = "delivered"
        /\ \A x \in Handler \ {w} : job'[x] = job[x] /\ pc'[x] = pc[x] /\ vouched'[x] = vouched[x]
    BY <1>5 DEF CommitShare, Answer, Goto
  <2>2. \A s \in shares' : s \in shares \/ s.id = job[w].share
    BY <1>5 DEF CommitShare
  <2>3. QED
    BY <2>1, <2>2 DEF TxInv, NewRows, Written
<1>6. ASSUME NEW w \in Handler, AbortShare(w) PROVE TxInv'
  BY <1>6 DEF AbortShare, Answer, TxInv, Goto, Written, NewRows
<1>7. ASSUME NEW a \in User, NEW b \in User, ChangeFriends(a, b) PROVE TxInv'
  BY <1>7 DEF ChangeFriends, shareVars, TxInv, NewRows, Written
<1>8. CASE Tick \/ (\E u \in User, s \in shares : OpenShare(u, s.id) \/ SoftDelete(u, s.id))
           \/ UNCHANGED vars
  BY <1>8 DEF Tick, OpenShare, SoftDelete, vars, shareVars, TxInv, NewRows, Written
<1>9. QED
  BY <1>1, <1>2, <1>3, <1>4, <1>5, <1>6, <1>7, <1>8 DEF Next, Step

------------------------------------------------------------------------------
(* What is committed.                                                      *)

\* Rewriting the rows of one key by a function that keeps the key leaves one
\* row for every key there was.
LEMMA Rewriting ==
  ASSUME TypeOK, AllOrNone, NEW u, NEW id, NEW F \in [Delivery -> Delivery],
         \A r \in Delivery : F[r].share = r.share /\ F[r].recipient = r.recipient,
         inbox' = (inbox \ Rows(u, id)) \cup {F[r] : r \in Rows(u, id)},
         shares' = shares
  PROVE  AllOrNone'
<1> USE DEF TypeOK
<1>1. \A x \in inbox' : \E r \in inbox :
        /\ r.share = x.share /\ r.recipient = x.recipient
        /\ x = IF r \in Rows(u, id) THEN F[r] ELSE r
  BY DEF Rows
<1>2. \A r \in inbox : \E x \in inbox' : x.share = r.share /\ x.recipient = r.recipient
  <2>1. TAKE r \in inbox
  <2>2. CASE r \in Rows(u, id)
    BY <2>2
  <2>3. CASE r \notin Rows(u, id)
    BY <2>3
  <2>4. QED
    BY <2>2, <2>3
<1>3. \A x, y \in inbox' : x.share = y.share /\ x.recipient = y.recipient => x = y
  BY <1>1 DEF AllOrNone
<1>4. \A s \in shares : {r.recipient : r \in {x \in inbox' : x.share = s.id}} = s.to
  <2>1. TAKE s \in shares
  <2>2. {r.recipient : r \in {x \in inbox : x.share = s.id}} = s.to
    BY DEF AllOrNone
  <2> DEFINE Old == {x \in inbox : x.share = s.id}
             New == {x \in inbox' : x.share = s.id}
  <2>3. \A i : (\E r \in Old : r.recipient = i) <=> (\E x \in New : x.recipient = i)
    BY <1>1, <1>2
  <2>4. {r.recipient : r \in Old} = {r.recipient : r \in New}
    <3> HIDE DEF Old, New
    <3>1. \A i : i \in {r.recipient : r \in Old} <=> \E r \in Old : r.recipient = i
      OBVIOUS
    <3>2. \A i : i \in {r.recipient : r \in New} <=> \E r \in New : r.recipient = i
      OBVIOUS
    <3>3. \A i : i \in {r.recipient : r \in Old} <=> i \in {r.recipient : r \in New}
      BY <2>3, <3>1, <3>2
    <3>4. QED
      BY <3>3
  <2>5. QED
    BY <2>2, <2>4
<1>5. \A x \in inbox' : \E s \in shares : s.id = x.share
  BY <1>1 DEF AllOrNone
<1>6. QED
  BY <1>3, <1>4, <1>5 DEF AllOrNone

LEMMA AllOrNoneStep == TypeOK /\ TxInv /\ AllOrNone /\ [Next]_vars => AllOrNone'
<1> SUFFICES ASSUME TypeOK, TxInv, AllOrNone, [Next]_vars PROVE AllOrNone'
  OBVIOUS
<1>1. ASSUME NEW w \in Handler, CommitShare(w) PROVE AllOrNone'
  <2> DEFINE id == job[w].share
             New == [id |-> id, sender |-> job[w].sender, to |-> job[w].to,
                     vouched |-> vouched[w]]
             Row(i) == [share |-> id, recipient |-> i, opened |-> 0, deleted |-> 0]
             Added == {Row(i) : i \in job[w].to}
  <2>1. shares' = shares \cup {New} /\ inbox' = inbox \cup Added
    BY <1>1 DEF CommitShare, TxInv, NewRows
  <2>2. \A s \in shares : s.id # id
    BY <1>1 DEF CommitShare, TxInv, Written
  <2>3. \A r \in inbox : r.share # id
    BY <2>2 DEF AllOrNone
  <2>4. New.id = id /\ New.to = job[w].to
    OBVIOUS
  <2>5. \A i : Row(i).share = id /\ Row(i).recipient = i
    OBVIOUS
  <2> HIDE DEF New, Row, id
  <2>6. {r.recipient : r \in {x \in inbox' : x.share = id}} = job[w].to
    BY <2>1, <2>3, <2>5
  <2>7. \A s \in shares :
          {r.recipient : r \in {x \in inbox' : x.share = s.id}} = s.to
    <3>1. TAKE s \in shares
    <3>2. {x \in inbox' : x.share = s.id} = {x \in inbox : x.share = s.id}
      BY <2>1, <2>2, <2>5
    <3>3. QED
      BY <3>2 DEF AllOrNone
  <2>8. \A r, x \in inbox' : r.share = x.share /\ r.recipient = x.recipient => r = x
    BY <2>1, <2>3, <2>5 DEF AllOrNone
  <2>9. \A r \in inbox' : \E s \in shares' : s.id = r.share
    BY <2>1, <2>4, <2>5 DEF AllOrNone
  <2>10. \A s \in shares' : {r.recipient : r \in {x \in inbox' : x.share = s.id}} = s.to
    BY <2>1, <2>4, <2>6, <2>7
  <2>11. QED
    BY <2>8, <2>9, <2>10 DEF AllOrNone
<1>2. ASSUME NEW u \in User, NEW s \in shares, OpenShare(u, s.id) \/ SoftDelete(u, s.id)
      PROVE  AllOrNone'
  <2>1. /\ Opened \in [Delivery -> Delivery]
        /\ \A r \in Delivery : Opened[r].share = r.share /\ Opened[r].recipient = r.recipient
    <3>1. Opened \in [Delivery -> Delivery]
      BY DEF Opened, Delivery, TypeOK
    <3>2. QED
      BY <3>1, RowKept
  <2>6. /\ Deleted \in [Delivery -> Delivery]
        /\ \A r \in Delivery : Deleted[r].share = r.share /\ Deleted[r].recipient = r.recipient
    <3>1. Deleted \in [Delivery -> Delivery]
      BY DEF Deleted, Delivery, TypeOK
    <3>2. QED
      BY <3>1, RowKept
  <2>2. shares' = shares
    BY <1>2 DEF OpenShare, SoftDelete
  <2>3. CASE OpenShare(u, s.id)
    <3>1. inbox' = (inbox \ Rows(u, s.id)) \cup {Opened[r] : r \in Rows(u, s.id)}
      BY <2>3, UpdatedRows
    <3> DEFINE id == s.id
    <3>2. inbox' = (inbox \ Rows(u, id)) \cup {Opened[r] : r \in Rows(u, id)}
      BY <3>1
    <3> HIDE DEF id
    <3>3. QED
      BY <2>1, <2>2, <3>2, Rewriting
  <2>4. CASE SoftDelete(u, s.id)
    <3>1. inbox' = (inbox \ Rows(u, s.id)) \cup {Deleted[r] : r \in Rows(u, s.id)}
      BY <2>4, UpdatedRows
    <3> DEFINE id == s.id
    <3>2. inbox' = (inbox \ Rows(u, id)) \cup {Deleted[r] : r \in Rows(u, id)}
      BY <3>1
    <3> HIDE DEF id
    <3>3. QED
      BY <2>6, <2>2, <3>2, Rewriting
  <2>5. QED
    BY <1>2, <2>3, <2>4
<1>3. CASE UNCHANGED <<shares, inbox>>
  BY <1>3 DEF AllOrNone
<1>4. QED
  BY <1>1, <1>2, <1>3 DEF Next, Step, AskShare, CheckFriends, InsertShare, InsertRecipients,
     AbortShare, ChangeFriends, Tick, vars, shareVars

LEMMA FriendsStep ==
  TypeOK /\ TxInv /\ SharedAmongFriends /\ [Next]_vars => SharedAmongFriends'
<1> SUFFICES ASSUME TypeOK, TxInv, SharedAmongFriends, [Next]_vars
             PROVE  SharedAmongFriends'
  OBVIOUS
<1>1. ASSUME NEW w \in Handler, CommitShare(w) PROVE SharedAmongFriends'
  BY <1>1 DEF CommitShare, TxInv, Written, SharedAmongFriends
<1>2. CASE UNCHANGED shares
  BY <1>2 DEF SharedAmongFriends
<1>3. QED
  BY <1>1, <1>2 DEF Next, Step, AskShare, CheckFriends, InsertShare, InsertRecipients,
     AbortShare, ChangeFriends, Tick, OpenShare, SoftDelete, vars, shareVars

LEMMA Invariant == Spec => [](Inv /\ VouchInv)
<1>1. Init => Inv /\ VouchInv
  BY InitInv DEF Init, VouchInv
<1>2. Inv /\ VouchInv /\ [Next]_vars => (Inv /\ VouchInv)'
  BY TypeStep, TxStep, VouchStep, AllOrNoneStep, FriendsStep DEF Inv
<1>3. QED
  BY <1>1, <1>2, PTL DEF Spec

\* Property 22: a share has exactly one delivery for every recipient it was
\* asked for, whatever fails and whatever the recipients do.
THEOREM DeliveredToAllOrNone == Spec => []AllOrNone
<1>1. Inv => AllOrNone
  BY DEF Inv
<1>2. QED
  BY <1>1, Invariant, PTL

\* Property 22: a share's recipients were all friends of the sender at one
\* moment of the request, however friendships change during it.
THEOREM NeverToStrangers == Spec => []SharedAmongFriends
<1>1. Inv => SharedAmongFriends
  BY DEF Inv
<1>2. QED
  BY <1>1, Invariant, PTL

\* R9.9, R9.10: the first opening stands, a deleted delivery changes no more.
THEOREM DeliveriesSettle == Spec => DeliverySettles
<1>1. TypeOK /\ [Next]_vars => [Settling]_vars
  <2> SUFFICES ASSUME TypeOK, [Next]_vars PROVE [Settling]_vars
    OBVIOUS
  <2>1. ASSUME NEW w \in Handler, CommitShare(w) PROVE Settling
    BY <2>1 DEF CommitShare, Settling
  <2>2. ASSUME NEW u \in User, NEW s \in shares,
               OpenShare(u, s.id) \/ SoftDelete(u, s.id)
        PROVE  Settling
    <3>1. \A r \in inbox : r \in Delivery
      BY DEF TypeOK
    <3>2. ASSUME NEW r \in inbox
          PROVE  \E x \in inbox' :
                   /\ x.share = r.share /\ x.recipient = r.recipient
                   /\ r.opened # 0 => x.opened = r.opened
                   /\ r.deleted # 0 => x = r
      <4>1. CASE r \notin Rows(u, s.id)
        BY <2>2, <4>1, UpdatedRows
      <4>2. CASE r \in Rows(u, s.id) /\ OpenShare(u, s.id)
        <5>1. Opened[r] \in inbox' /\ r.deleted = 0
          BY <4>2, UpdatedRows DEF Rows
        <5>2. QED
          BY <5>1, <3>1, RowKept
      <4>3. CASE r \in Rows(u, s.id) /\ SoftDelete(u, s.id)
        <5>1. Deleted[r] \in inbox' /\ r.deleted = 0
          BY <4>3, UpdatedRows DEF Rows
        <5>2. QED
          BY <5>1, <3>1, RowKept
      <4>4. QED
        BY <2>2, <4>1, <4>2, <4>3
    <3>3. QED
      BY <2>2, <3>2 DEF Settling, OpenShare, SoftDelete
  <2>3. CASE UNCHANGED <<shares, inbox>>
    BY <2>3 DEF Settling
  <2>4. QED
    BY <2>1, <2>2, <2>3 DEF Next, Step, AskShare, CheckFriends, InsertShare,
       InsertRecipients, AbortShare, ChangeFriends, Tick, vars, shareVars
<1>2. QED
  BY <1>1, TypeCorrect, PTL DEF Spec, DeliverySettles
==============================================================================
