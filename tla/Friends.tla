------------------------------- MODULE Friends -------------------------------
(***************************************************************************)
(* Friend requests and friendships: services/friends/repo.ts and           *)
(* canonicalPair.ts, over tables `friend_requests` and `friendships`.      *)
(*                                                                         *)
(* sendRequest and acceptRequest are transactions of several statements,   *)
(* declineRequest and removeFriend single DELETEs.  Postgres runs at READ  *)
(* COMMITTED: every statement sees what is committed when it runs, so what *)
(* an earlier SELECT of the same transaction returned may be stale.  An    *)
(* INSERT waits for an uncommitted writer of the same unique key, a DELETE *)
(* for an uncommitted writer of the row; locks end with the transaction.   *)
(*                                                                         *)
(* An id is a UUID as a string, and stands here for its position in the    *)
(* string order that canonicalPair uses.  The database returns ids in      *)
(* lower case (User); a request may spell one in upper case (uuidSchema    *)
(* accepts both), and Names folds a spelling to the value Postgres reads.  *)
(***************************************************************************)
EXTENDS Integers, FiniteSets

CONSTANTS
  User,         \* ids of the rows of `users`, as the database returns them
  Id,           \* the ids that requests contain
  Names,        \* the uuid an id denotes: a user's, or no user's
  Handler,      \* request handlers running concurrently in the API process
  MaxRequests   \* bound: once so many rows were inserted, none is asked for

ASSUME IdsAssumption ==
  /\ User \subseteq Id
  /\ Id \subseteq Nat
  /\ Names \in [Id -> Id]
  /\ \A u \in User : Names[u] = u
  /\ MaxRequests \in Nat

VARIABLES
  requests,     \* committed rows of friend_requests
  friendships,  \* committed rows of friendships: <<user_lo_id, user_hi_id>>
  nextId,       \* stands for gen_random_uuid(): the id of the next row
  pc,           \* where each handler is
  job,          \* who asks, the id it named, and the row it works on
  owns,         \* whether its own INSERT created the friendship row
  accepted,     \* history: the rows accepted, and by whom
  declined,     \* history: the rows that a decline deleted
  stale,        \* history: since the handler's first SELECT another one has
                \* committed a change of rows about the same two users
  skews         \* history: the rows sent and accepted on stale SELECTs, and
                \* those sent after a look at the pair in the wrong order

vars == <<requests, friendships, nextId, pc, job, owns, accepted, declined, stale, skews>>

RequestRow == [id : Nat, sender : Id, recipient : Id]
Job == [me : User, to : Id, row : RequestRow]
NoJob == [me |-> 0, to |-> 0, row |-> [id |-> 0, sender |-> 0, recipient |-> 0]]

Sending    == {"send", "not_friends", "unrequested", "inserted"}
Accepting  == {"accept", "found", "befriended", "deleted"}
Stage      == {"idle", "decline", "remove"} \cup Sending \cup Accepting
Skew       == {"sent", "accepted", "misordered"} \X RequestRow

TypeOK ==
  /\ requests \subseteq RequestRow
  /\ friendships \subseteq Id \X Id
  /\ nextId \in Nat \ {0}
  /\ pc \in [Handler -> Stage]
  /\ job \in [Handler -> Job \cup {NoJob}]
  /\ \A w \in Handler : pc[w] # "idle" => job[w] \in Job
  /\ owns \in [Handler -> BOOLEAN]
  /\ accepted \subseteq [row : RequestRow, by : User]
  /\ declined \subseteq RequestRow
  /\ stale \in [Handler -> BOOLEAN]
  /\ skews \subseteq Skew

\* Mutant: the pair in the order it is given.
PairAsGiven(a, b) == <<a, b>>

\* pair(a, b) of canonicalPair.ts: the two ids in string order.
CanonicalPair(a, b) == IF a < b THEN <<a, b>> ELSE <<b, a>>

\* The row of friendships that the handler's lo and hi select: Postgres
\* compares uuids, not strings.
Selects(w) ==
  LET pair == CanonicalPair(job[w].me, job[w].to)
  IN  <<Names[pair[1]], Names[pair[2]]>>

Misordered(w) == Selects(w) # CanonicalPair(job[w].me, Names[job[w].to])

PairOf(row) == CanonicalPair(row.sender, row.recipient)
Between(row) == {row.sender, row.recipient}

Init ==
  /\ requests = {}
  /\ friendships = {}
  /\ nextId = 1
  /\ pc = [w \in Handler |-> "idle"]
  /\ job = [w \in Handler |-> NoJob]
  /\ owns = [w \in Handler |-> FALSE]
  /\ accepted = {}
  /\ declined = {}
  /\ stale = [w \in Handler |-> FALSE]
  /\ skews = {}

------------------------------------------------------------------------------
Goto(w, stage) == pc' = [pc EXCEPT ![w] = stage]

\* Handlers whose transaction has read something about their two users.
HasRead(x) == pc[x] \in {"not_friends", "unrequested", "inserted", "found", "befriended", "deleted"}

\* The handler answers, and its transaction, if any, is over.
Answer(w) ==
  /\ Goto(w, "idle")
  /\ job' = [job EXCEPT ![w] = NoJob]
  /\ owns' = [owns EXCEPT ![w] = FALSE]
  /\ stale' = [x \in Handler |->
       x # w /\ (\/ stale[x]
                 \/ /\ HasRead(x) /\ Between(job[x].row) = Between(job[w].row)
                    /\ <<requests, friendships>>' # <<requests, friendships>>)]

\* A request arrives and passes validation and the session check.
Begin(w, stage, u, i, row) ==
  /\ pc[w] = "idle"
  /\ job' = [job EXCEPT ![w] = [me |-> u, to |-> i, row |-> row]]
  /\ Goto(w, stage)
  /\ UNCHANGED <<requests, friendships, nextId, owns, accepted, declined, stale, skews>>

\* POST /me/friend-requests; naming oneself is refused before any statement.
AskSend(w, u, i) ==
  /\ u # i
  /\ nextId + Cardinality({x \in Handler : pc[x] \in Sending \ {"inserted"}}) <= MaxRequests
  /\ Begin(w, "send", u, i, [id |-> 0, sender |-> u, recipient |-> Names[i]])

\* The request ids a client can know: rows that are or were in the table.
Known == requests \cup declined \cup {a.row : a \in accepted}

\* POST /me/friend-requests/:id/accept and .../decline, by any user.
AskAccept(w, u, row)  == Begin(w, "accept", u, u, row)
AskDecline(w, u, row) == Begin(w, "decline", u, u, row)

\* DELETE /me/friends/:userId; oneself is refused before any statement.
AskRemove(w, u, i) ==
  /\ u # i
  /\ Begin(w, "remove", u, i, [id |-> 0, sender |-> u, recipient |-> Names[i]])

------------------------------------------------------------------------------
(* sendRequest.                                                            *)

\* The recipient is a user, and SELECT EXISTS finds no friendship.
CheckFriendship(w) ==
  /\ pc[w] = "send"
  /\ UNCHANGED <<requests, friendships, nextId, accepted, declined, skews>>
  /\ IF Names[job[w].to] \in User /\ Selects(w) \notin friendships
     THEN Goto(w, "not_friends") /\ UNCHANGED <<job, owns, stale>>
     ELSE Answer(w)

\* Mutant: the same direction only.
CheckRequestsOneWay(w) ==
  /\ pc[w] = "not_friends"
  /\ UNCHANGED <<requests, friendships, nextId, accepted, declined, skews>>
  /\ IF \A r \in requests : <<r.sender, r.recipient>> # <<job[w].me, job[w].to>>
     THEN Goto(w, "unrequested") /\ UNCHANGED <<job, owns, stale>>
     ELSE Answer(w)

\* SELECT EXISTS finds no request in either direction.
CheckRequests(w) ==
  /\ pc[w] = "not_friends"
  /\ UNCHANGED <<requests, friendships, nextId, accepted, declined, skews>>
  /\ IF \A r \in requests : Between(r) # Between(job[w].row)
     THEN Goto(w, "unrequested") /\ UNCHANGED <<job, owns, stale>>
     ELSE Answer(w)

SameKey(r, s) == r.sender = s.sender /\ r.recipient = s.recipient

\* An uncommitted INSERT of the key, or DELETE of the row that has it.
KeyIsLocked(w) ==
  \E x \in Handler \ {w} :
    /\ SameKey(job[x].row, job[w].row)
    /\ \/ pc[x] = "inserted"
       \/ pc[x] = "deleted" /\ job[x].row \in requests

\* INSERT INTO friend_requests: the unique key or the self-request CHECK may
\* refuse the row, and the transaction rolls back.
InsertRequest(w) ==
  LET row == [job[w].row EXCEPT !.id = nextId] IN
  /\ pc[w] = "unrequested"
  /\ ~KeyIsLocked(w)
  /\ UNCHANGED <<requests, friendships, accepted, declined, skews>>
  /\ IF row.sender # row.recipient /\ \A r \in requests : ~SameKey(r, row)
     THEN /\ job' = [job EXCEPT ![w].row = row]
          /\ nextId' = nextId + 1
          /\ Goto(w, "inserted")
          /\ UNCHANGED <<owns, stale>>
     ELSE Answer(w) /\ UNCHANGED nextId

CommitSend(w) ==
  /\ pc[w] = "inserted"
  /\ requests' = requests \cup {job[w].row}
  /\ UNCHANGED <<friendships, nextId, accepted, declined>>
  /\ Answer(w)
  /\ skews' = skews \cup {k \in {"sent", "misordered"} \X {job[w].row} :
                           IF k[1] = "sent" THEN stale[w] ELSE Misordered(w)}

------------------------------------------------------------------------------
(* acceptRequest.                                                          *)

\* SELECT ... WHERE id AND recipient_id: no row, no friendship.  It takes no
\* lock on the row it finds.
SelectRequest(w) ==
  /\ pc[w] = "accept"
  /\ UNCHANGED <<requests, friendships, nextId, accepted, declined, skews>>
  /\ IF job[w].row \in requests /\ job[w].row.recipient = job[w].me
     THEN Goto(w, "found") /\ UNCHANGED <<job, owns, stale>>
     ELSE Answer(w)

\* INSERT INTO friendships ... ON CONFLICT DO NOTHING.
InsertFriendship(w) ==
  LET pair == PairOf(job[w].row) IN
  /\ pc[w] = "found"
  /\ \A x \in Handler \ {w} : owns[x] => PairOf(job[x].row) # pair
  /\ owns' = [owns EXCEPT ![w] = pair \notin friendships]
  /\ Goto(w, "befriended")
  /\ UNCHANGED <<requests, friendships, nextId, job, accepted, declined, stale, skews>>

\* Another transaction has deleted the row and not committed.
RowIsLocked(w) ==
  /\ job[w].row \in requests
  /\ \E x \in Handler \ {w} : pc[x] = "deleted" /\ job[x].row = job[w].row

\* DELETE FROM friend_requests WHERE id: it may find no row any more.
DeleteRequest(w) ==
  /\ pc[w] = "befriended"
  /\ ~RowIsLocked(w)
  /\ Goto(w, "deleted")
  /\ UNCHANGED <<requests, friendships, nextId, job, owns, accepted, declined, stale, skews>>

\* Mutant: the request is not deleted.
CommitFriendshipOnly(w) ==
  /\ pc[w] = "deleted"
  /\ friendships' = IF owns[w] THEN friendships \cup {PairOf(job[w].row)}
                               ELSE friendships
  /\ accepted' = accepted \cup {[row |-> job[w].row, by |-> job[w].me]}
  /\ UNCHANGED <<requests, nextId, declined>>
  /\ Answer(w)
  /\ skews' = IF stale[w] THEN skews \cup {<<"accepted", job[w].row>>} ELSE skews

CommitAccept(w) ==
  /\ pc[w] = "deleted"
  /\ requests' = requests \ {job[w].row}
  /\ friendships' = IF owns[w] THEN friendships \cup {PairOf(job[w].row)}
                               ELSE friendships
  /\ accepted' = accepted \cup {[row |-> job[w].row, by |-> job[w].me]}
  /\ UNCHANGED <<nextId, declined>>
  /\ Answer(w)
  /\ skews' = IF stale[w] THEN skews \cup {<<"accepted", job[w].row>>} ELSE skews

------------------------------------------------------------------------------
(* declineRequest, removeFriend, and failures.                             *)

\* Mutant: the request is marked declined and stays in the table.
DeclineSoftly(w) ==
  /\ pc[w] = "decline"
  /\ ~RowIsLocked(w)
  /\ declined' = IF job[w].row \in requests /\ job[w].row.recipient = job[w].me
                 THEN declined \cup {job[w].row} ELSE declined
  /\ UNCHANGED <<requests, friendships, nextId, accepted, skews>>
  /\ Answer(w)

DeclineRequest(w) ==
  /\ pc[w] = "decline"
  /\ ~RowIsLocked(w)
  /\ IF job[w].row \in requests /\ job[w].row.recipient = job[w].me
     THEN /\ requests' = requests \ {job[w].row}
          /\ declined' = declined \cup {job[w].row}
     ELSE UNCHANGED <<requests, declined>>
  /\ UNCHANGED <<friendships, nextId, accepted, skews>>
  /\ Answer(w)

RemoveFriend(w) ==
  /\ pc[w] = "remove"
  /\ friendships' = friendships \ {Selects(w)}
  /\ UNCHANGED <<requests, nextId, accepted, declined, skews>>
  /\ Answer(w)

\* A statement fails or the connection is lost before COMMIT: ROLLBACK.
Abort(w) ==
  /\ pc[w] # "idle"
  /\ UNCHANGED <<requests, friendships, nextId, accepted, declined, skews>>
  /\ Answer(w)

Ask(w) ==
  \E u \in User :
    \/ \E i \in Id : AskSend(w, u, i) \/ AskRemove(w, u, i)
    \/ \E row \in Known : AskAccept(w, u, row) \/ AskDecline(w, u, row)

\* Mutant: the COMMIT of an accept is forgotten.
StepWithoutCommit(w) ==
  \/ CheckFriendship(w) \/ CheckRequests(w) \/ InsertRequest(w) \/ CommitSend(w)
  \/ SelectRequest(w) \/ InsertFriendship(w) \/ DeleteRequest(w)
  \/ DeclineRequest(w) \/ RemoveFriend(w)

Step(w) ==
  \/ CheckFriendship(w) \/ CheckRequests(w) \/ InsertRequest(w) \/ CommitSend(w)
  \/ SelectRequest(w) \/ InsertFriendship(w) \/ DeleteRequest(w) \/ CommitAccept(w)
  \/ DeclineRequest(w) \/ RemoveFriend(w)

Next == \E w \in Handler : Ask(w) \/ Step(w) \/ Abort(w)

Spec == Init /\ [][Next]_vars

\* Postgres queues lock waiters, so a handler that waits for a lock gets it:
\* strong fairness of a handler's own steps.  Requests need not arrive.
FairSpec == Spec /\ \A w \in Handler : SF_vars(Step(w))

------------------------------------------------------------------------------
(* Properties.                                                             *)

\* What the comment of sendRequest says of its checks ("a concurrent INSERT
\* cannot squeeze between the read and the write", and what survives them trips
\* the unique key): at most one request is pending between any two users.
NoSecondPending == \A r, s \in requests : Between(r) = Between(s) => r = s

\* R8.7, Property 21, whatever overlaps: of two requests pending between the
\* same two users one was sent while the other was not yet committed, and the
\* transaction that sent it had looked before (sendRequest's checks in both
\* directions, at READ COMMITTED).
OnePending ==
  \A r, s \in requests :
    Between(r) = Between(s) /\ r # s => {<<"sent", r>>, <<"sent", s>>} \cap skews # {}

\* Property 21, whatever overlaps: a request is pending between two friends only
\* if it, or one of theirs that was accepted, was sent or accepted on a SELECT
\* that another commit had overtaken, or the two ids were misordered by their
\* spelling (sendRequest's friendship check, acceptRequest's DELETE).
NonePendingOfFriends ==
  \A r \in requests, f \in friendships :
    Between(r) = {f[1], f[2]} =>
      \E k \in skews : /\ Between(k[2]) = Between(r)
                       /\ k[2] = r \/ \E a \in accepted : a.row = k[2]

\* R8.5, whatever overlaps: a request the recipient declined is accepted as well
\* only by an accept that had found it before (acceptRequest, declineRequest).
DeclineIsFinal ==
  \A a \in accepted : a.row \in declined => <<"accepted", a.row>> \in skews

NewAccept ==
  \A f \in friendships' \ friendships :
    \E a \in accepted' :
      /\ PairOf(a.row) = f
      /\ (\A b \in accepted : b.row # a.row) \/ <<"accepted", a.row>> \in skews'

\* R8.4, R8.6, whatever overlaps: a friendship comes only from a request that was
\* accepted then; a request makes friends once, however often the accept is
\* repeated, unless another accept or a removal came between its SELECT and COMMIT.
MadeByNewAccept == [][NewAccept]_vars

\* Whatever overlaps, the row of a pair of friends is the canonical one and
\* the friends are the sender and the recipient, accepting, of one request.
Consented ==
  \A f \in friendships :
    /\ f \in User \X User /\ f[1] < f[2]
    /\ \E a \in accepted : PairOf(a.row) = f /\ a.by = a.row.recipient

\* Whatever overlaps, a request that was answered is pending no more
\* (acceptRequest inserts and deletes in one transaction).
AnsweredIsGone ==
  \A r \in requests : r \notin declined /\ \A a \in accepted : a.row # r

\* Whatever overlaps, a user has at most one request to the same user pending
\* ("a final safety net", repo.ts:277-279), committed or about to be.
OneOfAKind ==
  /\ \A r, s \in requests : SameKey(r, s) => r = s
  /\ \A w \in Handler, r \in requests :
       pc[w] = "inserted" => ~SameKey(r, job[w].row)

\* Every request is answered: handlers never wait for each other in a circle.
Answered == \A w \in Handler : pc[w] # "idle" ~> pc[w] = "idle"

\* Whatever overlaps, the handlers together behave as the state machine of
\* Property 21, departing from it only in a commit whose SELECTs were overtaken by
\* another about the same two users, or that looked at a misordered pair.
Graph == INSTANCE FriendGraph
  WITH pending <- {<<r.sender, r.recipient>> : r \in requests},
       friends <- {{f[1], f[2]} : f \in friendships},
       muddled <- {Between(k[2]) : k \in skews}
ImplementsGraph == Graph!Spec
==============================================================================
