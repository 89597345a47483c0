------------------------------- MODULE Sharing -------------------------------
(***************************************************************************)
(* Shares: services/sharing/repo.ts over tables `shares` and               *)
(* `share_recipients`, beside the friend graph that createShareAtomic      *)
(* reads.  It is one transaction of three statements: one SELECT of the    *)
(* friendships, an INSERT of the share and an INSERT of one row for every  *)
(* recipient.  openShare and softDeleteForRecipient are single UPDATEs.    *)
(*                                                                         *)
(* Rows that a transaction wrote are visible to others from COMMIT on.     *)
(* Friendships come and go meanwhile, as the Accept and the Remove of      *)
(* FriendGraph make them.  Recipients are compared as strings with the     *)
(* rows read, so an id that is nobody's, or that spells a user's id        *)
(* otherwise, is one that is in no friendship.                             *)
(***************************************************************************)
EXTENDS Integers, FiniteSets

CONSTANTS
  User,            \* ids of the rows of `users`
  Id,              \* the ids that requests contain
  Handler,         \* request handlers running POST /me/shares concurrently
  MAX_RECIPIENTS,  \* 50 in the source
  MaxShares,       \* bound: once so many shares were inserted, none is asked for
  MaxTime          \* bound: the clock stops here

ASSUME SharingAssumption ==
  /\ User \subseteq Id
  /\ MAX_RECIPIENTS \in Nat
  /\ MaxShares \in Nat
  /\ MaxTime \in Nat

VARIABLES
  friends,           \* {a, b} for every two users who are friends
  shares,            \* committed rows of `shares`, with the list asked for
  inbox,             \* committed rows of `share_recipients`
  nextId,            \* stands for gen_random_uuid(): the id of the next share
  now,               \* the database's clock
  pc,                \* where each handler is
  job,               \* what it was asked to share and has inserted so far
  vouched            \* history: the recipients were all friends of the sender
                     \* at one moment since the handler's request arrived

shareVars == <<shares, inbox, nextId, now, pc, job>>
vars == <<friends, shareVars, vouched>>

Share == [id : Nat, sender : User, to : SUBSET Id, vouched : BOOLEAN]
\* opened_at and recipient_deleted_at; 0 stands for NULL.
Delivery == [share : Nat, recipient : Id, opened : Nat, deleted : Nat]
Job == [sender : User, to : SUBSET Id, share : Nat, rows : SUBSET Delivery]
NoJob == [sender |-> 0, to |-> {}, share |-> 0, rows |-> {}]
Stage == {"idle", "begun", "checked", "shared", "delivered"}

TypeOK ==
  /\ friends \subseteq SUBSET User
  /\ shares \subseteq Share
  /\ inbox \subseteq Delivery
  /\ nextId \in Nat \ {0}
  /\ now \in Nat \ {0}
  /\ pc \in [Handler -> Stage]
  /\ job \in [Handler -> Job \cup {NoJob}]
  /\ \A w \in Handler : pc[w] # "idle" => job[w] \in Job
  /\ vouched \in [Handler -> BOOLEAN]

AllFriends(s, to) == \A i \in to : i \in User /\ {s, i} \in friends

Init ==
  /\ friends = {}
  /\ shares = {} /\ inbox = {}
  /\ nextId = 1 /\ now = 1
  /\ pc = [w \in Handler |-> "idle"]
  /\ job = [w \in Handler |-> NoJob]
  /\ vouched = [w \in Handler |-> FALSE]

------------------------------------------------------------------------------
(* createShareAtomic.                                                      *)

Goto(w, stage) == pc' = [pc EXCEPT ![w] = stage]

Answer(w) ==
  /\ Goto(w, "idle")
  /\ job' = [job EXCEPT ![w] = NoJob]
  /\ vouched' = [vouched EXCEPT ![w] = FALSE]

\* POST /me/shares whose list has no duplicate, passes the bounds and does
\* not name the sender: everything that is refused before any statement.
AskShare(w, s, to) ==
  /\ pc[w] = "idle"
  /\ nextId <= MaxShares
  /\ Cardinality(to) \in 1 .. MAX_RECIPIENTS
  /\ s \notin to
  /\ Goto(w, "begun")
  /\ job' = [job EXCEPT ![w] = [sender |-> s, to |-> to, share |-> 0, rows |-> {}]]
  /\ vouched' = [vouched EXCEPT ![w] = AllFriends(s, to)]
  /\ UNCHANGED <<friends, shares, inbox, nextId, now>>

\* Mutant: pairs.some for pairs.every.
CheckSomeFriend(w) ==
  /\ pc[w] = "begun"
  /\ IF \E i \in job[w].to : AllFriends(job[w].sender, {i})
     THEN Goto(w, "checked") /\ UNCHANGED <<job, vouched>>
     ELSE Answer(w)
  /\ UNCHANGED <<friends, shares, inbox, nextId, now>>

\* One SELECT covers every recipient; any stranger rolls everything back.
CheckFriends(w) ==
  /\ pc[w] = "begun"
  /\ IF AllFriends(job[w].sender, job[w].to)
     THEN Goto(w, "checked") /\ UNCHANGED <<job, vouched>>
     ELSE Answer(w)
  /\ UNCHANGED <<friends, shares, inbox, nextId, now>>

\* Mutant: the share is inserted through the pool, outside the transaction.
InsertShareAtOnce(w) ==
  /\ pc[w] = "checked"
  /\ Goto(w, "shared")
  /\ job' = [job EXCEPT ![w].share = nextId]
  /\ shares' = shares \cup {[id |-> nextId, sender |-> job[w].sender,
                             to |-> job[w].to, vouched |-> vouched[w]]}
  /\ nextId' = nextId + 1
  /\ UNCHANGED <<friends, inbox, now, vouched>>

InsertShare(w) ==
  /\ pc[w] = "checked"
  /\ Goto(w, "shared")
  /\ job' = [job EXCEPT ![w].share = nextId]
  /\ nextId' = nextId + 1
  /\ UNCHANGED <<friends, shares, inbox, now, vouched>>

InsertRecipients(w) ==
  /\ pc[w] = "shared"
  /\ Goto(w, "delivered")
  /\ job' = [job EXCEPT ![w].rows =
       {[share |-> job[w].share, recipient |-> i, opened |-> 0, deleted |-> 0] :
          i \in job[w].to}]
  /\ UNCHANGED <<friends, shares, inbox, nextId, now, vouched>>

CommitShare(w) ==
  /\ pc[w] = "delivered"
  /\ shares' = shares \cup {[id |-> job[w].share, sender |-> job[w].sender,
                             to |-> job[w].to, vouched |-> vouched[w]]}
  /\ inbox' = inbox \cup job[w].rows
  /\ Answer(w)
  /\ UNCHANGED <<friends, nextId, now>>

\* A statement fails, such as a share of an unknown experience: ROLLBACK.
AbortShare(w) ==
  /\ pc[w] # "idle"
  /\ Answer(w)
  /\ UNCHANGED <<friends, shares, inbox, nextId, now>>

------------------------------------------------------------------------------
(* The recipient's side.                                                   *)

\* The rows that WHERE share_id AND recipient_id AND recipient_deleted_at IS
\* NULL selects: at most one.
Rows(u, id) ==
  {r \in inbox : r.share = id /\ r.recipient = u /\ r.deleted = 0}

\* Mutant: opened_at = now().
OpenAgain(u, id) ==
  /\ inbox' = (inbox \ Rows(u, id)) \cup {[r EXCEPT !.opened = now] : r \in Rows(u, id)}
  /\ UNCHANGED <<friends, shares, nextId, now, pc, job, vouched>>

\* opened_at = COALESCE(opened_at, now()).
OpenShare(u, id) ==
  /\ inbox' = (inbox \ Rows(u, id)) \cup
       {[r EXCEPT !.opened = IF r.opened = 0 THEN now ELSE r.opened] : r \in Rows(u, id)}
  /\ UNCHANGED <<friends, shares, nextId, now, pc, job, vouched>>

SoftDelete(u, id) ==
  /\ inbox' = (inbox \ Rows(u, id)) \cup {[r EXCEPT !.deleted = now] : r \in Rows(u, id)}
  /\ UNCHANGED <<friends, shares, nextId, now, pc, job, vouched>>

------------------------------------------------------------------------------
\* acceptRequest, and removeFriend, of other handlers.
ChangeFriends(a, b) ==
  /\ a # b
  /\ \/ friends' = friends \cup {{a, b}}
     \/ friends' = friends \ {{a, b}}
  /\ UNCHANGED shareVars
  /\ vouched' = [w \in Handler |->
       \/ vouched[w]
       \/ pc[w] # "idle" /\ AllFriends(job[w].sender, job[w].to)']

Tick ==
  /\ now < MaxTime
  /\ now' = now + 1
  /\ UNCHANGED <<friends, shares, inbox, nextId, pc, job, vouched>>

Step(w) ==
  \/ CheckFriends(w) \/ InsertShare(w) \/ InsertRecipients(w) \/ CommitShare(w)

Next ==
  \/ \E w \in Handler :
       \/ \E s \in User, to \in SUBSET Id : AskShare(w, s, to)
       \/ Step(w)
       \/ AbortShare(w)
  \/ \E u \in User, s \in shares : OpenShare(u, s.id) \/ SoftDelete(u, s.id)
  \/ \E a, b \in User : ChangeFriends(a, b)
  \/ Tick

Spec == Init /\ [][Next]_vars

------------------------------------------------------------------------------
(* Properties.                                                             *)

\* Property 22, R9.3: a share is there with exactly one delivery for every
\* recipient it was asked for, or there is neither (createShareAtomic).
AllOrNone ==
  /\ \A s \in shares : {r.recipient : r \in {x \in inbox : x.share = s.id}} = s.to
  /\ \A r, x \in inbox :
       r.share = x.share /\ r.recipient = x.recipient => r = x
  /\ \A r \in inbox : \E s \in shares : s.id = r.share

\* Property 22: although friendships end between the check and the COMMIT,
\* every share went to people who were all friends of the sender at one and
\* the same moment of the request.
SharedAmongFriends == \A s \in shares : s.vouched /\ s.to \subseteq User

Settling ==
  /\ shares \subseteq shares'
  /\ \A r \in inbox : \E x \in inbox' :
       /\ x.share = r.share /\ x.recipient = r.recipient
       /\ r.opened # 0 => x.opened = r.opened
       /\ r.deleted # 0 => x = r

\* R9.9, R9.10: whatever is repeated in whatever order, the first opening
\* stands, a deleted delivery changes no more, and no share or delivery goes.
DeliverySettles == [][Settling]_vars
==============================================================================
