-------------------------------- MODULE Phone --------------------------------
(***************************************************************************)
(* The mobile application: the token it keeps in two places, the cache of  *)
(* its queries, and one of its screens that change something, over a       *)
(* network that loses requests and answers.                                *)
(*                                                                         *)
(* Every async function of the source that is under way has a slot.  What  *)
(* stands between two awaits is one step, and any other function may go on *)
(* in between: sessionStore.ts writes secure storage and its own `token`   *)
(* in two steps, and client.ts reads the former while screens follow the   *)
(* latter.  React Query is modelled from how the screens use it: one fetch *)
(* of a key counts, one more try after a failure, and what was cancelled   *)
(* still runs.                                                             *)
(*                                                                         *)
(* The screens differ in what they offer, when, and in what they do with   *)
(* an answer; `kind` says which one the user goes to:                      *)
(*   note        NoteControl, and RatingControl, which is the same          *)
(*   completion  CompletionControls, of the same ExperienceDetailScreen    *)
(*   friend      a row of FriendsListScreen, with FriendsSearchScreen      *)
(*   delivery    a row of InboxScreen                                      *)
(*   name        the display name of ProfileScreen                         *)
(*   share       ShareComposerScreen                                       *)
(***************************************************************************)
EXTENDS Naturals, FiniteSets

CONSTANTS
  User, Token, Owner,   \* whose session a token is
  Body,                 \* what a note, a completion or a name may hold
  Kind,                 \* screens
  Usable,               \* bound: sessions there may be, for each of them
  Slot,                 \* functions under way at once
  None

ASSUME PhoneAssumption ==
  /\ Owner \in [Token -> User]
  /\ None \notin Token \cup Body \cup Slot \cup User
  /\ Kind \subseteq {"note", "completion", "friend", "delivery", "name", "share"}
  /\ Usable \in [Kind -> SUBSET Token]

VARIABLES
  alive, issued,   \* sessions of the server, and those there ever were
  stored,          \* what each user has there: a row, or None
  storage,         \* secure storage: dwt.session.token
  memory,          \* `token` of the session store; the navigator follows it
  open,            \* the screen is mounted
  kind,            \* which one
  sent,            \* justSent: the composer is done
  entry,           \* what the cache has for its query
  failed,          \* isError of that query
  fetching,        \* slot of the fetch that counts
  busy,            \* slots of the mutations it awaits
  task,            \* what runs in each slot
  ejected,         \* history: a 401 has ended a session since the last clear()
  doubt            \* history: an outcome the screen does not know

server == <<alive, issued, stored>>
session == <<storage, memory>>
query == <<entry, failed, fetching>>
rest == <<kind, ejected, doubt>>
screen == <<open, sent, busy>>
vars == <<server, session, screen, query, task, rest>>

------------------------------------------------------------------------------
Value == Body \cup {None, "incoming", "outgoing", "friend",
                    "unopened", "opened", "sent", "sent twice"}
Entry == [value : Value, owner : User]
Idle == [kind |-> "idle"]
Op == [op : {"put", "patch"}, body : Body]
      \cup [op : {"delete", "accept", "decline", "remove", "send", "open"}]

\* What a user has before the application is started: None is a row that is
\* not there, or the name given at registration.
First == CASE kind = "friend" -> {None, "incoming", "friend"}
           [] kind = "delivery" -> {"unopened"}
           [] OTHER -> {None}

\* An apiRequest and what its caller does next.
Request(what, op, tries) ==
  [kind |-> what, stage |-> "token", op |-> op, tries |-> tries,
   token |-> None, reply |-> "none", got |-> None]

Tasks ==
  {Idle}
  \cup [kind : {"hydrate"}, stage : {"read", "publish"}, token : Token \cup {None}]
  \cup [kind : {"signIn", "fetch", "mutate", "logout"},
        stage : {"token", "sent", "reply", "unpublish", "publish", "out"},
        op : Op \cup {None},
        token : Token \cup {None},
        tries : 0 .. 1,
        reply : {"none", "ok", "not_found", "refused", "error"},
        got : Entry \cup {None}]

TypeOK ==
  /\ alive \subseteq issued /\ issued \subseteq Token
  /\ stored \in [User -> Value]
  /\ storage \in Token \cup {None} /\ memory \in Token \cup {None}
  /\ open \in BOOLEAN /\ sent \in BOOLEAN /\ failed \in BOOLEAN
  /\ kind \in Kind
  /\ entry \in Entry \cup {None}
  /\ fetching \in Slot \cup {None} /\ busy \subseteq Slot
  /\ task \in [Slot -> Tasks]
  /\ ejected \in BOOLEAN /\ doubt \in BOOLEAN

Init ==
  /\ alive = {} /\ issued = {}
  /\ kind \in Kind
  /\ \E v \in First : stored = [u \in User |-> v]
  /\ storage = None /\ memory = None
  /\ open = FALSE /\ sent = FALSE
  /\ entry = None /\ failed = FALSE /\ fetching = None
  /\ busy = {}
  /\ task = [s \in Slot |-> Idle]
  /\ ejected = FALSE /\ doubt = FALSE

Run(s, t) == task' = [task EXCEPT ![s] = t]
Step(s, stage) == task' = [task EXCEPT ![s].stage = stage]
At(s, what, stage) == task[s].kind \in what /\ task[s].stage = stage
Calls == {"signIn", "fetch", "mutate", "logout"}

\* The navigator shows the sign-in screens: everything else is unmounted.
Unmount == open' = FALSE /\ sent' = FALSE /\ busy' = {}

------------------------------------------------------------------------------
(* The server, as far as a phone can tell.                                 *)

\* note/repo.ts and rating/repo.ts upsert, and a DELETE answers whether there
\* was a row; the UPDATE of a display name finds its row.
NoteAccepts(op, v) == op.op = "put" \/ v # None

\* completion/repo.ts inserts or updates.
CompletionAccepts(op, v) == IF op.op = "put" THEN v = None ELSE v # None

FriendAccepts(op, v) ==
  \/ op.op = "send" /\ v = None
  \/ op.op \in {"accept", "decline"} /\ v = "incoming"
  \/ op.op = "remove" /\ v = "friend"

\* A delivery may be opened again, and deleted once.
DeliveryAccepts(op, v) == v # None

Accepts(op, v) ==
  CASE kind \in {"note", "name"} -> NoteAccepts(op, v)
    [] kind = "completion" -> CompletionAccepts(op, v)
    [] kind = "friend" -> FriendAccepts(op, v)
    [] kind = "delivery" -> DeliveryAccepts(op, v)
    [] kind = "share" -> TRUE

After(op, v) ==
  CASE op.op \in {"put", "patch"} -> op.body
    [] op.op \in {"delete", "decline", "remove"} -> None
    [] op.op = "accept" -> "friend"
    [] op.op = "open" -> "opened"
    [] op.op = "send" -> IF kind = "friend" THEN "outgoing"
                         ELSE IF v = None THEN "sent" ELSE "sent twice"

Reply(s, r) ==
  task' = [task EXCEPT ![s].stage = "reply", ![s].reply = r, ![s].token = None]

Serve(s) ==
  /\ At(s, Calls, "sent")
  /\ LET t == task[s]
         u == Owner[t.token]
     IN  \/ /\ t.kind = "signIn" \/ t.token \notin alive
            /\ Reply(s, "refused")
            /\ UNCHANGED server
         \/ /\ t.kind = "signIn"
            /\ \E new \in Usable[kind] \ issued :
                 /\ issued' = issued \cup {new} /\ alive' = alive \cup {new}
                 /\ Run(s, [t EXCEPT !.stage = "reply", !.reply = "ok", !.token = new])
            /\ UNCHANGED stored
         \/ /\ t.kind = "fetch" /\ t.token \in alive
            /\ Run(s, [t EXCEPT !.stage = "reply", !.reply = "ok", !.token = None,
                                !.got = [value |-> stored[u], owner |-> u]])
            /\ UNCHANGED server
         \/ /\ t.kind = "mutate" /\ t.token \in alive
            /\ \/ /\ Accepts(t.op, stored[u])
                  /\ stored' = [stored EXCEPT ![u] = After(t.op, @)]
                  /\ Run(s, [t EXCEPT !.stage = "reply", !.reply = "ok", !.token = None,
                       !.got = IF kind = "name" THEN [value |-> t.op.body, owner |-> u] ELSE None])
               \/ \* a recipient is no friend any more
                  /\ ~Accepts(t.op, stored[u]) \/ kind = "share"
                  /\ Reply(s, "not_found")
                  /\ UNCHANGED stored
            /\ UNCHANGED <<alive, issued>>
         \/ /\ t.kind = "logout" /\ t.token \in alive
            /\ Reply(s, "ok")
            /\ alive' = alive \ {t.token}
            /\ UNCHANGED <<issued, stored>>
  /\ UNCHANGED <<session, screen, query, rest>>

\* A session expires.
Expire(t) ==
  /\ t \in alive
  /\ alive' = alive \ {t}
  /\ UNCHANGED <<issued, stored, session, screen, query, task, rest>>

------------------------------------------------------------------------------
(* api/client.ts: apiRequest.                                              *)

\* The request carries what secure storage holds by now.
Send(s) ==
  /\ At(s, Calls, "token")
  /\ Run(s, [task[s] EXCEPT !.stage = "sent", !.token = storage])
  /\ UNCHANGED <<server, session, screen, query, rest>>

\* The network loses the request, or its answer.
Lose(s) ==
  /\ \/ At(s, Calls, "sent")
     \/ At(s, Calls, "reply") /\ task[s].reply \in {"ok", "not_found"}
  /\ doubt' = (doubt \/ task[s].kind = "mutate")
  /\ Run(s, [task[s] EXCEPT !.stage = "reply", !.reply = "error", !.token = None, !.got = None])
  /\ UNCHANGED <<server, session, screen, query, kind, ejected>>

\* A 401, whatever token the request carried, deletes the stored one, and
\* notifyUnauthorized calls clearToken, which deletes it again: one step.
Refused(s) ==
  /\ At(s, Calls, "reply") /\ task[s].reply = "refused"
  /\ storage' = None
  /\ Step(s, "unpublish")
  /\ UNCHANGED <<server, memory, screen, query, rest>>

\* Then the navigator goes to the sign-in screens; the cache stays.
Unpublish(s) ==
  /\ At(s, Calls, "unpublish")
  /\ memory' = None /\ Unmount
  /\ ejected' = TRUE
  /\ Reply(s, "error")
  /\ UNCHANGED <<server, storage, query, kind, doubt>>

\* How an apiRequest ends for its caller.
Fails(s) == At(s, Calls, "reply") /\ task[s].reply = "error"
Ends(s) == At(s, Calls, "reply") /\ task[s].reply # "refused"

------------------------------------------------------------------------------
(* The session.                                                            *)

\* App.tsx: loadFromStorage, in two steps.
Hydrate(s) ==
  \/ /\ At(s, {"hydrate"}, "read")
     /\ Run(s, [task[s] EXCEPT !.stage = "publish", !.token = storage])
     /\ UNCHANGED memory
  \/ /\ At(s, {"hydrate"}, "publish")
     /\ memory' = task[s].token
     /\ Run(s, Idle)

Running(what) == \E s \in Slot : task[s].kind = what

\* Mutant: `submitting` is not looked at.
SignInTwice(s) ==
  /\ task[s] = Idle /\ memory = None
  /\ ~Running("hydrate")
  /\ Run(s, Request("signIn", None, 0))
  /\ UNCHANGED <<server, session, screen, query, rest>>

\* Login, or registration: nobody types as fast as storage is read.
SignIn(s) ==
  /\ task[s] = Idle /\ memory = None
  /\ ~Running("signIn") /\ ~Running("hydrate")
  /\ Run(s, Request("signIn", None, 0))
  /\ UNCHANGED <<server, session, screen, query, rest>>

\* setToken writes secure storage, then `token`.
SignedIn(s) ==
  \/ /\ At(s, {"signIn"}, "reply") /\ task[s].reply = "ok"
     /\ storage' = task[s].token
     /\ Step(s, "publish")
     /\ UNCHANGED memory
  \/ /\ At(s, {"signIn"}, "publish")
     /\ memory' = task[s].token
     /\ Run(s, Idle)
     /\ UNCHANGED storage

NotSignedIn(s) ==
  /\ task[s].kind = "signIn" /\ Fails(s)
  /\ Run(s, Idle)
  /\ UNCHANGED <<server, session, screen, query, rest>>

\* The button of ProfileScreen.
Logout(s) ==
  /\ task[s] = Idle /\ memory # None
  /\ ~Running("logout")
  /\ Run(s, Request("logout", None, 0))
  /\ UNCHANGED <<server, session, screen, query, rest>>

\* onSettled, however it went: clearToken deletes the stored token,
Settle(s) ==
  /\ task[s].kind = "logout" /\ Ends(s)
  /\ storage' = None
  /\ Step(s, "out")
  /\ UNCHANGED <<server, memory, screen, query, rest>>

NameUnderWay == kind = "name" /\ Running("mutate")

\* Mutant: onSuccess in place of onSettled for the cache.
OutKeeping(s) ==
  /\ At(s, {"logout"}, "out")
  /\ memory' = None /\ Unmount
  /\ Run(s, Idle)
  /\ IF task[s].reply = "ok"
     THEN entry' = None /\ failed' = FALSE /\ fetching' = None
     ELSE UNCHANGED query
  /\ ejected' = FALSE /\ doubt' = NameUnderWay
  /\ UNCHANGED <<server, storage, kind>>

\* then `token`; and queryClient.clear() forgets every query.  It stops no
\* mutation: a name that was being saved gets into the cache when it is answered.
Out(s) ==
  /\ At(s, {"logout"}, "out")
  /\ memory' = None /\ Unmount
  /\ Run(s, Idle)
  /\ entry' = None /\ failed' = FALSE /\ fetching' = None
  /\ ejected' = FALSE /\ doubt' = NameUnderWay
  /\ UNCHANGED <<server, storage, kind>>

\* The system kills the application, and the user starts it again.  Its slots
\* are all alike.
Restart ==
  /\ task' = [x \in Slot |-> IF x = CHOOSE s \in Slot : TRUE
                THEN [kind |-> "hydrate", stage |-> "read", token |-> None] ELSE Idle]
  /\ memory' = None /\ Unmount
  /\ entry' = None /\ failed' = FALSE /\ fetching' = None
  /\ ejected' = FALSE /\ doubt' = FALSE
  /\ UNCHANGED <<server, storage, kind>>

------------------------------------------------------------------------------
(* The screen: its query,                                                  *)

Detail == {"note", "completion"}
\* Tabs stay mounted, and so does the list below the screens of its stack.
Stays == {"friend", "name"}

\* It mounts: data of any age is displayed and fetched again, and a fetch that
\* is under way is joined.  A share is one of this visit: there is none yet.
Visit(s) ==
  /\ memory # None /\ ~open
  /\ task[s] = Idle
  /\ open' = TRUE
  /\ IF fetching # None THEN UNCHANGED <<task, fetching>>
     ELSE Run(s, Request("fetch", None, 0)) /\ fetching' = s
  /\ IF kind = "share"
     THEN /\ stored' = [stored EXCEPT ![Owner[memory]] = None]
          /\ doubt' = (doubt \/ Running("mutate"))
     ELSE UNCHANGED <<stored, doubt>>
  /\ UNCHANGED <<alive, issued, session, sent, busy, entry, failed, kind, ejected>>

\* The user goes back: the control and what it knew are gone.
Leave ==
  /\ open /\ kind \notin Stays
  /\ Unmount
  /\ UNCHANGED <<server, session, query, task, rest>>

\* Back from the search to the list: only what the search awaits is gone.
LeaveSearch(s) ==
  /\ kind = "friend" /\ s \in busy /\ task[s].op = [op |-> "send"]
  /\ busy' = busy \ {s}
  /\ UNCHANGED <<server, session, open, sent, query, task, rest>>

\* gcTime: five minutes without an observer.
Collect ==
  /\ ~open /\ fetching = None /\ entry # None
  /\ entry' = None /\ failed' = FALSE
  /\ UNCHANGED <<server, session, screen, fetching, task, rest>>

\* The query function returns: fetchOrNullOnCode makes null of not_found.
Fetched(s) ==
  /\ At(s, {"fetch"}, "reply") /\ task[s].reply = "ok"
  /\ Run(s, Idle)
  /\ IF fetching = s
     THEN entry' = task[s].got /\ failed' = FALSE /\ fetching' = None
     ELSE UNCHANGED query                           \* cancelled meanwhile
  /\ UNCHANGED <<server, session, screen, rest>>

\* retry: 1 in App.tsx, and false for a profile.
MaxRetries == IF kind = "name" THEN 0 ELSE 1

\* isError hides a control of the experience even if there is data.
NotFetched(s) ==
  /\ task[s].kind = "fetch" /\ Fails(s)
  /\ IF fetching = s /\ task[s].tries < MaxRetries
     THEN Run(s, Request("fetch", None, task[s].tries + 1)) /\ UNCHANGED query
     ELSE /\ Run(s, Idle)
          /\ failed' = (failed \/ fetching = s)
          /\ fetching' = IF fetching = s THEN None ELSE fetching
          /\ UNCHANGED entry
  /\ busy' = IF failed' /\ ~failed /\ kind \in Detail THEN {} ELSE busy
  /\ UNCHANGED <<server, session, open, sent, rest>>

\* The button of FriendsListScreen when there is nothing to show.
Retry(s) ==
  /\ kind = "friend" /\ open /\ entry = None /\ failed /\ fetching = None
  /\ task[s] = Idle
  /\ Run(s, Request("fetch", None, 0))
  /\ fetching' = s
  /\ UNCHANGED <<server, session, screen, entry, failed, rest>>

------------------------------------------------------------------------------
(* and what it offers.                                                     *)

\* The experience and the inbox hide their data on an error, the others do not.
Shown == entry # None /\ (failed => kind \notin Detail \cup {"delivery"})

NoteOffers(op) == op.op = "put" \/ (op.op = "delete" /\ entry.value # None)

CompletionOffers(op) ==
  IF entry.value = None THEN op.op = "put" ELSE op.op \in {"patch", "delete"}

\* buildRows: a row of the list, by the section it is in.
FriendOffers(op) ==
  \/ op.op \in {"accept", "decline"} /\ entry.value = "incoming"
  \/ op.op = "remove" /\ entry.value = "friend"

\* A hit of the search does not say what there is already, and the text typed
\* anew forgets what was sent.
SearchOffers(op) == op.op = "send"

DeliveryOffers(op) ==
  \/ op.op = "open" /\ entry.value = "unopened"
  \/ op.op = "delete" /\ entry.value # None

\* handleSave: the name that is displayed is not sent.
NameOffers(op) == op.op = "put" /\ op.body # entry.value

ShareOffers(op) == op.op = "send" /\ ~sent

Offers(op) ==
  CASE kind = "note" -> NoteOffers(op)
    [] kind = "completion" -> CompletionOffers(op)
    [] kind = "friend" -> FriendOffers(op) \/ SearchOffers(op)
    [] kind = "delivery" -> DeliveryOffers(op)
    [] kind = "name" -> NameOffers(op)
    [] kind = "share" -> ShareOffers(op)

\* `busy`, or isPending of the mutation a button belongs to.
Blocks(pending, op) ==
  \/ kind \notin {"friend", "delivery"}
  \/ pending.op = op.op
  \/ {pending.op, op.op} = {"accept", "decline"}

Press(s, op) ==
  /\ open /\ Shown /\ Offers(op)
  /\ \A x \in busy : ~Blocks(task[x].op, op)
  /\ task[s] = Idle
  /\ Run(s, Request("mutate", op, 0))
  /\ busy' = busy \cup {s}
  /\ UNCHANGED <<server, session, open, sent, query, rest>>

\* A note that was deleted already counts as deleted; nothing else does.
GoneIsDone(t) == kind = "note" /\ t.op.op = "delete" /\ t.reply = "not_found"

Done(s) ==
  /\ At(s, {"mutate"}, "reply")
  /\ task[s].reply = "ok" \/ GoneIsDone(task[s])

Release(s) == busy' = busy \ {s}

\* Mutant: a fetch that is under way is not cancelled.
InvalidateJoins(s) ==
  /\ Done(s) /\ kind \notin {"name", "share"}
  /\ Release(s)
  /\ IF open /\ entry # None /\ fetching = None
     THEN Run(s, Request("fetch", None, 0)) /\ fetching' = s
     ELSE Run(s, Idle) /\ UNCHANGED fetching
  /\ doubt' = (doubt \/ (fetching # None /\ ~(open /\ entry # None)))
  /\ UNCHANGED <<server, session, open, sent, entry, failed, kind, ejected>>

\* onMutated, onSuccess: the query is invalidated; if a screen observes it and it
\* has data, it is fetched anew.  With no data yet the fetch under way is joined.
Invalidate(s) ==
  /\ Done(s) /\ kind \notin {"name", "share"}
  /\ Release(s)
  /\ IF open /\ entry # None
     THEN Run(s, Request("fetch", None, 0)) /\ fetching' = s
     ELSE Run(s, Idle) /\ UNCHANGED fetching
  /\ doubt' = (doubt \/ (fetching # None /\ ~(open /\ entry # None)))
  /\ UNCHANGED <<server, session, open, sent, entry, failed, kind, ejected>>

\* setQueryData with the answer, whose key has the id of the user: nobody sees
\* it where the screen is not mounted.  A fetch under way goes on, and may bring
\* the old name back.
NameSaved(s) ==
  /\ Done(s) /\ kind = "name"
  /\ Release(s)
  /\ Run(s, Idle)
  /\ IF open /\ task[s].got.owner = Owner[memory]
     THEN entry' = task[s].got /\ failed' = FALSE
     ELSE UNCHANGED <<entry, failed>>
  /\ doubt' = (doubt \/ fetching # None)
  /\ UNCHANGED <<server, session, open, sent, fetching, kind, ejected>>

\* justSent, until the composer closes itself.
Sent(s) ==
  /\ Done(s) /\ kind = "share"
  /\ Release(s)
  /\ Run(s, Idle)
  /\ sent' = (sent \/ s \in busy)
  /\ UNCHANGED <<server, session, open, query, rest>>

\* The control tells of an error, if it does, and fetches nothing.
NotMutated(s) ==
  /\ task[s].kind = "mutate"
  /\ \/ Fails(s)
     \/ task[s].stage = "reply" /\ task[s].reply = "not_found" /\ ~Done(s)
  /\ Release(s)
  /\ Run(s, Idle)
  /\ UNCHANGED <<server, session, open, sent, query, rest>>

------------------------------------------------------------------------------
Progress(s) ==
  \/ Serve(s) \/ Send(s) \/ Refused(s) \/ Unpublish(s)
  \/ Hydrate(s) /\ UNCHANGED <<server, storage, screen, query, rest>>
  \/ SignedIn(s) /\ UNCHANGED <<server, screen, query, rest>>
  \/ NotSignedIn(s) \/ Settle(s) \/ Out(s)
  \/ Fetched(s) \/ NotFetched(s)
  \/ Invalidate(s) \/ NameSaved(s) \/ Sent(s) \/ NotMutated(s)

Next ==
  \/ \E s \in Slot :
       \/ Progress(s)
       \/ SignIn(s) \/ Logout(s) \/ Visit(s) \/ Retry(s) \/ LeaveSearch(s)
       \/ Lose(s)
       \/ \E op \in Op : Press(s, op)
  \/ \E t \in Token : Expire(t)
  \/ Leave \/ Collect \/ Restart

Spec == Init /\ [][Next]_vars

------------------------------------------------------------------------------
(* Properties.                                                             *)

\* What a signed-in user sees of the cache is theirs: logout leaves nothing of
\* the previous user behind, and no late answer brings it back.  A 401 does:
\* it clears the token, and not the cache.
CacheIsOwn ==
  memory # None /\ entry # None /\ ~ejected => entry.owner = Owner[memory]

\* No request of one user's screens carries another user's token.
NeverCrossed == memory # None /\ storage # None => memory = storage

\* What the screen says there is.
Displayed ==
  IF kind = "share" THEN (IF sent THEN "sent" ELSE None) ELSE entry.value

\* Once the screen is at rest it shows what the user who is signed in has; a
\* composer has sent what it says it has, and once.  Mutations and fetches of
\* this phone may overlap, but nothing is promised after a 401, nor once `doubt`
\* was raised, until a logout or a restart clears the cache: by a mutation whose
\* request or answer was lost, a name saved beside a fetch or across a logout, a
\* composer opened while a share is under way, and an invalidation beside a fetch
\* of a query that no screen observes or that has no data yet.
SettledShows ==
  /\ open /\ memory # None /\ Shown /\ ~failed /\ fetching = None
  /\ busy = {} /\ ~ejected
  /\ ~Running("mutate") /\ ~doubt
  => Displayed = stored[Owner[memory]]
==============================================================================
