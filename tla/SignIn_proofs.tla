---------------------------- MODULE SignIn_proofs ----------------------------
(***************************************************************************)
(* What TLAPS proves of signing in, on either side of the wire: of Phone,  *)
(* with its specification Spec, and of Login, with LoginSpec.  The two     *)
(* share no variable, and no theorem here is about both.                   *)
(*                                                                         *)
(* Phone, for any users, sessions, screens and number of functions under   *)
(* way: no token is mixed up with another, and a user who signs in after a *)
(* logout sees nothing of the one before.  The invariant has two halves.   *)
(* One says who may write the token: at most one function brings somebody  *)
(* in, and only while nobody is.  The other follows the fetch that counts, *)
(* whose answer becomes the cache.  A second invariant, ShownInv, says of  *)
(* every mutation and fetch under way what it knows of the row, so that a  *)
(* screen at rest shows what is stored.                                    *)
(*                                                                         *)
(* Login, for any addresses, any number of handlers and any clock:         *)
(* accounts are whole, what failures lock, what a lock rests on, and how   *)
(* many wrong passwords a flood of logins gets checked.  Each rests on     *)
(* what a handler has under way: its time of failure is one of the         *)
(* counter's, and whoever reads the counter last sees every score.         *)
(***************************************************************************)
EXTENDS Phone, Login, FiniteSetTheorems, TLAPS

CallStage == {"token", "sent", "reply", "unpublish", "publish", "out"}
Answers == {"none", "ok", "not_found", "refused", "error"}
Call == [kind : {"signIn", "fetch", "mutate", "logout"}, stage : CallStage,
         op : Op \cup {None}, token : Token \cup {None}, tries : 0 .. 1,
         reply : Answers, got : Entry \cup {None}]
Hydration == [kind : {"hydrate"}, stage : {"read", "publish"}, token : Token \cup {None}]

Enters(t) == t.kind \in {"signIn", "hydrate"}

\* Only one function brings a user in, while there is none.
OneEnters == \A s \in Slot : Enters(task[s]) =>
  memory = None /\ \A r \in Slot \ {s} : ~Enters(task[r])

\* What it is about to publish is stored, unless a 401 or a logout deleted it.
Published == \A s \in Slot : Enters(task[s]) /\ task[s].stage = "publish" =>
  storage \in {task[s].token, None}

Mounted == open => memory # None

\* After a logout, or a restart, there is no cache.
Cleared == ~ejected /\ memory = None => entry = None /\ fetching = None

Own(got) == got.owner = Owner[memory]

\* A task that may become the cache asks for the user who is signed in.
AsksForOwn(t) ==
  /\ t.token \in {None, memory}
  /\ t.stage = "reply" /\ t.reply = "ok" => Own(t.got)

FetchCounts ==
  fetching # None =>
    /\ task[fetching].kind = "fetch"
    /\ ~ejected /\ memory # None => AsksForOwn(task[fetching])

\* A mutation knows what it asks for; of a name, only a new one, and a share is
\* only sent.
Meant(t) == t.kind = "mutate" =>
  t.op \in Op /\ (kind = "name" => t.op.op = "put") /\ (kind = "share" => t.op.op = "send")

MutationsMeant == \A s \in Slot : Meant(task[s])

IInv == /\ TypeOK /\ MutationsMeant
        /\ OneEnters /\ Published /\ NeverCrossed
        /\ Mounted /\ Cleared /\ CacheIsOwn /\ FetchCounts

------------------------------------------------------------------------------
(* The tasks.                                                              *)

LEMMA TasksAre == Tasks = {Idle} \cup Hydration \cup Call
  BY DEF Tasks, Hydration, Call, CallStage, Answers

LEMMA TaskOf ==
  ASSUME TypeOK, NEW s \in Slot
  PROVE  /\ task[s].kind \in Calls => task[s] \in Call
         /\ task[s].kind = "hydrate" => task[s] \in Hydration
         /\ task = [x \in Slot |-> task[x]]
<1>1. task[s] \in {Idle} \cup Hydration \cup Call  BY TasksAre DEF TypeOK
<1>2. Idle.kind = "idle"  BY DEF Idle
<1>3. \A t \in Hydration : t.kind = "hydrate"  BY DEF Hydration
<1>4. \A t \in Call : t.kind \in Calls  BY DEF Call, Calls
<1>5. task = [x \in Slot |-> task[x]]  BY DEF TypeOK
<1> QED  BY <1>1, <1>2, <1>3, <1>4, <1>5 DEF Calls

\* A call that has gone on.
Made(t, stage, token, reply, got) ==
  [kind |-> t.kind, stage |-> stage, op |-> t.op, token |-> token, tries |-> t.tries,
   reply |-> reply, got |-> got]

LEMMA MadeIsCall ==
  ASSUME NEW t \in Call, NEW stage \in CallStage, NEW token \in Token \cup {None},
         NEW reply \in Answers, NEW got \in Entry \cup {None}
  PROVE  /\ Made(t, stage, token, reply, got) \in Call
         /\ Made(t, stage, token, reply, got) \in Tasks
         /\ Made(t, stage, token, reply, got).kind = t.kind
         /\ Made(t, stage, token, reply, got).stage = stage
         /\ Made(t, stage, token, reply, got).token = token
         /\ Made(t, stage, token, reply, got).reply = reply
         /\ Made(t, stage, token, reply, got).got = got
<1>1. Made(t, stage, token, reply, got) \in Call  BY DEF Made, Call
<1> QED  BY <1>1, TasksAre DEF Made

LEMMA CallIs ==
  ASSUME NEW t \in Call
  PROVE  /\ t = Made(t, t.stage, t.token, t.reply, t.got)
         /\ t.kind \in Calls /\ t.stage \in CallStage /\ t.token \in Token \cup {None}
         /\ t.reply \in Answers /\ t.got \in Entry \cup {None} /\ t.op \in Op \cup {None}
         /\ t.tries \in 0 .. 1
  BY DEF Call, Made, Calls

\* What the model writes with EXCEPT, one field at a time and then several.
LEMMA StageGoesOn ==
  ASSUME NEW t \in Call, NEW stage
  PROVE  [t EXCEPT !.stage = stage] = Made(t, stage, t.token, t.reply, t.got)
<1>1. t = Made(t, t.stage, t.token, t.reply, t.got)  BY CallIs
<1>2. [Made(t, t.stage, t.token, t.reply, t.got) EXCEPT !.stage = stage]
        = Made(t, stage, t.token, t.reply, t.got)
  BY DEF Made
<1> QED  BY <1>1, <1>2

LEMMA TokenGoesOn ==
  ASSUME NEW t \in Call, NEW stage, NEW token
  PROVE  [t EXCEPT !.stage = stage, !.token = token] = Made(t, stage, token, t.reply, t.got)
<1>1. [t EXCEPT !.stage = stage, !.token = token]
        = [[t EXCEPT !.stage = stage] EXCEPT !.token = token]
  OBVIOUS
<1>2. [Made(t, stage, t.token, t.reply, t.got) EXCEPT !.token = token]
        = Made(t, stage, token, t.reply, t.got)
  BY DEF Made
<1> QED  BY <1>1, <1>2, StageGoesOn

LEMMA ReplyGoesOn ==
  ASSUME NEW t \in Call, NEW stage, NEW reply, NEW token
  PROVE  [t EXCEPT !.stage = stage, !.reply = reply, !.token = token]
           = Made(t, stage, token, reply, t.got)
<1>1. [t EXCEPT !.stage = stage, !.reply = reply, !.token = token]
        = [[[t EXCEPT !.stage = stage] EXCEPT !.reply = reply] EXCEPT !.token = token]
  OBVIOUS
<1>2. [Made(t, stage, t.token, t.reply, t.got) EXCEPT !.reply = reply]
        = Made(t, stage, t.token, reply, t.got)
  BY DEF Made
<1>3. [Made(t, stage, t.token, reply, t.got) EXCEPT !.token = token]
        = Made(t, stage, token, reply, t.got)
  BY DEF Made
<1> QED  BY <1>1, <1>2, <1>3, StageGoesOn

LEMMA SlotGoesOn ==
  ASSUME TypeOK, NEW s \in Slot, task[s] \in Call, NEW stage, NEW reply
  PROVE  /\ Step(s, stage) => task' = [task EXCEPT ![s] =
              Made(task[s], stage, task[s].token, task[s].reply, task[s].got)]
         /\ Reply(s, reply) => task' = [task EXCEPT ![s] =
              Made(task[s], "reply", None, reply, task[s].got)]
<1>1. [task EXCEPT ![s].stage = stage] = [task EXCEPT ![s] = [task[s] EXCEPT !.stage = stage]]
  BY DEF TypeOK
<1>2. [task EXCEPT ![s].stage = "reply", ![s].reply = reply, ![s].token = None]
        = [task EXCEPT ![s] = [task[s] EXCEPT !.stage = "reply", !.reply = reply, !.token = None]]
  BY DEF TypeOK
<1>3. [task[s] EXCEPT !.stage = stage]
        = Made(task[s], stage, task[s].token, task[s].reply, task[s].got)
  BY StageGoesOn
<1>4. [task[s] EXCEPT !.stage = "reply", !.reply = reply, !.token = None]
        = Made(task[s], "reply", None, reply, task[s].got)
  BY ReplyGoesOn
<1> QED  BY <1>1, <1>2, <1>3, <1>4 DEF Step, Reply

LEMMA RequestIsCall ==
  ASSUME NEW what \in {"signIn", "fetch", "mutate", "logout"}, NEW op \in Op \cup {None},
         NEW again \in 0 .. 1
  PROVE  /\ Request(what, op, again) \in Call /\ Request(what, op, again) \in Tasks
         /\ Request(what, op, again).kind = what /\ Request(what, op, again).op = op
         /\ Request(what, op, again).stage = "token"
         /\ Request(what, op, again).token = None
         /\ Request(what, op, again).reply = "none"
<1>1. Request(what, op, again) \in Call  BY DEF Request, Call, CallStage, Answers
<1> QED  BY <1>1, TasksAre DEF Request

LEMMA IdleIsTask == Idle \in Tasks /\ Idle.kind = "idle" /\ ~Enters(Idle) /\ Meant(Idle)
  BY TasksAre DEF Idle, Enters, Meant

------------------------------------------------------------------------------
(* Steps of one slot.                                                      *)

\* What other slots hold to does not change; the stored token may go.
LEMMA SlotStep ==
  ASSUME IInv, NEW s \in Slot, NEW t \in Tasks,
         task' = [task EXCEPT ![s] = t],
         alive' \subseteq issued', issued' \subseteq Token, stored' \in [User -> Value],
         open' \in BOOLEAN, open' => memory # None,
         sent' \in BOOLEAN, busy' \subseteq Slot, doubt' \in BOOLEAN,
         storage' \in {storage, None}, memory' = memory, kind' = kind, ejected' = ejected,
         Enters(t) => memory = None /\ \A r \in Slot \ {s} : ~Enters(task[r]),
         Enters(t) /\ t.stage = "publish" => storage \in {t.token, None}, Meant(t),
         entry' \in Entry \cup {None}, failed' \in BOOLEAN, fetching' \in Slot \cup {None},
         ~ejected /\ memory = None => entry' = None /\ fetching' = None,
         ~ejected /\ memory # None /\ entry' # None => entry'.owner = Owner[memory],
         fetching' # None =>
           /\ task'[fetching'].kind = "fetch"
           /\ ~ejected /\ memory # None => AsksForOwn(task'[fetching'])
  PROVE  IInv'
<1>1. task'[s] = t /\ \A r \in Slot \ {s} : task'[r] = task[r]
  BY DEF IInv, TypeOK
<1>2. TypeOK'
  <2>1. task' \in [Slot -> Tasks]  BY DEF IInv, TypeOK
  <2>2. storage' \in Token \cup {None} /\ memory' \in Token \cup {None} /\ kind' \in Kind
        /\ ejected' \in BOOLEAN
    BY DEF IInv, TypeOK
  <2> QED  BY <2>1, <2>2 DEF TypeOK
<1>3. OneEnters'
  BY <1>1 DEF IInv, OneEnters
<1>4. Published'
  <2> SUFFICES ASSUME NEW r \in Slot, Enters(task'[r]), task'[r].stage = "publish"
               PROVE  storage' \in {task'[r].token, None}
    BY DEF Published
  <2>1. storage \in {task'[r].token, None}
    BY <1>1 DEF IInv, Published
  <2> QED  BY <2>1
<1>5. NeverCrossed' /\ Mounted' /\ Cleared' /\ CacheIsOwn'
  BY DEF IInv, NeverCrossed, Mounted, Cleared, CacheIsOwn
<1>6. FetchCounts'
  BY DEF FetchCounts, AsksForOwn, Own
<1>7. MutationsMeant'
  BY <1>1 DEF IInv, MutationsMeant, Meant
<1> QED  BY <1>2, <1>3, <1>4, <1>5, <1>6, <1>7 DEF IInv

\* The same where the cache stays as it is.
LEMMA QueryStays ==
  ASSUME IInv, NEW s \in Slot, NEW t \in Tasks,
         task' = [task EXCEPT ![s] = t],
         alive' \subseteq issued', issued' \subseteq Token, stored' \in [User -> Value],
         open' \in BOOLEAN, open' => memory # None,
         sent' \in BOOLEAN, busy' \subseteq Slot, doubt' \in BOOLEAN,
         storage' \in {storage, None}, memory' = memory, kind' = kind, ejected' = ejected,
         Enters(t) => memory = None /\ \A r \in Slot \ {s} : ~Enters(task[r]),
         Enters(t) /\ t.stage = "publish" => storage \in {t.token, None}, Meant(t),
         UNCHANGED query,
         fetching = s =>
           t.kind = "fetch" /\ (~ejected /\ memory # None => AsksForOwn(t))
  PROVE  IInv'
<1>1. task'[s] = t /\ \A r \in Slot \ {s} : task'[r] = task[r]
  BY DEF IInv, TypeOK
<1>2. entry' = entry /\ failed' = failed /\ fetching' = fetching  BY DEF query
<1>3. /\ entry \in Entry \cup {None} /\ failed \in BOOLEAN /\ fetching \in Slot \cup {None}
      /\ ~ejected /\ memory = None => entry = None /\ fetching = None
      /\ ~ejected /\ memory # None /\ entry # None => entry.owner = Owner[memory]
  BY DEF IInv, TypeOK, Cleared, CacheIsOwn
<1>4. fetching # None =>
        /\ task'[fetching].kind = "fetch"
        /\ ~ejected /\ memory # None => AsksForOwn(task'[fetching])
  BY <1>1, <1>3 DEF IInv, FetchCounts
<1> QED  BY <1>2, <1>3, <1>4, SlotStep

\* And where a call goes on, to anything but setToken.
LEMMA CallStep ==
  ASSUME IInv, NEW s \in Slot, task[s] \in Call,
         NEW stage \in CallStage \ {"publish"}, NEW token \in Token \cup {None},
         NEW reply \in Answers, NEW got \in Entry \cup {None},
         task' = [task EXCEPT ![s] = Made(task[s], stage, token, reply, got)],
         alive' \subseteq issued', issued' \subseteq Token, stored' \in [User -> Value],
         UNCHANGED <<screen, query, memory, kind, ejected>>, doubt' \in BOOLEAN,
         storage' \in {storage, None},
         task[s].kind = "fetch" /\ fetching = s /\ ~ejected /\ memory # None =>
           /\ token \in {None, memory}
           /\ stage = "reply" /\ reply = "ok" => Own(got)
  PROVE  IInv'
<1> DEFINE t == Made(task[s], stage, token, reply, got)
<1>1. /\ t \in Tasks /\ t.kind = task[s].kind /\ t.stage = stage /\ t.token = token
      /\ t.reply = reply /\ t.got = got /\ t.op = task[s].op
  <2>1. t \in Call  BY CallIs DEF Made, Call
  <2>2. t \in Tasks  BY <2>1, TasksAre
  <2> QED  BY <2>2 DEF Made
<1>2. task' = [task EXCEPT ![s] = t]  OBVIOUS
<1> HIDE DEF t
<1>3. Enters(t) => memory = None /\ \A r \in Slot \ {s} : ~Enters(task[r])
  BY <1>1 DEF IInv, OneEnters, Enters
<1>4. fetching = s =>
        t.kind = "fetch" /\ (~ejected /\ memory # None => AsksForOwn(t))
  BY <1>1, PhoneAssumption DEF IInv, FetchCounts, AsksForOwn, TypeOK
<1>5. open' \in BOOLEAN /\ (open' => memory # None) /\ sent' \in BOOLEAN /\ busy' \subseteq Slot
  BY DEF IInv, TypeOK, Mounted, screen
<1>6. Meant(t)
  BY <1>1 DEF IInv, MutationsMeant, Meant
<1> QED  BY <1>1, <1>2, <1>3, <1>4, <1>5, <1>6, QueryStays

LEMMA CallAt ==
  ASSUME IInv, NEW s \in Slot, NEW what, what \subseteq Calls, NEW stage, At(s, what, stage)
  PROVE  task[s] \in Call /\ task[s].kind \in what /\ task[s].stage = stage
  BY TaskOf DEF IInv, At

LEMMA SendStep == ASSUME IInv, NEW s \in Slot, Send(s) PROVE IInv'
<1>1. task[s] \in Call  BY CallAt DEF Send
<1>2. task' = [task EXCEPT ![s] = Made(task[s], "sent", storage, task[s].reply, task[s].got)]
  BY <1>1, TokenGoesOn DEF Send, Run
<1>3. /\ UNCHANGED <<screen, query, memory, storage, kind, ejected, doubt, alive, issued, stored>>
      /\ alive \subseteq issued /\ issued \subseteq Token /\ stored \in [User -> Value]
      /\ doubt \in BOOLEAN /\ storage \in Token \cup {None}
  BY DEF Send, server, session, rest, IInv, TypeOK
<1>4. memory # None => storage \in {None, memory}  BY DEF IInv, NeverCrossed
<1>5. "sent" \in CallStage \ {"publish"}  BY DEF CallStage
<1> QED  BY <1>1, <1>2, <1>3, <1>4, <1>5, CallIs, CallStep

LEMMA LoseStep == ASSUME IInv, NEW s \in Slot, Lose(s) PROVE IInv'
<1>1. task[s] \in Call  BY CallAt DEF Lose
<1>2. task' = [task EXCEPT ![s] = Made(task[s], "reply", None, "error", None)]
  <2>1. [task[s] EXCEPT !.stage = "reply", !.reply = "error", !.token = None, !.got = None]
          = Made(task[s], "reply", None, "error", None)
    <3>1. [task[s] EXCEPT !.stage = "reply", !.reply = "error", !.token = None]
            = Made(task[s], "reply", None, "error", task[s].got)
      BY <1>1, ReplyGoesOn
    <3>2. [Made(task[s], "reply", None, "error", task[s].got) EXCEPT !.got = None]
            = Made(task[s], "reply", None, "error", None)
      BY DEF Made
    <3>3. [task[s] EXCEPT !.stage = "reply", !.reply = "error", !.token = None, !.got = None]
            = [[task[s] EXCEPT !.stage = "reply", !.reply = "error", !.token = None]
                 EXCEPT !.got = None]
      OBVIOUS
    <3> QED  BY <3>1, <3>2, <3>3
  <2> QED  BY <2>1 DEF Lose, Run
<1>3. /\ UNCHANGED <<screen, query, memory, storage, kind, ejected, alive, issued, stored>>
      /\ alive \subseteq issued /\ issued \subseteq Token /\ stored \in [User -> Value]
  BY DEF Lose, server, session, IInv, TypeOK
<1>4. doubt' \in BOOLEAN  BY DEF Lose, IInv, TypeOK
<1>5. "reply" \in CallStage \ {"publish"} /\ "error" \in Answers  BY DEF CallStage, Answers
<1> QED  BY <1>1, <1>2, <1>3, <1>4, <1>5, CallStep

\* A 401 deletes the stored token, whosever it is.
LEMMA RefusedStep == ASSUME IInv, NEW s \in Slot, Refused(s) PROVE IInv'
<1>1. task[s] \in Call  BY CallAt DEF Refused
<1>2. task' = [task EXCEPT ![s] =
                 Made(task[s], "unpublish", task[s].token, task[s].reply, task[s].got)]
  BY <1>1, SlotGoesOn DEF Refused, IInv
<1>3. /\ UNCHANGED <<screen, query, memory, kind, ejected, doubt, alive, issued, stored>>
      /\ alive \subseteq issued /\ issued \subseteq Token /\ stored \in [User -> Value]
      /\ doubt \in BOOLEAN /\ storage' \in {storage, None}
  BY DEF Refused, server, rest, IInv, TypeOK
<1>4. task[s].kind = "fetch" /\ fetching = s /\ ~ejected /\ memory # None =>
        task[s].token \in {None, memory}
  BY PhoneAssumption DEF IInv, FetchCounts, AsksForOwn, TypeOK
<1>5. "unpublish" \in CallStage \ {"publish"}  BY DEF CallStage
<1> QED  BY <1>1, <1>2, <1>3, <1>4, <1>5, CallIs, CallStep

LEMMA SettleStep == ASSUME IInv, NEW s \in Slot, Settle(s) PROVE IInv'
<1>1. task[s] \in Call /\ task[s].kind = "logout"
  BY TaskOf DEF Settle, Ends, At, IInv, Calls
<1>2. task' = [task EXCEPT ![s] =
                 Made(task[s], "out", task[s].token, task[s].reply, task[s].got)]
  BY <1>1, SlotGoesOn DEF Settle, IInv
<1>3. /\ UNCHANGED <<screen, query, memory, kind, ejected, doubt, alive, issued, stored>>
      /\ alive \subseteq issued /\ issued \subseteq Token /\ stored \in [User -> Value]
      /\ doubt \in BOOLEAN /\ storage' \in {storage, None}
  BY DEF Settle, server, rest, IInv, TypeOK
<1>4. "out" \in CallStage \ {"publish"}  BY DEF CallStage
<1> QED  BY <1>1, <1>2, <1>3, <1>4, CallIs, CallStep

LEMMA NotSignedInStep == ASSUME IInv, NEW s \in Slot, NotSignedIn(s) PROVE IInv'
<1>1. task[s].kind = "signIn" /\ task' = [task EXCEPT ![s] = Idle]
  BY DEF NotSignedIn, Run
<1>2. UNCHANGED <<server, session, screen, query, rest>>  BY DEF NotSignedIn
<1>3. fetching # s
  BY <1>1, PhoneAssumption DEF IInv, FetchCounts
<1> QED
  BY <1>1, <1>2, <1>3, IdleIsTask, QueryStays
     DEF IInv, TypeOK, Mounted, server, session, screen, query, rest

\* A slot that takes up a call is no other's.
LEMMA SignInStep == ASSUME IInv, NEW s \in Slot, SignIn(s) PROVE IInv'
<1> DEFINE t == Request("signIn", None, 0)
<1>1. /\ t \in Tasks /\ t.kind = "signIn" /\ t.stage = "token" /\ Meant(t)
  BY RequestIsCall DEF Meant
<1>2. task[s] = Idle /\ memory = None /\ task' = [task EXCEPT ![s] = t]
  BY DEF SignIn, Run
<1>3. \A r \in Slot : ~Enters(task[r])
  BY DEF SignIn, Running, Enters
<1>4. UNCHANGED <<server, session, screen, query, rest>>  BY DEF SignIn
<1>5. fetching # s
  BY <1>2, IdleIsTask, PhoneAssumption DEF IInv, FetchCounts
<1> HIDE DEF t
<1> QED
  BY <1>1, <1>2, <1>3, <1>4, <1>5, QueryStays
     DEF IInv, TypeOK, Mounted, server, session, screen, query, rest

LEMMA LogoutStep == ASSUME IInv, NEW s \in Slot, Logout(s) PROVE IInv'
<1> DEFINE t == Request("logout", None, 0)
<1>1. t \in Tasks /\ t.kind = "logout" /\ ~Enters(t) /\ Meant(t)
  BY RequestIsCall DEF Enters, Meant
<1>2. task[s] = Idle /\ task' = [task EXCEPT ![s] = t]
  BY DEF Logout, Run
<1>3. UNCHANGED <<server, session, screen, query, rest>>  BY DEF Logout
<1>4. fetching # s
  BY <1>2, IdleIsTask, PhoneAssumption DEF IInv, FetchCounts
<1> HIDE DEF t
<1> QED
  BY <1>1, <1>2, <1>3, <1>4, QueryStays
     DEF IInv, TypeOK, Mounted, server, session, screen, query, rest

LEMMA PressStep == ASSUME IInv, NEW s \in Slot, NEW op \in Op, Press(s, op) PROVE IInv'
<1> DEFINE t == Request("mutate", op, 0)
<1>1. t \in Tasks /\ t.kind = "mutate" /\ ~Enters(t) /\ t.op = op
  BY RequestIsCall DEF Enters
<1>2. task[s] = Idle /\ task' = [task EXCEPT ![s] = t] /\ busy' = busy \cup {s}
  BY DEF Press, Run
<1>3. UNCHANGED <<server, session, open, sent, query, rest>>  BY DEF Press
<1>4. fetching # s
  BY <1>2, IdleIsTask, PhoneAssumption DEF IInv, FetchCounts
<1>5. Meant(t)
  BY <1>1 DEF Press, Offers, NameOffers, ShareOffers, Meant
<1> HIDE DEF t
<1> QED
  BY <1>1, <1>2, <1>3, <1>4, <1>5, QueryStays
     DEF IInv, TypeOK, Mounted, server, session, query, rest

\* A mutation that ends without a word to the cache.
LEMMA MutationEnds ==
  ASSUME IInv, NEW s \in Slot, task[s].kind = "mutate", Run(s, Idle), Release(s),
         UNCHANGED <<server, session, open, query, rest>>, sent' \in BOOLEAN
  PROVE  IInv'
<1>1. fetching # s
  BY PhoneAssumption DEF IInv, FetchCounts
<1> QED
  BY <1>1, IdleIsTask, QueryStays
     DEF Run, Release, IInv, TypeOK, Mounted, server, session, query, rest

LEMMA SentStep == ASSUME IInv, NEW s \in Slot, Sent(s) PROVE IInv'
<1>1. task[s].kind = "mutate"  BY DEF Sent, Done, At
<1>2. sent' \in BOOLEAN  BY DEF Sent, IInv, TypeOK
<1> QED  BY <1>1, <1>2, MutationEnds DEF Sent

LEMMA NotMutatedStep == ASSUME IInv, NEW s \in Slot, NotMutated(s) PROVE IInv'
<1>1. task[s].kind = "mutate" /\ sent' \in BOOLEAN  BY DEF NotMutated, IInv, TypeOK
<1> QED  BY <1>1, MutationEnds DEF NotMutated

------------------------------------------------------------------------------
(* The server answers.                                                     *)

\* What a row becomes is a row.
LEMMA AfterIsValue ==
  ASSUME NEW op \in Op, NEW v \in Value
  PROVE  After(op, v) \in Value
<1>1. CASE op.op \in {"put", "patch"}
  <2>1. op.body \in Body  BY <1>1 DEF Op
  <2>2. After(op, v) = op.body  BY <1>1 DEF After
  <2> QED  BY <2>1, <2>2 DEF Value
<1>2. CASE op.op \in {"delete", "decline", "remove"}
  <2>1. After(op, v) = None  BY <1>2 DEF After
  <2> QED  BY <2>1 DEF Value
<1>3. CASE op.op = "accept"
  <2>1. After(op, v) = "friend"  BY <1>3 DEF After
  <2> QED  BY <2>1 DEF Value
<1>4. CASE op.op = "open"
  <2>1. After(op, v) = "opened"  BY <1>4 DEF After
  <2> QED  BY <2>1 DEF Value
<1>5. CASE op.op = "send"
  <2>1. After(op, v) \in {"outgoing", "sent", "sent twice"}  BY <1>5 DEF After
  <2> QED  BY <2>1 DEF Value
<1> QED  BY <1>1, <1>2, <1>3, <1>4, <1>5 DEF Op

\* Its answer leaves the phone as it is but for the call.
ServerSteps(s, token, reply, got) ==
  /\ token \in Token \cup {None} /\ reply \in Answers /\ got \in Entry \cup {None}
  /\ task' = [task EXCEPT ![s] = Made(task[s], "reply", token, reply, got)]
  /\ alive' \subseteq issued' /\ issued' \subseteq Token /\ stored' \in [User -> Value]
  /\ UNCHANGED <<session, screen, query, rest>>

LEMMA ServedStep ==
  ASSUME IInv, NEW s \in Slot, task[s] \in Call, NEW token, NEW reply, NEW got,
         ServerSteps(s, token, reply, got),
         task[s].kind = "fetch" /\ fetching = s /\ ~ejected /\ memory # None =>
           token = None /\ (reply = "ok" => Own(got))
  PROVE  IInv'
<1>1. UNCHANGED <<screen, query, memory, storage, kind, ejected, doubt>> /\ doubt \in BOOLEAN
  BY DEF ServerSteps, session, rest, IInv, TypeOK
<1>2. "reply" \in CallStage \ {"publish"}  BY DEF CallStage
<1> QED  BY <1>1, <1>2, CallStep DEF ServerSteps

LEMMA ReplyServes ==
  ASSUME TypeOK, NEW s \in Slot, task[s] \in Call, NEW reply \in Answers, Reply(s, reply),
         alive' \subseteq issued', issued' \subseteq Token, stored' \in [User -> Value],
         UNCHANGED <<session, screen, query, rest>>
  PROVE  ServerSteps(s, None, reply, task[s].got)
  BY SlotGoesOn, CallIs DEF ServerSteps

\* Run with the answer of the server in it.
LEMMA GotServes ==
  ASSUME TypeOK, NEW s \in Slot, task[s] \in Call, NEW token \in Token \cup {None},
         NEW reply \in Answers, NEW got \in Entry \cup {None},
         Run(s, [task[s] EXCEPT !.stage = "reply", !.reply = reply, !.token = token,
                                !.got = got]),
         alive' \subseteq issued', issued' \subseteq Token, stored' \in [User -> Value],
         UNCHANGED <<session, screen, query, rest>>
  PROVE  ServerSteps(s, token, reply, got)
<1>1. [task[s] EXCEPT !.stage = "reply", !.reply = reply, !.token = token]
        = Made(task[s], "reply", token, reply, task[s].got)
  BY ReplyGoesOn
<1>2. [Made(task[s], "reply", token, reply, task[s].got) EXCEPT !.got = got]
        = Made(task[s], "reply", token, reply, got)
  BY DEF Made
<1>3. [task[s] EXCEPT !.stage = "reply", !.reply = reply, !.token = token, !.got = got]
        = [[task[s] EXCEPT !.stage = "reply", !.reply = reply, !.token = token] EXCEPT !.got = got]
  OBVIOUS
<1> QED  BY <1>1, <1>2, <1>3 DEF ServerSteps, Run

LEMMA TokenServes ==
  ASSUME TypeOK, NEW s \in Slot, task[s] \in Call, NEW token \in Token \cup {None},
         NEW reply \in Answers,
         Run(s, [task[s] EXCEPT !.stage = "reply", !.reply = reply, !.token = token]),
         alive' \subseteq issued', issued' \subseteq Token, stored' \in [User -> Value],
         UNCHANGED <<session, screen, query, rest>>
  PROVE  ServerSteps(s, token, reply, task[s].got)
<1>1. [task[s] EXCEPT !.stage = "reply", !.reply = reply, !.token = token]
        = Made(task[s], "reply", token, reply, task[s].got)
  BY ReplyGoesOn
<1> QED  BY <1>1, CallIs DEF ServerSteps, Run

\* What a request finds at the server; only a mutation changes what a user has.
AnsweredBy(s, token, reply, got) ==
  /\ ServerSteps(s, token, reply, got) /\ stored' = stored
  /\ task[s].kind = "mutate" => reply # "ok"
  /\ task[s].kind = "fetch" => token = None
  /\ task[s].kind = "fetch" /\ reply = "ok" =>
       /\ task[s].token \in Token
       /\ got.owner = Owner[task[s].token] /\ got.value = stored[got.owner]

Answered(s) == \E token, reply, got : AnsweredBy(s, token, reply, got)

Changed(s) ==
  LET u == Owner[task[s].token]
      got == IF kind = "name" THEN [value |-> task[s].op.body, owner |-> u] ELSE None
  IN  /\ task[s].kind = "mutate" /\ task[s].token \in Token
      /\ ServerSteps(s, None, "ok", got)
      /\ stored' = [stored EXCEPT ![u] = After(task[s].op, stored[u])]

LEMMA ServeDoes ==
  ASSUME IInv, NEW s \in Slot, Serve(s)
  PROVE  task[s] \in Call /\ task[s].stage = "sent" /\ (Answered(s) \/ Changed(s))
<1> DEFINE t == task[s]
           u == Owner[t.token]
<1>1. t \in Call /\ t.stage = "sent"  BY CallAt DEF Serve
<1>2. TypeOK /\ UNCHANGED <<session, screen, query, rest>>
      /\ alive \subseteq issued /\ issued \subseteq Token /\ stored \in [User -> Value]
  BY DEF Serve, IInv, TypeOK
<1>3. \/ (t.kind = "signIn" \/ t.token \notin alive)
         /\ Reply(s, "refused") /\ UNCHANGED server
      \/ /\ t.kind = "signIn"
         /\ \E new \in Usable[kind] \ issued :
              /\ issued' = issued \cup {new} /\ alive' = alive \cup {new}
              /\ Run(s, [t EXCEPT !.stage = "reply", !.reply = "ok", !.token = new])
         /\ UNCHANGED stored
      \/ /\ t.kind = "fetch" /\ t.token \in alive
         /\ Run(s, [t EXCEPT !.stage = "reply", !.reply = "ok", !.token = None,
                             !.got = [value |-> stored[u], owner |-> u]])
         /\ UNCHANGED server
      \/ /\ t.kind = "mutate" /\ t.token \in alive
         /\ stored' = [stored EXCEPT ![u] = After(t.op, @)]
         /\ Run(s, [t EXCEPT !.stage = "reply", !.reply = "ok", !.token = None,
              !.got = IF kind = "name" THEN [value |-> t.op.body, owner |-> u] ELSE None])
         /\ Accepts(t.op, stored[u])
         /\ UNCHANGED <<alive, issued>>
      \/ t.kind = "mutate" /\ Reply(s, "not_found") /\ UNCHANGED server
      \/ /\ t.kind = "logout" /\ Reply(s, "ok")
         /\ alive' = alive \ {t.token} /\ UNCHANGED <<issued, stored>>
  BY Zenon DEF Serve, server
<1>4. {"refused", "ok", "not_found"} \subseteq Answers  BY DEF Answers
<1>5. CASE (t.kind = "signIn" \/ t.token \notin alive)
           /\ Reply(s, "refused") /\ UNCHANGED server
  <2>1. ServerSteps(s, None, "refused", t.got)
    BY <1>1, <1>2, <1>4, <1>5, ReplyServes DEF server
  <2>2. stored' = stored  BY <1>5 DEF server
  <2>3. AnsweredBy(s, None, "refused", t.got)  BY <2>1, <2>2 DEF AnsweredBy
  <2> QED  BY <1>1, <2>3 DEF Answered
<1>6. ASSUME t.kind = "signIn", NEW new \in Usable[kind] \ issued,
             issued' = issued \cup {new}, alive' = alive \cup {new}, UNCHANGED stored,
             Run(s, [t EXCEPT !.stage = "reply", !.reply = "ok", !.token = new])
      PROVE  Answered(s)
  <2>1. new \in Token  BY <1>2, PhoneAssumption DEF TypeOK
  <2>2. alive' \subseteq issued' /\ issued' \subseteq Token /\ stored' \in [User -> Value]
    BY <1>2, <1>6, <2>1
  <2>3. ServerSteps(s, new, "ok", t.got)
    BY <1>1, <1>2, <1>4, <1>6, <2>1, <2>2, TokenServes
  <2>4. AnsweredBy(s, new, "ok", t.got)  BY <1>6, <2>3 DEF AnsweredBy
  <2> QED  BY <2>4 DEF Answered
<1>7. CASE /\ t.kind = "fetch" /\ t.token \in alive
           /\ Run(s, [t EXCEPT !.stage = "reply", !.reply = "ok", !.token = None,
                               !.got = [value |-> stored[u], owner |-> u]])
           /\ UNCHANGED server
  <2> DEFINE got == [value |-> stored[u], owner |-> u]
  <2>1. u \in User  BY <1>2, <1>7, PhoneAssumption
  <2>2. got \in Entry /\ got.owner = u  BY <1>2, <2>1 DEF Entry
  <2>3. Run(s, [t EXCEPT !.stage = "reply", !.reply = "ok", !.token = None, !.got = got])
    BY <1>7
  <2> HIDE DEF got
  <2>4. ServerSteps(s, None, "ok", got)
    BY <1>1, <1>2, <1>4, <1>7, <2>2, <2>3, GotServes DEF server
  <2>5. got.value = stored[u] /\ stored' = stored /\ t.token \in Token
    BY <1>2, <1>7 DEF got, server
  <2>6. AnsweredBy(s, None, "ok", got)  BY <1>7, <2>2, <2>4, <2>5 DEF AnsweredBy
  <2> QED  BY <1>1, <2>6 DEF Answered
<1>8. CASE /\ t.kind = "mutate" /\ t.token \in alive
           /\ stored' = [stored EXCEPT ![u] = After(t.op, @)]
           /\ Run(s, [t EXCEPT !.stage = "reply", !.reply = "ok", !.token = None,
                !.got = IF kind = "name" THEN [value |-> t.op.body, owner |-> u] ELSE None])
           /\ UNCHANGED <<alive, issued>>
  <2> DEFINE got == IF kind = "name" THEN [value |-> t.op.body, owner |-> u] ELSE None
  <2>1. u \in User /\ t.op \in Op
    BY <1>2, <1>8, PhoneAssumption DEF IInv, MutationsMeant, Meant
  <2>2. got \in Entry \cup {None}
    <3>1. CASE kind = "name"
      <4>1. t.op.op = "put"  BY <1>8, <3>1 DEF IInv, MutationsMeant, Meant
      <4>2. t.op.body \in Value  BY <2>1, <4>1 DEF Op, Value
      <4> QED  BY <2>1, <3>1, <4>2 DEF Entry
    <3> QED  BY <3>1
  <2>3. Run(s, [t EXCEPT !.stage = "reply", !.reply = "ok", !.token = None, !.got = got])
    BY <1>8
  <2> HIDE DEF got
  <2>4. stored' \in [User -> Value]
    <3>1. stored[u] \in Value  BY <1>2, <2>1
    <3>2. After(t.op, stored[u]) \in Value  BY <2>1, <3>1, AfterIsValue
    <3> QED  BY <1>2, <1>8, <3>2
  <2>5. ServerSteps(s, None, "ok", got)
    BY <1>1, <1>2, <1>4, <1>8, <2>2, <2>3, <2>4, GotServes
  <2>6. t.token \in Token  BY <1>2, <1>8
  <2>7. stored' = [stored EXCEPT ![u] = After(t.op, stored[u])]  BY <1>8
  <2> QED  BY <1>1, <1>8, <2>5, <2>6, <2>7 DEF got, Changed
<1>9. CASE t.kind = "mutate" /\ Reply(s, "not_found") /\ UNCHANGED server
  <2>1. ServerSteps(s, None, "not_found", t.got)
    BY <1>1, <1>2, <1>4, <1>9, ReplyServes DEF server
  <2>2. stored' = stored  BY <1>9 DEF server
  <2>3. AnsweredBy(s, None, "not_found", t.got)  BY <1>9, <2>1, <2>2 DEF AnsweredBy
  <2> QED  BY <1>1, <2>3 DEF Answered
<1>10. CASE t.kind = "logout" /\ Reply(s, "ok")
            /\ alive' = alive \ {t.token} /\ UNCHANGED <<issued, stored>>
  <2>1. ServerSteps(s, None, "ok", t.got)
    BY <1>1, <1>2, <1>4, <1>10, ReplyServes
  <2>2. AnsweredBy(s, None, "ok", t.got)  BY <1>10, <2>1 DEF AnsweredBy
  <2> QED  BY <1>1, <2>2 DEF Answered
<1> QED  BY <1>1, <1>3, <1>5, <1>6, <1>7, <1>8, <1>9, <1>10

LEMMA ServeStep == ASSUME IInv, NEW s \in Slot, Serve(s) PROVE IInv'
<1>1. task[s] \in Call  BY ServeDoes
<1>2. CASE Answered(s)
  <2>1. PICK token, reply, got :
          /\ ServerSteps(s, token, reply, got)
          /\ task[s].kind = "fetch" => token = None
          /\ task[s].kind = "fetch" /\ reply = "ok" =>
               task[s].token \in Token /\ got.owner = Owner[task[s].token]
    BY <1>2 DEF Answered, AnsweredBy
  <2>2. task[s].kind = "fetch" /\ fetching = s /\ ~ejected /\ memory # None =>
          token = None /\ (reply = "ok" => Own(got))
    BY <2>1, PhoneAssumption DEF IInv, FetchCounts, AsksForOwn, Own
  <2> QED  BY <1>1, <2>1, <2>2, ServedStep
<1>3. CASE Changed(s)
  BY <1>1, <1>3, ServedStep DEF Changed
<1> QED  BY <1>2, <1>3, ServeDoes

------------------------------------------------------------------------------
(* The session comes and goes.                                             *)

\* loadFromStorage has read the token that is stored.
LEMMA HydrateReads ==
  ASSUME IInv, NEW s \in Slot, At(s, {"hydrate"}, "read"),
         Run(s, [task[s] EXCEPT !.stage = "publish", !.token = storage]),
         UNCHANGED <<server, session, screen, query, rest>>
  PROVE  IInv'
<1> DEFINE t == [kind |-> "hydrate", stage |-> "publish", token |-> storage]
<1>1. task[s].kind = "hydrate" /\ task[s] \in Hydration
  BY TaskOf DEF At, IInv
<1>2. [task[s] EXCEPT !.stage = "publish", !.token = storage] = t
  <2>1. PICK st, tk : task[s] = [kind |-> "hydrate", stage |-> st, token |-> tk]
    BY <1>1 DEF Hydration
  <2>2. [task[s] EXCEPT !.stage = "publish", !.token = storage]
          = [[task[s] EXCEPT !.stage = "publish"] EXCEPT !.token = storage]
    OBVIOUS
  <2>3. [task[s] EXCEPT !.stage = "publish"]
          = [kind |-> "hydrate", stage |-> "publish", token |-> tk]
    BY <2>1
  <2>4. [[kind |-> "hydrate", stage |-> "publish", token |-> tk] EXCEPT !.token = storage]
          = [kind |-> "hydrate", stage |-> "publish", token |-> storage]
    OBVIOUS
  <2> QED  BY <2>2, <2>3, <2>4
<1>3. t \in Tasks /\ t.kind = "hydrate" /\ t.token = storage
  <2>1. t \in Hydration  BY DEF Hydration, IInv, TypeOK
  <2> QED  BY <2>1, TasksAre
<1>4. task' = [task EXCEPT ![s] = t]  BY <1>2 DEF Run
<1> HIDE DEF t
<1>5. memory = None /\ \A r \in Slot \ {s} : ~Enters(task[r])
  BY <1>1 DEF IInv, OneEnters, Enters
<1>6. fetching # s
  BY <1>1, PhoneAssumption DEF IInv, FetchCounts
<1>7. Meant(t)  BY <1>3 DEF Meant
<1> QED
  BY <1>3, <1>4, <1>5, <1>6, <1>7, QueryStays
     DEF IInv, TypeOK, Mounted, server, session, screen, query, rest

\* Nobody is signed in when `token` is set, and there is no cache but after a 401.
LEMMA PublishStep ==
  ASSUME IInv, NEW s \in Slot, Enters(task[s]), task[s].stage = "publish",
         task[s].token \in Token \cup {None}, Run(s, Idle), memory' = task[s].token,
         UNCHANGED <<server, storage, screen, query, rest>>
  PROVE  IInv'
<1>1. task'[s] = Idle /\ \A r \in Slot \ {s} : task'[r] = task[r]
  BY DEF Run, IInv, TypeOK
<1>2. memory = None /\ (\A r \in Slot \ {s} : ~Enters(task[r])) /\ ~open
  BY DEF IInv, OneEnters, Mounted
<1>3. storage \in {task[s].token, None}  BY DEF IInv, Published
<1>4. \A r \in Slot : ~Enters(task'[r])  BY <1>1, <1>2, IdleIsTask
<1>5. TypeOK'
  <2>1. task' \in [Slot -> Tasks]  BY IdleIsTask DEF Run, IInv, TypeOK
  <2> QED  BY <2>1 DEF IInv, TypeOK, server, screen, query, rest
<1>6. MutationsMeant'
  BY <1>1, IdleIsTask DEF IInv, MutationsMeant, Meant, rest
<1>7. OneEnters' /\ Published'  BY <1>4 DEF OneEnters, Published
<1>8. NeverCrossed'  BY <1>3 DEF NeverCrossed
<1>9. Mounted'  BY <1>2 DEF Mounted, screen
<1>10. Cleared' /\ CacheIsOwn'
  BY <1>2 DEF IInv, Cleared, CacheIsOwn, query, rest
<1>11. FetchCounts'
  <2>1. fetching # None => fetching \in Slot \ {s}
    BY PhoneAssumption DEF IInv, TypeOK, FetchCounts, Enters
  <2> QED  BY <1>1, <1>2, <2>1 DEF IInv, FetchCounts, Cleared, query, rest
<1> QED  BY <1>5, <1>6, <1>7, <1>8, <1>9, <1>10, <1>11 DEF IInv

LEMMA HydrateStep ==
  ASSUME IInv, NEW s \in Slot, Hydrate(s), UNCHANGED <<server, storage, screen, query, rest>>
  PROVE  IInv'
<1>1. CASE At(s, {"hydrate"}, "read")
  <2>1. ~At(s, {"hydrate"}, "publish")  BY <1>1 DEF At
  <2>2. UNCHANGED memory /\ Run(s, [task[s] EXCEPT !.stage = "publish", !.token = storage])
    BY <2>1 DEF Hydrate
  <2> QED  BY <1>1, <2>2, HydrateReads DEF session
<1>2. CASE ~At(s, {"hydrate"}, "read")
  <2>1. At(s, {"hydrate"}, "publish") /\ memory' = task[s].token /\ Run(s, Idle)
    BY <1>2 DEF Hydrate
  <2>2. Enters(task[s]) /\ task[s].stage = "publish"  BY <2>1 DEF At, Enters
  <2>3. task[s].token \in Token \cup {None}
    BY <2>1, TaskOf DEF At, IInv, Hydration
  <2> QED  BY <2>1, <2>2, <2>3, PublishStep
<1> QED  BY <1>1, <1>2

\* setToken stores the token of the only one who is coming in.
LEMMA StoreStep ==
  ASSUME IInv, NEW s \in Slot, task[s].kind = "signIn",
         storage' = task[s].token, Step(s, "publish"), UNCHANGED memory,
         UNCHANGED <<server, screen, query, rest>>
  PROVE  IInv'
<1> DEFINE t == Made(task[s], "publish", task[s].token, task[s].reply, task[s].got)
<1>1. task[s] \in Call  BY TaskOf DEF IInv, Calls
<1>2. task' = [task EXCEPT ![s] = t]  BY <1>1, SlotGoesOn DEF IInv
<1>3. t \in Tasks /\ t.kind = "signIn" /\ t.token = task[s].token
  <2>1. "publish" \in CallStage  BY DEF CallStage
  <2>2. t \in Call  BY <1>1, <2>1, CallIs DEF Made, Call
  <2> QED  BY <2>2, TasksAre DEF Made
<1> HIDE DEF t
<1>4. task'[s] = t /\ \A r \in Slot \ {s} : task'[r] = task[r]
  BY <1>2 DEF IInv, TypeOK
<1>5. memory = None /\ \A r \in Slot \ {s} : ~Enters(task[r])
  BY DEF IInv, OneEnters, Enters
<1>6. TypeOK'
  <2>1. task' \in [Slot -> Tasks]  BY <1>2, <1>3 DEF IInv, TypeOK
  <2>2. storage' \in Token \cup {None}  BY <1>1, CallIs
  <2> QED  BY <2>1, <2>2 DEF IInv, TypeOK, server, screen, query, rest
<1>7. MutationsMeant'
  BY <1>3, <1>4 DEF IInv, MutationsMeant, Meant, rest
<1>8. OneEnters'  BY <1>4, <1>5 DEF OneEnters
<1>9. Published'  BY <1>3, <1>4, <1>5 DEF Published
<1>10. NeverCrossed' /\ Mounted' /\ Cleared' /\ CacheIsOwn'
  BY <1>5 DEF IInv, NeverCrossed, Mounted, Cleared, CacheIsOwn, screen, query, rest
<1>11. FetchCounts'
  <2>1. fetching # None => fetching \in Slot \ {s}
    BY PhoneAssumption DEF IInv, TypeOK, FetchCounts
  <2> QED  BY <1>4, <1>5, <2>1 DEF IInv, FetchCounts, Cleared, query, rest
<1> QED  BY <1>6, <1>7, <1>8, <1>9, <1>10, <1>11 DEF IInv

LEMMA SignedInStep ==
  ASSUME IInv, NEW s \in Slot, SignedIn(s), UNCHANGED <<server, screen, query, rest>>
  PROVE  IInv'
<1>1. CASE task[s].stage = "reply"
  <2>1. task[s].kind = "signIn" /\ storage' = task[s].token /\ Step(s, "publish")
        /\ UNCHANGED memory
    BY <1>1 DEF SignedIn, At
  <2> QED  BY <2>1, StoreStep
<1>2. CASE task[s].stage # "reply"
  <2>1. task[s].kind = "signIn" /\ task[s].stage = "publish" /\ memory' = task[s].token
        /\ Run(s, Idle) /\ UNCHANGED storage
    BY <1>2 DEF SignedIn, At
  <2>2. task[s].token \in Token \cup {None}
    BY <2>1, TaskOf, CallIs DEF IInv, Calls
  <2> QED  BY <2>1, <2>2, PublishStep DEF Enters
<1> QED  BY <1>1, <1>2

\* A 401 ends the session of the phone, and its cache is not to be trusted.
LEMMA UnpublishStep == ASSUME IInv, NEW s \in Slot, Unpublish(s) PROVE IInv'
<1> DEFINE t == Made(task[s], "reply", None, "error", task[s].got)
<1>1. task[s] \in Call  BY CallAt DEF Unpublish
<1>2. "error" \in Answers /\ "reply" \in CallStage  BY DEF Answers, CallStage
<1>3. task' = [task EXCEPT ![s] = t]
  BY <1>1, SlotGoesOn DEF IInv, Unpublish
<1>4. t \in Tasks /\ t.kind = task[s].kind /\ t.stage = "reply" /\ t.op = task[s].op
  <2>1. t \in Call  BY <1>1, <1>2, CallIs DEF Made, Call
  <2> QED  BY <2>1, TasksAre DEF Made
<1> HIDE DEF t
<1>5. task'[s] = t /\ \A r \in Slot \ {s} : task'[r] = task[r]
  BY <1>3 DEF IInv, TypeOK
<1>6. /\ memory' = None /\ open' = FALSE /\ sent' = FALSE /\ busy' = {} /\ ejected' = TRUE
      /\ UNCHANGED <<server, storage, query, kind, doubt>>
  BY DEF Unpublish, Unmount
<1>7. TypeOK'
  <2>1. task' \in [Slot -> Tasks]  BY <1>3, <1>4 DEF IInv, TypeOK
  <2> QED  BY <1>6, <2>1 DEF IInv, TypeOK, server, query
<1>8. MutationsMeant'
  BY <1>4, <1>5, <1>6 DEF IInv, MutationsMeant, Meant
<1>9. OneEnters' /\ Published'
  BY <1>4, <1>5, <1>6 DEF IInv, OneEnters, Published, Enters
<1>10. NeverCrossed' /\ Mounted' /\ Cleared' /\ CacheIsOwn'
  BY <1>6 DEF NeverCrossed, Mounted, Cleared, CacheIsOwn
<1>11. FetchCounts'
  BY <1>4, <1>5, <1>6 DEF IInv, TypeOK, FetchCounts, query
<1> QED  BY <1>7, <1>8, <1>9, <1>10, <1>11 DEF IInv

\* A logout clears the cache with the token, whatever the server said.
LEMMA OutStep == ASSUME IInv, NEW s \in Slot, Out(s) PROVE IInv'
<1>1. task'[s] = Idle /\ \A r \in Slot \ {s} : task'[r] = task[r]
  BY DEF Out, Run, IInv, TypeOK
<1>2. /\ memory' = None /\ open' = FALSE /\ sent' = FALSE /\ busy' = {}
      /\ entry' = None /\ failed' = FALSE /\ fetching' = None
      /\ ejected' = FALSE /\ doubt' \in BOOLEAN /\ UNCHANGED <<server, storage, kind>>
  BY DEF Out, Unmount, NameUnderWay, Running
<1>3. TypeOK'
  <2>1. task' \in [Slot -> Tasks]  BY IdleIsTask DEF Out, Run, IInv, TypeOK
  <2> QED  BY <1>2, <2>1 DEF IInv, TypeOK, server
<1>4. MutationsMeant' /\ OneEnters' /\ Published'
  BY <1>1, <1>2, IdleIsTask DEF IInv, MutationsMeant, Meant, OneEnters, Published
<1>5. NeverCrossed' /\ Mounted' /\ Cleared' /\ CacheIsOwn' /\ FetchCounts'
  BY <1>2 DEF NeverCrossed, Mounted, Cleared, CacheIsOwn, FetchCounts
<1> QED  BY <1>3, <1>4, <1>5 DEF IInv

\* Nothing of a process outlives it but what is stored.
LEMMA RestartStep == ASSUME IInv, Restart PROVE IInv'
<1> DEFINE first == CHOOSE s \in Slot : TRUE
           t == [kind |-> "hydrate", stage |-> "read", token |-> None]
<1>1. task' = [x \in Slot |-> IF x = first THEN t ELSE Idle]
  BY DEF Restart
<1>2. t \in Tasks /\ t.stage = "read" /\ Meant(t)'
  <2>1. t \in Hydration  BY DEF Hydration
  <2> QED  BY <2>1, TasksAre DEF Meant
<1> HIDE DEF first, t
<1>3. /\ memory' = None /\ open' = FALSE /\ sent' = FALSE /\ busy' = {}
      /\ entry' = None /\ failed' = FALSE /\ fetching' = None
      /\ ejected' = FALSE /\ doubt' = FALSE /\ UNCHANGED <<server, storage, kind>>
  BY DEF Restart, Unmount
<1>4. \A x \in Slot : task'[x] \in {t, Idle} /\ (x # first => task'[x] = Idle)
  BY <1>1
<1>5. TypeOK'
  <2>1. task' \in [Slot -> Tasks]  BY <1>1, <1>2, IdleIsTask
  <2> QED  BY <1>3, <2>1 DEF IInv, TypeOK, server
<1>6. MutationsMeant'
  BY <1>2, <1>3, <1>4, IdleIsTask DEF MutationsMeant, Meant
<1>7. OneEnters'
  <2> SUFFICES ASSUME NEW s \in Slot, Enters(task'[s]), NEW r \in Slot \ {s}
               PROVE  ~Enters(task'[r])
    BY <1>3 DEF OneEnters
  <2>1. s = first  BY <1>4, IdleIsTask
  <2>2. task'[r] = Idle  BY <1>4, <2>1
  <2> QED  BY <2>2, IdleIsTask
<1>8. Published'
  BY <1>2, <1>4, IdleIsTask DEF Published
<1>9. NeverCrossed' /\ Mounted' /\ Cleared' /\ CacheIsOwn' /\ FetchCounts'
  BY <1>3 DEF NeverCrossed, Mounted, Cleared, CacheIsOwn, FetchCounts
<1> QED  BY <1>5, <1>6, <1>7, <1>8, <1>9 DEF IInv

------------------------------------------------------------------------------
(* The screen.                                                             *)

\* A request to fetch asks for whoever is signed in when it is sent.
LEMMA FetchIsOwn ==
  ASSUME NEW again \in 0 .. 1
  PROVE  LET t == Request("fetch", None, again) IN
           t \in Tasks /\ t.kind = "fetch" /\ ~Enters(t) /\ Meant(t) /\ AsksForOwn(t)
  BY RequestIsCall DEF Enters, Meant, AsksForOwn

\* A fetch that begins and counts.
LEMMA FetchBegins ==
  ASSUME IInv, NEW s \in Slot, NEW again \in 0 .. 1,
         Run(s, Request("fetch", None, again)), fetching' = s, memory # None \/ ejected,
         alive' \subseteq issued', issued' \subseteq Token, stored' \in [User -> Value],
         open' \in BOOLEAN, open' => memory # None,
         sent' \in BOOLEAN, busy' \subseteq Slot, doubt' \in BOOLEAN,
         UNCHANGED <<session, kind, ejected, entry, failed>>
  PROVE  IInv'
<1> DEFINE t == Request("fetch", None, again)
<1>1. t \in Tasks /\ t.kind = "fetch" /\ ~Enters(t) /\ Meant(t) /\ AsksForOwn(t)
  BY FetchIsOwn
<1>2. task' = [task EXCEPT ![s] = t]  BY DEF Run
<1> HIDE DEF t
<1>3. task'[s] = t  BY <1>2 DEF IInv, TypeOK
<1>4. /\ entry' \in Entry \cup {None} /\ failed' \in BOOLEAN /\ fetching' \in Slot \cup {None}
      /\ ~ejected /\ memory # None /\ entry' # None => entry'.owner = Owner[memory]
  BY DEF IInv, TypeOK, CacheIsOwn
<1>5. storage' \in {storage, None} /\ memory' = memory /\ kind' = kind /\ ejected' = ejected
  BY DEF session
<1>6. fetching' # None =>
        /\ task'[fetching'].kind = "fetch"
        /\ ~ejected /\ memory # None => AsksForOwn(task'[fetching'])
  BY <1>1, <1>3
<1> QED  BY <1>1, <1>2, <1>4, <1>5, <1>6, SlotStep

\* A slot that ends without the cache being told.
LEMMA SlotEnds ==
  ASSUME IInv, NEW s \in Slot, Run(s, Idle),
         alive' \subseteq issued', issued' \subseteq Token, stored' \in [User -> Value],
         open' \in BOOLEAN, open' => memory # None,
         sent' \in BOOLEAN, busy' \subseteq Slot, doubt' \in BOOLEAN,
         UNCHANGED <<session, kind, ejected>>,
         entry' \in Entry \cup {None}, failed' \in BOOLEAN, fetching' \in {fetching, None} \ {s},
         ~ejected /\ memory = None => entry' = None,
         ~ejected /\ memory # None /\ entry' # None => entry'.owner = Owner[memory]
  PROVE  IInv'
<1>1. task' = [task EXCEPT ![s] = Idle]  BY DEF Run
<1>2. task'[s] = Idle /\ \A r \in Slot \ {s} : task'[r] = task[r]
  BY <1>1 DEF IInv, TypeOK
<1>3. storage' \in {storage, None} /\ memory' = memory /\ kind' = kind /\ ejected' = ejected
  BY DEF session
<1>4. fetching' \in Slot \cup {None} /\ (~ejected /\ memory = None => fetching' = None)
  BY DEF IInv, TypeOK, Cleared
<1>5. fetching' # None =>
        /\ task'[fetching'].kind = "fetch"
        /\ ~ejected /\ memory # None => AsksForOwn(task'[fetching'])
  BY <1>2, <1>4 DEF IInv, FetchCounts
<1> QED  BY <1>1, <1>3, <1>4, <1>5, IdleIsTask, SlotStep

LEMMA FetchedStep == ASSUME IInv, NEW s \in Slot, Fetched(s) PROVE IInv'
<1>1. task[s] \in Call /\ task[s].kind = "fetch" /\ task[s].stage = "reply"
      /\ task[s].reply = "ok" /\ task[s].got \in Entry \cup {None}
  BY CallAt, CallIs DEF Fetched, Calls
<1>2. /\ Run(s, Idle) /\ UNCHANGED <<alive, issued, stored, session, screen, kind, ejected>>
      /\ doubt' = doubt
  BY DEF Fetched, server, rest
<1>3. /\ alive' \subseteq issued' /\ issued' \subseteq Token /\ stored' \in [User -> Value]
      /\ open' \in BOOLEAN /\ (open' => memory # None) /\ sent' \in BOOLEAN
      /\ busy' \subseteq Slot /\ doubt' \in BOOLEAN
  BY <1>2 DEF screen, IInv, TypeOK, Mounted
<1>4. CASE fetching = s
  <2>1. entry' = task[s].got /\ failed' = FALSE /\ fetching' = None
    BY <1>4 DEF Fetched
  <2>2. ~ejected => memory # None
    BY <1>4, PhoneAssumption DEF IInv, Cleared
  <2>3. ~ejected /\ memory # None => Own(task[s].got)
    BY <1>1, <1>4, PhoneAssumption DEF IInv, FetchCounts, AsksForOwn
  <2>4. None \notin Slot  BY PhoneAssumption
  <2> QED  BY <1>1, <1>2, <1>3, <2>1, <2>2, <2>3, <2>4, SlotEnds DEF Own
<1>5. CASE fetching # s
  <2>1. entry' = entry /\ failed' = failed /\ fetching' = fetching
    BY <1>5 DEF Fetched, query
  <2> QED
    BY <1>2, <1>3, <1>5, <2>1, SlotEnds DEF IInv, TypeOK, Cleared, CacheIsOwn
<1> QED  BY <1>4, <1>5

\* A fetch that failed is tried once more, and that one counts.
LEMMA NotFetchedStep == ASSUME IInv, NEW s \in Slot, NotFetched(s) PROVE IInv'
<1>1. task[s] \in Call /\ task[s].kind = "fetch" /\ task[s].tries \in 0 .. 1
  BY TaskOf, CallIs DEF NotFetched, IInv, Calls
<1>2. UNCHANGED <<alive, issued, stored, session, open, sent, kind, ejected, doubt>>
  BY DEF NotFetched, server, rest
<1>3. busy' \subseteq Slot  BY DEF NotFetched, IInv, TypeOK
<1>4. /\ alive' \subseteq issued' /\ issued' \subseteq Token /\ stored' \in [User -> Value]
      /\ open' \in BOOLEAN /\ (open' => memory # None) /\ sent' \in BOOLEAN
      /\ doubt' \in BOOLEAN
  BY <1>2 DEF IInv, TypeOK, Mounted
<1>5. CASE fetching = s /\ task[s].tries < MaxRetries
  <2>1. Run(s, Request("fetch", None, task[s].tries + 1)) /\ UNCHANGED query
    BY <1>5 DEF NotFetched
  <2>2. task[s].tries + 1 \in 0 .. 1  BY <1>1, <1>5 DEF MaxRetries
  <2>3. memory # None \/ ejected
    BY <1>5, PhoneAssumption DEF IInv, Cleared
  <2> QED  BY <1>2, <1>3, <1>4, <1>5, <2>1, <2>2, <2>3, FetchBegins DEF query
<1>6. CASE ~(fetching = s /\ task[s].tries < MaxRetries)
  <2>1. /\ Run(s, Idle) /\ failed' = (failed \/ fetching = s) /\ entry' = entry
        /\ fetching' = IF fetching = s THEN None ELSE fetching
    BY <1>6 DEF NotFetched
  <2>2. failed' \in BOOLEAN /\ fetching' \in {fetching, None} \ {s}
    BY <2>1, PhoneAssumption DEF IInv, TypeOK
  <2>3. /\ entry' \in Entry \cup {None}
        /\ ~ejected /\ memory = None => entry' = None
        /\ ~ejected /\ memory # None /\ entry' # None => entry'.owner = Owner[memory]
    BY <2>1 DEF IInv, TypeOK, Cleared, CacheIsOwn
  <2> QED  BY <1>2, <1>3, <1>4, <2>1, <2>2, <2>3, SlotEnds
<1> QED  BY <1>5, <1>6

LEMMA RetryStep == ASSUME IInv, NEW s \in Slot, Retry(s) PROVE IInv'
<1>1. Run(s, Request("fetch", None, 0)) /\ fetching' = s /\ open
  BY DEF Retry
<1>2. UNCHANGED <<alive, issued, stored, session, open, sent, busy, kind, ejected, doubt,
                  entry, failed>>
  BY DEF Retry, server, screen, rest
<1>3. /\ alive' \subseteq issued' /\ issued' \subseteq Token /\ stored' \in [User -> Value]
      /\ open' \in BOOLEAN /\ memory # None /\ sent' \in BOOLEAN
      /\ busy' \subseteq Slot /\ doubt' \in BOOLEAN
  BY <1>1, <1>2 DEF IInv, TypeOK, Mounted
<1> QED  BY <1>1, <1>2, <1>3, FetchBegins

\* A mutation has succeeded: what the cache holds of the key is fetched anew.
LEMMA InvalidateStep == ASSUME IInv, NEW s \in Slot, Invalidate(s) PROVE IInv'
<1>1. task[s].kind = "mutate"  BY DEF Invalidate, Done, At
<1>2. UNCHANGED <<alive, issued, stored, session, open, sent, kind, ejected, entry, failed>>
  BY DEF Invalidate, server
<1>3. /\ alive' \subseteq issued' /\ issued' \subseteq Token /\ stored' \in [User -> Value]
      /\ open' \in BOOLEAN /\ (open' => memory # None) /\ sent' \in BOOLEAN
  BY <1>2 DEF IInv, TypeOK, Mounted
<1>4. busy' \subseteq Slot /\ doubt' \in BOOLEAN
  BY DEF Invalidate, Release, IInv, TypeOK
<1>5. CASE open /\ entry # None
  <2>1. Run(s, Request("fetch", None, 0)) /\ fetching' = s  BY <1>5 DEF Invalidate
  <2>2. memory # None  BY <1>5 DEF IInv, Mounted
  <2> QED  BY <1>2, <1>3, <1>4, <2>1, <2>2, FetchBegins
<1>6. CASE ~(open /\ entry # None)
  <2>1. Run(s, Idle) /\ fetching' = fetching  BY <1>6 DEF Invalidate
  <2>2. fetching # s  BY <1>1, PhoneAssumption DEF IInv, FetchCounts
  <2>3. /\ entry' \in Entry \cup {None} /\ failed' \in BOOLEAN
        /\ ~ejected /\ memory = None => entry' = None
        /\ ~ejected /\ memory # None /\ entry' # None => entry'.owner = Owner[memory]
    BY <1>2 DEF IInv, TypeOK, Cleared, CacheIsOwn
  <2> QED  BY <1>2, <1>3, <1>4, <2>1, <2>2, <2>3, SlotEnds
<1> QED  BY <1>5, <1>6

\* The key has the id of the user who saved: of another one the screen sees nothing.
LEMMA NameSavedStep == ASSUME IInv, NEW s \in Slot, NameSaved(s) PROVE IInv'
<1>1. task[s] \in Call /\ task[s].kind = "mutate" /\ task[s].got \in Entry \cup {None}
  BY CallAt, CallIs DEF NameSaved, Done, Calls
<1>2. /\ UNCHANGED <<alive, issued, stored, session, open, sent, kind, ejected>>
      /\ fetching' = fetching /\ Run(s, Idle)
  BY DEF NameSaved, server
<1>3. /\ alive' \subseteq issued' /\ issued' \subseteq Token /\ stored' \in [User -> Value]
      /\ open' \in BOOLEAN /\ (open' => memory # None) /\ sent' \in BOOLEAN
  BY <1>2 DEF IInv, TypeOK, Mounted
<1>4. busy' \subseteq Slot /\ doubt' \in BOOLEAN
  BY DEF NameSaved, Release, IInv, TypeOK
<1>5. fetching # s  BY <1>1, PhoneAssumption DEF IInv, FetchCounts
<1>6. /\ entry' \in Entry \cup {None} /\ failed' \in BOOLEAN
      /\ ~ejected /\ memory = None => entry' = None
      /\ ~ejected /\ memory # None /\ entry' # None => entry'.owner = Owner[memory]
  <2>1. CASE open /\ task[s].got.owner = Owner[memory]
    BY <1>1, <2>1 DEF NameSaved, IInv, Mounted
  <2>2. CASE ~(open /\ task[s].got.owner = Owner[memory])
    <3>1. entry' = entry /\ failed' = failed  BY <2>2 DEF NameSaved
    <3> QED  BY <3>1 DEF IInv, TypeOK, Cleared, CacheIsOwn
  <2> QED  BY <2>1, <2>2
<1> QED  BY <1>2, <1>3, <1>4, <1>5, <1>6, SlotEnds

\* Nothing begins or ends; what the cache holds may be forgotten.
LEMMA TasksStay ==
  ASSUME IInv, UNCHANGED <<task, session, kind, ejected, fetching>>,
         alive' \subseteq issued', issued' \subseteq Token, stored' \in [User -> Value],
         open' \in BOOLEAN, open' => memory # None,
         sent' \in BOOLEAN, busy' \subseteq Slot, doubt' \in BOOLEAN,
         entry' \in {entry, None}, failed' \in BOOLEAN
  PROVE  IInv'
<1>1. TypeOK'  BY DEF IInv, TypeOK, session
<1>2. MutationsMeant'  BY DEF IInv, MutationsMeant, Meant
<1>3. OneEnters' /\ Published' /\ NeverCrossed' /\ Mounted'
  BY DEF IInv, OneEnters, Published, NeverCrossed, Mounted, Enters, session
<1>4. Cleared' /\ CacheIsOwn'  BY DEF IInv, Cleared, CacheIsOwn, session
<1>5. FetchCounts'  BY DEF IInv, FetchCounts, AsksForOwn, Own, session
<1> QED  BY <1>1, <1>2, <1>3, <1>4, <1>5 DEF IInv

LEMMA VisitStep == ASSUME IInv, NEW s \in Slot, Visit(s) PROVE IInv'
<1>1. /\ memory # None /\ open' = TRUE
      /\ UNCHANGED <<alive, issued, session, sent, busy, entry, failed, kind, ejected>>
  BY DEF Visit
<1>2. doubt' \in BOOLEAN /\ stored' \in [User -> Value]
  <2>1. None \in Value  BY DEF Value
  <2> QED  BY <2>1 DEF Visit, Running, IInv, TypeOK
<1>3. /\ alive' \subseteq issued' /\ issued' \subseteq Token /\ open' \in BOOLEAN
      /\ sent' \in BOOLEAN /\ busy' \subseteq Slot /\ failed' \in BOOLEAN
  BY <1>1 DEF IInv, TypeOK
<1>4. CASE fetching # None
  BY <1>1, <1>2, <1>3, <1>4, TasksStay DEF Visit
<1>5. CASE fetching = None
  <2>1. Run(s, Request("fetch", None, 0)) /\ fetching' = s  BY <1>5 DEF Visit
  <2> QED  BY <1>1, <1>2, <1>3, <2>1, FetchBegins
<1> QED  BY <1>4, <1>5

LEMMA QuietSteps ==
  ASSUME IInv, Leave \/ Collect \/ (\E s \in Slot : LeaveSearch(s)) \/ (\E t \in Token : Expire(t))
  PROVE  IInv'
<1>1. CASE Leave
  BY <1>1, TasksStay
     DEF Leave, Unmount, IInv, TypeOK, Mounted, server, query, rest
<1>2. CASE Collect
  BY <1>2, TasksStay
     DEF Collect, IInv, TypeOK, Mounted, server, screen, rest
<1>3. ASSUME NEW s \in Slot, LeaveSearch(s) PROVE IInv'
  BY <1>3, TasksStay
     DEF LeaveSearch, IInv, TypeOK, Mounted, server, query, rest
<1>4. ASSUME NEW t \in Token, Expire(t) PROVE IInv'
  BY <1>4, TasksStay
     DEF Expire, IInv, TypeOK, Mounted, screen, query, rest
<1> QED  BY <1>1, <1>2, <1>3, <1>4

------------------------------------------------------------------------------
(* The invariant, and what it is for.                                      *)

LEMMA InitInv == Init => IInv
<1> SUFFICES ASSUME Init PROVE IInv  OBVIOUS
<1>1. TypeOK
  <2>1. task \in [Slot -> Tasks]  BY IdleIsTask DEF Init
  <2>2. First \subseteq Value  BY DEF First, Value
  <2>3. stored \in [User -> Value]  BY <2>2 DEF Init
  <2> QED  BY <2>1, <2>3 DEF Init, TypeOK
<1>2. \A s \in Slot : task[s] = Idle  BY DEF Init
<1>3. MutationsMeant /\ OneEnters /\ Published
  BY <1>2, IdleIsTask DEF MutationsMeant, OneEnters, Published
<1>4. NeverCrossed /\ Mounted /\ Cleared /\ CacheIsOwn /\ FetchCounts
  BY DEF Init, NeverCrossed, Mounted, Cleared, CacheIsOwn, FetchCounts
<1> QED  BY <1>1, <1>3, <1>4 DEF IInv

LEMMA ProgressStep == ASSUME IInv, NEW s \in Slot, Progress(s) PROVE IInv'
<1>1. CASE Serve(s) \/ Send(s) \/ Refused(s) \/ Unpublish(s)
  BY <1>1, ServeStep, SendStep, RefusedStep, UnpublishStep
<1>2. CASE Hydrate(s) /\ UNCHANGED <<server, storage, screen, query, rest>>
  BY <1>2, HydrateStep
<1>3. CASE SignedIn(s) /\ UNCHANGED <<server, screen, query, rest>>
  BY <1>3, SignedInStep
<1>4. CASE NotSignedIn(s) \/ Settle(s) \/ Out(s)
  BY <1>4, NotSignedInStep, SettleStep, OutStep
<1>5. CASE Fetched(s) \/ NotFetched(s)
  BY <1>5, FetchedStep, NotFetchedStep
<1>6. CASE Invalidate(s) \/ NameSaved(s) \/ Sent(s) \/ NotMutated(s)
  BY <1>6, InvalidateStep, NameSavedStep, SentStep, NotMutatedStep
<1> QED  BY <1>1, <1>2, <1>3, <1>4, <1>5, <1>6 DEF Progress

LEMMA StepInv == IInv /\ [Next]_vars => IInv'
<1> SUFFICES ASSUME IInv, [Next]_vars PROVE IInv'  OBVIOUS
<1>1. ASSUME NEW s \in Slot, Progress(s) PROVE IInv'
  BY <1>1, ProgressStep
<1>2. ASSUME NEW s \in Slot,
             SignIn(s) \/ Logout(s) \/ Visit(s) \/ Retry(s) \/ Lose(s)
      PROVE  IInv'
  BY <1>2, SignInStep, LogoutStep, VisitStep, RetryStep, LoseStep
<1>3. ASSUME NEW s \in Slot, NEW op \in Op, Press(s, op) PROVE IInv'
  BY <1>3, PressStep
<1>4. CASE Leave \/ Collect \/ (\E s \in Slot : LeaveSearch(s)) \/ (\E t \in Token : Expire(t))
  BY <1>4, QuietSteps
<1>5. CASE Restart  BY <1>5, RestartStep
<1>6. CASE UNCHANGED vars
  BY <1>6, TasksStay
     DEF vars, server, session, query, rest, screen, IInv, TypeOK, Mounted
<1> QED  BY <1>1, <1>2, <1>3, <1>4, <1>5, <1>6 DEF Next

LEMMA Invariance == Spec => []IInv
<1>1. Init => IInv  BY InitInv
<1>2. IInv /\ [Next]_vars => IInv'  BY StepInv
<1> QED  BY <1>1, <1>2, PTL DEF Spec

\* The state of the application keeps its shape through any interleaving of
\* what App.tsx, client.ts, sessionStore.ts and the screens have under way.
THEOREM TypeCorrect == Spec => []TypeOK
<1>1. IInv => TypeOK  BY DEF IInv
<1> QED  BY <1>1, Invariance, PTL

\* `token` of the session store and what secure storage holds are never of two
\* sessions, though sessionStore.ts writes them in two steps.
THEOREM TokensNotCrossed == Spec => []NeverCrossed
<1>1. IInv => NeverCrossed  BY DEF IInv
<1> QED  BY <1>1, Invariance, PTL

\* Until a 401 ends a session, what a user sees of the query cache is theirs,
\* for any number of users, sessions and answers that arrive late.
THEOREM CacheIsTheUsers == Spec => []CacheIsOwn
<1>1. IInv => CacheIsOwn  BY DEF IInv
<1> QED  BY <1>1, Invariance, PTL

------------------------------------------------------------------------------
(* What the screen shows.  An answer, or the cache, is current unless a        *)
(* mutation was served that the phone has not heard of, and will hear of.      *)

Mutates(t) == t.kind = "mutate"
Heard(t) == Mutates(t) /\ t.stage = "reply" /\ t.reply = "ok"
Brings(t) == t.kind = "fetch" /\ t.stage = "reply" /\ t.reply = "ok"

\* What a user has was changed, and the answer is on its way.
Unheard(u) == \E s \in Slot : Heard(task[s]) /\ (kind = "name" => task[s].got.owner = u)

IsCurrent(got) == got.value = stored[got.owner] \/ Unheard(got.owner)

Sure == ~doubt /\ ~ejected

FetchIsCurrent ==
  Sure /\ kind # "share" /\ fetching # None =>
    (Brings(task[fetching]) => IsCurrent(task[fetching].got))

CacheIsCurrent ==
  Sure /\ kind # "share" /\ open /\ entry # None /\ fetching = None /\ ~failed =>
    IsCurrent(entry)

\* These screens wait for what they have sent.
OneAtOnce == kind = "name" \/ (kind = "share" /\ open)

OneMutation == Sure /\ OneAtOnce =>
  \A s, r \in Slot : Mutates(task[s]) /\ Mutates(task[r]) => s = r /\ s \in busy

Closed == ~open => busy = {} /\ ~sent

\* A name that is answered is the one that is stored.
NameIsStored == Sure /\ kind = "name" =>
  \A s \in Slot : Heard(task[s]) =>
    task[s].got.value = stored[task[s].got.owner]

\* A composer has sent what it says it has, or what it is about to hear of.
ShareIsSent == Sure /\ kind = "share" /\ open =>
  /\ sent => \A s \in Slot : ~Mutates(task[s])
  /\ \A s \in Slot : Mutates(task[s]) /\ task[s].stage = "sent" =>
       task[s].token \in {None, memory}
  /\ stored[Owner[memory]] =
       IF sent \/ (\E s \in Slot : Heard(task[s])) THEN "sent" ELSE None

ShownInv == /\ FetchIsCurrent /\ CacheIsCurrent
            /\ OneMutation /\ Closed /\ NameIsStored /\ ShareIsSent

\* After a loss, or a 401, nothing is promised.
LEMMA Unsure == ASSUME ~Sure', Closed' PROVE ShownInv'
BY DEF ShownInv, FetchIsCurrent, CacheIsCurrent, OneMutation, NameIsStored, ShareIsSent

\* A step of one slot, in which no mutation is served or heard of.
LEMMA QuietSlot ==
  ASSUME IInv, ShownInv, NEW s \in Slot, NEW t, task' = [task EXCEPT ![s] = t],
         ~Heard(task[s]), ~Heard(t),
         Mutates(t) => Mutates(task[s]),
         open /\ Mutates(t) /\ t.stage = "sent" => t.token \in {None, memory},
         kind' = kind, stored' = stored, Sure' => Sure, open' = open, sent' = sent,
         open => memory' = memory,
         busy' \subseteq busy,
         \A x \in busy : x \in busy' \/ (x = s /\ ~Mutates(t)) \/ kind \in Detail,
         fetching' \in {fetching, s, None},
         Brings(t) /\ fetching' = s => t.got.value = stored[t.got.owner],
         Sure /\ kind # "share" /\ open /\ entry' # None /\ fetching' = None /\ ~failed' =>
           IsCurrent(entry')
  PROVE  ShownInv'
<1>1. task'[s] = t /\ \A x \in Slot \ {s} : task'[x] = task[x]
  BY DEF IInv, TypeOK
<1>2. \A x \in Slot : /\ Heard(task'[x]) <=> Heard(task[x])
                      /\ Heard(task[x]) => task'[x] = task[x]
                      /\ Mutates(task'[x]) => Mutates(task[x])
  BY <1>1
<1>3. \A e : IsCurrent(e) =>
        \/ e.value = stored'[e.owner]
        \/ \E x \in Slot : Heard(task'[x]) /\ (kind' = "name" => task'[x].got.owner = e.owner)
  BY <1>2 DEF IsCurrent, Unheard
<1>4. FetchIsCurrent'
  <2> SUFFICES ASSUME Sure', kind # "share", fetching' # None, Brings(task'[fetching'])
               PROVE  \/ task'[fetching'].got.value = stored'[task'[fetching'].got.owner]
                      \/ \E x \in Slot : /\ Heard(task'[x])
                                         /\ kind' = "name" =>
                                              task'[x].got.owner = task'[fetching'].got.owner
    BY DEF FetchIsCurrent, IsCurrent, Unheard
  <2>1. CASE fetching' = s
    BY <1>1, <2>1
  <2>2. CASE fetching' # s
    <3>1. fetching' = fetching /\ fetching \in Slot \ {s}  BY <2>2 DEF IInv, TypeOK
    <3>2. task'[fetching'] = task[fetching]  BY <1>1, <3>1
    <3>3. IsCurrent(task[fetching].got)
      BY <3>1, <3>2 DEF ShownInv, FetchIsCurrent
    <3> QED  BY <1>3, <3>2, <3>3
  <2> QED  BY <2>1, <2>2
<1>5. CacheIsCurrent'
  <2> SUFFICES ASSUME Sure', kind # "share", open', entry' # None, fetching' = None, ~failed'
               PROVE  \/ entry'.value = stored'[entry'.owner]
                      \/ \E x \in Slot : /\ Heard(task'[x])
                                         /\ kind' = "name" => task'[x].got.owner = entry'.owner
    BY DEF CacheIsCurrent, IsCurrent, Unheard
  <2>1. IsCurrent(entry')  OBVIOUS
  <2> QED  BY <1>3, <2>1
<1>6. OneMutation'
  <2> SUFFICES ASSUME Sure', OneAtOnce', NEW x \in Slot, NEW r \in Slot,
                      Mutates(task'[x]), Mutates(task'[r])
               PROVE  x = r /\ x \in busy'
    BY DEF OneMutation
  <2>1. OneAtOnce /\ kind \notin Detail  BY DEF OneAtOnce, Detail
  <2>2. x = r /\ x \in busy  BY <1>2, <2>1 DEF ShownInv, OneMutation
  <2>3. x = s => Mutates(t)  BY <1>1
  <2> QED  BY <2>1, <2>2, <2>3
<1>7. Closed'  BY DEF ShownInv, Closed
<1>8. NameIsStored'
  BY <1>2 DEF ShownInv, NameIsStored
<1>9. ShareIsSent'
  <2> SUFFICES ASSUME Sure', kind = "share", open
               PROVE  /\ sent => \A x \in Slot : ~Mutates(task'[x])
                      /\ \A x \in Slot : Mutates(task'[x]) /\ task'[x].stage = "sent" =>
                           task'[x].token \in {None, memory}
                      /\ stored[Owner[memory]] =
                           IF sent \/ (\E x \in Slot : Heard(task'[x])) THEN "sent" ELSE None
    BY DEF ShareIsSent
  <2>1. /\ sent => \A x \in Slot : ~Mutates(task[x])
        /\ \A x \in Slot : Mutates(task[x]) /\ task[x].stage = "sent" =>
             task[x].token \in {None, memory}
        /\ stored[Owner[memory]] =
             IF sent \/ (\E x \in Slot : Heard(task[x])) THEN "sent" ELSE None
    BY DEF ShownInv, ShareIsSent
  <2>2. \A x \in Slot : Mutates(task'[x]) /\ task'[x].stage = "sent" =>
          task'[x].token \in {None, memory}
    BY <1>1, <2>1
  <2>3. sent => \A x \in Slot : ~Mutates(task'[x])  BY <1>2, <2>1
  <2>4. (\E x \in Slot : Heard(task'[x])) <=> (\E x \in Slot : Heard(task[x]))  BY <1>2
  <2> QED  BY <2>1, <2>2, <2>3, <2>4
<1> QED  BY <1>4, <1>5, <1>6, <1>7, <1>8, <1>9 DEF ShownInv

LEMMA CacheStays ==
  ASSUME ShownInv, entry' = entry, fetching' = fetching, failed' = failed
  PROVE  Sure /\ kind # "share" /\ open /\ entry' # None /\ fetching' = None /\ ~failed' =>
           IsCurrent(entry')
BY DEF ShownInv, CacheIsCurrent

LEMMA QuietCall ==
  ASSUME IInv, ShownInv, NEW s \in Slot, NEW t, task' = [task EXCEPT ![s] = t],
         ~Heard(task[s]), ~Heard(t), Mutates(t) => Mutates(task[s]),
         open /\ Mutates(t) /\ t.stage = "sent" => t.token \in {None, memory},
         stored' = stored, UNCHANGED <<screen, query>>, kind' = kind, Sure' => Sure,
         open => memory' = memory,
         Brings(t) /\ fetching = s => t.got.value = stored[t.got.owner]
  PROVE  ShownInv'
<1>1. open' = open /\ sent' = sent /\ busy' = busy  BY DEF screen
<1>2. entry' = entry /\ failed' = failed /\ fetching' = fetching  BY DEF query
<1>3. fetching \in Slot \cup {None}  BY DEF IInv, TypeOK
<1>4. Sure /\ kind # "share" /\ open /\ entry' # None /\ fetching' = None /\ ~failed' =>
        IsCurrent(entry')
  BY <1>2, CacheStays
<1>5. busy' \subseteq busy
      /\ \A x \in busy : x \in busy' \/ (x = s /\ ~Mutates(t)) \/ kind \in Detail
  BY <1>1
<1>6. fetching' \in {fetching, s, None} /\
      (Brings(t) /\ fetching' = s => t.got.value = stored[t.got.owner])
  BY <1>2
<1> QED  BY <1>1, <1>4, <1>5, <1>6, QuietSlot

\* A call that goes on, when neither before nor after its mutation is answered.
LEMMA GoesOn ==
  ASSUME IInv, ShownInv, NEW s \in Slot, task[s] \in Call,
         NEW stage, NEW token, NEW reply, NEW got,
         task' = [task EXCEPT ![s] = Made(task[s], stage, token, reply, got)],
         ~Heard(task[s]), task[s].kind = "mutate" => ~(stage = "reply" /\ reply = "ok"),
         open /\ stage = "sent" => token \in {None, memory},
         stored' = stored, UNCHANGED <<screen, query>>, kind' = kind, Sure' => Sure,
         open => memory' = memory,
         task[s].kind = "fetch" /\ stage = "reply" /\ reply = "ok" /\ fetching = s =>
           got.value = stored[got.owner]
  PROVE  ShownInv'
<1> DEFINE t == Made(task[s], stage, token, reply, got)
<1>1. /\ t.kind = task[s].kind /\ t.stage = stage /\ t.token = token /\ t.reply = reply
      /\ t.got = got
  BY DEF Made
<1>2. task' = [task EXCEPT ![s] = t]  OBVIOUS
<1> HIDE DEF t
<1>3. ~Heard(t) /\ (Mutates(t) => Mutates(task[s]))
  BY <1>1 DEF Heard, Mutates
<1>4. Brings(t) /\ fetching = s => t.got.value = stored[t.got.owner]
  BY <1>1 DEF Brings
<1> QED  BY <1>1, <1>2, <1>3, <1>4, QuietCall

LEMMA SendShows == ASSUME IInv, ShownInv, NEW s \in Slot, Send(s) PROVE ShownInv'
<1>1. task[s] \in Call /\ task[s].stage = "token"  BY CallAt DEF Send
<1>2. task' = [task EXCEPT ![s] = Made(task[s], "sent", storage, task[s].reply, task[s].got)]
  BY <1>1, TokenGoesOn DEF Send, Run
<1>3. UNCHANGED <<screen, query, memory, kind, stored>> /\ Sure' = Sure
  BY DEF Send, server, session, rest, Sure
<1>4. open => storage \in {None, memory}  BY DEF IInv, NeverCrossed, Mounted
<1>5. ~Heard(task[s])  BY <1>1 DEF Heard
<1> QED  BY <1>1, <1>2, <1>3, <1>4, <1>5, GoesOn

LEMMA LoseShows == ASSUME IInv, ShownInv, NEW s \in Slot, Lose(s) PROVE ShownInv'
<1>1. UNCHANGED <<screen, query, memory, kind, ejected, stored>>
  BY DEF Lose, server, session
<1>2. doubt' = (doubt \/ task[s].kind = "mutate")  BY DEF Lose
<1>3. CASE task[s].kind = "mutate"
  <2>1. Closed'  BY <1>1 DEF ShownInv, Closed, screen
  <2> QED  BY <1>2, <1>3, <2>1, Unsure DEF Sure
<1>4. CASE task[s].kind # "mutate"
  <2> DEFINE t == [task[s] EXCEPT !.stage = "reply", !.reply = "error", !.token = None,
                                  !.got = None]
  <2>1. task[s] \in Call  BY CallAt DEF Lose
  <2>2. t.kind = task[s].kind /\ t.reply = "error" /\ t.stage = "reply"
    BY <2>1 DEF Call
  <2>3. task' = [task EXCEPT ![s] = t]  BY DEF Lose, Run
  <2> HIDE DEF t
  <2>4. ~Heard(task[s]) /\ ~Heard(t) /\ ~Mutates(t) /\ ~Brings(t)
    BY <1>4, <2>2 DEF Heard, Mutates, Brings
  <2>5. Sure' => Sure  BY <1>1, <1>2 DEF Sure
  <2> QED  BY <1>1, <2>3, <2>4, <2>5, QuietCall
<1> QED  BY <1>3, <1>4

LEMMA RefusedShows == ASSUME IInv, ShownInv, NEW s \in Slot, Refused(s) PROVE ShownInv'
<1>1. task[s] \in Call /\ task[s].reply = "refused"  BY CallAt DEF Refused
<1>2. task' = [task EXCEPT ![s] =
                 Made(task[s], "unpublish", task[s].token, task[s].reply, task[s].got)]
  BY <1>1, SlotGoesOn DEF Refused, IInv
<1>3. UNCHANGED <<screen, query, memory, kind, stored>> /\ Sure' = Sure
  BY DEF Refused, server, rest, Sure
<1>4. ~Heard(task[s])  BY <1>1 DEF Heard
<1> QED  BY <1>1, <1>2, <1>3, <1>4, GoesOn

\* The screens of a session that was ended by a 401 are gone.
LEMMA UnpublishShows == ASSUME IInv, ShownInv, NEW s \in Slot, Unpublish(s) PROVE ShownInv'
<1>1. Closed' /\ ~Sure'  BY DEF Unpublish, Unmount, Closed, Sure
<1> QED  BY <1>1, Unsure

LEMMA SettleShows == ASSUME IInv, ShownInv, NEW s \in Slot, Settle(s) PROVE ShownInv'
<1>1. task[s] \in Call /\ task[s].kind = "logout"
  BY TaskOf DEF Settle, IInv, Calls
<1>2. task' = [task EXCEPT ![s] =
                 Made(task[s], "out", task[s].token, task[s].reply, task[s].got)]
  BY <1>1, SlotGoesOn DEF Settle, IInv
<1>3. UNCHANGED <<screen, query, memory, kind, stored>> /\ Sure' = Sure
  BY DEF Settle, server, rest, Sure
<1>4. ~Heard(task[s])  BY <1>1 DEF Heard, Mutates
<1> QED  BY <1>1, <1>2, <1>3, <1>4, GoesOn

\* A slot that begins with, or ends in, something that is no mutation.
LEMMA OtherTask ==
  ASSUME IInv, ShownInv, NEW s \in Slot, NEW t, task' = [task EXCEPT ![s] = t],
         ~Heard(task[s]), ~Mutates(t), ~Brings(t),
         stored' = stored, UNCHANGED <<screen, query, rest>>, open => memory' = memory
  PROVE  ShownInv'
<1>1. Sure' = Sure /\ kind' = kind  BY DEF rest, Sure
<1>2. ~Heard(t)  BY DEF Heard
<1> QED  BY <1>1, <1>2, QuietCall

LEMMA RequestIs ==
  ASSUME NEW again
  PROVE  /\ \A what \in {"signIn", "logout", "fetch"} :
              LET t == Request(what, None, again) IN ~Mutates(t) /\ ~Brings(t) /\ ~Heard(t)
         /\ ~Mutates(Idle) /\ ~Brings(Idle) /\ ~Heard(Idle)
BY DEF Request, Mutates, Brings, Heard, Idle

LEMMA SessionShows ==
  ASSUME IInv, ShownInv, NEW s \in Slot,
         \/ SignIn(s) \/ Logout(s) \/ NotSignedIn(s)
         \/ SignedIn(s) /\ UNCHANGED <<server, screen, query, rest>>
         \/ Hydrate(s) /\ UNCHANGED <<server, storage, screen, query, rest>>
  PROVE  ShownInv'
<1>1. stored' = stored /\ UNCHANGED <<screen, query, rest>>
  BY DEF SignIn, Logout, NotSignedIn, server
<1>2. CASE SignIn(s) \/ Logout(s)
  <2>1. /\ task[s] = Idle /\ memory' = memory
        /\ \E what \in {"signIn", "logout"} : task' = [task EXCEPT ![s] = Request(what, None, 0)]
    BY <1>2 DEF SignIn, Logout, Run, session
  <2> QED  BY <1>1, <2>1, RequestIs, OtherTask
<1>3. CASE NotSignedIn(s)
  <2>1. task' = [task EXCEPT ![s] = Idle] /\ task[s].kind = "signIn" /\ memory' = memory
    BY <1>3 DEF NotSignedIn, Run, session
  <2>2. ~Heard(task[s])  BY <2>1 DEF Heard, Mutates
  <2> QED  BY <1>1, <2>1, <2>2, RequestIs, OtherTask
<1>4. CASE SignedIn(s) \/ Hydrate(s)
  <2>1. Enters(task[s])  BY <1>4 DEF SignedIn, Hydrate, At, Enters
  <2>2. ~open  BY <2>1 DEF IInv, OneEnters, Mounted
  <2>3. ~Heard(task[s])  BY <2>1 DEF Enters, Heard, Mutates
  <2>4. PICK t : task' = [task EXCEPT ![s] = t] /\ ~Mutates(t) /\ ~Brings(t)
    <3>1. CASE task' = [task EXCEPT ![s] = Idle]  BY <3>1, RequestIs
    <3>2. CASE Step(s, "publish") /\ task[s].kind = "signIn"
      <4>1. task[s] \in Call  BY <3>2, TaskOf DEF IInv, Calls
      <4> DEFINE t == Made(task[s], "publish", task[s].token, task[s].reply, task[s].got)
      <4>2. task' = [task EXCEPT ![s] = t]  BY <3>2, <4>1, SlotGoesOn DEF IInv
      <4>3. t.kind = "signIn"  BY <3>2 DEF Made
      <4> HIDE DEF t
      <4> QED  BY <4>2, <4>3 DEF Mutates, Brings
    <3>3. CASE Run(s, [task[s] EXCEPT !.stage = "publish", !.token = storage])
               /\ task[s].kind = "hydrate"
      <4> DEFINE t == [task[s] EXCEPT !.stage = "publish", !.token = storage]
      <4>1. task[s] \in Hydration  BY <3>3, TaskOf DEF IInv
      <4>2. t.kind = "hydrate"  BY <4>1, <3>3 DEF Hydration
      <4>3. task' = [task EXCEPT ![s] = t]  BY <3>3 DEF Run
      <4> HIDE DEF t
      <4> QED  BY <4>2, <4>3 DEF Mutates, Brings
    <3> QED  BY <1>4, <3>1, <3>2, <3>3 DEF SignedIn, Hydrate, At, Run
  <2> QED  BY <1>1, <2>2, <2>3, <2>4, OtherTask
<1> QED  BY <1>2, <1>3, <1>4

\* Where no mutation runs and no screen is open, a session begins with nothing.
LEMMA AnewShows ==
  ASSUME open' = FALSE, sent' = FALSE, busy' = {}, fetching' = None,
         Sure' /\ kind' = "name" => \A s \in Slot : ~Mutates(task'[s])
  PROVE  ShownInv'
BY DEF ShownInv, FetchIsCurrent, CacheIsCurrent, OneMutation, OneAtOnce, Closed, NameIsStored,
       ShareIsSent, Heard

LEMMA OutShows == ASSUME IInv, ShownInv, NEW s \in Slot, Out(s) PROVE ShownInv'
<1>1. task'[s] = Idle /\ \A r \in Slot \ {s} : task'[r] = task[r]
  BY DEF Out, Run, IInv, TypeOK
<1>2. /\ open' = FALSE /\ sent' = FALSE /\ busy' = {} /\ fetching' = None
      /\ doubt' = NameUnderWay /\ kind' = kind
  BY DEF Out, Unmount
<1>3. Sure' /\ kind' = "name" => \A r \in Slot : ~Mutates(task'[r])
  BY <1>1, <1>2, RequestIs DEF Sure, NameUnderWay, Running, Mutates
<1> QED  BY <1>2, <1>3, AnewShows

LEMMA RestartShows == ASSUME IInv, ShownInv, Restart PROVE ShownInv'
<1>1. \A s \in Slot : task'[s].kind \in {"hydrate", "idle"}
  BY DEF Restart, Idle
<1>2. open' = FALSE /\ sent' = FALSE /\ busy' = {} /\ fetching' = None
  BY DEF Restart, Unmount
<1> QED  BY <1>1, <1>2, AnewShows DEF Mutates

\* An answer that changes nothing for the user.
LEMMA AnswerShows ==
  ASSUME IInv, ShownInv, NEW s \in Slot, task[s] \in Call, task[s].stage = "sent",
         NEW token, NEW reply, NEW got, ServerSteps(s, token, reply, got),
         stored' = stored, task[s].kind = "mutate" => reply # "ok",
         task[s].kind = "fetch" /\ reply = "ok" => got.value = stored[got.owner]
  PROVE  ShownInv'
<1>1. task' = [task EXCEPT ![s] = Made(task[s], "reply", token, reply, got)]
  BY DEF ServerSteps
<1>2. UNCHANGED <<screen, query, memory, kind>> /\ Sure' = Sure
  BY DEF ServerSteps, session, rest, Sure
<1>3. ~Heard(task[s])  BY DEF Heard
<1> QED  BY <1>1, <1>2, <1>3, GoesOn

\* A mutation that is served: whatever is on the way or displayed may be old now.
LEMMA MutationShows ==
  ASSUME IInv, ShownInv, NEW s \in Slot, task[s] \in Call, task[s].kind = "mutate",
         task[s].stage = "sent", task[s].token \in Token, NEW u, u = Owner[task[s].token],
         NEW got,
         got = IF kind = "name" THEN [value |-> task[s].op.body, owner |-> u] ELSE None,
         ServerSteps(s, None, "ok", got),
         stored' = [stored EXCEPT ![u] = After(task[s].op, stored[u])]
  PROVE  ShownInv'
<1> DEFINE t == Made(task[s], "reply", None, "ok", got)
<1>1. Heard(t) /\ t.got = got  BY DEF Made, Heard, Mutates
<1>2. task' = [task EXCEPT ![s] = t]  BY DEF ServerSteps
<1> HIDE DEF t
<1>3. task'[s] = t /\ \A x \in Slot \ {s} : task'[x] = task[x]
  BY <1>2 DEF IInv, TypeOK
<1>4. /\ UNCHANGED <<open, sent, busy, entry, failed, fetching, memory, kind>>
      /\ Sure' = Sure
  BY DEF ServerSteps, screen, query, session, rest, Sure
<1>5. ~Heard(task[s]) /\ Mutates(task[s])  BY DEF Heard, Mutates
<1>6. u \in User  BY PhoneAssumption
<1>7. stored'[u] = After(task[s].op, stored[u])
      /\ \A w \in User \ {u} : stored'[w] = stored[w]
  BY <1>6 DEF IInv, TypeOK
<1>8. \A e : e.owner \in User /\ IsCurrent(e) =>
        \/ e.value = stored'[e.owner]
        \/ \E x \in Slot : Heard(task'[x]) /\ (kind' = "name" => task'[x].got.owner = e.owner)
  <2> SUFFICES ASSUME NEW e, e.owner \in User, IsCurrent(e)
               PROVE  \/ e.value = stored'[e.owner]
                      \/ \E x \in Slot : /\ Heard(task'[x])
                                         /\ kind' = "name" => task'[x].got.owner = e.owner
    OBVIOUS
  <2>1. CASE e.owner = u
    <3>1. Heard(task'[s]) /\ (kind' = "name" => task'[s].got.owner = e.owner)
      BY <1>1, <1>3, <1>4, <2>1
    <3> QED  BY <3>1
  <2>2. CASE e.owner # u
    <3>1. CASE e.value = stored[e.owner]  BY <1>7, <2>2, <3>1
    <3>2. ASSUME NEW x \in Slot, Heard(task[x]), kind = "name" => task[x].got.owner = e.owner
          PROVE  Heard(task'[x]) /\ (kind' = "name" => task'[x].got.owner = e.owner)
      BY <1>3, <1>4, <1>5, <3>2
    <3> QED  BY <3>1, <3>2 DEF IsCurrent, Unheard
  <2> QED  BY <2>1, <2>2
<1>9. FetchIsCurrent'
  <2> SUFFICES ASSUME Sure, kind # "share", fetching # None, Brings(task'[fetching])
               PROVE  \/ task'[fetching].got.value = stored'[task'[fetching].got.owner]
                      \/ \E x \in Slot : /\ Heard(task'[x])
                                         /\ kind' = "name" =>
                                              task'[x].got.owner = task'[fetching].got.owner
    BY <1>4 DEF FetchIsCurrent, IsCurrent, Unheard
  <2>1. fetching # s  BY <1>1, <1>3 DEF Heard, Mutates, Brings
  <2>2. fetching \in Slot /\ task'[fetching] = task[fetching]
    BY <1>3, <2>1 DEF IInv, TypeOK
  <2>3. task[fetching].got.owner \in User
    <3>1. task[fetching] \in Call /\ task[fetching].got \in Entry \cup {None}
      BY <2>2, TaskOf, CallIs DEF IInv, Calls, Brings
    <3>2. memory # None /\ Own(task[fetching].got)
      BY <2>2 DEF IInv, Cleared, FetchCounts, AsksForOwn, Brings, Sure
    <3>3. memory \in Token  BY <3>2 DEF IInv, TypeOK
    <3> QED  BY <3>2, <3>3, PhoneAssumption DEF Own
  <2>4. IsCurrent(task[fetching].got)  BY <2>2 DEF ShownInv, FetchIsCurrent
  <2> QED  BY <1>8, <2>2, <2>3, <2>4
<1>10. CacheIsCurrent'
  <2> SUFFICES ASSUME Sure, kind # "share", open, entry # None, fetching = None, ~failed
               PROVE  \/ entry.value = stored'[entry.owner]
                      \/ \E x \in Slot : /\ Heard(task'[x])
                                         /\ kind' = "name" => task'[x].got.owner = entry.owner
    BY <1>4 DEF CacheIsCurrent, IsCurrent, Unheard
  <2>1. entry.owner \in User  BY DEF IInv, TypeOK, Entry
  <2>2. IsCurrent(entry)  BY DEF ShownInv, CacheIsCurrent
  <2> QED  BY <1>8, <2>1, <2>2
<1>11. OneMutation'
  BY <1>1, <1>3, <1>4, <1>5 DEF ShownInv, OneMutation, OneAtOnce, Heard
<1>12. Closed'  BY <1>4 DEF ShownInv, Closed
<1>13. NameIsStored'
  <2> SUFFICES ASSUME Sure, kind = "name", NEW x \in Slot, Heard(task'[x])
               PROVE  task'[x].got.value = stored'[task'[x].got.owner]
    BY <1>4 DEF NameIsStored
  <2>1. x = s
    BY <1>3, <1>5 DEF ShownInv, OneMutation, OneAtOnce, Heard
  <2>2. got = [value |-> task[s].op.body, owner |-> u] /\ task[s].op.op = "put"
    BY DEF IInv, MutationsMeant, Meant
  <2>3. After(task[s].op, stored[u]) = task[s].op.body  BY <2>2 DEF After
  <2> QED  BY <1>1, <1>3, <1>7, <2>1, <2>2, <2>3
<1>14. ShareIsSent'
  <2> SUFFICES ASSUME Sure, kind = "share", open
               PROVE  /\ ~sent
                      /\ \A x \in Slot : Mutates(task'[x]) /\ task'[x].stage = "sent" =>
                           task'[x].token \in {None, memory}
                      /\ stored'[Owner[memory]] = "sent"
    BY <1>1, <1>3, <1>4 DEF ShareIsSent
  <2>1. \A x \in Slot : Mutates(task[x]) => x = s
    BY <1>5 DEF ShownInv, OneMutation, OneAtOnce
  <2>2. ~sent /\ task[s].token \in {None, memory}
    BY <1>5 DEF ShownInv, ShareIsSent
  <2>3. u = Owner[memory]  BY <2>2, PhoneAssumption
  <2>4. \A x \in Slot : ~Heard(task[x])  BY <1>5, <2>1 DEF Heard
  <2>5. stored[u] = None  BY <2>2, <2>3, <2>4 DEF ShownInv, ShareIsSent
  <2>6. task[s].op.op = "send"  BY DEF IInv, MutationsMeant, Meant
  <2>7. After(task[s].op, stored[u]) = "sent"  BY <2>5, <2>6 DEF After
  <2>8. ~(task'[s].stage = "sent")  BY <1>1, <1>3 DEF Heard
  <2> QED  BY <1>3, <1>7, <2>1, <2>2, <2>3, <2>7, <2>8
<1> QED  BY <1>9, <1>10, <1>11, <1>12, <1>13, <1>14 DEF ShownInv

LEMMA ServeShows == ASSUME IInv, ShownInv, NEW s \in Slot, Serve(s) PROVE ShownInv'
<1>1. task[s] \in Call /\ task[s].stage = "sent"  BY ServeDoes
<1>2. CASE Answered(s)
  BY <1>1, <1>2, AnswerShows DEF Answered, AnsweredBy
<1>3. CASE Changed(s)
  BY <1>1, <1>3, MutationShows DEF Changed
<1> QED  BY <1>2, <1>3, ServeDoes

LEMMA FetchedShows == ASSUME IInv, ShownInv, NEW s \in Slot, Fetched(s) PROVE ShownInv'
<1>1. task[s].kind = "fetch" /\ task[s].stage = "reply" /\ task[s].reply = "ok"
  BY DEF Fetched, At
<1>2. UNCHANGED <<stored, memory, kind, open, sent, busy>> /\ Sure' = Sure
  BY DEF Fetched, server, session, screen, rest, Sure
<1>3. task' = [task EXCEPT ![s] = Idle]  BY DEF Fetched, Run
<1>4. ~Heard(task[s]) /\ Brings(task[s])  BY <1>1 DEF Heard, Mutates, Brings
<1>5. fetching' \in {fetching, s, None}  BY DEF Fetched, query
<1>6. Sure /\ kind # "share" /\ open /\ entry' # None /\ fetching' = None /\ ~failed' =>
        IsCurrent(entry')
  <2>1. CASE fetching = s
    <3>1. entry' = task[s].got  BY <2>1 DEF Fetched
    <3>2. s # None  BY PhoneAssumption
    <3> QED  BY <1>4, <2>1, <3>1, <3>2 DEF ShownInv, FetchIsCurrent
  <2>2. CASE fetching # s
    <3>1. entry' = entry /\ fetching' = fetching /\ failed' = failed
      BY <2>2 DEF Fetched, query
    <3> QED  BY <3>1, CacheStays
  <2> QED  BY <2>1, <2>2
<1>7. ~Mutates(Idle) /\ ~Brings(Idle) /\ ~Heard(Idle)  BY RequestIs
<1> QED  BY <1>2, <1>3, <1>4, <1>5, <1>6, <1>7, QuietSlot

LEMMA NotFetchedShows == ASSUME IInv, ShownInv, NEW s \in Slot, NotFetched(s) PROVE ShownInv'
<1>1. task[s].kind = "fetch"  BY DEF NotFetched
<1>2. UNCHANGED <<stored, memory, kind, open, sent>> /\ Sure' = Sure
  BY DEF NotFetched, server, session, rest, Sure
<1>3. ~Heard(task[s])  BY <1>1 DEF Heard, Mutates
<1>4. PICK t \in {Idle, Request("fetch", None, task[s].tries + 1)} :
        task' = [task EXCEPT ![s] = t]
  BY DEF NotFetched, Run
<1>5. ~Mutates(t) /\ ~Brings(t) /\ ~Heard(t)  BY RequestIs
<1>6. fetching' \in {fetching, s, None} /\ entry' = entry
  BY DEF NotFetched, query
<1>7. /\ busy' \subseteq busy
      /\ \A x \in busy : x \in busy' \/ (x = s /\ ~Mutates(t)) \/ kind \in Detail
  BY DEF NotFetched
<1>8. Sure /\ kind # "share" /\ open /\ entry' # None /\ fetching' = None /\ ~failed' =>
        IsCurrent(entry')
  <2>1. fetching' = None /\ ~failed' => fetching = None /\ ~failed
    BY PhoneAssumption DEF NotFetched, query
  <2> QED  BY <1>6, <2>1 DEF ShownInv, CacheIsCurrent
<1> QED  BY <1>2, <1>3, <1>4, <1>5, <1>6, <1>7, <1>8, QuietSlot

LEMMA RetryShows == ASSUME IInv, ShownInv, NEW s \in Slot, Retry(s) PROVE ShownInv'
<1>1. /\ task[s] = Idle /\ fetching' = s
      /\ task' = [task EXCEPT ![s] = Request("fetch", None, 0)]
  BY DEF Retry, Run
<1>2. UNCHANGED <<stored, memory, kind, open, sent, busy>> /\ Sure' = Sure
  BY DEF Retry, server, session, screen, rest, Sure
<1>3. s # None  BY PhoneAssumption
<1> QED  BY <1>1, <1>2, <1>3, RequestIs, QuietSlot

LEMMA NotMutatedShows == ASSUME IInv, ShownInv, NEW s \in Slot, NotMutated(s) PROVE ShownInv'
<1>1. task' = [task EXCEPT ![s] = Idle]  BY DEF NotMutated, Run
<1>2. UNCHANGED <<stored, memory, kind, open, sent, entry, failed, fetching>> /\ Sure' = Sure
  BY DEF NotMutated, server, session, query, rest, Sure
<1>3. ~Heard(task[s])  BY DEF NotMutated, Fails, At, Heard
<1>4. busy' \subseteq busy /\ \A x \in busy : x \in busy' \/ x = s
  BY DEF NotMutated, Release
<1>5. Sure /\ kind # "share" /\ open /\ entry' # None /\ fetching' = None /\ ~failed' =>
        IsCurrent(entry')
  BY <1>2, CacheStays
<1> QED  BY <1>1, <1>2, <1>3, <1>4, <1>5, RequestIs, QuietSlot

\* What is pressed is one mutation more; name and composer had none.
LEMMA PressShows ==
  ASSUME IInv, ShownInv, NEW s \in Slot, NEW op \in Op, Press(s, op) PROVE ShownInv'
<1> DEFINE t == Request("mutate", op, 0)
<1>1. /\ task[s] = Idle /\ task' = [task EXCEPT ![s] = t] /\ busy' = busy \cup {s} /\ open
      /\ \A x \in busy : ~Blocks(task[x].op, op)
      /\ kind = "share" => ~sent
  BY DEF Press, Run, Offers, ShareOffers
<1>2. /\ UNCHANGED <<stored, memory, kind, open, sent, entry, failed, fetching>>
      /\ Sure' = Sure
  BY DEF Press, server, session, query, rest, Sure
<1>3. Mutates(t) /\ ~Heard(t) /\ ~Brings(t) /\ t.stage = "token"
  BY DEF Request, Mutates, Heard, Brings
<1> HIDE DEF t
<1>4. task'[s] = t /\ \A x \in Slot \ {s} : task'[x] = task[x]
  BY <1>1 DEF IInv, TypeOK
<1>5. ~Heard(task[s]) /\ ~Brings(task[s])  BY <1>1, RequestIs
<1>6. \A x \in Slot : /\ Heard(task'[x]) <=> Heard(task[x])
                      /\ Heard(task[x]) => task'[x] = task[x]
                      /\ Brings(task'[x]) => task'[x] = task[x]
  BY <1>3, <1>4, <1>5
<1>7. \A e : IsCurrent(e) =>
        \/ e.value = stored'[e.owner]
        \/ \E x \in Slot : Heard(task'[x]) /\ (kind' = "name" => task'[x].got.owner = e.owner)
  BY <1>2, <1>6 DEF IsCurrent, Unheard
<1>8. FetchIsCurrent'
  <2> SUFFICES ASSUME Sure, kind # "share", fetching # None, Brings(task'[fetching])
               PROVE  \/ task'[fetching].got.value = stored'[task'[fetching].got.owner]
                      \/ \E x \in Slot : /\ Heard(task'[x])
                                         /\ kind' = "name" =>
                                              task'[x].got.owner = task'[fetching].got.owner
    BY <1>2 DEF FetchIsCurrent, IsCurrent, Unheard
  <2>1. task'[fetching] = task[fetching]  BY <1>6 DEF IInv, TypeOK
  <2>2. IsCurrent(task[fetching].got)  BY <2>1 DEF ShownInv, FetchIsCurrent
  <2> QED  BY <1>7, <2>1, <2>2
<1>9. CacheIsCurrent'
  <2> SUFFICES ASSUME Sure, kind # "share", open, entry # None, fetching = None, ~failed
               PROVE  \/ entry.value = stored'[entry.owner]
                      \/ \E x \in Slot : /\ Heard(task'[x])
                                         /\ kind' = "name" => task'[x].got.owner = entry.owner
    BY <1>2 DEF CacheIsCurrent, IsCurrent, Unheard
  <2>1. IsCurrent(entry)  BY DEF ShownInv, CacheIsCurrent
  <2> QED  BY <1>7, <2>1
<1>10. Sure /\ OneAtOnce => \A x \in Slot : ~Mutates(task[x])
  <2>1. OneAtOnce => busy = {}  BY <1>1 DEF OneAtOnce, Blocks
  <2> QED  BY <2>1 DEF ShownInv, OneMutation
<1>11. OneMutation'
  BY <1>1, <1>2, <1>4, <1>10 DEF OneMutation, OneAtOnce
<1>12. Closed'  BY <1>1, <1>2 DEF Closed
<1>13. NameIsStored'  BY <1>2, <1>6 DEF ShownInv, NameIsStored
<1>14. ShareIsSent'
  <2> SUFFICES ASSUME Sure, kind = "share"
               PROVE  /\ \A x \in Slot : Mutates(task'[x]) /\ task'[x].stage = "sent" =>
                           task'[x].token \in {None, memory}
                      /\ stored[Owner[memory]] =
                           IF sent \/ (\E x \in Slot : Heard(task'[x])) THEN "sent" ELSE None
    BY <1>1, <1>2 DEF ShareIsSent
  <2>1. \A x \in Slot : Mutates(task'[x]) => x = s
    BY <1>1, <1>4, <1>10 DEF OneAtOnce
  <2>2. (\E x \in Slot : Heard(task'[x])) <=> (\E x \in Slot : Heard(task[x]))  BY <1>6
  <2>3. stored[Owner[memory]] =
          IF sent \/ (\E x \in Slot : Heard(task[x])) THEN "sent" ELSE None
    BY <1>1 DEF ShownInv, ShareIsSent
  <2> QED  BY <1>3, <1>4, <2>1, <2>2, <2>3
<1> QED  BY <1>8, <1>9, <1>11, <1>12, <1>13, <1>14 DEF ShownInv

LEMMA VisitShows == ASSUME IInv, ShownInv, NEW s \in Slot, Visit(s) PROVE ShownInv'
<1>1. /\ UNCHANGED <<memory, kind, entry, failed, sent, busy, ejected>>
      /\ ~open /\ open' /\ memory # None /\ task[s] = Idle
  BY DEF Visit, session
<1>2. busy = {} /\ ~sent  BY <1>1 DEF ShownInv, Closed
<1>3. \/ fetching # None /\ task' = task /\ fetching' = fetching
      \/ task' = [task EXCEPT ![s] = Request("fetch", None, 0)] /\ fetching' = s
  BY DEF Visit, Run
<1>4. fetching' # None  BY <1>3, PhoneAssumption
<1>5. \A x \in Slot : /\ Heard(task'[x]) => task'[x] = task[x]
                      /\ Heard(task[x]) => task'[x] = task[x]
                      /\ Mutates(task'[x]) => task'[x] = task[x]
  BY <1>1, <1>3, RequestIs DEF IInv, TypeOK
<1>6. CacheIsCurrent'  BY <1>4 DEF CacheIsCurrent
<1>7. Closed'  BY <1>1 DEF Closed
<1>8. CASE kind = "share"
  <2>1. doubt' = (doubt \/ Running("mutate"))
        /\ stored' = [stored EXCEPT ![Owner[memory]] = None]
    BY <1>8 DEF Visit
  <2>2. Sure' => \A x \in Slot : ~Mutates(task'[x])
    BY <1>5, <2>1 DEF Sure, Running, Mutates
  <2>3. stored'[Owner[memory]] = None
    BY <1>1, <2>1, PhoneAssumption DEF IInv, TypeOK
  <2>4. FetchIsCurrent' /\ NameIsStored'  BY <1>1, <1>8 DEF FetchIsCurrent, NameIsStored
  <2>5. OneMutation'  BY <2>2 DEF OneMutation
  <2>6. ShareIsSent'  BY <1>1, <1>2, <2>2, <2>3 DEF ShareIsSent, Heard
  <2> QED  BY <1>6, <1>7, <2>4, <2>5, <2>6 DEF ShownInv
<1>9. CASE kind # "share"
  <2>1. Sure' = Sure /\ stored' = stored  BY <1>1, <1>9 DEF Visit, Sure
  <2>2. \A e : IsCurrent(e) =>
          \/ e.value = stored'[e.owner]
          \/ \E x \in Slot : Heard(task'[x]) /\ (kind' = "name" => task'[x].got.owner = e.owner)
    BY <1>1, <1>5, <2>1 DEF IsCurrent, Unheard
  <2>3. FetchIsCurrent'
    <3> SUFFICES ASSUME Sure, Brings(task'[fetching'])
                 PROVE  \/ task'[fetching'].got.value = stored'[task'[fetching'].got.owner]
                        \/ \E x \in Slot : /\ Heard(task'[x])
                                           /\ kind' = "name" =>
                                                task'[x].got.owner = task'[fetching'].got.owner
      BY <2>1 DEF FetchIsCurrent, IsCurrent, Unheard
    <3>1. fetching # None /\ task' = task /\ fetching' = fetching
      BY <1>3, RequestIs DEF IInv, TypeOK
    <3>2. IsCurrent(task[fetching].got)  BY <1>9, <3>1 DEF ShownInv, FetchIsCurrent
    <3> QED  BY <2>2, <3>1, <3>2
  <2>4. OneMutation'
    BY <1>1, <1>5, <1>9, <2>1 DEF ShownInv, OneMutation, OneAtOnce
  <2>5. NameIsStored'  BY <1>1, <1>5, <2>1 DEF ShownInv, NameIsStored
  <2>6. ShareIsSent'  BY <1>1, <1>9 DEF ShareIsSent
  <2> QED  BY <1>6, <1>7, <2>3, <2>4, <2>5, <2>6 DEF ShownInv
<1> QED  BY <1>8, <1>9

\* The query is fetched anew, or the screen is not told.
LEMMA InvalidateShows == ASSUME IInv, ShownInv, NEW s \in Slot, Invalidate(s) PROVE ShownInv'
<1>1. UNCHANGED <<open, sent, entry, failed, kind, ejected>> /\ kind \notin {"name", "share"}
      /\ busy' = busy \ {s}
  BY DEF Invalidate, Release
<1>2. Closed'  BY <1>1 DEF ShownInv, Closed
<1>3. OneMutation' /\ NameIsStored' /\ ShareIsSent'
  BY <1>1 DEF OneMutation, OneAtOnce, NameIsStored, ShareIsSent
<1>4. CASE open /\ entry # None
  <2>1. task' = [task EXCEPT ![s] = Request("fetch", None, 0)] /\ fetching' = s
    BY <1>4 DEF Invalidate, Run
  <2>2. ~Brings(task'[fetching']) /\ fetching' # None
    BY <2>1, RequestIs, PhoneAssumption DEF IInv, TypeOK
  <2>3. FetchIsCurrent' /\ CacheIsCurrent'  BY <2>2 DEF FetchIsCurrent, CacheIsCurrent
  <2> QED  BY <1>2, <1>3, <2>3 DEF ShownInv
<1>5. CASE ~(open /\ entry # None)
  <2>1. fetching' = fetching /\ (Sure' => fetching = None)
    BY <1>1, <1>5 DEF Invalidate, Sure
  <2>2. FetchIsCurrent' /\ CacheIsCurrent'
    BY <1>1, <1>5, <2>1 DEF FetchIsCurrent, CacheIsCurrent
  <2> QED  BY <1>2, <1>3, <2>2 DEF ShownInv
<1> QED  BY <1>4, <1>5

\* The name that is answered is the one that is stored, or is another user's.
LEMMA NameSavedShows == ASSUME IInv, ShownInv, NEW s \in Slot, NameSaved(s) PROVE ShownInv'
<1>1. /\ UNCHANGED <<stored, memory, open, sent, fetching, kind, ejected>> /\ kind = "name"
      /\ busy' = busy \ {s} /\ doubt' = (doubt \/ fetching # None)
  BY DEF NameSaved, Release, server, session
<1>2. Heard(task[s])  BY <1>1 DEF NameSaved, Done, GoneIsDone, At, Heard, Mutates
<1>3. task'[s] = Idle /\ \A x \in Slot \ {s} : task'[x] = task[x]
  BY DEF NameSaved, Run, IInv, TypeOK
<1>4. Sure' => Sure /\ fetching = None  BY <1>1 DEF Sure
<1>5. Sure => \A x \in Slot : Mutates(task[x]) => x = s
  BY <1>1, <1>2 DEF ShownInv, OneMutation, OneAtOnce, Heard
<1>6. Sure => \A x \in Slot : ~Mutates(task'[x])  BY <1>3, <1>5, RequestIs
<1>7. CacheIsCurrent'
  <2> SUFFICES ASSUME Sure', open, entry' # None, ~failed'
               PROVE  entry'.value = stored[entry'.owner]
    BY <1>1 DEF CacheIsCurrent, IsCurrent
  <2>1. CASE task[s].got.owner = Owner[memory]
    <3>1. entry' = task[s].got  BY <2>1 DEF NameSaved
    <3> QED  BY <1>1, <1>2, <1>4, <3>1 DEF ShownInv, NameIsStored
  <2>2. CASE task[s].got.owner # Owner[memory]
    <3>1. entry' = entry /\ failed' = failed  BY <2>2 DEF NameSaved
    <3>2. entry.owner = Owner[memory]
      BY <1>4, <3>1 DEF IInv, CacheIsOwn, Mounted, Sure
    <3>3. IsCurrent(entry)  BY <1>1, <1>4, <3>1 DEF ShownInv, CacheIsCurrent
    <3>4. ~Unheard(entry.owner)  BY <1>1, <1>4, <1>5, <2>2, <3>2 DEF Unheard, Heard
    <3> QED  BY <3>1, <3>3, <3>4 DEF IsCurrent
  <2> QED  BY <2>1, <2>2
<1>8. FetchIsCurrent'  BY <1>1, <1>4 DEF FetchIsCurrent
<1>9. OneMutation' /\ NameIsStored'  BY <1>4, <1>6 DEF OneMutation, NameIsStored, Heard
<1>10. Closed'  BY <1>1 DEF ShownInv, Closed
<1>11. ShareIsSent'  BY <1>1 DEF ShareIsSent
<1> QED  BY <1>7, <1>8, <1>9, <1>10, <1>11 DEF ShownInv

\* A composer hears of the only share it has sent.
LEMMA SentShows == ASSUME IInv, ShownInv, NEW s \in Slot, Sent(s) PROVE ShownInv'
<1>1. /\ UNCHANGED <<stored, memory, open, kind>> /\ Sure' = Sure /\ kind = "share"
      /\ busy' = busy \ {s} /\ sent' = (sent \/ s \in busy)
  BY DEF Sent, Release, server, session, rest, Sure
<1>2. Heard(task[s])  BY <1>1 DEF Sent, Done, GoneIsDone, At, Heard, Mutates
<1>3. task'[s] = Idle /\ \A x \in Slot \ {s} : task'[x] = task[x]
  BY DEF Sent, Run, IInv, TypeOK
<1>4. Sure /\ open => s \in busy /\ \A x \in Slot : Mutates(task[x]) => x = s
  BY <1>1, <1>2 DEF ShownInv, OneMutation, OneAtOnce, Heard
<1>5. Sure /\ open => \A x \in Slot : ~Mutates(task'[x])  BY <1>3, <1>4, RequestIs
<1>6. OneMutation'  BY <1>1, <1>5 DEF OneMutation, OneAtOnce
<1>7. Closed'  BY <1>1 DEF ShownInv, Closed
<1>8. ShareIsSent'
  <2>1. Sure /\ open => stored[Owner[memory]] = "sent"
    BY <1>1, <1>2 DEF ShownInv, ShareIsSent
  <2> QED  BY <1>1, <1>4, <1>5, <2>1 DEF ShareIsSent
<1>9. FetchIsCurrent' /\ CacheIsCurrent' /\ NameIsStored'
  BY <1>1 DEF FetchIsCurrent, CacheIsCurrent, NameIsStored
<1> QED  BY <1>6, <1>7, <1>8, <1>9 DEF ShownInv

\* Steps of no slot.
LEMMA LeavingShows ==
  ASSUME IInv, ShownInv,
         \/ Leave \/ Collect \/ UNCHANGED vars
         \/ \E t \in Token : Expire(t)
         \/ \E s \in Slot : LeaveSearch(s)
  PROVE  ShownInv'
<1>1. /\ UNCHANGED <<task, stored, memory, fetching>> /\ kind' = kind /\ Sure' = Sure
  BY DEF Leave, Collect, Expire, LeaveSearch, vars, server, session, query, rest, Sure
<1>2. \A e : IsCurrent(e) =>
        \/ e.value = stored'[e.owner]
        \/ \E x \in Slot : Heard(task'[x]) /\ (kind' = "name" => task'[x].got.owner = e.owner)
  BY <1>1 DEF IsCurrent, Unheard
<1>3. FetchIsCurrent'
  <2>1. Sure /\ kind # "share" /\ fetching # None /\ Brings(task[fetching]) =>
          IsCurrent(task[fetching].got)
    BY DEF ShownInv, FetchIsCurrent
  <2> QED  BY <1>1, <1>2, <2>1 DEF FetchIsCurrent, IsCurrent, Unheard
<1>4. CASE Leave
  <2>1. open' = FALSE /\ sent' = FALSE /\ busy' = {} /\ kind # "name"
    BY <1>4 DEF Leave, Unmount, Stays
  <2> QED  BY <1>1, <1>3, <2>1 DEF ShownInv, CacheIsCurrent, OneMutation, OneAtOnce, Closed,
                                  NameIsStored, ShareIsSent
<1>5. CASE \E s \in Slot : LeaveSearch(s)
  <2>1. open' = open /\ sent' = sent /\ entry' = entry /\ failed' = failed
        /\ busy' \subseteq busy /\ kind = "friend"
    BY <1>5 DEF LeaveSearch, query
  <2>2. CacheIsCurrent'
    <3>1. Sure /\ open /\ entry # None /\ fetching = None /\ ~failed => IsCurrent(entry)
      BY <2>1 DEF ShownInv, CacheIsCurrent
    <3> QED  BY <1>1, <1>2, <2>1, <3>1 DEF CacheIsCurrent, IsCurrent, Unheard
  <2> QED  BY <1>1, <1>3, <2>1, <2>2 DEF ShownInv, OneMutation, OneAtOnce, Closed,
                                        NameIsStored, ShareIsSent
<1>6. CASE Collect \/ UNCHANGED vars \/ \E t \in Token : Expire(t)
  <2>1. open' = open /\ sent' = sent /\ busy' = busy
        /\ (entry' = None \/ (entry' = entry /\ failed' = failed))
    BY <1>6 DEF Collect, Expire, vars, screen, query
  <2>2. CacheIsCurrent'
    <3>1. Sure /\ kind # "share" /\ open /\ entry # None /\ fetching = None /\ ~failed =>
            IsCurrent(entry)
      BY DEF ShownInv, CacheIsCurrent
    <3> QED  BY <1>1, <1>2, <2>1, <3>1 DEF CacheIsCurrent, IsCurrent, Unheard
  <2>3. OneMutation' /\ Closed' /\ NameIsStored'
    BY <1>1, <2>1 DEF ShownInv, OneMutation, OneAtOnce, Closed, NameIsStored
  <2>4. ShareIsSent'  BY <1>1, <2>1 DEF ShownInv, ShareIsSent
  <2> QED  BY <1>3, <2>2, <2>3, <2>4 DEF ShownInv
<1> QED  BY <1>4, <1>5, <1>6

LEMMA ShownInit == Init => ShownInv
BY DEF Init, ShownInv, FetchIsCurrent, CacheIsCurrent, OneMutation, Closed, NameIsStored,
       ShareIsSent, Heard, Mutates, Idle

LEMMA ShownProgress == ASSUME IInv, ShownInv, NEW s \in Slot, Progress(s) PROVE ShownInv'
BY SendShows, RefusedShows, UnpublishShows, SettleShows, SessionShows, OutShows, ServeShows,
   FetchedShows, NotFetchedShows, InvalidateShows, NameSavedShows, SentShows, NotMutatedShows
   DEF Progress

LEMMA ShownStep == IInv /\ ShownInv /\ [Next]_vars => ShownInv'
<1> SUFFICES ASSUME IInv, ShownInv, [Next]_vars PROVE ShownInv'
  OBVIOUS
<1>1. ASSUME NEW s \in Slot, Progress(s) PROVE ShownInv'
  BY <1>1, ShownProgress
<1>2. ASSUME NEW s \in Slot, SignIn(s) \/ Logout(s) PROVE ShownInv'
  BY <1>2, SessionShows
<1>3. ASSUME NEW s \in Slot, Visit(s) \/ Retry(s) \/ LeaveSearch(s) \/ Lose(s) PROVE ShownInv'
  BY <1>3, VisitShows, RetryShows, LeavingShows, LoseShows
<1>4. ASSUME NEW s \in Slot, NEW op \in Op, Press(s, op) PROVE ShownInv'
  BY <1>4, PressShows
<1>5. CASE Leave \/ Collect \/ UNCHANGED vars \/ \E t \in Token : Expire(t)
  BY <1>5, LeavingShows
<1>6. CASE Restart
  BY <1>6, RestartShows
<1> QED  BY <1>1, <1>2, <1>3, <1>4, <1>5, <1>6 DEF Next

LEMMA Shows == IInv /\ ShownInv => SettledShows
<1> SUFFICES ASSUME IInv, ShownInv,
                    open, memory # None, Shown, ~failed, fetching = None, ~ejected,
                    ~Running("mutate"), ~doubt
             PROVE  Displayed = stored[Owner[memory]]
  BY DEF SettledShows
<1>1. \A s \in Slot : ~Heard(task[s])  BY DEF Running, Heard, Mutates
<1>2. CASE kind = "share"
  BY <1>1, <1>2 DEF ShownInv, ShareIsSent, Sure, Displayed
<1>3. CASE kind # "share"
  <2>1. IsCurrent(entry)  BY <1>3 DEF ShownInv, CacheIsCurrent, Sure, Shown
  <2>2. entry.owner = Owner[memory]  BY DEF IInv, CacheIsOwn, Shown
  <2> QED  BY <1>1, <1>3, <2>1, <2>2 DEF IsCurrent, Unheard, Displayed
<1> QED  BY <1>2, <1>3

\* A screen at rest shows what the user who is signed in has on the server, for
\* every number of users, sessions and functions under way, unless `doubt` was
\* raised (what raises it is said at SettledShows): otherwise the cache is only
\* behind while a mutation that was served is still to be answered, and its
\* answer fetches the query anew or is put in its place; a name and a share are
\* sent one at a time, so that what is answered is what is stored.
THEOREM SettledScreensShow == Spec => []SettledShows
<1>1. Spec => []ShownInv  BY ShownInit, ShownStep, Invariance, PTL DEF Spec
<1> QED  BY <1>1, Shows, Invariance, PTL

------------------------------------------------------------------------------
(*                     The server: accounts and the lockout                  *)

------------------------------------------------------------------------------
(* Sums.  A sum is the number of its tags, so that sums are compared by     *)
(* comparing sets.                                                          *)

Tags(f, S) == UNION {{t} \X (1 .. f[t]) : t \in S \cap Time}

LEMMA TagOf ==
  ASSUME NEW f, NEW S, NEW p
  PROVE  p \in Tags(f, S) <=> \E t \in S \cap Time : \E i \in 1 .. f[t] : p = <<t, i>>
  BY DEF Tags

LEMMA TagsFinite ==
  ASSUME NEW f \in [Time -> Nat], NEW S
  PROVE  /\ IsFiniteSet(Tags(f, S))
         /\ Sum(f, S) = Cardinality(Tags(f, S))
         /\ Sum(f, S) \in Nat
<1> DEFINE TagsAt(t) == {t} \X (1 .. f[t])
           in == S \cap Time
           all == {TagsAt(t) : t \in in}
           at == [t \in in |-> TagsAt(t)]
<1>1. IsFiniteSet(in)
  <2>1. MaxTime \in Nat  BY LoginAssumption
  <2>2. IsFiniteSet(Time)  BY <2>1, FS_Interval DEF Time
  <2>3. in \in SUBSET Time  OBVIOUS
  <2> QED  BY <2>2, <2>3, FS_Subset, Zenon
<1>2. IsFiniteSet(all)
  <2>1. at \in Surjection(in, all)  BY DEF Surjection
  <2> QED  BY <1>1, <2>1, FS_Surjection, Zenon
<1>3. \A t \in in : IsFiniteSet(TagsAt(t))
  <2> TAKE t \in in
  <2>1. f[t] \in Nat  OBVIOUS
  <2>2. IsFiniteSet(1 .. f[t])  BY <2>1, FS_Interval
  <2>3. IsFiniteSet({t})  BY FS_Singleton, Zenon
  <2> QED  BY <2>2, <2>3, FS_Product, Zenon
<1>4. \A T \in all : IsFiniteSet(T)  BY <1>3
<1>5. Tags(f, S) = UNION all  BY DEF Tags
<1>6. IsFiniteSet(Tags(f, S))  BY <1>2, <1>4, <1>5, FS_UNION, Zenon
<1>7. Sum(f, S) = Cardinality(Tags(f, S))  BY DEF Sum, Tags
<1> QED  BY <1>6, <1>7, FS_CardinalityType, Zenon

\* What is counted less often, or within fewer moments, is less.
LEMMA SumGrows ==
  ASSUME NEW f \in [Time -> Nat], NEW g \in [Time -> Nat], NEW S, NEW T,
         \A t \in S \cap Time : f[t] > 0 => t \in T /\ f[t] <= g[t]
  PROVE  Sum(f, S) <= Sum(g, T)
<1>1. Tags(f, S) \in SUBSET Tags(g, T)
  <2> SUFFICES ASSUME NEW p \in Tags(f, S) PROVE p \in Tags(g, T)  OBVIOUS
  <2>1. PICK t \in S \cap Time : \E i \in 1 .. f[t] : p = <<t, i>>  BY TagOf
  <2>2. PICK i \in 1 .. f[t] : p = <<t, i>>  BY <2>1
  <2>3. f[t] \in Nat /\ g[t] \in Nat  OBVIOUS
  <2>4. t \in T \cap Time /\ i \in 1 .. g[t]  BY <2>3
  <2> QED  BY <2>2, <2>4, TagOf
<1>2. Cardinality(Tags(f, S)) <= Cardinality(Tags(g, T))
  BY <1>1, TagsFinite, FS_Subset, Zenon
<1> QED  BY <1>2, TagsFinite

LEMMA SumNone ==
  ASSUME NEW f \in [Time -> Nat], NEW S, \A t \in S \cap Time : f[t] = 0
  PROVE  Sum(f, S) = 0
<1>1. Tags(f, S) = {}
  <2> SUFFICES ASSUME NEW p \in Tags(f, S) PROVE FALSE  OBVIOUS
  <2>1. PICK t \in S \cap Time : \E i \in 1 .. f[t] : p = <<t, i>>  BY TagOf
  <2> QED  BY <2>1
<1>2. Cardinality(Tags(f, S)) = 0  BY <1>1, FS_EmptySet, Zenon
<1> QED  BY <1>2, TagsFinite

\* Two counts beside each other.
LEMMA SumSplits ==
  ASSUME NEW f \in [Time -> Nat], NEW g \in [Time -> Nat], NEW k \in [Time -> Nat], NEW S,
         \A t \in S \cap Time : f[t] <= g[t] + k[t]
  PROVE  Sum(f, S) <= Sum(g, S) + Sum(k, S)
<1> DEFINE A == Tags(f, S)
           B == Tags(g, S)
           others == A \ B
           shift == [p \in others |-> <<p[1], p[2] - g[p[1]]>>]
<1>1. \A p \in others : /\ p[1] \in S \cap Time /\ p[2] \in Nat /\ p = <<p[1], p[2]>>
                      /\ p[2] > g[p[1]] /\ p[2] <= f[p[1]]
  <2> TAKE p \in others
  <2>1. PICK t \in S \cap Time : \E i \in 1 .. f[t] : p = <<t, i>>  BY TagOf
  <2>2. PICK i \in 1 .. f[t] : p = <<t, i>>  BY <2>1
  <2>3. f[t] \in Nat /\ g[t] \in Nat  OBVIOUS
  <2>4. ~ (i \in 1 .. g[t])  BY <2>2, TagOf
  <2>5. i \in Nat /\ i > g[t] /\ i <= f[t]  BY <2>2, <2>3, <2>4
  <2> QED  BY <2>2, <2>5
<1>2. \A p \in others : shift[p] \in Tags(k, S)
  <2> TAKE p \in others
  <2>1. PICK t \in S \cap Time : p[1] = t  BY <1>1
  <2>2. f[t] \in Nat /\ g[t] \in Nat /\ k[t] \in Nat /\ f[t] <= g[t] + k[t]  OBVIOUS
  <2>3. p[2] \in Nat /\ p[2] > g[t] /\ p[2] <= f[t]  BY <1>1, <2>1
  <2>4. p[2] - g[t] \in 1 .. k[t]  BY <2>2, <2>3
  <2>5. shift[p] = <<t, p[2] - g[t]>>  BY <2>1
  <2> QED  BY <2>4, <2>5, TagOf
<1>3. shift \in [others -> Tags(k, S)]  BY <1>2
<1>4. \A p, q \in others : shift[p] = shift[q] => p = q
  <2> SUFFICES ASSUME NEW p \in others, NEW q \in others, shift[p] = shift[q] PROVE p = q
    OBVIOUS
  <2>1. p[1] = q[1] /\ p[2] - g[p[1]] = q[2] - g[q[1]]  OBVIOUS
  <2>2. p[2] \in Nat /\ q[2] \in Nat /\ g[p[1]] \in Nat  BY <1>1
  <2>3. p[2] = q[2]  BY <2>1, <2>2
  <2>4. p = <<p[1], p[2]>> /\ q = <<q[1], q[2]>>  BY <1>1
  <2> QED  BY <2>1, <2>3, <2>4
<1> HIDE DEF shift
<1>5. shift \in Injection(others, Tags(k, S))  BY <1>3, <1>4 DEF Injection, IsInjective
<1>6. IsFiniteSet(A) /\ IsFiniteSet(B) /\ IsFiniteSet(Tags(k, S))  BY TagsFinite
<1> HIDE DEF A, B
<1>7. /\ IsFiniteSet(others)
      /\ Cardinality(others) = Cardinality(A) - Cardinality(A \cap B)
  BY <1>6, FS_Difference, Zenon
<1>8. Cardinality(others) <= Cardinality(Tags(k, S))  BY <1>5, <1>6, FS_Injection, Zenon
<1>9. Cardinality(A \cap B) <= Cardinality(B)  BY <1>6, FS_Intersection, Zenon
<1>10. /\ Cardinality(A) \in Nat /\ Cardinality(B) \in Nat /\ Cardinality(others) \in Nat
       /\ Cardinality(A \cap B) \in Nat /\ Cardinality(Tags(k, S)) \in Nat
  BY <1>6, <1>7, FS_CardinalityType, FS_Intersection, Zenon
<1>11. Cardinality(A) <= Cardinality(B) + Cardinality(Tags(k, S))
  BY <1>7, <1>8, <1>9, <1>10
<1> QED  BY <1>11, TagsFinite DEF A, B

\* One more of a moment.
LEMMA SumStep ==
  ASSUME NEW f \in [Time -> Nat], NEW g \in [Time -> Nat], NEW t \in Time, NEW S,
         g[t] <= f[t] + 1, \A u \in Time \ {t} : g[u] = f[u]
  PROVE  Sum(g, S) <= Sum(f, S) + 1
<1> DEFINE k == [u \in Time |-> IF u = t THEN 1 ELSE 0]
<1>1. k \in [Time -> Nat] /\ k[t] = 1 /\ \A u \in Time \ {t} : k[u] = 0  OBVIOUS
<1> HIDE DEF k
<1>2. \A u \in S \cap Time : g[u] <= f[u] + k[u]
  <2> TAKE u \in S \cap Time
  <2>1. f[u] \in Nat /\ g[u] \in Nat  OBVIOUS
  <2> QED  BY <1>1, <2>1
<1>3. Sum(g, S) <= Sum(f, S) + Sum(k, S)  BY <1>1, <1>2, SumSplits
<1>4. Sum(k, S) <= 1
  <2>1. Tags(k, S) \in SUBSET {<<t, 1>>}
    <3> SUFFICES ASSUME NEW p \in Tags(k, S) PROVE p = <<t, 1>>  OBVIOUS
    <3>1. PICK u \in S \cap Time : \E i \in 1 .. k[u] : p = <<u, i>>  BY TagOf
    <3>2. PICK i \in 1 .. k[u] : p = <<u, i>>  BY <3>1
    <3>3. u = t /\ i = 1  BY <1>1, <3>2
    <3> QED  BY <3>2, <3>3
  <2>2. Cardinality({<<t, 1>>}) = 1 /\ IsFiniteSet({<<t, 1>>})  BY FS_Singleton, Zenon
  <2>3. Cardinality(Tags(k, S)) <= 1  BY <2>1, <2>2, FS_Subset, Zenon
  <2> QED  BY <1>1, <2>3, TagsFinite
<1>5. Sum(g, S) \in Nat /\ Sum(f, S) \in Nat /\ Sum(k, S) \in Nat  BY <1>1, TagsFinite
<1> QED  BY <1>3, <1>4, <1>5

\* As many of each moment as there are members of that moment: no more than
\* there are members.
AtTime(P, at, t) == {h \in P : at[h] = t}

LEMMA SumOfMembers ==
  ASSUME NEW P, IsFiniteSet(P), NEW at, NEW f \in [Time -> Nat],
         \A t \in Time : f[t] = Cardinality(AtTime(P, at, t)), NEW S
  PROVE  Sum(f, S) <= Cardinality(P)
<1> DEFINE nth == [t \in Time |->
                    CHOOSE b \in Bijection(1 .. f[t], AtTime(P, at, t)) : TRUE]
           who == [p \in Tags(f, S) |-> nth[p[1]][p[2]]]
<1>1. \A t \in Time : nth[t] \in Bijection(1 .. f[t], AtTime(P, at, t))
  <2> TAKE t \in Time
  <2>1. AtTime(P, at, t) \in SUBSET P  BY DEF AtTime
  <2>2. IsFiniteSet(AtTime(P, at, t))  BY <2>1, FS_Subset, Zenon
  <2>3. ExistsBijection(1 .. f[t], AtTime(P, at, t))  BY <2>2, FS_CardinalityType, Zenon
  <2>4. \E b \in Bijection(1 .. f[t], AtTime(P, at, t)) : TRUE  BY <2>3 DEF ExistsBijection
  <2>5. (CHOOSE b \in Bijection(1 .. f[t], AtTime(P, at, t)) : TRUE)
          \in Bijection(1 .. f[t], AtTime(P, at, t))
    BY <2>4, Zenon
  <2> QED  BY <2>5
<1> HIDE DEF nth
<1>2. \A t \in Time : /\ \A i \in 1 .. f[t] : nth[t][i] \in P /\ at[nth[t][i]] = t
                      /\ \A i, j \in 1 .. f[t] : nth[t][i] = nth[t][j] => i = j
  <2> TAKE t \in Time
  <2>1. nth[t] \in Bijection(1 .. f[t], AtTime(P, at, t))  BY <1>1
  <2>2. /\ nth[t] \in [1 .. f[t] -> AtTime(P, at, t)]
        /\ \A i, j \in 1 .. f[t] : nth[t][i] = nth[t][j] => i = j
    BY <2>1 DEF Bijection, Injection, IsInjective
  <2>3. \A i \in 1 .. f[t] : nth[t][i] \in AtTime(P, at, t)  BY <2>2
  <2> QED  BY <2>2, <2>3 DEF AtTime
<1>3. \A p \in Tags(f, S) : /\ p[1] \in Time /\ p[2] \in 1 .. f[p[1]]
                            /\ p = <<p[1], p[2]>>
  <2> TAKE p \in Tags(f, S)
  <2>1. PICK t \in S \cap Time : \E i \in 1 .. f[t] : p = <<t, i>>  BY TagOf
  <2> QED  BY <2>1
<1>4. who \in [Tags(f, S) -> P]  BY <1>2, <1>3
<1>5. \A p, q \in Tags(f, S) : who[p] = who[q] => p = q
  <2> SUFFICES ASSUME NEW p \in Tags(f, S), NEW q \in Tags(f, S), who[p] = who[q]
               PROVE  p = q
    OBVIOUS
  <2>1. nth[p[1]][p[2]] = nth[q[1]][q[2]]  OBVIOUS
  <2>2. p[1] = q[1]  BY <1>2, <1>3, <2>1
  <2>3. p[2] = q[2]  BY <1>2, <1>3, <2>1, <2>2
  <2> QED  BY <1>3, <2>2, <2>3
<1> HIDE DEF who
<1>6. who \in Injection(Tags(f, S), P)  BY <1>4, <1>5 DEF Injection, IsInjective
<1>7. Cardinality(Tags(f, S)) <= Cardinality(P)  BY <1>6, FS_Injection, Zenon
<1> QED  BY <1>7, TagsFinite
------------------------------------------------------------------------------
(* Steps.  Most statements touch neither the keys of Redis nor what is      *)
(* counted; the lockout looks at the others one by one.                     *)

Key == [scores : [Time -> Nat], expires : Nat]

LEMMA TypeInit == LoginInit => LoginTypeOK
<1> SUFFICES ASSUME LoginInit PROVE LoginTypeOK  OBVIOUS
<1>1. 0 \in Time  BY LoginAssumption DEF Time
<1>2. NoScores \in [Time -> Nat]  BY DEF NoScores
<1> QED  BY <1>1, <1>2 DEF LoginInit, LoginTypeOK, Stage, Record

LEMMA ScoresType ==
  ASSUME LoginTypeOK, NEW e \in Email
  PROVE  Scores(e) \in [Time -> Nat]
BY DEF LoginTypeOK, Scores, NoScores

Late == {"expire", "zcard", "set"}

\* A step of a handler leaves the others where they are.
Moves(h) ==
  /\ pc' \in [Handler -> Stage]
  /\ job' \in [Handler -> Job \cup {NoJob}]
  /\ pc'[h] # "idle" => job'[h] \in Job
  /\ \A g \in Handler \ {h} : pc'[g] = pc[g] /\ job'[g] = job[g]

LEMMA AnswerMoves ==
  ASSUME LoginTypeOK, NEW h \in Handler, Answer(h)
  PROVE  Moves(h) /\ pc'[h] = "idle" /\ job'[h] = NoJob
BY DEF LoginTypeOK, Answer, Moves, Stage, Record

LEMMA GotoMoves ==
  ASSUME LoginTypeOK, NEW h \in Handler, NEW s \in Stage, Goto(h, s), pc[h] # "idle"
  PROVE  Moves(h) /\ pc'[h] = s /\ job' = job
BY DEF LoginTypeOK, Goto, Moves

\* What a statement before or after the lockout does to it: a login passes the
\* lock only where there is none, and reads the clock when it has verified.
Quiet(h) ==
  /\ Moves(h) /\ UNCHANGED <<counter, lock, now, fresh, tries, faults>>
  /\ pc[h] \notin Late /\ pc'[h] \notin Late \cup {"zadd"}
  /\ pc'[h] # "idle" =>
       IF pc[h] = "idle" THEN job'[h].since = now
       ELSE job'[h].since = job[h].since /\ job'[h].email = job[h].email
  /\ pc'[h] = "verify" => pc[h] = "exists" /\ ~ (now < lock[job[h].email])
  /\ pc'[h] = "zrem" => pc[h] = "verify" /\ job'[h].at = now

\* Statements that only bring the handler on.
LEMMA QuietGoto ==
  ASSUME LoginTypeOK, NEW h \in Handler, NEW s \in Stage, Goto(h, s), pc[h] # "idle",
         s \notin Late \cup {"zadd", "zrem"}, pc[h] \notin Late,
         s = "verify" => pc[h] = "exists" /\ ~ (now < lock[job[h].email]),
         UNCHANGED <<counter, lock, now, fresh, tries, faults>>
  PROVE  Quiet(h)
<1>1. Moves(h) /\ pc'[h] = s /\ job' = job  BY GotoMoves
<1> QED  BY <1>1 DEF Quiet

LEMMA QuietAnswer ==
  ASSUME LoginTypeOK, NEW h \in Handler, Answer(h), pc[h] \notin Late,
         UNCHANGED <<counter, lock, now, fresh, tries, faults>>
  PROVE  Quiet(h)
<1>1. Moves(h) /\ pc'[h] = "idle"  BY AnswerMoves
<1> QED  BY <1>1 DEF Quiet, Late

LEMMA QuietMove ==
  ASSUME LoginTypeOK, NEW h \in Handler, NEW s \in Stage \ {"idle"}, NEW j \in Job,
         pc' = [pc EXCEPT ![h] = s], job' = [job EXCEPT ![h] = j],
         s \notin Late \cup {"zadd", "verify"}, pc[h] \notin Late,
         IF pc[h] = "idle" THEN j.since = now
         ELSE j.since = job[h].since /\ j.email = job[h].email,
         s = "zrem" => pc[h] = "verify" /\ j.at = now,
         UNCHANGED <<counter, lock, now, fresh, tries, faults>>
  PROVE  Quiet(h)
<1>1. pc'[h] = s /\ job'[h] = j  BY DEF LoginTypeOK
<1>2. Moves(h)  BY <1>1 DEF LoginTypeOK, Moves
<1> QED  BY <1>1, <1>2 DEF Quiet

LEMMA RegisterQuiet ==
  ASSUME LoginTypeOK, NEW h \in Handler, RegisterStep(h)
  PROVE  Quiet(h)
<1> USE DEF Redis, History
<1>0. pc[h] # "idle" => job[h] \in Job  BY DEF LoginTypeOK
<1>1. ASSUME NEW e \in Email, RegisterArrive(h, e) PROVE Quiet(h)
  <2> DEFINE j == [email |-> e, right |-> TRUE, at |-> 0, since |-> now, own |-> {}]
  <2>1. j \in Job  BY LoginAssumption DEF Job, LoginTypeOK, Time, Account
  <2>2. /\ pc' = [pc EXCEPT ![h] = "insert user"] /\ job' = [job EXCEPT ![h] = j]
        /\ pc[h] = "idle" /\ UNCHANGED <<counter, lock, now, fresh, tries, faults>>
    BY <1>1 DEF RegisterArrive
  <2> QED  BY <2>1, <2>2, QuietMove DEF Stage, Late, Record
<1>2. ASSUME InsertUser(h) PROVE Quiet(h)
  <2> DEFINE j == [job[h] EXCEPT !.own = @ \cup {"user"}]
  <2>1. pc[h] = "insert user" /\ UNCHANGED <<counter, lock, now, fresh, tries, faults>>
    BY <1>2 DEF InsertUser
  <2>2. j \in Job /\ j.since = job[h].since /\ j.email = job[h].email
    BY <1>0, <2>1 DEF Job, Account
  <2>3. CASE Answer(h)  BY <2>1, <2>3, QuietAnswer DEF Late
  <2>4. CASE pc' = [pc EXCEPT ![h] = "insert profile"] /\ job' = [job EXCEPT ![h] = j]
    BY <2>1, <2>2, <2>4, QuietMove DEF Stage, Late, Record
  <2> QED  BY <1>2, <2>3, <2>4 DEF InsertUser
<1>3. ASSUME InsertProfile(h) PROVE Quiet(h)
  <2> DEFINE j == [job[h] EXCEPT !.own = @ \cup {"profile"}]
  <2>1. /\ pc[h] = "insert profile" /\ UNCHANGED <<counter, lock, now, fresh, tries, faults>>
        /\ pc' = [pc EXCEPT ![h] = "insert session"] /\ job' = [job EXCEPT ![h] = j]
    BY <1>3 DEF InsertProfile
  <2>2. j \in Job /\ j.since = job[h].since /\ j.email = job[h].email
    BY <1>0, <2>1 DEF Job, Account
  <2> QED  BY <2>1, <2>2, QuietMove DEF Stage, Late, Record
<1>4. ASSUME InsertSession(h) PROVE Quiet(h)
  <2> DEFINE j == [job[h] EXCEPT !.own = @ \cup {"session"}]
  <2>1. /\ pc[h] = "insert session" /\ UNCHANGED <<counter, lock, now, fresh, tries, faults>>
        /\ pc' = [pc EXCEPT ![h] = "commit"] /\ job' = [job EXCEPT ![h] = j]
    BY <1>4 DEF InsertSession
  <2>2. j \in Job /\ j.since = job[h].since /\ j.email = job[h].email
    BY <1>0, <2>1 DEF Job, Account
  <2> QED  BY <2>1, <2>2, QuietMove DEF Stage, Late, Record
<1>5. ASSUME Commit(h) PROVE Quiet(h)
  BY <1>5, QuietAnswer DEF Commit, Late
<1> QED  BY <1>1, <1>2, <1>3, <1>4, <1>5 DEF RegisterStep

LEMMA LoginQuiet ==
  ASSUME LoginTypeOK, NEW h \in Handler,
         \/ \E e \in Email, right \in BOOLEAN : LoginArrive(h, e, right)
         \/ FetchUser(h) \/ IsLocked(h) \/ Verify(h) \/ FetchProfile(h) \/ IssueSession(h)
         \/ Fail(h) /\ pc[h] \notin Late
  PROVE  Quiet(h)
<1> USE DEF Redis, History
<1>0. pc[h] # "idle" => job[h] \in Job  BY DEF LoginTypeOK
<1>1. ASSUME NEW e \in Email, NEW right \in BOOLEAN, LoginArrive(h, e, right) PROVE Quiet(h)
  <2> DEFINE j == [email |-> e, right |-> right, at |-> 0, since |-> now, own |-> {}]
  <2>1. j \in Job  BY LoginAssumption DEF Job, LoginTypeOK, Time, Account
  <2>2. /\ pc' = [pc EXCEPT ![h] = "fetch"] /\ job' = [job EXCEPT ![h] = j]
        /\ pc[h] = "idle" /\ UNCHANGED <<counter, lock, now, fresh, tries, faults>>
    BY <1>1 DEF LoginArrive
  <2> QED  BY <2>1, <2>2, QuietMove DEF Stage, Late, Record
<1>2. ASSUME FetchUser(h) PROVE Quiet(h)
  <2>1. pc[h] = "fetch" /\ UNCHANGED <<counter, lock, now, fresh, tries, faults>>
    BY <1>2 DEF FetchUser
  <2>2. CASE Answer(h)  BY <2>1, <2>2, QuietAnswer DEF Late
  <2>3. CASE Goto(h, "exists")  BY <2>1, <2>3, QuietGoto DEF Late, Stage, Record
  <2> QED  BY <1>2, <2>2, <2>3 DEF FetchUser
<1>3. ASSUME IsLocked(h) PROVE Quiet(h)
  <2>1. pc[h] = "exists" /\ UNCHANGED <<counter, lock, now, fresh, tries, faults>>
    BY <1>3 DEF IsLocked
  <2>2. CASE Answer(h)  BY <2>1, <2>2, QuietAnswer DEF Late
  <2>3. CASE Goto(h, "verify") /\ ~ (now < lock[job[h].email])
    BY <2>1, <2>3, QuietGoto DEF Late, Stage, Record
  <2> QED  BY <1>3, <2>2, <2>3 DEF IsLocked
<1>4. ASSUME Verify(h) PROVE Quiet(h)
  <2> DEFINE j == [job[h] EXCEPT !.at = now]
             s == IF job[h].right THEN "clear" ELSE "zrem"
  <2>1. /\ pc[h] = "verify" /\ UNCHANGED <<counter, lock, now, fresh, tries, faults>>
        /\ pc' = [pc EXCEPT ![h] = s] /\ job' = [job EXCEPT ![h] = j]
    BY <1>4 DEF Verify
  <2>2. j \in Job /\ j.since = job[h].since /\ j.email = job[h].email /\ j.at = now
    BY <1>0, <2>1 DEF Job, LoginTypeOK
  <2>3. s \in Stage \ {"idle"} /\ s \notin Late \cup {"zadd", "verify"}
    BY DEF Stage, Late, Record
  <2> HIDE DEF s, j
  <2> QED  BY <2>1, <2>2, <2>3, QuietMove DEF Late
<1>5. ASSUME FetchProfile(h) PROVE Quiet(h)
  <2>1. pc[h] = "named" /\ UNCHANGED <<counter, lock, now, fresh, tries, faults>>
    BY <1>5 DEF FetchProfile
  <2>2. CASE Answer(h)  BY <2>1, <2>2, QuietAnswer DEF Late
  <2>3. CASE Goto(h, "issue")  BY <2>1, <2>3, QuietGoto DEF Late, Stage, Record
  <2> QED  BY <1>5, <2>2, <2>3 DEF FetchProfile
<1>6. ASSUME IssueSession(h) PROVE Quiet(h)
  BY <1>6, QuietAnswer DEF IssueSession, Late
<1>7. ASSUME Fail(h), pc[h] \notin Late PROVE Quiet(h)
  BY <1>7, QuietAnswer DEF Fail, Late
<1> QED  BY <1>1, <1>2, <1>3, <1>4, <1>5, <1>6, <1>7

\* The steps of the lockout leave the request of the handler as it is until
\* they answer it.
KeyStays(h, s) == Moves(h) /\ pc'[h] = s /\ job'[h] = job[h]
LockEnds(h) == Moves(h) /\ pc'[h] = "idle"

LEMMA LockoutMoves ==
  ASSUME LoginTypeOK, NEW h \in Handler
  PROVE  /\ RemoveOld(h) => KeyStays(h, "zadd")
         /\ Add(h) => KeyStays(h, "expire")
         /\ ExpireCounter(h) => KeyStays(h, "zcard")
         /\ Count(h) => IF Sum(Scores(job[h].email), Time) >= LOCKOUT_THRESHOLD
                        THEN KeyStays(h, "set") ELSE LockEnds(h)
         /\ SetLock(h) => LockEnds(h)
         /\ Clear(h) => KeyStays(h, "named")
         /\ Fail(h) => LockEnds(h)
<1> USE DEF KeyStays, LockEnds
<1>1. RemoveOld(h) => KeyStays(h, "zadd")  BY GotoMoves DEF RemoveOld, Stage, Record
<1>2. Add(h) => KeyStays(h, "expire")  BY GotoMoves DEF Add, Stage, Record
<1>3. ExpireCounter(h) => KeyStays(h, "zcard")  BY GotoMoves DEF ExpireCounter, Stage, Record
<1>4. Count(h) => IF Sum(Scores(job[h].email), Time) >= LOCKOUT_THRESHOLD
                  THEN KeyStays(h, "set") ELSE LockEnds(h)
  BY GotoMoves, AnswerMoves DEF Count, Stage, Record
<1>5. SetLock(h) => LockEnds(h)  BY AnswerMoves DEF SetLock
<1>6. Clear(h) => KeyStays(h, "named")  BY GotoMoves DEF Clear, Stage, Record
<1>7. Fail(h) => LockEnds(h)  BY AnswerMoves DEF Fail
<1> QED  BY <1>1, <1>2, <1>3, <1>4, <1>5, <1>6, <1>7

\* The tables and the keys, of whatever types the handlers are.
Data ==
  /\ rows \in [Email -> SUBSET Account]
  /\ counter \in [Email -> Key]
  /\ lock \in [Email -> Nat]
  /\ rate \in [Email -> [count : Nat, ends : Nat]]
  /\ now \in Time
  /\ fresh \in [Email -> [Time -> Nat]]
  /\ tries \in [Email -> [Time -> Nat]]
  /\ faults \in Nat

LEMMA DataMoves ==
  ASSUME LoginTypeOK, NEW h \in Handler, Moves(h), Data'
  PROVE  LoginTypeOK'
BY DEF LoginTypeOK, Moves, Data, Key

LEMMA RowsType ==
  ASSUME LoginTypeOK, NEW h \in Handler,
         RegisterStep(h) \/ LoginStep(h) \/ Fail(h)
  PROVE  rows' \in [Email -> SUBSET Account] /\ rate' \in [Email -> [count : Nat, ends : Nat]]
<1> USE DEF Redis, History
<1>0. rows \in [Email -> SUBSET Account] /\ rate \in [Email -> [count : Nat, ends : Nat]]
  BY DEF LoginTypeOK
<1>1. CASE UNCHANGED <<rows, rate>>  BY <1>0, <1>1
<1>2. CASE Commit(h)
  <2>1. job[h] \in Job /\ pc[h] = "commit"  BY <1>2 DEF Commit, LoginTypeOK
  <2> QED  BY <1>0, <1>2, <2>1 DEF Commit, Job
<1>3. CASE IssueSession(h)
  <2>1. job[h] \in Job  BY <1>3 DEF IssueSession, LoginTypeOK
  <2> QED  BY <1>0, <1>3, <2>1 DEF IssueSession, Job, Account
<1>4. ASSUME NEW e \in Email, NEW right \in BOOLEAN, LoginArrive(h, e, right)
      PROVE  rows' \in [Email -> SUBSET Account] /\ rate' \in [Email -> [count : Nat, ends : Nat]]
  <2>1. now \in Nat /\ RATE_WINDOW \in Nat  BY LoginAssumption DEF LoginTypeOK, Time
  <2> QED  BY <1>0, <1>4, <2>1 DEF LoginArrive, RateLimit
<1>5. CASE \E e \in Email : RegisterArrive(h, e)  BY <1>1, <1>5 DEF RegisterArrive
<1> QED
  BY <1>1, <1>2, <1>3, <1>4, <1>5
  DEF RegisterStep, LoginStep, InsertUser, InsertProfile, InsertSession,
      FetchUser, IsLocked, Verify, RemoveOld, Add, ExpireCounter, Count, SetLock, Clear, FetchProfile, Fail

LEMMA StepKinds ==
  ASSUME LoginTypeOK, LoginNext
  PROVE  \/ \E h \in Handler :
              \/ Quiet(h)
              \/ RemoveOld(h) \/ Add(h) \/ ExpireCounter(h) \/ Count(h) \/ SetLock(h) \/ Clear(h)
              \/ Fail(h) /\ pc[h] \in Late
         \/ Tick
<1>1. CASE Tick  BY <1>1
<1>2. ASSUME NEW h \in Handler, RegisterStep(h) PROVE Quiet(h)  BY <1>2, RegisterQuiet
<1>3. ASSUME NEW h \in Handler, LoginStep(h)
      PROVE  \/ Quiet(h)
             \/ RemoveOld(h) \/ Add(h) \/ ExpireCounter(h) \/ Count(h) \/ SetLock(h) \/ Clear(h)
  BY <1>3, LoginQuiet DEF LoginStep
<1>4. ASSUME NEW h \in Handler, Fail(h) PROVE Quiet(h) \/ (Fail(h) /\ pc[h] \in Late)
  <2>1. CASE pc[h] \in Late  BY <1>4, <2>1
  <2>2. CASE ~ (pc[h] \in Late)
    <3>1. Fail(h) /\ pc[h] \notin Late  BY <1>4, <2>2
    <3>2. Quiet(h)  BY <3>1, LoginQuiet
    <3> QED  BY <3>2
  <2> QED  BY <2>1, <2>2
<1> QED  BY <1>1, <1>2, <1>3, <1>4 DEF LoginNext

LEMMA LockoutData ==
  ASSUME LoginTypeOK, NEW h \in Handler,
         \/ RemoveOld(h) \/ Add(h) \/ ExpireCounter(h) \/ Count(h) \/ SetLock(h) \/ Clear(h)
         \/ Fail(h) /\ pc[h] \in Late
  PROVE  /\ counter' \in [Email -> Key] /\ lock' \in [Email -> Nat] /\ now' = now
         /\ fresh' \in [Email -> [Time -> Nat]] /\ tries' \in [Email -> [Time -> Nat]]
         /\ faults' \in Nat
<1> USE DEF Redis, History, Key
<1>0. /\ counter \in [Email -> Key] /\ lock \in [Email -> Nat] /\ now \in Nat
      /\ fresh \in [Email -> [Time -> Nat]] /\ tries \in [Email -> [Time -> Nat]]
      /\ faults \in Nat
      /\ pc[h] # "idle" => job[h] \in Job
  BY LoginAssumption DEF LoginTypeOK, Time
<1>w. LOCKOUT_WINDOW \in Nat /\ Never \in Nat  BY LoginAssumption DEF Never
<1> DEFINE e == job[h].email
           t == job[h].at
<1>j. pc[h] # "idle" => e \in Email /\ t \in Time  BY <1>0 DEF Job
<1>s. e \in Email => Scores(e) \in [Time -> Nat]  BY ScoresType
<1>1. CASE RemoveOld(h)
  <2> DEFINE kept == [u \in Time |-> IF u < t - LOCKOUT_WINDOW THEN 0 ELSE Scores(e)[u]]
  <2>1. e \in Email  BY <1>1, <1>j DEF RemoveOld
  <2>2. kept \in [Time -> Nat]  BY <1>s, <2>1
  <2>3. counter' = [counter EXCEPT ![e].scores = kept]  BY <1>1 DEF RemoveOld
  <2> HIDE DEF kept, e
  <2>4. counter' \in [Email -> Key]  BY <1>0, <2>1, <2>2, <2>3
  <2> QED  BY <1>0, <1>1, <2>4 DEF RemoveOld
<1>2. CASE Add(h)
  <2> DEFINE more == [Scores(e) EXCEPT ![t] = @ + 1]
             ends == IF \A u \in Time : Scores(e)[u] = 0 THEN Never ELSE counter[e].expires
  <2>1. e \in Email /\ t \in Time  BY <1>2, <1>j DEF Add
  <2>2. more \in [Time -> Nat]  BY <1>s, <2>1
  <2>3. ends \in Nat  BY <1>0, <1>w, <2>1
  <2>4. counter' = [counter EXCEPT ![e] = [scores |-> more, expires |-> ends]]  BY <1>2 DEF Add
  <2>5. /\ fresh' = [fresh EXCEPT ![e][t] = @ + 1] /\ tries' = [tries EXCEPT ![e][t] = @ + 1]
        /\ UNCHANGED <<lock, now, faults>>
    BY <1>2 DEF Add
  <2> HIDE DEF more, ends, e, t
  <2>6. counter' \in [Email -> Key]  BY <1>0, <2>1, <2>2, <2>3, <2>4
  <2>7. fresh' \in [Email -> [Time -> Nat]] /\ tries' \in [Email -> [Time -> Nat]]
    BY <1>0, <2>1, <2>5
  <2> QED  BY <1>0, <2>5, <2>6, <2>7
<1>3. CASE ExpireCounter(h)
  <2>1. e \in Email  BY <1>3, <1>j DEF ExpireCounter
  <2>2. counter' = [counter EXCEPT ![e].expires =
          IF now < @ THEN now + LOCKOUT_WINDOW ELSE @]
    BY <1>3 DEF ExpireCounter
  <2> DEFINE ends == IF now < counter[e].expires THEN now + LOCKOUT_WINDOW
                     ELSE counter[e].expires
  <2>4. ends \in Nat /\ counter' = [counter EXCEPT ![e].expires = ends]
    BY <1>0, <1>w, <2>1, <2>2
  <2> HIDE DEF e, ends
  <2>3. counter' \in [Email -> Key]  BY <1>0, <2>1, <2>4
  <2> QED  BY <1>0, <1>3, <2>3 DEF ExpireCounter
<1>4. CASE Count(h)  BY <1>0, <1>4 DEF Count
<1>5. CASE SetLock(h)
  <2>1. e \in Email  BY <1>5, <1>j DEF SetLock
  <2>2. lock' = [lock EXCEPT ![e] = now + LOCKOUT_WINDOW]  BY <1>5 DEF SetLock
  <2> HIDE DEF e
  <2>3. lock' \in [Email -> Nat]  BY <1>0, <1>w, <2>1, <2>2
  <2> QED  BY <1>0, <1>5, <2>3 DEF SetLock
<1>6. CASE Clear(h)
  <2>1. e \in Email  BY <1>6, <1>j DEF Clear
  <2>2. NoScores \in [Time -> Nat]  BY DEF NoScores
  <2>3. /\ counter' = [counter EXCEPT ![e] = [scores |-> NoScores, expires |-> 0]]
        /\ lock' = [lock EXCEPT ![e] = 0] /\ fresh' = [fresh EXCEPT ![e] = NoScores]
        /\ UNCHANGED <<now, tries, faults>>
    BY <1>6 DEF Clear
  <2> HIDE DEF e
  <2> QED  BY <1>0, <2>1, <2>2, <2>3
<1>7. CASE Fail(h) /\ pc[h] \in Late
  <2>1. e \in Email /\ t \in Time  BY <1>7, <1>j DEF Fail
  <2>2. /\ fresh' = [fresh EXCEPT ![e][t] = IF @ > 0 THEN @ - 1 ELSE 0]
        /\ faults' = faults + 1 /\ UNCHANGED <<counter, lock, now, tries>>
    BY <1>7 DEF Fail, Late
  <2> HIDE DEF e, t
  <2>3. fresh' \in [Email -> [Time -> Nat]]  BY <1>0, <2>1, <2>2
  <2> QED  BY <1>0, <2>2, <2>3
<1> QED  BY <1>1, <1>2, <1>3, <1>4, <1>5, <1>6, <1>7

LEMMA LostType ==
  ASSUME LoginTypeOK, NEW e \in Email, NEW t \in Time
  PROVE  Lost(e, t) \in Nat
<1> DEFINE S == {h \in Handler : pc[h] = "expire" /\ job[h].email = e /\ job[h].at = t}
<1>1. S \in SUBSET Handler /\ IsFiniteSet(Handler)  BY LoginAssumption
<1>2. Cardinality(S) \in Nat  BY <1>1, FS_Subset, FS_CardinalityType, Zenon
<1> QED  BY <1>2 DEF Lost

LEMMA TypeStep == LoginTypeOK /\ [LoginNext]_loginVars => LoginTypeOK'
<1> SUFFICES ASSUME LoginTypeOK, [LoginNext]_loginVars PROVE LoginTypeOK'  OBVIOUS
<1> USE DEF Redis, History
<1>1. CASE UNCHANGED loginVars  BY <1>1 DEF LoginTypeOK, loginVars
<1>2. CASE Tick
  <2>1. now' \in Time  BY <1>2, LoginAssumption DEF Tick, LoginTypeOK, Time
  <2>2. \A e \in Email : \A t \in Time :
          (IF fresh[e][t] > Lost(e, t) THEN fresh[e][t] - Lost(e, t) ELSE 0) \in Nat
    BY LostType DEF LoginTypeOK
  <2>3. fresh' \in [Email -> [Time -> Nat]]  BY <1>2, <2>2 DEF Tick
  <2> QED  BY <1>2, <2>1, <2>3 DEF Tick, LoginTypeOK
<1>3. ASSUME NEW h \in Handler, RegisterStep(h) \/ LoginStep(h) \/ Fail(h) PROVE LoginTypeOK'
  <2>1. Moves(h)
    BY <1>3, RegisterQuiet, LoginQuiet, LockoutMoves DEF LoginStep, Quiet, KeyStays, LockEnds
  <2>2. rows' \in [Email -> SUBSET Account] /\ rate' \in [Email -> [count : Nat, ends : Nat]]
    BY <1>3, RowsType
  <2>3. Quiet(h) \/ (\/ RemoveOld(h) \/ Add(h) \/ ExpireCounter(h) \/ Count(h) \/ SetLock(h) \/ Clear(h)
                     \/ Fail(h) /\ pc[h] \in Late)
    BY <1>3, RegisterQuiet, LoginQuiet DEF LoginStep
  <2>4. Quiet(h) => /\ counter' \in [Email -> Key] /\ lock' \in [Email -> Nat] /\ now' = now
                    /\ fresh' \in [Email -> [Time -> Nat]] /\ tries' \in [Email -> [Time -> Nat]]
                    /\ faults' \in Nat
    BY DEF LoginTypeOK, Quiet, Key
  <2>5. Data'  BY <2>2, <2>3, <2>4, LockoutData DEF Data, LoginTypeOK
  <2> QED  BY <2>1, <2>5, DataMoves
<1> QED  BY <1>1, <1>2, <1>3 DEF LoginNext

\* Every reachable state is well typed.
THEOREM LoginTypeCorrect == LoginSpec => []LoginTypeOK
BY TypeInit, TypeStep, PTL DEF LoginSpec

------------------------------------------------------------------------------
(* Accounts.  A transaction has inserted what its statement says, and a     *)
(* login that found a profile found the account.                            *)

OwnRows(h) ==
  /\ pc[h] = "insert user" => job[h].own = {}
  /\ pc[h] = "insert profile" => job[h].own = {"user"}
  /\ pc[h] = "insert session" => job[h].own = {"user", "profile"}
  /\ pc[h] = "commit" => job[h].own = Account
  /\ pc[h] = "issue" => rows[job[h].email] = Account

WholeInv == AccountIsWhole /\ \A h \in Handler : OwnRows(h)

LEMMA WholeInit == LoginInit => WholeInv
BY DEF LoginInit, WholeInv, AccountIsWhole, OwnRows

\* An account that is there stays as it is.
LEMMA WholeKept ==
  ASSUME LoginTypeOK, WholeInv, NEW h \in Handler, Moves(h), AccountIsWhole', OwnRows(h)',
         \A e \in Email : rows[e] = Account => rows'[e] = Account
  PROVE  WholeInv'
<1>1. ASSUME NEW g \in Handler, g # h PROVE OwnRows(g)'
  <2>1. pc'[g] = pc[g] /\ job'[g] = job[g]  BY <1>1 DEF Moves
  <2>2. pc[g] = "issue" => job[g].email \in Email  BY DEF LoginTypeOK, Job
  <2> QED  BY <1>1, <2>1, <2>2 DEF WholeInv, OwnRows
<1> QED  BY <1>1 DEF WholeInv

LEMMA WholeRest ==
  ASSUME LoginTypeOK, WholeInv, NEW h \in Handler, Moves(h), UNCHANGED rows,
         pc'[h] \notin {"insert user", "insert profile", "insert session", "commit", "issue"}
  PROVE  WholeInv'
<1>1. OwnRows(h)'  BY DEF OwnRows
<1>2. AccountIsWhole'  BY DEF WholeInv, AccountIsWhole
<1> QED  BY <1>1, <1>2, WholeKept

LEMMA WholeStep == LoginTypeOK /\ WholeInv /\ [LoginNext]_loginVars => WholeInv'
<1> SUFFICES ASSUME LoginTypeOK, WholeInv, [LoginNext]_loginVars PROVE WholeInv'  OBVIOUS
<1> USE DEF Redis, History
<1>1. CASE UNCHANGED loginVars  BY <1>1 DEF loginVars, WholeInv, AccountIsWhole, OwnRows
<1>2. CASE Tick  BY <1>2 DEF Tick, WholeInv, AccountIsWhole, OwnRows
<1>3. ASSUME NEW h \in Handler, RegisterStep(h) PROVE WholeInv'
  <2>0. Moves(h)  BY <1>3, RegisterQuiet DEF Quiet
  <2>1. ASSUME NEW e \in Email, RegisterArrive(h, e) PROVE WholeInv'
    <3>1. OwnRows(h)' /\ UNCHANGED rows  BY <2>1 DEF RegisterArrive, LoginTypeOK, OwnRows
    <3> QED  BY <2>0, <3>1, WholeKept DEF WholeInv, AccountIsWhole
  <2>2. CASE InsertUser(h)
    <3>1. CASE Answer(h)
      <4>1. pc'[h] = "idle" /\ UNCHANGED rows  BY <2>2, <3>1, AnswerMoves DEF InsertUser
      <4> QED  BY <2>0, <4>1, WholeRest
    <3>2. CASE ~ Answer(h)
      <4>1. pc[h] = "insert user" /\ job[h].own = {} /\ job[h] \in Job
        BY <2>2 DEF InsertUser, WholeInv, OwnRows, LoginTypeOK
      <4>a. /\ pc' = [pc EXCEPT ![h] = "insert profile"]
            /\ job' = [job EXCEPT ![h].own = @ \cup {"user"}] /\ UNCHANGED rows
        BY <2>2, <3>2 DEF InsertUser
      <4>2. pc'[h] = "insert profile" /\ job'[h].own = {"user"} /\ UNCHANGED rows
        BY <4>a, <4>1 DEF LoginTypeOK, Job
      <4>3. OwnRows(h)'  BY <4>2 DEF OwnRows
      <4> QED  BY <2>0, <4>2, <4>3, WholeKept DEF WholeInv, AccountIsWhole
    <3> QED  BY <3>1, <3>2
  <2>3. CASE InsertProfile(h)
    <3>1. pc[h] = "insert profile" /\ job[h].own = {"user"} /\ job[h] \in Job
      BY <2>3 DEF InsertProfile, WholeInv, OwnRows, LoginTypeOK
    <3>2. pc'[h] = "insert session" /\ job'[h].own = {"user", "profile"} /\ UNCHANGED rows
      BY <2>3, <3>1 DEF InsertProfile, LoginTypeOK, Job
    <3>3. OwnRows(h)'  BY <3>2 DEF OwnRows
    <3> QED  BY <2>0, <3>2, <3>3, WholeKept DEF WholeInv, AccountIsWhole
  <2>4. CASE InsertSession(h)
    <3>1. pc[h] = "insert session" /\ job[h].own = {"user", "profile"} /\ job[h] \in Job
      BY <2>4 DEF InsertSession, WholeInv, OwnRows, LoginTypeOK
    <3>2. pc'[h] = "commit" /\ job'[h].own = Account /\ UNCHANGED rows
      BY <2>4, <3>1 DEF InsertSession, LoginTypeOK, Job, Account
    <3>3. OwnRows(h)'  BY <3>2 DEF OwnRows
    <3> QED  BY <2>0, <3>2, <3>3, WholeKept DEF WholeInv, AccountIsWhole
  <2>5. CASE Commit(h)
    <3>1. pc[h] = "commit" /\ job[h].own = Account /\ job[h].email \in Email
      BY <2>5 DEF Commit, WholeInv, OwnRows, LoginTypeOK, Job
    <3>2. \A e \in Email : rows[e] \in {{}, Account}  BY DEF WholeInv, AccountIsWhole
    <3>3. rows' = [rows EXCEPT ![job[h].email] = @ \cup Account]  BY <2>5, <3>1 DEF Commit
    <3>4. \A e \in Email : /\ rows'[e] \in {{}, Account}
                           /\ rows[e] = Account => rows'[e] = Account
      BY <3>1, <3>2, <3>3 DEF LoginTypeOK
    <3>5. pc'[h] = "idle"  BY <2>5, AnswerMoves DEF Commit
    <3> QED  BY <2>0, <3>4, <3>5, WholeKept DEF AccountIsWhole, OwnRows
  <2> QED  BY <1>3, <2>1, <2>2, <2>3, <2>4, <2>5 DEF RegisterStep
<1>4. ASSUME NEW h \in Handler, LoginStep(h) PROVE WholeInv'
  <2>0. Moves(h)  BY <1>4, LoginQuiet, LockoutMoves DEF LoginStep, Quiet, KeyStays, LockEnds
  <2>1. CASE FetchProfile(h)
    <3>1. UNCHANGED rows /\ pc[h] = "named" /\ job[h].email \in Email
      BY <2>1 DEF FetchProfile, LoginTypeOK, Job
    <3>2. CASE Answer(h)
      <4>1. pc'[h] = "idle"  BY <3>2, AnswerMoves
      <4> QED  BY <2>0, <3>1, <4>1, WholeRest
    <3>3. CASE "profile" \in rows[job[h].email] /\ Goto(h, "issue")
      <4>1. rows[job[h].email] = Account  BY <3>1, <3>3 DEF WholeInv, AccountIsWhole
      <4>2. OwnRows(h)'  BY <3>1, <3>3, <4>1 DEF Goto, LoginTypeOK, OwnRows
      <4> QED  BY <2>0, <3>1, <4>2, WholeKept DEF WholeInv, AccountIsWhole
    <3> QED  BY <2>1, <3>2, <3>3 DEF FetchProfile
  <2>2. CASE IssueSession(h)
    <3>1. rows[job[h].email] = Account  BY <2>2 DEF IssueSession, WholeInv, OwnRows
    <3>2. \A e \in Email : rows'[e] = rows[e]
      BY <2>2, <3>1 DEF IssueSession, LoginTypeOK, Account
    <3>3. pc'[h] = "idle"  BY <2>2, AnswerMoves DEF IssueSession
    <3>4. AccountIsWhole'  BY <3>2 DEF WholeInv, AccountIsWhole
    <3> QED  BY <2>0, <3>2, <3>3, <3>4, WholeKept DEF OwnRows
  <2>3. CASE ~ FetchProfile(h) /\ ~ IssueSession(h)
    <3>1. UNCHANGED rows
      BY <1>4, <2>3
      DEF LoginStep, LoginArrive, FetchUser, IsLocked, Verify, RemoveOld, Add, ExpireCounter, Count,
          SetLock, Clear
    <3>2. pc'[h] \in {"fetch", "idle", "exists", "verify", "clear", "zrem", "zadd", "expire",
                      "zcard", "set", "named"}
      BY <1>4, <2>3
      DEF LoginStep, LoginArrive, FetchUser, IsLocked, Verify, RemoveOld, Add, ExpireCounter, Count,
          SetLock, Clear, Goto, Answer, LoginTypeOK
    <3> QED  BY <2>0, <3>1, <3>2, WholeRest
  <2> QED  BY <2>1, <2>2, <2>3
<1>5. ASSUME NEW h \in Handler, Fail(h) PROVE WholeInv'
  <2>1. Moves(h) /\ pc'[h] = "idle"  BY <1>5, LockoutMoves DEF LockEnds
  <2> QED  BY <1>5, <2>1, WholeRest DEF Fail
<1> QED  BY <1>1, <1>2, <1>3, <1>4, <1>5 DEF LoginNext

\* R6.2, R6.4: whatever fails, and however registrations and logins of an
\* address overlap, an account has all of its three rows or none.
THEOREM AccountsAreWhole == LoginSpec => []AccountIsWhole
<1>1. WholeInv => AccountIsWhole  BY DEF WholeInv
<1> QED  BY <1>1, TypeInit, TypeStep, WholeInit, WholeStep, PTL DEF LoginSpec

------------------------------------------------------------------------------
(* What the steps of the lockout do, moment by moment.                      *)

LEMMA Numbers ==
  ASSUME LoginTypeOK
  PROVE  /\ now \in Nat /\ now <= MaxTime /\ MaxTime \in Nat /\ Time \subseteq Nat
         /\ LOCKOUT_WINDOW \in Nat /\ LOCKOUT_WINDOW > 0
         /\ MaxDelay \in Nat /\ MaxDelay <= LOCKOUT_WINDOW
         /\ LOCKOUT_THRESHOLD \in Nat /\ LOCKOUT_THRESHOLD > 0
         /\ Never \in Nat /\ Never > MaxTime + LOCKOUT_WINDOW
         /\ \A t \in Time : t <= MaxTime
         /\ \A e \in Email : /\ lock[e] \in Nat /\ counter[e].expires \in Nat
                             /\ counter[e].scores \in [Time -> Nat]
                             /\ fresh[e] \in [Time -> Nat] /\ tries[e] \in [Time -> Nat]
         /\ \A e \in Email, t \in Time : /\ fresh[e][t] \in Nat /\ tries[e][t] \in Nat
                                         /\ counter[e].scores[t] \in Nat
                                         /\ Scores(e)[t] \in Nat
<1>1. /\ now \in Nat /\ now <= MaxTime /\ MaxTime \in Nat /\ Time \subseteq Nat
      /\ LOCKOUT_WINDOW \in Nat /\ LOCKOUT_WINDOW > 0
      /\ MaxDelay \in Nat /\ MaxDelay <= LOCKOUT_WINDOW
      /\ LOCKOUT_THRESHOLD \in Nat /\ LOCKOUT_THRESHOLD > 0
      /\ \A t \in Time : t <= MaxTime
  BY LoginAssumption DEF LoginTypeOK, Time
<1>2. Never \in Nat /\ Never > MaxTime + LOCKOUT_WINDOW  BY <1>1 DEF Never
<1>3. \A e \in Email : /\ lock[e] \in Nat /\ counter[e].expires \in Nat
                       /\ counter[e].scores \in [Time -> Nat]
                       /\ fresh[e] \in [Time -> Nat] /\ tries[e] \in [Time -> Nat]
                       /\ Scores(e) \in [Time -> Nat]
  BY ScoresType DEF LoginTypeOK
<1> QED  BY <1>1, <1>2, <1>3

LEMMA JobType ==
  ASSUME LoginTypeOK, NEW h \in Handler, pc[h] # "idle"
  PROVE  /\ job[h] \in Job /\ job[h].email \in Email
         /\ job[h].at \in Time /\ job[h].since \in Time
         /\ job[h].at \in Nat /\ job[h].since \in Nat
BY DEF LoginTypeOK, Job, Time

\* An address that a handler has nothing to do with.
Spared(e) ==
  /\ counter'[e] = counter[e] /\ lock'[e] = lock[e]
  /\ fresh'[e] = fresh[e] /\ tries'[e] = tries[e]

LEMMA RemoveOldDoes ==
  ASSUME LoginTypeOK, NEW h \in Handler, RemoveOld(h)
  PROVE  /\ pc[h] = "zrem" /\ KeyStays(h, "zadd") /\ UNCHANGED <<lock, now, fresh, tries>>
         /\ counter'[job[h].email].expires = counter[job[h].email].expires
         /\ \A t \in Time : counter'[job[h].email].scores[t] =
              IF t < job[h].at - LOCKOUT_WINDOW THEN 0 ELSE Scores(job[h].email)[t]
         /\ \A e \in Email \ {job[h].email} : Spared(e)
<1> USE DEF History
<1> DEFINE e == job[h].email
           kept == [t \in Time |->
                     IF t < job[h].at - LOCKOUT_WINDOW THEN 0 ELSE Scores(e)[t]]
<1>1. pc[h] = "zrem" /\ UNCHANGED <<lock, now, fresh, tries>>  BY DEF RemoveOld
<1>2. e \in Email  BY <1>1, JobType
<1>3. counter' = [counter EXCEPT ![e].scores = kept]  BY DEF RemoveOld
<1>4. \A t \in Time : kept[t] =
        IF t < job[h].at - LOCKOUT_WINDOW THEN 0 ELSE Scores(job[h].email)[t]
  OBVIOUS
<1>5. KeyStays(h, "zadd")  BY LockoutMoves
<1> HIDE DEF kept, e
<1>6. /\ counter'[e].expires = counter[e].expires /\ counter'[e].scores = kept
      /\ \A f \in Email \ {e} : counter'[f] = counter[f]
  BY <1>2, <1>3 DEF LoginTypeOK
<1> QED  BY <1>1, <1>4, <1>5, <1>6 DEF e, Spared

LEMMA AddDoes ==
  ASSUME LoginTypeOK, NEW h \in Handler, Add(h)
  PROVE  /\ pc[h] = "zadd" /\ KeyStays(h, "expire") /\ UNCHANGED <<lock, now>>
         /\ counter'[job[h].email].expires =
              IF \A t \in Time : Scores(job[h].email)[t] = 0 THEN Never
              ELSE counter[job[h].email].expires
         /\ \A t \in Time :
              LET one == IF t = job[h].at THEN 1 ELSE 0 IN
              /\ counter'[job[h].email].scores[t] = Scores(job[h].email)[t] + one
              /\ fresh'[job[h].email][t] = fresh[job[h].email][t] + one
              /\ tries'[job[h].email][t] = tries[job[h].email][t] + one
         /\ \A e \in Email \ {job[h].email} : Spared(e)
<1> DEFINE e == job[h].email
           u == job[h].at
           more == [Scores(e) EXCEPT ![u] = @ + 1]
           ends == IF \A t \in Time : Scores(e)[t] = 0 THEN Never ELSE counter[e].expires
<1>1. pc[h] = "zadd" /\ UNCHANGED <<lock, now>>  BY DEF Add
<1>2. e \in Email /\ u \in Time  BY <1>1, JobType
<1>3. /\ counter' = [counter EXCEPT ![e] = [scores |-> more, expires |-> ends]]
      /\ fresh' = [fresh EXCEPT ![e][u] = @ + 1] /\ tries' = [tries EXCEPT ![e][u] = @ + 1]
  BY DEF Add
<1>4. \A t \in Time : more[t] = Scores(e)[t] + IF t = u THEN 1 ELSE 0
  BY <1>2, ScoresType, Numbers
<1>5. KeyStays(h, "expire")  BY LockoutMoves
<1>6. ends = IF \A t \in Time : Scores(e)[t] = 0 THEN Never ELSE counter[e].expires
  OBVIOUS
<1> HIDE DEF more, ends, e, u
<1>7. /\ counter'[e].expires = ends /\ counter'[e].scores = more
      /\ \A f \in Email \ {e} : counter'[f] = counter[f]
  BY <1>2, <1>3 DEF LoginTypeOK
<1>8. /\ fresh'[e] = [fresh[e] EXCEPT ![u] = @ + 1]
      /\ \A f \in Email \ {e} : fresh'[f] = fresh[f]
  BY <1>2, <1>3 DEF LoginTypeOK
<1>9. /\ tries'[e] = [tries[e] EXCEPT ![u] = @ + 1]
      /\ \A f \in Email \ {e} : tries'[f] = tries[f]
  BY <1>2, <1>3 DEF LoginTypeOK
<1>10. \A t \in Time : /\ fresh'[e][t] = fresh[e][t] + (IF t = u THEN 1 ELSE 0)
                       /\ tries'[e][t] = tries[e][t] + (IF t = u THEN 1 ELSE 0)
  BY <1>2, <1>8, <1>9, Numbers
<1> QED  BY <1>1, <1>4, <1>5, <1>6, <1>7, <1>8, <1>9, <1>10 DEF e, u, Spared

LEMMA ExpireDoes ==
  ASSUME LoginTypeOK, NEW h \in Handler, ExpireCounter(h)
  PROVE  /\ pc[h] = "expire" /\ KeyStays(h, "zcard") /\ UNCHANGED <<lock, now, fresh, tries>>
         /\ counter'[job[h].email].scores = counter[job[h].email].scores
         /\ counter'[job[h].email].expires =
              IF now < counter[job[h].email].expires THEN now + LOCKOUT_WINDOW
              ELSE counter[job[h].email].expires
         /\ \A e \in Email \ {job[h].email} : Spared(e)
<1> USE DEF History
<1> DEFINE e == job[h].email
           ends == IF now < counter[e].expires THEN now + LOCKOUT_WINDOW
                   ELSE counter[e].expires
<1>1. pc[h] = "expire" /\ UNCHANGED <<lock, now, fresh, tries>>  BY DEF ExpireCounter
<1>2. e \in Email  BY <1>1, JobType
<1>a. counter' = [counter EXCEPT ![e].expires =
        IF now < @ THEN now + LOCKOUT_WINDOW ELSE @]
  BY DEF ExpireCounter
<1>3. counter' = [counter EXCEPT ![e].expires = ends]  BY <1>2, <1>a DEF LoginTypeOK
<1>4. ends = IF now < counter[e].expires THEN now + LOCKOUT_WINDOW
             ELSE counter[e].expires
  OBVIOUS
<1>5. KeyStays(h, "zcard")  BY LockoutMoves
<1> HIDE DEF ends, e
<1>6. /\ counter'[e].expires = ends /\ counter'[e].scores = counter[e].scores
      /\ \A f \in Email \ {e} : counter'[f] = counter[f]
  BY <1>2, <1>3 DEF LoginTypeOK
<1> QED  BY <1>1, <1>4, <1>5, <1>6 DEF e, Spared

LEMMA ClearDoes ==
  ASSUME LoginTypeOK, NEW h \in Handler, Clear(h)
  PROVE  /\ pc[h] = "clear" /\ KeyStays(h, "named") /\ UNCHANGED <<now, tries>>
         /\ counter'[job[h].email].scores = NoScores /\ counter'[job[h].email].expires = 0
         /\ lock'[job[h].email] = 0 /\ fresh'[job[h].email] = NoScores
         /\ \A e \in Email \ {job[h].email} : Spared(e)
<1> DEFINE e == job[h].email
<1>1. pc[h] = "clear" /\ UNCHANGED <<now, tries>>  BY DEF Clear
<1>2. e \in Email  BY <1>1, JobType
<1>3. /\ counter' = [counter EXCEPT ![e] = [scores |-> NoScores, expires |-> 0]]
      /\ lock' = [lock EXCEPT ![e] = 0] /\ fresh' = [fresh EXCEPT ![e] = NoScores]
  BY DEF Clear
<1>4. KeyStays(h, "named")  BY LockoutMoves
<1> HIDE DEF e
<1>5. /\ counter'[e].expires = 0 /\ counter'[e].scores = NoScores
      /\ lock'[e] = 0 /\ fresh'[e] = NoScores
      /\ \A f \in Email \ {e} : counter'[f] = counter[f] /\ lock'[f] = lock[f] /\ fresh'[f] = fresh[f]
  BY <1>2, <1>3 DEF LoginTypeOK
<1> QED  BY <1>1, <1>4, <1>5 DEF e, Spared

LEMMA SetLockDoes ==
  ASSUME LoginTypeOK, NEW h \in Handler, SetLock(h)
  PROVE  /\ pc[h] = "set" /\ LockEnds(h) /\ UNCHANGED <<counter, now, fresh, tries>>
         /\ lock'[job[h].email] = now + LOCKOUT_WINDOW
         /\ \A e \in Email \ {job[h].email} : Spared(e)
<1> USE DEF History
<1> DEFINE e == job[h].email
<1>1. pc[h] = "set" /\ UNCHANGED <<counter, now, fresh, tries>>  BY DEF SetLock
<1>2. e \in Email  BY <1>1, JobType
<1>3. lock' = [lock EXCEPT ![e] = now + LOCKOUT_WINDOW]  BY DEF SetLock
<1>4. LockEnds(h)  BY LockoutMoves
<1> HIDE DEF e
<1>5. /\ lock'[e] = now + LOCKOUT_WINDOW /\ \A f \in Email \ {e} : lock'[f] = lock[f]
  BY <1>2, <1>3 DEF LoginTypeOK
<1> QED  BY <1>1, <1>4, <1>5 DEF e, Spared

LEMMA CountDoes ==
  ASSUME LoginTypeOK, NEW h \in Handler, Count(h)
  PROVE  /\ pc[h] = "zcard" /\ UNCHANGED <<counter, lock, now, fresh, tries>>
         /\ IF Sum(Scores(job[h].email), Time) >= LOCKOUT_THRESHOLD
            THEN KeyStays(h, "set") ELSE LockEnds(h)
BY LockoutMoves DEF Count, Redis, History

LEMMA FailDoes ==
  ASSUME LoginTypeOK, NEW h \in Handler, Fail(h), pc[h] \in Late
  PROVE  /\ LockEnds(h) /\ UNCHANGED <<counter, lock, now, tries>>
         /\ \A t \in Time : fresh'[job[h].email][t] =
              IF t = job[h].at /\ fresh[job[h].email][t] > 0
              THEN fresh[job[h].email][t] - 1 ELSE fresh[job[h].email][t]
         /\ \A e \in Email \ {job[h].email} : Spared(e)
<1> USE DEF Redis
<1> DEFINE e == job[h].email
           u == job[h].at
<1>1. UNCHANGED <<counter, lock, now, tries>>  BY DEF Fail
<1>2. e \in Email /\ u \in Time  BY JobType DEF Late
<1>3. fresh' = [fresh EXCEPT ![e][u] = IF @ > 0 THEN @ - 1 ELSE 0]  BY DEF Fail, Late
<1>4. LockEnds(h)  BY LockoutMoves
<1> HIDE DEF e, u
<1>5. /\ fresh'[e] = [fresh[e] EXCEPT ![u] = IF @ > 0 THEN @ - 1 ELSE 0]
      /\ \A f \in Email \ {e} : fresh'[f] = fresh[f]
  BY <1>2, <1>3 DEF LoginTypeOK
<1>6. \A t \in Time : fresh'[e][t] =
        IF t = u /\ fresh[e][t] > 0 THEN fresh[e][t] - 1 ELSE fresh[e][t]
  BY <1>2, <1>5, Numbers
<1> QED  BY <1>1, <1>4, <1>5, <1>6 DEF e, u, Spared

LEMMA TickDoes ==
  ASSUME LoginTypeOK, Tick
  PROVE  /\ UNCHANGED <<counter, lock, pc, job, tries>> /\ now' = now + 1 /\ now < MaxTime
         /\ \A h \in Handler : pc[h] # "idle" => now < job[h].since + MaxDelay
         /\ \A e \in Email, t \in Time : fresh'[e][t] =
              IF fresh[e][t] > Lost(e, t) THEN fresh[e][t] - Lost(e, t) ELSE 0
BY DEF Tick, Redis

\* What a key holds for those who look at it: one ZADD more, or no more.
LEMMA ScoresAfterAdd ==
  ASSUME LoginTypeOK, NEW h \in Handler, Add(h)
  PROVE  \A e \in Email, t \in Time : Scores(e)'[t] =
           Scores(e)[t] + IF e = job[h].email /\ t = job[h].at THEN 1 ELSE 0
<1> SUFFICES ASSUME NEW e \in Email, NEW t \in Time
             PROVE  Scores(e)'[t] =
               Scores(e)[t] + IF e = job[h].email /\ t = job[h].at THEN 1 ELSE 0
  OBVIOUS
<1>1. now' = now  BY AddDoes
<1>2. CASE e # job[h].email
  <2>1. Scores(e)' = Scores(e)  BY <1>1, <1>2, AddDoes DEF Spared, Scores, NoScores
  <2> QED  BY <1>2, <2>1, Numbers
<1>3. CASE e = job[h].email
  <2>1. now < counter'[e].expires
    <3>1. CASE \A u \in Time : Scores(e)[u] = 0
      <4>1. counter'[e].expires = Never  BY <1>3, <3>1, AddDoes
      <4> QED  BY <4>1, Numbers
    <3>2. ASSUME NEW u \in Time, Scores(e)[u] # 0 PROVE now < counter'[e].expires
      <4>1. now < counter[e].expires  BY <3>2 DEF Scores, NoScores
      <4>2. counter'[e].expires = counter[e].expires  BY <1>3, <3>2, AddDoes
      <4> QED  BY <4>1, <4>2
    <3> QED  BY <3>1, <3>2
  <2>2. Scores(e)' = counter'[e].scores  BY <1>1, <2>1 DEF Scores
  <2>3. counter'[e].scores[t] = Scores(e)[t] + IF t = job[h].at THEN 1 ELSE 0
    BY <1>3, AddDoes
  <2> QED  BY <1>3, <2>2, <2>3
<1> QED  BY <1>2, <1>3

LEMMA ScoresAfterRemoveOld ==
  ASSUME LoginTypeOK, NEW h \in Handler, RemoveOld(h)
  PROVE  \A e \in Email, t \in Time : Scores(e)'[t] =
           IF e = job[h].email /\ t < job[h].at - LOCKOUT_WINDOW THEN 0 ELSE Scores(e)[t]
<1> SUFFICES ASSUME NEW e \in Email, NEW t \in Time
             PROVE  Scores(e)'[t] =
               IF e = job[h].email /\ t < job[h].at - LOCKOUT_WINDOW THEN 0 ELSE Scores(e)[t]
  OBVIOUS
<1>1. now' = now  BY RemoveOldDoes
<1>2. CASE e # job[h].email
  BY <1>1, <1>2, RemoveOldDoes DEF Spared, Scores, NoScores
<1>3. CASE e = job[h].email /\ now < counter[e].expires
  <2>1. now < counter'[e].expires  BY <1>3, RemoveOldDoes
  <2>2. Scores(e)' = counter'[e].scores  BY <1>1, <2>1 DEF Scores
  <2> QED  BY <1>3, <2>2, RemoveOldDoes
<1>4. CASE e = job[h].email /\ ~ (now < counter[e].expires)
  <2>1. ~ (now < counter'[e].expires)  BY <1>4, RemoveOldDoes
  <2>2. Scores(e)' = NoScores /\ Scores(e) = NoScores
    BY <1>1, <1>4, <2>1 DEF Scores, NoScores
  <2> QED  BY <2>2 DEF NoScores
<1> QED  BY <1>2, <1>3, <1>4

LEMMA ScoresAfterExpire ==
  ASSUME LoginTypeOK, NEW h \in Handler, ExpireCounter(h)
  PROVE  \A e \in Email : Scores(e)' = Scores(e)
<1> TAKE e \in Email
<1>1. now' = now  BY ExpireDoes
<1>2. CASE e # job[h].email  BY <1>1, <1>2, ExpireDoes DEF Spared, Scores, NoScores
<1>3. CASE e = job[h].email
  <2>1. /\ counter'[e].scores = counter[e].scores
        /\ counter'[e].expires = IF now < counter[e].expires THEN now + LOCKOUT_WINDOW
                                 ELSE counter[e].expires
    BY <1>3, ExpireDoes
  <2>2. (now < counter'[e].expires) <=> (now < counter[e].expires)  BY <2>1, Numbers
  <2> QED  BY <1>1, <2>1, <2>2 DEF Scores, NoScores
<1> QED  BY <1>2, <1>3

\* No step but a ZADD raises what a key holds.
Lower == \A e \in Email, t \in Time : Scores(e)'[t] <= Scores(e)[t]

LEMMA OthersLower ==
  ASSUME LoginTypeOK, LoginNext, ~ \E h \in Handler : Add(h)
  PROVE  Lower
<1>1. ASSUME NEW h \in Handler, RemoveOld(h) PROVE Lower
  <2> SUFFICES ASSUME NEW e \in Email, NEW t \in Time PROVE Scores(e)'[t] <= Scores(e)[t]
    BY DEF Lower
  <2>1. Scores(e)'[t] \in {0, Scores(e)[t]}  BY <1>1, ScoresAfterRemoveOld
  <2> QED  BY <2>1, Numbers
<1>2. ASSUME NEW h \in Handler, ExpireCounter(h) PROVE Lower
  BY <1>2, ScoresAfterExpire, Numbers DEF Lower
<1>3. ASSUME NEW h \in Handler, Clear(h) PROVE Lower
  <2> SUFFICES ASSUME NEW e \in Email, NEW t \in Time PROVE Scores(e)'[t] <= Scores(e)[t]
    BY DEF Lower
  <2>1. Scores(e)' \in {Scores(e), NoScores}
    BY <1>3, ClearDoes DEF Spared, Scores, NoScores
  <2>2. NoScores[t] = 0  BY DEF NoScores
  <2> QED  BY <2>1, <2>2, Numbers
<1>4. CASE UNCHANGED <<counter, now>>
  <2>1. \A e \in Email : Scores(e)' = Scores(e)  BY <1>4 DEF Scores, NoScores
  <2> QED  BY <2>1, Numbers DEF Lower
<1>5. CASE Tick
  <2> SUFFICES ASSUME NEW e \in Email, NEW t \in Time PROVE Scores(e)'[t] <= Scores(e)[t]
    BY DEF Lower
  <2>1. now' = now + 1 /\ counter' = counter  BY <1>5, TickDoes
  <2>2. Scores(e)' = Scores(e) \/ Scores(e)' = NoScores
    BY <2>1, Numbers DEF Scores, NoScores
  <2>3. NoScores[t] = 0  BY DEF NoScores
  <2> QED  BY <2>2, <2>3, Numbers
<1>6. ASSUME NEW h \in Handler,
             Quiet(h) \/ Count(h) \/ SetLock(h) \/ (Fail(h) /\ pc[h] \in Late)
      PROVE  UNCHANGED <<counter, now>>
  BY <1>6, CountDoes, SetLockDoes, FailDoes DEF Quiet
<1> QED  BY <1>1, <1>2, <1>3, <1>4, <1>5, <1>6, StepKinds

LEMMA ScoresBelow ==
  ASSUME LoginTypeOK, NEW e \in Email, NEW t \in Time
  PROVE  Scores(e)[t] <= counter[e].scores[t]
<1>1. NoScores[t] = 0  BY DEF NoScores
<1> QED  BY <1>1, Numbers DEF Scores

------------------------------------------------------------------------------
(* The clock.  No request is older than MaxDelay, and nothing is counted of *)
(* a moment to come.                                                        *)

InTime(h) == pc[h] # "idle" =>
  /\ job[h].since <= now /\ now <= job[h].since + MaxDelay
  /\ pc[h] \in Record => job[h].since <= job[h].at /\ job[h].at <= now

ClockInv == \A h \in Handler : InTime(h)

PastInv == \A e \in Email, t \in Time :
  /\ fresh[e][t] <= tries[e][t] /\ counter[e].scores[t] <= tries[e][t]
  /\ tries[e][t] > 0 => t <= now

LEMMA PastInit == LoginInit => ClockInv /\ PastInv
<1> SUFFICES ASSUME LoginInit PROVE ClockInv /\ PastInv  OBVIOUS
<1>1. \A t \in Time : NoScores[t] = 0  BY DEF NoScores
<1> QED  BY <1>1 DEF LoginInit, ClockInv, PastInv, InTime

\* The handler that made the step has its times right, the others as before.
LEMMA ClockKept ==
  ASSUME LoginTypeOK, ClockInv, NEW h \in Handler, Moves(h), now' = now,
         \/ pc'[h] = "idle"
         \/ InTime(h)'
         \/ /\ pc[h] # "idle" /\ job'[h] = job[h]
            /\ pc'[h] \in Record => pc[h] \in Record
  PROVE  ClockInv'
<1>1. ASSUME NEW g \in Handler \ {h} PROVE InTime(g)'
  <2>1. pc'[g] = pc[g] /\ job'[g] = job[g]  BY DEF Moves
  <2>2. InTime(g)  BY DEF ClockInv
  <2> QED  BY <2>1, <2>2 DEF InTime
<1>2. InTime(h)'
  <2>1. InTime(h)  BY DEF ClockInv
  <2> QED  BY <2>1 DEF InTime
<1> QED  BY <1>1, <1>2 DEF ClockInv

LEMMA ClockStep == LoginTypeOK /\ LoginTypeOK' /\ ClockInv /\ [LoginNext]_loginVars => ClockInv'
<1> SUFFICES ASSUME LoginTypeOK, LoginTypeOK', ClockInv, [LoginNext]_loginVars PROVE ClockInv'  OBVIOUS
<1>1. CASE UNCHANGED loginVars  BY <1>1 DEF loginVars, ClockInv, InTime
<1>2. CASE Tick
  <2> SUFFICES ASSUME NEW h \in Handler PROVE InTime(h)'  BY DEF ClockInv
  <2>1. InTime(h)  BY DEF ClockInv
  <2>2. pc'[h] = pc[h] /\ job'[h] = job[h] /\ now' = now + 1  BY <1>2, TickDoes
  <2>3. CASE pc[h] # "idle"
    <3>1. now < job[h].since + MaxDelay  BY <1>2, <2>3, TickDoes
    <3>2. job[h].since \in Nat /\ job[h].at \in Nat  BY <2>3, JobType
    <3> QED  BY <2>1, <2>2, <3>1, <3>2, Numbers DEF InTime
  <2> QED  BY <2>2, <2>3 DEF InTime
<1>3. ASSUME NEW h \in Handler, Quiet(h) PROVE ClockInv'
  <2>1. InTime(h)'
    <3> SUFFICES ASSUME pc'[h] # "idle" PROVE InTime(h)'  BY DEF InTime
    <3>1. InTime(h)  BY DEF ClockInv
    <3>2. now' = now  BY <1>3 DEF Quiet
    <3>3. job'[h].since <= now /\ now <= job'[h].since + MaxDelay
      <4>1. CASE pc[h] = "idle"
        <5>1. job'[h].since = now  BY <1>3, <4>1 DEF Quiet
        <5> QED  BY <5>1, Numbers
      <4>2. CASE pc[h] # "idle"
        <5>1. job'[h].since = job[h].since  BY <1>3, <4>2 DEF Quiet
        <5> QED  BY <3>1, <4>2, <5>1 DEF InTime
      <4> QED  BY <4>1, <4>2
    <3>4. pc'[h] \in Record => job'[h].at = now
      BY <1>3 DEF Quiet, Record, Late
    <3> QED  BY <3>2, <3>3, <3>4, Numbers DEF InTime
  <2> QED  BY <1>3, <2>1, ClockKept DEF Quiet
<1>4. ASSUME NEW h \in Handler, RemoveOld(h) \/ Add(h) \/ ExpireCounter(h) \/ Clear(h) PROVE ClockInv'
  <2>1. pc[h] \in Record \cup {"clear"} /\ now' = now
    BY <1>4, RemoveOldDoes, AddDoes, ExpireDoes, ClearDoes DEF Record
  <2>2. Moves(h) /\ job'[h] = job[h] /\ (pc'[h] \in Record => pc[h] \in Record)
    BY <1>4, <2>1, LockoutMoves, RemoveOldDoes, AddDoes, ExpireDoes DEF KeyStays, Record
  <2> QED  BY <2>1, <2>2, ClockKept DEF Record
<1>5. ASSUME NEW h \in Handler, Count(h) PROVE ClockInv'
  <2>1. pc[h] \in Record /\ pc[h] # "idle" /\ now' = now  BY <1>5, CountDoes DEF Record
  <2>2. Moves(h) /\ (pc'[h] = "idle" \/ job'[h] = job[h])  BY <1>5, CountDoes DEF KeyStays, LockEnds
  <2> QED  BY <2>1, <2>2, ClockKept
<1>6. ASSUME NEW h \in Handler, SetLock(h) \/ (Fail(h) /\ pc[h] \in Late) PROVE ClockInv'
  <2>1. LockEnds(h) /\ now' = now  BY <1>6, SetLockDoes, FailDoes
  <2> QED  BY <2>1, ClockKept DEF LockEnds
<1> QED  BY <1>1, <1>2, <1>3, <1>4, <1>5, <1>6, StepKinds

\* The history of failures grows with the clock.
Later == now <= now' /\ \A e \in Email, t \in Time : tries[e][t] <= tries'[e][t]

LEMMA StepIsLater ==
  ASSUME LoginTypeOK, [LoginNext]_loginVars
  PROVE  Later
<1>1. CASE UNCHANGED <<now, tries>>  BY <1>1, Numbers DEF Later
<1>2. ASSUME NEW h \in Handler, Add(h) PROVE Later
  <2>1. job[h].email \in Email  BY <1>2, AddDoes, JobType
  <2>2. ASSUME NEW e \in Email, NEW t \in Time PROVE tries[e][t] <= tries'[e][t]
    <3>1. CASE e = job[h].email
      <4>1. tries'[e][t] = tries[e][t] + IF t = job[h].at THEN 1 ELSE 0  BY <1>2, <3>1, AddDoes
      <4> QED  BY <4>1, Numbers
    <3>2. CASE e # job[h].email
      <4>1. tries'[e] = tries[e]  BY <1>2, <3>2, AddDoes DEF Spared
      <4> QED  BY <4>1, Numbers
    <3> QED  BY <3>1, <3>2
  <2> QED  BY <1>2, <2>2, AddDoes, Numbers DEF Later
<1>3. CASE Tick  BY <1>3, TickDoes, Numbers DEF Later
<1>4. ASSUME NEW h \in Handler,
             \/ Quiet(h) \/ RemoveOld(h) \/ ExpireCounter(h) \/ Count(h) \/ SetLock(h) \/ Clear(h)
             \/ Fail(h) /\ pc[h] \in Late
      PROVE  UNCHANGED <<now, tries>>
  BY <1>4, RemoveOldDoes, ExpireDoes, CountDoes, SetLockDoes, ClearDoes, FailDoes DEF Quiet
<1>5. CASE UNCHANGED loginVars  BY <1>1, <1>5 DEF loginVars
<1> QED  BY <1>1, <1>2, <1>3, <1>4, <1>5, StepKinds

LEMMA PastStep ==
  LoginTypeOK /\ LoginTypeOK' /\ ClockInv /\ PastInv /\ [LoginNext]_loginVars => PastInv'
<1> SUFFICES ASSUME LoginTypeOK, LoginTypeOK', ClockInv, PastInv, [LoginNext]_loginVars,
                    NEW e \in Email, NEW t \in Time
             PROVE  /\ fresh'[e][t] <= tries'[e][t] /\ counter'[e].scores[t] <= tries'[e][t]
                    /\ tries'[e][t] > 0 => t <= now'
  BY DEF PastInv
<1> DEFINE Goal == /\ fresh'[e][t] <= tries'[e][t] /\ counter'[e].scores[t] <= tries'[e][t]
                   /\ tries'[e][t] > 0 => t <= now'
<1>0. /\ fresh[e][t] <= tries[e][t] /\ counter[e].scores[t] <= tries[e][t]
      /\ tries[e][t] > 0 => t <= now
      /\ Scores(e)[t] <= counter[e].scores[t]
      /\ fresh[e][t] \in Nat /\ tries[e][t] \in Nat /\ counter[e].scores[t] \in Nat
      /\ Scores(e)[t] \in Nat /\ now \in Nat /\ t \in Nat
  BY ScoresBelow, Numbers DEF PastInv
<1>k. NoScores[t] = 0  BY DEF NoScores
<1>1. CASE UNCHANGED <<counter, fresh, tries, now>>  BY <1>0, <1>1
<1>2. ASSUME NEW h \in Handler, RemoveOld(h) PROVE Goal
  <2>1. counter'[e] = counter[e] \/ counter'[e].scores[t] \in {0, Scores(e)[t]}
    BY <1>2, RemoveOldDoes DEF Spared
  <2>2. UNCHANGED <<fresh, tries, now>>  BY <1>2, RemoveOldDoes
  <2> QED  BY <1>0, <2>1, <2>2
<1>3. ASSUME NEW h \in Handler, Add(h) PROVE Goal
  <2>1. now' = now  BY <1>3, AddDoes
  <2>2. CASE e # job[h].email
    BY <1>0, <1>3, <2>1, <2>2, AddDoes DEF Spared
  <2>3. CASE e = job[h].email
    <3>1. pc[h] = "zadd" /\ InTime(h)  BY <1>3, AddDoes DEF ClockInv
    <3>2. job[h].at <= now  BY <3>1 DEF InTime, Record
    <3> DEFINE one == IF t = job[h].at THEN 1 ELSE 0
    <3>3. /\ counter'[e].scores[t] = Scores(e)[t] + one
          /\ fresh'[e][t] = fresh[e][t] + one /\ tries'[e][t] = tries[e][t] + one
      BY <1>3, <2>3, AddDoes
    <3>4. one \in {0, 1} /\ (one = 1 => t <= now)  BY <3>2
    <3> HIDE DEF one
    <3> QED  BY <1>0, <2>1, <3>3, <3>4
  <2> QED  BY <2>2, <2>3
<1>4. ASSUME NEW h \in Handler, ExpireCounter(h) PROVE Goal
  <2>1. counter'[e].scores = counter[e].scores  BY <1>4, ExpireDoes DEF Spared
  <2>2. UNCHANGED <<fresh, tries, now>>  BY <1>4, ExpireDoes
  <2> QED  BY <1>0, <2>1, <2>2
<1>5. ASSUME NEW h \in Handler, Clear(h) PROVE Goal
  <2>1. counter'[e].scores \in {NoScores, counter[e].scores} /\ fresh'[e] \in {NoScores, fresh[e]}
    BY <1>5, ClearDoes DEF Spared
  <2>2. UNCHANGED <<tries, now>>  BY <1>5, ClearDoes
  <2> QED  BY <1>0, <1>k, <2>1, <2>2
<1>6. ASSUME NEW h \in Handler, Fail(h), pc[h] \in Late PROVE Goal
  <2>1. fresh'[e] = fresh[e] \/ fresh'[e][t] = fresh[e][t] \/ fresh'[e][t] = fresh[e][t] - 1
    BY <1>6, FailDoes DEF Spared
  <2>2. UNCHANGED <<counter, tries, now>>  BY <1>6, FailDoes
  <2> QED  BY <1>0, <2>1, <2>2
<1>7. CASE Tick
  <2>1. now' = now + 1 /\ UNCHANGED <<counter, tries>>  BY <1>7, TickDoes
  <2>2. Lost(e, t) \in Nat  BY LostType
  <2>3. fresh'[e][t] = IF fresh[e][t] > Lost(e, t) THEN fresh[e][t] - Lost(e, t) ELSE 0
    BY <1>7, TickDoes
  <2> QED  BY <1>0, <2>1, <2>2, <2>3
<1>8. ASSUME NEW h \in Handler, Quiet(h) \/ Count(h) \/ SetLock(h) PROVE Goal
  <2>1. UNCHANGED <<counter, fresh, tries, now>>  BY <1>8, CountDoes, SetLockDoes DEF Quiet
  <2> QED  BY <1>1, <2>1
<1>9. CASE UNCHANGED loginVars  BY <1>1, <1>9 DEF loginVars
<1> QED  BY <1>2, <1>3, <1>4, <1>5, <1>6, <1>7, <1>8, <1>9, StepKinds

------------------------------------------------------------------------------
(* What a lock rests on.  Behind its ZREMRANGEBYSCORE a handler finds none  *)
(* but failures of its window in the key, whoever adds them; so the number  *)
(* it counts is one of failures of the window.                              *)

Trimmed(h) == pc[h] \in {"zadd", "expire", "zcard"} =>
  \A t \in Time : Scores(job[h].email)[t] > 0 => t >= job[h].at - LOCKOUT_WINDOW

Earned(h) == pc[h] = "set" =>
  Sum(tries[job[h].email], (job[h].at - LOCKOUT_WINDOW) .. now) >= LOCKOUT_THRESHOLD

TrimmedInv == \A h \in Handler : Trimmed(h)
EarnedInv == LockIsEarned /\ \A h \in Handler : Earned(h)

LEMMA EarnedInit == LoginInit => TrimmedInv /\ EarnedInv
<1> SUFFICES ASSUME LoginInit PROVE TrimmedInv /\ EarnedInv  OBVIOUS
<1>1. LoginTypeOK  BY TypeInit
<1>2. \A h \in Handler : Trimmed(h) /\ Earned(h)  BY DEF LoginInit, Trimmed, Earned
<1>3. \A e \in Email : ~ (now < lock[e])  BY DEF LoginInit
<1> QED  BY <1>2, <1>3 DEF TrimmedInv, EarnedInv, LockIsEarned

\* Who was behind it, or looks at a key with less in it, still is.
LEMMA TrimmedKept ==
  ASSUME LoginTypeOK, TrimmedInv, Lower, NEW h \in Handler, LoginTypeOK',
         pc'[h] \in {"zadd", "expire", "zcard"} =>
           pc[h] \in {"zadd", "expire", "zcard"} /\ job'[h] = job[h]
  PROVE  Trimmed(h)'
<1> SUFFICES ASSUME pc'[h] \in {"zadd", "expire", "zcard"}, NEW t \in Time,
                    NEW e \in Email, e = job[h].email, Scores(e)'[t] > 0
             PROVE  t >= job[h].at - LOCKOUT_WINDOW
  <2>1. \/ pc[h] # "idle" /\ job'[h] = job[h]
        \/ pc'[h] \notin {"zadd", "expire", "zcard"}
    OBVIOUS
  <2>2. pc[h] # "idle" => job[h].email \in Email  BY JobType
  <2> QED  BY <2>1, <2>2 DEF Trimmed
<1>1. Scores(e)'[t] <= Scores(e)[t]  BY DEF Lower
<1>2. Scores(e)[t] \in Nat  BY Numbers
<1>3. Scores(e)' \in [Time -> Nat]  BY DEF LoginTypeOK, Scores, NoScores
<1>4. Scores(e)[t] > 0  BY <1>1, <1>2, <1>3
<1> QED  BY <1>4 DEF TrimmedInv, Trimmed

LEMMA TrimmedStep ==
  LoginTypeOK /\ LoginTypeOK' /\ ClockInv /\ TrimmedInv /\ [LoginNext]_loginVars => TrimmedInv'
<1> SUFFICES ASSUME LoginTypeOK, LoginTypeOK', ClockInv, TrimmedInv, [LoginNext]_loginVars PROVE TrimmedInv'
  OBVIOUS
<1> DEFINE Three == {"zadd", "expire", "zcard"}
<1>1. CASE UNCHANGED loginVars
  BY <1>1 DEF loginVars, TrimmedInv, Trimmed, Scores, NoScores
<1>2. ASSUME NEW g \in Handler, Add(g) PROVE TrimmedInv'
  <2> SUFFICES ASSUME NEW h \in Handler, pc'[h] \in Three, NEW t \in Time,
                      NEW e \in Email, e = job[h].email, Scores(e)'[t] > 0
               PROVE  t >= job[h].at - LOCKOUT_WINDOW
    <3>1. \A h \in Handler : job'[h] = job[h] /\ (pc'[h] \in Three => pc[h] # "idle")
      BY <1>2, AddDoes DEF KeyStays, Moves
    <3>2. \A h \in Handler : pc[h] # "idle" => job[h].email \in Email  BY JobType
    <3> QED  BY <3>1, <3>2 DEF TrimmedInv, Trimmed
  <2>1. pc[g] = "zadd" /\ \A x \in Handler \ {g} : pc'[x] = pc[x]
    BY <1>2, AddDoes DEF KeyStays, Moves
  <2>2. pc[h] \in Three  BY <2>1
  <2>3. /\ job[g].since <= job[g].at /\ now <= job[g].since + MaxDelay
        /\ job[h].at \in Nat /\ job[g].since \in Nat /\ job[g].at \in Nat
    BY <2>1, <2>2, JobType DEF ClockInv, InTime, Record
  <2>4. CASE t = job[g].at
    <3>1. CASE h = g  BY <2>3, <2>4, <3>1, Numbers
    <3>2. CASE pc[h] \in {"expire", "zcard"} \/ pc[h] = "zadd"
      <4>1. job[h].at <= now  BY <3>2 DEF ClockInv, InTime, Record
      <4> QED  BY <2>3, <2>4, <4>1, Numbers
    <3> QED  BY <2>2, <3>1, <3>2
  <2>5. CASE t # job[g].at
    <3>1. Scores(e)'[t] = Scores(e)[t] + 0  BY <1>2, <2>5, ScoresAfterAdd
    <3>2. Scores(e)[t] > 0  BY <3>1, Numbers
    <3> QED  BY <2>2, <3>2 DEF TrimmedInv, Trimmed
  <2> QED  BY <2>4, <2>5
<1>3. ASSUME NEW g \in Handler, RemoveOld(g) PROVE TrimmedInv'
  <2> SUFFICES ASSUME NEW h \in Handler PROVE Trimmed(h)'  BY DEF TrimmedInv
  <2>1. \A e \in Email, t \in Time : Scores(e)'[t] =
           IF e = job[g].email /\ t < job[g].at - LOCKOUT_WINDOW THEN 0 ELSE Scores(e)[t]
    BY <1>3, ScoresAfterRemoveOld
  <2>2. CASE h = g
    <3>1. job'[g] = job[g] /\ job[g].email \in Email /\ job[g].at \in Nat
      BY <1>3, RemoveOldDoes, JobType DEF KeyStays
    <3>2. ASSUME NEW t \in Time, Scores(job[g].email)'[t] > 0, NEW e \in Email, e = job[g].email
          PROVE  t >= job[g].at - LOCKOUT_WINDOW
      <4>1. Scores(e)'[t] > 0  BY <3>1, <3>2
      <4>2. ~ (t < job[g].at - LOCKOUT_WINDOW)  BY <2>1, <3>2, <4>1
      <4> QED  BY <3>1, <4>2, Numbers
    <3> QED  BY <2>2, <3>1, <3>2 DEF Trimmed
  <2>3. CASE h # g
    <3>1. pc'[h] = pc[h] /\ job'[h] = job[h]  BY <1>3, <2>3, RemoveOldDoes DEF KeyStays, Moves
    <3>2. Lower  BY <2>1, Numbers DEF Lower
    <3> QED  BY <3>1, <3>2, TrimmedKept
  <2> QED  BY <2>2, <2>3
<1>4. ASSUME LoginNext, ~ \E g \in Handler : Add(g) \/ RemoveOld(g) PROVE TrimmedInv'
  <2> SUFFICES ASSUME NEW h \in Handler PROVE Trimmed(h)'  BY DEF TrimmedInv
  <2>1. Lower  BY <1>4, OthersLower
  <2>2. pc'[h] \in Three => pc[h] \in Three /\ job'[h] = job[h]
    <3>1. CASE Tick  BY <3>1, TickDoes
    <3>2. ASSUME NEW g \in Handler, Quiet(g)
          PROVE  pc'[h] \in Three => pc[h] \in Three /\ job'[h] = job[h]
      BY <3>2 DEF Quiet, Moves, Late
    <3>3. ASSUME NEW g \in Handler, ExpireCounter(g) \/ Count(g) \/ SetLock(g) \/ Clear(g)
                                      \/ (Fail(g) /\ pc[g] \in Late)
          PROVE  pc'[h] \in Three => pc[h] \in Three /\ job'[h] = job[h]
      <4>1. /\ Moves(g)
            /\ \/ pc'[g] \in {"idle", "set", "named"}
               \/ pc'[g] = "zcard" /\ pc[g] = "expire" /\ job'[g] = job[g]
        BY <3>3, ExpireDoes, CountDoes, SetLockDoes, ClearDoes, FailDoes DEF KeyStays, LockEnds
      <4> QED  BY <4>1 DEF Moves
    <3> QED  BY <1>4, <3>1, <3>2, <3>3, StepKinds
  <2> QED  BY <2>1, <2>2, TrimmedKept
<1> QED  BY <1>1, <1>2, <1>3, <1>4

\* A lock that was there before, or a handler that was about to set one, rests
\* on what it rested on.
LEMMA EarnedKept ==
  ASSUME LoginTypeOK, LoginTypeOK', Later, NEW e \in Email, NEW low \in Int, NEW high \in Int,
         Sum(tries[e], low .. high) >= LOCKOUT_THRESHOLD
  PROVE  \A more \in Int : high <= more => Sum(tries'[e], low .. more) >= LOCKOUT_THRESHOLD
<1> SUFFICES ASSUME NEW more \in Int, high <= more
             PROVE  Sum(tries'[e], low .. more) >= LOCKOUT_THRESHOLD
  OBVIOUS
<1>1. tries[e] \in [Time -> Nat] /\ tries'[e] \in [Time -> Nat]  BY DEF LoginTypeOK
<1>2. \A t \in (low .. high) \cap Time : tries[e][t] > 0 =>
        t \in low .. more /\ tries[e][t] <= tries'[e][t]
  BY DEF Later
<1>3. Sum(tries[e], low .. high) <= Sum(tries'[e], low .. more)  BY <1>1, <1>2, SumGrows
<1>4. Sum(tries[e], low .. high) \in Nat /\ Sum(tries'[e], low .. more) \in Nat
  BY <1>1, TagsFinite
<1> QED  BY <1>3, <1>4, Numbers

LEMMA EarnedStep ==
  /\ LoginTypeOK /\ LoginTypeOK' /\ ClockInv /\ PastInv /\ TrimmedInv /\ EarnedInv
  /\ [LoginNext]_loginVars
  => EarnedInv'
<1> SUFFICES ASSUME LoginTypeOK, LoginTypeOK', ClockInv, PastInv, TrimmedInv, EarnedInv, [LoginNext]_loginVars
             PROVE  EarnedInv'
  OBVIOUS
<1>0. Later  BY StepIsLater
<1>n. now' \in Nat /\ now <= now' /\ now \in Nat  BY <1>0, LoginAssumption DEF Later, LoginTypeOK, Time
<1>1. ASSUME NEW h \in Handler, Count(h), pc'[h] = "set" PROVE Earned(h)'
  <2> DEFINE e == job[h].email
             low == job[h].at - LOCKOUT_WINDOW
  <2>1. /\ pc[h] = "zcard" /\ job'[h] = job[h] /\ UNCHANGED <<tries, now>>
        /\ Sum(Scores(e), Time) >= LOCKOUT_THRESHOLD
    BY <1>1, CountDoes DEF KeyStays, LockEnds
  <2>2. e \in Email /\ low \in Int  BY <2>1, JobType, Numbers
  <2>3. \A t \in Time \cap Time : Scores(e)[t] > 0 =>
          t \in low .. now /\ Scores(e)[t] <= tries[e][t]
    <3> SUFFICES ASSUME NEW t \in Time, Scores(e)[t] > 0
                 PROVE  t \in low .. now /\ Scores(e)[t] <= tries[e][t]
      OBVIOUS
    <3>1. t >= low  BY <2>1 DEF TrimmedInv, Trimmed
    <3>2. Scores(e)[t] <= counter[e].scores[t] /\ counter[e].scores[t] <= tries[e][t]
      BY <2>2, ScoresBelow DEF PastInv
    <3>3. tries[e][t] > 0 => t <= now  BY <2>2 DEF PastInv
    <3>4. Scores(e)[t] \in Nat /\ counter[e].scores[t] \in Nat /\ tries[e][t] \in Nat
          /\ t \in Nat /\ now \in Nat
      BY <2>2, Numbers
    <3> HIDE DEF e, low
    <3> QED  BY <2>2, <3>1, <3>2, <3>3, <3>4
  <2>4. Scores(e) \in [Time -> Nat] /\ tries[e] \in [Time -> Nat]  BY <2>2, ScoresType, Numbers
  <2> HIDE DEF e, low
  <2>5. Sum(Scores(e), Time) <= Sum(tries[e], low .. now)  BY <2>3, <2>4, SumGrows
  <2>6. Sum(Scores(e), Time) \in Nat /\ Sum(tries[e], low .. now) \in Nat
    BY <2>4, TagsFinite
  <2>7. Sum(tries[e], low .. now) >= LOCKOUT_THRESHOLD  BY <2>1, <2>5, <2>6, Numbers
  <2> QED  BY <2>1, <2>7 DEF e, low, Earned
<1>2. ASSUME NEW h \in Handler, pc'[h] = "set", pc[h] = "set", job'[h] = job[h]
      PROVE  Earned(h)'
  <2> DEFINE e == job[h].email
             low == job[h].at - LOCKOUT_WINDOW
  <2>1. e \in Email /\ low \in Int  BY <1>2, JobType, Numbers
  <2>2. Sum(tries[e], low .. now) >= LOCKOUT_THRESHOLD  BY <1>2 DEF EarnedInv, Earned
  <2>3. now \in Int /\ now' \in Int /\ now <= now'  BY <1>n
  <2> HIDE DEF e, low
  <2>4. Sum(tries'[e], low .. now') >= LOCKOUT_THRESHOLD
    BY <1>0, <2>1, <2>2, <2>3, EarnedKept
  <2> QED  BY <1>2, <2>4 DEF e, low, Earned
<1>3. ASSUME NEW h \in Handler PROVE Earned(h)'
  <2> SUFFICES ASSUME pc'[h] = "set" PROVE Earned(h)'  BY DEF Earned
  <2>1. CASE pc[h] = "set" /\ job'[h] = job[h]  BY <1>2, <2>1
  <2>2. CASE UNCHANGED loginVars  BY <2>1, <2>2 DEF loginVars
  <2>3. CASE Tick  BY <2>1, <2>3, TickDoes
  <2>4. ASSUME NEW g \in Handler, g # h, Moves(g) PROVE pc[h] = "set" /\ job'[h] = job[h]
    BY <2>4 DEF Moves
  <2>5. ASSUME NEW g \in Handler,
               \/ Quiet(g)
               \/ RemoveOld(g) \/ Add(g) \/ ExpireCounter(g) \/ Count(g) \/ SetLock(g) \/ Clear(g)
               \/ Fail(g) /\ pc[g] \in Late
        PROVE  Moves(g) /\ (g = h => Count(h))
    BY <2>5, RemoveOldDoes, AddDoes, ExpireDoes, CountDoes, SetLockDoes, ClearDoes, FailDoes
    DEF Quiet, KeyStays, LockEnds, Late
  <2> QED  BY <1>1, <2>1, <2>2, <2>3, <2>4, <2>5, StepKinds
<1>4. ASSUME NEW e \in Email, now' < lock'[e], lock'[e] = lock[e]
      PROVE  LET set == lock'[e] - LOCKOUT_WINDOW
             IN  Sum(tries'[e], (set - LOCKOUT_WINDOW - MaxDelay) .. set) >= LOCKOUT_THRESHOLD
  <2> DEFINE set == lock'[e] - LOCKOUT_WINDOW
             low == set - LOCKOUT_WINDOW - MaxDelay
  <2>1. set \in Int /\ low \in Int  BY <1>4, Numbers
  <2>2. now < lock[e]  BY <1>4, <1>n, Numbers
  <2>3. Sum(tries[e], low .. set) >= LOCKOUT_THRESHOLD
    BY <1>4, <2>2 DEF EarnedInv, LockIsEarned
  <2> HIDE DEF low, set
  <2>4. set <= set  BY <2>1
  <2>5. Sum(tries'[e], low .. set) >= LOCKOUT_THRESHOLD
    BY <1>0, <2>1, <2>3, <2>4, EarnedKept
  <2> QED  BY <2>5 DEF low, set
<1>5. ASSUME NEW h \in Handler, SetLock(h), NEW e \in Email, e = job[h].email
      PROVE  LET set == lock'[e] - LOCKOUT_WINDOW
             IN  Sum(tries'[e], (set - LOCKOUT_WINDOW - MaxDelay) .. set) >= LOCKOUT_THRESHOLD
  <2> DEFINE low == now - LOCKOUT_WINDOW - MaxDelay
             from == job[h].at - LOCKOUT_WINDOW
  <2>1. lock'[e] - LOCKOUT_WINDOW = now /\ tries' = tries /\ pc[h] = "set"
    BY <1>5, SetLockDoes, Numbers
  <2>2. /\ job[h].since <= job[h].at /\ now <= job[h].since + MaxDelay
        /\ job[h].since \in Nat /\ job[h].at \in Nat
    BY <2>1, JobType DEF ClockInv, InTime, Record
  <2>3. low \in Int /\ from \in Int /\ low <= from /\ now \in Int  BY <2>2, Numbers
  <2>4. Sum(tries[e], from .. now) >= LOCKOUT_THRESHOLD
    BY <1>5, <2>1 DEF EarnedInv, Earned
  <2>5. tries[e] \in [Time -> Nat]  BY Numbers
  <2>m. \A t \in Time : tries[e][t] <= tries[e][t]  BY Numbers
  <2> HIDE DEF low, from
  <2>6. \A t \in (from .. now) \cap Time : tries[e][t] > 0 =>
          t \in low .. now /\ tries[e][t] <= tries[e][t]
    BY <2>3, <2>m
  <2>7. Sum(tries[e], from .. now) <= Sum(tries[e], low .. now)  BY <2>5, <2>6, SumGrows
  <2>8. Sum(tries[e], from .. now) \in Nat /\ Sum(tries[e], low .. now) \in Nat
    BY <2>5, TagsFinite
  <2>9. Sum(tries[e], low .. now) >= LOCKOUT_THRESHOLD  BY <2>4, <2>7, <2>8, Numbers
  <2> QED  BY <2>1, <2>9 DEF low
<1>6. LockIsEarned'
  <2> SUFFICES ASSUME NEW e \in Email, now' < lock'[e]
               PROVE  LET set == lock'[e] - LOCKOUT_WINDOW
                      IN  Sum(tries'[e], (set - LOCKOUT_WINDOW - MaxDelay) .. set)
                            >= LOCKOUT_THRESHOLD
    BY DEF LockIsEarned
  <2>1. CASE lock'[e] = lock[e]  BY <1>4, <2>1
  <2>2. CASE UNCHANGED loginVars  BY <2>1, <2>2 DEF loginVars
  <2>3. CASE Tick  BY <2>1, <2>3, TickDoes
  <2>4. ASSUME NEW h \in Handler, SetLock(h)
        PROVE  LET set == lock'[e] - LOCKOUT_WINDOW
               IN  Sum(tries'[e], (set - LOCKOUT_WINDOW - MaxDelay) .. set)
                     >= LOCKOUT_THRESHOLD
    <3>1. CASE e = job[h].email  BY <1>5, <2>4, <3>1
    <3>2. CASE e # job[h].email
      <4>1. lock'[e] = lock[e]  BY <2>4, <3>2, SetLockDoes DEF Spared
      <4> QED  BY <2>1, <4>1
    <3> QED  BY <3>1, <3>2
  <2>5. ASSUME NEW h \in Handler, Clear(h) PROVE lock'[e] = lock[e]
    <3>1. lock'[e] \in {0, lock[e]}  BY <2>5, ClearDoes DEF Spared
    <3>2. lock'[e] # 0  BY <1>n
    <3> QED  BY <3>1, <3>2
  <2>6. ASSUME NEW h \in Handler,
               \/ Quiet(h) \/ RemoveOld(h) \/ Add(h) \/ ExpireCounter(h) \/ Count(h)
               \/ Fail(h) /\ pc[h] \in Late
        PROVE  lock'[e] = lock[e]
    BY <2>6, RemoveOldDoes, AddDoes, ExpireDoes, CountDoes, FailDoes DEF Quiet
  <2> QED  BY <2>1, <2>2, <2>3, <2>4, <2>5, <2>6, StepKinds
<1> QED  BY <1>3, <1>6 DEF EarnedInv

\* Property 15: a lock stands only where THRESHOLD wrong passwords came within
\* a window and the time of a request before it was set.
THEOREM LocksAreEarned == LoginSpec => []LockIsEarned
<1>1. LoginInit => LoginTypeOK /\ ClockInv /\ PastInv /\ TrimmedInv /\ EarnedInv
  BY TypeInit, PastInit, EarnedInit
<1>2. LoginTypeOK /\ ClockInv /\ PastInv /\ TrimmedInv /\ EarnedInv /\ [LoginNext]_loginVars =>
        (LoginTypeOK /\ ClockInv /\ PastInv /\ TrimmedInv /\ EarnedInv)'
  BY TypeStep, ClockStep, PastStep, TrimmedStep, EarnedStep
<1>3. EarnedInv => LockIsEarned  BY DEF EarnedInv
<1> QED  BY <1>1, <1>2, <1>3, PTL DEF LoginSpec

------------------------------------------------------------------------------
(* What failures lock.  A key that was there when a failure was added and    *)
(* had its EXPIRE lives for a window from the failure on (KeyLives), so that *)
(* what is fresh is still counted (HeldInv).                                 *)

Waiting(e, t) == {h \in Handler : pc[h] = "expire" /\ job[h].email = e /\ job[h].at = t}
Waits(e, t) == Cardinality(Waiting(e, t))

KeyLives == \A e \in Email, t \in Time :
  fresh[e][t] > (IF now < counter[e].expires THEN Waits(e, t) ELSE 0)
    => counter[e].expires >= t + LOCKOUT_WINDOW

HeldInv == \A e \in Email, t \in Time :
  t > now - LOCKOUT_WINDOW => fresh[e][t] <= Scores(e)[t]

LEMMA LivesInit == LoginInit => KeyLives /\ HeldInv
<1> SUFFICES ASSUME LoginInit PROVE KeyLives /\ HeldInv  OBVIOUS
<1>1. \A e \in Email, t \in Time : fresh[e][t] = 0 /\ Scores(e)[t] = 0
  BY DEF LoginInit, NoScores, Scores
<1>2. \A e \in Email : ~ (now < counter[e].expires)  BY DEF LoginInit
<1> QED  BY <1>1, <1>2 DEF KeyLives, HeldInv

LEMMA WaitsType ==
  ASSUME NEW e, NEW t
  PROVE  IsFiniteSet(Waiting(e, t)) /\ Waits(e, t) \in Nat
<1>1. Waiting(e, t) \in SUBSET Handler /\ IsFiniteSet(Handler)
  BY LoginAssumption DEF Waiting
<1>2. IsFiniteSet(Waiting(e, t))  BY <1>1, FS_Subset, Zenon
<1> QED  BY <1>2, FS_CardinalityType, Zenon DEF Waits

LEMMA WaitsAsBefore ==
  ASSUME NEW h \in Handler, Moves(h), pc[h] # "expire", pc'[h] # "expire", NEW e, NEW t
  PROVE  Waits(e, t)' = Waits(e, t)
<1>1. Waiting(e, t)' = Waiting(e, t)  BY DEF Waiting, Moves
<1> QED  BY <1>1 DEF Waits

LEMMA WaitsOneMore ==
  ASSUME NEW h \in Handler, KeyStays(h, "expire"), pc[h] # "expire", NEW e, NEW t
  PROVE  Waits(e, t)' = Waits(e, t) + IF e = job[h].email /\ t = job[h].at THEN 1 ELSE 0
<1>1. CASE e = job[h].email /\ t = job[h].at
  <2>1. Waiting(e, t)' = Waiting(e, t) \cup {h} /\ h \notin Waiting(e, t)
    BY <1>1 DEF Waiting, KeyStays, Moves
  <2>2. Cardinality(Waiting(e, t) \cup {h}) = Cardinality(Waiting(e, t)) + 1
    BY <2>1, WaitsType, FS_AddElement, Zenon
  <2> QED  BY <1>1, <2>1, <2>2 DEF Waits
<1>2. CASE ~ (e = job[h].email /\ t = job[h].at)
  <2>1. Waiting(e, t)' = Waiting(e, t)  BY <1>2 DEF Waiting, KeyStays, Moves
  <2> QED  BY <1>2, <2>1, WaitsType DEF Waits
<1> QED  BY <1>1, <1>2

LEMMA WaitsOneLess ==
  ASSUME NEW h \in Handler, Moves(h), pc[h] = "expire", pc'[h] # "expire", NEW e, NEW t
  PROVE  Waits(e, t) = Waits(e, t)' + IF e = job[h].email /\ t = job[h].at THEN 1 ELSE 0
<1>0. \A n, m \in Nat : n = m - 1 => m = n + 1  OBVIOUS
<1>1. CASE e = job[h].email /\ t = job[h].at
  <2>1. Waiting(e, t)' = Waiting(e, t) \ {h} /\ h \in Waiting(e, t)
    BY <1>1 DEF Waiting, Moves
  <2>2. /\ Cardinality(Waiting(e, t) \ {h}) = Cardinality(Waiting(e, t)) - 1
        /\ IsFiniteSet(Waiting(e, t) \ {h})
    BY <2>1, WaitsType, FS_RemoveElement, Zenon
  <2>3. Cardinality(Waiting(e, t) \ {h}) \in Nat  BY <2>2, FS_CardinalityType, Zenon
  <2> QED  BY <1>0, <1>1, <2>1, <2>2, <2>3, WaitsType DEF Waits
<1>2. CASE ~ (e = job[h].email /\ t = job[h].at)
  <2>1. Waiting(e, t)' = Waiting(e, t)  BY <1>2 DEF Waiting, Moves
  <2> QED  BY <1>2, <2>1, WaitsType DEF Waits
<1> QED  BY <1>1, <1>2

LEMMA KeyLivesStep ==
  LoginTypeOK /\ LoginTypeOK' /\ PastInv /\ KeyLives /\ [LoginNext]_loginVars => KeyLives'
<1> SUFFICES ASSUME LoginTypeOK, LoginTypeOK', PastInv, KeyLives, [LoginNext]_loginVars,
                    NEW e \in Email, NEW t \in Time,
                    fresh'[e][t] > (IF now' < counter'[e].expires THEN Waits(e, t)' ELSE 0)
             PROVE  counter'[e].expires >= t + LOCKOUT_WINDOW
  BY DEF KeyLives
<1> DEFINE Goal == counter'[e].expires >= t + LOCKOUT_WINDOW
<1>0. /\ fresh[e][t] \in Nat /\ counter[e].expires \in Nat /\ now \in Nat /\ t \in Nat
      /\ Waits(e, t) \in Nat /\ LOCKOUT_WINDOW \in Nat
      /\ Never >= t + LOCKOUT_WINDOW
      /\ fresh[e][t] > 0 => t <= now
  <2>1. fresh[e][t] <= tries[e][t] /\ (tries[e][t] > 0 => t <= now)  BY DEF PastInv
  <2> QED  BY <2>1, Numbers, WaitsType
<1>1. fresh[e][t] > (IF now < counter[e].expires THEN Waits(e, t) ELSE 0)
        => counter[e].expires >= t + LOCKOUT_WINDOW
  BY DEF KeyLives
<1>w. Waits(e, t)' \in Nat
  <2>1. Waiting(e, t)' \in SUBSET Handler /\ IsFiniteSet(Handler)
    BY LoginAssumption DEF Waiting
  <2>2. IsFiniteSet(Waiting(e, t)')  BY <2>1, FS_Subset, Zenon
  <2> QED  BY <2>2, FS_CardinalityType, Zenon DEF Waits
<1>2. CASE /\ UNCHANGED now /\ counter'[e].expires = counter[e].expires
           /\ Waits(e, t)' = Waits(e, t) /\ fresh'[e][t] \in Nat /\ fresh'[e][t] <= fresh[e][t]
  BY <1>0, <1>1, <1>2
<1>3. CASE UNCHANGED loginVars
  <2>1. UNCHANGED now /\ counter' = counter /\ fresh' = fresh  BY <1>3 DEF loginVars
  <2>2. Waits(e, t)' = Waits(e, t)  BY <1>3 DEF loginVars, Waits, Waiting
  <2> QED  BY <1>0, <1>2, <2>1, <2>2
<1>4. ASSUME NEW h \in Handler, Quiet(h) \/ Count(h) \/ SetLock(h) PROVE Goal
  <2>1. UNCHANGED <<now, counter, fresh>>  BY <1>4, CountDoes, SetLockDoes DEF Quiet
  <2>2. Moves(h) /\ pc[h] # "expire" /\ pc'[h] # "expire"
    BY <1>4, CountDoes, SetLockDoes DEF Quiet, KeyStays, LockEnds, Late
  <2>3. Waits(e, t)' = Waits(e, t)  BY <2>2, WaitsAsBefore
  <2> QED  BY <1>0, <1>2, <2>1, <2>3
<1>5. ASSUME NEW h \in Handler, RemoveOld(h) PROVE Goal
  <2>1. UNCHANGED <<now, fresh>> /\ counter'[e].expires = counter[e].expires
    BY <1>5, RemoveOldDoes DEF Spared
  <2>2. Waits(e, t)' = Waits(e, t)  BY <1>5, RemoveOldDoes, WaitsAsBefore DEF KeyStays
  <2> QED  BY <1>0, <1>2, <2>1, <2>2
<1>6. ASSUME NEW h \in Handler, Clear(h) PROVE Goal
  <2>1. CASE e = job[h].email
    <3>1. fresh'[e][t] = 0  BY <1>6, <2>1, ClearDoes DEF NoScores
    <3> QED  BY <1>w, <3>1
  <2>2. CASE e # job[h].email
    <3>1. now' = now /\ fresh'[e] = fresh[e] /\ counter'[e] = counter[e]
      BY <1>6, <2>2, ClearDoes DEF Spared
    <3>2. Waits(e, t)' = Waits(e, t)  BY <1>6, ClearDoes, WaitsAsBefore DEF KeyStays
    <3> QED  BY <1>0, <1>2, <3>1, <3>2
  <2> QED  BY <2>1, <2>2
<1>7. ASSUME NEW h \in Handler, Add(h) PROVE Goal
  <2> DEFINE one == IF e = job[h].email /\ t = job[h].at THEN 1 ELSE 0
  <2>1. now' = now /\ fresh'[e][t] = fresh[e][t] + one
    <3>1. CASE e = job[h].email  BY <1>7, <3>1, AddDoes
    <3>2. CASE e # job[h].email  BY <1>0, <1>7, <3>2, AddDoes DEF Spared
    <3> QED  BY <3>1, <3>2
  <2>2. Waits(e, t)' = Waits(e, t) + one  BY <1>7, AddDoes, WaitsOneMore
  <2>3. \/ counter'[e].expires = counter[e].expires /\ now < counter[e].expires
        \/ counter'[e].expires = counter[e].expires /\ one = 0
        \/ counter'[e].expires = Never
    <3>1. CASE e # job[h].email  BY <1>7, <3>1, AddDoes DEF Spared
    <3>2. CASE e = job[h].email /\ \A u \in Time : Scores(e)[u] = 0  BY <1>7, <3>2, AddDoes
    <3>3. ASSUME e = job[h].email, NEW u \in Time, Scores(e)[u] # 0
          PROVE  counter'[e].expires = counter[e].expires /\ now < counter[e].expires
      <4>1. now < counter[e].expires  BY <3>3 DEF Scores, NoScores
      <4> QED  BY <1>7, <3>3, <4>1, AddDoes
    <3> QED  BY <3>1, <3>2, <3>3
  <2>4. one \in {0, 1}  OBVIOUS
  <2> HIDE DEF one
  <2> QED  BY <1>0, <1>1, <2>1, <2>2, <2>3, <2>4
<1>8. ASSUME NEW h \in Handler, ExpireCounter(h) PROVE Goal
  <2>1. UNCHANGED <<now, fresh>>  BY <1>8, ExpireDoes
  <2>2. CASE e # job[h].email
    <3>1. counter'[e] = counter[e]  BY <1>8, <2>2, ExpireDoes DEF Spared
    <3>2. Waits(e, t) = Waits(e, t)'
      <4>1. Waits(e, t) = Waits(e, t)' + 0  BY <1>8, <2>2, ExpireDoes, WaitsOneLess DEF KeyStays
      <4> QED  BY <1>w, <4>1
    <3> QED  BY <1>0, <1>2, <2>1, <3>1, <3>2
  <2>3. CASE e = job[h].email /\ now < counter[e].expires
    <3>1. counter'[e].expires = now + LOCKOUT_WINDOW  BY <1>8, <2>3, ExpireDoes
    <3>2. fresh[e][t] > 0  BY <1>0, <1>w, <2>1
    <3> QED  BY <1>0, <3>1, <3>2
  <2>4. CASE e = job[h].email /\ ~ (now < counter[e].expires)
    <3>1. counter'[e].expires = counter[e].expires  BY <1>8, <2>4, ExpireDoes
    <3> QED  BY <1>0, <1>1, <2>1, <2>4, <3>1
  <2> QED  BY <2>2, <2>3, <2>4
<1>9. ASSUME NEW h \in Handler, Fail(h), pc[h] \in Late PROVE Goal
  <2> DEFINE one == IF e = job[h].email /\ t = job[h].at THEN 1 ELSE 0
  <2>1. LockEnds(h) /\ UNCHANGED <<now, counter>>  BY <1>9, FailDoes
  <2>2. fresh'[e][t] = IF one = 1 /\ fresh[e][t] > 0 THEN fresh[e][t] - 1 ELSE fresh[e][t]
    <3>1. CASE e = job[h].email  BY <1>9, <3>1, FailDoes
    <3>2. CASE e # job[h].email  BY <1>9, <3>2, FailDoes DEF Spared
    <3> QED  BY <3>1, <3>2
  <2>3. CASE pc[h] = "expire"
    <3>1. Waits(e, t) = Waits(e, t)' + one  BY <2>1, <2>3, WaitsOneLess DEF LockEnds
    <3>2. one \in {0, 1}  OBVIOUS
    <3> HIDE DEF one
    <3> QED  BY <1>0, <1>1, <1>w, <2>1, <2>2, <3>1, <3>2
  <2>4. CASE pc[h] # "expire"
    <3>1. Waits(e, t)' = Waits(e, t)  BY <2>1, <2>4, WaitsAsBefore DEF LockEnds
    <3>2. fresh'[e][t] \in Nat /\ fresh'[e][t] <= fresh[e][t]  BY <1>0, <2>2
    <3> QED  BY <1>2, <2>1, <3>1, <3>2
  <2> QED  BY <2>3, <2>4
<1>10. CASE Tick
  <2>1. UNCHANGED <<counter, pc, job>> /\ now' = now + 1  BY <1>10, TickDoes
  <2>2. Waits(e, t)' = Waits(e, t)  BY <2>1 DEF Waits, Waiting
  <2>3. Lost(e, t) = IF now + 1 # counter[e].expires THEN 0 ELSE Waits(e, t)
    BY DEF Lost, Waits, Waiting
  <2>4. fresh'[e][t] = IF fresh[e][t] > Lost(e, t) THEN fresh[e][t] - Lost(e, t) ELSE 0
    BY <1>10, TickDoes
  <2> QED  BY <1>0, <1>1, <2>1, <2>2, <2>3, <2>4
<1> QED  BY <1>3, <1>4, <1>5, <1>6, <1>7, <1>8, <1>9, <1>10, StepKinds

LEMMA HeldStep ==
  /\ LoginTypeOK /\ LoginTypeOK' /\ ClockInv /\ KeyLives' /\ HeldInv /\ [LoginNext]_loginVars
  => HeldInv'
<1> SUFFICES ASSUME LoginTypeOK, LoginTypeOK', ClockInv, KeyLives', HeldInv, [LoginNext]_loginVars,
                    NEW e \in Email, NEW t \in Time, t > now' - LOCKOUT_WINDOW
             PROVE  fresh'[e][t] <= Scores(e)'[t]
  BY DEF HeldInv
<1> DEFINE Goal == fresh'[e][t] <= Scores(e)'[t]
<1>0. /\ fresh[e][t] \in Nat /\ Scores(e)[t] \in Nat /\ now \in Nat /\ t \in Nat
      /\ LOCKOUT_WINDOW \in Nat
      /\ t > now - LOCKOUT_WINDOW => fresh[e][t] <= Scores(e)[t]
  BY Numbers DEF HeldInv
<1>1. CASE UNCHANGED <<counter, fresh, now>>
  <2>1. Scores(e)' = Scores(e)  BY <1>1 DEF Scores, NoScores
  <2> QED  BY <1>0, <1>1, <2>1
<1>2. ASSUME NEW h \in Handler, RemoveOld(h) PROVE Goal
  <2>1. UNCHANGED <<fresh, now>> /\ pc[h] = "zrem"  BY <1>2, RemoveOldDoes
  <2>2. job[h].at <= now /\ job[h].at \in Nat  BY <2>1, JobType DEF ClockInv, InTime, Record
  <2>3. ~ (t < job[h].at - LOCKOUT_WINDOW)  BY <1>0, <2>1, <2>2
  <2>4. Scores(e)'[t] = Scores(e)[t]  BY <1>2, <2>3, ScoresAfterRemoveOld
  <2> QED  BY <1>0, <2>1, <2>4
<1>3. ASSUME NEW h \in Handler, Add(h) PROVE Goal
  <2> DEFINE one == IF e = job[h].email /\ t = job[h].at THEN 1 ELSE 0
  <2>1. now' = now /\ fresh'[e][t] = fresh[e][t] + one
    <3>1. CASE e = job[h].email  BY <1>3, <3>1, AddDoes
    <3>2. CASE e # job[h].email  BY <1>0, <1>3, <3>2, AddDoes DEF Spared
    <3> QED  BY <3>1, <3>2
  <2>2. Scores(e)'[t] = Scores(e)[t] + one  BY <1>3, ScoresAfterAdd
  <2>3. one \in {0, 1}  OBVIOUS
  <2> HIDE DEF one
  <2> QED  BY <1>0, <2>1, <2>2, <2>3
<1>4. ASSUME NEW h \in Handler, ExpireCounter(h) PROVE Goal
  <2>1. UNCHANGED <<fresh, now>>  BY <1>4, ExpireDoes
  <2>2. Scores(e)' = Scores(e)  BY <1>4, ScoresAfterExpire
  <2> QED  BY <1>0, <2>1, <2>2
<1>5. ASSUME NEW h \in Handler, Clear(h) PROVE Goal
  <2>1. now' = now  BY <1>5, ClearDoes
  <2>2. CASE e = job[h].email
    <3>1. fresh'[e][t] = 0  BY <1>5, <2>2, ClearDoes DEF NoScores
    <3>2. Scores(e)' \in [Time -> Nat]  BY DEF LoginTypeOK, Scores, NoScores
    <3> QED  BY <3>1, <3>2
  <2>3. CASE e # job[h].email
    <3>1. fresh'[e] = fresh[e] /\ counter'[e] = counter[e]  BY <1>5, <2>3, ClearDoes DEF Spared
    <3>2. Scores(e)' = Scores(e)  BY <2>1, <3>1 DEF Scores, NoScores
    <3> QED  BY <1>0, <2>1, <3>1, <3>2
  <2> QED  BY <2>2, <2>3
<1>6. ASSUME NEW h \in Handler, Fail(h), pc[h] \in Late PROVE Goal
  <2>1. UNCHANGED <<counter, now>>  BY <1>6, FailDoes
  <2>2. fresh'[e][t] \in Nat /\ fresh'[e][t] <= fresh[e][t]
    <3>1. fresh'[e] = fresh[e] \/ fresh'[e][t] =
            IF t = job[h].at /\ fresh[e][t] > 0 THEN fresh[e][t] - 1 ELSE fresh[e][t]
      BY <1>6, FailDoes DEF Spared
    <3> QED  BY <1>0, <3>1
  <2>3. Scores(e)' = Scores(e)  BY <2>1 DEF Scores, NoScores
  <2> QED  BY <1>0, <2>1, <2>2, <2>3
<1>7. CASE Tick
  <2>1. counter' = counter /\ now' = now + 1  BY <1>7, TickDoes
  <2>2. Lost(e, t) \in Nat  BY LostType
  <2>3. fresh'[e][t] = IF fresh[e][t] > Lost(e, t) THEN fresh[e][t] - Lost(e, t) ELSE 0
    BY <1>7, TickDoes
  <2>4. fresh'[e][t] \in Nat /\ fresh'[e][t] <= Scores(e)[t]  BY <1>0, <2>1, <2>2, <2>3
  <2>5. counter[e].expires \in Nat  BY Numbers
  <2>6. CASE now' < counter'[e].expires \/ ~ (now < counter[e].expires)
    <3>1. Scores(e)' = Scores(e)  BY <1>0, <2>1, <2>5, <2>6 DEF Scores, NoScores
    <3> QED  BY <2>4, <3>1
  <2>7. CASE ~ (now' < counter'[e].expires) /\ now < counter[e].expires
    <3>1. counter'[e].expires = now'  BY <1>0, <2>1, <2>5, <2>7
    <3>2. ~ (fresh'[e][t] > 0)
      <4>1. fresh'[e][t] > 0 => counter'[e].expires >= t + LOCKOUT_WINDOW
        BY <2>7 DEF KeyLives
      <4> QED  BY <1>0, <2>1, <3>1, <4>1
    <3>3. Scores(e)' = NoScores  BY <2>7 DEF Scores, NoScores
    <3>4. NoScores[t] = 0  BY DEF NoScores
    <3> QED  BY <2>4, <3>2, <3>3, <3>4
  <2> QED  BY <2>6, <2>7
<1>8. ASSUME NEW h \in Handler, Quiet(h) \/ Count(h) \/ SetLock(h) PROVE Goal
  <2>1. UNCHANGED <<counter, fresh, now>>  BY <1>8, CountDoes, SetLockDoes DEF Quiet
  <2> QED  BY <1>1, <2>1
<1>9. CASE UNCHANGED loginVars  BY <1>1, <1>9 DEF loginVars
<1> QED  BY <1>2, <1>3, <1>4, <1>5, <1>6, <1>7, <1>8, <1>9, StepKinds

\* The failures that somebody may still get to the lock for, and the others.
LateAt(e, t) == {h \in Handler : pc[h] \in Late /\ job[h].email = e /\ job[h].at = t}
Lates(e, t) == Cardinality(LateAt(e, t))
Settled(e) == [t \in Time |->
  IF fresh[e][t] > Lates(e, t) THEN fresh[e][t] - Lates(e, t) ELSE 0]

\* A settled failure that is the last of THRESHOLD within a window, or one of
\* THRESHOLD in the window that ends now, has locked the account.
Locked(e) == \A t \in Time :
  /\ Settled(e)[t] > 0
  /\ \/ Sum(Settled(e), (t - LOCKOUT_WINDOW + MaxDelay + 1) .. t) >= LOCKOUT_THRESHOLD
     \/ /\ t > now - LOCKOUT_WINDOW
        /\ Sum(Settled(e), (now - LOCKOUT_WINDOW + 1) .. now) >= LOCKOUT_THRESHOLD
  => lock[e] >= t + LOCKOUT_WINDOW

LockInv == \A e \in Email : Locked(e)

LEMMA LatesType ==
  ASSUME NEW e, NEW t
  PROVE  IsFiniteSet(LateAt(e, t)) /\ Lates(e, t) \in Nat
<1>1. LateAt(e, t) \in SUBSET Handler /\ IsFiniteSet(Handler)
  BY LoginAssumption DEF LateAt
<1>2. IsFiniteSet(LateAt(e, t))  BY <1>1, FS_Subset, Zenon
<1> QED  BY <1>2, FS_CardinalityType, Zenon DEF Lates

LatesFine == \A e \in Email, t \in Time : Lates(e, t) \in Nat

LEMMA LatesNext == LatesFine /\ LatesFine'
<1>1. LatesFine  BY LatesType DEF LatesFine
<1> QED  BY <1>1, PTL

SettledFine == \A e \in Email : /\ Settled(e) \in [Time -> Nat]
                                /\ \A t \in Time : Settled(e)[t] <= fresh[e][t]

LEMMA SettledType == LoginTypeOK => SettledFine
<1> SUFFICES ASSUME LoginTypeOK, NEW e \in Email
             PROVE  /\ Settled(e) \in [Time -> Nat]
                    /\ \A t \in Time : Settled(e)[t] <= fresh[e][t]
  BY DEF SettledFine
<1>1. \A t \in Time : fresh[e][t] \in Nat /\ Lates(e, t) \in Nat  BY Numbers, LatesType
<1>2. \A t \in Time :
        /\ (IF fresh[e][t] > Lates(e, t) THEN fresh[e][t] - Lates(e, t) ELSE 0) \in Nat
        /\ (IF fresh[e][t] > Lates(e, t) THEN fresh[e][t] - Lates(e, t) ELSE 0) <= fresh[e][t]
  BY <1>1
<1> QED  BY <1>2 DEF Settled

LEMMA SettledNext == LoginTypeOK' => SettledFine'
BY SettledType, PTL

LEMMA LatesAsBefore ==
  ASSUME NEW h \in Handler, Moves(h), NEW e, NEW t,
         \/ pc[h] \notin Late /\ pc'[h] \notin Late
         \/ pc[h] \in Late /\ pc'[h] \in Late /\ job'[h] = job[h]
  PROVE  Lates(e, t)' = Lates(e, t)
<1>1. LateAt(e, t)' = LateAt(e, t)  BY DEF LateAt, Moves
<1> QED  BY <1>1 DEF Lates

LEMMA LatesOneMore ==
  ASSUME NEW h \in Handler, KeyStays(h, "expire"), pc[h] \notin Late, NEW e, NEW t
  PROVE  Lates(e, t)' = Lates(e, t) + IF e = job[h].email /\ t = job[h].at THEN 1 ELSE 0
<1>1. CASE e = job[h].email /\ t = job[h].at
  <2>1. LateAt(e, t)' = LateAt(e, t) \cup {h} /\ h \notin LateAt(e, t)
    BY <1>1 DEF LateAt, KeyStays, Moves, Late
  <2>2. Cardinality(LateAt(e, t) \cup {h}) = Cardinality(LateAt(e, t)) + 1
    BY <2>1, LatesType, FS_AddElement, Zenon
  <2> QED  BY <1>1, <2>1, <2>2 DEF Lates
<1>2. CASE ~ (e = job[h].email /\ t = job[h].at)
  <2>1. LateAt(e, t)' = LateAt(e, t)  BY <1>2 DEF LateAt, KeyStays, Moves
  <2> QED  BY <1>2, <2>1, LatesType DEF Lates
<1> QED  BY <1>1, <1>2

LEMMA LatesOneLess ==
  ASSUME NEW h \in Handler, LockEnds(h), pc[h] \in Late, NEW e, NEW t
  PROVE  Lates(e, t) = Lates(e, t)' + IF e = job[h].email /\ t = job[h].at THEN 1 ELSE 0
<1>0. \A n, m \in Nat : n = m - 1 => m = n + 1  OBVIOUS
<1>1. CASE e = job[h].email /\ t = job[h].at
  <2>1. LateAt(e, t)' = LateAt(e, t) \ {h} /\ h \in LateAt(e, t)
    BY <1>1 DEF LateAt, Moves, LockEnds, Late
  <2>2. /\ Cardinality(LateAt(e, t) \ {h}) = Cardinality(LateAt(e, t)) - 1
        /\ IsFiniteSet(LateAt(e, t) \ {h})
    BY <2>1, LatesType, FS_RemoveElement, Zenon
  <2>3. Cardinality(LateAt(e, t) \ {h}) \in Nat  BY <2>2, FS_CardinalityType, Zenon
  <2> QED  BY <1>0, <1>1, <2>1, <2>2, <2>3, LatesType DEF Lates
<1>2. CASE ~ (e = job[h].email /\ t = job[h].at)
  <2>1. LateAt(e, t)' = LateAt(e, t)  BY <1>2 DEF LateAt, Moves, LockEnds, Late
  <2> QED  BY <1>2, <2>1, LatesType DEF Lates
<1> QED  BY <1>1, <1>2

\* What settles no failure leaves the lock as it is.
Unsettled(e) == \A t \in Time : Settled(e)'[t] <= Settled(e)[t]

LEMMA LockedKept ==
  ASSUME LoginTypeOK, LoginTypeOK', PastInv, NEW e \in Email, Locked(e), Unsettled(e),
         lock'[e] >= lock[e], now <= now'
  PROVE  Locked(e)'
<1> DEFINE f == Settled(e)
           g == Settled(e)'
<1>1. f \in [Time -> Nat] /\ g \in [Time -> Nat]  BY SettledType, SettledNext DEF SettledFine
<1>2. \A t \in Time : f[t] > 0 => t <= now
  <2> TAKE t \in Time
  <2>1. f[t] <= fresh[e][t] /\ fresh[e][t] <= tries[e][t] /\ (tries[e][t] > 0 => t <= now)
    BY SettledType DEF SettledFine, PastInv
  <2>2. f[t] \in Nat /\ fresh[e][t] \in Nat /\ tries[e][t] \in Nat  BY <1>1, Numbers
  <2> HIDE DEF f
  <2> QED  BY <2>1, <2>2
<1>3. \A t \in Time : g[t] <= f[t]  BY DEF Unsettled
<1>4. now' \in Nat /\ lock'[e] \in Nat  BY LoginAssumption DEF LoginTypeOK, Time
<1>5. \A t \in Time :
        /\ f[t] > 0
        /\ \/ Sum(f, (t - LOCKOUT_WINDOW + MaxDelay + 1) .. t) >= LOCKOUT_THRESHOLD
           \/ /\ t > now - LOCKOUT_WINDOW
              /\ Sum(f, (now - LOCKOUT_WINDOW + 1) .. now) >= LOCKOUT_THRESHOLD
        => lock[e] >= t + LOCKOUT_WINDOW
  BY DEF Locked
<1>6. ASSUME NEW t \in Time, g[t] > 0,
             \/ Sum(g, (t - LOCKOUT_WINDOW + MaxDelay + 1) .. t) >= LOCKOUT_THRESHOLD
             \/ /\ t > now' - LOCKOUT_WINDOW
                /\ Sum(g, (now' - LOCKOUT_WINDOW + 1) .. now') >= LOCKOUT_THRESHOLD
      PROVE  lock'[e] >= t + LOCKOUT_WINDOW
  <2> HIDE DEF f, g
  <2>1. f[t] \in Nat /\ g[t] \in Nat /\ t \in Nat  BY <1>1, Numbers
  <2>2. f[t] > 0  BY <1>3, <1>6, <2>1
  <2>3. CASE Sum(g, (t - LOCKOUT_WINDOW + MaxDelay + 1) .. t) >= LOCKOUT_THRESHOLD
    <3> DEFINE S == (t - LOCKOUT_WINDOW + MaxDelay + 1) .. t
    <3> HIDE DEF S
    <3>1. \A u \in S \cap Time : g[u] > 0 => u \in S /\ g[u] <= f[u]  BY <1>3
    <3>2. Sum(g, S) <= Sum(f, S)  BY <1>1, <3>1, SumGrows
    <3>3. Sum(g, S) \in Nat /\ Sum(f, S) \in Nat  BY <1>1, TagsFinite
    <3>4. Sum(f, S) >= LOCKOUT_THRESHOLD  BY <2>3, <3>2, <3>3, Numbers DEF S
    <3>5. lock[e] >= t + LOCKOUT_WINDOW  BY <1>5, <2>2, <3>4 DEF S
    <3> QED  BY <1>4, <2>1, <3>5, Numbers
  <2>4. CASE /\ t > now' - LOCKOUT_WINDOW
             /\ Sum(g, (now' - LOCKOUT_WINDOW + 1) .. now') >= LOCKOUT_THRESHOLD
    <3> DEFINE S == (now - LOCKOUT_WINDOW + 1) .. now
               T == (now' - LOCKOUT_WINDOW + 1) .. now'
    <3>1. \A u \in T \cap Time : g[u] > 0 => u \in S /\ g[u] <= f[u]
      <4> SUFFICES ASSUME NEW u \in T \cap Time, g[u] > 0 PROVE u \in S /\ g[u] <= f[u]
        OBVIOUS
      <4>1. f[u] \in Nat /\ g[u] \in Nat /\ u \in Nat /\ g[u] <= f[u]  BY <1>1, <1>3, Numbers
      <4>2. u <= now  BY <1>2, <4>1
      <4> QED  BY <1>4, <4>1, <4>2, Numbers
    <3> HIDE DEF S, T
    <3>2. Sum(g, T) <= Sum(f, S)  BY <1>1, <3>1, SumGrows
    <3>3. Sum(g, T) \in Nat /\ Sum(f, S) \in Nat  BY <1>1, TagsFinite
    <3>4. Sum(f, S) >= LOCKOUT_THRESHOLD  BY <2>4, <3>2, <3>3, Numbers DEF T
    <3>5. t > now - LOCKOUT_WINDOW  BY <1>4, <2>1, <2>4, Numbers
    <3>6. lock[e] >= t + LOCKOUT_WINDOW  BY <1>5, <2>2, <3>4, <3>5 DEF S
    <3> QED  BY <1>4, <2>1, <3>6, Numbers
  <2> QED  BY <1>6, <2>3, <2>4
<1> QED  BY <1>6 DEF Locked

LEMMA UnsettledWhen ==
  ASSUME LoginTypeOK, LoginTypeOK', NEW e \in Email,
         \A t \in Time : \/ fresh'[e][t] = 0
                         \/ fresh'[e][t] - Lates(e, t)' <= fresh[e][t] - Lates(e, t)
  PROVE  Unsettled(e)
<1> SUFFICES ASSUME NEW t \in Time PROVE Settled(e)'[t] <= Settled(e)[t]  BY DEF Unsettled
<1>1. /\ fresh[e][t] \in Nat /\ fresh'[e][t] \in Nat
      /\ Lates(e, t) \in Nat /\ Lates(e, t)' \in Nat
  BY LatesNext DEF LatesFine, LoginTypeOK
<1>2. /\ Settled(e)[t] =
           IF fresh[e][t] > Lates(e, t) THEN fresh[e][t] - Lates(e, t) ELSE 0
      /\ Settled(e)'[t] =
           IF fresh'[e][t] > Lates(e, t)' THEN fresh'[e][t] - Lates(e, t)' ELSE 0
  BY DEF Settled
<1>3. \/ fresh'[e][t] = 0
      \/ fresh'[e][t] - Lates(e, t)' <= fresh[e][t] - Lates(e, t)
  OBVIOUS
<1> QED  BY <1>1, <1>2, <1>3

\* A failure below the threshold settles where no lock is needed: the key that
\* has just been counted holds every failure of the window.
LEMMA CountedBelow ==
  ASSUME LoginTypeOK, LoginTypeOK', ClockInv, PastInv, HeldInv, NEW h \in Handler, Count(h), LockEnds(h),
         Locked(job[h].email), NEW e \in Email, e = job[h].email
  PROVE  Locked(e)'
<1> DEFINE f == Settled(e)
           g == Settled(e)'
           at == job[h].at
<1>1. /\ pc[h] = "zcard" /\ UNCHANGED <<counter, lock, now, fresh, tries>>
      /\ ~ (Sum(Scores(e), Time) >= LOCKOUT_THRESHOLD)
  <2>1. pc[h] = "zcard" /\ UNCHANGED <<counter, lock, now, fresh, tries>>  BY CountDoes
  <2>2. CASE Sum(Scores(e), Time) >= LOCKOUT_THRESHOLD
    <3>1. pc'[h] = "set"  BY <2>2, CountDoes DEF KeyStays
    <3> QED  BY <3>1 DEF LockEnds
  <2> QED  BY <2>1, <2>2
<1>2. at \in Nat /\ at <= now /\ now <= at + MaxDelay
  <2>1. /\ job[h].since <= at /\ at <= now /\ now <= job[h].since + MaxDelay
        /\ job[h].since \in Nat /\ at \in Nat
    BY <1>1, JobType DEF ClockInv, InTime, Record
  <2> QED  BY <2>1, Numbers
<1>3. f \in [Time -> Nat] /\ g \in [Time -> Nat]  BY SettledType, SettledNext DEF SettledFine
<1>4. \A t \in Time : g[t] <= fresh[e][t]  BY <1>1, SettledNext DEF SettledFine
<1>5. \A t \in Time : t # at => g[t] = f[t]
  <2> SUFFICES ASSUME NEW t \in Time, t # at PROVE g[t] = f[t]  OBVIOUS
  <2>1. Lates(e, t) = Lates(e, t)' + 0  BY <1>1, LatesOneLess DEF Late
  <2>2. Lates(e, t) = Lates(e, t)'  BY <2>1, LatesNext DEF LatesFine
  <2> QED  BY <1>1, <2>2 DEF Settled
<1>6. \A t \in Time : g[t] > 0 => t <= now
  <2> SUFFICES ASSUME NEW t \in Time, g[t] > 0 PROVE t <= now  OBVIOUS
  <2>1. g[t] <= fresh[e][t] /\ fresh[e][t] <= tries[e][t] /\ (tries[e][t] > 0 => t <= now)
    BY <1>4 DEF PastInv
  <2>2. g[t] \in Nat /\ fresh[e][t] \in Nat /\ tries[e][t] \in Nat  BY <1>3, Numbers
  <2> HIDE DEF g
  <2> QED  BY <2>1, <2>2
<1>7. ASSUME NEW low \in Int, NEW high \in Int, low > now - LOCKOUT_WINDOW
      PROVE  ~ (Sum(g, low .. high) >= LOCKOUT_THRESHOLD)
  <2>1. \A t \in (low .. high) \cap Time : g[t] > 0 => t \in Time /\ g[t] <= Scores(e)[t]
    <3> SUFFICES ASSUME NEW t \in (low .. high) \cap Time PROVE g[t] <= Scores(e)[t]
      OBVIOUS
    <3>1. t > now - LOCKOUT_WINDOW  BY <1>7, Numbers
    <3>2. fresh[e][t] <= Scores(e)[t]  BY <3>1 DEF HeldInv
    <3>3. g[t] <= fresh[e][t] /\ g[t] \in Nat  BY <1>3, <1>4
    <3>4. fresh[e][t] \in Nat /\ Scores(e)[t] \in Nat  BY Numbers
    <3> HIDE DEF g
    <3> QED  BY <3>2, <3>3, <3>4
  <2>2. Scores(e) \in [Time -> Nat]  BY ScoresType
  <2> HIDE DEF g
  <2>3. Sum(g, low .. high) <= Sum(Scores(e), Time)  BY <1>3, <2>1, <2>2, SumGrows
  <2>4. Sum(g, low .. high) \in Nat /\ Sum(Scores(e), Time) \in Nat
    BY <1>3, <2>2, TagsFinite
  <2> QED  BY <1>1, <2>3, <2>4, Numbers
<1>8. ASSUME NEW t \in Time, g[t] > 0,
             \/ Sum(g, (t - LOCKOUT_WINDOW + MaxDelay + 1) .. t) >= LOCKOUT_THRESHOLD
             \/ /\ t > now - LOCKOUT_WINDOW
                /\ Sum(g, (now - LOCKOUT_WINDOW + 1) .. now) >= LOCKOUT_THRESHOLD
      PROVE  lock[e] >= t + LOCKOUT_WINDOW
  <2> HIDE DEF f, g, at
  <2>1. ~ (Sum(g, (now - LOCKOUT_WINDOW + 1) .. now) >= LOCKOUT_THRESHOLD)
    <3>1. /\ now - LOCKOUT_WINDOW + 1 \in Int /\ now \in Int
          /\ now - LOCKOUT_WINDOW + 1 > now - LOCKOUT_WINDOW
      BY Numbers
    <3> QED  BY <1>7, <3>1
  <2>2. Sum(g, (t - LOCKOUT_WINDOW + MaxDelay + 1) .. t) >= LOCKOUT_THRESHOLD  BY <1>8, <2>1
  <2> DEFINE low == t - LOCKOUT_WINDOW + MaxDelay + 1
  <2>3. low \in Int /\ t \in Int /\ t \in Nat  BY Numbers
  <2>4. t < at
    <3> SUFFICES ASSUME ~ (t < at) PROVE FALSE  OBVIOUS
    <3>1. low > now - LOCKOUT_WINDOW  BY <1>2, <2>3, Numbers
    <3> HIDE DEF low
    <3>2. ~ (Sum(g, low .. t) >= LOCKOUT_THRESHOLD)  BY <1>7, <2>3, <3>1
    <3> QED  BY <2>2, <3>2 DEF low
  <2>5. \A u \in (low .. t) \cap Time : g[u] > 0 => u \in low .. t /\ g[u] <= f[u]
    <3> SUFFICES ASSUME NEW u \in (low .. t) \cap Time PROVE g[u] <= f[u]  OBVIOUS
    <3>1. u # at  BY <1>2, <2>3, <2>4, Numbers
    <3>2. g[u] = f[u] /\ g[u] \in Nat  BY <1>3, <1>5, <3>1
    <3> QED  BY <3>2
  <2>6. f[t] > 0
    <3>1. t # at  BY <1>2, <2>3, <2>4
    <3> QED  BY <1>5, <1>8, <3>1
  <2> HIDE DEF low
  <2>7. Sum(g, low .. t) <= Sum(f, low .. t)  BY <1>3, <2>5, SumGrows
  <2>8. Sum(g, low .. t) \in Nat /\ Sum(f, low .. t) \in Nat  BY <1>3, TagsFinite
  <2>9. Sum(f, low .. t) >= LOCKOUT_THRESHOLD  BY <2>2, <2>7, <2>8, Numbers DEF low
  <2> QED  BY <2>6, <2>9 DEF low, f, Locked
<1> QED  BY <1>1, <1>8 DEF Locked

LEMMA LockStep ==
  /\ LoginTypeOK /\ LoginTypeOK' /\ ClockInv /\ PastInv /\ PastInv' /\ HeldInv /\ LockInv
  /\ [LoginNext]_loginVars
  => LockInv'
<1> SUFFICES ASSUME LoginTypeOK, LoginTypeOK', ClockInv, PastInv, PastInv', HeldInv, LockInv,
                    [LoginNext]_loginVars, NEW e \in Email
             PROVE  Locked(e)'
  BY DEF LockInv
<1>0. Locked(e) /\ lock[e] \in Nat /\ now \in Nat  BY Numbers DEF LockInv
<1>f. \A t \in Time : /\ fresh[e][t] \in Nat /\ fresh'[e][t] \in Nat
                      /\ Lates(e, t) \in Nat /\ Lates(e, t)' \in Nat
  BY LatesNext DEF LatesFine, LoginTypeOK
<1>1. ASSUME \A t \in Time : fresh'[e][t] - Lates(e, t)' <= fresh[e][t] - Lates(e, t),
             lock'[e] = lock[e], now <= now'
      PROVE  Locked(e)'
  <2>1. Unsettled(e)  BY <1>1, UnsettledWhen
  <2> QED  BY <1>0, <1>1, <2>1, LockedKept
<1>2. ASSUME \A t \in Time : fresh'[e][t] <= fresh[e][t] /\ Lates(e, t)' = Lates(e, t),
             lock'[e] = lock[e], now <= now'
      PROVE  Locked(e)'
  <2>1. \A t \in Time : fresh'[e][t] - Lates(e, t)' <= fresh[e][t] - Lates(e, t)
    BY <1>2, <1>f
  <2> QED  BY <1>1, <1>2, <2>1
<1>3. CASE UNCHANGED loginVars
  <2>1. \A t \in Time : Lates(e, t)' = Lates(e, t)  BY <1>3 DEF loginVars, Lates, LateAt
  <2>2. \A t \in Time : fresh'[e][t] <= fresh[e][t]  BY <1>3, <1>f DEF loginVars
  <2> QED  BY <1>0, <1>2, <1>3, <2>1, <2>2 DEF loginVars
<1>4. CASE Tick
  <2>1. UNCHANGED <<lock, pc, job>> /\ now' = now + 1  BY <1>4, TickDoes
  <2>2. \A t \in Time : Lates(e, t)' = Lates(e, t)  BY <2>1 DEF Lates, LateAt
  <2>3. \A t \in Time : fresh'[e][t] <= fresh[e][t]
    <3> TAKE t \in Time
    <3>1. fresh'[e][t] = IF fresh[e][t] > Lost(e, t) THEN fresh[e][t] - Lost(e, t) ELSE 0
      BY <1>4, TickDoes
    <3> QED  BY <1>f, <3>1, LostType
  <2> QED  BY <1>0, <1>2, <2>1, <2>2, <2>3
<1>5. ASSUME NEW h \in Handler,
             Quiet(h) \/ RemoveOld(h) \/ ExpireCounter(h) \/ (Count(h) /\ KeyStays(h, "set"))
      PROVE  Locked(e)'
  <2>1. UNCHANGED <<lock, now, fresh>>  BY <1>5, RemoveOldDoes, ExpireDoes, CountDoes DEF Quiet
  <2>2. \A t \in Time : Lates(e, t)' = Lates(e, t)
    <3>1. /\ Moves(h)
          /\ \/ pc[h] \notin Late /\ pc'[h] \notin Late
             \/ pc[h] \in Late /\ pc'[h] \in Late /\ job'[h] = job[h]
      BY <1>5, RemoveOldDoes, ExpireDoes, CountDoes DEF Quiet, KeyStays, Late
    <3> QED  BY <3>1, LatesAsBefore
  <2>3. \A t \in Time : fresh'[e][t] <= fresh[e][t]  BY <1>f, <2>1
  <2> QED  BY <1>0, <1>2, <2>1, <2>2, <2>3
<1>6. ASSUME NEW h \in Handler, Add(h) PROVE Locked(e)'
  <2>1. UNCHANGED <<lock, now>>  BY <1>6, AddDoes
  <2>2. ASSUME NEW t \in Time
        PROVE  fresh'[e][t] - Lates(e, t)' <= fresh[e][t] - Lates(e, t)
    <3> DEFINE one == IF e = job[h].email /\ t = job[h].at THEN 1 ELSE 0
    <3>1. fresh'[e][t] = fresh[e][t] + one
      <4>1. CASE e = job[h].email  BY <1>6, <4>1, AddDoes
      <4>2. CASE e # job[h].email  BY <1>6, <1>f, <4>2, AddDoes DEF Spared
      <4> QED  BY <4>1, <4>2
    <3>2. Lates(e, t)' = Lates(e, t) + one  BY <1>6, AddDoes, LatesOneMore DEF Late
    <3>3. one \in {0, 1}  OBVIOUS
    <3> HIDE DEF one
    <3> QED  BY <1>f, <3>1, <3>2, <3>3
  <2> QED  BY <1>0, <1>1, <2>1, <2>2
<1>7. ASSUME NEW h \in Handler, Count(h), LockEnds(h) PROVE Locked(e)'
  <2>1. CASE e = job[h].email  BY <1>0, <1>7, <2>1, CountedBelow
  <2>2. CASE e # job[h].email
    <3>1. UNCHANGED <<lock, now, fresh>> /\ pc[h] \in Late  BY <1>7, CountDoes DEF Late
    <3>2. \A t \in Time : Lates(e, t) = Lates(e, t)' + 0  BY <1>7, <2>2, <3>1, LatesOneLess
    <3>3. \A t \in Time : fresh'[e][t] <= fresh[e][t] /\ Lates(e, t)' = Lates(e, t)
      BY <1>f, <3>1, <3>2
    <3> QED  BY <1>0, <1>2, <3>1, <3>3
  <2> QED  BY <2>1, <2>2
<1>8. ASSUME NEW h \in Handler, SetLock(h) PROVE Locked(e)'
  <2>0. /\ LockEnds(h) /\ UNCHANGED <<now, fresh, tries>> /\ pc[h] \in Late
        /\ lock'[job[h].email] = now + LOCKOUT_WINDOW
    BY <1>8, SetLockDoes DEF Late
  <2>1. CASE e = job[h].email
    <3>1. ASSUME NEW t \in Time, Settled(e)'[t] > 0 PROVE lock'[e] >= t + LOCKOUT_WINDOW
      <4>1. Settled(e)'[t] <= fresh[e][t] /\ Settled(e)' \in [Time -> Nat]
        BY <2>0, SettledNext DEF SettledFine
      <4>2. fresh[e][t] <= tries[e][t] /\ (tries[e][t] > 0 => t <= now)  BY DEF PastInv
      <4>3. t <= now
        <5>1. Settled(e)'[t] \in Nat /\ fresh[e][t] \in Nat /\ tries[e][t] \in Nat
          BY <4>1, Numbers
        <5> QED  BY <3>1, <4>1, <4>2, <5>1
      <4> QED  BY <2>0, <2>1, <4>3, Numbers
    <3> QED  BY <3>1 DEF Locked
  <2>2. CASE e # job[h].email
    <3>1. lock'[e] = lock[e]  BY <1>8, <2>2, SetLockDoes DEF Spared
    <3>2. \A t \in Time : Lates(e, t) = Lates(e, t)' + 0  BY <2>0, <2>2, LatesOneLess
    <3>3. \A t \in Time : fresh'[e][t] <= fresh[e][t] /\ Lates(e, t)' = Lates(e, t)
      BY <1>f, <2>0, <3>2
    <3> QED  BY <1>0, <1>2, <2>0, <3>1, <3>3
  <2> QED  BY <2>1, <2>2
<1>9. ASSUME NEW h \in Handler, Clear(h) PROVE Locked(e)'
  <2>0. /\ KeyStays(h, "named") /\ now' = now /\ pc[h] = "clear"  BY <1>9, ClearDoes
  <2>1. CASE e = job[h].email
    <3>1. \A t \in Time : fresh'[e][t] = 0  BY <1>9, <2>1, ClearDoes DEF NoScores
    <3>2. \A t \in Time : ~ (Settled(e)'[t] > 0)
      <4>1. \A t \in Time : Settled(e)'[t] <= fresh'[e][t] /\ Settled(e)'[t] \in Nat
        BY SettledNext DEF SettledFine
      <4> QED  BY <3>1, <4>1
    <3> QED  BY <3>2 DEF Locked
  <2>2. CASE e # job[h].email
    <3>1. lock'[e] = lock[e] /\ fresh'[e] = fresh[e]  BY <1>9, <2>2, ClearDoes DEF Spared
    <3>2. \A t \in Time : Lates(e, t)' = Lates(e, t)
      BY <2>0, LatesAsBefore DEF KeyStays, Late
    <3>3. \A t \in Time : fresh'[e][t] <= fresh[e][t]  BY <1>f, <3>1
    <3> QED  BY <1>0, <1>2, <2>0, <3>1, <3>2, <3>3
  <2> QED  BY <2>1, <2>2
<1>10. ASSUME NEW h \in Handler, Fail(h), pc[h] \in Late PROVE Locked(e)'
  <2>0. LockEnds(h) /\ UNCHANGED <<lock, now>>  BY <1>10, FailDoes
  <2>1. ASSUME NEW t \in Time
        PROVE  \/ fresh'[e][t] = 0
               \/ fresh'[e][t] - Lates(e, t)' <= fresh[e][t] - Lates(e, t)
    <3> DEFINE one == IF e = job[h].email /\ t = job[h].at THEN 1 ELSE 0
    <3>1. fresh'[e][t] = IF one = 1 /\ fresh[e][t] > 0 THEN fresh[e][t] - 1 ELSE fresh[e][t]
      <4>1. CASE e = job[h].email  BY <1>10, <4>1, FailDoes
      <4>2. CASE e # job[h].email  BY <1>10, <4>2, FailDoes DEF Spared
      <4> QED  BY <4>1, <4>2
    <3>2. Lates(e, t) = Lates(e, t)' + one  BY <1>10, <2>0, LatesOneLess
    <3>3. one \in {0, 1}  OBVIOUS
    <3> HIDE DEF one
    <3> QED  BY <1>f, <3>1, <3>2, <3>3
  <2>2. Unsettled(e)  BY <2>1, UnsettledWhen
  <2>3. lock'[e] >= lock[e] /\ now <= now'  BY <1>0, <2>0
  <2> QED  BY <1>0, <2>2, <2>3, LockedKept
<1>11. ASSUME NEW h \in Handler, Count(h) PROVE Locked(e)'
  <2>1. KeyStays(h, "set") \/ LockEnds(h)  BY <1>11, CountDoes
  <2> QED  BY <1>5, <1>7, <1>11, <2>1
<1> QED  BY <1>3, <1>4, <1>5, <1>6, <1>8, <1>9, <1>10, <1>11, StepKinds

\* All that the lockout rests on.
LockoutInv ==
  /\ LoginTypeOK /\ ClockInv /\ PastInv /\ TrimmedInv /\ EarnedInv
  /\ KeyLives /\ HeldInv /\ LockInv

LEMMA LockoutAlways == LoginSpec => []LockoutInv
<1>1. LoginInit => LockoutInv
  <2> SUFFICES ASSUME LoginInit PROVE LockoutInv  OBVIOUS
  <2>1. LoginTypeOK  BY TypeInit
  <2>2. \A e \in Email : Settled(e) \in [Time -> Nat]
                         /\ \A t \in Time : Settled(e)[t] <= fresh[e][t] /\ fresh[e][t] = 0
    BY <2>1, SettledType DEF SettledFine, LoginInit, NoScores
  <2>3. \A e \in Email, t \in Time : ~ (Settled(e)[t] > 0)  BY <2>2
  <2>4. LockInv  BY <2>3 DEF LockInv, Locked
  <2> QED  BY <2>1, <2>4, PastInit, EarnedInit, LivesInit DEF LockoutInv
<1>2. LockoutInv /\ [LoginNext]_loginVars => LockoutInv'
  BY TypeStep, ClockStep, PastStep, TrimmedStep, EarnedStep, KeyLivesStep, HeldStep, LockStep
  DEF LockoutInv
<1> QED  BY <1>1, <1>2, PTL DEF LoginSpec

\* Property 15, R6.7: whatever logins overlap, THRESHOLD wrong passwords within
\* a window lock the account for a window after the last of them.
THEOREM FailuresAlwaysLock == LoginSpec => []FailuresLock
<1>1. LockoutInv => FailuresLock
  <2> SUFFICES ASSUME LockoutInv, NEW e \in Email, NEW t \in Time,
                      ~ Pending(e), fresh[e][t] > 0, now < t + LOCKOUT_WINDOW,
                      Sum(fresh[e], (t - LOCKOUT_WINDOW + MaxDelay + 1) .. t)
                        >= LOCKOUT_THRESHOLD
               PROVE  now < lock[e]
    BY DEF FailuresLock
  <2>1. LoginTypeOK /\ Locked(e)  BY DEF LockoutInv, LockInv
  <2>2. \A u \in Time : Lates(e, u) = 0
    <3> TAKE u \in Time
    <3>1. LateAt(e, u) = {}  BY DEF Pending, LateAt, Late
    <3> QED  BY <3>1, FS_EmptySet, Zenon DEF Lates
  <2>3. Settled(e) = fresh[e]
    <3>1. \A u \in Time : Settled(e)[u] = fresh[e][u]
      BY <2>1, <2>2, Numbers DEF Settled
    <3>2. Settled(e) \in [Time -> Nat] /\ fresh[e] \in [Time -> Nat]
      BY <2>1, SettledType, Numbers DEF SettledFine
    <3> QED  BY <3>1, <3>2
  <2>4. lock[e] >= t + LOCKOUT_WINDOW  BY <2>1, <2>3 DEF Locked
  <2> QED  BY <2>1, <2>4, Numbers
<1> QED  BY <1>1, LockoutAlways, PTL

------------------------------------------------------------------------------
(* How many wrong passwords are checked.  A login that is past the look at   *)
(* the lock may add a failure yet; when one gets past, there is no lock, so  *)
(* those that are settled are below the threshold, and each of the others    *)
(* has a handler that may still lock.                                        *)

Early(e) == {h \in Handler : pc[h] \in {"verify", "zrem", "zadd"} /\ job[h].email = e}
LateOf(e) == {h \in Handler : pc[h] \in Late /\ job[h].email = e}

Bounded(e) ==
  Sum(fresh[e], (now - LOCKOUT_WINDOW + 1) .. now) + Cardinality(Early(e))
    <= LOCKOUT_THRESHOLD - 1 + Cardinality(Handler)

BoundInv == \A e \in Email : Bounded(e)

LEMMA PartOfHandlers ==
  ASSUME NEW S \in SUBSET Handler
  PROVE  /\ IsFiniteSet(S) /\ Cardinality(S) \in Nat /\ Cardinality(Handler) \in Nat
         /\ Cardinality(S) <= Cardinality(Handler)
<1>1. IsFiniteSet(Handler)  BY LoginAssumption
<1>2. IsFiniteSet(S) /\ Cardinality(S) <= Cardinality(Handler)  BY <1>1, FS_Subset, Zenon
<1> QED  BY <1>1, <1>2, FS_CardinalityType, Zenon

LEMMA PartOfPart ==
  ASSUME NEW S \in SUBSET Handler, NEW T \in SUBSET S
  PROVE  Cardinality(T) <= Cardinality(S)
<1>1. IsFiniteSet(S)  BY PartOfHandlers
<1> QED  BY <1>1, FS_Subset, Zenon

LEMMA TwoParts ==
  ASSUME NEW S \in SUBSET Handler, NEW T \in SUBSET Handler, S \cap T = {}
  PROVE  Cardinality(S) + Cardinality(T) <= Cardinality(Handler)
<1>1. IsFiniteSet(S) /\ IsFiniteSet(T)  BY PartOfHandlers
<1>2. Cardinality(S \cup T) = Cardinality(S) + Cardinality(T) - Cardinality(S \cap T)
  BY <1>1, FS_Union, Zenon
<1>3. Cardinality(S \cap T) = 0  BY FS_EmptySet, Zenon
<1>4. S \cup T \in SUBSET Handler  OBVIOUS
<1>5. Cardinality(S \cup T) <= Cardinality(Handler)  BY <1>4, PartOfHandlers
<1>6. /\ Cardinality(S) \in Nat /\ Cardinality(T) \in Nat /\ Cardinality(S \cup T) \in Nat
      /\ Cardinality(Handler) \in Nat
  BY <1>4, PartOfHandlers
<1> QED  BY <1>2, <1>3, <1>5, <1>6

LEMMA BoundInit == LoginInit => BoundInv
<1> SUFFICES ASSUME LoginInit, NEW e \in Email PROVE Bounded(e)  BY DEF BoundInv
<1>0. LoginTypeOK  BY TypeInit
<1>1. fresh[e] \in [Time -> Nat] /\ \A t \in Time : fresh[e][t] = 0
  BY <1>0, Numbers DEF LoginInit, NoScores
<1>2. Sum(fresh[e], (now - LOCKOUT_WINDOW + 1) .. now) = 0  BY <1>1, SumNone
<1>3. Early(e) = {}  BY DEF LoginInit, Early
<1>4. Cardinality(Early(e)) = 0  BY <1>3, FS_EmptySet, Zenon
<1>5. Cardinality(Handler) \in Nat /\ LOCKOUT_THRESHOLD \in Nat \ {0}
  BY PartOfHandlers, LoginAssumption
<1> QED  BY <1>2, <1>4, <1>5 DEF Bounded

\* What is in the window of a later moment and is past is in today's.
LEMMA WindowMoves ==
  ASSUME NEW n \in Nat, NEW m \in Nat, NEW w \in Nat, NEW t \in Nat,
         n <= m, t <= n, t \in (m - w + 1) .. m
  PROVE  t \in (n - w + 1) .. n
OBVIOUS

\* No failure added and no login past the look: bounded as before.
LEMMA BoundKept ==
  ASSUME LoginTypeOK, LoginTypeOK', PastInv, NEW e \in Email, Bounded(e), now <= now',
         \A t \in Time : fresh'[e][t] <= fresh[e][t], Early(e)' \in SUBSET Early(e)
  PROVE  Bounded(e)'
<1> DEFINE S == (now - LOCKOUT_WINDOW + 1) .. now
           T == (now' - LOCKOUT_WINDOW + 1) .. now'
<1>1. fresh[e] \in [Time -> Nat] /\ fresh'[e] \in [Time -> Nat]  BY DEF LoginTypeOK
<1>2. \A t \in T \cap Time : fresh'[e][t] > 0 => t \in S /\ fresh'[e][t] <= fresh[e][t]
  <2> SUFFICES ASSUME NEW t \in T \cap Time, fresh'[e][t] > 0
               PROVE  t \in S /\ fresh'[e][t] <= fresh[e][t]
    OBVIOUS
  <2>1. fresh'[e][t] <= fresh[e][t] /\ fresh'[e][t] \in Nat /\ fresh[e][t] \in Nat  BY <1>1
  <2>2. fresh[e][t] <= tries[e][t] /\ (tries[e][t] > 0 => t <= now) /\ tries[e][t] \in Nat
    BY Numbers DEF PastInv
  <2>3. t <= now /\ t \in Nat /\ now \in Nat /\ LOCKOUT_WINDOW \in Nat
    BY <2>1, <2>2, Numbers
  <2>4. now' \in Nat  BY LoginAssumption DEF LoginTypeOK, Time
  <2>5. t \in (now' - LOCKOUT_WINDOW + 1) .. now'  BY DEF T
  <2>6. now <= now'  OBVIOUS
  <2>7. t \in (now - LOCKOUT_WINDOW + 1) .. now
    BY <2>3, <2>4, <2>5, <2>6, WindowMoves, Zenon
  <2> QED  BY <2>1, <2>7 DEF S
<1> HIDE DEF S, T
<1>3. Sum(fresh'[e], T) <= Sum(fresh[e], S)  BY <1>1, <1>2, SumGrows
<1>4. Early(e) \in SUBSET Handler  BY DEF Early
<1>5. Cardinality(Early(e)') <= Cardinality(Early(e))  BY <1>4, PartOfPart
<1>6. Early(e)' \in SUBSET Handler  BY <1>4
<1>7. /\ Sum(fresh'[e], T) \in Nat /\ Sum(fresh[e], S) \in Nat
      /\ Cardinality(Early(e)') \in Nat /\ Cardinality(Early(e)) \in Nat
      /\ Cardinality(Handler) \in Nat /\ LOCKOUT_THRESHOLD \in Nat
  BY <1>1, <1>4, <1>6, TagsFinite, PartOfHandlers, LoginAssumption
<1>8. Sum(fresh[e], S) + Cardinality(Early(e)) <= LOCKOUT_THRESHOLD - 1 + Cardinality(Handler)
  BY DEF Bounded, S
<1>9. Sum(fresh'[e], T) + Cardinality(Early(e)') <= LOCKOUT_THRESHOLD - 1 + Cardinality(Handler)
  BY <1>3, <1>5, <1>7, <1>8
<1> QED  BY <1>9 DEF Bounded, T

\* Where there is no lock the settled failures are below the threshold.
LEMMA UnlockedIsBelow ==
  ASSUME LoginTypeOK, LockInv, NEW e \in Email, ~ (now < lock[e])
  PROVE  Sum(fresh[e], (now - LOCKOUT_WINDOW + 1) .. now)
           <= LOCKOUT_THRESHOLD - 1 + Cardinality(LateOf(e))
<1> DEFINE S == (now - LOCKOUT_WINDOW + 1) .. now
           f == Settled(e)
           k == [t \in Time |-> Lates(e, t)]
           at == [h \in Handler |-> job[h].at]
<1>1. f \in [Time -> Nat] /\ fresh[e] \in [Time -> Nat]
  BY SettledType, Numbers DEF SettledFine
<1>2. k \in [Time -> Nat]  BY LatesType
<1>3. ~ (Sum(f, S) >= LOCKOUT_THRESHOLD)
  <2> SUFFICES ASSUME Sum(f, S) >= LOCKOUT_THRESHOLD PROVE FALSE  OBVIOUS
  <2>1. CASE \A t \in S \cap Time : f[t] = 0
    <3> HIDE DEF f, S
    <3>1. Sum(f, S) = 0  BY <1>1, <2>1, SumNone
    <3> QED  BY <3>1, Numbers
  <2>2. ASSUME NEW t \in S \cap Time, f[t] # 0 PROVE FALSE
    <3>1. f[t] > 0 /\ t > now - LOCKOUT_WINDOW  BY <1>1, <2>2, Numbers
    <3>2. lock[e] >= t + LOCKOUT_WINDOW  BY <3>1 DEF LockInv, Locked
    <3> QED  BY <3>1, <3>2, Numbers
  <2> QED  BY <2>1, <2>2
<1>4. \A t \in S \cap Time : fresh[e][t] <= f[t] + k[t]
  <2> TAKE t \in S \cap Time
  <2>1. fresh[e][t] \in Nat /\ Lates(e, t) \in Nat  BY Numbers, LatesType
  <2>2. /\ f[t] = IF fresh[e][t] > Lates(e, t) THEN fresh[e][t] - Lates(e, t) ELSE 0
        /\ k[t] = Lates(e, t)
    BY DEF Settled
  <2> HIDE DEF f, k
  <2> QED  BY <2>1, <2>2
<1>5. LateOf(e) \in SUBSET Handler  BY DEF LateOf
<1>6. IsFiniteSet(LateOf(e)) /\ Cardinality(LateOf(e)) \in Nat  BY <1>5, PartOfHandlers
<1>7. \A t \in Time : k[t] = Cardinality(AtTime(LateOf(e), at, t))
  <2> TAKE t \in Time
  <2>1. AtTime(LateOf(e), at, t) = LateAt(e, t)  BY DEF AtTime, LateOf, LateAt
  <2> QED  BY <2>1 DEF Lates
<1> HIDE DEF f, k, at, S
<1>8. Sum(k, S) <= Cardinality(LateOf(e))  BY <1>2, <1>6, <1>7, SumOfMembers
<1>9. Sum(fresh[e], S) <= Sum(f, S) + Sum(k, S)  BY <1>1, <1>2, <1>4, SumSplits
<1>10. Sum(fresh[e], S) \in Nat /\ Sum(f, S) \in Nat /\ Sum(k, S) \in Nat
  BY <1>1, <1>2, TagsFinite
<1>11. Sum(fresh[e], S) <= LOCKOUT_THRESHOLD - 1 + Cardinality(LateOf(e))
  BY <1>3, <1>6, <1>8, <1>9, <1>10, Numbers
<1> QED  BY <1>11 DEF S

LEMMA BoundStep ==
  /\ LoginTypeOK /\ LoginTypeOK' /\ PastInv /\ LockInv /\ BoundInv
  /\ [LoginNext]_loginVars
  => BoundInv'
<1> SUFFICES ASSUME LoginTypeOK, LoginTypeOK', PastInv, LockInv, BoundInv, [LoginNext]_loginVars,
                    NEW e \in Email
             PROVE  Bounded(e)'
  BY DEF BoundInv
<1> DEFINE Past == {"verify", "zrem", "zadd"}
<1>0. Bounded(e) /\ now \in Nat /\ \A t \in Time : fresh[e][t] \in Nat
  BY Numbers DEF BoundInv
<1>1. ASSUME NEW h \in Handler, Moves(h), pc'[h] \in Past => pc[h] \in Past /\ job'[h].email = job[h].email
      PROVE  Early(e)' \in SUBSET Early(e)
  BY <1>1 DEF Early, Moves
<1>2. CASE UNCHANGED loginVars
  <2>1. Early(e)' \in SUBSET Early(e)  BY <1>2 DEF Early, loginVars
  <2>2. now' = now /\ fresh' = fresh  BY <1>2 DEF loginVars
  <2>3. now <= now' /\ \A t \in Time : fresh'[e][t] <= fresh[e][t]  BY <1>0, <2>2
  <2> QED  BY <1>0, <2>1, <2>3, BoundKept
<1>3. CASE Tick
  <2>1. UNCHANGED <<pc, job>> /\ now' = now + 1  BY <1>3, TickDoes
  <2>2. Early(e)' \in SUBSET Early(e)  BY <2>1 DEF Early
  <2>3. \A t \in Time : fresh'[e][t] <= fresh[e][t]
    <3> TAKE t \in Time
    <3>1. fresh'[e][t] = IF fresh[e][t] > Lost(e, t) THEN fresh[e][t] - Lost(e, t) ELSE 0
      BY <1>3, TickDoes
    <3> QED  BY <1>0, <3>1, LostType
  <2>4. now <= now'  BY <1>0, <2>1
  <2> QED  BY <1>0, <2>2, <2>3, <2>4, BoundKept
<1>4. ASSUME NEW h \in Handler, Add(h) PROVE Bounded(e)'
  <2>1. /\ pc[h] = "zadd" /\ KeyStays(h, "expire") /\ now' = now  BY <1>4, AddDoes
  <2>2. Early(e)' \in SUBSET Early(e)  BY <2>1, <1>1 DEF KeyStays
  <2>3. CASE e # job[h].email
    <3>1. fresh'[e] = fresh[e]  BY <1>4, <2>3, AddDoes DEF Spared
    <3>2. now <= now' /\ \A t \in Time : fresh'[e][t] <= fresh[e][t]  BY <1>0, <2>1, <3>1
    <3> QED  BY <1>0, <2>2, <3>2, BoundKept
  <2>4. CASE e = job[h].email
    <3> DEFINE S == (now - LOCKOUT_WINDOW + 1) .. now
    <3>1. Early(e)' = Early(e) \ {h} /\ h \in Early(e)
      BY <2>1, <2>4 DEF Early, KeyStays, Moves
    <3>2. Early(e) \in SUBSET Handler /\ Early(e)' \in SUBSET Handler  BY <3>1 DEF Early
    <3>3. IsFiniteSet(Early(e))  BY <3>2, PartOfHandlers
    <3>4. Cardinality(Early(e) \ {h}) = Cardinality(Early(e)) - 1
      BY <3>1, <3>3, FS_RemoveElement, Zenon
    <3>5. Cardinality(Early(e)') = Cardinality(Early(e)) - 1  BY <3>1, <3>4
    <3>6. \A t \in Time : fresh'[e][t] = fresh[e][t] + IF t = job[h].at THEN 1 ELSE 0
      BY <1>4, <2>4, AddDoes
    <3>7. fresh[e] \in [Time -> Nat] /\ fresh'[e] \in [Time -> Nat]  BY DEF LoginTypeOK
    <3>8. job[h].at \in Time  BY <2>1, JobType
    <3>9. fresh'[e][job[h].at] <= fresh[e][job[h].at] + 1
      BY <3>6, <3>7, <3>8
    <3>10. \A t \in Time \ {job[h].at} : fresh'[e][t] = fresh[e][t]  BY <3>6, <3>7
    <3> HIDE DEF S
    <3>11. Sum(fresh'[e], S) <= Sum(fresh[e], S) + 1  BY <3>7, <3>8, <3>9, <3>10, SumStep
    <3>12. /\ Sum(fresh'[e], S) \in Nat /\ Sum(fresh[e], S) \in Nat
           /\ Cardinality(Early(e)') \in Nat /\ Cardinality(Early(e)) \in Nat
           /\ Cardinality(Handler) \in Nat /\ LOCKOUT_THRESHOLD \in Nat
      BY <3>2, <3>7, TagsFinite, PartOfHandlers, LoginAssumption
    <3>13. Sum(fresh[e], S) + Cardinality(Early(e))
             <= LOCKOUT_THRESHOLD - 1 + Cardinality(Handler)
      BY <1>0 DEF Bounded, S
    <3>14. Sum(fresh'[e], S) + Cardinality(Early(e)')
             <= LOCKOUT_THRESHOLD - 1 + Cardinality(Handler)
      BY <3>5, <3>11, <3>12, <3>13
    <3> QED  BY <2>1, <3>14 DEF Bounded, S
  <2> QED  BY <2>3, <2>4
<1>5. ASSUME NEW h \in Handler,
             \/ RemoveOld(h) \/ ExpireCounter(h) \/ Count(h) \/ SetLock(h) \/ Clear(h)
             \/ Fail(h) /\ pc[h] \in Late
      PROVE  Bounded(e)'
  <2>1. Moves(h) /\ (pc'[h] \in Past => pc[h] \in Past /\ job'[h].email = job[h].email)
        /\ now' = now
    BY <1>5, RemoveOldDoes, ExpireDoes, CountDoes, SetLockDoes, ClearDoes, FailDoes
    DEF KeyStays, LockEnds
  <2>2. Early(e)' \in SUBSET Early(e)  BY <1>1, <2>1
  <2>3. \A t \in Time : fresh'[e][t] <= fresh[e][t]
    <3>1. CASE fresh' = fresh  BY <1>0, <3>1
    <3>2. CASE Clear(h)
      <4>1. fresh'[e] \in {fresh[e], NoScores}  BY <3>2, ClearDoes DEF Spared
      <4> QED  BY <1>0, <4>1 DEF NoScores
    <3>3. CASE Fail(h) /\ pc[h] \in Late
      <4>1. \A t \in Time : fresh'[e][t] \in {fresh[e][t], fresh[e][t] - 1}
        BY <3>3, FailDoes DEF Spared
      <4> QED  BY <1>0, <4>1
    <3>4. RemoveOld(h) \/ ExpireCounter(h) \/ Count(h) \/ SetLock(h) => fresh' = fresh
      BY RemoveOldDoes, ExpireDoes, CountDoes, SetLockDoes
    <3> QED  BY <1>5, <3>1, <3>2, <3>3, <3>4
  <2>4. now <= now'  BY <1>0, <2>1
  <2> QED  BY <1>0, <2>2, <2>3, <2>4, BoundKept
<1>6. ASSUME NEW h \in Handler, Quiet(h) PROVE Bounded(e)'
  <2>1. Moves(h) /\ UNCHANGED <<lock, now, fresh>>  BY <1>6 DEF Quiet
  <2>2. now <= now' /\ \A t \in Time : fresh'[e][t] <= fresh[e][t]  BY <1>0, <2>1
  <2>3. CASE ~ (pc'[h] = "verify" /\ job'[h].email = e)
    <3>1. Early(e)' \in SUBSET Early(e)
      <4>1. pc'[h] = "zrem" => pc[h] \in Past /\ job'[h].email = job[h].email
        BY <1>6 DEF Quiet
      <4>2. pc'[h] # "zadd"  BY <1>6 DEF Quiet
      <4> QED  BY <2>1, <2>3, <4>1, <4>2 DEF Early, Moves
    <3> QED  BY <1>0, <2>2, <3>1, BoundKept
  <2>4. CASE pc'[h] = "verify" /\ job'[h].email = e
    <3>1. pc[h] = "exists" /\ job[h].email = e /\ ~ (now < lock[e])
      BY <1>6, <2>4 DEF Quiet
    <3>2. Sum(fresh[e], (now - LOCKOUT_WINDOW + 1) .. now)
            <= LOCKOUT_THRESHOLD - 1 + Cardinality(LateOf(e))
      BY <3>1, UnlockedIsBelow
    <3>3. LateOf(e) \in SUBSET Handler  BY DEF LateOf
    <3>4. Early(e)' \in SUBSET Handler  BY DEF Early
    <3>5. LateOf(e) \cap Early(e)' = {}
      BY <2>1, <2>4, <3>1 DEF LateOf, Early, Moves, Late
    <3>6. Cardinality(LateOf(e)) + Cardinality(Early(e)') <= Cardinality(Handler)
      BY <3>3, <3>4, <3>5, TwoParts
    <3>7. /\ Cardinality(LateOf(e)) \in Nat /\ Cardinality(Early(e)') \in Nat
          /\ Cardinality(Handler) \in Nat
      BY <3>3, <3>4, PartOfHandlers
    <3>8. Sum(fresh[e], (now - LOCKOUT_WINDOW + 1) .. now) \in Nat
      BY Numbers, TagsFinite
    <3>9. Sum(fresh[e], (now - LOCKOUT_WINDOW + 1) .. now) + Cardinality(Early(e)')
            <= LOCKOUT_THRESHOLD - 1 + Cardinality(Handler)
      BY <3>2, <3>6, <3>7, <3>8, LoginAssumption
    <3> QED  BY <2>1, <3>9 DEF Bounded
  <2> QED  BY <2>3, <2>4
<1> QED  BY <1>2, <1>3, <1>4, <1>5, <1>6, StepKinds

\* R6.7, design.md:766: a flood of overlapping logins gets at most one wrong
\* password checked within a window for every login under way, above those
\* below the threshold.
THEOREM GuessesAreBounded == LoginSpec => []GuessesBounded
<1>1. LoginSpec => []BoundInv
  <2>1. LockoutInv /\ LockoutInv' /\ BoundInv /\ [LoginNext]_loginVars => BoundInv'
    BY BoundStep DEF LockoutInv
  <2> QED  BY <2>1, BoundInit, LockoutAlways, PTL DEF LoginSpec
<1>2. LoginTypeOK /\ BoundInv => GuessesBounded
  <2> SUFFICES ASSUME LoginTypeOK, BoundInv, NEW e \in Email
               PROVE  Sum(fresh[e], (now - LOCKOUT_WINDOW + 1) .. now)
                        <= LOCKOUT_THRESHOLD - 1 + Cardinality(Handler)
    BY DEF GuessesBounded
  <2>1. Early(e) \in SUBSET Handler  BY DEF Early
  <2>2. /\ Cardinality(Early(e)) \in Nat /\ Cardinality(Handler) \in Nat
        /\ Sum(fresh[e], (now - LOCKOUT_WINDOW + 1) .. now) \in Nat
    BY <2>1, PartOfHandlers, Numbers, TagsFinite
  <2>3. Bounded(e)  BY DEF BoundInv
  <2> QED  BY <2>2, <2>3, LoginAssumption DEF Bounded
<1> QED  BY <1>1, <1>2, LoginTypeCorrect, PTL
==============================================================================
