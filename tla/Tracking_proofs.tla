--------------------------- MODULE Tracking_proofs ---------------------------
(***************************************************************************)
(* What TLAPS proves of Tracking, for any catalog, any zones, any number   *)
(* of handlers and of uploads: that answers add up and are of one instant, *)
(* that no completion is dated in the future, and that an avatar is where  *)
(* its profile says.  The answers, the dates and the avatars do not meet;  *)
(* the invariant of each says what a handler holds between its check, its  *)
(* snapshot or its object, and the statement that uses it.                 *)
(***************************************************************************)
EXTENDS Tracking, FiniteSetTheorems, TLAPS

\* The columns of `completions` and `profiles`, and what a handler needs to
\* have in its hands; the numbers of an answer are not told here.
Holds(stage, j) ==
  /\ stage \in {"mark", "edit"} => j \in [exp : Experience, on : Day, tz : Zone]
  /\ stage = "unmark" => j \in [exp : Experience]
  /\ stage \in {"upload", "avatar"} => j \in [key : Object, mime : Mime]

Tables ==
  /\ now \in Nat
  /\ DOMAIN completions \subseteq Experience
  /\ completions = [e \in DOMAIN completions |-> completions[e]]
  /\ \A e \in DOMAIN completions : completions[e] \in Completion
  /\ balance \in [Experience -> Int]
  /\ bucket = [o \in DOMAIN bucket |-> bucket[o]]
  /\ pc \in [Handler -> Stage]
  /\ job = [h \in Handler |-> job[h]]
  /\ \A h \in Handler : Holds(pc[h], job[h])

\* A date that was valid when it was checked stays so.
CheckedDates == \A h \in Handler :
  pc[h] \in {"mark", "edit"} => job[h].on <= Today(now, job[h].tz)

\* An object is put once, and before its row: no upload will put it again.
Objects ==
  /\ \A h \in Handler : pc[h] = "avatar" =>
       job[h].key \in DOMAIN bucket /\ bucket[job[h].key] = job[h].mime
  /\ \A h \in Handler : pc[h] = "upload" => job[h].key \notin DOMAIN bucket
  /\ \A h, g \in Handler :
       pc[h] = "upload" /\ pc[g] = "upload" /\ h # g => job[h].key # job[g].key

IInv == Tables /\ AnswersAddUp /\ CheckedDates /\ NoneInTheFuture /\ Objects /\ AvatarIsStored

------------------------------------------------------------------------------
\* Floors do not fall.
LEMMA FloorGrows ==
  ASSUME NEW a \in Nat, NEW b \in Nat, a <= b, NEW d \in Nat \ {0}
  PROVE  a \div d <= b \div d
<1> DEFINE q == a \div d
           r == b \div d
<1>1. q \in Nat /\ d * q <= a  OBVIOUS
<1>2. r \in Nat /\ b < d * (r + 1)  OBVIOUS
<1> HIDE DEF q, r
<1>3. ASSUME r < q PROVE FALSE
  <2>1. PICK k \in Nat : q = (r + 1) + k
    <3>1. q - (r + 1) \in Nat /\ q = (r + 1) + (q - (r + 1))  BY <1>1, <1>2, <1>3
    <3> QED  BY <3>1
  <2>2. d * q = d * (r + 1) + d * k  BY <1>2, <2>1
  <2>3. d * k \in Nat  OBVIOUS
  <2>4. d * (r + 1) \in Nat  BY <1>2
  <2>5. d * q \in Nat  BY <1>1
  <2> QED  BY <1>1, <1>2, <2>2, <2>3, <2>4, <2>5
<1>4. q <= r  BY <1>1, <1>2, <1>3
<1> QED  BY <1>4 DEF q, r

\* Nor does a date go back.
LEMMA TodayGrows ==
  ASSUME NEW t \in Nat, NEW u \in Nat, t <= u, NEW zone \in Zone
  PROVE  Today(t, zone) <= Today(u, zone) /\ Today(t, zone) \in Int /\ Today(u, zone) \in Int
<1>1. Offset[zone] \in Nat /\ DAY \in Nat \ {0}  BY TrackingAssumption
<1>2. t + Offset[zone] \in Nat /\ u + Offset[zone] \in Nat
      /\ t + Offset[zone] <= u + Offset[zone]
  BY <1>1
<1>3. (t + Offset[zone]) \div DAY <= (u + Offset[zone]) \div DAY
  BY <1>1, <1>2, FloorGrows
<1> QED  BY <1>1, <1>2, <1>3 DEF Today

LEMMA InitInv == Init => IInv
<1> SUFFICES ASSUME Init PROVE IInv  OBVIOUS
<1>1. Tables
  BY TrackingAssumption DEF Init, Tables, Holds, Stage
<1>2. AnswersAddUp  BY DEF Init, AnswersAddUp
<1>3. CheckedDates /\ NoneInTheFuture /\ Objects /\ AvatarIsStored
  BY DEF Init, CheckedDates, NoneInTheFuture, Objects, AvatarIsStored
<1> QED  BY <1>1, <1>2, <1>3 DEF IInv

\* Handlers that move on without touching the tables: one that goes to a stage
\* of no statement of these, or to one whose date or key has been checked.
LEMMA HandlerStep ==
  ASSUME IInv, NEW h \in Handler, NEW stage \in Stage, NEW carried,
         Goto(h, stage, carried),
         UNCHANGED <<now, completions, balance, profile, bucket>>,
         Holds(stage, carried),
         stage \in {"mark", "edit"} => carried.on <= Today(now, carried.tz),
         stage = "upload" =>
           /\ carried.key \notin DOMAIN bucket
           /\ \A g \in Handler : pc[g] = "upload" => job[g].key # carried.key,
         stage # "avatar"
  PROVE  IInv'
<1>1. /\ pc'[h] = stage /\ job'[h] = carried
      /\ \A g \in Handler \ {h} : pc'[g] = pc[g] /\ job'[g] = job[g]
      /\ pc' \in [Handler -> Stage] /\ job' = [g \in Handler |-> job'[g]]
  BY DEF Goto, IInv, Tables
<1>2. \A g \in Handler : Holds(pc'[g], job'[g])
  BY <1>1 DEF IInv, Tables
<1>3. Tables'
  BY <1>1, <1>2 DEF IInv, Tables
<1>4. AnswersAddUp' /\ NoneInTheFuture' /\ AvatarIsStored'
  BY DEF IInv, AnswersAddUp, NoneInTheFuture, AvatarIsStored
<1>5. CheckedDates'
  BY <1>1 DEF IInv, CheckedDates
<1>6. Objects'
  BY <1>1 DEF IInv, Objects
<1> QED  BY <1>3, <1>4, <1>5, <1>6 DEF IInv

\* A handler that answers holds nothing any more; the table completions may be
\* another one by then.
LEMMA AnswerKeeps ==
  ASSUME IInv, NEW h \in Handler, Answer(h), UNCHANGED <<now, profile, bucket>>,
         DOMAIN completions' \subseteq Experience,
         completions' = [e \in DOMAIN completions' |-> completions'[e]],
         \A e \in DOMAIN completions' : completions'[e] \in Completion,
         balance' \in [Experience -> Int],
         AnswersAddUp', NoneInTheFuture'
  PROVE  IInv'
<1>1. /\ pc'[h] = "idle"
      /\ \A g \in Handler \ {h} : pc'[g] = pc[g] /\ job'[g] = job[g]
      /\ pc' \in [Handler -> Stage] /\ job' = [g \in Handler |-> job'[g]]
  BY DEF Answer, Goto, IInv, Tables, Stage
<1>2. \A g \in Handler : Holds(pc'[g], job'[g])
  BY <1>1 DEF IInv, Tables, Holds
<1>3. Tables'
  BY <1>1, <1>2 DEF IInv, Tables
<1>4. CheckedDates' /\ Objects' /\ AvatarIsStored'
  BY <1>1 DEF IInv, CheckedDates, Objects, AvatarIsStored
<1> QED  BY <1>3, <1>4 DEF IInv

\* What With makes of the table.
LEMMA WithRow ==
  ASSUME Tables, NEW e \in Experience, NEW row \in Completion
  PROVE  /\ DOMAIN With(e, row) = DOMAIN completions \cup {e}
         /\ DOMAIN With(e, row) \subseteq Experience
         /\ With(e, row) = [x \in DOMAIN With(e, row) |-> With(e, row)[x]]
         /\ With(e, row)[e] = row
         /\ \A x \in DOMAIN completions \ {e} : With(e, row)[x] = completions[x]
         /\ \A x \in DOMAIN With(e, row) : With(e, row)[x] \in Completion
  BY DEF With, Tables

\* The INSERT or the UPDATE of a date that was checked.
LEMMA DatedRow ==
  ASSUME IInv, NEW h \in Handler, pc[h] \in {"mark", "edit"}
  PROVE  /\ job[h].exp \in Experience
         /\ [on |-> job[h].on, tz |-> job[h].tz] \in Completion
         /\ job[h].on <= Today(now, job[h].tz)
  BY DEF IInv, Tables, Holds, Completion, CheckedDates

LEMMA MarkStep == ASSUME IInv, NEW h \in Handler, Mark(h) PROVE IInv'
<1> DEFINE e == job[h].exp
           row == [on |-> job[h].on, tz |-> job[h].tz]
<1>1. e \in Experience /\ row \in Completion /\ row.on <= Today(now, row.tz)
  BY DatedRow DEF Mark
<1>2. Answer(h) /\ UNCHANGED <<now, profile, bucket>>  BY DEF Mark
<1>3. CASE e \in DOMAIN completions
  <2>1. UNCHANGED <<completions, balance>>  BY <1>3 DEF Mark
  <2>2. AnswersAddUp' /\ NoneInTheFuture'
    BY <1>2, <2>1 DEF IInv, AnswersAddUp, NoneInTheFuture
  <2> QED  BY <1>2, <2>1, <2>2, AnswerKeeps DEF IInv, Tables
<1>4. CASE e \notin DOMAIN completions
  <2>1. completions' = With(e, row) /\ balance' = [balance EXCEPT ![e] = @ + 1]
    BY <1>4 DEF Mark
  <2> HIDE DEF e, row
  <2>2. /\ DOMAIN completions' = DOMAIN completions \cup {e}
        /\ DOMAIN completions' \subseteq Experience
        /\ completions' = [x \in DOMAIN completions' |-> completions'[x]]
        /\ completions'[e] = row
        /\ \A x \in DOMAIN completions \ {e} : completions'[x] = completions[x]
        /\ \A x \in DOMAIN completions' : completions'[x] \in Completion
    <3>1. Tables  BY DEF IInv
    <3> QED  BY <1>1, <2>1, <3>1, WithRow
  <2>3. balance' \in [Experience -> Int]  BY <1>1, <2>1 DEF IInv, Tables
  <2>4. AnswersAddUp'
    BY <1>1, <1>4, <2>1, <2>2 DEF IInv, Tables, AnswersAddUp
  <2>5. NoneInTheFuture'
    BY <1>1, <1>2, <2>1, <2>2 DEF IInv, NoneInTheFuture
  <2> QED  BY <1>2, <2>3, <2>4, <2>5, <2>2, AnswerKeeps
<1> QED  BY <1>3, <1>4

LEMMA EditStep == ASSUME IInv, NEW h \in Handler, Edit(h) PROVE IInv'
<1> DEFINE e == job[h].exp
           row == [on |-> job[h].on, tz |-> job[h].tz]
<1>1. e \in Experience /\ row \in Completion /\ row.on <= Today(now, row.tz)
  BY DatedRow DEF Edit
<1>2. Answer(h) /\ UNCHANGED <<now, profile, bucket, balance>>  BY DEF Edit
<1>3. CASE e \notin DOMAIN completions
  <2>1. UNCHANGED completions  BY <1>3 DEF Edit
  <2>2. AnswersAddUp' /\ NoneInTheFuture'
    BY <1>2, <2>1 DEF IInv, AnswersAddUp, NoneInTheFuture
  <2> QED  BY <1>2, <2>1, <2>2, AnswerKeeps DEF IInv, Tables
<1>4. CASE e \in DOMAIN completions
  <2>1. completions' = With(e, row)  BY <1>4 DEF Edit
  <2> HIDE DEF e, row
  <2>2. /\ DOMAIN completions' = DOMAIN completions \cup {e}
        /\ DOMAIN completions' \subseteq Experience
        /\ completions' = [x \in DOMAIN completions' |-> completions'[x]]
        /\ completions'[e] = row
        /\ \A x \in DOMAIN completions \ {e} : completions'[x] = completions[x]
        /\ \A x \in DOMAIN completions' : completions'[x] \in Completion
    <3>1. Tables  BY DEF IInv
    <3> QED  BY <1>1, <2>1, <3>1, WithRow
  <2>3. AnswersAddUp'
    BY <1>1, <1>2, <1>4, <2>1, <2>2 DEF IInv, AnswersAddUp
  <2>4. NoneInTheFuture'
    BY <1>1, <1>2, <2>1, <2>2 DEF IInv, NoneInTheFuture
  <2> QED  BY <1>2, <2>3, <2>4, <2>2, AnswerKeeps DEF IInv, Tables
<1> QED  BY <1>3, <1>4

LEMMA UnmarkStep == ASSUME IInv, NEW h \in Handler, Unmark(h) PROVE IInv'
<1> DEFINE e == job[h].exp
<1>1. e \in Experience  BY DEF Unmark, IInv, Tables, Holds
<1>2. Answer(h) /\ UNCHANGED <<now, profile, bucket>>  BY DEF Unmark
<1>3. CASE e \notin DOMAIN completions
  <2>1. UNCHANGED <<completions, balance>>  BY <1>3 DEF Unmark
  <2>2. AnswersAddUp' /\ NoneInTheFuture'
    BY <1>2, <2>1 DEF IInv, AnswersAddUp, NoneInTheFuture
  <2> QED  BY <1>2, <2>1, <2>2, AnswerKeeps DEF IInv, Tables
<1>4. CASE e \in DOMAIN completions
  <2>1. /\ completions' = [x \in DOMAIN completions \ {e} |-> completions[x]]
        /\ balance' = [balance EXCEPT ![e] = @ - 1]
    BY <1>4 DEF Unmark
  <2> HIDE DEF e
  <2>2. balance' \in [Experience -> Int]  BY <1>1, <2>1 DEF IInv, Tables
  <2>3. /\ DOMAIN completions' = DOMAIN completions \ {e}
        /\ \A x \in DOMAIN completions' : completions'[x] = completions[x]
        /\ completions' = [x \in DOMAIN completions' |-> completions'[x]]
    BY <2>1
  <2>4. AnswersAddUp'
    BY <1>1, <1>4, <2>1, <2>3 DEF IInv, Tables, AnswersAddUp
  <2>5. NoneInTheFuture'
    BY <1>2, <2>3 DEF IInv, NoneInTheFuture
  <2>6. DOMAIN completions' \subseteq Experience
        /\ \A x \in DOMAIN completions' : completions'[x] \in Completion
    BY <2>3 DEF IInv, Tables
  <2> QED  BY <1>2, <2>2, <2>3, <2>4, <2>5, <2>6, AnswerKeeps
<1> QED  BY <1>3, <1>4

\* The object is in the bucket from now on, and no other upload has its key.
LEMMA UploadStep == ASSUME IInv, NEW h \in Handler, Upload(h) PROVE IInv'
<1> DEFINE key == job[h].key
           mime == job[h].mime
<1>1. /\ pc[h] = "upload" /\ bucket' = Store(key, mime)
      /\ pc' = [pc EXCEPT ![h] = "avatar"] /\ job' = [job EXCEPT ![h] = job[h]]
      /\ UNCHANGED <<now, completions, profile, balance>>
  BY DEF Upload, Goto
<1>2. job' = job  BY <1>1 DEF IInv, Tables
<1>3. /\ DOMAIN bucket' = DOMAIN bucket \cup {key} /\ bucket'[key] = mime
      /\ \A o \in DOMAIN bucket \ {key} : bucket'[o] = bucket[o]
      /\ bucket' = [o \in DOMAIN bucket' |-> bucket'[o]]
  BY <1>1 DEF Store
<1>4. key \notin DOMAIN bucket  BY <1>1 DEF IInv, Objects
<1>5. Tables'
  <2>1. pc' \in [Handler -> Stage] /\ \A g \in Handler : Holds(pc'[g], job'[g])
    BY <1>1, <1>2 DEF IInv, Tables, Holds, Stage
  <2> QED  BY <1>1, <1>2, <1>3, <2>1 DEF IInv, Tables
<1>6. AnswersAddUp' /\ NoneInTheFuture'
  BY <1>1 DEF IInv, AnswersAddUp, NoneInTheFuture
<1>7. CheckedDates'
  BY <1>1, <1>2 DEF IInv, Tables, CheckedDates
<1>8. Objects'
  <2>1. ASSUME NEW g \in Handler, pc'[g] = "avatar"
        PROVE  job'[g].key \in DOMAIN bucket' /\ bucket'[job'[g].key] = job'[g].mime
    BY <1>1, <1>2, <1>3, <1>4, <2>1 DEF IInv, Tables, Objects
  <2>2. ASSUME NEW g \in Handler, pc'[g] = "upload"
        PROVE  job'[g].key \notin DOMAIN bucket'
    BY <1>1, <1>2, <1>3, <2>2 DEF IInv, Tables, Objects
  <2>3. \A f, g \in Handler :
          pc'[f] = "upload" /\ pc'[g] = "upload" /\ f # g => job'[f].key # job'[g].key
    BY <1>1, <1>2 DEF IInv, Tables, Objects
  <2> QED  BY <2>1, <2>2, <2>3 DEF Objects
<1>9. AvatarIsStored'
  BY <1>1, <1>3, <1>4 DEF IInv, AvatarIsStored
<1> QED  BY <1>5, <1>6, <1>7, <1>8, <1>9 DEF IInv

LEMMA SetAvatarStep == ASSUME IInv, NEW h \in Handler, SetAvatar(h) PROVE IInv'
<1>1. /\ pc[h] = "avatar" /\ profile' = [url |-> job[h].key, mime |-> job[h].mime]
      /\ pc' = [pc EXCEPT ![h] = "percent"] /\ job' = [job EXCEPT ![h] = NoJob]
      /\ UNCHANGED <<now, completions, bucket, balance>>
  BY DEF SetAvatar, Goto
<1>2. /\ pc'[h] = "percent"
      /\ \A g \in Handler \ {h} : pc'[g] = pc[g] /\ job'[g] = job[g]
      /\ pc' \in [Handler -> Stage] /\ job' = [g \in Handler |-> job'[g]]
  BY <1>1 DEF IInv, Tables, Stage
<1>3. Tables'
  <2>1. \A g \in Handler : Holds(pc'[g], job'[g])
    BY <1>2 DEF IInv, Tables, Holds
  <2> QED  BY <1>1, <1>2, <2>1 DEF IInv, Tables
<1>4. AnswersAddUp' /\ NoneInTheFuture' /\ CheckedDates' /\ Objects'
  BY <1>1, <1>2 DEF IInv, AnswersAddUp, NoneInTheFuture, CheckedDates, Objects
<1>5. AvatarIsStored'
  BY <1>1 DEF IInv, Objects, AvatarIsStored
<1> QED  BY <1>3, <1>4, <1>5 DEF IInv

\* A day later every date of today is still none of the future.
LEMMA TickStep == ASSUME IInv, Tick PROVE IInv'
<1>1. now \in Nat /\ now' = now + 1 /\ UNCHANGED <<tables, pc, job>>
  BY DEF Tick, IInv, Tables
<1>2. \A z \in Zone :
        /\ Today(now, z) <= Today(now', z)
        /\ Today(now, z) \in Int /\ Today(now', z) \in Int
  BY <1>1, TodayGrows
<1>3. Tables' /\ AnswersAddUp' /\ Objects' /\ AvatarIsStored'
  BY <1>1 DEF tables, IInv, Tables, AnswersAddUp, Objects, AvatarIsStored
<1>4. CheckedDates'
  <2> SUFFICES ASSUME NEW h \in Handler, pc[h] \in {"mark", "edit"}
               PROVE  job[h].on <= Today(now', job[h].tz)
    BY <1>1 DEF CheckedDates
  <2>1. job[h].on \in Int /\ job[h].tz \in Zone /\ job[h].on <= Today(now, job[h].tz)
    BY TrackingAssumption DEF IInv, Tables, Holds, CheckedDates, Day
  <2> QED  BY <1>2, <2>1
<1>5. NoneInTheFuture'
  <2> SUFFICES ASSUME NEW e \in DOMAIN completions
               PROVE  completions[e].on <= Today(now', completions[e].tz)
    BY <1>1 DEF tables, NoneInTheFuture
  <2>1. /\ completions[e].on \in Int /\ completions[e].tz \in Zone
        /\ completions[e].on <= Today(now, completions[e].tz)
    BY TrackingAssumption DEF IInv, Tables, Completion, NoneInTheFuture, Day
  <2> QED  BY <1>2, <2>1
<1> QED  BY <1>3, <1>4, <1>5 DEF IInv

------------------------------------------------------------------------------
\* The handlers that only check, read and answer.
ReadStep(h) ==
  \/ ArriveOwn(h) \/ \E op \in {"stats", "profile"} : ArriveView(h, op)
  \/ Check(h) \/ Denominators(h) \/ Numerators(h)
  \/ LoadRow(h) \/ OverallPercent(h) \/ Answered(h) \/ Fail(h)

Harmless == Stage \ {"mark", "edit", "unmark", "upload", "avatar"}

\* Whatever they carry, they go where nothing is asked of it.
LEMMA ReadGoes ==
  ASSUME NEW h \in Handler, ReadStep(h)
  PROVE  UNCHANGED <<now, tables>> /\ \E stage \in Harmless : \E j : Goto(h, stage, j)
<1>1. ArriveOwn(h) => Goto(h, "denominators", NoJob)  BY DEF ArriveOwn
<1>2. \A op : ArriveView(h, op) => Goto(h, "check", [op |-> op])  BY DEF ArriveView
<1>3. Check(h) => \/ Goto(h, "idle", NoJob)
                  \/ Goto(h, "denominators", NoJob) \/ Goto(h, "row", NoJob)
  BY DEF Check, Answer
<1>4. Denominators(h) => Goto(h, "numerators",
        [snapshot |-> Live, rows |-> Grouped(catalog, Active(catalog))])
  BY DEF Denominators
<1>5. Numerators(h) => \E j : Goto(h, "answered", j)  BY Zenon DEF Numerators, Respond
<1>6. LoadRow(h) => Goto(h, "percent", NoJob)  BY DEF LoadRow
<1>7. OverallPercent(h) => \E j : Goto(h, "answered", j)  BY Zenon DEF OverallPercent
<1>8. Answered(h) \/ Fail(h) => Goto(h, "idle", NoJob)  BY DEF Answered, Fail, Answer
<1>9. {"idle", "check", "denominators", "numerators", "row", "percent", "answered"}
        \subseteq Harmless
  BY DEF Harmless, Stage
<1>10. UNCHANGED <<now, tables>>
  BY Zenon DEF ReadStep, ArriveOwn, ArriveView, Check, Denominators, Numerators, LoadRow,
     OverallPercent, Answered, Fail
<1>11. \E stage \in {"idle", "check", "denominators", "numerators", "row", "percent",
                     "answered"} : \E j : Goto(h, stage, j)
  BY <1>1, <1>2, <1>3, <1>4, <1>5, <1>6, <1>7, <1>8 DEF ReadStep
<1> QED  BY <1>9, <1>10, <1>11

LEMMA ReadKeeps == ASSUME IInv, NEW h \in Handler, ReadStep(h) PROVE IInv'
<1>1. UNCHANGED <<now, tables>>  BY ReadGoes
<1>2. PICK stage \in Harmless : \E j : Goto(h, stage, j)  BY ReadGoes
<1>3. PICK j : Goto(h, stage, j)  BY <1>2
<1>4. /\ stage \in Stage /\ Holds(stage, j)
      /\ stage \notin {"mark", "edit", "upload", "avatar"}
  BY DEF Harmless, Holds
<1> QED  BY <1>1, <1>3, <1>4, HandlerStep DEF tables

LEMMA ArriveStep ==
  ASSUME IInv, NEW h \in Handler, NEW op \in {"mark", "edit"}, NEW e \in Experience,
         NEW on \in Day, NEW tz \in Zone, Arrive(h, op, e, on, tz)
  PROVE  IInv'
<1> DEFINE new == [exp |-> e, on |-> on, tz |-> tz]
<1>1. Goto(h, op, new) /\ UNCHANGED <<now, tables>> /\ new.on <= Today(now, new.tz)
  BY DEF Arrive
<1>2. op \in Stage /\ Holds(op, new) /\ op \notin {"upload", "avatar"}
  BY DEF Stage, Holds
<1> HIDE DEF new
<1> QED  BY <1>1, <1>2, HandlerStep DEF tables

LEMMA ArriveUnmarkStep ==
  ASSUME IInv, NEW h \in Handler, NEW e \in Experience, ArriveUnmark(h, e)
  PROVE  IInv'
<1>1. Goto(h, "unmark", [exp |-> e]) /\ UNCHANGED <<now, tables>>  BY DEF ArriveUnmark
<1>2. "unmark" \in Stage /\ Holds("unmark", [exp |-> e])  BY DEF Stage, Holds
<1> QED  BY <1>1, <1>2, HandlerStep DEF tables

LEMMA ArriveAvatarStep ==
  ASSUME IInv, NEW h \in Handler, NEW key \in Object, NEW mime \in Mime,
         ArriveAvatar(h, key, mime)
  PROVE  IInv'
<1> DEFINE new == [key |-> key, mime |-> mime]
<1>1. /\ Goto(h, "upload", new) /\ UNCHANGED <<now, tables>>
      /\ new.key \notin DOMAIN bucket
      /\ \A g \in Handler : pc[g] = "upload" => job[g].key # new.key
  BY DEF ArriveAvatar
<1>2. "upload" \in Stage /\ Holds("upload", new)  BY DEF Stage, Holds
<1> HIDE DEF new
<1> QED  BY <1>1, <1>2, HandlerStep DEF tables

\* The catalog, the friendship and the rest are no matter.
LEMMA ElsewhereStep == ASSUME IInv, Sync \/ Befriend \/ UNCHANGED vars PROVE IInv'
<1>1. UNCHANGED <<now, completions, profile, bucket, pc, job, balance>>
  BY DEF Sync, Befriend, vars, tables
<1> QED
  BY <1>1 DEF IInv, Tables, AnswersAddUp, CheckedDates, NoneInTheFuture, Objects, AvatarIsStored

LEMMA StepInv == ASSUME IInv, [Next]_vars PROVE IInv'
<1>1. ASSUME NEW h \in Handler, NEW op \in {"mark", "edit"}, NEW e \in Experience,
             NEW on \in Day, NEW tz \in Zone, Arrive(h, op, e, on, tz)
      PROVE  IInv'
  BY <1>1, ArriveStep
<1>2. ASSUME NEW h \in Handler, NEW e \in Experience, ArriveUnmark(h, e) PROVE IInv'
  BY <1>2, ArriveUnmarkStep
<1>3. ASSUME NEW h \in Handler, Mark(h) \/ Edit(h) \/ Unmark(h) PROVE IInv'
  BY <1>3, MarkStep, EditStep, UnmarkStep
<1>4. ASSUME NEW h \in Handler, ReadStep(h) PROVE IInv'  BY <1>4, ReadKeeps
<1>5. ASSUME NEW h \in Handler, NEW key \in Object, NEW mime \in Mime,
             ArriveAvatar(h, key, mime)
      PROVE  IInv'
  BY <1>5, ArriveAvatarStep
<1>6. ASSUME NEW h \in Handler, Upload(h) \/ SetAvatar(h) PROVE IInv'
  BY <1>6, UploadStep, SetAvatarStep
<1>7. CASE Sync \/ Befriend \/ UNCHANGED vars  BY <1>7, ElsewhereStep
<1>8. CASE Tick  BY <1>8, TickStep
<1> QED  BY <1>1, <1>2, <1>3, <1>4, <1>5, <1>6, <1>7, <1>8, Zenon DEF Next, ReadStep

\* completion/routes.ts: the answers to the PUTs and DELETEs of one experience
\* tell how often its completion came and went, whatever overlaps.
THEOREM AnswersTell == Spec => []AnswersAddUp
<1>1. IInv => AnswersAddUp  BY DEF IInv
<1> QED  BY <1>1, InitInv, StepInv, PTL DEF Spec

\* validateNotFutureDate: checked before the statement, true for ever after.
THEOREM DatesArePast == Spec => []NoneInTheFuture
<1>1. IInv => NoneInTheFuture  BY DEF IInv
<1> QED  BY <1>1, InitInv, StepInv, PTL DEF Spec

\* profileRoutes.ts puts the object before the row: the row never refers to an
\* object that is missing, or is of another type.
THEOREM AvatarsAreThere == Spec => []AvatarIsStored
<1>1. IInv => AvatarIsStored  BY DEF IInv
<1> QED  BY <1>1, InitInv, StepInv, PTL DEF Spec
------------------------------------------------------------------------------
(* Answers.  Sums are numbers of things, so that what is counted by groups   *)
(* and added up is what would be counted at once: a bijection.               *)

OfKind(S, kind, c) == {e \in S : kind[e] = c}

LEMMA TallyOfKinds ==
  ASSUME NEW S, IsFiniteSet(S), NEW C, NEW kind \in [S -> C], NEW count \in [C -> Nat],
         \A c \in C : Cardinality(OfKind(S, kind, c)) = count[c]
  PROVE  Tally(count) = Cardinality(S)
<1> DEFINE Kin(c) == OfKind(S, kind, c)
           U == UNION {{c} \X (1 .. count[c]) : c \in DOMAIN count}
           nth == [c \in C |-> CHOOSE f \in Bijection(1 .. count[c], Kin(c)) : TRUE]
           place == [e \in S |->
                       <<kind[e], CHOOSE k \in 1 .. count[kind[e]] : nth[kind[e]][k] = e>>]
<1>1. \A c \in C : nth[c] \in Bijection(1 .. count[c], Kin(c))
  <2> TAKE c \in C
  <2>1. IsFiniteSet(Kin(c))  BY FS_Subset, Zenon DEF OfKind
  <2>2. ExistsBijection(1 .. count[c], Kin(c))  BY <2>1, FS_CardinalityType, Zenon
  <2>3. \E f \in Bijection(1 .. count[c], Kin(c)) : TRUE  BY <2>2 DEF ExistsBijection
  <2>4. (CHOOSE f \in Bijection(1 .. count[c], Kin(c)) : TRUE) \in Bijection(1 .. count[c], Kin(c))
    BY <2>3, Zenon
  <2> QED  BY <2>4
<1>2. \A c \in C : \A k \in 1 .. count[c] : <<c, k>> \in U
  <2> TAKE c \in C
  <2> TAKE k \in 1 .. count[c]
  <2>1. <<c, k>> \in {c} \X (1 .. count[c]) /\ c \in DOMAIN count  OBVIOUS
  <2> QED  BY <2>1, Zenon
<1>3. \A p \in U : \E c \in C : \E k \in 1 .. count[c] : p = <<c, k>>  OBVIOUS
<1> HIDE DEF nth, U
<1>4. \A c \in C : /\ \A k \in 1 .. count[c] : nth[c][k] \in S /\ kind[nth[c][k]] = c
                   /\ \A k, l \in 1 .. count[c] : nth[c][k] = nth[c][l] => k = l
                   /\ \A e \in S : kind[e] = c => \E k \in 1 .. count[c] : nth[c][k] = e
  BY <1>1 DEF OfKind, Bijection, Injection, Surjection, IsInjective
<1>5. \A e \in S : \E k \in 1 .. count[kind[e]] :
        place[e] = <<kind[e], k>> /\ nth[kind[e]][k] = e
  <2> TAKE e \in S
  <2>1. kind[e] \in C  OBVIOUS
  <2>2. \E k \in 1 .. count[kind[e]] : nth[kind[e]][k] = e  BY <1>4, <2>1
  <2> QED  BY <2>2
<1>6. place \in [S -> U]
  <2>1. \A e \in S : place[e] \in U  BY <1>2, <1>5
  <2>2. place = [e \in S |-> place[e]]  OBVIOUS
  <2> HIDE DEF place
  <2> QED  BY <2>1, <2>2
<1> HIDE DEF place
<1>7. \A e, f \in S : place[e] = place[f] => e = f
  <2> SUFFICES ASSUME NEW e \in S, NEW f \in S, place[e] = place[f] PROVE e = f
    OBVIOUS
  <2>1. PICK k : place[e] = <<kind[e], k>> /\ nth[kind[e]][k] = e  BY <1>5
  <2>2. PICK l : place[f] = <<kind[f], l>> /\ nth[kind[f]][l] = f  BY <1>5
  <2>4. <<kind[e], k>> = <<kind[f], l>>  BY <2>1, <2>2
  <2>3. kind[e] = kind[f] /\ k = l  BY <2>4
  <2> QED  BY <2>1, <2>2, <2>3
<1>8. \A p \in U : \E e \in S : place[e] = p
  <2> TAKE p \in U
  <2>1. PICK c \in C : \E k \in 1 .. count[c] : p = <<c, k>>  BY <1>3
  <2>6. PICK k \in 1 .. count[c] : p = <<c, k>>  BY <2>1
  <2>2. nth[c][k] \in S /\ kind[nth[c][k]] = c  BY <1>4
  <2>3. PICK e \in S : e = nth[c][k]  BY <2>2
  <2>4. PICK l \in 1 .. count[c] : place[e] = <<c, l>> /\ nth[c][l] = e
    BY <1>5, <2>2, <2>3
  <2>5. l = k  BY <1>4, <2>3, <2>4
  <2> QED  BY <2>4, <2>5, <2>6
<1>9. ExistsBijection(S, U)
  BY <1>6, <1>7, <1>8 DEF ExistsBijection, Bijection, Injection, Surjection, IsInjective
<1>10. Cardinality(U) = Cardinality(S)  BY <1>9, FS_Bijection, Zenon
<1> QED  BY <1>10 DEF Tally, U

\* The rows of a GROUP BY: a cell without one has nothing in it.
Of(d, e) == [park |-> d[e].park, category |-> d[e].category]

InCell(d, X, c) == {e \in X : Of(d, e) = c}

GroupRow(d, X, c) ==
  [cell |-> c, n |-> Cardinality({e \in X : d[e].park = c.park /\ d[e].category = c.category})]

LEMMA GroupRows ==
  ASSUME NEW d, NEW X, NEW r
  PROVE  r \in Grouped(d, X) <=> \E e \in X : r = GroupRow(d, X, Of(d, e))
  BY Zenon DEF Grouped, Of, GroupRow

LEMMA CountOfGroups ==
  ASSUME NEW d \in [Experience -> Row], NEW X \in SUBSET Experience, NEW c \in Cell
  PROVE  /\ CountOf(Grouped(d, X), c) = Cardinality(InCell(d, X, c))
         /\ CountOf(Grouped(d, X), c) \in Nat
<1> DEFINE Group == {e \in X : d[e].park = c.park /\ d[e].category = c.category}
           rows == Grouped(d, X)
<1>1. \A r : r \in rows <=> \E e \in X : r = GroupRow(d, X, Of(d, e))  BY GroupRows
<1>2. \A e \in X : Of(d, e) = c <=> d[e].park = c.park /\ d[e].category = c.category
  BY DEF Of, Cell, Row
<1>3. Group = InCell(d, X, c)  BY <1>2 DEF InCell
<1>4. IsFiniteSet(Group) /\ Cardinality(Group) \in Nat
  <2>1. IsFiniteSet(Experience) /\ Group \in SUBSET Experience
    BY TrackingAssumption
  <2>2. IsFiniteSet(Group)  BY <2>1, FS_Subset, Zenon
  <2> QED  BY <2>2, FS_CardinalityType, Zenon
<1>5. \A r \in rows : r.cell = c => r = GroupRow(d, X, c)
  <2> TAKE r \in rows
  <2>1. PICK e \in X : r = GroupRow(d, X, Of(d, e))  BY <1>1
  <2>2. r.cell = Of(d, e)  BY <2>1 DEF GroupRow
  <2> QED  BY <2>1, <2>2
<1>6. GroupRow(d, X, c).cell = c /\ GroupRow(d, X, c).n = Cardinality(Group)  BY DEF GroupRow
<1>7. CASE \E r \in rows : r.cell = c
  <2>1. (CHOOSE r \in rows : r.cell = c) = GroupRow(d, X, c)  BY <1>5, <1>7
  <2> QED  BY <1>3, <1>4, <1>6, <1>7, <2>1 DEF CountOf
<1>8. CASE ~ \E r \in rows : r.cell = c
  <2>1. Group = {}
    <3> SUFFICES ASSUME NEW e \in Group PROVE FALSE  OBVIOUS
    <3>1. e \in X /\ Of(d, e) = c  BY <1>3 DEF InCell
    <3>2. GroupRow(d, X, c) \in rows  BY <1>1, <3>1
    <3> QED  BY <1>6, <1>8, <3>2
  <2>2. Cardinality(Group) = 0  BY <2>1, FS_EmptySet, Zenon
  <2> QED  BY <1>3, <1>8, <2>2 DEF CountOf
<1> QED  BY <1>7, <1>8

CellRow(d, A, B, k) ==
  [cell |-> k, completed |-> CountOf(Grouped(d, B), k), total |-> CountOf(Grouped(d, A), k)]

\* mergeRows: a row for every cell that has an experience, with its two counts.
LEMMA MergedCells ==
  ASSUME NEW d \in [Experience -> Row], NEW A \in SUBSET Experience, NEW B \in SUBSET A, NEW c
  PROVE  c \in MergeRows(Grouped(d, A), Grouped(d, B))
           <=> \E e \in A : c = CellRow(d, A, B, Of(d, e))
<1> DEFINE both == Grouped(d, A) \cup Grouped(d, B)
<1>1. c \in MergeRows(Grouped(d, A), Grouped(d, B))
        <=> \E r \in both : c = CellRow(d, A, B, r.cell)
  BY Zenon DEF MergeRows, CellRow
<1>2. \A k : GroupRow(d, A, k).cell = k /\ GroupRow(d, B, k).cell = k  BY DEF GroupRow
<1>3. ASSUME NEW r \in both PROVE \E e \in A : r.cell = Of(d, e)
  <2>1. CASE r \in Grouped(d, A)
    <3>1. PICK e \in A : r = GroupRow(d, A, Of(d, e))  BY <2>1, GroupRows
    <3> QED  BY <1>2, <3>1
  <2>2. CASE r \in Grouped(d, B)
    <3>1. PICK e \in B : r = GroupRow(d, B, Of(d, e))  BY <2>2, GroupRows
    <3> QED  BY <1>2, <3>1
  <2> QED  BY <2>1, <2>2
<1>4. ASSUME NEW e \in A PROVE \E r \in both : r.cell = Of(d, e)
  <2>1. GroupRow(d, A, Of(d, e)) \in Grouped(d, A)  BY GroupRows
  <2> QED  BY <1>2, <2>1
<1> HIDE DEF both
<1> QED  BY <1>1, <1>3, <1>4

LEMMA CellCounts ==
  ASSUME NEW d \in [Experience -> Row], NEW A \in SUBSET Experience, NEW B \in SUBSET A,
         NEW k \in Cell
  PROVE  LET c == CellRow(d, A, B, k)
         IN  /\ c.cell = k
             /\ c.total = Cardinality(InCell(d, A, k)) /\ c.total \in Nat
             /\ c.completed = Cardinality(InCell(d, B, k)) /\ c.completed \in Nat
<1>1. B \in SUBSET Experience  OBVIOUS
<1>2. /\ CountOf(Grouped(d, A), k) = Cardinality(InCell(d, A, k))
      /\ CountOf(Grouped(d, A), k) \in Nat
  BY CountOfGroups
<1>3. /\ CountOf(Grouped(d, B), k) = Cardinality(InCell(d, B, k))
      /\ CountOf(Grouped(d, B), k) \in Nat
  BY <1>1, CountOfGroups
<1> QED  BY <1>2, <1>3 DEF CellRow

Within(cells, s) == {c \in cells : InSlice(c.cell, s)}
Inside(d, X, s) == {e \in X : InSlice(d[e], s)}

\* accumulateCell: the counts of the cells of a slice add up to those of the slice.
LEMMA SliceAddsUp ==
  ASSUME NEW d \in [Experience -> Row], NEW X \in SUBSET Experience, NEW s \in Slice,
         NEW cells, NEW count \in [Within(cells, s) -> Nat],
         \A e \in X : \E c \in cells : c.cell = Of(d, e),
         \A b, c \in cells : b.cell = c.cell => b = c,
         \A c \in Within(cells, s) :
           count[c] = Cardinality(InCell(d, X, c.cell))
  PROVE  Tally(count) = Cardinality(Inside(d, X, s))
<1> DEFINE in == Within(cells, s)
           of == Inside(d, X, s)
           kind == [e \in of |-> CHOOSE c \in in : c.cell = Of(d, e)]
<1>1. \A e \in X : InSlice(Of(d, e), s) <=> InSlice(d[e], s)
  BY DEF Of, InSlice
<1>2. \A e \in of : \E c \in in : c.cell = Of(d, e)
  BY <1>1 DEF Within, Inside
<1>3. \A e \in of : kind[e] \in in /\ kind[e].cell = Of(d, e)
  BY <1>2
<1>4. kind \in [of -> in]
  <2>1. kind = [e \in of |-> kind[e]]  OBVIOUS
  <2> HIDE DEF kind
  <2> QED  BY <1>3, <2>1
<1> HIDE DEF kind
<1>5. IsFiniteSet(of)
  <2>1. of \in SUBSET Experience /\ IsFiniteSet(Experience)  BY TrackingAssumption DEF Inside
  <2> QED  BY <2>1, FS_Subset, Zenon
<1>6. \A c \in in : Cardinality(OfKind(of, kind, c)) = count[c]
  <2> TAKE c \in in
  <2>1. ASSUME NEW e \in X PROVE (e \in of /\ kind[e] = c) <=> Of(d, e) = c.cell
    <3>1. ASSUME e \in of, kind[e] = c PROVE Of(d, e) = c.cell  BY <1>3, <3>1
    <3>2. ASSUME Of(d, e) = c.cell PROVE e \in of /\ kind[e] = c
      <4>1. e \in of  BY <1>1, <3>2 DEF Inside, Within
      <4>2. kind[e] \in cells /\ c \in cells /\ kind[e].cell = c.cell
        BY <1>3, <3>2, <4>1 DEF Within
      <4> QED  BY <4>1, <4>2
    <3> QED  BY <3>1, <3>2
  <2>2. OfKind(of, kind, c) = InCell(d, X, c.cell)  BY <2>1 DEF OfKind, InCell, Inside
  <2> QED  BY <2>2
<1>7. count \in [in -> Nat]  OBVIOUS
<1> HIDE DEF of, in
<1>8. Tally(count) = Cardinality(of)  BY <1>4, <1>5, <1>6, <1>7, TallyOfKinds
<1> QED  BY <1>8 DEF of

\* The rows of the two SELECTs, merged and summed over a slice, are what the
\* tables have in the slice.
LEMMA SlicesAreTrue ==
  ASSUME NEW d \in [Experience -> Row], NEW A \in SUBSET Experience, NEW B \in SUBSET A,
         NEW s \in Slice
  PROVE  BuildResponse(MergeRows(Grouped(d, A), Grouped(d, B)))[s]
           = Breakdown(Cardinality(Inside(d, B, s)),
                       Cardinality(Inside(d, A, s)))
<1> DEFINE cells == MergeRows(Grouped(d, A), Grouped(d, B))
           in == Within(cells, s)
           totals == [c \in in |-> c.total]
           dones == [c \in in |-> c.completed]
<1>1. BuildResponse(cells)[s] = Breakdown(Tally(dones), Tally(totals))
  BY Zenon DEF BuildResponse, Within
<1>2. \A c : c \in cells <=> \E e \in A : c = CellRow(d, A, B, Of(d, e))
  BY MergedCells
<1>3. \A e \in A : Of(d, e) \in Cell  BY DEF Of, Cell, Row
<1>4. \A k \in Cell :
        LET c == CellRow(d, A, B, k)
        IN  /\ c.cell = k
            /\ c.total = Cardinality(InCell(d, A, k)) /\ c.total \in Nat
            /\ c.completed = Cardinality(InCell(d, B, k)) /\ c.completed \in Nat
  BY CellCounts
<1> HIDE DEF cells
<1>5. \A c \in cells :
        /\ c = CellRow(d, A, B, c.cell) /\ c.cell \in Cell
        /\ c.total = Cardinality(InCell(d, A, c.cell)) /\ c.total \in Nat
        /\ c.completed = Cardinality(InCell(d, B, c.cell)) /\ c.completed \in Nat
  <2> TAKE c \in cells
  <2>1. PICK e \in A : c = CellRow(d, A, B, Of(d, e))  BY <1>2
  <2>2. PICK k \in Cell : k = Of(d, e)  BY <1>3
  <2>3. c = CellRow(d, A, B, k)  BY <2>1, <2>2
  <2>4. c.cell = k  BY <1>4, <2>3
  <2>5. c = CellRow(d, A, B, c.cell) /\ c.cell \in Cell  BY <2>3, <2>4
  <2> QED  BY <1>4, <2>5
<1>6. \A b, c \in cells : b.cell = c.cell => b = c  BY <1>5
<1>7. \A e \in A : \E c \in cells : c.cell = Of(d, e)  BY <1>2, <1>3, <1>4
<1>8. /\ totals \in [in -> Nat]
      /\ \A c \in in : totals[c] = Cardinality(InCell(d, A, c.cell))
  BY <1>5 DEF Within
<1>9. /\ dones \in [in -> Nat]
      /\ \A c \in in : dones[c] = Cardinality(InCell(d, B, c.cell))
  BY <1>5 DEF Within
<1> HIDE DEF totals, dones
<1>10. Tally(totals) = Cardinality(Inside(d, A, s))
  BY <1>6, <1>7, <1>8, SliceAddsUp
<1>11. Tally(dones) = Cardinality(Inside(d, B, s))
  <2>1. B \in SUBSET Experience /\ \A e \in B : \E c \in cells : c.cell = Of(d, e)  BY <1>7
  <2> QED  BY <1>6, <1>9, <2>1, SliceAddsUp
<1> QED  BY <1>1, <1>10, <1>11 DEF cells

\* computePercent: 100 means all, and half a per mille does not round up to it.
LEMMA PercentIsFair ==
  ASSUME NEW n \in Nat, NEW t \in Nat, n <= t, t < 2000
  PROVE  Percent(n, t) = 1000 <=> t > 0 /\ n = t
<1>1. CASE t = 0  BY <1>1 DEF Percent
<1>2. CASE t > 0
  <2> DEFINE q == (2000 * n + t) \div (2 * t)
  <2>1. /\ q \in Nat /\ (2 * t) * q <= 2000 * n + t /\ 2000 * n + t < (2 * t) * (q + 1)
    BY <1>2
  <2> HIDE DEF q
  <2>2. ASSUME n = t PROVE q >= 1000
    <3>1. ASSUME q <= 999 PROVE FALSE
      <4>1. (2 * t) * (q + 1) <= (2 * t) * 1000  BY <1>2, <2>1, <3>1
      <4> QED  BY <1>2, <2>1, <2>2, <4>1
    <3> QED  BY <2>1, <3>1
  <2>3. q < 1001
    <3>1. ASSUME q >= 1001 PROVE FALSE
      <4>1. (2 * t) * q >= (2 * t) * 1001  BY <1>2, <2>1, <3>1
      <4> QED  BY <1>2, <2>1, <4>1
    <3> QED  BY <2>1, <3>1
  <2>4. ASSUME n < t PROVE q < 1000
    <3>1. ASSUME q >= 1000 PROVE FALSE
      <4>1. (2 * t) * q >= (2 * t) * 1000  BY <1>2, <2>1, <3>1
      <4> QED  BY <1>2, <2>1, <2>4, <4>1
    <3> QED  BY <2>1, <3>1
  <2>5. Percent(n, t) = IF q > 1000 THEN 1000 ELSE q  BY <1>2 DEF Percent, q
  <2> QED  BY <1>2, <2>1, <2>2, <2>3, <2>4, <2>5
<1> QED  BY <1>1, <1>2

\* An answer that is right about the two tables in its hands.
Right(j) ==
  \A s \in DOMAIN j.answer :
    LET b == j.answer[s]
    IN  /\ [completed |-> b.completed, total |-> b.total] = TrueBreakdown(j.snapshot, s)
        /\ b.completed <= b.total
        /\ b.total < 2000 => (b.percent = 1000 <=> b.total > 0 /\ b.completed = b.total)

\* Rows that were counted in the snapshot they are carried with.
Counted(j) ==
  /\ j.snapshot.catalog \in [Experience -> Row]
  /\ j.snapshot.done \in SUBSET Experience
  /\ j.rows = Grouped(j.snapshot.catalog, Active(j.snapshot.catalog))

AnswerInv ==
  /\ catalog \in [Experience -> Row]
  /\ \A h \in Handler : pc[h] = "numerators" => Counted(job[h])
  /\ \A h \in Handler : pc[h] = "answered" => Right(job[h])

\* toBreakdown of the two counts of a slice.
LEMMA BreakdownIsRight ==
  ASSUME NEW d, d.catalog \in [Experience -> Row], d.done \in SUBSET Experience, NEW s,
         NEW of \in SUBSET Experience,
         of = {e \in Active(d.catalog) : InSlice(d.catalog[e], s)},
         NEW b, b = Breakdown(Cardinality(of \cap d.done), Cardinality(of))
  PROVE  /\ [completed |-> b.completed, total |-> b.total] = TrueBreakdown(d, s)
         /\ b.completed <= b.total
         /\ b.total < 2000 => (b.percent = 1000 <=> b.total > 0 /\ b.completed = b.total)
<1> DEFINE n == Cardinality(of \cap d.done)
           t == Cardinality(of)
<1>1. n \in Nat /\ t \in Nat /\ n <= t
  <2>1. IsFiniteSet(of)  BY TrackingAssumption, FS_Subset, Zenon
  <2>2. of \cap d.done \in SUBSET of  OBVIOUS
  <2>3. IsFiniteSet(of \cap d.done) /\ n <= t  BY <2>1, <2>2, FS_Subset, Zenon
  <2> QED  BY <2>1, <2>3, FS_CardinalityType, Zenon
<1>2. [completed |-> n, total |-> t] = TrueBreakdown(d, s)  BY Zenon DEF TrueBreakdown
<1> HIDE DEF n, t
<1>3. b.completed = n /\ b.total = t /\ b.percent = Percent(n, t)  BY DEF Breakdown, n, t
<1>4. t < 2000 => (Percent(n, t) = 1000 <=> t > 0 /\ n = t)  BY <1>1, PercentIsFair
<1> QED  BY <1>1, <1>2, <1>3, <1>4

LEMMA InitAnswers == Init => AnswerInv
  BY TrackingAssumption DEF Init, AnswerInv

\* One handler moves on; whatever else it writes, it does not write the catalog.
LEMMA MovesOn ==
  ASSUME Tables, AnswerInv, NEW h \in Handler, NEW stage, NEW carried,
         Goto(h, stage, carried), UNCHANGED catalog,
         stage = "numerators" => Counted(carried),
         stage = "answered" => Right(carried)
  PROVE  AnswerInv'
<1>1. /\ pc'[h] = stage /\ job'[h] = carried
      /\ \A g \in Handler \ {h} : pc'[g] = pc[g] /\ job'[g] = job[g]
  BY DEF Goto, Tables
<1>2. \A g \in Handler : pc'[g] = "numerators" => Counted(job'[g])
  BY <1>1 DEF AnswerInv
<1>3. \A g \in Handler : pc'[g] = "answered" => Right(job'[g])
  BY <1>1 DEF AnswerInv
<1> QED  BY <1>2, <1>3 DEF AnswerInv

LEMMA DenominatorsRight ==
  ASSUME Tables, AnswerInv, NEW h \in Handler, Denominators(h) PROVE AnswerInv'
<1> DEFINE j == [snapshot |-> Live, rows |-> Grouped(catalog, Active(catalog))]
<1>1. Goto(h, "numerators", j) /\ UNCHANGED catalog  BY DEF Denominators, tables
<1>2. Counted(j)  BY DEF Counted, Live, AnswerInv, Tables
<1> HIDE DEF j
<1> QED  BY <1>1, <1>2, MovesOn

LEMMA NumeratorsRight ==
  ASSUME Tables, AnswerInv, NEW h \in Handler, Numerators(h) PROVE AnswerInv'
<1> DEFINE d == job[h].snapshot
           A == Active(d.catalog)
           B == d.done \cap A
           answer == BuildResponse(MergeRows(Grouped(d.catalog, A), Grouped(d.catalog, B)))
           j == [snapshot |-> d, answer |-> answer]
<1>1. Counted(job[h])  BY DEF Numerators, AnswerInv
<1>2. Goto(h, "answered", j) /\ UNCHANGED catalog
  BY <1>1 DEF Numerators, Respond, Counted, tables
<1>3. DOMAIN answer = Slice  BY DEF BuildResponse
<1>4. ASSUME NEW s \in Slice
      PROVE  /\ [completed |-> answer[s].completed, total |-> answer[s].total]
                  = TrueBreakdown(d, s)
             /\ answer[s].completed <= answer[s].total
             /\ answer[s].total < 2000 =>
                  (answer[s].percent = 1000
                     <=> answer[s].total > 0 /\ answer[s].completed = answer[s].total)
  <2>1. d.catalog \in [Experience -> Row] /\ d.done \in SUBSET Experience
    BY <1>1 DEF Counted
  <2>2. A \in SUBSET Experience /\ B \in SUBSET A  BY DEF Active
  <2>3. PICK of : of = {e \in A : InSlice(d.catalog[e], s)}  OBVIOUS
  <2>4. of \in SUBSET Experience  BY <2>2, <2>3
  <2>5. answer[s] = Breakdown(Cardinality(Inside(d.catalog, B, s)),
                              Cardinality(Inside(d.catalog, A, s)))
    BY <2>1, <2>2, SlicesAreTrue
  <2>6. Inside(d.catalog, A, s) = of  BY <2>3 DEF Inside
  <2>7. Inside(d.catalog, B, s) = of \cap d.done  BY <2>3 DEF Inside
  <2>8. PICK b : b = answer[s]  OBVIOUS
  <2>9. b = Breakdown(Cardinality(of \cap d.done), Cardinality(of))
    BY <2>5, <2>6, <2>7, <2>8
  <2>10. of = {e \in Active(d.catalog) : InSlice(d.catalog[e], s)}  BY <2>3
  <2> HIDE DEF answer, A, B, d
  <2>11. /\ [completed |-> b.completed, total |-> b.total] = TrueBreakdown(d, s)
         /\ b.completed <= b.total
         /\ b.total < 2000 => (b.percent = 1000 <=> b.total > 0 /\ b.completed = b.total)
    BY <2>1, <2>4, <2>9, <2>10, BreakdownIsRight
  <2> QED  BY <2>8, <2>11
<1> HIDE DEF answer, d
<1>5. Right(j)
  <2>1. j.answer = answer /\ j.snapshot = d  OBVIOUS
  <2> HIDE DEF j
  <2> QED  BY <1>3, <1>4, <2>1 DEF Right
<1> HIDE DEF j
<1> QED  BY <1>2, <1>5, MovesOn

LEMMA OverallRight ==
  ASSUME Tables, AnswerInv, NEW h \in Handler, OverallPercent(h) PROVE AnswerInv'
<1> DEFINE A == Active(catalog)
           b == Breakdown(Cardinality(DOMAIN completions \cap A), Cardinality(A))
           answer == [s \in {Overall} |-> b]
           j == [snapshot |-> Live, answer |-> answer]
<1>1. Goto(h, "answered", j) /\ UNCHANGED catalog
  BY Zenon DEF OverallPercent, tables
<1>2. /\ Live.catalog = catalog /\ Live.done = DOMAIN completions
      /\ catalog \in [Experience -> Row] /\ DOMAIN completions \in SUBSET Experience
  BY DEF Live, AnswerInv, Tables
<1>3. A \in SUBSET Experience  BY DEF Active
<1>4. A = {e \in A : InSlice(catalog[e], Overall)}  BY DEF InSlice, Overall
<1>5. DOMAIN completions \cap A = A \cap DOMAIN completions  OBVIOUS
<1>6. PICK live : live = Live  OBVIOUS
<1>7. b = Breakdown(Cardinality(A \cap live.done), Cardinality(A))  BY <1>2, <1>5, <1>6
<1>8. A = {e \in Active(live.catalog) : InSlice(live.catalog[e], Overall)}
  BY <1>2, <1>4, <1>6
<1>9. PICK c : c = b  OBVIOUS
<1> HIDE DEF A, b
<1>10. /\ [completed |-> c.completed, total |-> c.total] = TrueBreakdown(live, Overall)
       /\ c.completed <= c.total
       /\ c.total < 2000 => (c.percent = 1000 <=> c.total > 0 /\ c.completed = c.total)
  BY <1>2, <1>3, <1>6, <1>7, <1>8, <1>9, BreakdownIsRight
<1>11. Right(j)
  <2>1. j.answer = [s \in {Overall} |-> c] /\ j.snapshot = live  BY <1>6, <1>9
  <2> HIDE DEF j
  <2> QED  BY <1>10, <2>1 DEF Right
<1> HIDE DEF j
<1> QED  BY <1>1, <1>11, MovesOn

\* A handler that does not answer with percentages.
OtherStep(h) ==
  \/ \E e \in Experience :
       \/ \E op \in {"mark", "edit"}, on \in Day, tz \in Zone : Arrive(h, op, e, on, tz)
       \/ ArriveUnmark(h, e)
  \/ Mark(h) \/ Edit(h) \/ Unmark(h)
  \/ ArriveOwn(h)
  \/ \E op \in {"stats", "profile"} : ArriveView(h, op)
  \/ Check(h) \/ LoadRow(h) \/ Answered(h)
  \/ \E key \in Object, mime \in Mime : ArriveAvatar(h, key, mime)
  \/ Upload(h) \/ SetAvatar(h)
  \/ Fail(h)

LEMMA OthersRight ==
  ASSUME Tables, AnswerInv, NEW h \in Handler, OtherStep(h) PROVE AnswerInv'
<1>1. UNCHANGED catalog
  BY Zenon DEF OtherStep, Arrive, ArriveUnmark, Mark, Edit, Unmark, ArriveOwn, ArriveView,
     Check, LoadRow, Answered, ArriveAvatar, Upload, SetAvatar, Fail, tables
<1>2. \E stage \in Stage \ {"numerators", "answered"} : \E j : Goto(h, stage, j)
  <2>1. \A e, on, tz : \A op \in {"mark", "edit"} :
          Arrive(h, op, e, on, tz) => Goto(h, op, [exp |-> e, on |-> on, tz |-> tz])
    BY DEF Arrive
  <2>2. \A e : ArriveUnmark(h, e) => Goto(h, "unmark", [exp |-> e])  BY DEF ArriveUnmark
  <2>3. Mark(h) \/ Edit(h) \/ Unmark(h) \/ Answered(h) \/ Fail(h) => Goto(h, "idle", NoJob)
    BY DEF Mark, Edit, Unmark, Answered, Fail, Answer
  <2>4. ArriveOwn(h) => Goto(h, "denominators", NoJob)  BY DEF ArriveOwn
  <2>5. \A op : ArriveView(h, op) => Goto(h, "check", [op |-> op])  BY DEF ArriveView
  <2>6. Check(h) => \/ Goto(h, "idle", NoJob)
                    \/ Goto(h, "denominators", NoJob) \/ Goto(h, "row", NoJob)
    BY DEF Check, Answer
  <2>7. LoadRow(h) \/ SetAvatar(h) => Goto(h, "percent", NoJob)  BY DEF LoadRow, SetAvatar
  <2>8. \A key, mime : ArriveAvatar(h, key, mime)
                         => Goto(h, "upload", [key |-> key, mime |-> mime])
    BY DEF ArriveAvatar
  <2>9. Upload(h) => Goto(h, "avatar", job[h])  BY DEF Upload
  <2>10. {"idle", "mark", "edit", "unmark", "upload", "avatar", "check", "denominators",
          "row", "percent"} \subseteq Stage \ {"numerators", "answered"}
    BY DEF Stage
  <2>11. \E stage \in {"idle", "mark", "edit", "unmark", "upload", "avatar", "check",
                       "denominators", "row", "percent"} : \E j : Goto(h, stage, j)
    BY <2>1, <2>2, <2>3, <2>4, <2>5, <2>6, <2>7, <2>8, <2>9 DEF OtherStep
  <2> QED  BY <2>10, <2>11
<1>3. PICK stage \in Stage \ {"numerators", "answered"} : \E j : Goto(h, stage, j)  BY <1>2
<1>4. PICK j : Goto(h, stage, j)  BY <1>3
<1> QED  BY <1>1, <1>4, MovesOn

LEMMA StepAnswers == ASSUME Tables, AnswerInv, [Next]_vars PROVE AnswerInv'
<1>1. ASSUME NEW h \in Handler, Denominators(h) \/ Numerators(h) \/ OverallPercent(h)
      PROVE  AnswerInv'
  BY <1>1, DenominatorsRight, NumeratorsRight, OverallRight
<1>2. ASSUME NEW h \in Handler, OtherStep(h) PROVE AnswerInv'  BY <1>2, OthersRight
<1>3. CASE Sync
  <2>1. catalog' \in Catalog /\ UNCHANGED <<pc, job>>  BY <1>3 DEF Sync
  <2> QED  BY <2>1, TrackingAssumption DEF AnswerInv
<1>4. CASE Befriend \/ Tick \/ UNCHANGED vars
  <2>1. UNCHANGED <<catalog, pc, job>>  BY <1>4 DEF Befriend, Tick, vars, tables
  <2> QED  BY <2>1 DEF AnswerInv
<1> QED  BY <1>1, <1>2, <1>3, <1>4, Zenon DEF Next, OtherStep

\* stats/repo.ts and profileRoutes.ts: every slice that is answered, for any
\* catalog, syncs and completions between the two SELECTs, has the counts of one
\* instant, and says 100 of what is all done and of nothing else.
THEOREM AnswersAreOfOneInstant == Spec => []StatsOfOneInstant
<1>1. IInv => Tables  BY DEF IInv
<1>2. AnswerInv => StatsOfOneInstant  BY Zenon DEF AnswerInv, Right, StatsOfOneInstant
<1>3. Tables /\ AnswerInv /\ [Next]_vars => AnswerInv'  BY StepAnswers
<1> QED  BY <1>1, <1>2, <1>3, InitInv, StepInv, InitAnswers, PTL DEF Spec
==============================================================================
