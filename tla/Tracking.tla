------------------------------- MODULE Tracking -------------------------------
(***************************************************************************)
(* What one owner tracks, and who reads it: completions                    *)
(* (tracking/completion), the percentages computed from them (stats) and   *)
(* the profile with its avatar (auth/profileRoutes.ts), beside the         *)
(* catalog sync that moves, drops and revives experiences.                 *)
(*                                                                         *)
(* A handler validates, then runs its statements one by one; every await   *)
(* lets the others in.  Stats reads two tables in a REPEATABLE READ        *)
(* transaction, whose snapshot is that of its first SELECT.                *)
(***************************************************************************)
EXTENDS Integers, FiniteSets

CONSTANTS
  Experience, Park, Category,
  Catalog,          \* what the syncs may make of the table experiences
  Zone, Offset,     \* time zones, in ticks ahead of the westernmost
  DAY,              \* ticks of a day
  Handler,          \* requests under way at once
  Object, Mime,     \* keys of the bucket, types of image
  All, NoObject,
  MaxTime           \* bound: ticks

Cell == [park : Park, category : Category]
Row == [park : Park, category : Category, active : BOOLEAN]

ASSUME TrackingAssumption ==
  /\ IsFiniteSet(Experience)
  /\ Catalog \subseteq [Experience -> Row]
  /\ Offset \in [Zone -> Nat]
  /\ DAY \in Nat \ {0}
  /\ NoObject \notin Object
  /\ All \notin Park \cup Category
  /\ MaxTime \in Nat

VARIABLES
  now,          \* ticks since midnight in the westernmost zone
  catalog,      \* table experiences
  completions,  \* table completions of the owner, a partial function
  friends,      \* whether the viewer is a friend of the owner
  profile,      \* row of profiles: avatar_url and avatar_mime
  bucket,       \* objects of the bucket and their types, a partial function
  pc, job,      \* of each handler: its next statement, and what it carries
  balance       \* history: 201 answers to PUT less 204 answers to DELETE

tables == <<catalog, completions, friends, profile, bucket, balance>>
vars == <<now, tables, pc, job>>

------------------------------------------------------------------------------
(* Dates.                                                                  *)

\* formatYmdInTimeZone: the day it is at time t in the zone.
Today(t, zone) == (t + Offset[zone]) \div DAY

Day == 0 .. MaxTime + DAY

------------------------------------------------------------------------------
(* Counting.                                                               *)

\* A row of SELECT park, category, COUNT( * ) ... GROUP BY park, category.
Grouped(d, exps) ==
  {[cell |-> c, n |-> Cardinality({e \in exps : d[e].park = c.park
                                             /\ d[e].category = c.category})] :
     c \in {[park |-> d[e].park, category |-> d[e].category] : e \in exps}}

Active(d) == {e \in Experience : d[e].active}

\* The count of a cell, and 0 for one that has no row.
CountOf(rows, c) ==
  IF \E r \in rows : r.cell = c THEN (CHOOSE r \in rows : r.cell = c).n ELSE 0

\* mergeRows: the cells of either result.
MergeRows(denominators, numerators) ==
  {[cell |-> c, completed |-> CountOf(numerators, c), total |-> CountOf(denominators, c)] :
     c \in {r.cell : r \in denominators \cup numerators}}

\* computePercent in tenths of a percent: half away from zero, at most 100.
Percent(n, d) ==
  IF d = 0 THEN 0
  ELSE LET round1 == (2000 * n + d) \div (2 * d)
       IN  IF round1 > 1000 THEN 1000 ELSE round1

\* overall, byPark, byCategory and byParkAndCategory of StatsResponse.
Slice == [park : Park \cup {All}, category : Category \cup {All}]
Overall == [park |-> All, category |-> All]
InSlice(c, s) == s.park \in {All, c.park} /\ s.category \in {All, c.category}

Breakdown(completed, total) ==
  [completed |-> completed, total |-> total, percent |-> Percent(completed, total)]

\* The sum of the counts, as the number of the things they count.
Tally(count) == Cardinality(UNION {{c} \X (1 .. count[c]) : c \in DOMAIN count})

\* buildResponse: accumulateCell over the cells, toBreakdown once a slice.
BuildResponse(cells) ==
  [s \in Slice |->
     LET of == {c \in cells : InSlice(c.cell, s)}
     IN  Breakdown(Tally([c \in of |-> c.completed]), Tally([c \in of |-> c.total]))]

------------------------------------------------------------------------------
NoJob == [op |-> "none"]
Completion == [on : Day, tz : Zone]
Snapshot == [catalog : Catalog, done : SUBSET Experience]
Count == [cell : Cell, n : Nat]
Bucket == [completed : Nat, total : Nat, percent : Nat]

JobOf(stage) ==
  CASE stage = "idle" -> {NoJob}
    [] stage \in {"mark", "edit"} -> [exp : Experience, on : Day, tz : Zone]
    [] stage = "unmark" -> [exp : Experience]
    [] stage = "upload" -> [key : Object, mime : Mime]
    [] stage = "avatar" -> [key : Object, mime : Mime]
    [] stage = "check" -> [op : {"stats", "profile"}]
    [] stage \in {"denominators", "row", "percent"} -> {NoJob}
    [] stage = "numerators" -> [snapshot : Snapshot, rows : SUBSET Count]
    [] OTHER -> [snapshot : Snapshot, answer : [Slice -> Bucket] \cup [{Overall} -> Bucket]]

Stage == {"idle", "mark", "edit", "unmark", "upload", "avatar", "check",
          "denominators", "numerators", "row", "percent", "answered"}

TypeOK ==
  /\ now \in 0 .. MaxTime
  /\ catalog \in Catalog
  /\ completions \in UNION {[S -> Completion] : S \in SUBSET Experience}
  /\ friends \in BOOLEAN
  /\ profile \in [url : Object \cup {NoObject}, mime : Mime \cup {NoObject}]
  /\ bucket \in UNION {[S -> Mime] : S \in SUBSET Object}
  /\ pc \in [Handler -> Stage]
  /\ \A h \in Handler : job[h] \in JobOf(pc[h])
  /\ balance \in [Experience -> Int]

Init ==
  /\ now = 0
  /\ catalog \in Catalog
  /\ completions = [e \in {} |-> {}]
  /\ friends \in BOOLEAN
  /\ profile = [url |-> NoObject, mime |-> NoObject]
  /\ bucket = [o \in {} |-> {}]
  /\ pc = [h \in Handler |-> "idle"]
  /\ job = [h \in Handler |-> NoJob]
  /\ balance = [e \in Experience |-> 0]

Goto(h, stage, carried) ==
  /\ pc' = [pc EXCEPT ![h] = stage]
  /\ job' = [job EXCEPT ![h] = carried]

Answer(h) == Goto(h, "idle", NoJob)

------------------------------------------------------------------------------
(* Completions.                                                            *)

\* Mutant: it may be that day already wherever the server is.
ArriveEarly(h, op, e, on, tz) ==
  /\ pc[h] = "idle"
  /\ \E zone \in Zone : on <= Today(now, zone)
  /\ Goto(h, op, [exp |-> e, on |-> on, tz |-> tz])
  /\ UNCHANGED <<now, tables>>

\* PUT and PATCH get past validateNotFutureDate.
Arrive(h, op, e, on, tz) ==
  /\ pc[h] = "idle"
  /\ on <= Today(now, tz)
  /\ Goto(h, op, [exp |-> e, on |-> on, tz |-> tz])
  /\ UNCHANGED <<now, tables>>

ArriveUnmark(h, e) ==
  /\ pc[h] = "idle"
  /\ Goto(h, "unmark", [exp |-> e])
  /\ UNCHANGED <<now, tables>>

With(e, row) == [x \in DOMAIN completions \cup {e} |->
                   IF x = e THEN row ELSE completions[x]]

\* Mutant: the INSERT has ON CONFLICT DO UPDATE.
MarkOver(h) ==
  /\ pc[h] = "mark"
  /\ LET j == job[h]
     IN  /\ completions' = With(j.exp, [on |-> j.on, tz |-> j.tz])
         /\ balance' = [balance EXCEPT ![j.exp] = @ + 1]
  /\ Answer(h)
  /\ UNCHANGED <<now, catalog, friends, profile, bucket>>

\* mark: a plain INSERT, and the key decides who is first.
Mark(h) ==
  /\ pc[h] = "mark"
  /\ LET j == job[h]
     IN  IF j.exp \in DOMAIN completions
         THEN UNCHANGED <<completions, balance>>          \* validation_failed
         ELSE /\ completions' = With(j.exp, [on |-> j.on, tz |-> j.tz])
              /\ balance' = [balance EXCEPT ![j.exp] = @ + 1]
  /\ Answer(h)
  /\ UNCHANGED <<now, catalog, friends, profile, bucket>>

\* edit: an UPDATE, of the row that is there by then.
Edit(h) ==
  /\ pc[h] = "edit"
  /\ LET j == job[h]
     IN  completions' = IF j.exp \in DOMAIN completions
                        THEN With(j.exp, [on |-> j.on, tz |-> j.tz])
                        ELSE completions                  \* completion_not_found
  /\ Answer(h)
  /\ UNCHANGED <<now, catalog, friends, profile, bucket, balance>>

\* unmark: a DELETE, and completion_not_found when it found nothing.
Unmark(h) ==
  /\ pc[h] = "unmark"
  /\ LET e == job[h].exp
     IN  IF e \in DOMAIN completions
         THEN /\ completions' = [x \in DOMAIN completions \ {e} |-> completions[x]]
              /\ balance' = [balance EXCEPT ![e] = @ - 1]
         ELSE UNCHANGED <<completions, balance>>
  /\ Answer(h)
  /\ UNCHANGED <<now, catalog, friends, profile, bucket>>

------------------------------------------------------------------------------
(* Stats and the profile.                                                  *)

\* GET /me/stats.
ArriveOwn(h) ==
  /\ pc[h] = "idle"
  /\ Goto(h, "denominators", NoJob)
  /\ UNCHANGED <<now, tables>>

\* GET /me/stats/summary and GET /users/:userId/profile of a viewer.
ArriveView(h, op) ==
  /\ pc[h] = "idle"
  /\ Goto(h, "check", [op |-> op])
  /\ UNCHANGED <<now, tables>>

\* assertOwnerOrFriend, once, before anything is read.
Check(h) ==
  /\ pc[h] = "check"
  /\ IF ~friends THEN Answer(h)                           \* profile_forbidden
     ELSE Goto(h, IF job[h].op = "stats" THEN "denominators" ELSE "row", NoJob)
  /\ UNCHANGED <<now, tables>>

Live == [catalog |-> catalog, done |-> DOMAIN completions]

\* The first SELECT of the transaction takes its snapshot.
Denominators(h) ==
  /\ pc[h] = "denominators"
  /\ Goto(h, "numerators", [snapshot |-> Live, rows |-> Grouped(catalog, Active(catalog))])
  /\ UNCHANGED <<now, tables>>

Respond(h, seen) ==
  Goto(h, "answered",
       [snapshot |-> job[h].snapshot,
        answer |-> BuildResponse(MergeRows(job[h].rows,
                     Grouped(seen.catalog, seen.done \cap Active(seen.catalog))))])

\* Mutant: READ COMMITTED, every statement has a snapshot of its own.
NumeratorsLive(h) ==
  /\ pc[h] = "numerators"
  /\ Respond(h, Live)
  /\ UNCHANGED <<now, tables>>

\* The second one reads the same snapshot; mergeRows and buildResponse follow.
Numerators(h) ==
  /\ pc[h] = "numerators"
  /\ Respond(h, job[h].snapshot)
  /\ UNCHANGED <<now, tables>>

\* loadProfileRow.
LoadRow(h) ==
  /\ pc[h] = "row"
  /\ Goto(h, "percent", NoJob)
  /\ UNCHANGED <<now, tables>>

\* getOverallCompletionPercent: both counts in one statement.
OverallPercent(h) ==
  /\ pc[h] = "percent"
  /\ LET total == Active(catalog)
     IN  Goto(h, "answered",
              [snapshot |-> Live,
               answer |-> [s \in {Overall} |->
                 Breakdown(Cardinality(DOMAIN completions \cap total), Cardinality(total))]])
  /\ UNCHANGED <<now, tables>>

Answered(h) ==
  /\ pc[h] = "answered"
  /\ Answer(h)
  /\ UNCHANGED <<now, tables>>

------------------------------------------------------------------------------
(* The avatar.                                                             *)

\* The body is sniffed, and the key is new: randomUUID.
ArriveAvatar(h, key, mime) ==
  /\ pc[h] = "idle"
  /\ key \notin DOMAIN bucket
  /\ \A g \in Handler : pc[g] = "upload" => job[g].key # key
  /\ Goto(h, "upload", [key |-> key, mime |-> mime])
  /\ UNCHANGED <<now, tables>>

Store(key, mime) == [o \in DOMAIN bucket \cup {key} |->
                       IF o = key THEN mime ELSE bucket[o]]

\* Mutant: the row is updated before the object is put.
UploadLast(h) ==
  /\ pc[h] = "upload"
  /\ profile' = [url |-> job[h].key, mime |-> job[h].mime]
  /\ Goto(h, "avatar", job[h])
  /\ UNCHANGED <<now, catalog, completions, friends, bucket, balance>>

\* uploadAvatar: PutObject.
Upload(h) ==
  /\ pc[h] = "upload"
  /\ bucket' = Store(job[h].key, job[h].mime)
  /\ Goto(h, "avatar", job[h])
  /\ UNCHANGED <<now, catalog, completions, friends, profile, balance>>

\* The UPDATE of the row, then the percentage to answer with.
SetAvatar(h) ==
  /\ pc[h] = "avatar"
  /\ profile' = [url |-> job[h].key, mime |-> job[h].mime]
  /\ Goto(h, "percent", NoJob)
  /\ UNCHANGED <<now, catalog, completions, friends, bucket, balance>>

------------------------------------------------------------------------------
(* The rest of the system.                                                 *)

\* A statement fails, or the process stops: what is committed stays.
Fail(h) ==
  /\ pc[h] # "idle"
  /\ Answer(h)
  /\ UNCHANGED <<now, tables>>

\* A catalog sync commits: one transaction, any of the rows.
Sync ==
  /\ catalog' \in Catalog
  /\ UNCHANGED <<now, completions, friends, profile, bucket, pc, job, balance>>

\* An accept, or a removal.
Befriend ==
  /\ friends' = ~friends
  /\ UNCHANGED <<now, catalog, completions, profile, bucket, pc, job, balance>>

Tick ==
  /\ now < MaxTime
  /\ now' = now + 1
  /\ UNCHANGED <<tables, pc, job>>

Next ==
  \/ \E h \in Handler :
       \/ \E e \in Experience :
            \/ \E op \in {"mark", "edit"}, on \in Day, tz \in Zone : Arrive(h, op, e, on, tz)
            \/ ArriveUnmark(h, e)
       \/ Mark(h) \/ Edit(h) \/ Unmark(h)
       \/ ArriveOwn(h)
       \/ \E op \in {"stats", "profile"} : ArriveView(h, op)
       \/ Check(h) \/ Denominators(h) \/ Numerators(h)
       \/ LoadRow(h) \/ OverallPercent(h) \/ Answered(h)
       \/ \E key \in Object, mime \in Mime : ArriveAvatar(h, key, mime)
       \/ Upload(h) \/ SetAvatar(h)
       \/ Fail(h)
  \/ Sync \/ Befriend \/ Tick

Spec == Init /\ [][Next]_vars

------------------------------------------------------------------------------
(* Properties.                                                             *)

\* R2, Property 7: of the PUTs and the DELETEs that meet on one experience,
\* PUTs are answered 201 once for every time the completion came into being,
\* and DELETEs 204 once for every time it ceased to be: whoever overlaps whom,
\* and whatever dates are edited meanwhile.
AnswersAddUp ==
  \A e \in Experience : balance[e] = IF e \in DOMAIN completions THEN 1 ELSE 0

\* R2.6: no completion is dated later than today where its user was, although
\* the date is checked before the statement and zones differ from edit to edit.
NoneInTheFuture ==
  \A e \in DOMAIN completions : completions[e].on <= Today(now, completions[e].tz)

\* The counts a slice has when both tables are d.
TrueBreakdown(d, s) ==
  LET of == {e \in Active(d.catalog) : InSlice(d.catalog[e], s)}
  IN  [completed |-> Cardinality(of \cap d.done), total |-> Cardinality(of)]

\* R3: every slice of an answer is that of one instant of the database, whatever
\* the catalog and the owner do between the two SELECTs; the cap at 100 hides
\* nothing, and below the 2000 experiences where half a per mille rounds up, 100
\* is said of a slice exactly when all of it is done.
StatsOfOneInstant ==
  \A h \in Handler : pc[h] = "answered" =>
    \A s \in DOMAIN job[h].answer :
      LET b == job[h].answer[s]
      IN  /\ [completed |-> b.completed, total |-> b.total]
               = TrueBreakdown(job[h].snapshot, s)
          /\ b.completed <= b.total
          /\ b.total < 2000 => (b.percent = 1000 <=> b.total > 0 /\ b.completed = b.total)

\* R6, Property 18: the profile refers to an object that is in the bucket and is
\* of the type it says, however uploads overlap and wherever one stops.
AvatarIsStored ==
  profile.url # NoObject =>
    profile.url \in DOMAIN bucket /\ bucket[profile.url] = profile.mime
==============================================================================
