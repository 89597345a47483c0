---------------------------- MODULE Catalog_proofs ----------------------------
(***************************************************************************)
(* What TLAPS proves of the catalog.                                       *)
(*                                                                         *)
(* Of CatalogSync, for any experiences, any versions of upstream's data    *)
(* and any number of requests: the key keeps syncs apart as long as none   *)
(* outlives it, an undisturbed sync makes the catalog what it fetched, and *)
(* the whole implements CatalogFeed.                                       *)
(*                                                                         *)
(* Of Browse, for any items, rows and texts: the escaped pattern finds a   *)
(* text where it stands, the rows that a route answers are what is asked   *)
(* for and in order, and so is the list on the screen.                     *)
(*                                                                         *)
(* Of UpstreamSet, for any answers of upstream: a walk finds of every      *)
(* entity the nearest ancestor that gives a park; and of CatalogContent,   *)
(* that every row is filed so.                                             *)
(***************************************************************************)
EXTENDS CatalogContent, Browse, TLAPS, WellFoundedInduction, FiniteSetTheorems, SequenceTheorems

\* A run that has not lost its key owns it.
KeyInv == \A c \in Caller :
  /\ Running(c) /\ ~sync[c].expired => lock = c
  /\ sync[c].expired => overlapped

\* A diff retires or lists what the release it came from says, and is the diff
\* to the rows of now unless another was applied.
Fits(c) == sync[c].stage = "applying" =>
  /\ \A e \in sync[c].upserts : releases[sync[c].fetched][e] # Absent
  /\ ~sync[c].overtaken =>
       /\ sync[c].upserts = Upserts(releases[sync[c].fetched])
       /\ sync[c].softDeletes = SoftDeletes(releases[sync[c].fetched])

DiffInv == \A c \in Caller : Fits(c)

\* Success is recorded after something was published.
StampInv ==
  /\ stamp # "never" => published > 0
  /\ \A c \in Caller : sync[c].stage = "recording" => published > 0

\* Before the first overlap: what is in the table is the release applied last,
\* and a running sync has fetched no older one and was not overtaken.
OrderInv == ~overlapped =>
  /\ published = 0 => Catalog = [e \in Experience |-> Absent]
  /\ published > 0 => Catalog = releases[published]
  /\ \A c \in Caller :
       /\ sync[c].stage \in {"comparing", "applying"} => published <= sync[c].fetched
       /\ sync[c].stage = "applying" => ~sync[c].overtaken

IInv == TypeOK /\ KeyInv /\ DiffInv /\ StampInv /\ OrderInv

------------------------------------------------------------------------------
(* Types.                                                                  *)

ReadsTyped ==
  /\ read \in [Caller -> Reading]
  /\ \A c \in Caller : read[c].stage = "waiting" => read[c].age # "fresh"

RunsTyped ==
  /\ sync \in [Caller -> Run]
  /\ \A c \in Caller : sync[c].stage \in {"comparing", "applying"} =>
       sync[c].fetched \in 1..Len(releases)

RestTyped ==
  /\ releases \in Seq(Content) /\ releases # <<>>
  /\ rows \in [Experience -> Row]
  /\ \A e \in Experience : rows[e].detail = Absent => ~rows[e].active
  /\ stamp \in Age
  /\ lock \in Caller \cup {NoCaller}
  /\ published \in 0..Len(releases)
  /\ overlapped \in BOOLEAN

LEMMA TypeParts == TypeOK <=> ReadsTyped /\ RunsTyped /\ RestTyped
  BY DEF TypeOK, ReadsTyped, RunsTyped, RestTyped

LEMMA NoReadingTyped == NoReading \in Reading /\ NoReading.stage = "idle"
  BY DEF NoReading, Reading, Age

LEMMA ListingTyped ==
  ASSUME NEW stale \in BOOLEAN
  PROVE  Listing(stale) \in Reading /\ Listing(stale).stage = "listing"
  BY DEF Listing, NoReading, Reading, Age

LEMMA NoRunTyped == NoRun \in Run /\ NoRun.stage = "idle"
  BY DEF NoRun, Run

LEMMA ReadReplaced ==
  ASSUME NEW c \in Caller, NEW r \in Reading, ReadsTyped,
         r.stage = "waiting" => r.age # "fresh",
         read' = [read EXCEPT ![c] = r]
  PROVE  ReadsTyped'
  BY DEF ReadsTyped

LEMMA RunReplaced ==
  ASSUME NEW c \in Caller, NEW r \in Run, RunsTyped,
         r.stage \in {"comparing", "applying"} => r.fetched \in 1..Len(releases),
         sync' = [sync EXCEPT ![c] = r],
         releases' = releases
  PROVE  RunsTyped'
  BY DEF RunsTyped

\* However a sync answers, the request is well typed.
LEMMA WithoutSyncTyped ==
  ASSUME NEW c \in Caller, ReadsTyped, WithoutSync(c)
  PROVE  ReadsTyped'
<1>1. CASE read' = [read EXCEPT ![c] = NoReading]
  BY <1>1, NoReadingTyped, ReadReplaced
<1>2. CASE read' = [read EXCEPT ![c] = Listing(TRUE)]
  BY <1>2, ListingTyped, ReadReplaced
<1>3. QED
  BY <1>1, <1>2 DEF WithoutSync

LEMMA SettleTyped ==
  ASSUME NEW c \in Caller, NEW ok \in BOOLEAN, ReadsTyped, Settle(c, ok)
  PROVE  ReadsTyped'
<1>1. UNCHANGED read \/ read' = [read EXCEPT ![c] = Listing(FALSE)] \/ WithoutSync(c)
  BY DEF Settle
<1>2. CASE UNCHANGED read
  BY <1>2 DEF ReadsTyped
<1>3. CASE read' = [read EXCEPT ![c] = Listing(FALSE)]
  BY <1>3, ListingTyped, ReadReplaced
<1>4. QED
  BY <1>1, <1>2, <1>3, WithoutSyncTyped

\* The stage of one run changes to one in which what it fetched is of no use.
LEMMA GotoTyped ==
  ASSUME NEW c \in Caller, NEW stage \in {"idle", "locking", "fetching", "failing", "releasing"},
         RunsTyped, Goto(c, stage), releases' = releases
  PROVE  RunsTyped'
<1> DEFINE r == [sync[c] EXCEPT !.stage = stage]
<1>1. r \in Run /\ r.stage = stage
  BY DEF RunsTyped, Run, Holding
<1>2. sync' = [sync EXCEPT ![c] = r]
  BY DEF Goto
<1> HIDE DEF r
<1>3. QED
  BY <1>1, <1>2, RunReplaced

LEMMA EndOfTyped ==
  ASSUME NEW c \in Caller, NEW stage \in {"recording", "failing"}, RunsTyped
  PROVE  EndOf(c, stage) \in Run /\ EndOf(c, stage).stage = stage
  BY DEF RunsTyped, EndOf, NoRun, Run, Holding

\* A diff that retires or lists what its release says leaves a typed table.
LEMMA ReconciledTyped ==
  ASSUME NEW c \in Caller, TypeOK, DiffInv, sync[c].stage = "applying"
  PROVE  /\ Reconciled(c) \in [Experience -> Row]
         /\ \A e \in Experience : Reconciled(c)[e].detail = Absent => ~Reconciled(c)[e].active
<1> DEFINE content == releases[sync[c].fetched]
<1>1. content \in [Experience -> Detail \cup {Absent}]
  BY CatalogAssumption DEF TypeOK
<1>2. \A e \in sync[c].upserts : content[e] # Absent
  BY DEF DiffInv, Fits
<1>3. \A e \in Experience : rows[e] \in Row /\ (rows[e].detail = Absent => ~rows[e].active)
  BY DEF TypeOK
<1>4. ASSUME NEW e \in Experience
      PROVE  /\ Reconciled(c)[e] \in Row
             /\ Reconciled(c)[e].detail = Absent => ~Reconciled(c)[e].active
  BY <1>1, <1>2, <1>3 DEF Reconciled, Row
<1>5. QED
  BY <1>4 DEF Reconciled

LEMMA TypeInit == Init => TypeOK
<1> SUFFICES ASSUME Init PROVE ReadsTyped /\ RunsTyped /\ RestTyped
  BY TypeParts
<1>1. ReadsTyped /\ RunsTyped
  BY NoReadingTyped, NoRunTyped DEF Init, ReadsTyped, RunsTyped
<1>2. PICK content \in Content : releases = <<content>>
  BY DEF Init
<1>3. NoRow \in Row /\ NoRow.active = FALSE
  BY DEF NoRow, Row
<1>4. releases \in Seq(Content) /\ releases # <<>> /\ 0 \in 0..Len(releases)
  BY <1>2
<1>5. rows \in [Experience -> Row] /\ \A e \in Experience : ~rows[e].active
  BY <1>3 DEF Init
<1>6. RestTyped
  BY <1>4, <1>5 DEF Init, RestTyped, Age
<1>7. QED
  BY <1>1, <1>6

LEMMA TypeStep == IInv /\ [Next]_vars => TypeOK'
<1> SUFFICES ASSUME IInv, [Next]_vars PROVE ReadsTyped' /\ RunsTyped' /\ RestTyped'
  BY TypeParts, TypeParts' DEF TypeOK, ReadsTyped, RunsTyped, RestTyped
<1>1. TypeOK /\ ReadsTyped /\ RunsTyped /\ RestTyped
  BY TypeParts DEF IInv
<1>2. CASE UNCHANGED vars
  BY <1>1, <1>2 DEF vars, ReadsTyped, RunsTyped, RestTyped
<1>3. ASSUME NEW c \in Caller, ReadAge(c) PROVE ReadsTyped' /\ RunsTyped' /\ RestTyped'
  <2>1. RestTyped'
    BY <1>1, <1>3 DEF ReadAge, RestTyped
  <2>2. CASE stamp = "fresh"
    <3>1. ReadsTyped'
      BY <1>1, <1>3, <2>2, ListingTyped, ReadReplaced DEF ReadAge
    <3>2. QED
      BY <1>1, <1>3, <2>1, <2>2, <3>1 DEF ReadAge, RunsTyped
  <2>3. CASE stamp # "fresh"
    <3> DEFINE r == [NoReading EXCEPT !.stage = "waiting", !.age = stamp]
    <3>1. r \in Reading /\ r.age # "fresh"
      BY <1>1, <2>3 DEF NoReading, Reading, RestTyped
    <3>2. read' = [read EXCEPT ![c] = r] /\ Goto(c, "locking") /\ releases' = releases
      BY <1>3, <2>3 DEF ReadAge, Goto
    <3> HIDE DEF r
    <3>3. ReadsTyped' /\ RunsTyped'
      BY <1>1, <3>1, <3>2, ReadReplaced, GotoTyped
    <3>4. QED
      BY <2>1, <3>3
  <2>4. QED
    BY <2>2, <2>3
<1>19. ASSUME NEW c \in Caller, RunJob(c) PROVE ReadsTyped' /\ RunsTyped' /\ RestTyped'
  BY <1>1, <1>19, GotoTyped DEF RunJob, ReadsTyped, RestTyped
<1>4. ASSUME NEW c \in Caller, Deadline(c) PROVE ReadsTyped' /\ RunsTyped' /\ RestTyped'
  BY <1>1, <1>4, WithoutSyncTyped DEF Deadline, RunsTyped, RestTyped
<1>5. ASSUME NEW c \in Caller, List(c) PROVE ReadsTyped' /\ RunsTyped' /\ RestTyped'
  <2>1. ReadsTyped'
    BY <1>1, <1>5, NoReadingTyped, ReadReplaced DEF List
  <2>2. QED
    BY <1>1, <1>5, <2>1 DEF List, RunsTyped, RestTyped
<1>6. ASSUME NEW c \in Caller, Acquire(c) PROVE ReadsTyped' /\ RunsTyped' /\ RestTyped'
  <2>1. RestTyped'
    BY <1>1, <1>6 DEF Acquire, RestTyped
  <2>2. Goto(c, "idle") \/ Goto(c, "fetching")
    BY <1>6 DEF Acquire
  <2>3. UNCHANGED read \/ \E ok \in BOOLEAN : Settle(c, ok)
    BY <1>6 DEF Acquire
  <2>4. RunsTyped'
    BY <2>2, <1>1, <1>6, GotoTyped DEF Acquire
  <2>5. ReadsTyped'
    BY <2>3, <1>1, SettleTyped DEF ReadsTyped
  <2>6. QED
    BY <2>1, <2>4, <2>5
<1>7. ASSUME NEW c \in Caller, Fetch(c) PROVE ReadsTyped' /\ RunsTyped' /\ RestTyped'
  <2> DEFINE r == [sync[c] EXCEPT !.stage = "comparing", !.fetched = Len(releases)]
  <2>1. Len(releases) \in Nat /\ Len(releases) \in 1..Len(releases)
    BY <1>1 DEF RestTyped
  <2>2. r \in Run /\ r.fetched = Len(releases)
    BY <2>1, <1>1 DEF RunsTyped, Run, Holding
  <2>3. sync' = [sync EXCEPT ![c] = r] /\ releases' = releases
    BY <1>7 DEF Fetch
  <2> HIDE DEF r
  <2>4. RunsTyped'
    BY <1>1, <2>1, <2>2, <2>3, RunReplaced
  <2>5. QED
    BY <1>1, <1>7, <2>4 DEF Fetch, ReadsTyped, RestTyped
<1>8. ASSUME NEW c \in Caller, Compare(c) PROVE ReadsTyped' /\ RunsTyped' /\ RestTyped'
  <2> DEFINE content == releases[sync[c].fetched]
             r == [sync[c] EXCEPT !.stage = "applying", !.upserts = Upserts(content),
                                  !.softDeletes = SoftDeletes(content), !.overtaken = FALSE]
  <2>1. Upserts(content) \subseteq Experience /\ SoftDeletes(content) \subseteq Experience
    BY DEF Upserts, SoftDeletes
  <2>2. sync[c] \in Run /\ sync[c].fetched \in 1..Len(releases)
    BY <1>1, <1>8 DEF RunsTyped, Compare
  <2>3. sync' = [sync EXCEPT ![c] = r] /\ releases' = releases
    BY <1>8 DEF Compare
  <2> HIDE DEF content
  <2>4. r \in Run /\ r.fetched = sync[c].fetched
    BY <2>1, <2>2 DEF Run, Holding
  <2> HIDE DEF r
  <2>5. RunsTyped'
    BY <1>1, <2>2, <2>3, <2>4, RunReplaced
  <2>6. QED
    BY <1>1, <1>8, <2>5 DEF Compare, ReadsTyped, RestTyped
<1>9. ASSUME NEW c \in Caller, Apply(c) PROVE ReadsTyped' /\ RunsTyped' /\ RestTyped'
  <2>1. /\ rows' \in [Experience -> Row]
        /\ \A e \in Experience : rows'[e].detail = Absent => ~rows'[e].active
    BY <1>1, <1>9, ReconciledTyped DEF Apply, IInv
  <2>2. sync[c].fetched \in 0..Len(releases)
    BY <1>1, <1>9 DEF Apply, RunsTyped
  <2>3. ReadsTyped' /\ RestTyped'
    BY <2>1, <2>2, <1>1, <1>9 DEF Apply, ReadsTyped, RestTyped
  <2>4. PICK stage \in {"recording", "failing"} :
          sync' = [d \in Caller |-> IF d = c THEN EndOf(c, stage)
                     ELSE [sync[d] EXCEPT !.overtaken = sync[d].stage = "applying"]]
    BY <1>9 DEF Apply
  <2>5. EndOf(c, stage) \in Run /\ EndOf(c, stage).stage = stage
    BY <1>1, EndOfTyped
  <2>6. ASSUME NEW d \in Caller
        PROVE  /\ sync'[d] \in Run
               /\ sync'[d].stage \in {"comparing", "applying"} =>
                    sync'[d].fetched \in 1..Len(releases)
    <3>1. CASE d = c
      BY <2>4, <2>5, <3>1
    <3>2. CASE d # c
      <4> DEFINE r == [sync[d] EXCEPT !.overtaken = sync[d].stage = "applying"]
                 b == sync[d].stage = "applying"
      <4>1. b \in BOOLEAN /\ sync[d] \in Run
        BY <1>1 DEF RunsTyped
      <4>2. sync'[d] = [sync[d] EXCEPT !.overtaken = b]
        BY <2>4, <3>2
      <4> HIDE DEF b
      <4>3. sync'[d] \in Run /\ sync'[d].stage = sync[d].stage /\ sync'[d].fetched = sync[d].fetched
        BY <4>1, <4>2 DEF Run
      <4>4. QED
        BY <4>3, <1>1 DEF RunsTyped
    <3>3. QED
      BY <3>1, <3>2
  <2>7. releases' = releases
    BY <1>9 DEF Apply
  <2>8. RunsTyped'
    BY <2>4, <2>6, <2>7 DEF RunsTyped
  <2>9. QED
    BY <2>3, <2>8
<1>10. ASSUME NEW c \in Caller, RecordSuccess(c) PROVE ReadsTyped' /\ RunsTyped' /\ RestTyped'
  <2>1. ReadsTyped'
    BY <1>1, <1>10 DEF RecordSuccess, ReadsTyped
  <2>2. RestTyped' /\ releases' = releases
    BY <1>1, <1>10 DEF RecordSuccess, RestTyped, Age
  <2>3. CASE Goto(c, "failing")
    BY <2>1, <2>2, <2>3, <1>1, GotoTyped
  <2>4. CASE sync' = [sync EXCEPT ![c].stage = "releasing", ![c].ok = TRUE]
    <3> DEFINE r == [sync[c] EXCEPT !.stage = "releasing", !.ok = TRUE]
    <3>1. r \in Run /\ r.stage = "releasing"
      BY <1>1 DEF RunsTyped, Run, Holding
    <3>2. sync' = [sync EXCEPT ![c] = r]
      BY <2>4
    <3> HIDE DEF r
    <3>3. RunsTyped'
      BY <1>1, <2>2, <3>1, <3>2, RunReplaced
    <3>4. QED
      BY <2>1, <2>2, <3>3
  <2>5. QED
    BY <1>10, <2>3, <2>4 DEF RecordSuccess
<1>11. ASSUME NEW c \in Caller, Fail(c) PROVE ReadsTyped' /\ RunsTyped' /\ RestTyped'
  <2>1. RunsTyped'
    BY <1>1, <1>11, EndOfTyped, RunReplaced DEF Fail
  <2>2. QED
    BY <1>1, <1>11, <2>1 DEF Fail, ReadsTyped, RestTyped
<1>12. ASSUME NEW c \in Caller, RecordFailure(c) PROVE ReadsTyped' /\ RunsTyped' /\ RestTyped'
  BY <1>1, <1>12, GotoTyped DEF RecordFailure, ReadsTyped, RestTyped
<1>13. ASSUME NEW c \in Caller, Release(c) PROVE ReadsTyped' /\ RunsTyped' /\ RestTyped'
  <2>1. sync[c].ok \in BOOLEAN
    BY <1>1 DEF RunsTyped, Run
  <2>2. ReadsTyped'
    BY <2>1, <1>1, <1>13, SettleTyped DEF Release
  <2>3. RunsTyped'
    BY <1>1, <1>13, NoRunTyped, RunReplaced DEF Release
  <2>4. RestTyped'
    BY <1>1, <1>13 DEF Release, RestTyped
  <2>5. QED
    BY <2>2, <2>3, <2>4
<1>14. ASSUME NEW c \in Caller, Crash(c) PROVE ReadsTyped' /\ RunsTyped' /\ RestTyped'
  <2>1. ReadsTyped'
    BY <1>1, <1>14, NoReadingTyped, ReadReplaced DEF Crash
  <2>2. RunsTyped'
    BY <1>1, <1>14, NoRunTyped, RunReplaced DEF Crash
  <2>3. QED
    BY <1>1, <1>14, <2>1, <2>2 DEF Crash, RestTyped
<1>15. CASE Expire
  <2>1. ReadsTyped' /\ RestTyped' /\ releases' = releases /\ lock \in Caller
    BY <1>1, <1>15 DEF Expire, ReadsTyped, RestTyped
  <2>2. CASE UNCHANGED sync
    BY <1>1, <2>1, <2>2 DEF RunsTyped
  <2>3. CASE sync' = [sync EXCEPT ![lock].expired = TRUE]
    <3> DEFINE r == [sync[lock] EXCEPT !.expired = TRUE]
    <3>1. r \in Run /\ r.stage = sync[lock].stage /\ r.fetched = sync[lock].fetched
      BY <1>1, <2>1 DEF RunsTyped, Run
    <3>2. sync' = [sync EXCEPT ![lock] = r]
      BY <2>3
    <3> HIDE DEF r
    <3>3. r.stage \in {"comparing", "applying"} => r.fetched \in 1..Len(releases)
      BY <1>1, <2>1, <3>1 DEF RunsTyped
    <3>4. RunsTyped'
      BY <1>1, <2>1, <3>1, <3>2, <3>3, RunReplaced
    <3>5. QED
      BY <2>1, <3>4
  <2>4. QED
    BY <1>15, <2>2, <2>3 DEF Expire
<1>16. CASE GrowStale
  BY <1>1, <1>16 DEF GrowStale, ReadsTyped, RunsTyped, RestTyped, Age
<1>17. ASSUME NEW content \in Content, ChangeUpstream(content)
       PROVE  ReadsTyped' /\ RunsTyped' /\ RestTyped'
  <2>1. releases' \in Seq(Content) /\ Len(releases') = Len(releases) + 1
    BY <1>1, <1>17 DEF ChangeUpstream, RestTyped
  <2>2. Len(releases) \in Nat /\ releases' # <<>>
    BY <1>1, <2>1 DEF RestTyped
  <2>3. RestTyped'
    BY <1>1, <1>17, <2>1, <2>2 DEF ChangeUpstream, RestTyped
  <2>4. QED
    BY <1>1, <1>17, <2>1, <2>2, <2>3 DEF ChangeUpstream, ReadsTyped, RunsTyped
<1>18. QED
  BY <1>2, <1>3, <1>4, <1>5, <1>6, <1>7, <1>8, <1>9, <1>10, <1>11, <1>12, <1>13, <1>14, <1>15,
     <1>16, <1>17, <1>19 DEF Next, SyncStep

------------------------------------------------------------------------------
(* The key.                                                                *)

\* Steps of one sync: what they do to its stage, its expiry and the key.
LEMMA OthersUntouched ==
  ASSUME NEW c \in Caller, TypeOK,
         ReadAge(c) \/ RunJob(c) \/ Acquire(c) \/ Fetch(c) \/ Compare(c) \/ RecordSuccess(c)
           \/ Fail(c) \/ RecordFailure(c) \/ Release(c) \/ Crash(c)
  PROVE  /\ \A d \in Caller \ {c} : sync'[d] = sync[d]
         /\ UNCHANGED <<releases, rows, published, overlapped>>
  BY DEF TypeOK, ReadAge, RunJob, Acquire, Fetch, Compare, RecordSuccess, Fail, RecordFailure,
     Release, Crash, Goto, EndOf

\* What is left of a run when its stage changes.
LEMMA GotoKeeps ==
  ASSUME NEW c \in Caller, NEW stage, TypeOK, Goto(c, stage)
  PROVE  sync'[c] = [sync[c] EXCEPT !.stage = stage]
         /\ sync'[c].stage = stage /\ sync'[c].expired = sync[c].expired
  BY DEF Goto, TypeOK, Run

\* No step but Acquire makes a sync run, and none but Expire makes it expire.
LEMMA StaysBelow ==
  ASSUME NEW c \in Caller, TypeOK,
         ReadAge(c) \/ RunJob(c) \/ Fetch(c) \/ Compare(c) \/ RecordSuccess(c)
           \/ Fail(c) \/ RecordFailure(c) \/ Release(c) \/ Crash(c)
  PROVE  /\ sync'[c].stage \in Holding => sync[c].stage \in Holding
         /\ sync'[c].stage \in Holding => sync'[c].expired = sync[c].expired
         /\ sync'[c].expired => sync[c].expired
<1>1. sync \in [Caller -> Run] /\ sync[c] \in Run
  BY DEF TypeOK
<1>10. CASE RunJob(c)
  BY <1>10, GotoKeeps DEF RunJob, Holding
<1>2. CASE ReadAge(c)
  <2>1. UNCHANGED sync \/ Goto(c, "locking")
    BY <1>2 DEF ReadAge, Goto
  <2>2. QED
    BY <2>1, GotoKeeps DEF Holding
<1>3. CASE Fetch(c)
  <2>1. sync'[c] = [sync[c] EXCEPT !.stage = "comparing", !.fetched = Len(releases)]
        /\ sync[c].stage = "fetching"
    BY <1>1, <1>3 DEF Fetch
  <2>2. QED
    BY <1>1, <2>1 DEF Run, Holding
<1>4. CASE Compare(c)
  <2>1. sync'[c] = [sync[c] EXCEPT !.stage = "applying",
                      !.upserts = Upserts(releases[sync[c].fetched]),
                      !.softDeletes = SoftDeletes(releases[sync[c].fetched]),
                      !.overtaken = FALSE]
        /\ sync[c].stage = "comparing"
    BY <1>1, <1>4 DEF Compare
  <2>2. QED
    BY <1>1, <2>1 DEF Run, Holding
<1>5. CASE RecordSuccess(c)
  <2>1. sync[c].stage = "recording"
        /\ (Goto(c, "failing")
            \/ sync'[c] = [sync[c] EXCEPT !.stage = "releasing", !.ok = TRUE])
    BY <1>1, <1>5 DEF RecordSuccess
  <2>2. QED
    BY <1>1, <2>1, GotoKeeps DEF Run, Holding
<1>6. CASE Fail(c)
  <2>1. sync[c].stage \in Holding /\ sync'[c] = EndOf(c, "failing")
    BY <1>1, <1>6 DEF Fail, Holding
  <2>2. QED
    BY <2>1 DEF EndOf, NoRun
<1>7. CASE RecordFailure(c)
  BY <1>7, GotoKeeps DEF RecordFailure, Holding
<1>8. CASE Release(c) \/ Crash(c)
  <2>1. sync'[c] = NoRun
    BY <1>1, <1>8 DEF Release, Crash
  <2>2. QED
    BY <2>1 DEF NoRun, Holding
<1>9. QED
  BY <1>10, <1>2, <1>3, <1>4, <1>5, <1>6, <1>7, <1>8

LEMMA KeyStep == IInv /\ [Next]_vars => KeyInv'
<1> SUFFICES ASSUME IInv, [Next]_vars PROVE KeyInv'
  OBVIOUS
<1>1. TypeOK /\ KeyInv /\ NoCaller \notin Caller
  BY CatalogAssumption DEF IInv
<1> DEFINE OfKey(d) ==
      /\ sync[d].stage \in Holding /\ ~sync[d].expired => lock = d
      /\ sync[d].expired => overlapped
<1>2. \A d \in Caller : OfKey(d)
  BY <1>1 DEF KeyInv, Running
<1>3. SUFFICES ASSUME NEW d \in Caller PROVE OfKey(d)'
  BY DEF KeyInv, Running
<1>4. CASE UNCHANGED <<lock, sync, overlapped>>
  BY <1>2, <1>4
<1>5. ASSUME NEW c \in Caller,
             ReadAge(c) \/ RunJob(c) \/ Fetch(c) \/ Compare(c) \/ RecordSuccess(c) \/ Fail(c) \/ RecordFailure(c)
      PROVE  OfKey(d)'
  <2>1. UNCHANGED <<lock, overlapped>>
    BY <1>5 DEF ReadAge, RunJob, Fetch, Compare, RecordSuccess, Fail, RecordFailure
  <2>2. CASE d = c
    BY <1>1, <1>2, <1>5, <2>1, <2>2, StaysBelow
  <2>3. CASE d # c
    BY <1>1, <1>2, <1>5, <2>1, <2>3, OthersUntouched
  <2>4. QED
    BY <2>2, <2>3
<1>6. ASSUME NEW c \in Caller, Acquire(c) PROVE OfKey(d)'
  <2>1. /\ overlapped' = overlapped
        /\ \/ lock = NoCaller /\ lock' = c
           \/ Goto(c, "idle") /\ (lock' = lock \/ lock = NoCaller)
    BY <1>6 DEF Acquire
  <2>2. Goto(c, "idle") \/ Goto(c, "fetching")
    BY <1>6 DEF Acquire
  <2>3. CASE d = c
    <3>1. sync'[c].expired = sync[c].expired
      BY <1>1, <2>2, GotoKeeps
    <3>2. CASE lock' = c
      BY <1>2, <2>1, <2>3, <3>1, <3>2
    <3>3. CASE Goto(c, "idle")
      <4>1. sync'[c].stage = "idle"
        BY <1>1, <3>3, GotoKeeps
      <4>2. QED
        BY <1>2, <2>1, <2>3, <3>1, <4>1 DEF Holding
    <3>4. QED
      BY <2>1, <3>2, <3>3
  <2>4. CASE d # c
    <3>1. sync'[d] = sync[d]
      BY <1>1, <1>6, <2>4, OthersUntouched
    <3>2. sync[d].stage \in Holding /\ ~sync[d].expired => lock' = d
      BY <1>1, <1>2, <2>1
    <3>3. QED
      BY <1>2, <2>1, <3>1, <3>2
  <2>5. QED
    BY <2>3, <2>4
<1>7. ASSUME NEW c \in Caller, Apply(c) PROVE OfKey(d)'
  <2>1. /\ sync'[d].expired = sync[d].expired
        /\ sync'[d].stage \in Holding => sync[d].stage \in Holding
    BY <1>1, <1>7 DEF Apply, EndOf, NoRun, TypeOK, Run, Holding
  <2>2. QED
    BY <1>2, <1>7, <2>1 DEF Apply
<1>8. ASSUME NEW c \in Caller, Release(c) \/ Crash(c) PROVE OfKey(d)'
  <2>1. lock' \in {lock, IF lock = c THEN NoCaller ELSE lock} /\ overlapped' = overlapped
    BY <1>8 DEF Release, Crash
  <2>2. CASE d = c
    <3>1. sync'[c] = NoRun
      BY <1>1, <1>8 DEF Release, Crash, TypeOK
    <3>2. QED
      BY <2>2, <3>1 DEF NoRun, Holding
  <2>3. CASE d # c
    BY <1>1, <1>2, <1>8, <2>1, <2>3, OthersUntouched
  <2>4. QED
    BY <2>2, <2>3
<1>9. CASE Expire
  <2>1. CASE ~Running(lock)
    BY <1>2, <1>9, <2>1 DEF Expire, Running
  <2>2. CASE Running(lock)
    <3>1. overlapped' /\ sync' = [sync EXCEPT ![lock].expired = TRUE]
      BY <1>9, <2>2 DEF Expire
    <3>2. CASE d = lock
      <4>1. lock \in Caller /\ sync'[d].expired
        BY <1>1, <3>1, <3>2 DEF TypeOK, Run
      <4>2. QED
        BY <3>1, <4>1
    <3>3. CASE d # lock
      <4>1. sync'[d] = sync[d]
        BY <1>1, <3>1, <3>3 DEF TypeOK
      <4>2. QED
        BY <1>2, <3>1, <3>3, <4>1
    <3>4. QED
      BY <3>2, <3>3
  <2>3. QED
    BY <2>1, <2>2
<1>10. QED
  BY <1>4, <1>5, <1>6, <1>7, <1>8, <1>9
     DEF Next, SyncStep, vars, Deadline, List, GrowStale, ChangeUpstream

------------------------------------------------------------------------------
(* Diffs.                                                                  *)

\* An undisturbed diff makes the catalog what it was computed from.
LEMMA DiffPublishes ==
  ASSUME NEW c \in Caller, TypeOK, DiffInv, Apply(c), ~sync[c].overtaken
  PROVE  Catalog' = releases[sync[c].fetched]
<1> DEFINE content == releases[sync[c].fetched]
<1>1. content \in [Experience -> Detail \cup {Absent}]
  BY CatalogAssumption DEF TypeOK, Apply
<1>2. sync[c].upserts = Upserts(content) /\ sync[c].softDeletes = SoftDeletes(content)
  BY DEF DiffInv, Fits, Apply
<1>3. \A e \in Experience : rows[e] \in Row
  BY DEF TypeOK
<1>4. \A e \in Experience :
        rows'[e] = IF e \in sync[c].upserts THEN [detail |-> content[e], active |-> TRUE]
                   ELSE IF e \in sync[c].softDeletes THEN [rows[e] EXCEPT !.active = FALSE]
                   ELSE rows[e]
  BY DEF Apply, Reconciled
<1> HIDE DEF content
<1>5. ASSUME NEW e \in Experience
      PROVE  (IF rows'[e].active THEN rows'[e].detail ELSE Absent) = content[e]
  <2>1. rows[e] \in Row
    BY <1>3
  <2>2. CASE e \in Upserts(content)
    <3>1. rows'[e] = [detail |-> content[e], active |-> TRUE]
      BY <1>2, <1>4, <2>2
    <3>2. QED
      BY <3>1
  <2>3. CASE e \in SoftDeletes(content)
    <3>1. e \notin Upserts(content) /\ content[e] = Absent
      BY <2>3 DEF Upserts, SoftDeletes
    <3>2. rows'[e].active = FALSE
      BY <1>2, <1>4, <2>1, <2>3, <3>1 DEF Row
    <3>3. QED
      BY <3>1, <3>2
  <2>4. CASE e \notin Upserts(content) \cup SoftDeletes(content)
    <3>1. rows'[e] = rows[e]
      BY <1>2, <1>4, <2>4
    <3>2. IF rows[e].active THEN rows[e].detail = content[e] ELSE content[e] = Absent
      BY <2>4 DEF Upserts, SoftDeletes
    <3>3. QED
      BY <3>1, <3>2
  <2>5. QED
    BY <2>2, <2>3, <2>4
<1>6. Catalog' = [e \in Experience |-> content[e]]
  BY <1>5 DEF Catalog
<1>7. QED
  BY <1>1, <1>6 DEF content

\* A run that does not fetch, compare or apply has no diff.
LEMMA LeavesDiff ==
  ASSUME NEW c \in Caller, TypeOK,
         ReadAge(c) \/ RunJob(c) \/ Acquire(c) \/ RecordSuccess(c) \/ Fail(c) \/ RecordFailure(c)
           \/ Release(c) \/ Crash(c)
  PROVE  sync'[c].stage \in {"idle", "locking", "fetching", "failing", "releasing"}
<1>1. sync \in [Caller -> Run]
  BY DEF TypeOK
<1>2. CASE ReadAge(c) \/ RunJob(c)
  BY <1>2, GotoKeeps DEF ReadAge, RunJob, Goto
<1>3. CASE Acquire(c)
  BY <1>3, GotoKeeps DEF Acquire
<1>4. CASE RecordSuccess(c)
  <2>1. CASE Goto(c, "failing")
    BY <2>1, GotoKeeps
  <2>2. CASE sync' = [sync EXCEPT ![c].stage = "releasing", ![c].ok = TRUE]
    BY <1>1, <2>2 DEF Run
  <2>3. QED
    BY <1>4, <2>1, <2>2 DEF RecordSuccess
<1>5. CASE RecordFailure(c)
  BY <1>5, GotoKeeps DEF RecordFailure
<1>6. CASE Fail(c)
  BY <1>1, <1>6 DEF Fail, EndOf, NoRun
<1>7. CASE Release(c) \/ Crash(c)
  BY <1>1, <1>7 DEF Release, Crash, NoRun
<1>8. QED
  BY <1>2, <1>3, <1>4, <1>5, <1>6, <1>7

\* A run that is not touched, or only expires, fits as before while the table
\* stays and releases are added.
LEMMA FitsKept ==
  ASSUME NEW d \in Caller, TypeOK, Fits(d), rows' = rows,
         sync'[d].stage = "applying" =>
           /\ sync[d].stage = "applying"
           /\ sync'[d].fetched = sync[d].fetched
           /\ sync'[d].upserts = sync[d].upserts
           /\ sync'[d].softDeletes = sync[d].softDeletes
           /\ sync'[d].overtaken = sync[d].overtaken
           /\ releases'[sync[d].fetched] = releases[sync[d].fetched]
  PROVE  Fits(d)'
  BY DEF Fits, Upserts, SoftDeletes

LEMMA DiffStep == IInv /\ [Next]_vars => DiffInv'
<1> SUFFICES ASSUME IInv, [Next]_vars, NEW d \in Caller PROVE Fits(d)'
  BY DEF DiffInv
<1>1. TypeOK /\ Fits(d) /\ sync \in [Caller -> Run]
  BY DEF IInv, DiffInv, TypeOK
<1>2. CASE UNCHANGED <<releases, rows, sync>>
  BY <1>1, <1>2, FitsKept
<1>3. ASSUME NEW c \in Caller, c # d,
             ReadAge(c) \/ RunJob(c) \/ Acquire(c) \/ Fetch(c) \/ Compare(c) \/ RecordSuccess(c)
               \/ Fail(c) \/ RecordFailure(c) \/ Release(c) \/ Crash(c)
      PROVE  Fits(d)'
  <2>1. sync'[d] = sync[d] /\ UNCHANGED <<releases, rows>>
    BY <1>1, <1>3, OthersUntouched, Zenon DEF ReadAge, RunJob, Acquire, Fetch, Compare, RecordSuccess,
       Fail, RecordFailure, Release, Crash
  <2>2. QED
    BY <1>1, <2>1, FitsKept
<1>4. CASE ReadAge(d) \/ RunJob(d) \/ Acquire(d) \/ RecordSuccess(d) \/ Fail(d) \/ RecordFailure(d)
             \/ Release(d) \/ Crash(d)
  BY <1>1, <1>4, LeavesDiff DEF Fits
<1>5. CASE Fetch(d)
  BY <1>1, <1>5 DEF Fetch, Fits, Run
<1>6. CASE Compare(d)
  <2> DEFINE content == releases[sync[d].fetched]
  <2>1. /\ sync'[d].fetched = sync[d].fetched
        /\ sync'[d].upserts = Upserts(content)
        /\ sync'[d].softDeletes = SoftDeletes(content)
        /\ UNCHANGED <<releases, rows>>
    BY <1>1, <1>6 DEF Compare, Run
  <2>2. \A e \in Upserts(content) : content[e] # Absent
    BY DEF Upserts
  <2>3. QED
    BY <2>1, <2>2 DEF Fits, Upserts, SoftDeletes
<1>7. ASSUME NEW c \in Caller, Apply(c) PROVE Fits(d)'
  <2>1. PICK stage \in {"recording", "failing"} :
          sync' = [x \in Caller |-> IF x = c THEN EndOf(c, stage)
                     ELSE [sync[x] EXCEPT !.overtaken = sync[x].stage = "applying"]]
    BY <1>7 DEF Apply
  <2>2. CASE d = c
    <3>1. sync'[d].stage = stage
      BY <2>1, <2>2 DEF EndOf, NoRun
    <3>2. QED
      BY <3>1 DEF Fits
  <2>3. CASE d # c
    <3> DEFINE b == sync[d].stage = "applying"
    <3>1. sync'[d] = [sync[d] EXCEPT !.overtaken = b]
      BY <2>1, <2>3
    <3> HIDE DEF b
    <3>2. /\ sync'[d].stage = sync[d].stage /\ sync'[d].fetched = sync[d].fetched
          /\ sync'[d].upserts = sync[d].upserts /\ sync'[d].overtaken = b
      BY <1>1, <3>1 DEF Run
    <3>3. releases' = releases
      BY <1>7 DEF Apply
    <3>4. QED
      BY <1>1, <3>2, <3>3 DEF Fits, b
  <2>4. QED
    BY <2>2, <2>3
<1>8. CASE Expire
  <2>1. /\ sync'[d].stage = sync[d].stage /\ sync'[d].fetched = sync[d].fetched
        /\ sync'[d].upserts = sync[d].upserts /\ sync'[d].softDeletes = sync[d].softDeletes
        /\ sync'[d].overtaken = sync[d].overtaken
        /\ UNCHANGED <<releases, rows>>
    BY <1>1, <1>8 DEF Expire, Run
  <2>2. QED
    BY <1>1, <2>1, FitsKept
<1>9. ASSUME NEW content \in Content, ChangeUpstream(content) PROVE Fits(d)'
  <2>1. sync' = sync /\ rows' = rows /\ releases' = Append(releases, content)
    BY <1>9 DEF ChangeUpstream
  <2>2. sync[d].stage = "applying" => releases'[sync[d].fetched] = releases[sync[d].fetched]
    BY <1>1, <2>1 DEF TypeOK
  <2>3. QED
    BY <1>1, <2>1, <2>2, FitsKept
<1>10. QED
  BY <1>2, <1>3, <1>4, <1>5, <1>6, <1>7, <1>8, <1>9
     DEF Next, SyncStep, vars, Deadline, List, GrowStale

------------------------------------------------------------------------------
(* What is recorded and in which order things are published.               *)

\* A sync that records a success has applied its diff.
LEMMA RecordsAfterApply ==
  ASSUME NEW c \in Caller, TypeOK, [Next]_vars, sync'[c].stage = "recording",
         sync[c].stage # "recording"
  PROVE  Apply(c)
<1>1. sync \in [Caller -> Run]
  BY DEF TypeOK
<1>2. sync' # sync
  OBVIOUS
<1>3. ASSUME NEW d \in Caller, d # c,
             ReadAge(d) \/ RunJob(d) \/ Acquire(d) \/ Fetch(d) \/ Compare(d) \/ RecordSuccess(d)
               \/ Fail(d) \/ RecordFailure(d) \/ Release(d) \/ Crash(d)
      PROVE  FALSE
  BY <1>3, OthersUntouched
<1>4. ~(ReadAge(c) \/ RunJob(c) \/ Acquire(c) \/ RecordSuccess(c) \/ Fail(c) \/ RecordFailure(c)
          \/ Release(c) \/ Crash(c))
  BY LeavesDiff
<1>5. ~Fetch(c) /\ ~Compare(c)
  BY <1>1 DEF Fetch, Compare, Run
<1>6. ASSUME NEW d \in Caller, d # c, Apply(d) PROVE FALSE
  <2>1. sync'[c] = [sync[c] EXCEPT !.overtaken = sync[c].stage = "applying"]
    BY <1>6 DEF Apply
  <2>2. QED
    BY <1>1, <2>1 DEF Run
<1>7. ~Expire
  BY <1>1 DEF Expire, Run
<1>8. QED
  BY <1>2, <1>3, <1>4, <1>5, <1>6, <1>7
     DEF Next, SyncStep, vars, Deadline, List, GrowStale, ChangeUpstream

\* What a step does to what is published: nothing unless it applies a diff.
LEMMA PublishedKept ==
  ASSUME [Next]_vars, \A c \in Caller : ~Apply(c)
  PROVE  UNCHANGED <<rows, published>>
  BY DEF Next, SyncStep, vars, ReadAge, RunJob, Deadline, List, Acquire, Fetch, Compare,
     RecordSuccess, Fail, RecordFailure, Release, Crash, Expire, GrowStale, ChangeUpstream

LEMMA StampKept ==
  ASSUME [Next]_vars, stamp' # "never"
  PROVE  stamp # "never" \/ \E c \in Caller : RecordSuccess(c)
  BY DEF Next, SyncStep, vars, ReadAge, RunJob, Deadline, List, Acquire, Fetch, Compare, Apply,
     Fail, RecordFailure, Release, Crash, Expire, GrowStale, ChangeUpstream

LEMMA StampStep == IInv /\ [Next]_vars => StampInv'
<1> SUFFICES ASSUME IInv, [Next]_vars PROVE StampInv'
  OBVIOUS
<1>1. TypeOK /\ StampInv
  BY DEF IInv
<1>2. (\E c \in Caller : Apply(c)) => published' > 0
  BY <1>1 DEF Apply, TypeOK
<1>3. published > 0 => published' > 0
  BY <1>2, PublishedKept
<1>4. stamp' # "never" => published' > 0
  BY <1>1, <1>3, StampKept DEF StampInv, RecordSuccess
<1>5. ASSUME NEW c \in Caller, sync'[c].stage = "recording" PROVE published' > 0
  BY <1>1, <1>2, <1>3, <1>5, RecordsAfterApply DEF StampInv
<1>6. QED
  BY <1>4, <1>5 DEF StampInv

LEMMA OverlapStays == [Next]_vars /\ overlapped => overlapped'
  BY DEF Next, SyncStep, vars, ReadAge, RunJob, Deadline, List, Acquire, Fetch, Compare, Apply,
     RecordSuccess, Fail, RecordFailure, Release, Crash, Expire, GrowStale, ChangeUpstream

LEMMA ReleasesStay ==
  ASSUME TypeOK, [Next]_vars, NEW n \in 1..Len(releases)
  PROVE  releases'[n] = releases[n] /\ Len(releases) <= Len(releases')
<1>1. UNCHANGED releases \/ \E content \in Content : releases' = Append(releases, content)
  BY DEF Next, SyncStep, vars, ReadAge, RunJob, Deadline, List, Acquire, Fetch, Compare, Apply,
     RecordSuccess, Fail, RecordFailure, Release, Crash, Expire, GrowStale, ChangeUpstream
<1>2. releases \in Seq(Content) /\ Len(releases) \in Nat
  BY DEF TypeOK
<1>3. QED
  BY <1>1, <1>2

Ahead(c) ==
  /\ sync[c].stage \in {"comparing", "applying"} => published <= sync[c].fetched
  /\ sync[c].stage = "applying" => ~sync[c].overtaken

\* While nothing has overlapped, no sync that holds a fetch is overtaken.
LEMMA AheadStep ==
  ASSUME IInv, [Next]_vars, ~overlapped', NEW d \in Caller
  PROVE  Ahead(d)'
<1>1. /\ TypeOK /\ KeyInv /\ Ahead(d) /\ ~overlapped
      /\ sync \in [Caller -> Run] /\ published \in Nat
  BY OverlapStays DEF IInv, OrderInv, Ahead, TypeOK
<1>2. CASE UNCHANGED <<sync, published>>
  BY <1>1, <1>2 DEF Ahead
<1>3. ASSUME NEW c \in Caller, c # d,
             ReadAge(c) \/ RunJob(c) \/ Acquire(c) \/ Fetch(c) \/ Compare(c) \/ RecordSuccess(c)
               \/ Fail(c) \/ RecordFailure(c) \/ Release(c) \/ Crash(c)
      PROVE  Ahead(d)'
  BY <1>1, <1>3, OthersUntouched DEF Ahead
<1>4. CASE ReadAge(d) \/ RunJob(d) \/ Acquire(d) \/ RecordSuccess(d) \/ Fail(d) \/ RecordFailure(d)
             \/ Release(d) \/ Crash(d)
  BY <1>1, <1>4, LeavesDiff DEF Ahead
<1>5. CASE Fetch(d)
  <2>1. sync'[d].stage = "comparing" /\ sync'[d].fetched = Len(releases) /\ published' = published
    BY <1>1, <1>5 DEF Fetch, Run
  <2>2. published <= Len(releases)
    BY <1>1 DEF TypeOK
  <2>3. QED
    BY <2>1, <2>2 DEF Ahead
<1>6. CASE Compare(d)
  <2>1. /\ sync[d].stage = "comparing" /\ sync'[d].fetched = sync[d].fetched
        /\ sync'[d].overtaken = FALSE /\ published' = published
    BY <1>1, <1>6 DEF Compare, Run
  <2>2. QED
    BY <1>1, <2>1 DEF Ahead
<1>7. ASSUME NEW c \in Caller, Apply(c) PROVE Ahead(d)'
  <2>1. PICK stage \in {"recording", "failing"} :
          sync' = [x \in Caller |-> IF x = c THEN EndOf(c, stage)
                     ELSE [sync[x] EXCEPT !.overtaken = sync[x].stage = "applying"]]
    BY <1>7 DEF Apply
  <2>2. CASE d = c
    <3>1. sync'[d].stage = stage
      BY <2>1, <2>2 DEF EndOf, NoRun
    <3>2. QED
      BY <3>1 DEF Ahead
  <2>3. CASE d # c
    <3>1. Running(c) /\ lock = c
      BY <1>1, <1>7 DEF Apply, KeyInv, Running, Holding
    <3>2. ~Running(d)
      BY <1>1, <2>3, <3>1 DEF KeyInv
    <3>3. sync'[d].stage = sync[d].stage
      BY <1>1, <2>1, <2>3 DEF Run
    <3>4. QED
      BY <3>2, <3>3 DEF Ahead, Running, Holding
  <2>4. QED
    BY <2>2, <2>3
<1>8. CASE Expire
  <2>1. UNCHANGED <<sync, published>>
    BY <1>1, <1>8 DEF Expire
  <2>2. QED
    BY <1>2, <2>1
<1>9. QED
  BY <1>2, <1>3, <1>4, <1>5, <1>6, <1>7, <1>8
     DEF Next, SyncStep, vars, Deadline, List, GrowStale, ChangeUpstream

LEMMA OrderStep == IInv /\ [Next]_vars => OrderInv'
<1> SUFFICES ASSUME IInv, [Next]_vars, ~overlapped'
             PROVE  /\ published' = 0 => Catalog' = [e \in Experience |-> Absent]
                    /\ published' > 0 => Catalog' = releases'[published']
                    /\ \A c \in Caller : Ahead(c)'
  BY DEF OrderInv, Ahead
<1>1. TypeOK /\ DiffInv /\ OrderInv /\ ~overlapped /\ published \in 0..Len(releases)
  BY OverlapStays DEF IInv, TypeOK
<1>2. CASE \A c \in Caller : ~Apply(c)
  <2>1. Catalog' = Catalog /\ published' = published
    BY <1>2, PublishedKept DEF Catalog
  <2>2. published > 0 => releases'[published] = releases[published]
    BY <1>1, ReleasesStay
  <2>3. QED
    BY <1>1, <2>1, <2>2, AheadStep DEF OrderInv
<1>3. ASSUME NEW c \in Caller, Apply(c)
      PROVE  Catalog' = releases'[published'] /\ published' > 0
  <2>1. ~sync[c].overtaken
    BY <1>1, <1>3 DEF OrderInv, Apply
  <2>2. Catalog' = releases[sync[c].fetched]
    BY <1>1, <1>3, <2>1, DiffPublishes
  <2>3. /\ sync[c].fetched \in 1..Len(releases)
        /\ published' = sync[c].fetched /\ releases' = releases
    BY <1>1, <1>3 DEF Apply, TypeOK
  <2>4. QED
    BY <2>2, <2>3
<1>4. QED
  BY <1>1, <1>2, <1>3, AheadStep DEF TypeOK

LEMMA InitInv == Init => IInv
<1> SUFFICES ASSUME Init PROVE IInv
  OBVIOUS
<1>1. TypeOK
  BY TypeInit
<1>2. \A c \in Caller : sync[c].stage = "idle" /\ ~sync[c].expired
  BY DEF Init, NoRun
<1>3. KeyInv /\ DiffInv /\ StampInv
  BY <1>2 DEF Init, KeyInv, DiffInv, Fits, StampInv, Running, Holding
<1>4. Catalog = [e \in Experience |-> Absent]
  BY DEF Init, Catalog, NoRow
<1>5. OrderInv
  BY <1>2, <1>4 DEF OrderInv, Init
<1>6. QED
  BY <1>1, <1>3, <1>5 DEF IInv

LEMMA Always == Spec => []IInv
<1>1. IInv /\ [Next]_vars => IInv'
  BY TypeStep, KeyStep, DiffStep, StampStep, OrderStep DEF IInv
<1>2. QED
  BY <1>1, InitInv, PTL DEF Spec

------------------------------------------------------------------------------
(* The theorems.                                                           *)

\* The state is well typed.
THEOREM TypeCorrect == Spec => []TypeOK
<1>1. IInv => TypeOK
  BY DEF IInv
<1>2. QED
  BY <1>1, Always, PTL

\* Of any number of syncs at most one has not outlived its key (sync.ts: single
\* in-flight sync per cluster, atomic lock release).
THEOREM OneSyncInFlight == Spec => []OneSyncPerKey
<1>1. IInv => OneSyncPerKey
  BY DEF IInv, KeyInv, OneSyncPerKey
<1>2. QED
  BY <1>1, Always, PTL

\* An undisturbed sync makes the catalog the release it fetched, whatever was in
\* the table before (reconcile.ts with applyReconciliation).
THEOREM SyncIsComplete == Spec => SyncRepairs
<1> DEFINE A == \A c \in Caller : Apply(c) /\ ~sync[c].overtaken =>
                  Catalog' = releases[sync[c].fetched]
<1>1. IInv /\ [Next]_vars => [A]_vars
  BY DiffPublishes DEF IInv
<1>2. QED
  BY <1>1, Always, PTL DEF Spec, SyncRepairs

------------------------------------------------------------------------------
(* CatalogFeed.                                                            *)

LEMMA EmptyRow ==
  ASSUME NEW r \in Row, r.detail = Absent => ~r.active
  PROVE  r # NoRow <=> r.detail # Absent
<1>1. r.detail = Absent => r.active = FALSE
  BY DEF Row
<1>2. r = [detail |-> r.detail, active |-> r.active]
  BY DEF Row
<1>3. QED
  BY <1>1, <1>2 DEF NoRow

\* A diff forgets no experience, and adds those it lists.
LEMMA KnownGrows ==
  ASSUME NEW c \in Caller, TypeOK, TypeOK', DiffInv, Apply(c), NEW e \in Experience
  PROVE  /\ rows[e] # NoRow => rows'[e] # NoRow
         /\ rows'[e] # NoRow => rows[e] # NoRow \/ releases[sync[c].fetched][e] # Absent
         /\ ~sync[c].overtaken /\ releases[sync[c].fetched][e] # Absent => rows'[e] # NoRow
<1> DEFINE content == releases[sync[c].fetched]
<1>1. /\ \A x \in sync[c].upserts : content[x] # Absent
      /\ ~sync[c].overtaken => sync[c].upserts = Upserts(content)
  BY DEF DiffInv, Fits, Apply
<1>2. rows'[e] = IF e \in sync[c].upserts THEN [detail |-> content[e], active |-> TRUE]
                 ELSE IF e \in sync[c].softDeletes THEN [rows[e] EXCEPT !.active = FALSE]
                 ELSE rows[e]
  BY DEF Apply, Reconciled
<1>3. rows[e] \in Row /\ (rows[e].detail = Absent => ~rows[e].active)
  BY DEF TypeOK
<1>4. rows[e] # NoRow <=> rows[e].detail # Absent
  BY <1>3, EmptyRow
<1>5. rows'[e] # NoRow <=> rows'[e].detail # Absent
  <2>1. rows'[e] \in Row /\ (rows'[e].detail = Absent => ~rows'[e].active)
    BY DEF TypeOK
  <2>2. QED
    BY <2>1, EmptyRow
<1> HIDE DEF content
<1>6. CASE e \in sync[c].upserts
  <2>1. rows'[e].detail = content[e]
    BY <1>2, <1>6
  <2>2. QED
    BY <1>1, <1>5, <1>6, <2>1 DEF content
<1>7. CASE e \notin sync[c].upserts
  <2>1. rows'[e].detail = rows[e].detail
    BY <1>2, <1>3, <1>7 DEF Row
  <2>2. ~sync[c].overtaken /\ content[e] # Absent => rows[e].detail # Absent
    BY <1>1, <1>3, <1>7 DEF Upserts
  <2>3. QED
    BY <1>4, <1>5, <2>1, <2>2 DEF content
<1>8. QED
  BY <1>6, <1>7

LEMMA ApplyIsPublish ==
  ASSUME IInv, TypeOK', NEW c \in Caller, Apply(c)
  PROVE  Feed!Next
<1> DEFINE old == {e \in Experience : rows[e] # NoRow}
           new == {e \in Experience : rows'[e] # NoRow}
<1>1. TypeOK /\ DiffInv /\ OrderInv
  BY DEF IInv
<1>2. PICK n \in 1..Len(releases) : n = sync[c].fetched
  BY <1>1 DEF Apply, TypeOK
<1>3. published' = n /\ UNCHANGED <<releases, stamp, overlapped>>
  BY <1>2 DEF Apply
<1>4. CASE ~overlapped
  <2>1. published <= n /\ ~sync[c].overtaken
    BY <1>1, <1>2, <1>4 DEF OrderInv, Apply
  <2>2. Catalog' = releases[n]
    BY <1>1, <1>2, <2>1, DiffPublishes
  <2>3. \A e \in Experience : rows'[e] # NoRow <=> rows[e] # NoRow \/ releases[n][e] # Absent
    BY <1>1, <1>2, <2>1, KnownGrows
  <2>4. new = old \cup Feed!Listed(releases[n])
    BY <2>3 DEF Feed!Listed
  <2>5. n >= published
    BY <1>1, <1>2, <2>1 DEF TypeOK
  <2>6. Feed!Publish(n)
    BY <1>3, <1>4, <2>2, <2>4, <2>5 DEF Feed!Publish
  <2>7. QED
    BY <2>6 DEF Feed!Next
<1>5. CASE overlapped
  <2>1. old \subseteq new
    BY <1>1, KnownGrows
  <2>2. \A e \in Experience : rows'[e] \in Row
    BY DEF TypeOK
  <2>3. Catalog' \in [Experience -> Detail \cup {Absent}]
    BY <2>2 DEF Catalog, Row
  <2>4. Feed!PublishMixture(n)
    BY <1>3, <1>5, <2>1, <2>3 DEF Feed!PublishMixture
  <2>5. QED
    BY <2>4 DEF Feed!Next
<1>6. QED
  BY <1>4, <1>5

LEMMA FeedStep == IInv /\ IInv' /\ [Next]_vars => [Feed!Next]_(Feed!feed)
<1> SUFFICES ASSUME IInv, IInv', [Next]_vars PROVE [Feed!Next]_(Feed!feed)
  OBVIOUS
<1>1. TypeOK /\ TypeOK' /\ StampInv
  BY DEF IInv
<1>2. ASSUME NEW c \in Caller, Apply(c) PROVE Feed!Next
  BY <1>1, <1>2, ApplyIsPublish
<1>3. CASE /\ UNCHANGED <<releases, rows, published, overlapped>>
           /\ stamp' = stamp \/ (stamp = "fresh" /\ stamp' = "stale")
  BY <1>3 DEF Feed!feed, Catalog
<1>4. ASSUME NEW c \in Caller, RecordSuccess(c) PROVE Feed!Next
  <2>1. published > 0 /\ stamp' = "fresh" /\ UNCHANGED <<releases, rows, published, overlapped>>
    BY <1>1, <1>4 DEF RecordSuccess, StampInv
  <2>2. Feed!Confirm
    BY <2>1 DEF Feed!Confirm, Catalog
  <2>3. QED
    BY <2>2 DEF Feed!Next
<1>5. CASE Expire
  <2>1. /\ UNCHANGED <<releases, rows, published, stamp>>
        /\ overlapped' = overlapped \/ overlapped' = TRUE
    BY <1>5 DEF Expire
  <2>2. CASE overlapped' = overlapped
    BY <1>3, <2>1, <2>2
  <2>3. CASE overlapped' = TRUE
    <3>1. Feed!Overlap
      BY <2>1, <2>3 DEF Feed!Overlap, Catalog
    <3>2. QED
      BY <3>1 DEF Feed!Next
  <2>4. QED
    BY <2>1, <2>2, <2>3
<1>6. ASSUME NEW content \in Content, ChangeUpstream(content) PROVE Feed!Next
  <2>1. Feed!Release(content)
    BY <1>6 DEF ChangeUpstream, Feed!Release, Catalog
  <2>2. QED
    BY <2>1 DEF Feed!Next
<1>7. QED
  BY <1>2, <1>3, <1>4, <1>5, <1>6 DEF Next, SyncStep, vars, ReadAge, RunJob, Deadline, List, Acquire,
     Fetch, Compare, Fail, RecordFailure, Release, Crash, GrowStale

\* The whole of it implements CatalogFeed: releases are published whole and in
\* order while no two syncs overlap, no experience is ever forgotten, and the
\* cache is called loaded only after something was published.
THEOREM FeedImplemented == Spec => PublishesReleases
<1>1. Init => Feed!Init
  <2> SUFFICES ASSUME Init PROVE Feed!Init
    OBVIOUS
  <2>1. Catalog = Feed!Nothing /\ {e \in Experience : rows[e] # NoRow} = {}
    BY DEF Init, Catalog, NoRow, Feed!Nothing
  <2>2. QED
    BY <2>1 DEF Init, Feed!Init
<1>2. IInv /\ IInv' /\ [Next]_vars => [Feed!Next]_(Feed!feed)
  BY FeedStep
<1>3. QED
  BY <1>1, <1>2, Always, PTL DEF Spec, PublishesReleases, Feed!Spec
------------------------------------------------------------------------------
(* Browse.                                                                 *)
(*                                                                         *)
(* Induction, as the least element of a set of numbers.                    *)

\* Least element
LEMMA LeastNumber ==
  ASSUME NEW T \in SUBSET Nat, T # {}
  PROVE  \E n \in T : \A m \in T : n <= m
<1>1. PICK n \in T : \A m \in T : ~(<<m, n>> \in OpToRel(<, Nat))
  BY NatLessThanWellFounded, WFMin
<1>2. ASSUME NEW m \in T PROVE n <= m
  <2>1. m \in Nat /\ n \in Nat
    OBVIOUS
  <2>2. ~(<<m, n>> \in OpToRel(<, Nat))
    BY <1>1
  <2>3. ~(m < n)
    BY <2>1, <2>2 DEF OpToRel
  <2> QED BY <2>1, <2>3
<1> QED BY <1>2

\* Induction from a up to b.
LEMMA UpInduction ==
  ASSUME NEW a \in Nat, NEW b \in Nat, NEW S, a \in S,
         \A i \in a .. b - 1 : i \in S => i + 1 \in S
  PROVE  \A i \in a .. b : i \in S
<1> DEFINE T == {i \in a .. b : i \notin S}
<1>1. SUFFICES ASSUME T # {} PROVE FALSE
  OBVIOUS
<1>2. T \in SUBSET Nat
  OBVIOUS
<1>3. PICK i \in T : \A m \in T : i <= m
  <2> HIDE DEF T
  <2> QED BY <1>1, <1>2, LeastNumber
<1>4. i - 1 \in a .. b - 1 /\ i - 1 \notin T /\ (i - 1) + 1 = i
  <2>1. i # a /\ i \in a .. b
    BY <1>3
  <2>2. i - 1 \in T => i <= i - 1
    BY <1>3
  <2> HIDE DEF T
  <2> QED BY <2>1, <2>2
<1> QED BY <1>3, <1>4

\* Induction from b down to a.
LEMMA DownInduction ==
  ASSUME NEW a \in Nat, NEW b \in Nat, NEW S, b \in S,
         \A i \in a + 1 .. b : i \in S => i - 1 \in S
  PROVE  \A i \in a .. b : i \in S
<1> DEFINE D == {n \in Nat : n <= b /\ b - n \in S}
<1>1. \A n \in 0 .. (b - a) - 1 : n \in D => n + 1 \in D
  <2> TAKE n \in 0 .. (b - a) - 1
  <2>1. b - n \in a + 1 .. b /\ (b - n) - 1 = b - (n + 1) /\ n + 1 \in Nat /\ n + 1 <= b
    OBVIOUS
  <2> QED BY <2>1
<1>2. 0 \in D
  OBVIOUS
<1>3. ASSUME NEW i \in a .. b PROVE i \in S
  <2>1. b - a \in Nat /\ b - i \in 0 .. b - a /\ b - (b - i) = i
    OBVIOUS
  <2>2. b - i \in D
    <3> HIDE DEF D
    <3> QED BY <1>1, <1>2, <2>1, UpInduction
  <2> QED BY <2>1, <2>2
<1> QED BY <1>3

-----------------------------------------------------------------------------
\* A step of ILike looks at the places after it.
LEMMA LikeLocal ==
  ASSUME NEW text, NEW pattern \in Seq(Char), NEW g, NEW h, NEW p \in 1 .. Len(pattern) + 1,
         \A n \in p + 1 .. Len(pattern) + 1 : g[n] = h[n]
  PROVE  LikeStep(text, pattern, g, p) = LikeStep(text, pattern, h, p)
<1>0. Len(pattern) \in Nat
  OBVIOUS
<1>1. CASE p > Len(pattern)
  BY <1>1 DEF LikeStep
<1>2. CASE p <= Len(pattern)
  <2>1. g[p + 1] = h[p + 1]
    BY <1>0, <1>2
  <2>2. p < Len(pattern) => g[p + 2] = h[p + 2]
    BY <1>0, <1>2
  <2>3. ~(p > Len(pattern))
    BY <1>0, <1>2
  <2> QED BY <2>1, <2>2, <2>3 DEF LikeStep
<1> QED BY <1>0, <1>1, <1>2

LikeFrom(text, pattern, k, g) ==
  g = [p \in k .. Len(pattern) + 1 |-> LikeStep(text, pattern, g, p)]

\* The recursion of ILike has a solution, from every place of the pattern on.
LEMMA LikeExists ==
  ASSUME NEW text, NEW pattern \in Seq(Char)
  PROVE  \E g : LikeFrom(text, pattern, 1, g)
<1> DEFINE N == Len(pattern)
           T == {k \in 1 .. N + 2 : \E g : LikeFrom(text, pattern, k, g)}
<1>0. N \in Nat
  OBVIOUS
<1>1. N + 2 \in T
  <2> DEFINE g0 == [p \in {} |-> p]
  <2>1. (N + 2) .. (N + 1) = {}
    BY <1>0
  <2>2. g0 = [p \in (N + 2) .. (N + 1) |-> LikeStep(text, pattern, g0, p)]
    BY <2>1
  <2>3. LikeFrom(text, pattern, N + 2, g0)
    BY <2>2 DEF LikeFrom
  <2> QED BY <1>0, <2>3
<1>2. ASSUME NEW k \in 1 + 1 .. N + 2, k \in T PROVE k - 1 \in T
  <2>1. PICK g : LikeFrom(text, pattern, k, g)
    BY <1>2
  <2>2. k - 1 \in 1 .. N + 1
    BY <1>0
  <2> DEFINE h == [p \in k - 1 .. N + 1 |->
                     IF p = k - 1 THEN LikeStep(text, pattern, g, p) ELSE g[p]]
  <2>3. \A p \in k .. N + 1 : h[p] = g[p]
    BY <1>0, <2>2
  <2>4. ASSUME NEW p \in k - 1 .. N + 1 PROVE h[p] = LikeStep(text, pattern, h, p)
    <3>1. p \in 1 .. N + 1 /\ \A n \in p + 1 .. N + 1 : n \in k .. N + 1
      BY <1>0, <2>2, <2>4
    <3>2. \A n \in p + 1 .. N + 1 : h[n] = g[n]
      BY <2>3, <3>1
    <3>3. LikeStep(text, pattern, h, p) = LikeStep(text, pattern, g, p)
      <4> HIDE DEF h
      <4> QED BY <3>1, <3>2, LikeLocal
    <3>4. CASE p = k - 1
      BY <3>3, <3>4
    <3>5. CASE p # k - 1
      <4>1. p \in k .. N + 1
        BY <1>0, <2>2, <2>4, <3>5
      <4>2. g[p] = LikeStep(text, pattern, g, p)
        BY <2>1, <4>1 DEF LikeFrom
      <4> QED BY <2>3, <3>3, <4>1, <4>2
    <3> QED BY <3>4, <3>5
  <2>5. h = [p \in k - 1 .. N + 1 |-> LikeStep(text, pattern, h, p)]
    BY <2>4
  <2>6. LikeFrom(text, pattern, k - 1, h)
    <3> HIDE DEF h
    <3> QED BY <2>5 DEF LikeFrom
  <2> QED BY <1>0, <2>2, <2>6
<1>3. 1 \in T
  <2> HIDE DEF T
  <2>1. N + 2 \in Nat /\ 1 \in 1 .. N + 2
    BY <1>0
  <2> QED BY <1>0, <1>1, <1>2, <2>1, DownInduction
<1> QED BY <1>3

\* What ILike computes.
Like(text, pattern, match) ==
  /\ LikeFrom(text, pattern, 1, match)
  /\ ILike(text, pattern) <=> 1 \in match[1]

\* ILike is the recursion it is defined by.
LEMMA LikeMatch ==
  ASSUME NEW text, NEW pattern \in Seq(Char)
  PROVE  \E match : Like(text, pattern, match)
<1> DEFINE match == CHOOSE g : g = [p \in 1 .. Len(pattern) + 1 |-> LikeStep(text, pattern, g, p)]
<1>1. match = [p \in 1 .. Len(pattern) + 1 |-> LikeStep(text, pattern, match, p)]
  BY LikeExists DEF LikeFrom
<1>2. ILike(text, pattern) <=> 1 \in match[1]
  BY DEF ILike
<1> HIDE DEF match
<1> QED BY <1>1, <1>2 DEF Like, LikeFrom

------------------------------------------------------------------------------
(* FlattenSeq and the escaping of a text.                                  *)

\* flat is what FlattenSeq works out, piece by piece.
Flat(seqs, k, flat) ==
  flat = [i \in 1 .. k |-> IF i = 1 THEN seqs[i] ELSE flat[i - 1] \o seqs[i]]

\* There is such a sequence for every length.
LEMMA FlatExists ==
  ASSUME NEW seqs, NEW len \in Nat
  PROVE  \E flat : Flat(seqs, len, flat)
<1> DEFINE T == {k \in 0 .. len : \E flat : Flat(seqs, k, flat)}
<1>1. 0 \in T
  <2> DEFINE f0 == [p \in {} |-> p]
  <2>1. 1 .. 0 = {}
    OBVIOUS
  <2>2. f0 = [i \in 1 .. 0 |-> IF i = 1 THEN seqs[i] ELSE f0[i - 1] \o seqs[i]]
    BY <2>1
  <2>3. Flat(seqs, 0, f0)
    BY <2>2 DEF Flat
  <2> QED BY <2>3
<1>2. ASSUME NEW n \in 0 .. len - 1, n \in T PROVE n + 1 \in T
  <2>1. PICK f : Flat(seqs, n, f)
    BY <1>2
  <2> DEFINE h == [i \in 1 .. n + 1 |->
                     IF i \in 1 .. n THEN f[i] ELSE IF i = 1 THEN seqs[i] ELSE f[i - 1] \o seqs[i]]
  <2>3. \A i \in 1 .. n : h[i] = f[i]
    OBVIOUS
  <2>4. ASSUME NEW i \in 1 .. n + 1
        PROVE  h[i] = IF i = 1 THEN seqs[i] ELSE h[i - 1] \o seqs[i]
    <3>1. CASE i = 1
      <4>1. n >= 1 => f[1] = seqs[1]
        BY <2>1 DEF Flat
      <4> QED BY <3>1, <4>1
    <3>2. CASE i # 1
      <4>1. i - 1 \in 1 .. n /\ i \in Nat
        BY <2>4, <3>2
      <4>2. h[i - 1] = f[i - 1]
        BY <2>3, <4>1
      <4>3. i \in 1 .. n => f[i] = f[i - 1] \o seqs[i]
        BY <2>1, <3>2 DEF Flat
      <4>4. h[i] = f[i - 1] \o seqs[i]
        BY <3>2, <4>3
      <4> HIDE DEF h
      <4> QED BY <3>2, <4>2, <4>4
    <3> QED BY <3>1, <3>2
  <2>5. h = [i \in 1 .. n + 1 |-> IF i = 1 THEN seqs[i] ELSE h[i - 1] \o seqs[i]]
    BY <2>4
  <2>6. Flat(seqs, n + 1, h)
    <3> HIDE DEF h
    <3> QED BY <2>5 DEF Flat
  <2> QED BY <2>6
<1>3. len \in T
  <2> HIDE DEF T
  <2> QED BY <1>1, <1>2, UpInduction
<1> QED BY <1>3

\* FlattenSeq is the last one.
LEMMA FlattenIsFlat ==
  ASSUME NEW seqs, Len(seqs) \in Nat \ {0}
  PROVE  \E flat : Flat(seqs, Len(seqs), flat) /\ FlattenSeq(seqs) = flat[Len(seqs)]
<1> DEFINE flat == CHOOSE f : f = [i \in 1 .. Len(seqs) |->
                                     IF i = 1 THEN seqs[i] ELSE f[i - 1] \o seqs[i]]
<1>1. flat = [i \in 1 .. Len(seqs) |-> IF i = 1 THEN seqs[i] ELSE flat[i - 1] \o seqs[i]]
  BY FlatExists DEF Flat
<1>2. FlattenSeq(seqs) = flat[Len(seqs)]
  BY DEF FlattenSeq
<1> HIDE DEF flat
<1> QED BY <1>1, <1>2 DEF Flat

\* code is s with a backslash before each character of M; that of s[i] is at pos[i].
Coded(s, code, M, pos) ==
  /\ code \in Seq(Char)
  /\ pos \in [1 .. Len(s) + 1 -> Nat \ {0}]
  /\ pos[1] = 1 /\ pos[Len(s) + 1] = Len(code) + 1
  /\ \A i \in 1 .. Len(s) :
       IF s[i] \in M
       THEN /\ pos[i + 1] = pos[i] + 2 /\ pos[i] + 1 <= Len(code)
            /\ code[pos[i]] = "\\" /\ code[pos[i] + 1] = s[i]
       ELSE /\ pos[i + 1] = pos[i] + 1 /\ pos[i] <= Len(code)
            /\ code[pos[i]] = s[i]

\* One more piece.
LEMMA CodedStep ==
  ASSUME NEW s \in Seq(Char), NEW e1, NEW e2, NEW M, NEW c, NEW p1, NEW p2,
         "\\" \in M, c \notin M,
         Coded(s, e1, M, p1), Coded(e1, e2, {c}, p2)
  PROVE  \E pos : Coded(s, e2, M \cup {c}, pos)
<1> DEFINE pos == [i \in 1 .. Len(s) + 1 |-> p2[p1[i]]]
<1>0. Len(s) \in Nat /\ Len(e1) \in Nat /\ Len(e2) \in Nat /\ c # "\\"
  BY DEF Coded
<1>1. \A i \in 1 .. Len(s) : p1[i] \in Nat \ {0} /\ p1[i + 1] \in Nat \ {0} /\ p1[i] <= Len(e1)
  <2> TAKE i \in 1 .. Len(s)
  <2>1. i \in 1 .. Len(s) + 1 /\ i + 1 \in 1 .. Len(s) + 1
    BY <1>0
  <2>2. p1[i] \in Nat \ {0} /\ p1[i + 1] \in Nat \ {0}
    BY <2>1 DEF Coded
  <2>3. p1[i] <= Len(e1) \/ p1[i] + 1 <= Len(e1)
    BY DEF Coded
  <2> QED BY <1>0, <2>2, <2>3
<1>2. p1[Len(s) + 1] = Len(e1) + 1 /\ p1[1] = 1
  BY DEF Coded
<1>3. \A i \in 1 .. Len(s) + 1 : p1[i] \in 1 .. Len(e1) + 1
  <2> TAKE i \in 1 .. Len(s) + 1
  <2>1. i \in 1 .. Len(s) \/ i = Len(s) + 1
    BY <1>0
  <2> QED BY <1>0, <1>1, <1>2, <2>1
<1>4. p2 \in [1 .. Len(e1) + 1 -> Nat \ {0}]
  BY DEF Coded
<1>5. pos \in [1 .. Len(s) + 1 -> Nat \ {0}]
  BY <1>3, <1>4
<1>6. pos[1] = 1 /\ pos[Len(s) + 1] = Len(e2) + 1
  BY <1>0, <1>2 DEF Coded
<1>7. ASSUME NEW i \in 1 .. Len(s)
      PROVE  IF s[i] \in M \cup {c}
             THEN /\ pos[i + 1] = pos[i] + 2 /\ pos[i] + 1 <= Len(e2)
                  /\ e2[pos[i]] = "\\" /\ e2[pos[i] + 1] = s[i]
             ELSE /\ pos[i + 1] = pos[i] + 1 /\ pos[i] <= Len(e2)
                  /\ e2[pos[i]] = s[i]
  <2> DEFINE a == p1[i]
  <2>1. a \in 1 .. Len(e1) /\ pos[i] = p2[a] /\ pos[i + 1] = p2[p1[i + 1]]
    BY <1>0, <1>1
  <2>2. CASE s[i] \in M
    <3>1. p1[i + 1] = a + 2 /\ a + 1 <= Len(e1) /\ e1[a] = "\\" /\ e1[a + 1] = s[i]
      BY <2>2 DEF Coded
    <3> HIDE DEF a, pos
    <3>2. p2[a + 1] = p2[a] + 1 /\ p2[a] <= Len(e2) /\ e2[p2[a]] = "\\"
      BY <1>0, <2>1, <3>1 DEF Coded
    <3>3. a + 1 \in 1 .. Len(e1) /\ (a + 1) + 1 = a + 2 /\ s[i] # c
      BY <1>0, <2>1, <2>2, <3>1
    <3>4. p2[a + 2] = p2[a + 1] + 1 /\ p2[a + 1] <= Len(e2) /\ e2[p2[a + 1]] = s[i]
      BY <3>1, <3>3 DEF Coded
    <3>5. p2[a] \in Nat
      BY <1>4, <2>1
    <3> QED BY <2>1, <2>2, <3>1, <3>2, <3>4, <3>5
  <2>3. CASE s[i] \notin M
    <3>1. p1[i + 1] = a + 1 /\ e1[a] = s[i]
      BY <2>3 DEF Coded
    <3> HIDE DEF a, pos
    <3>2. CASE s[i] = c
      BY <2>1, <3>1, <3>2 DEF Coded
    <3>3. CASE s[i] # c
      BY <2>1, <2>3, <3>1, <3>3 DEF Coded
    <3> QED BY <3>2, <3>3
  <2> QED BY <2>2, <2>3
<1>8. e2 \in Seq(Char)
  BY DEF Coded
<1> HIDE DEF pos
<1>9. Coded(s, e2, M \cup {c}, pos)
  BY <1>5, <1>6, <1>7, <1>8 DEF Coded
<1> QED BY <1>9

\* What Escaped puts together.
Pieces(s, c) == [i \in DOMAIN s |-> IF s[i] = c THEN <<"\\", c>> ELSE <<s[i]>>]

\* The pieces of a text one after the other are its code.
LEMMA FlatCoded ==
  ASSUME NEW s \in Seq(Char), NEW c \in Char, s # <<>>, NEW f, NEW seqs,
         seqs = Pieces(s, c), Flat(seqs, Len(s), f)
  PROVE  \E pos : Coded(s, f[Len(s)], {c}, pos)
<1> DEFINE N == Len(s)
           pos == [i \in 1 .. N + 1 |-> IF i = 1 THEN 1 ELSE Len(f[i - 1]) + 1]
<1>0. N \in Nat \ {0} /\ DOMAIN s = 1 .. N /\ \A i \in 1 .. N : s[i] \in Char
  BY EmptySeq
<1>1. \A i \in 1 .. N : /\ seqs[i] \in Seq(Char)
                        /\ s[i] = c => Len(seqs[i]) = 2 /\ seqs[i][1] = "\\" /\ seqs[i][2] = c
                        /\ s[i] # c => Len(seqs[i]) = 1 /\ seqs[i][1] = s[i]
  <2> TAKE i \in 1 .. N
  <2>1. seqs[i] = IF s[i] = c THEN <<"\\", c>> ELSE <<s[i]>>
    BY <1>0 DEF Pieces
  <2>2. "\\" \in Char /\ s[i] \in Char
    BY <1>0 DEF Char
  <2>3. CASE s[i] = c
    <3>1. seqs[i] = <<"\\", c>>
      BY <2>1, <2>3
    <3>2. Len(<<"\\", c>>) = 2 /\ <<"\\", c>>[1] = "\\" /\ <<"\\", c>>[2] = c
      OBVIOUS
    <3>3. <<"\\", c>> \in Seq(Char)
      BY <2>2
    <3> QED BY <2>3, <3>1, <3>2, <3>3
  <2>4. CASE s[i] # c
    <3>1. seqs[i] = <<s[i]>>
      BY <2>1, <2>4
    <3>2. Len(<<s[i]>>) = 1 /\ <<s[i]>>[1] = s[i]
      OBVIOUS
    <3>3. <<s[i]>> \in Seq(Char)
      BY <2>2
    <3> QED BY <2>4, <3>1, <3>2, <3>3
  <2> QED BY <2>3, <2>4
<1>2. f[1] = seqs[1] /\ \A i \in 1 .. N - 1 : f[i + 1] = f[i] \o seqs[i + 1]
  <2>1. ASSUME NEW i \in 1 .. N PROVE f[i] = IF i = 1 THEN seqs[i] ELSE f[i - 1] \o seqs[i]
    BY DEF Flat
  <2>2. ASSUME NEW i \in 1 .. N - 1 PROVE f[i + 1] = f[i] \o seqs[i + 1]
    <3>1. i + 1 \in 1 .. N /\ i + 1 # 1 /\ (i + 1) - 1 = i
      BY <1>0
    <3>2. f[i + 1] = f[(i + 1) - 1] \o seqs[i + 1]
      BY <2>1, <3>1
    <3> QED BY <3>1, <3>2
  <2>3. 1 \in 1 .. N
    BY <1>0
  <2> QED BY <2>1, <2>2, <2>3
<1>3. \A i \in 1 .. N : f[i] \in Seq(Char)
  <2> DEFINE T == {i \in 1 .. N : f[i] \in Seq(Char)}
  <2>1. 1 \in T
    BY <1>0, <1>1, <1>2
  <2>2. ASSUME NEW i \in 1 .. N - 1, i \in T PROVE i + 1 \in T
    <3>1. i + 1 \in 1 .. N /\ seqs[i + 1] \in Seq(Char)
      BY <1>0, <1>1
    <3>2. f[i] \o seqs[i + 1] \in Seq(Char)
      BY <2>2, <3>1, ConcatProperties
    <3> QED BY <1>2, <3>1, <3>2
  <2> HIDE DEF T
  <2>3. \A i \in 1 .. N : i \in T
    BY <1>0, <2>1, <2>2, UpInduction
  <2> QED BY <2>3 DEF T
<1>4. \A i \in 1 .. N : Len(f[i]) \in Nat
  BY <1>3
<1>5. ASSUME NEW i \in 1 .. N - 1
      PROVE  /\ Len(f[i + 1]) = Len(f[i]) + Len(seqs[i + 1])
             /\ \A k \in 1 .. Len(f[i]) : f[i + 1][k] = f[i][k]
             /\ \A k \in 1 .. Len(seqs[i + 1]) : f[i + 1][Len(f[i]) + k] = seqs[i + 1][k]
  <2>1. i \in 1 .. N /\ i + 1 \in 1 .. N
    BY <1>0
  <2>2. f[i] \in Seq(Char) /\ seqs[i + 1] \in Seq(Char) /\ f[i + 1] = f[i] \o seqs[i + 1]
    BY <1>1, <1>2, <1>3, <2>1
  <2> DEFINE u == f[i]
             v == seqs[i + 1]
  <2>9. u \in Seq(Char) /\ v \in Seq(Char)
    BY <2>2
  <2>10. f[i + 1] = u \o v
    BY <2>2
  <2> HIDE DEF u, v
  <2>3. /\ Len(u \o v) = Len(u) + Len(v)
        /\ \A k \in 1 .. Len(u) + Len(v) :
             (u \o v)[k] = IF k <= Len(u) THEN u[k] ELSE v[k - Len(u)]
    BY <2>9, ConcatProperties
  <2>4. Len(u) \in Nat /\ Len(v) \in Nat
    BY <2>9
  <2>6. \A k \in 1 .. Len(u) : (u \o v)[k] = u[k]
    BY <2>3, <2>4
  <2>7. \A k \in 1 .. Len(v) : (u \o v)[Len(u) + k] = v[k]
    <3> TAKE k \in 1 .. Len(v)
    <3>1. Len(u) + k \in 1 .. Len(u) + Len(v) /\ ~(Len(u) + k <= Len(u)) /\ Len(u) + k - Len(u) = k
      BY <2>4
    <3> QED BY <2>3, <3>1
  <2>8. /\ Len(f[i + 1]) = Len(u) + Len(v)
        /\ \A k \in 1 .. Len(u) : f[i + 1][k] = u[k]
        /\ \A k \in 1 .. Len(v) : f[i + 1][Len(u) + k] = v[k]
    BY <2>3, <2>6, <2>7, <2>10
  <2> QED BY <2>8 DEF u, v
<1>6. \A i \in 1 .. N : \A j \in i .. N :
        Len(f[i]) <= Len(f[j]) /\ \A k \in 1 .. Len(f[i]) : f[j][k] = f[i][k]
  <2> TAKE i \in 1 .. N
  <2> DEFINE T == {j \in i .. N : Len(f[i]) <= Len(f[j]) /\ \A k \in 1 .. Len(f[i]) : f[j][k] = f[i][k]}
  <2>1. i \in T
    BY <1>0, <1>4
  <2>2. ASSUME NEW j \in i .. N - 1, j \in T PROVE j + 1 \in T
    <3>1. j \in 1 .. N - 1 /\ j \in 1 .. N /\ j + 1 \in 1 .. N /\ j + 1 \in i .. N
      BY <1>0
    <3>2. Len(seqs[j + 1]) \in Nat /\ Len(f[i]) \in Nat /\ Len(f[j]) \in Nat /\ Len(f[j + 1]) \in Nat
      BY <1>1, <1>4, <3>1
    <3>3. Len(f[j + 1]) = Len(f[j]) + Len(seqs[j + 1]) /\ \A k \in 1 .. Len(f[j]) : f[j + 1][k] = f[j][k]
      BY <1>5, <3>1
    <3>4. Len(f[i]) <= Len(f[j]) /\ \A k \in 1 .. Len(f[i]) : f[j][k] = f[i][k]
      BY <2>2
    <3>5. Len(f[i]) <= Len(f[j + 1])
      <4>1. Len(f[j + 1]) = Len(f[j]) + Len(seqs[j + 1]) /\ Len(f[i]) <= Len(f[j])
        BY <3>3, <3>4
      <4>2. \A x, y, z, w \in Nat : w = z + y /\ x <= z => x <= w
        OBVIOUS
      <4> HIDE DEF T
      <4> QED BY <3>2, <4>1, <4>2
    <3>6. \A k \in 1 .. Len(f[i]) : k \in 1 .. Len(f[j])
      BY <3>2, <3>4
    <3> QED BY <3>1, <3>3, <3>4, <3>5, <3>6
  <2> HIDE DEF T
  <2>3. \A j \in i .. N : j \in T
    <3>1. i \in Nat
      BY <1>0
    <3> QED BY <1>0, <2>1, <2>2, <3>1, UpInduction
  <2> QED BY <2>3 DEF T
<1>7. pos \in [1 .. N + 1 -> Nat \ {0}]
  BY <1>0, <1>4
<1>8. pos[1] = 1 /\ pos[N + 1] = Len(f[N]) + 1
  BY <1>0
<1>9. ASSUME NEW i \in 1 .. N
      PROVE  /\ pos[i + 1] = pos[i] + Len(seqs[i]) /\ pos[i] + Len(seqs[i]) <= Len(f[N]) + 1
             /\ \A k \in 1 .. Len(seqs[i]) : f[N][pos[i] + k - 1] = seqs[i][k]
  <2>1. pos[i + 1] = Len(f[i]) + 1
    BY <1>0
  <2>2. Len(f[i]) <= Len(f[N]) /\ \A k \in 1 .. Len(f[i]) : f[N][k] = f[i][k]
    BY <1>0, <1>6
  <2>3. Len(seqs[i]) \in Nat /\ Len(f[i]) \in Nat /\ Len(f[N]) \in Nat /\ pos[i] \in Nat
    BY <1>0, <1>1, <1>4, <1>7
  <2>4. /\ Len(f[i]) + 1 = pos[i] + Len(seqs[i])
        /\ \A k \in 1 .. Len(seqs[i]) : f[i][pos[i] + k - 1] = seqs[i][k]
    <3>1. CASE i = 1
      <4>1. pos[i] = 1 /\ f[i] = seqs[i]
        BY <1>0, <1>2, <3>1
      <4> HIDE DEF pos
      <4> QED BY <2>3, <4>1
    <3>2. CASE i # 1
      <4>1. PICK h \in 1 .. N - 1 : i = h + 1
        <5>1. i - 1 \in 1 .. N - 1 /\ i = (i - 1) + 1
          BY <1>0, <3>2
        <5> QED BY <5>1
      <4>2. pos[i] = Len(f[h]) + 1 /\ Len(f[h]) \in Nat
        <5>1. h \in 1 .. N /\ i - 1 = h /\ i \in 1 .. N + 1
          BY <1>0, <4>1
        <5> QED BY <1>4, <3>2, <5>1
      <4>3. /\ Len(f[i]) = Len(f[h]) + Len(seqs[i])
            /\ \A k \in 1 .. Len(seqs[i]) : f[i][Len(f[h]) + k] = seqs[i][k]
        BY <1>5, <4>1
      <4> HIDE DEF pos
      <4>4. ASSUME NEW k \in 1 .. Len(seqs[i]) PROVE f[i][pos[i] + k - 1] = seqs[i][k]
        <5>1. pos[i] + k - 1 = Len(f[h]) + k
          BY <2>3, <4>2
        <5> QED BY <4>3, <5>1
      <4>5. Len(f[i]) + 1 = pos[i] + Len(seqs[i])
        <5>1. Len(f[i]) = Len(f[h]) + Len(seqs[i])
          BY <4>3
        <5>2. Len(f[i]) + 1 = (Len(f[h]) + 1) + Len(seqs[i])
          <6> DEFINE x == Len(f[i])
                     y == Len(f[h])
                     z == Len(seqs[i])
          <6>1. x \in Nat /\ y \in Nat /\ z \in Nat /\ x = y + z
            BY <2>3, <4>2, <5>1
          <6> HIDE DEF x, y, z
          <6>2. x + 1 = (y + 1) + z
            BY <6>1
          <6> QED BY <6>2 DEF x, y, z
        <5> QED BY <4>2, <5>2
      <4> QED BY <4>4, <4>5
    <3> QED BY <3>1, <3>2
  <2> HIDE DEF pos
  <2>5. \A k \in 1 .. Len(seqs[i]) : pos[i] + k - 1 \in 1 .. Len(f[i])
    <3>1. pos[i] >= 1
      BY <1>7, <2>3, <1>0
    <3> QED BY <2>3, <2>4, <3>1
  <2>6. \A k \in 1 .. Len(seqs[i]) : f[N][pos[i] + k - 1] = seqs[i][k]
    BY <2>2, <2>4, <2>5
  <2>7. pos[i + 1] = pos[i] + Len(seqs[i]) /\ pos[i] + Len(seqs[i]) <= Len(f[N]) + 1
    BY <2>1, <2>2, <2>3, <2>4
  <2> QED BY <2>6, <2>7
<1> HIDE DEF pos
<1>10. ASSUME NEW i \in 1 .. N
       PROVE  IF s[i] \in {c}
              THEN /\ pos[i + 1] = pos[i] + 2 /\ pos[i] + 1 <= Len(f[N])
                   /\ f[N][pos[i]] = "\\" /\ f[N][pos[i] + 1] = s[i]
              ELSE /\ pos[i + 1] = pos[i] + 1 /\ pos[i] <= Len(f[N])
                   /\ f[N][pos[i]] = s[i]
  <2>1. pos[i] \in Nat /\ Len(f[N]) \in Nat
    BY <1>0, <1>4, <1>7
  <2>2. pos[i] + 1 - 1 = pos[i] /\ pos[i] + 2 - 1 = pos[i] + 1
    BY <2>1
  <2>3. CASE s[i] = c
    <3>1. Len(seqs[i]) = 2 /\ seqs[i][1] = "\\" /\ seqs[i][2] = c
      BY <1>1, <2>3
    <3>2. 1 \in 1 .. Len(seqs[i]) /\ 2 \in 1 .. Len(seqs[i])
      BY <3>1
    <3>3. f[N][pos[i]] = "\\" /\ f[N][pos[i] + 1] = c
      BY <1>9, <2>2, <3>1, <3>2
    <3>4. pos[i + 1] = pos[i] + 2 /\ pos[i] + 2 <= Len(f[N]) + 1
      BY <1>9, <3>1
    <3> QED BY <2>1, <2>3, <3>3, <3>4
  <2>4. CASE s[i] # c
    <3>1. Len(seqs[i]) = 1 /\ seqs[i][1] = s[i]
      BY <1>1, <2>4
    <3>2. 1 \in 1 .. Len(seqs[i])
      BY <3>1
    <3>3. f[N][pos[i]] = s[i]
      BY <1>9, <2>2, <3>1, <3>2
    <3>4. pos[i + 1] = pos[i] + 1 /\ pos[i] + 1 <= Len(f[N]) + 1
      BY <1>9, <3>1
    <3> QED BY <2>1, <2>4, <3>3, <3>4
  <2> QED BY <2>3, <2>4
<1>11. f[N] \in Seq(Char)
  BY <1>0, <1>3
<1>12. Coded(s, f[N], {c}, pos)
  BY <1>7, <1>8, <1>10, <1>11 DEF Coded
<1> QED BY <1>12

\* Escaped codes one more character.
LEMMA EscapedCoded ==
  ASSUME NEW s \in Seq(Char), NEW c \in Char
  PROVE  \E pos : Coded(s, Escaped(s, c), {c}, pos)
<1>1. Escaped(s, c) = FlattenSeq(Pieces(s, c))
  BY DEF Escaped, Pieces
<1>2. DOMAIN s = 1 .. Len(s) /\ Len(s) \in Nat
  OBVIOUS
<1>3. Len(Pieces(s, c)) = Len(s)
  BY <1>2 DEF Pieces
<1>4. CASE s = <<>>
  <2> DEFINE pos == [i \in 1 .. Len(s) + 1 |-> 1]
  <2>1. Len(s) = 0 /\ 1 .. Len(s) = {} /\ 1 .. Len(s) + 1 = {1}
    BY <1>4
  <2>2. Pieces(s, c) = <<>>
    BY <1>2, <2>1 DEF Pieces
  <2>3. Escaped(s, c) = <<>>
    BY <1>1, <2>2 DEF FlattenSeq
  <2>4. <<>> \in Seq(Char) /\ Len(<<>>) = 0
    OBVIOUS
  <2>5. pos \in [1 .. Len(s) + 1 -> Nat \ {0}] /\ pos[1] = 1
    BY <2>1
  <2>6. Coded(s, Escaped(s, c), {c}, pos)
    <3> HIDE DEF pos
    <3> QED BY <2>1, <2>3, <2>4, <2>5 DEF Coded
  <2> QED BY <2>6
<1>5. CASE s # <<>>
  <2>1. Len(s) \in Nat \ {0}
    BY <1>5, EmptySeq
  <2>2. PICK f : Flat(Pieces(s, c), Len(s), f) /\ FlattenSeq(Pieces(s, c)) = f[Len(s)]
    BY <1>3, <2>1, FlattenIsFlat
  <2>3. PICK pos : Coded(s, f[Len(s)], {c}, pos)
    BY <1>5, <2>2, FlatCoded
  <2> QED BY <1>1, <2>2, <2>3
<1> QED BY <1>4, <1>5

\* The characters that a pattern gives a meaning.
Special == {"\\", "%", "_"}

\* The three of them code what has a meaning in a pattern.
LEMMA EscapeLikeCoded ==
  ASSUME NEW s \in Seq(Char)
  PROVE  \E pos : Coded(s, EscapeLike(s), Special, pos)
<1> DEFINE e1 == Escaped(s, "\\")
           e2 == Escaped(e1, "%")
           e3 == Escaped(e2, "_")
<1>0. "\\" \in Char /\ "%" \in Char /\ "_" \in Char /\ "\\" # "%" /\ "\\" # "_" /\ "%" # "_"
  BY DEF Char
<1>1. PICK p1 : Coded(s, e1, {"\\"}, p1)
  BY <1>0, EscapedCoded
<1>2. e1 \in Seq(Char)
  BY <1>1 DEF Coded
<1>3. PICK p2 : Coded(e1, e2, {"%"}, p2)
  <2> HIDE DEF e1
  <2> QED BY <1>0, <1>2, EscapedCoded
<1>4. e2 \in Seq(Char)
  BY <1>3 DEF Coded
<1>5. PICK p3 : Coded(e2, e3, {"_"}, p3)
  <2> HIDE DEF e2
  <2> QED BY <1>0, <1>4, EscapedCoded
<1>6. EscapeLike(s) = e3
  BY DEF EscapeLike
<1> HIDE DEF e1, e2, e3
<1> DEFINE M1 == {"\\"}
           M2 == M1 \cup {"%"}
<1>7. "\\" \in M1 /\ "%" \notin M1 /\ "\\" \in M2 /\ "_" \notin M2 /\ M2 \cup {"_"} = Special
  BY <1>0 DEF Special
<1>8. Coded(s, e1, M1, p1)
  BY <1>1
<1> HIDE DEF M1
<1>9. PICK q2 : Coded(s, e2, M2, q2)
  BY <1>3, <1>7, <1>8, CodedStep
<1> HIDE DEF M2
<1>10. PICK q3 : Coded(s, e3, M2 \cup {"_"}, q3)
  BY <1>5, <1>7, <1>9, CodedStep
<1> QED BY <1>6, <1>7, <1>10

------------------------------------------------------------------------------
(* A pattern made of a text matches where the text stands.                 *)

\* What is left of q stands in text from t on, up to the end or not.
Stands(text, q, i, t) ==
  /\ t + (Len(q) - i) <= Len(text)
  /\ \A j \in i .. Len(q) : Lower(text[t + (j - i)]) = Lower(q[j])

\* A character, and then the rest.
LEMMA StandsStep ==
  ASSUME NEW text \in Seq(Char), NEW q \in Seq(Char), NEW i \in 1 .. Len(q), NEW t \in Nat \ {0}
  PROVE  Stands(text, q, i, t) <=>
           /\ t <= Len(text) /\ Lower(text[t]) = Lower(q[i])
           /\ Stands(text, q, i + 1, t + 1)
<1>0. Len(text) \in Nat /\ Len(q) \in Nat
  OBVIOUS
<1>1. ASSUME Stands(text, q, i, t)
      PROVE  /\ t <= Len(text) /\ Lower(text[t]) = Lower(q[i])
             /\ Stands(text, q, i + 1, t + 1)
  <2>1. t <= Len(text)
    BY <1>0, <1>1 DEF Stands
  <2>2. Lower(text[t]) = Lower(q[i])
    <3>1. i \in i .. Len(q) /\ t + (i - i) = t
      BY <1>0
    <3> QED BY <1>1, <3>1 DEF Stands
  <2>3. (t + 1) + (Len(q) - (i + 1)) <= Len(text)
    BY <1>0, <1>1 DEF Stands
  <2>4. ASSUME NEW j \in i + 1 .. Len(q) PROVE Lower(text[(t + 1) + (j - (i + 1))]) = Lower(q[j])
    <3>1. j \in i .. Len(q) /\ (t + 1) + (j - (i + 1)) = t + (j - i)
      BY <1>0
    <3> QED BY <1>1, <3>1 DEF Stands
  <2> QED BY <2>1, <2>2, <2>3, <2>4 DEF Stands
<1>2. ASSUME t <= Len(text), Lower(text[t]) = Lower(q[i]), Stands(text, q, i + 1, t + 1)
      PROVE  Stands(text, q, i, t)
  <2>1. t + (Len(q) - i) <= Len(text)
    BY <1>0, <1>2 DEF Stands
  <2>2. ASSUME NEW j \in i .. Len(q) PROVE Lower(text[t + (j - i)]) = Lower(q[j])
    <3>1. CASE j = i
      <4>1. t + (j - i) = t
        BY <1>0, <3>1
      <4> QED BY <1>2, <3>1, <4>1
    <3>2. CASE j # i
      <4>1. j \in i + 1 .. Len(q) /\ (t + 1) + (j - (i + 1)) = t + (j - i)
        BY <1>0, <3>2
      <4> QED BY <1>2, <4>1 DEF Stands
    <3> QED BY <3>1, <3>2
  <2> QED BY <2>1, <2>2 DEF Stands
<1> QED BY <1>1, <1>2

\* Holds looks for a place where all of q stands.
LEMMA HoldsIsStands ==
  ASSUME NEW text \in Seq(Char), NEW q \in Seq(Char)
  PROVE  Holds(text, q) <=> \E t \in 1 .. Len(text) + 1 : Stands(text, q, 1, t)
<1>0. Len(text) \in Nat /\ Len(q) \in Nat /\ DOMAIN q = 1 .. Len(q)
  OBVIOUS
<1>1. ASSUME NEW from \in 0 .. Len(text) - Len(q),
             \A i \in DOMAIN q : Lower(text[from + i]) = Lower(q[i])
      PROVE  \E t \in 1 .. Len(text) + 1 : Stands(text, q, 1, t)
  <2>1. from + 1 \in 1 .. Len(text) + 1 /\ (from + 1) + (Len(q) - 1) <= Len(text)
    BY <1>0
  <2>2. ASSUME NEW j \in 1 .. Len(q) PROVE Lower(text[(from + 1) + (j - 1)]) = Lower(q[j])
    <3>1. (from + 1) + (j - 1) = from + j
      BY <1>0
    <3> QED BY <1>0, <1>1, <3>1
  <2>3. Stands(text, q, 1, from + 1)
    BY <2>1, <2>2 DEF Stands
  <2> QED BY <2>1, <2>3
<1>2. ASSUME NEW t \in 1 .. Len(text) + 1, Stands(text, q, 1, t)
      PROVE  Holds(text, q)
  <2>1. t - 1 \in 0 .. Len(text) - Len(q)
    BY <1>0, <1>2 DEF Stands
  <2>2. ASSUME NEW i \in DOMAIN q PROVE Lower(text[(t - 1) + i]) = Lower(q[i])
    <3>1. i \in 1 .. Len(q) /\ (t - 1) + i = t + (i - 1)
      BY <1>0
    <3> QED BY <1>2, <3>1 DEF Stands
  <2> QED BY <2>1, <2>2 DEF Holds
<1>3. Holds(text, q) <=> \E from \in 0 .. Len(text) - Len(q) :
                           \A i \in DOMAIN q : Lower(text[from + i]) = Lower(q[i])
  BY DEF Holds
<1> QED BY <1>1, <1>2, <1>3

LEMMA LowerSpecial ==
  ASSUME NEW a \in Char, NEW b \in Special
  PROVE  Lower(a) = Lower(b) <=> a = b
BY DEF Char, Special, Lower

\* From the code of the i-th character on, the pattern matches what holds the rest of q.
LEMMA MatchesCode ==
  ASSUME NEW text \in Seq(Char), NEW q \in Seq(Char), NEW code, NEW pos, NEW pattern, NEW match,
         Coded(q, code, Special, pos), pattern = <<"%">> \o code \o <<"%">>,
         LikeFrom(text, pattern, 1, match)
  PROVE  1 \in match[1] <=> \E t \in 1 .. Len(text) + 1 : Stands(text, q, 1, t)
<1> DEFINE L == Len(code)
           T == Len(text) + 1
<1>0. /\ Len(text) \in Nat /\ Len(q) \in Nat /\ L \in Nat /\ code \in Seq(Char) /\ T \in Nat \ {0} /\ T = Len(text) + 1
      /\ \A i \in 1 .. Len(text) : text[i] \in Char
      /\ \A i \in 1 .. Len(q) : q[i] \in Char
  BY DEF Coded
<1>1. /\ Len(pattern) = L + 2 /\ pattern[1] = "%" /\ pattern[L + 2] = "%"
      /\ \A k \in 1 .. L : pattern[k + 1] = code[k]
  <2>1. "%" \in Char
    BY DEF Char
  <2>2. <<"%">> \in Seq(Char) /\ Len(<<"%">>) = 1 /\ <<"%">>[1] = "%"
    BY <2>1
  <2> DEFINE u == <<"%">> \o code
  <2>3. /\ u \in Seq(Char) /\ Len(u) = 1 + L
        /\ \A k \in 1 .. 1 + L : u[k] = IF k <= 1 THEN <<"%">>[k] ELSE code[k - 1]
    BY <1>0, <2>2, ConcatProperties
  <2> HIDE DEF u
  <2>4. /\ Len(u \o <<"%">>) = Len(u) + 1
        /\ \A k \in 1 .. Len(u) + 1 : (u \o <<"%">>)[k] = IF k <= Len(u) THEN u[k] ELSE <<"%">>[k - Len(u)]
    BY <2>2, <2>3, ConcatProperties
  <2>5. pattern = u \o <<"%">>
    BY DEF u
  <2> HIDE DEF L
  <2>6. Len(pattern) = L + 2
    BY <1>0, <2>3, <2>4, <2>5
  <2>7. pattern[1] = "%"
    <3>1. 1 \in 1 .. Len(u) + 1 /\ 1 <= Len(u) /\ 1 \in 1 .. 1 + L
      BY <1>0, <2>3
    <3> QED BY <2>2, <2>3, <2>4, <2>5, <3>1
  <2>8. pattern[L + 2] = "%"
    <3>1. L + 2 \in 1 .. Len(u) + 1 /\ ~(L + 2 <= Len(u)) /\ (L + 2) - Len(u) = 1
      BY <1>0, <2>3
    <3> QED BY <2>2, <2>4, <2>5, <3>1
  <2>9. ASSUME NEW k \in 1 .. L PROVE pattern[k + 1] = code[k]
    <3>1. k + 1 \in 1 .. Len(u) + 1 /\ k + 1 <= Len(u) /\ k + 1 \in 1 .. 1 + L /\ ~(k + 1 <= 1) /\ (k + 1) - 1 = k
      BY <1>0, <2>3
    <3> QED BY <2>3, <2>4, <2>5, <3>1
  <2> QED BY <2>6, <2>7, <2>8, <2>9
<1> HIDE DEF L, T
<1>2. \A p \in 1 .. L + 3 : match[p] = LikeStep(text, pattern, match, p)
  <2>1. \A p \in 1 .. Len(pattern) + 1 : match[p] = LikeStep(text, pattern, match, p)
    BY DEF LikeFrom
  <2>2. Len(pattern) + 1 = L + 3
    BY <1>0, <1>1
  <2> QED BY <2>1, <2>2
<1>3. match[L + 3] = {T}
  <2>1. match[L + 3] = LikeStep(text, pattern, match, L + 3)
    BY <1>0, <1>2
  <2>2. L + 3 > Len(pattern)
    BY <1>0, <1>1
  <2> QED BY <1>0, <2>1, <2>2 DEF LikeStep
<1>4. match[L + 2] = 1 .. T
  <2>1. match[L + 2] = LikeStep(text, pattern, match, L + 2)
    BY <1>0, <1>2
  <2>2. ~(L + 2 > Len(pattern)) /\ (L + 2) + 1 = L + 3
    BY <1>0, <1>1
  <2>3. match[L + 2] = {t \in 1 .. T : \E u \in match[L + 3] : t <= u}
    BY <1>0, <1>1, <2>1, <2>2 DEF LikeStep
  <2> QED BY <1>0, <1>3, <2>3
<1>5. \A i \in 1 .. Len(q) + 1 : pos[i] \in Nat \ {0}
  BY <1>0 DEF Coded
<1>6. ASSUME NEW i \in 1 .. Len(q), NEW t \in 1 .. T
      PROVE  t \in match[pos[i] + 1] <=>
               t <= Len(text) /\ Lower(text[t]) = Lower(q[i]) /\ t + 1 \in match[pos[i + 1] + 1]
  <2> DEFINE a == pos[i]
  <2>0. a \in Nat \ {0} /\ i + 1 \in 1 .. Len(q) + 1
    BY <1>0, <1>5
  <2>1. CASE q[i] \in Special
    <3>1. pos[i + 1] = a + 2 /\ a + 1 <= L /\ code[a] = "\\" /\ code[a + 1] = q[i]
      BY <2>1 DEF Coded, L
    <3> HIDE DEF a
    <3>2. pattern[a + 1] = "\\" /\ pattern[(a + 1) + 1] = q[i]
      BY <1>0, <1>1, <2>0, <3>1
    <3>3. /\ a + 1 \in 1 .. L + 3 /\ ~(a + 1 > Len(pattern)) /\ a + 1 < Len(pattern)
          /\ (a + 1) + 2 = pos[i + 1] + 1
      BY <1>0, <1>1, <2>0, <3>1
    <3>4. match[a + 1] = LikeStep(text, pattern, match, a + 1)
      BY <1>2, <3>3
    <3>5. "\\" # "%" /\ "\\" # "_"
      OBVIOUS
    <3>6. match[a + 1] = {v \in {w \in 1 .. Len(text) : w + 1 \in match[(a + 1) + 2]} :
                            pattern[(a + 1) + 1] = text[v]}
      BY <3>2, <3>3, <3>4, <3>5 DEF LikeStep
    <3>7. t \in match[a + 1] <=> t \in 1 .. Len(text) /\ t + 1 \in match[pos[i + 1] + 1] /\ q[i] = text[t]
      BY <3>2, <3>3, <3>6
    <3>8. t \in 1 .. Len(text) => (q[i] = text[t] <=> Lower(text[t]) = Lower(q[i]))
      BY <1>0, <2>1, LowerSpecial
    <3>9. t <= Len(text) <=> t \in 1 .. Len(text)
      BY <1>0
    <3> QED BY <3>7, <3>8, <3>9 DEF a
  <2>2. CASE q[i] \notin Special
    <3>1. pos[i + 1] = a + 1 /\ a <= L /\ code[a] = q[i]
      BY <2>2 DEF Coded, L
    <3> HIDE DEF a
    <3>2. pattern[a + 1] = q[i]
      BY <1>0, <1>1, <2>0, <3>1
    <3>3. a + 1 \in 1 .. L + 3 /\ ~(a + 1 > Len(pattern)) /\ (a + 1) + 1 = pos[i + 1] + 1
      BY <1>0, <1>1, <2>0, <3>1
    <3>4. match[a + 1] = LikeStep(text, pattern, match, a + 1)
      BY <1>2, <3>3
    <3>5. q[i] # "%" /\ q[i] # "_" /\ q[i] # "\\"
      BY <2>2 DEF Special
    <3>6. match[a + 1] = {v \in {w \in 1 .. Len(text) : w + 1 \in match[(a + 1) + 1]} :
                            Lower(pattern[a + 1]) = Lower(text[v])}
      BY <3>2, <3>3, <3>4, <3>5 DEF LikeStep
    <3>7. t \in match[a + 1] <=> t \in 1 .. Len(text) /\ t + 1 \in match[pos[i + 1] + 1] /\ Lower(q[i]) = Lower(text[t])
      BY <3>2, <3>3, <3>6
    <3>9. t <= Len(text) <=> t \in 1 .. Len(text)
      BY <1>0
    <3> QED BY <3>7, <3>9 DEF a
  <2> QED BY <2>1, <2>2
<1>7. \A i \in 1 .. Len(q) + 1 : \A t \in 1 .. T : t \in match[pos[i] + 1] <=> Stands(text, q, i, t)
  <2> DEFINE S == {i \in 1 .. Len(q) + 1 : \A t \in 1 .. T : t \in match[pos[i] + 1] <=> Stands(text, q, i, t)}
  <2>1. Len(q) + 1 \in S
    <3>1. pos[Len(q) + 1] + 1 = L + 2
      BY <1>0 DEF Coded, L
    <3>2. \A t \in 1 .. T : Stands(text, q, Len(q) + 1, t)
      <4> TAKE t \in 1 .. T
      <4>1. t + (Len(q) - (Len(q) + 1)) <= Len(text) /\ Len(q) + 1 .. Len(q) = {}
        BY <1>0
      <4> QED BY <4>1 DEF Stands
    <3> QED BY <1>0, <1>4, <3>1, <3>2
  <2>2. ASSUME NEW j \in 1 + 1 .. Len(q) + 1, j \in S PROVE j - 1 \in S
    <3>1. PICK i \in 1 .. Len(q) : i = j - 1 /\ j = i + 1
      <4>1. j - 1 \in 1 .. Len(q) /\ j = (j - 1) + 1
        BY <1>0
      <4> QED BY <4>1
    <3>2. ASSUME NEW t \in 1 .. T PROVE t \in match[pos[i] + 1] <=> Stands(text, q, i, t)
      <4>1. t \in Nat \ {0}
        OBVIOUS
      <4>2. Stands(text, q, i, t) <=>
              t <= Len(text) /\ Lower(text[t]) = Lower(q[i]) /\ Stands(text, q, i + 1, t + 1)
        BY <4>1, StandsStep
      <4>3. t <= Len(text) => t + 1 \in 1 .. T
        BY <1>0
      <4>4. t <= Len(text) => (t + 1 \in match[pos[i + 1] + 1] <=> Stands(text, q, i + 1, t + 1))
        BY <2>2, <3>1, <4>3
      <4> QED BY <1>6, <4>2, <4>4
    <3>3. i \in 1 .. Len(q) + 1
      BY <1>0
    <3> QED BY <3>1, <3>2, <3>3
  <2> HIDE DEF S
  <2>3. \A i \in 1 .. Len(q) + 1 : i \in S
    <3>1. Len(q) + 1 \in Nat /\ 1 \in Nat
      BY <1>0
    <3> QED BY <2>1, <2>2, <3>1, DownInduction
  <2> QED BY <2>3 DEF S
<1>8. match[1] = {t \in 1 .. T : \E u \in match[2] : t <= u}
  <2>1. match[1] = LikeStep(text, pattern, match, 1) /\ ~(1 > Len(pattern)) /\ 1 + 1 = 2
    BY <1>0, <1>1, <1>2
  <2> QED BY <1>0, <1>1, <2>1 DEF LikeStep
<1>9. match[2] \subseteq 1 .. T
  <2>1. CASE Len(q) = 0
    BY <1>0, <1>4, <2>1 DEF Coded, L
  <2>2. CASE Len(q) # 0
    <3>1. 2 \in 1 .. L + 3 /\ 2 <= L + 2
      BY <1>0
    <3>2. match[2] = LikeStep(text, pattern, match, 2) /\ ~(2 > Len(pattern))
      BY <1>1, <1>2, <3>1, <1>0
    <3>3. Len(text) + 1 = T /\ 1 .. Len(text) \subseteq 1 .. T
      BY <1>0
    <3> QED BY <3>2, <3>3 DEF LikeStep
  <2> QED BY <2>1, <2>2
<1>10. pos[1] + 1 = 2 /\ 1 \in 1 .. Len(q) + 1
  BY <1>0 DEF Coded
<1>11. 1 \in match[1] <=> \E u \in match[2] : 1 <= u
  BY <1>0, <1>8
<1>12. \A u \in 1 .. T : u \in match[2] <=> Stands(text, q, 1, u)
  BY <1>7, <1>10
<1>13. \A u \in 1 .. T : 1 <= u
  BY <1>0
<1>14. 1 \in match[1] <=> \E t \in 1 .. T : Stands(text, q, 1, t)
  BY <1>9, <1>11, <1>12, <1>13
<1> QED BY <1>14 DEF T

\* What searchUsers and listActiveExperiences give to ILIKE matches a text
\* exactly where it holds what was typed: every wildcard and every backslash of
\* it stands for itself, whatever is typed and whatever is searched.
THEOREM LikeHolds ==
  ASSUME NEW text \in Seq(Char), NEW q \in Seq(Char)
  PROVE  ILike(text, Pattern(q)) <=> Holds(text, q)
<1>1. PICK pos : Coded(q, EscapeLike(q), Special, pos)
  BY EscapeLikeCoded
<1>2. Pattern(q) = <<"%">> \o EscapeLike(q) \o <<"%">>
  BY DEF Pattern
<1>3. Pattern(q) \in Seq(Char)
  <2>1. "%" \in Char
    BY DEF Char
  <2>2. <<"%">> \in Seq(Char) /\ EscapeLike(q) \in Seq(Char)
    BY <1>1, <2>1 DEF Coded
  <2> DEFINE u == EscapeLike(q)
  <2>3. u \in Seq(Char) /\ Pattern(q) = <<"%">> \o u \o <<"%">>
    BY <1>2, <2>2
  <2> HIDE DEF u
  <2>4. <<"%">> \o u \in Seq(Char)
    BY <2>2, <2>3, ConcatProperties
  <2> QED BY <2>2, <2>3, <2>4, ConcatProperties
<1>4. PICK match : Like(text, Pattern(q), match)
  BY <1>3, LikeMatch
<1>5. 1 \in match[1] <=> \E t \in 1 .. Len(text) + 1 : Stands(text, q, 1, t)
  BY <1>1, <1>2, <1>4, MatchesCode DEF Like
<1> QED BY <1>4, <1>5, HoldsIsStands DEF Like

------------------------------------------------------------------------------
(* ORDER BY.                                                               *)

\* A trimmed text is a text.
LEMMA TrimType ==
  ASSUME NEW s \in Seq(Char)
  PROVE  Trim(s) \in Seq(Char)
<1> DEFINE ink == {i \in DOMAIN s : s[i] # " "}
<1>0. DOMAIN s = 1 .. Len(s) /\ Len(s) \in Nat
  OBVIOUS
<1>3. ink \subseteq 1 .. Len(s)
  <2>1. ink \subseteq DOMAIN s
    BY Zenon
  <2> QED BY <1>0, <2>1, Zenon
<1>1. CASE ink = {}
  <2>1. Trim(s) = <<>>
    BY <1>1 DEF Trim
  <2> QED BY <2>1, EmptySeq
<1>2. CASE ink # {}
  <2>1. ink \in SUBSET Nat /\ IsFiniteSet(ink)
    <3>1. IsFiniteSet(1 .. Len(s)) /\ ink \in SUBSET (1 .. Len(s))
      <4>1. ink \in SUBSET (1 .. Len(s)) /\ 1 \in Int /\ Len(s) \in Int
        <5> HIDE DEF ink
        <5> QED BY <1>0, <1>3
      <4> HIDE DEF ink
      <4> QED BY <4>1, FS_Interval
    <3> HIDE DEF ink
    <3>2. IsFiniteSet(ink)
      BY <3>1, FS_Subset
    <3> QED BY <1>0, <3>1, <3>2
  <2>2. \E i \in ink : \A y \in ink : i <= y
    <3> HIDE DEF ink
    <3> QED BY <1>2, <2>1, LeastNumber
  <2>3. Min(ink) \in ink
    <3> HIDE DEF ink
    <3> QED BY <2>2 DEF Min
  <2>4. \E i \in ink : \A y \in ink : i >= y
    <3> DEFINE D == {Len(s) - i : i \in ink}
    <3>1. D \in SUBSET Nat /\ D # {}
      <4>1. \A i \in ink : Len(s) - i \in Nat
        <5> HIDE DEF ink
        <5> QED BY <1>0, <1>3
      <4> HIDE DEF ink
      <4> QED BY <1>2, <4>1
    <3>2. PICK d \in D : \A e \in D : d <= e
      <4> HIDE DEF D
      <4> QED BY <3>1, LeastNumber
    <3>3. PICK i \in ink : d = Len(s) - i
      BY <3>2
    <3>4. ASSUME NEW y \in ink PROVE i >= y
      <4>1. Len(s) - y \in D
        OBVIOUS
      <4>2. d <= Len(s) - y
        BY <3>2, <4>1
      <4>3. y \in Nat /\ i \in Nat
        BY <2>1
      <4> HIDE DEF D, ink
      <4> QED BY <1>0, <3>3, <4>2, <4>3
    <3> QED BY <3>4
  <2>5. Max(ink) \in ink
    <3> HIDE DEF ink
    <3> QED BY <2>4 DEF Max
  <2>6. Trim(s) = SubSeq(s, Min(ink), Max(ink))
    BY <1>2 DEF Trim
  <2> DEFINE m == Min(ink)
             n == Max(ink)
  <2>7. m \in 1 .. Len(s) /\ n \in 1 .. Len(s)
    BY <1>0, <2>3, <2>5
  <2> HIDE DEF m, n
  <2>8. \A i \in m .. n : s[i] \in Char
    BY <1>0, <2>7
  <2>9. m \in Int /\ n \in Int
    BY <1>0, <2>7
  <2>10. SubSeq(s, m, n) \in Seq(Char)
    BY <2>8, <2>9, SubSeqProperties
  <2> QED BY <2>6, <2>10 DEF m, n
<1> QED BY <1>1, <1>2

\* A strict total order R of S.
Orders(R, S) ==
  /\ \A x \in S : <<x, x>> \notin R
  /\ \A x, y, z \in S : <<x, y>> \in R /\ <<y, z>> \in R => <<x, z>> \in R
  /\ \A x, y \in S : x # y => <<x, y>> \in R \/ <<y, x>> \in R

\* S, listed by R.
InOrder(list, R, S) ==
  /\ list \in [1 .. Cardinality(S) -> S]
  /\ \A i, j \in 1 .. Cardinality(S) : i < j => <<list[i], list[j]>> \in R

\* A finite set can be listed in the order.
LEMMA OrderExists ==
  ASSUME NEW S, IsFiniteSet(S), NEW R, Orders(R, S)
  PROVE  \E list : InOrder(list, R, S)
<1> DEFINE N == Cardinality(S)
           Before(x) == {y \in S : <<y, x>> \in R}
           rank == [x \in S |-> Cardinality(Before(x)) + 1]
<1>0. N \in Nat
  BY FS_CardinalityType
<1>1. ASSUME NEW x \in S
      PROVE  IsFiniteSet(Before(x)) /\ Cardinality(Before(x)) \in Nat /\ Cardinality(Before(x)) + 1 <= N
  <2>1. Before(x) \in SUBSET (S \ {x}) /\ Before(x) \in SUBSET S
    BY DEF Orders
  <2>2. IsFiniteSet(S \ {x}) /\ Cardinality(S \ {x}) = N - 1
    BY FS_RemoveElement
  <2> DEFINE B == Before(x)
  <2>3. B \in SUBSET (S \ {x})
    BY <2>1
  <2> HIDE DEF B, Before, N
  <2>4. IsFiniteSet(B) /\ Cardinality(B) <= Cardinality(S \ {x})
    BY <2>2, <2>3, FS_Subset
  <2>5. Cardinality(B) \in Nat
    BY <2>4, FS_CardinalityType
  <2>6. Cardinality(B) + 1 <= N
    BY <1>0, <2>2, <2>4, <2>5
  <2> QED BY <2>4, <2>5, <2>6 DEF B
<1>2. rank \in [S -> 1 .. N]
  <2> HIDE DEF Before, N
  <2> QED BY <1>0, <1>1
<1>3. ASSUME NEW x \in S, NEW y \in S, <<x, y>> \in R PROVE rank[x] < rank[y]
  <2> DEFINE B == Before(x) \cup {x}
             C == Before(y)
  <2>1. B \in SUBSET C
    BY <1>3 DEF Orders
  <2>2. x \notin Before(x)
    BY DEF Orders
  <2>3. IsFiniteSet(B) /\ Cardinality(B) = Cardinality(Before(x)) + 1
    <3> DEFINE A == Before(x)
    <3>1. IsFiniteSet(A) /\ x \notin A
      BY <1>1, <2>2
    <3> HIDE DEF A
    <3>2. IsFiniteSet(A \cup {x}) /\ Cardinality(A \cup {x}) = Cardinality(A) + 1
      BY <3>1, FS_AddElement
    <3> QED BY <3>2 DEF A
  <2>4. IsFiniteSet(C)
    BY <1>1
  <2>5. Cardinality(B) <= Cardinality(C)
    <3> HIDE DEF B, C
    <3> QED BY <2>1, <2>4, FS_Subset
  <2>6. rank[x] = Cardinality(Before(x)) + 1 /\ rank[y] = Cardinality(C) + 1
    OBVIOUS
  <2>7. Cardinality(C) \in Nat /\ Cardinality(Before(x)) \in Nat
    BY <1>1
  <2> HIDE DEF B, C, Before, rank
  <2> QED BY <2>3, <2>5, <2>6, <2>7
<1> HIDE DEF Before, rank, N
<1>4. \A x, y \in S : rank[x] = rank[y] => x = y
  <2> SUFFICES ASSUME NEW x \in S, NEW y \in S, rank[x] = rank[y], x # y PROVE FALSE
    OBVIOUS
  <2>1. rank[x] \in Nat /\ rank[y] \in Nat
    BY <1>0, <1>2
  <2>2. rank[x] < rank[y] \/ rank[y] < rank[x]
    BY <1>3 DEF Orders
  <2> QED BY <2>1, <2>2
<1>5. rank \in Surjection(S, 1 .. N)
  <2>1. rank \in Injection(S, 1 .. N)
    BY <1>2, <1>4 DEF Injection, IsInjective
  <2>2. IsFiniteSet(1 .. N) /\ Cardinality(1 .. N) = N
    <3>1. 0 \in Int /\ 1 \in Int /\ N \in Int /\ (1 > N => N = 0) /\ N - 1 + 1 = N
      BY <1>0
    <3> QED BY <3>1, FS_Interval
  <2>3. Cardinality(S) = Cardinality(1 .. N)
    BY <2>2 DEF N
  <2> QED BY <2>1, <2>2, <2>3, FS_Injection
<1>6. \A i \in 1 .. N : \E x \in S : rank[x] = i
  BY <1>5 DEF Surjection
<1> DEFINE list == [i \in 1 .. N |-> CHOOSE x \in S : rank[x] = i]
<1>7. \A i \in 1 .. N : list[i] \in S /\ rank[list[i]] = i
  BY <1>6
<1>8. list \in [1 .. N -> S]
  BY <1>7
<1> HIDE DEF list
<1>9. ASSUME NEW i \in 1 .. N, NEW j \in 1 .. N, i < j PROVE <<list[i], list[j]>> \in R
  <2>1. list[i] # list[j]
    BY <1>7, <1>9, <1>0
  <2>2. CASE <<list[j], list[i]>> \in R
    <3>1. rank[list[j]] < rank[list[i]]
      BY <1>3, <1>7, <2>2
    <3> QED BY <1>0, <1>7, <1>9, <3>1
  <2> QED BY <1>7, <2>1, <2>2 DEF Orders
<1> QED BY <1>8, <1>9 DEF InOrder, N

\* Such a list has every element of S, and each once.
LEMMA OrderCovers ==
  ASSUME NEW S, IsFiniteSet(S), NEW R, Orders(R, S), NEW list, InOrder(list, R, S)
  PROVE  /\ Cardinality(S) \in Nat
         /\ \A i, j \in 1 .. Cardinality(S) : list[i] = list[j] => i = j
         /\ \A x \in S : \E i \in 1 .. Cardinality(S) : list[i] = x
<1> DEFINE N == Cardinality(S)
<1>0. N \in Nat
  BY FS_CardinalityType
<1>1. list \in [1 .. N -> S] /\ \A i, j \in 1 .. N : i < j => <<list[i], list[j]>> \in R
  BY DEF InOrder
<1>2. ASSUME NEW i \in 1 .. N, NEW j \in 1 .. N, list[i] = list[j], i # j PROVE FALSE
  <2>1. i < j \/ j < i
    BY <1>0, <1>2
  <2>2. <<list[i], list[j]>> \in R \/ <<list[j], list[i]>> \in R
    BY <1>1, <2>1
  <2> QED BY <1>1, <1>2, <2>2 DEF Orders
<1>3. list \in Injection(1 .. N, S)
  BY <1>1, <1>2 DEF Injection, IsInjective
<1>4. IsFiniteSet(1 .. N) /\ Cardinality(1 .. N) = N
  <2> HIDE DEF N
  <2>1. 1 \in Int /\ N \in Int /\ (1 > N => N = 0) /\ N - 1 + 1 = N
    BY <1>0
  <2> QED BY <2>1, FS_Interval
<1>5. list \in Surjection(1 .. N, S)
  <2> HIDE DEF N
  <2>1. N = Cardinality(S)
    BY DEF N
  <2> QED BY <1>3, <1>4, <2>1, FS_Injection
<1> QED BY <1>0, <1>2, <1>5 DEF Surjection

\* The first n of the rows in order: nothing is there twice, and what is left
\* out comes after each of them.
Follows(list, R, n) == \A i, j \in 1 .. n : i < j => <<list[i], list[j]>> \in R

FirstOf(list, n, R, S) ==
  /\ {list[i] : i \in 1 .. n} \subseteq S
  /\ Cardinality({list[i] : i \in 1 .. n}) = n
  /\ n = Cardinality(S) => {list[i] : i \in 1 .. n} = S
  /\ Follows(list, R, n)
  /\ \A i \in 1 .. n, y \in S : y \notin {list[j] : j \in 1 .. i} => <<list[i], y>> \in R

LEMMA FirstOfOrder ==
  ASSUME NEW S, IsFiniteSet(S), NEW R, Orders(R, S), NEW all, InOrder(all, R, S),
         NEW n \in 0 .. Cardinality(S), NEW list, list = [i \in 1 .. n |-> all[i]]
  PROVE  FirstOf(list, n, R, S)
<1> DEFINE N == Cardinality(S)
           got == {list[i] : i \in 1 .. n}
<1>0. N \in Nat /\ n \in Nat /\ n <= N
  BY OrderCovers
<1>1. /\ \A i, j \in 1 .. N : all[i] = all[j] => i = j
      /\ \A x \in S : \E i \in 1 .. N : all[i] = x
  BY OrderCovers
<1>2. \A i \in 1 .. N : all[i] \in S
  BY DEF InOrder
<1>3. \A i, j \in 1 .. N : i < j => <<all[i], all[j]>> \in R
  BY DEF InOrder
<1> HIDE DEF N
<1>4. \A i \in 1 .. n : i \in 1 .. N /\ list[i] = all[i]
  BY <1>0
<1>5. got \subseteq S
  BY <1>2, <1>4
<1>6. Cardinality(got) = n
  <2>1. list \in [1 .. n -> got]
    OBVIOUS
  <2>2. \A i, j \in 1 .. n : list[i] = list[j] => i = j
    BY <1>1, <1>4
  <2>3. \A x \in got : \E i \in 1 .. n : list[i] = x
    OBVIOUS
  <2> HIDE DEF got
  <2>4. list \in Bijection(1 .. n, got)
    BY <2>1, <2>2, <2>3 DEF Bijection, Injection, Surjection, IsInjective
  <2>5. ExistsBijection(1 .. n, got)
    BY <2>4 DEF ExistsBijection
  <2> QED BY <1>0, <2>5, FS_CountingElements
<1>7. n = N => got = S
  <2> SUFFICES ASSUME n = N, NEW x \in S PROVE x \in got
    BY <1>5
  <2>1. PICK i \in 1 .. N : all[i] = x
    BY <1>1
  <2> QED BY <1>4, <2>1
<1>8. \A i, j \in 1 .. n : i < j => <<list[i], list[j]>> \in R
  BY <1>3, <1>4
<1>9. ASSUME NEW i \in 1 .. n, NEW y \in S, y \notin {list[j] : j \in 1 .. i}
      PROVE  <<list[i], y>> \in R
  <2>1. PICK m \in 1 .. N : all[m] = y
    BY <1>1
  <2>2. ~(m <= i)
    <3> SUFFICES ASSUME m <= i PROVE FALSE
      OBVIOUS
    <3>1. m \in 1 .. i /\ m \in 1 .. n
      BY <1>0
    <3>2. list[m] = y
      BY <1>4, <2>1, <3>1
    <3> QED BY <1>9, <3>1, <3>2
  <2>3. i < m /\ i \in 1 .. N
    BY <1>0, <2>2
  <2>4. <<all[i], all[m]>> \in R
    BY <1>3, <2>3
  <2> QED BY <1>4, <2>1, <2>4
<1>10. Follows(list, R, n)
  BY <1>8 DEF Follows
<1> QED BY <1>5, <1>6, <1>7, <1>9, <1>10 DEF N, FirstOf

-----------------------------------------------------------------------------
\* The order of the catalog, and the rows that each of the two routes finds.
ParkThenName(d, a, b) ==
  \/ d[a].park < d[b].park
  \/ d[a].park = d[b].park /\ NameRank[a] < NameRank[b]

\* By pairs of items.
LEMMA CatalogPairs ==
  ASSUME NEW d
  PROVE  \A a, b \in Item : <<a, b>> \in CatalogOrder(d) <=> ParkThenName(d, a, b)
BY DEF CatalogOrder, ParkThenName

CatalogFound(d, k) ==
  {e \in Item : /\ d[e].active
                /\ k.park \in {All, d[e].park}
                /\ k.category \in {All, d[e].category}
                /\ Trim(k.q) = <<>> \/ ILike(d[e].name, Pattern(Trim(k.q)))}

PeopleFound(d, k) ==
  {u \in Item \ {Self} : \/ ILike(d[u].name, Pattern(k.q))
                         \/ ILike(d[u].email, Pattern(k.q))}

\* The rank tells items apart.
LEMMA RankFacts ==
  /\ \A x \in Item : NameRank[x] \in Nat
  /\ \A x, y \in Item : NameRank[x] = NameRank[y] => x = y
BY BrowseAssumption DEF Injection, IsInjective

LEMMA TableFacts ==
  ASSUME NEW d \in Table, NEW e \in Item
  PROVE  d[e].park \in Park /\ d[e].park \in Nat /\ d[e].name \in Seq(Char) /\ d[e].email \in Seq(Char)
BY BrowseAssumption

\* By park, then by name and id, is a total order, and so is by name and id.
LEMMA CatalogOrders ==
  ASSUME NEW d \in Table, NEW S \in SUBSET Item
  PROVE  Orders(CatalogOrder(d), S)
<1> DEFINE P(x) == d[x].park
           Q(x) == NameRank[x]
<1>1. \A x \in Item : P(x) \in Nat /\ Q(x) \in Nat
  BY RankFacts, TableFacts
<1>2. \A x, y \in S : <<x, y>> \in CatalogOrder(d) <=> (P(x) < P(y) \/ (P(x) = P(y) /\ Q(x) < Q(y)))
  <2> TAKE x, y \in S
  <2>1. <<x, y>> \in CatalogOrder(d) <=> ParkThenName(d, x, y)
    BY CatalogPairs
  <2>2. ParkThenName(d, x, y) <=> (P(x) < P(y) \/ (P(x) = P(y) /\ Q(x) < Q(y)))
    BY DEF ParkThenName
  <2> QED BY <2>1, <2>2
<1>3. \A x, y \in Item : Q(x) = Q(y) => x = y
  BY RankFacts
<1>4. \A x \in S : x \in Item
  OBVIOUS
<1> DEFINE R == CatalogOrder(d)
<1> HIDE DEF P, Q, R
<1>5. \A x \in S : <<x, x>> \notin R
  BY <1>1, <1>2, <1>4 DEF R
<1>6. \A x, y, z \in S : <<x, y>> \in R /\ <<y, z>> \in R => <<x, z>> \in R
  <2> TAKE x, y, z \in S
  <2>1. /\ P(x) \in Nat /\ P(y) \in Nat /\ P(z) \in Nat
        /\ Q(x) \in Nat /\ Q(y) \in Nat /\ Q(z) \in Nat
    BY <1>1, <1>4
  <2> QED BY <1>2, <2>1 DEF R
<1>7. \A x, y \in S : x # y => <<x, y>> \in R \/ <<y, x>> \in R
  <2> TAKE x, y \in S
  <2>1. P(x) \in Nat /\ P(y) \in Nat /\ Q(x) \in Nat /\ Q(y) \in Nat
    BY <1>1, <1>4
  <2>2. x # y => Q(x) # Q(y)
    BY <1>3, <1>4
  <2>3. P(x) < P(y) \/ P(y) < P(x) \/ P(x) = P(y)
    BY <2>1
  <2>4. x # y => Q(x) < Q(y) \/ Q(y) < Q(x)
    BY <2>1, <2>2
  <2> QED BY <1>2, <2>3, <2>4 DEF R
<1> QED BY <1>5, <1>6, <1>7 DEF Orders, R

LEMMA PeopleOrders ==
  ASSUME NEW S \in SUBSET Item
  PROVE  Orders(PeopleOrder, S)
<1> DEFINE Q(x) == NameRank[x]
<1>1. \A x \in Item : Q(x) \in Nat
  BY RankFacts
<1>2. \A x, y \in S : <<x, y>> \in PeopleOrder <=> Q(x) < Q(y)
  BY DEF PeopleOrder
<1>3. \A x, y \in Item : Q(x) = Q(y) => x = y
  BY RankFacts
<1> HIDE DEF Q
<1> QED BY <1>1, <1>2, <1>3 DEF Orders

\* What the routes answer is the rows found, in order.
LEMMA CatalogSorted ==
  ASSUME NEW d \in Table, NEW k
  PROVE  /\ IsFiniteSet(CatalogFound(d, k)) /\ CatalogFound(d, k) \in SUBSET Item
         /\ InOrder(ListActiveExperiences(d, k), CatalogOrder(d), CatalogFound(d, k))
<1> DEFINE S == CatalogFound(d, k)
           R == CatalogOrder(d)
<1>1. S \in SUBSET Item
  BY DEF CatalogFound
<1>2. ListActiveExperiences(d, k) = CHOOSE list \in [1 .. Cardinality(S) -> S] :
                                      \A i, j \in DOMAIN list : i < j => <<list[i], list[j]>> \in R
  BY DEF ListActiveExperiences, OrderBy, CatalogFound
<1> HIDE DEF S
<1>3. IsFiniteSet(S)
  BY <1>1, BrowseAssumption, FS_Subset
<1>4. PICK r : InOrder(r, R, S)
  BY <1>1, <1>3, CatalogOrders, OrderExists
<1> HIDE DEF R
<1>5. r \in [1 .. Cardinality(S) -> S] /\ \A i, j \in DOMAIN r : i < j => <<r[i], r[j]>> \in R
  BY <1>4 DEF InOrder
<1> DEFINE list == ListActiveExperiences(d, k)
<1>6. list \in [1 .. Cardinality(S) -> S] /\ \A i, j \in DOMAIN list : i < j => <<list[i], list[j]>> \in R
  BY <1>2, <1>5
<1> HIDE DEF list
<1>7. InOrder(list, R, S)
  BY <1>6 DEF InOrder
<1> QED BY <1>1, <1>3, <1>7 DEF S, R, list

LEMMA PeopleSorted ==
  ASSUME NEW d \in Table, NEW k
  PROVE  /\ IsFiniteSet(PeopleFound(d, k)) /\ PeopleFound(d, k) \in SUBSET Item
         /\ \E all : /\ InOrder(all, PeopleOrder, PeopleFound(d, k))
                     /\ SearchUsers(d, k) = SubSeq(all, 1, Min({Len(all), SEARCH_RESULT_CAP}))
<1> DEFINE S == PeopleFound(d, k)
           R == PeopleOrder
           all == CHOOSE list \in [1 .. Cardinality(S) -> S] :
                    \A i, j \in DOMAIN list : i < j => <<list[i], list[j]>> \in R
<1>1. S \in SUBSET Item
  BY DEF PeopleFound
<1>2. SearchUsers(d, k) = SubSeq(all, 1, Min({Len(all), SEARCH_RESULT_CAP}))
  BY DEF SearchUsers, OrderBy, PeopleFound
<1> HIDE DEF S
<1>3. IsFiniteSet(S)
  BY <1>1, BrowseAssumption, FS_Subset
<1>4. PICK r : InOrder(r, R, S)
  BY <1>1, <1>3, PeopleOrders, OrderExists
<1> HIDE DEF R
<1>5. r \in [1 .. Cardinality(S) -> S] /\ \A i, j \in DOMAIN r : i < j => <<r[i], r[j]>> \in R
  BY <1>4 DEF InOrder
<1>6. all \in [1 .. Cardinality(S) -> S] /\ \A i, j \in DOMAIN all : i < j => <<all[i], all[j]>> \in R
  BY <1>5
<1> HIDE DEF all
<1>7. InOrder(all, R, S)
  BY <1>6 DEF InOrder
<1> QED BY <1>1, <1>2, <1>3, <1>7 DEF S, R

------------------------------------------------------------------------------
(* What the routes answer is what is wanted.                               *)

\* Every text holds the empty one.
LEMMA HoldsNothing ==
  ASSUME NEW text \in Seq(Char)
  PROVE  Holds(text, <<>>)
<1>1. 0 \in 0 .. Len(text) - Len(<<>>) /\ DOMAIN <<>> = {}
  OBVIOUS
<1> QED BY <1>1 DEF Holds

LEMMA TextTrimmed ==
  ASSUME NEW t \in Text
  PROVE  t \in Seq(Char) /\ Trim(t) \in Seq(Char)
BY BrowseAssumption, TrimType

\* The rows found for a key are those wanted for what it was made of.
LEMMA CatalogWanted ==
  ASSUME NEW d \in Table, NEW choice, NEW t \in Text, kind = "catalog"
  PROVE  CatalogFound(d, KeyOf(choice, t)) = Wanted(d, choice, t)
<1> DEFINE k == KeyOf(choice, t)
<1>1. k.park = choice.park /\ k.category = choice.category /\ k.q = t
  BY DEF KeyOf
<1> HIDE DEF k
<1>2. ASSUME NEW e \in Item
      PROVE  (Trim(t) = <<>> \/ ILike(d[e].name, Pattern(Trim(t)))) <=> Holds(d[e].name, Trim(t))
  <2> DEFINE n == d[e].name
             q == Trim(t)
  <2>1. n \in Seq(Char) /\ q \in Seq(Char)
    BY TableFacts, TextTrimmed
  <2> HIDE DEF n, q
  <2>2. ILike(n, Pattern(q)) <=> Holds(n, q)
    BY <2>1, LikeHolds
  <2>3. q = <<>> => Holds(n, q)
    BY <2>1, HoldsNothing
  <2> QED BY <2>2, <2>3 DEF n, q
<1>3. CatalogFound(d, k) = {e \in Item : /\ d[e].active
                                         /\ choice.park \in {All, d[e].park}
                                         /\ choice.category \in {All, d[e].category}
                                         /\ (Trim(t) = <<>> \/ ILike(d[e].name, Pattern(Trim(t))))}
  BY <1>1, Zenon DEF CatalogFound
<1>4. Wanted(d, choice, t) = {e \in Item : /\ d[e].active /\ Holds(d[e].name, Trim(t))
                                           /\ choice.park \in {All, d[e].park}
                                           /\ choice.category \in {All, d[e].category}}
  BY DEF Wanted
<1>5. CatalogFound(d, k) = Wanted(d, choice, t)
  BY <1>2, <1>3, <1>4, Zenon
<1> QED BY <1>5 DEF k

LEMMA PeopleWanted ==
  ASSUME NEW d \in Table, NEW choice, NEW t \in Text, kind = "people"
  PROVE  PeopleFound(d, KeyOf(choice, t)) = Wanted(d, choice, t)
<1> DEFINE k == KeyOf(choice, t)
<1>1. k.q = Trim(t)
  BY DEF KeyOf
<1> HIDE DEF k
<1>2. ASSUME NEW u \in Item
      PROVE  /\ ILike(d[u].name, Pattern(Trim(t))) <=> Holds(d[u].name, Trim(t))
             /\ ILike(d[u].email, Pattern(Trim(t))) <=> Holds(d[u].email, Trim(t))
  <2> DEFINE n == d[u].name
             m == d[u].email
             q == Trim(t)
  <2>1. n \in Seq(Char) /\ m \in Seq(Char) /\ q \in Seq(Char)
    BY TableFacts, TextTrimmed
  <2> HIDE DEF n, m, q
  <2>2. (ILike(n, Pattern(q)) <=> Holds(n, q)) /\ (ILike(m, Pattern(q)) <=> Holds(m, q))
    BY <2>1, LikeHolds
  <2> QED BY <2>2 DEF n, m, q
<1>3. PeopleFound(d, k) = {u \in Item \ {Self} : \/ ILike(d[u].name, Pattern(Trim(t)))
                                                 \/ ILike(d[u].email, Pattern(Trim(t)))}
  BY <1>1, Zenon DEF PeopleFound
<1>4. Wanted(d, choice, t) = {u \in Item \ {Self} : \/ Holds(d[u].name, Trim(t))
                                                    \/ Holds(d[u].email, Trim(t))}
  BY DEF Wanted
<1>5. PeopleFound(d, k) = Wanted(d, choice, t)
  BY <1>2, <1>3, <1>4, Zenon
<1> QED BY <1>5 DEF k

-----------------------------------------------------------------------------
\* What the screen makes of the rows.
Grouping(shown, d, list, n) ==
  /\ DOMAIN shown = 1 .. n /\ Len(shown) = n
  /\ \A i \in 1 .. n : shown[i].item = list[i] /\ shown[i].title = d[list[i]].park
  /\ \A i \in 1 .. n : shown[i].first <=> i = 1 \/ d[list[i - 1]].park # d[list[i]].park
  /\ {shown[i].item : i \in DOMAIN shown} = {list[i] : i \in 1 .. n}
  /\ \A i \in 1 .. n : {shown[j].item : j \in 1 .. i} = {list[j] : j \in 1 .. i}

LEMMA Grouped ==
  ASSUME NEW d, NEW n \in Nat, NEW list \in [1 .. n -> Item]
  PROVE  Grouping(GroupByPark(d, list), d, list, n)
<1> DEFINE shown == GroupByPark(d, list)
<1>1. shown = [i \in 1 .. n |->
                 [title |-> d[list[i]].park,
                  first |-> i = 1 \/ d[list[i - 1]].park # d[list[i]].park, item |-> list[i]]]
  BY DEF GroupByPark
<1> HIDE DEF shown
<1>2. DOMAIN shown = 1 .. n /\ Len(shown) = n
  BY <1>1
<1>3. \A i \in 1 .. n : shown[i].item = list[i] /\ shown[i].title = d[list[i]].park
  BY <1>1
<1>4. \A i \in 1 .. n : shown[i].first <=> i = 1 \/ d[list[i - 1]].park # d[list[i]].park
  BY <1>1
<1>5. {shown[i].item : i \in DOMAIN shown} = {list[i] : i \in 1 .. n}
  BY <1>2, <1>3
<1>6. ASSUME NEW i \in 1 .. n PROVE {shown[j].item : j \in 1 .. i} = {list[j] : j \in 1 .. i}
  <2>1. \A j \in 1 .. i : shown[j].item = list[j]
    BY <1>3
  <2> QED BY <2>1
<1> QED BY <1>2, <1>3, <1>4, <1>5, <1>6 DEF shown, Grouping

\* Rows in the order of their parks: a park has one section.
LEMMA OneSection ==
  ASSUME NEW d \in Table, NEW n \in Nat, NEW list \in [1 .. n -> Item],
         Follows(list, CatalogOrder(d), n), NEW i \in 1 .. n, NEW j \in 1 .. n,
         i = 1 \/ d[list[i - 1]].park # d[list[i]].park,
         j = 1 \/ d[list[j - 1]].park # d[list[j]].park,
         d[list[i]].park = d[list[j]].park
  PROVE  i = j
<1> DEFINE P(m) == d[list[m]].park
<1>1. \A m \in 1 .. n : P(m) \in Nat
  BY TableFacts
<1>2. ASSUME NEW l \in 1 .. n, NEW m \in 1 .. n, l < m PROVE P(l) <= P(m)
  <2>1. ParkThenName(d, list[l], list[m])
    BY <1>2, CatalogPairs DEF Follows
  <2>2. P(l) < P(m) \/ P(l) = P(m)
    BY <2>1 DEF ParkThenName
  <2> HIDE DEF P
  <2> QED BY <1>1, <2>2
<1>3. ASSUME NEW l \in 1 .. n, NEW m \in 1 .. n, l < m, P(l) = P(m), m = 1 \/ P(m - 1) # P(m)
      PROVE  FALSE
  <2>1. m - 1 \in 1 .. n /\ l <= m - 1 /\ m - 1 < m /\ m # 1
    BY <1>3
  <2> HIDE DEF P
  <2>2. P(l) <= P(m - 1)
    <3>1. CASE l = m - 1
      BY <1>1, <2>1, <3>1
    <3>2. CASE l # m - 1
      <4>1. l < m - 1
        BY <2>1, <3>2
      <4> QED BY <1>2, <2>1, <4>1
    <3> QED BY <3>1, <3>2
  <2>3. P(m - 1) <= P(m)
    BY <1>2, <2>1
  <2> QED BY <1>1, <1>3, <2>1, <2>2, <2>3
<1>4. P(i) = P(j) /\ (i = 1 \/ P(i - 1) # P(i)) /\ (j = 1 \/ P(j - 1) # P(j))
  OBVIOUS
<1> HIDE DEF P
<1>5. i < j \/ j < i \/ i = j
  OBVIOUS
<1> QED BY <1>3, <1>4, <1>5

\* The first n of all.
Cut(list, all, n) == list = [i \in 1 .. n |-> all[i]]

\* LIMIT takes the first rows.
LEMMA SearchIsCut ==
  ASSUME NEW S, IsFiniteSet(S), S \in SUBSET Item, NEW all, InOrder(all, PeopleOrder, S),
         NEW n, n = Min({Cardinality(S), SEARCH_RESULT_CAP})
  PROVE  /\ n \in 0 .. Cardinality(S)
         /\ Cut(SubSeq(all, 1, Min({Len(all), SEARCH_RESULT_CAP})), all, n)
<1> DEFINE N == Cardinality(S)
           C == SEARCH_RESULT_CAP
<1>1. N \in Nat /\ C \in Nat
  BY FS_CardinalityType, BrowseAssumption
<1>2. all \in [1 .. N -> S]
  BY DEF InOrder
<1>3. Len(all) = N /\ all \in Seq(S)
  <2> HIDE DEF N
  <2> QED BY <1>1, <1>2
<1>4. n \in {N, C} /\ n <= N
  <2> HIDE DEF N, C
  <2>1. \E m \in {N, C} : \A o \in {N, C} : m <= o
    <3>1. N <= C \/ C <= N
      BY <1>1
    <3> QED BY <1>1, <3>1
  <2>2. Min({N, C}) \in {N, C} /\ \A o \in {N, C} : Min({N, C}) <= o
    <3> DEFINE T == {N, C}
    <3> HIDE DEF T
    <3>1. \E m \in T : \A o \in T : m <= o
      BY <2>1 DEF T
    <3>2. Min(T) \in T /\ \A o \in T : Min(T) <= o
      BY <3>1 DEF Min
    <3> QED BY <3>2 DEF T
  <2>3. n = Min({N, C})
    BY DEF N, C
  <2> QED BY <2>2, <2>3
<1>5. n \in 0 .. N
  <2> HIDE DEF N, C
  <2> QED BY <1>1, <1>4
<1>6. SubSeq(all, 1, n) = [i \in 1 .. n |-> all[i]]
  <2> HIDE DEF N, C
  <2>1. n \in Nat /\ \A i \in 1 .. n : i \in 1 .. N
    BY <1>1, <1>5
  <2>2. SubSeq(all, 1, n) = [i \in 1 .. (1 + n) - 1 |-> all[(1 + i) - 1]]
    BY <1>3, <2>1
  <2>3. (1 + n) - 1 = n /\ \A i \in 1 .. n : (1 + i) - 1 = i
    BY <2>1
  <2> QED BY <2>2, <2>3
<1>7. n = Min({Len(all), C})
  BY <1>3
<1>8. Cut(SubSeq(all, 1, Min({Len(all), C})), all, n)
  <2> HIDE DEF C, N
  <2> QED BY <1>6, <1>7 DEF Cut
<1> QED BY <1>5, <1>8

\* ListIsOfFilters, of rows selected from d.
Seen(d, list, choice, text) ==
  LET shown == GroupByPark(d, list)
      want == Wanted(d, choice, text)
      got == {shown[i].item : i \in DOMAIN shown}
      Before(x, y) == \/ kind = "catalog" /\ d[x].park < d[y].park
                      \/ /\ kind = "catalog" => d[x].park = d[y].park
                         /\ NameRank[x] < NameRank[y]
  IN  /\ got \subseteq want
      /\ Cardinality(got) = Len(shown)
      /\ IF kind = "catalog" THEN got = want
         ELSE Cardinality(got) = Min({Cardinality(want), SEARCH_RESULT_CAP})
      /\ \A i \in DOMAIN shown, y \in want :
           y \notin {shown[j].item : j \in 1 .. i} => Before(shown[i].item, y)
      /\ kind = "catalog" =>
           \A i, j \in DOMAIN shown :
             shown[i].first /\ shown[j].first /\ shown[i].title = shown[j].title => i = j

\* What is shown of an answer, of each of the two routes.
LEMMA CatalogSeen ==
  ASSUME NEW d \in Table, NEW choice, NEW t \in Text, kind = "catalog"
  PROVE  Seen(d, ListActiveExperiences(d, KeyOf(choice, t)), choice, t)
<1> DEFINE k == KeyOf(choice, t)
           list == ListActiveExperiences(d, k)
           want == Wanted(d, choice, t)
           n == Cardinality(want)
           R == CatalogOrder(d)
           shown == GroupByPark(d, list)
<1>1. IsFiniteSet(want) /\ want \in SUBSET Item /\ InOrder(list, R, want)
  BY CatalogSorted, CatalogWanted
<1> HIDE DEF k, list, want, R
<1>2. n \in Nat /\ n \in 0 .. n
  BY <1>1, FS_CardinalityType
<1>3. list \in [1 .. n -> want]
  BY <1>1 DEF InOrder
<1> HIDE DEF n
<1>4. list = [i \in 1 .. n |-> list[i]] /\ list \in [1 .. n -> Item]
  BY <1>1, <1>3
<1>5. Orders(R, want)
  BY <1>1, CatalogOrders DEF R
<1> DEFINE got == {list[i] : i \in 1 .. n}
<1>14. FirstOf(list, n, R, want)
  <2>1. n = Cardinality(want)
    BY DEF n
  <2> QED BY <1>1, <1>2, <1>4, <1>5, <2>1, FirstOfOrder
<1>6. /\ got \subseteq want
      /\ Cardinality(got) = n
      /\ got = want
      /\ Follows(list, R, n)
      /\ \A i \in 1 .. n, y \in want : y \notin {list[j] : j \in 1 .. i} => <<list[i], y>> \in R
  <2>1. n = Cardinality(want)
    BY DEF n
  <2> QED BY <1>14, <2>1 DEF FirstOf
<1>15. Grouping(shown, d, list, n)
  BY <1>2, <1>4, Grouped
<1>7. /\ DOMAIN shown = 1 .. n /\ Len(shown) = n
      /\ \A i \in 1 .. n : shown[i].item = list[i] /\ shown[i].title = d[list[i]].park
      /\ \A i \in 1 .. n : shown[i].first <=> i = 1 \/ d[list[i - 1]].park # d[list[i]].park
      /\ {shown[i].item : i \in DOMAIN shown} = got
      /\ \A i \in 1 .. n : {shown[j].item : j \in 1 .. i} = {list[j] : j \in 1 .. i}
  BY <1>15 DEF Grouping
<1>8. \A x, y \in Item : <<x, y>> \in R <=> ParkThenName(d, x, y)
  BY CatalogPairs DEF R
<1> HIDE DEF got, shown
<1>9. \A i \in DOMAIN shown, y \in want :
        y \notin {shown[j].item : j \in 1 .. i} => ParkThenName(d, shown[i].item, y)
  <2> TAKE i \in DOMAIN shown, y \in want
  <2>1. i \in 1 .. n /\ shown[i].item = list[i] /\ list[i] \in Item /\ y \in Item
    BY <1>1, <1>4, <1>7
  <2> QED BY <1>6, <1>7, <1>8, <2>1
<1>10. \A i, j \in DOMAIN shown :
         shown[i].first /\ shown[j].first /\ shown[i].title = shown[j].title => i = j
  <2> SUFFICES ASSUME NEW i \in DOMAIN shown, NEW j \in DOMAIN shown,
                      shown[i].first, shown[j].first, shown[i].title = shown[j].title
               PROVE  i = j
    OBVIOUS
  <2>1. i \in 1 .. n /\ j \in 1 .. n
    BY <1>7
  <2>2. /\ i = 1 \/ d[list[i - 1]].park # d[list[i]].park
        /\ j = 1 \/ d[list[j - 1]].park # d[list[j]].park
        /\ d[list[i]].park = d[list[j]].park
    BY <1>7, <2>1
  <2>3. Follows(list, CatalogOrder(d), n)
    BY <1>6 DEF R
  <2> QED BY <1>2, <1>4, <2>1, <2>2, <2>3, OneSection
<1>11. {shown[i].item : i \in DOMAIN shown} = want /\ Cardinality(want) = Len(shown)
  BY <1>6, <1>7
<1>12. \A i \in DOMAIN shown, y \in want :
        y \notin {shown[j].item : j \in 1 .. i} =>
          \/ kind = "catalog" /\ d[shown[i].item].park < d[y].park
          \/ /\ kind = "catalog" => d[shown[i].item].park = d[y].park
             /\ NameRank[shown[i].item] < NameRank[y]
  BY <1>9 DEF ParkThenName
<1>13. Seen(d, list, choice, t)
  BY <1>10, <1>11, <1>12 DEF Seen, shown, want
<1> QED BY <1>13 DEF list, k

LEMMA PeopleSeen ==
  ASSUME NEW d \in Table, NEW choice, NEW t \in Text, kind = "people"
  PROVE  Seen(d, SearchUsers(d, KeyOf(choice, t)), choice, t)
<1> DEFINE k == KeyOf(choice, t)
           list == SearchUsers(d, k)
           want == Wanted(d, choice, t)
           n == Min({Cardinality(want), SEARCH_RESULT_CAP})
           R == PeopleOrder
           shown == GroupByPark(d, list)
<1>1. /\ IsFiniteSet(want) /\ want \in SUBSET Item
      /\ \E all : InOrder(all, R, want) /\ list = SubSeq(all, 1, Min({Len(all), SEARCH_RESULT_CAP}))
  BY PeopleSorted, PeopleWanted
<1> HIDE DEF k, list, want, R
<1>2. PICK all : InOrder(all, R, want) /\ list = SubSeq(all, 1, Min({Len(all), SEARCH_RESULT_CAP}))
  BY <1>1
<1>3. n \in 0 .. Cardinality(want) /\ list = [i \in 1 .. n |-> all[i]]
  <2>1. n = Min({Cardinality(want), SEARCH_RESULT_CAP}) /\ InOrder(all, PeopleOrder, want)
    BY <1>2 DEF R
  <2> HIDE DEF n
  <2>2. n \in 0 .. Cardinality(want) /\ Cut(SubSeq(all, 1, Min({Len(all), SEARCH_RESULT_CAP})), all, n)
    BY <1>1, <2>1, SearchIsCut, Zenon
  <2>3. Cut(list, all, n)
    BY <1>2, <2>2, Zenon
  <2> QED BY <2>2, <2>3 DEF Cut
<1>4. Orders(R, want)
  BY <1>1, PeopleOrders DEF R
<1>5. n \in Nat /\ Cardinality(want) \in Nat
  BY <1>1, <1>3, FS_CardinalityType
<1> DEFINE got == {list[i] : i \in 1 .. n}
<1>6. /\ got \subseteq want
      /\ Cardinality(got) = n
      /\ \A i \in 1 .. n, y \in want : y \notin {list[j] : j \in 1 .. i} => <<list[i], y>> \in R
  <2> HIDE DEF n
  <2>1. FirstOf(list, n, R, want)
    BY <1>1, <1>2, <1>3, <1>4, FirstOfOrder
  <2> QED BY <2>1 DEF FirstOf
<1> HIDE DEF n
<1>7. list \in [1 .. n -> Item]
  <2>1. \A i \in 1 .. n : list[i] \in Item
    BY <1>1, <1>6
  <2> QED BY <1>3, <2>1
<1>14. Grouping(shown, d, list, n)
  BY <1>5, <1>7, Grouped
<1>8. /\ DOMAIN shown = 1 .. n /\ Len(shown) = n
      /\ \A i \in 1 .. n : shown[i].item = list[i]
      /\ {shown[i].item : i \in DOMAIN shown} = got
      /\ \A i \in 1 .. n : {shown[j].item : j \in 1 .. i} = {list[j] : j \in 1 .. i}
  BY <1>14 DEF Grouping
<1>9. \A x, y \in Item : <<x, y>> \in R <=> NameRank[x] < NameRank[y]
  BY DEF PeopleOrder, R
<1> HIDE DEF got, shown
<1>10. kind # "catalog"
  OBVIOUS
<1>11. \A i \in DOMAIN shown, y \in want :
        y \notin {shown[j].item : j \in 1 .. i} =>
          \/ kind = "catalog" /\ d[shown[i].item].park < d[y].park
          \/ /\ kind = "catalog" => d[shown[i].item].park = d[y].park
             /\ NameRank[shown[i].item] < NameRank[y]
  <2> TAKE i \in DOMAIN shown, y \in want
  <2>1. i \in 1 .. n /\ shown[i].item = list[i] /\ list[i] \in Item /\ y \in Item
    BY <1>1, <1>7, <1>8
  <2>2. y \notin {shown[j].item : j \in 1 .. i} => NameRank[shown[i].item] < NameRank[y]
    BY <1>6, <1>8, <1>9, <2>1
  <2> QED BY <1>10, <2>2
<1>12. /\ {shown[i].item : i \in DOMAIN shown} \subseteq want
       /\ Cardinality({shown[i].item : i \in DOMAIN shown}) = Len(shown)
       /\ Cardinality({shown[i].item : i \in DOMAIN shown}) = Min({Cardinality(want), SEARCH_RESULT_CAP})
  BY <1>6, <1>8 DEF n
<1>13. Seen(d, list, choice, t)
  BY <1>10, <1>11, <1>12 DEF Seen, shown, want
<1> QED BY <1>13 DEF list, k

------------------------------------------------------------------------------
(* What is kept is what the route answered.                                *)

\* Whatever is kept or under way is what the route of its key answers for the
\* rows that it says it was selected from.
AnswersSelected ==
  /\ \A k \in DOMAIN cache : cache[k].rows = Selection(cache[k].of, k)
  /\ \A k \in DOMAIN fetching :
       fetching[k].stage = "answered" => fetching[k].rows = Selection(fetching[k].of, k)

BrowseInv == BrowseTypeOK /\ AnswersSelected

ScreenTyped ==
  /\ kind \in {"catalog", "people"} /\ table \in Table /\ open \in BOOLEAN
  /\ chosen \in Choice \cup {NoChoice} /\ typed \in Text /\ paused \in Text

CacheRight ==
  /\ DOMAIN cache \subseteq Key
  /\ \A k \in DOMAIN cache : cache[k] \in Answer /\ cache[k].rows = Selection(cache[k].of, k)

FailedTyped == failed \subseteq Key \ DOMAIN cache

QueriesRight ==
  /\ DOMAIN fetching \subseteq Key
  /\ \A k \in DOMAIN fetching :
       /\ fetching[k] \in Query
       /\ fetching[k].stage = "answered" => fetching[k].rows = Selection(fetching[k].of, k)

\* The same, by variable.
LEMMA BrowseParts ==
  /\ BrowseInv <=> ScreenTyped /\ CacheRight /\ FailedTyped /\ QueriesRight
  /\ BrowseInv' <=> ScreenTyped' /\ CacheRight' /\ FailedTyped' /\ QueriesRight'
BY DEF BrowseInv, BrowseTypeOK, AnswersSelected, ScreenTyped, CacheRight, FailedTyped, QueriesRight

LEMMA OrderedTyped ==
  ASSUME NEW S \in SUBSET Item, IsFiniteSet(S), NEW list, NEW R, InOrder(list, R, S)
  PROVE  list \in Seq(Item)
<1> DEFINE n == Cardinality(S)
<1>1. n \in Nat
  BY FS_CardinalityType
<1>2. list \in [1 .. n -> S]
  BY DEF InOrder
<1> HIDE DEF n
<1> QED BY <1>1, <1>2

\* What the routes answer are lists of items.
LEMMA SelectionTyped ==
  ASSUME NEW d \in Table, NEW k
  PROVE  Selection(d, k) \in Seq(Item)
<1>1. ListActiveExperiences(d, k) \in Seq(Item)
  BY CatalogSorted, OrderedTyped
<1>2. SearchUsers(d, k) \in Seq(Item)
  <2> DEFINE S == PeopleFound(d, k)
             n == Min({Cardinality(S), SEARCH_RESULT_CAP})
  <2>1. PICK all : /\ InOrder(all, PeopleOrder, S)
                   /\ SearchUsers(d, k) = SubSeq(all, 1, Min({Len(all), SEARCH_RESULT_CAP}))
    BY PeopleSorted
  <2>2. IsFiniteSet(S) /\ S \in SUBSET Item
    BY PeopleSorted
  <2>3. n = Min({Cardinality(S), SEARCH_RESULT_CAP})
    OBVIOUS
  <2> HIDE DEF S, n
  <2>4. n \in 0 .. Cardinality(S) /\ Cut(SubSeq(all, 1, Min({Len(all), SEARCH_RESULT_CAP})), all, n)
    BY <2>1, <2>2, <2>3, SearchIsCut, Zenon
  <2>5. Cut(SearchUsers(d, k), all, n)
    BY <2>1, <2>4, Zenon
  <2>6. Cardinality(S) \in Nat
    BY <2>2, FS_CardinalityType
  <2>7. all \in [1 .. Cardinality(S) -> S]
    BY <2>1 DEF InOrder
  <2>8. n \in Nat /\ \A i \in 1 .. n : all[i] \in Item
    BY <2>2, <2>4, <2>6, <2>7
  <2> QED BY <2>5, <2>8 DEF Cut
<1> QED BY <1>1, <1>2 DEF Selection

LEMMA KeyTyped ==
  ASSUME NEW choice \in Choice \cup {NoChoice}, NEW t \in Text
  PROVE  KeyOf(choice, t) \in Key
<1>1. choice.park \in Park \cup {All} /\ choice.category \in Category \cup {All}
  BY BrowseAssumption DEF NoChoice
<1> QED BY <1>1 DEF KeyOf, Key

LEMMA WithoutIs ==
  ASSUME NEW f, NEW k
  PROVE  /\ DOMAIN Without(f, k) = DOMAIN f \ {k}
         /\ \A x \in DOMAIN f \ {k} : Without(f, k)[x] = f[x]
BY DEF Without

\* What is kept stays right.
LEMMA QueryAdded ==
  ASSUME QueriesRight, kind' = kind, NEW k \in Key, NEW q \in Query,
         q.stage = "answered" => q.rows = Selection(q.of, k),
         fetching' = With(fetching, k, q)
  PROVE  QueriesRight'
<1>1. /\ DOMAIN fetching' = DOMAIN fetching \cup {k}
      /\ fetching'[k] = q
      /\ \A x \in DOMAIN fetching : x # k => fetching'[x] = fetching[x]
  BY DEF With
<1>2. DOMAIN fetching' \subseteq Key
  BY <1>1 DEF QueriesRight
<1>3. ASSUME NEW x \in DOMAIN fetching'
      PROVE  /\ fetching'[x] \in Query
             /\ fetching'[x].stage = "answered" =>
                  fetching'[x].rows = Selection(fetching'[x].of, x)
  BY <1>1 DEF QueriesRight
<1> QED BY <1>2, <1>3 DEF QueriesRight, Selection

LEMMA QueryRemoved ==
  ASSUME QueriesRight, kind' = kind, NEW k, fetching' = Without(fetching, k)
  PROVE  QueriesRight'
<1>1. DOMAIN fetching' = DOMAIN fetching \ {k}
      /\ \A x \in DOMAIN fetching \ {k} : fetching'[x] = fetching[x]
  BY WithoutIs
<1> QED BY <1>1 DEF QueriesRight, Selection

LEMMA CacheKept ==
  ASSUME CacheRight, kind' = kind, cache' = cache
  PROVE  CacheRight'
BY DEF CacheRight, Selection

LEMMA QueriesKept ==
  ASSUME QueriesRight, kind' = kind, fetching' = fetching
  PROVE  QueriesRight'
BY DEF QueriesRight, Selection

\* A screen that turns to a key.
LEMMA Observed ==
  ASSUME QueriesRight, FailedTyped, NEW k \in Key, Observe(k), kind' = kind, cache' = cache
  PROVE  QueriesRight' /\ FailedTyped'
<1>1. CASE UNCHANGED <<fetching, failed>>
  BY <1>1, QueriesKept DEF FailedTyped
<1>2. CASE /\ fetching' = With(fetching, k, [stage |-> "asked"])
           /\ failed' = failed \ {k}
  <2>1. [stage |-> "asked"] \in Query /\ [stage |-> "asked"].stage # "answered"
    BY DEF Query
  <2>2. QueriesRight'
    BY <1>2, <2>1, QueryAdded
  <2> QED BY <1>2, <2>2 DEF FailedTyped
<1> QED BY <1>1, <1>2 DEF Observe

\* The invariant is inductive, and it makes the list right.
LEMMA BrowseStarts == BrowseInit => BrowseInv
<1> SUFFICES ASSUME BrowseInit PROVE BrowseInv
  OBVIOUS
<1>1. DOMAIN cache = {} /\ DOMAIN fetching = {}
  BY DEF BrowseInit
<1>2. ScreenTyped
  BY BrowseAssumption DEF BrowseInit, ScreenTyped
<1>3. CacheRight /\ FailedTyped /\ QueriesRight
  BY <1>1 DEF CacheRight, FailedTyped, QueriesRight, BrowseInit
<1> QED BY <1>2, <1>3, BrowseParts

LEMMA BrowseStep == BrowseInv /\ [BrowseNext]_browseVars => BrowseInv'
<1> SUFFICES ASSUME ScreenTyped, CacheRight, FailedTyped, QueriesRight, [BrowseNext]_browseVars
             PROVE  ScreenTyped' /\ CacheRight' /\ FailedTyped' /\ QueriesRight'
  BY BrowseParts
<1>k. chosen \in Choice \cup {NoChoice} /\ paused \in Text /\ typed \in Text /\ <<>> \in Text
  BY BrowseAssumption DEF ScreenTyped
<1>1. CASE Visit
  <2>1. ScreenTyped'
    BY <1>1, <1>k DEF Visit, ScreenTyped
  <2>2. KeyOf(NoChoice, <<>>) \in Key
    BY <1>k, KeyTyped
  <2> QED BY <1>1, <2>1, <2>2, CacheKept, Observed DEF Visit
<1>2. CASE Leave
  <2>1. ScreenTyped'
    BY <1>2, <1>k DEF Leave, ScreenTyped
  <2> QED BY <1>2, <2>1, CacheKept, QueriesKept DEF Leave, FailedTyped
<1>3. CASE Pause
  <2>1. ScreenTyped'
    BY <1>3, <1>k DEF Pause, ScreenTyped
  <2>2. KeyOf(chosen, typed) \in Key
    BY <1>k, KeyTyped
  <2> QED BY <1>3, <2>1, <2>2, CacheKept, Observed DEF Pause
<1>4. ASSUME NEW choice \in Choice, Choose(choice)
      PROVE  ScreenTyped' /\ CacheRight' /\ FailedTyped' /\ QueriesRight'
  <2>1. ScreenTyped'
    BY <1>4, <1>k DEF Choose, ScreenTyped
  <2>2. KeyOf(choice, paused) \in Key
    BY <1>k, KeyTyped
  <2> QED BY <1>4, <2>1, <2>2, CacheKept, Observed DEF Choose
<1>5. ASSUME NEW text \in Text, Type(text)
      PROVE  ScreenTyped' /\ CacheRight' /\ FailedTyped' /\ QueriesRight'
  <2>1. ScreenTyped'
    BY <1>5, <1>k DEF Type, ScreenTyped
  <2> QED BY <1>5, <2>1, CacheKept, QueriesKept DEF Type, FailedTyped
<1>6. ASSUME NEW k \in Key, Select(k)
      PROVE  ScreenTyped' /\ CacheRight' /\ FailedTyped' /\ QueriesRight'
  <2> DEFINE q == [stage |-> "answered", of |-> table, rows |-> Selection(table, k)]
  <2>1. ScreenTyped' /\ FailedTyped' /\ CacheRight' /\ kind' = kind
    BY <1>6, CacheKept DEF Select, ScreenTyped, FailedTyped, fields
  <2>2. table \in Table /\ Selection(table, k) \in Seq(Item)
    BY SelectionTyped DEF ScreenTyped
  <2>3. q \in Query /\ (q.stage = "answered" => q.rows = Selection(q.of, k))
    BY <2>2 DEF Query
  <2>4. fetching' = With(fetching, k, q)
    BY <1>6 DEF Select
  <2> HIDE DEF q
  <2> QED BY <2>1, <2>3, <2>4, QueryAdded
<1>7. ASSUME NEW k \in Key, Receive(k)
      PROVE  ScreenTyped' /\ CacheRight' /\ FailedTyped' /\ QueriesRight'
  <2> DEFINE a == [rows |-> fetching[k].rows, of |-> fetching[k].of, fresh |-> TRUE]
  <2>1. ScreenTyped' /\ kind' = kind /\ QueriesRight'
    BY <1>7, QueryRemoved DEF Receive, ScreenTyped, fields
  <2>2. a \in Answer /\ a.rows = Selection(a.of, k)
    BY <1>7 DEF Receive, QueriesRight, Query, Answer
  <2>3. cache' = With(cache, k, a)
    BY <1>7 DEF Receive
  <2> HIDE DEF a
  <2>4. /\ DOMAIN cache' = DOMAIN cache \cup {k}
        /\ cache'[k] = a
        /\ \A x \in DOMAIN cache : x # k => cache'[x] = cache[x]
    BY <2>3 DEF With
  <2>5. CacheRight'
    BY <2>1, <2>2, <2>4 DEF CacheRight, Selection
  <2>6. FailedTyped'
    BY <1>7, <2>4 DEF FailedTyped, Receive
  <2> QED BY <2>1, <2>5, <2>6
<1>8. ASSUME NEW k \in Key, FailQuery(k)
      PROVE  ScreenTyped' /\ CacheRight' /\ FailedTyped' /\ QueriesRight'
  <2>1. ScreenTyped' /\ CacheRight' /\ QueriesRight'
    BY <1>8, QueryRemoved, CacheKept DEF FailQuery, ScreenTyped, fields
  <2>2. FailedTyped'
    BY <1>8 DEF FailQuery, FailedTyped
  <2> QED BY <2>1, <2>2
<1>9. ASSUME NEW k \in Key, AgeAnswer(k)
      PROVE  ScreenTyped' /\ CacheRight' /\ FailedTyped' /\ QueriesRight'
  <2>1. ScreenTyped' /\ QueriesRight' /\ kind' = kind
    BY <1>9, QueriesKept DEF AgeAnswer, ScreenTyped, fields
  <2>2. /\ DOMAIN cache' = DOMAIN cache
        /\ \A x \in DOMAIN cache : x # k => cache'[x] = cache[x]
        /\ cache'[k] = [cache[k] EXCEPT !.fresh = FALSE]
    BY <1>9 DEF AgeAnswer
  <2>3. cache'[k] \in Answer /\ cache'[k].rows = cache[k].rows /\ cache'[k].of = cache[k].of
    BY <1>9, <2>2 DEF AgeAnswer, CacheRight, Answer
  <2>4. CacheRight'
    BY <1>9, <2>1, <2>2, <2>3 DEF CacheRight, Selection, AgeAnswer
  <2>5. FailedTyped'
    BY <1>9, <2>2 DEF FailedTyped, AgeAnswer
  <2> QED BY <2>1, <2>4, <2>5
<1>10. ASSUME NEW k \in Key, Collect(k)
       PROVE  ScreenTyped' /\ CacheRight' /\ FailedTyped' /\ QueriesRight'
  <2>1. ScreenTyped' /\ QueriesRight' /\ kind' = kind
    BY <1>10, QueriesKept DEF Collect, ScreenTyped, fields
  <2>2. DOMAIN cache' = DOMAIN cache \ {k}
        /\ \A x \in DOMAIN cache \ {k} : cache'[x] = cache[x]
    BY <1>10, WithoutIs DEF Collect
  <2>3. CacheRight'
    BY <2>1, <2>2 DEF CacheRight, Selection
  <2>4. FailedTyped'
    BY <1>10, <2>2 DEF FailedTyped, Collect
  <2> QED BY <2>1, <2>3, <2>4
<1>11. CASE Change
  <2>1. ScreenTyped'
    BY <1>11 DEF Change, ScreenTyped, fields
  <2> QED BY <1>11, <2>1, CacheKept, QueriesKept DEF Change, FailedTyped, fields
<1>12. CASE UNCHANGED browseVars
  <2>1. ScreenTyped'
    BY <1>12 DEF browseVars, ScreenTyped, fields
  <2> QED BY <1>12, <2>1, CacheKept, QueriesKept DEF browseVars, FailedTyped
<1> QED BY <1>1, <1>2, <1>3, <1>4, <1>5, <1>6, <1>7, <1>8, <1>9, <1>10, <1>11, <1>12 DEF BrowseNext

LEMMA ListSeen ==
  ASSUME BrowseInv
  PROVE  ListIsOfFilters
<1> SUFFICES ASSUME Listed
             PROVE  Seen(cache[Current].of, cache[Current].rows, chosen, paused)
  BY DEF ListIsOfFilters, Seen
<1> DEFINE d == cache[Current].of
<1>1. Current \in DOMAIN cache /\ ScreenTyped /\ CacheRight
  BY BrowseParts DEF Listed
<1>2. d \in Table /\ cache[Current].rows = Selection(d, Current)
  BY <1>1 DEF CacheRight, Answer
<1>3. paused \in Text /\ Current = KeyOf(chosen, paused) /\ (kind = "catalog" \/ kind = "people")
  BY <1>1 DEF ScreenTyped, Current
<1> HIDE DEF d
<1>4. CASE kind = "catalog"
  <2>1. cache[Current].rows = ListActiveExperiences(d, KeyOf(chosen, paused))
    BY <1>2, <1>3, <1>4 DEF Selection
  <2>2. Seen(d, ListActiveExperiences(d, KeyOf(chosen, paused)), chosen, paused)
    BY <1>2, <1>3, <1>4, CatalogSeen
  <2> QED BY <2>1, <2>2, Zenon DEF d
<1>5. CASE kind = "people"
  <2>1. cache[Current].rows = SearchUsers(d, KeyOf(chosen, paused))
    BY <1>2, <1>3, <1>5 DEF Selection
  <2>2. Seen(d, SearchUsers(d, KeyOf(chosen, paused)), chosen, paused)
    BY <1>2, <1>3, <1>5, PeopleSeen
  <2> QED BY <2>1, <2>2, Zenon DEF d
<1> QED BY <1>3, <1>4, <1>5

\* Keys, answers and queries keep their types, and a key has failed or has an
\* answer, never both.
THEOREM BrowseTypeCorrect == BrowseSpec => []BrowseTypeOK
<1>1. BrowseInv => BrowseTypeOK
  BY DEF BrowseInv
<1> QED BY <1>1, BrowseStarts, BrowseStep, PTL DEF BrowseSpec

\* Whatever is typed and chosen, and in whatever order answers come, what is
\* listed is what the chips and the text of the last pause ask for, of one
\* state of the database: nothing else, nothing left out or twice, in order, in
\* one section for a park, and a long list of users cut at its end.
THEOREM ListRight == BrowseSpec => []ListIsOfFilters
<1> QED BY BrowseStarts, BrowseStep, ListSeen, PTL DEF BrowseSpec

------------------------------------------------------------------------------
(* UpstreamSet.                                                            *)

\* after is what the loop of resolvePark holds after each of its turns.
Turns(child, entityMap, parkMap, len, after) ==
  after = [hops \in 0 .. len |->
             IF hops = 0 THEN Start(child) ELSE Hop(after[hops - 1], entityMap, parkMap)]

\* The loop can be run for any number of turns.
LEMMA TurnsExist ==
  ASSUME NEW child, NEW entityMap, NEW parkMap, NEW len \in Nat
  PROVE  \E after : Turns(child, entityMap, parkMap, len, after)
<1> DEFINE Is(k, f) == Turns(child, entityMap, parkMap, k, f)
           T == {k \in 0 .. len : \E f : Is(k, f)}
<1>1. 0 \in T
  <2> DEFINE f0 == [hops \in 0 .. 0 |-> Start(child)]
  <2>1. f0 = [hops \in 0 .. 0 |->
                IF hops = 0 THEN Start(child) ELSE Hop(f0[hops - 1], entityMap, parkMap)]
    OBVIOUS
  <2> HIDE DEF f0
  <2>2. Is(0, f0)
    BY <2>1 DEF Turns
  <2> QED BY <2>2
<1>2. ASSUME NEW n \in 0 .. len - 1, n \in T PROVE n + 1 \in T
  <2>1. PICK f : Is(n, f)
    BY <1>2
  <2> DEFINE h == [hops \in 0 .. n + 1 |->
                     IF hops \in 0 .. n THEN f[hops] ELSE Hop(f[hops - 1], entityMap, parkMap)]
  <2>2. \A i \in 0 .. n : h[i] = f[i]
    OBVIOUS
  <2>3. ASSUME NEW i \in 0 .. n + 1
        PROVE  h[i] = IF i = 0 THEN Start(child) ELSE Hop(h[i - 1], entityMap, parkMap)
    <3>1. CASE i = 0
      <4>1. f[0] = Start(child)
        BY <2>1 DEF Turns
      <4> QED BY <2>2, <3>1, <4>1
    <3>2. CASE i # 0
      <4>1. i - 1 \in 0 .. n
        BY <2>3, <3>2
      <4>2. h[i - 1] = f[i - 1]
        BY <2>2, <4>1
      <4>3. i \in 0 .. n => f[i] = Hop(f[i - 1], entityMap, parkMap)
        BY <2>1, <3>2 DEF Turns
      <4>4. h[i] = Hop(f[i - 1], entityMap, parkMap)
        BY <3>2, <4>3
      <4> HIDE DEF h
      <4> QED BY <3>2, <4>2, <4>4
    <3> QED BY <3>1, <3>2
  <2>4. h = [hops \in 0 .. n + 1 |->
               IF hops = 0 THEN Start(child) ELSE Hop(h[hops - 1], entityMap, parkMap)]
    BY <2>3
  <2> HIDE DEF h
  <2>5. Is(n + 1, h)
    BY <2>4 DEF Turns
  <2> QED BY <2>5
<1>3. len \in T
  <2> HIDE DEF T
  <2> QED BY <1>1, <1>2, UpInduction
<1> QED BY <1>3

\* Climb runs it.
LEMMA ClimbIsTurns ==
  ASSUME NEW child, NEW entityMap, NEW parkMap
  PROVE  \E after : /\ Turns(child, entityMap, parkMap, MAX_PARENT_CHAIN_HOPS, after)
                    /\ Climb(child, entityMap, parkMap) = after[MAX_PARENT_CHAIN_HOPS].park
<1> DEFINE N == MAX_PARENT_CHAIN_HOPS
           after == CHOOSE f : f = [hops \in 0 .. N |->
                      IF hops = 0 THEN Start(child) ELSE Hop(f[hops - 1], entityMap, parkMap)]
<1>1. after = [hops \in 0 .. N |->
                 IF hops = 0 THEN Start(child) ELSE Hop(after[hops - 1], entityMap, parkMap)]
  <2>1. N \in Nat
    BY UpstreamAssumption
  <2>2. \E f : Turns(child, entityMap, parkMap, N, f)
    BY <2>1, TurnsExist
  <2> QED BY <2>2, Zenon DEF Turns
<1>2. Climb(child, entityMap, parkMap) = after[N].park
  BY DEF Climb
<1> HIDE DEF after
<1> QED BY <1>1, <1>2 DEF Turns

\* What the maps of a walk are like.
Maps(entityMap, parkMap) ==
  /\ NoId \notin DOMAIN entityMap \cup DOMAIN parkMap
  /\ \A id \in DOMAIN parkMap : parkMap[id] # NoPark

\* The ids q are ancestors of child, one after the other.
Chain(child, entityMap, parkMap, q, k) ==
  /\ q \in [1 .. k -> DOMAIN entityMap \cup DOMAIN parkMap]
  /\ q[1] = child.parentId
  /\ \A i \in 1 .. k - 1 : q[i] \in DOMAIN entityMap /\ entityMap[q[i]].parentId = q[i + 1]

\* x is the park that a chain of at most the limit of hops comes to.
Found(child, entityMap, parkMap, x) ==
  \E k \in 1 .. MAX_PARENT_CHAIN_HOPS : \E q :
    /\ Chain(child, entityMap, parkMap, q, k)
    /\ \A i \in 1 .. k - 1 : Gives(q[i], entityMap, parkMap) = {}
    /\ x \in Gives(q[k], entityMap, parkMap)

\* NearestPark, by chains.
LEMMA NearestIsFound ==
  ASSUME NEW child, NEW entityMap, NEW parkMap, child.id \notin DOMAIN parkMap
  PROVE  \A x : x \in NearestPark(child, entityMap, parkMap) <=> Found(child, entityMap, parkMap, x)
<1> DEFINE N == MAX_PARENT_CHAIN_HOPS
           G(id) == Gives(id, entityMap, parkMap)
           A(k) == Ancestry(child, k, entityMap, parkMap)
           C(q, k) == Chain(child, entityMap, parkMap, q, k)
<1>1. N \in Nat
  BY UpstreamAssumption
<1>2. ASSUME NEW k \in 1 .. N, NEW q PROVE (q \in A(k) <=> C(q, k)) /\ (C(q, k) => Len(q) = k)
  BY <1>1 DEF Ancestry, Chain
<1>3. NearestPark(child, entityMap, parkMap) =
        UNION {G(p[Len(p)]) : p \in {p \in UNION {A(k) : k \in 1 .. N} : \A i \in 1 .. Len(p) - 1 : G(p[i]) = {}}}
  BY DEF NearestPark
<1> HIDE DEF G, A, C, N
<1>4. ASSUME NEW x
      PROVE  x \in NearestPark(child, entityMap, parkMap) <=>
               \E k \in 1 .. N : \E q : /\ C(q, k)
                                        /\ \A i \in 1 .. k - 1 : G(q[i]) = {}
                                        /\ x \in G(q[k])
  <2>1. x \in NearestPark(child, entityMap, parkMap) <=>
          \E p \in UNION {A(k) : k \in 1 .. N} : (\A i \in 1 .. Len(p) - 1 : G(p[i]) = {}) /\ x \in G(p[Len(p)])
    BY <1>3
  <2>2. \A p : p \in UNION {A(k) : k \in 1 .. N} <=> \E k \in 1 .. N : p \in A(k)
    OBVIOUS
  <2>3. ASSUME NEW k \in 1 .. N, NEW q, C(q, k), \A i \in 1 .. k - 1 : G(q[i]) = {}, x \in G(q[k])
        PROVE  x \in NearestPark(child, entityMap, parkMap)
    <3>1. q \in UNION {A(m) : m \in 1 .. N} /\ Len(q) = k
      BY <1>2, <2>2, <2>3
    <3>2. (\A i \in 1 .. Len(q) - 1 : G(q[i]) = {}) /\ x \in G(q[Len(q)])
      BY <2>3, <3>1
    <3> QED BY <2>1, <3>1, <3>2
  <2>4. ASSUME NEW p \in UNION {A(k) : k \in 1 .. N},
               \A i \in 1 .. Len(p) - 1 : G(p[i]) = {}, x \in G(p[Len(p)])
        PROVE  \E k \in 1 .. N : \E q : /\ C(q, k)
                                        /\ \A i \in 1 .. k - 1 : G(q[i]) = {}
                                        /\ x \in G(q[k])
    BY <1>2, <2>2, <2>4
  <2> QED BY <2>1, <2>3, <2>4
<1> QED BY <1>4 DEF Found, G, C, N

\* Where the loop has got to after n turns without returning.
Trail(child, entityMap, parkMap, p, n, s) ==
  /\ \A i \in 1 .. n : /\ p[i] \in DOMAIN entityMap
                       /\ Gives(p[i], entityMap, parkMap) = {}
  /\ s.visited = {p[i] : i \in 1 .. n}
  /\ n > 0 => p[1] = child.parentId
  /\ \A i \in 1 .. n - 1 : entityMap[p[i]].parentId = p[i + 1]
  /\ s.cursor = IF n = 0 THEN child ELSE entityMap[p[n]]

\* A chain follows the trail, and goes on where it ends.
LEMMA ChainFollows ==
  ASSUME NEW child, NEW entityMap, NEW parkMap, NEW p, NEW n \in Nat, NEW s,
         Trail(child, entityMap, parkMap, p, n, s),
         NEW k \in Nat \ {0}, NEW q, Chain(child, entityMap, parkMap, q, k)
  PROVE  /\ \A i \in 1 .. k : i <= n => q[i] = p[i]
         /\ k > n => q[n + 1] = s.cursor.parentId
<1> DEFINE T == {i \in 1 .. k : i <= n => q[i] = p[i]}
<1>1. 1 \in T
  BY DEF Trail, Chain
<1>2. ASSUME NEW i \in 1 .. k - 1, i \in T PROVE i + 1 \in T
  <2>1. i + 1 \in 1 .. k
    OBVIOUS
  <2>2. i + 1 <= n => q[i] = p[i] /\ i \in 1 .. n - 1
    BY <1>2
  <2>3. entityMap[q[i]].parentId = q[i + 1]
    BY DEF Chain
  <2>4. i + 1 <= n => entityMap[p[i]].parentId = p[i + 1]
    BY <2>2 DEF Trail
  <2> QED BY <2>1, <2>2, <2>3, <2>4
<1>3. \A i \in 1 .. k : i \in T
  <2> HIDE DEF T
  <2> QED BY <1>1, <1>2, UpInduction
<1>4. ASSUME k > n PROVE q[n + 1] = s.cursor.parentId
  <2>1. CASE n = 0
    BY <2>1 DEF Trail, Chain
  <2>2. CASE n # 0
    <3>1. n \in 1 .. k - 1 /\ n \in 1 .. k
      BY <1>4, <2>2
    <3>2. q[n] = p[n]
      BY <1>3, <3>1
    <3>3. entityMap[q[n]].parentId = q[n + 1]
      BY <3>1 DEF Chain
    <3>4. s.cursor = entityMap[p[n]]
      BY <2>2 DEF Trail
    <3> QED BY <3>2, <3>3, <3>4
  <2> QED BY <2>1, <2>2
<1> QED BY <1>3, <1>4

\* A trail that comes back, or to nothing that is known, finds no park.
LEMMA DeadEnd ==
  ASSUME NEW child, NEW entityMap, NEW parkMap, NEW p, NEW n \in Nat, NEW s,
         Trail(child, entityMap, parkMap, p, n, s),
         s.cursor.parentId \in DOMAIN entityMap \cup DOMAIN parkMap => s.cursor.parentId \in s.visited
  PROVE  \A x : ~Found(child, entityMap, parkMap, x)
<1> SUFFICES ASSUME NEW x, NEW k \in 1 .. MAX_PARENT_CHAIN_HOPS, NEW q,
                    Chain(child, entityMap, parkMap, q, k), x \in Gives(q[k], entityMap, parkMap)
             PROVE  FALSE
  BY DEF Found
<1>0. k \in Nat /\ k >= 1
  BY UpstreamAssumption
<1> DEFINE Ids == DOMAIN entityMap \cup DOMAIN parkMap
           V == {p[i] : i \in 1 .. n}
           T == {i \in 1 .. k : q[i] \in V}
<1>1. \A i \in 1 .. k : q[i] \in Ids
  BY DEF Chain
<1>2. s.visited = V /\ (s.cursor.parentId \in Ids => s.cursor.parentId \in V)
  BY DEF Trail
<1>3. 1 \in T
  <2>1. q[1] = child.parentId /\ q[1] \in Ids
    BY <1>0, <1>1 DEF Chain
  <2>2. CASE n = 0
    <3>1. s.cursor.parentId = q[1] /\ V = {}
      BY <2>1, <2>2 DEF Trail
    <3> QED BY <1>2, <2>1, <3>1
  <2>3. CASE n # 0
    <3>1. p[1] = q[1] /\ 1 \in 1 .. n
      BY <2>1, <2>3 DEF Trail
    <3> QED BY <1>0, <3>1
  <2> QED BY <2>2, <2>3
<1>4. ASSUME NEW i \in 1 .. k - 1, i \in T PROVE i + 1 \in T
  <2>1. PICK j \in 1 .. n : q[i] = p[j]
    BY <1>4
  <2>2. entityMap[p[j]].parentId = q[i + 1] /\ i + 1 \in 1 .. k /\ q[i + 1] \in Ids
    BY <1>0, <1>1, <2>1 DEF Chain
  <2>3. CASE j = n
    <3>1. s.cursor.parentId = q[i + 1]
      BY <2>1, <2>2, <2>3 DEF Trail
    <3> QED BY <1>2, <2>2, <3>1
  <2>4. CASE j # n
    <3>1. j \in 1 .. n - 1 /\ j + 1 \in 1 .. n
      BY <2>4
    <3>2. q[i + 1] = p[j + 1]
      BY <2>2, <3>1 DEF Trail
    <3> QED BY <2>2, <3>1, <3>2
  <2> QED BY <2>3, <2>4
<1>5. k \in T
  <2> HIDE DEF T
  <2>1. \A i \in 1 .. k : i \in T
    BY <1>0, <1>3, <1>4, UpInduction
  <2> QED BY <1>0, <2>1
<1>6. PICK i \in 1 .. n : q[k] = p[i]
  BY <1>5
<1> QED BY <1>6 DEF Trail

\* A trail that comes to an id that gives parks finds those.
LEMMA Arrival ==
  ASSUME NEW child, NEW entityMap, NEW parkMap, NEW p, NEW n \in Nat, NEW s,
         Trail(child, entityMap, parkMap, p, n, s), n < MAX_PARENT_CHAIN_HOPS,
         NEW id \in DOMAIN entityMap \cup DOMAIN parkMap, id = s.cursor.parentId,
         Gives(id, entityMap, parkMap) # {}
  PROVE  \A x : Found(child, entityMap, parkMap, x) <=> x \in Gives(id, entityMap, parkMap)
<1>0. MAX_PARENT_CHAIN_HOPS \in Nat
  BY UpstreamAssumption
<1>1. ASSUME NEW x, Found(child, entityMap, parkMap, x) PROVE x \in Gives(id, entityMap, parkMap)
  <2>1. PICK k \in 1 .. MAX_PARENT_CHAIN_HOPS : \E q :
          /\ Chain(child, entityMap, parkMap, q, k)
          /\ \A i \in 1 .. k - 1 : Gives(q[i], entityMap, parkMap) = {}
          /\ x \in Gives(q[k], entityMap, parkMap)
    BY <1>1 DEF Found
  <2>2. PICK q :
          /\ Chain(child, entityMap, parkMap, q, k)
          /\ \A i \in 1 .. k - 1 : Gives(q[i], entityMap, parkMap) = {}
          /\ x \in Gives(q[k], entityMap, parkMap)
    BY <2>1
  <2>3. k \in Nat \ {0}
    BY <1>0
  <2>4. /\ \A i \in 1 .. k : i <= n => q[i] = p[i]
        /\ k > n => q[n + 1] = id
    BY <2>2, <2>3, ChainFollows
  <2>5. ~(k <= n)
    <3> SUFFICES ASSUME k <= n PROVE FALSE
      OBVIOUS
    <3>1. q[k] = p[k] /\ k \in 1 .. n
      BY <2>3, <2>4
    <3> QED BY <2>2, <3>1 DEF Trail
  <2>6. ~(n + 1 < k)
    <3> SUFFICES ASSUME n + 1 < k PROVE FALSE
      OBVIOUS
    <3>1. n + 1 \in 1 .. k - 1 /\ q[n + 1] = id
      BY <2>3, <2>4
    <3> QED BY <2>2, <3>1
  <2>7. k = n + 1
    BY <2>3, <2>5, <2>6
  <2> QED BY <2>2, <2>3, <2>4, <2>7
<1>2. ASSUME NEW x \in Gives(id, entityMap, parkMap) PROVE Found(child, entityMap, parkMap, x)
  <2> DEFINE q == [i \in 1 .. n + 1 |-> IF i = n + 1 THEN id ELSE p[i]]
             k == n + 1
  <2>1. k \in 1 .. MAX_PARENT_CHAIN_HOPS /\ q[k] = id /\ \A i \in 1 .. n : q[i] = p[i]
    BY <1>0
  <2>2. \A i \in 1 .. k - 1 : i \in 1 .. n
    OBVIOUS
  <2>3. q \in [1 .. k -> DOMAIN entityMap \cup DOMAIN parkMap]
    BY DEF Trail
  <2>4. q[1] = child.parentId
    BY <2>1 DEF Trail
  <2>5. ASSUME NEW i \in 1 .. k - 1
        PROVE  q[i] \in DOMAIN entityMap /\ entityMap[q[i]].parentId = q[i + 1]
    <3>1. q[i] = p[i] /\ q[i] \in DOMAIN entityMap
      BY <2>1, <2>2 DEF Trail
    <3>2. CASE i = n
      BY <2>1, <3>1, <3>2 DEF Trail
    <3>3. CASE i # n
      <4>1. i \in 1 .. n - 1 /\ i + 1 \in 1 .. n
        BY <3>3
      <4> QED BY <2>1, <3>1, <4>1 DEF Trail
    <3> QED BY <3>2, <3>3
  <2>6. Chain(child, entityMap, parkMap, q, k)
    BY <2>3, <2>4, <2>5 DEF Chain
  <2>7. \A i \in 1 .. k - 1 : Gives(q[i], entityMap, parkMap) = {}
    BY <2>1, <2>2 DEF Trail
  <2> HIDE DEF q, k
  <2> QED BY <1>2, <2>1, <2>6, <2>7 DEF Found
<1> QED BY <1>1, <1>2

\* What a park, or NoPark, says of the ancestors of a child.
IsFound(child, entityMap, parkMap, park) ==
  \A x : Found(child, entityMap, parkMap, x) <=> (x = park /\ park # NoPark)

\* The invariant of the loop.
Walked(child, entityMap, parkMap, n, s) ==
  \/ s.returned /\ IsFound(child, entityMap, parkMap, s.park)
  \/ /\ ~s.returned /\ s.park = NoPark
     /\ \E p : Trail(child, entityMap, parkMap, p, n, s)

\* One more ancestor without a park.
LEMMA TrailGrows ==
  ASSUME NEW child, NEW entityMap, NEW parkMap, NEW p, NEW n \in Nat, NEW s, NEW t,
         Trail(child, entityMap, parkMap, p, n, s),
         NEW id \in DOMAIN entityMap, id = s.cursor.parentId,
         Gives(id, entityMap, parkMap) = {},
         t.cursor = entityMap[id], t.visited = s.visited \cup {id}
  PROVE  \E q : Trail(child, entityMap, parkMap, q, n + 1, t)
<1> DEFINE q == [i \in 1 .. n + 1 |-> IF i = n + 1 THEN id ELSE p[i]]
<1>1. q[n + 1] = id /\ \A i \in 1 .. n : q[i] = p[i]
  OBVIOUS
<1>2. \A i \in 1 .. n + 1 : i \in 1 .. n \/ i = n + 1
  OBVIOUS
<1> HIDE DEF q
<1>3. \A i \in 1 .. n + 1 : q[i] \in DOMAIN entityMap /\ Gives(q[i], entityMap, parkMap) = {}
  BY <1>1, <1>2 DEF Trail
<1>4. t.visited = {q[i] : i \in 1 .. n + 1}
  <2>1. s.visited = {p[i] : i \in 1 .. n}
    BY DEF Trail
  <2>2. {q[i] : i \in 1 .. n + 1} = {p[i] : i \in 1 .. n} \cup {id}
    BY <1>1, <1>2
  <2> QED BY <2>1, <2>2
<1>5. q[1] = child.parentId
  <2>1. CASE n = 0
    BY <1>1, <2>1 DEF Trail
  <2>2. CASE n # 0
    BY <1>1, <2>2 DEF Trail
  <2> QED BY <2>1, <2>2
<1>6. ASSUME NEW i \in 1 .. (n + 1) - 1 PROVE entityMap[q[i]].parentId = q[i + 1]
  <2>1. CASE i = n
    BY <1>1, <2>1 DEF Trail
  <2>2. CASE i # n
    <3>1. i \in 1 .. n - 1 /\ i \in 1 .. n /\ i + 1 \in 1 .. n
      BY <2>2
    <3> QED BY <1>1, <3>1 DEF Trail
  <2> QED BY <2>1, <2>2
<1>7. t.cursor = IF n + 1 = 0 THEN child ELSE entityMap[q[n + 1]]
  BY <1>1
<1> QED BY <1>3, <1>4, <1>5, <1>6, <1>7 DEF Trail

\* What an id gives, by the tests of the loop.
LEMMA GivesIs ==
  ASSUME NEW entityMap, NEW parkMap, Maps(entityMap, parkMap), NEW id
  PROVE  /\ id \in DOMAIN parkMap =>
              Gives(id, entityMap, parkMap) = {parkMap[id]} /\ parkMap[id] # NoPark
         /\ id \in DOMAIN entityMap \ DOMAIN parkMap =>
              LET e == entityMap[id]
                  named == e.entityType \in {"PARK", "DESTINATION"} /\ e.name.park # NoPark
              IN  Gives(id, entityMap, parkMap) = IF named THEN {e.name.park} ELSE {}
BY DEF Gives, Maps

\* One turn keeps the invariant.
LEMMA HopWalks ==
  ASSUME NEW child, NEW entityMap, NEW parkMap, Maps(entityMap, parkMap),
         NEW n \in Nat, n < MAX_PARENT_CHAIN_HOPS, NEW s,
         DOMAIN s = {"cursor", "visited", "returned", "park"}, s.returned \in BOOLEAN,
         Walked(child, entityMap, parkMap, n, s)
  PROVE  LET t == Hop(s, entityMap, parkMap)
         IN  /\ DOMAIN t = {"cursor", "visited", "returned", "park"} /\ t.returned \in BOOLEAN
             /\ Walked(child, entityMap, parkMap, n + 1, t)
<1> DEFINE t == Hop(s, entityMap, parkMap)
           id == s.cursor.parentId
           e == entityMap[id]
           named == e.entityType \in {"PARK", "DESTINATION"} /\ e.name.park # NoPark
           Good == /\ DOMAIN t = {"cursor", "visited", "returned", "park"} /\ t.returned \in BOOLEAN
                   /\ Walked(child, entityMap, parkMap, n + 1, t)
           Return(park) == [s EXCEPT !.returned = TRUE, !.park = park]
<1>1. CASE s.returned
  <2>1. t = s
    BY <1>1 DEF Hop
  <2> QED BY <1>1, <2>1 DEF Walked
<1>2. CASE ~s.returned
  <2>1. PICK p : Trail(child, entityMap, parkMap, p, n, s)
    BY <1>2 DEF Walked
  <2>2. ASSUME NEW park, t = Return(park), IsFound(child, entityMap, parkMap, park) PROVE Good
    <3>1. DOMAIN t = DOMAIN s /\ t.returned = TRUE /\ t.park = park
      BY <2>2
    <3> HIDE DEF t
    <3> QED BY <2>2, <3>1 DEF Walked
  <2>3. CASE id = NoId \/ id \in s.visited
    <3>1. t = Return(NoPark)
      BY <1>2, <2>3 DEF Hop
    <3>2. id \in DOMAIN entityMap \cup DOMAIN parkMap => id \in s.visited
      BY <2>3 DEF Maps
    <3>3. IsFound(child, entityMap, parkMap, NoPark)
      BY <2>1, <3>2, DeadEnd DEF IsFound
    <3> QED BY <2>2, <3>1, <3>3
  <2>4. CASE id # NoId /\ id \notin s.visited /\ id \in DOMAIN parkMap
    <3>1. t = Return(parkMap[id])
      BY <1>2, <2>4 DEF Hop
    <3>2. Gives(id, entityMap, parkMap) = {parkMap[id]} /\ parkMap[id] # NoPark
      BY <2>4, GivesIs
    <3>3. \A x : Found(child, entityMap, parkMap, x) <=> x \in Gives(id, entityMap, parkMap)
      <4> HIDE DEF id
      <4>1. id = s.cursor.parentId
        BY DEF id
      <4> QED BY <2>1, <2>4, <3>2, <4>1, Arrival
    <3>4. IsFound(child, entityMap, parkMap, parkMap[id])
      BY <3>2, <3>3 DEF IsFound
    <3> QED BY <2>2, <3>1, <3>4
  <2>5. CASE id # NoId /\ id \notin s.visited /\ id \notin DOMAIN parkMap /\ id \notin DOMAIN entityMap
    <3>1. t = Return(NoPark)
      BY <1>2, <2>5 DEF Hop
    <3>2. IsFound(child, entityMap, parkMap, NoPark)
      BY <2>1, <2>5, DeadEnd DEF IsFound
    <3> QED BY <2>2, <3>1, <3>2
  <2>6. CASE id # NoId /\ id \notin s.visited /\ id \notin DOMAIN parkMap /\ id \in DOMAIN entityMap /\ named
    <3>1. t = Return(e.name.park)
      BY <1>2, <2>6 DEF Hop
    <3>2. Gives(id, entityMap, parkMap) = {e.name.park} /\ e.name.park # NoPark
      BY <2>6, GivesIs
    <3>3. \A x : Found(child, entityMap, parkMap, x) <=> x \in Gives(id, entityMap, parkMap)
      <4> HIDE DEF id, e, named
      <4>1. id = s.cursor.parentId
        BY DEF id
      <4> QED BY <2>1, <2>6, <3>2, <4>1, Arrival
    <3>4. IsFound(child, entityMap, parkMap, e.name.park)
      BY <3>2, <3>3 DEF IsFound
    <3> QED BY <2>2, <3>1, <3>4
  <2>7. CASE id # NoId /\ id \notin s.visited /\ id \notin DOMAIN parkMap /\ id \in DOMAIN entityMap /\ ~named
    <3>1. t = [s EXCEPT !.cursor = e, !.visited = @ \cup {id}]
      BY <1>2, <2>7 DEF Hop
    <3>2. /\ DOMAIN t = DOMAIN s /\ t.returned = s.returned /\ t.park = s.park
          /\ t.cursor = e /\ t.visited = s.visited \cup {id}
      BY <3>1
    <3>3. Gives(id, entityMap, parkMap) = {}
      BY <2>7, GivesIs
    <3>4. \E q : Trail(child, entityMap, parkMap, q, n + 1, t)
      BY <2>1, <2>7, <3>2, <3>3, TrailGrows
    <3>5. s.park = NoPark
      BY <1>2 DEF Walked
    <3> HIDE DEF t
    <3>6. Walked(child, entityMap, parkMap, n + 1, t)
      BY <1>2, <3>2, <3>4, <3>5 DEF Walked
    <3>7. DOMAIN t = {"cursor", "visited", "returned", "park"} /\ t.returned \in BOOLEAN
      BY <3>2
    <3> HIDE DEF id, e, named, Return
    <3> QED BY <3>6, <3>7 DEF t
  <2> HIDE DEF named
  <2> QED BY <2>3, <2>4, <2>5, <2>6, <2>7
<1> QED BY <1>1, <1>2

\* resolvePark returns the park of the nearest ancestor that gives one.
LEMMA ResolveIsNearest ==
  ASSUME NEW child, NEW entityMap, NEW parkMap, Maps(entityMap, parkMap)
  PROVE  LET park == ResolvePark(child, entityMap, parkMap)
         IN  NearestPark(child, entityMap, parkMap) = IF park = NoPark THEN {} ELSE {park}
<1> DEFINE N == MAX_PARENT_CHAIN_HOPS
<1>0. N \in Nat
  BY UpstreamAssumption
<1>1. CASE child.id \in DOMAIN parkMap
  BY <1>1 DEF ResolvePark, NearestPark, Maps
<1>2. CASE child.id \notin DOMAIN parkMap
  <2>1. PICK after : /\ Turns(child, entityMap, parkMap, N, after)
                     /\ Climb(child, entityMap, parkMap) = after[N].park
    BY ClimbIsTurns
  <2> DEFINE Good(n, s) == /\ DOMAIN s = {"cursor", "visited", "returned", "park"}
                           /\ s.returned \in BOOLEAN
                           /\ Walked(child, entityMap, parkMap, n, s)
             T == {n \in 0 .. N : Good(n, after[n])}
  <2>2. 0 \in T
    <3>1. after[0] = Start(child)
      BY <1>0, <2>1 DEF Turns
    <3>2. \A p : Trail(child, entityMap, parkMap, p, 0, Start(child))
      BY DEF Trail, Start
    <3>3. Good(0, Start(child))
      BY <3>2 DEF Walked, Start
    <3> QED BY <1>0, <3>1, <3>3
  <2>3. ASSUME NEW n \in 0 .. N - 1, n \in T PROVE n + 1 \in T
    <3>1. n \in Nat /\ n < N /\ n + 1 \in 0 .. N /\ n + 1 # 0 /\ (n + 1) - 1 = n
      BY <1>0
    <3>2. after[n + 1] = Hop(after[n], entityMap, parkMap)
      BY <2>1, <3>1 DEF Turns
    <3>3. Good(n, after[n])
      BY <2>3
    <3>4. Good(n + 1, Hop(after[n], entityMap, parkMap))
      <4> DEFINE s == after[n]
      <4>1. /\ DOMAIN s = {"cursor", "visited", "returned", "park"}
            /\ s.returned \in BOOLEAN
            /\ Walked(child, entityMap, parkMap, n, s)
        BY <3>3
      <4> HIDE DEF s
      <4>2. Good(n + 1, Hop(s, entityMap, parkMap))
        BY <3>1, <4>1, HopWalks
      <4> QED BY <4>2 DEF s
    <3> QED BY <3>1, <3>2, <3>4
  <2>4. Good(N, after[N])
    <3>1. \A n \in 0 .. N : n \in T
      <4> HIDE DEF T
      <4> QED BY <1>0, <2>2, <2>3, UpInduction
    <3> QED BY <1>0, <3>1
  <2>5. IsFound(child, entityMap, parkMap, after[N].park)
    <3>1. CASE after[N].returned
      BY <2>4, <3>1 DEF Walked
    <3>2. CASE ~after[N].returned
      <4>1. after[N].park = NoPark
        BY <2>4, <3>2 DEF Walked
      <4>2. PICK p : Trail(child, entityMap, parkMap, p, N, after[N])
        BY <2>4, <3>2 DEF Walked
      <4>3. ASSUME NEW k \in 1 .. N, NEW q, Chain(child, entityMap, parkMap, q, k)
            PROVE  Gives(q[k], entityMap, parkMap) = {}
        <5>1. k \in Nat \ {0} /\ k \in 1 .. k /\ k <= N
          BY <1>0
        <5>2. q[k] = p[k]
          BY <1>0, <4>2, <4>3, <5>1, ChainFollows
        <5> QED BY <4>2, <5>2 DEF Trail
      <4> QED BY <4>1, <4>3 DEF IsFound, Found
    <3> QED BY <2>4, <3>1, <3>2
  <2>6. ResolvePark(child, entityMap, parkMap) = after[N].park
    BY <1>2, <2>1 DEF ResolvePark
  <2>7. \A x : x \in NearestPark(child, entityMap, parkMap) <=> (x = after[N].park /\ after[N].park # NoPark)
    BY <1>2, <2>5, NearestIsFound DEF IsFound
  <2> QED BY <2>6, <2>7
<1> QED BY <1>1, <1>2

\* out is what the loop of buildUpstreamSet has collected after each child.
Pushes(children, entityMap, parkMap, len, out) ==
  out = [n \in 0 .. len |->
           IF n = 0 THEN <<>> ELSE Push(out[n - 1], children[n], entityMap, parkMap)]

\* The loop can be run over any number of children.
LEMMA PushesExist ==
  ASSUME NEW children, NEW entityMap, NEW parkMap, NEW len \in Nat
  PROVE  \E out : Pushes(children, entityMap, parkMap, len, out)
<1> DEFINE Is(k, f) == Pushes(children, entityMap, parkMap, k, f)
           T == {k \in 0 .. len : \E f : Is(k, f)}
           P(o, n) == Push(o, children[n], entityMap, parkMap)
<1>1. 0 \in T
  <2> DEFINE f0 == [n \in 0 .. 0 |-> <<>>]
  <2>1. f0 = [n \in 0 .. 0 |-> IF n = 0 THEN <<>> ELSE Push(f0[n - 1], children[n], entityMap, parkMap)]
    OBVIOUS
  <2> HIDE DEF f0
  <2>2. Is(0, f0)
    BY <2>1 DEF Pushes
  <2> QED BY <2>2
<1>2. ASSUME NEW n \in 0 .. len - 1, n \in T PROVE n + 1 \in T
  <2>1. PICK f : Is(n, f)
    BY <1>2
  <2> DEFINE h == [i \in 0 .. n + 1 |-> IF i \in 0 .. n THEN f[i] ELSE P(f[i - 1], i)]
  <2> HIDE DEF P
  <2>2. \A i \in 0 .. n : h[i] = f[i]
    OBVIOUS
  <2>3. ASSUME NEW i \in 0 .. n + 1
        PROVE  h[i] = IF i = 0 THEN <<>> ELSE P(h[i - 1], i)
    <3>1. CASE i = 0
      <4>1. f[0] = <<>>
        BY <2>1 DEF Pushes
      <4> QED BY <2>2, <3>1, <4>1
    <3>2. CASE i # 0
      <4>1. i - 1 \in 0 .. n
        BY <2>3, <3>2
      <4>2. h[i - 1] = f[i - 1]
        BY <2>2, <4>1
      <4>3. i \in 0 .. n => f[i] = P(f[i - 1], i)
        BY <2>1, <3>2 DEF Pushes, P
      <4>4. h[i] = P(f[i - 1], i)
        BY <3>2, <4>3
      <4> HIDE DEF h
      <4> QED BY <3>2, <4>2, <4>4
    <3> QED BY <3>1, <3>2
  <2>4. h = [i \in 0 .. n + 1 |-> IF i = 0 THEN <<>> ELSE P(h[i - 1], i)]
    BY <2>3
  <2> HIDE DEF h
  <2>5. Is(n + 1, h)
    BY <2>4 DEF Pushes, P
  <2> QED BY <2>5
<1>3. len \in T
  <2> HIDE DEF T
  <2> QED BY <1>1, <1>2, UpInduction
<1> QED BY <1>3

\* BuildUpstreamSet runs it.
LEMMA BuildIsPushes ==
  ASSUME NEW children, NEW entityMap, NEW parkMap, Len(children) \in Nat
  PROVE  \E out : /\ Pushes(children, entityMap, parkMap, Len(children), out)
                  /\ BuildUpstreamSet(children, entityMap, parkMap) = out[Len(children)]
<1> DEFINE N == Len(children)
           out == CHOOSE f : f = [n \in 0 .. N |->
                    IF n = 0 THEN <<>> ELSE Push(f[n - 1], children[n], entityMap, parkMap)]
<1>1. out = [n \in 0 .. N |->
               IF n = 0 THEN <<>> ELSE Push(out[n - 1], children[n], entityMap, parkMap)]
  <2>1. \E f : Pushes(children, entityMap, parkMap, N, f)
    BY PushesExist
  <2> QED BY <2>1, Zenon DEF Pushes
<1>2. BuildUpstreamSet(children, entityMap, parkMap) = out[N]
  BY DEF BuildUpstreamSet
<1> HIDE DEF out
<1> QED BY <1>1, <1>2 DEF Pushes

\* What a child becomes.
Becomes(child, entityMap, parkMap) ==
  ToUpstreamExperience(child, ResolvePark(child, entityMap, parkMap))

\* The invariant of the loop: of the first n children each accepted one is
\* there, with the data of the last of its id.
Built(children, entityMap, parkMap, A, n, o) ==
  /\ \A id : id \in DOMAIN o <=> \E m \in A : m <= n /\ children[m].id = id
  /\ \A id \in DOMAIN o : \E m \in A :
       /\ m <= n /\ children[m].id = id
       /\ \A j \in A : j <= n /\ children[j].id = id => j <= m
       /\ o[id] = Becomes(children[m], entityMap, parkMap)

\* One child keeps it.
LEMMA PushBuilds ==
  ASSUME NEW children, NEW entityMap, NEW parkMap, NEW A \in SUBSET Nat, NEW n \in Nat, NEW o,
         Built(children, entityMap, parkMap, A, n, o),
         n + 1 \in A <=> /\ children[n + 1].entityType \in INCLUDE_SET
                         /\ ResolvePark(children[n + 1], entityMap, parkMap) # NoPark
  PROVE  Built(children, entityMap, parkMap, A, n + 1, Push(o, children[n + 1], entityMap, parkMap))
<1> DEFINE child == children[n + 1]
           out == Push(o, child, entityMap, parkMap)
           Id(m) == children[m].id
           B(m) == Becomes(children[m], entityMap, parkMap)
<1>1. \A m \in A : m <= n + 1 <=> m <= n \/ m = n + 1
  OBVIOUS
<1>2. /\ \A id : id \in DOMAIN o <=> \E m \in A : m <= n /\ Id(m) = id
      /\ \A id \in DOMAIN o : \E m \in A :
           /\ m <= n /\ Id(m) = id
           /\ \A j \in A : j <= n /\ Id(j) = id => j <= m
           /\ o[id] = B(m)
  BY DEF Built
<1>3. CASE n + 1 \notin A
  <2>1. out = o
    BY <1>3 DEF Push
  <2>2. \A m \in A : m <= n + 1 <=> m <= n
    BY <1>1, <1>3
  <2> HIDE DEF out, Id, B
  <2>3. /\ \A id : id \in DOMAIN out <=> \E m \in A : m <= n + 1 /\ Id(m) = id
        /\ \A id \in DOMAIN out : \E m \in A :
             /\ m <= n + 1 /\ Id(m) = id
             /\ \A j \in A : j <= n + 1 /\ Id(j) = id => j <= m
             /\ out[id] = B(m)
    BY <1>2, <2>1, <2>2
  <2> QED BY <2>3 DEF Built, out, Id, B
<1>4. CASE n + 1 \in A
  <2>1. out = [id \in DOMAIN o \cup {Id(n + 1)} |-> IF id = Id(n + 1) THEN B(n + 1) ELSE o[id]]
    BY <1>4 DEF Push, Becomes
  <2> HIDE DEF out, Id, B
  <2>2. /\ DOMAIN out = DOMAIN o \cup {Id(n + 1)} /\ out[Id(n + 1)] = B(n + 1)
        /\ \A id \in DOMAIN o : id # Id(n + 1) => out[id] = o[id]
    BY <2>1
  <2>3. \A id : id \in DOMAIN out <=> \E m \in A : m <= n + 1 /\ Id(m) = id
    BY <1>1, <1>2, <1>4, <2>2
  <2>4. ASSUME NEW id \in DOMAIN out
        PROVE  \E m \in A :
                 /\ m <= n + 1 /\ Id(m) = id
                 /\ \A j \in A : j <= n + 1 /\ Id(j) = id => j <= m
                 /\ out[id] = B(m)
    <3>1. CASE id = Id(n + 1)
      BY <1>4, <2>2, <3>1
    <3>2. CASE id # Id(n + 1)
      <4>1. id \in DOMAIN o /\ out[id] = o[id]
        BY <2>2, <3>2
      <4>2. PICK m \in A : /\ m <= n /\ Id(m) = id
                           /\ \A j \in A : j <= n /\ Id(j) = id => j <= m
                           /\ o[id] = B(m)
        BY <1>2, <4>1
      <4>3. m <= n + 1 /\ \A j \in A : j <= n + 1 /\ Id(j) = id => j <= m
        BY <1>1, <3>2, <4>2
      <4> QED BY <4>1, <4>2, <4>3
    <3> QED BY <3>1, <3>2
  <2>5. /\ \A id : id \in DOMAIN out <=> \E m \in A : m <= n + 1 /\ children[m].id = id
        /\ \A id \in DOMAIN out : \E m \in A :
             /\ m <= n + 1 /\ children[m].id = id
             /\ \A j \in A : j <= n + 1 /\ children[j].id = id => j <= m
             /\ out[id] = Becomes(children[m], entityMap, parkMap)
    BY <2>3, <2>4 DEF Id, B
  <2> QED BY <2>5 DEF Built, out
<1> QED BY <1>3, <1>4

\* So it holds of all of them.
LEMMA AllBuilt ==
  ASSUME NEW children, NEW entityMap, NEW parkMap, NEW A,
         Len(children) \in Nat, A \in SUBSET (1 .. Len(children)),
         \A n \in 1 .. Len(children) :
           n \in A <=> /\ children[n].entityType \in INCLUDE_SET
                       /\ ResolvePark(children[n], entityMap, parkMap) # NoPark
  PROVE  Built(children, entityMap, parkMap, A, Len(children),
               BuildUpstreamSet(children, entityMap, parkMap))
<1> DEFINE N == Len(children)
<1>1. PICK out : /\ Pushes(children, entityMap, parkMap, N, out)
                 /\ BuildUpstreamSet(children, entityMap, parkMap) = out[N]
  BY BuildIsPushes
<1> DEFINE T == {n \in 0 .. N : Built(children, entityMap, parkMap, A, n, out[n])}
<1>2. 0 \in T
  <2>1. out[0] = <<>> /\ DOMAIN <<>> = {}
    BY <1>1 DEF Pushes
  <2>2. \A m \in A : ~(m <= 0)
    OBVIOUS
  <2> QED BY <2>1, <2>2 DEF Built
<1>3. ASSUME NEW n \in 0 .. N - 1, n \in T PROVE n + 1 \in T
  <2>1. n \in Nat /\ n + 1 \in 1 .. N /\ n + 1 # 0 /\ (n + 1) - 1 = n /\ A \in SUBSET Nat
    OBVIOUS
  <2>2. out[n + 1] = Push(out[n], children[n + 1], entityMap, parkMap)
    BY <1>1, <2>1 DEF Pushes
  <2>3. Built(children, entityMap, parkMap, A, n, out[n])
    BY <1>3
  <2>4. Built(children, entityMap, parkMap, A, n + 1, Push(out[n], children[n + 1], entityMap, parkMap))
    BY <2>1, <2>3, PushBuilds
  <2> QED BY <2>1, <2>2, <2>4
<1>4. N \in T
  <2>1. 0 \in Nat /\ N \in Nat /\ N \in 0 .. N
    OBVIOUS
  <2> HIDE DEF T, N
  <2>2. \A n \in 0 .. N : n \in T
    BY <1>2, <1>3, <2>1, UpInduction
  <2> QED BY <2>1, <2>2
<1> QED BY <1>1, <1>4

\* The maps that a walk makes of an answer are so.
LEMMA AnswerMaps ==
  ASSUME NEW upstream \in Answers
  PROVE  Maps(BuildEntityMap(upstream.children), BuildParkMap(FindWdwDestination(upstream.destinations)))
<1> DEFINE children == upstream.children
           destinations == upstream.destinations
           W == {n \in DOMAIN destinations : destinations[n].wdw}
           entityMap == BuildEntityMap(children)
           parkMap == BuildParkMap(FindWdwDestination(destinations))
<1>1. /\ children \in Seq(ToSet(children))
      /\ \A n \in DOMAIN children : children[n].id # NoId
      /\ destinations \in Seq(ToSet(destinations))
      /\ W # {}
      /\ \A n \in DOMAIN destinations : NoId \notin DOMAIN destinations[n].parks
  BY UpstreamAssumption
<1>2. Min(W) \in DOMAIN destinations
  <2>1. W \in SUBSET Nat /\ W \in SUBSET DOMAIN destinations
    BY <1>1
  <2> HIDE DEF W
  <2>2. \E n \in W : \A m \in W : n <= m
    BY <1>1, <2>1, LeastNumber
  <2>3. Min(W) \in W
    BY <2>2 DEF Min
  <2> QED BY <2>1, <2>3
<1>3. NoId \notin DOMAIN entityMap
  <2>1. DOMAIN entityMap = {child.id : child \in ToSet(children)}
    BY DEF BuildEntityMap
  <2> HIDE DEF entityMap
  <2>2. \A child \in ToSet(children) : child.id # NoId
    BY <1>1 DEF ToSet
  <2> QED BY <2>1, <2>2
<1>4. NoId \notin DOMAIN parkMap /\ \A id \in DOMAIN parkMap : parkMap[id] # NoPark
  <2> DEFINE d == FindWdwDestination(destinations)
  <2>1. d = destinations[Min(W)]
    BY DEF FindWdwDestination
  <2>2. NoId \notin DOMAIN d.parks
    BY <1>1, <1>2, <2>1
  <2> HIDE DEF d
  <2>3. NoId \notin DOMAIN BuildParkMap(d) /\ \A id \in DOMAIN BuildParkMap(d) : BuildParkMap(d)[id] # NoPark
    BY <2>2 DEF BuildParkMap
  <2> QED BY <2>3 DEF d
<1> QED BY <1>3, <1>4 DEF Maps

\* Whatever upstream answers, repetitions, cycles and gaps included, a walk
\* keeps exactly the included children that have a park within the limit of
\* hops, each with the data of its last record and with its nearest park
\* (sync.ts, resolvePark and buildUpstreamSet).
THEOREM WalkRight == WalksAreRight
<1> SUFFICES ASSUME NEW upstream \in Answers
             PROVE  LET children == upstream.children
                        entityMap == BuildEntityMap(children)
                        parkMap == BuildParkMap(FindWdwDestination(upstream.destinations))
                        out == Walk(upstream)
                    IN  /\ DOMAIN out = {children[n].id : n \in Accepted(children, entityMap, parkMap)}
                        /\ \A id \in DOMAIN out : \E n \in LastOf(id, children, entityMap, parkMap) :
                             /\ {out[id].park} = NearestPark(children[n], entityMap, parkMap)
                             /\ out[id].name = children[n].name
                             /\ out[id].category = Classify(children[n])
  BY DEF WalksAreRight, Filed
<1> DEFINE children == upstream.children
           entityMap == BuildEntityMap(children)
           parkMap == BuildParkMap(FindWdwDestination(upstream.destinations))
           out == Walk(upstream)
           A == Accepted(children, entityMap, parkMap)
           N == Len(children)
<1>1. N \in Nat /\ DOMAIN children = 1 .. N
  BY UpstreamAssumption
<1>2. Maps(entityMap, parkMap)
  BY AnswerMaps
<1>3. out = BuildUpstreamSet(children, entityMap, parkMap)
  BY DEF Walk
<1> HIDE DEF entityMap, parkMap, out, children
<1>4. \A child : NearestPark(child, entityMap, parkMap) =
                   IF ResolvePark(child, entityMap, parkMap) = NoPark THEN {}
                   ELSE {ResolvePark(child, entityMap, parkMap)}
  BY <1>2, ResolveIsNearest
<1>5. /\ A \in SUBSET (1 .. N)
      /\ \A n \in 1 .. N : n \in A <=> /\ children[n].entityType \in INCLUDE_SET
                                       /\ ResolvePark(children[n], entityMap, parkMap) # NoPark
  BY <1>1, <1>4 DEF Accepted
<1>6. Built(children, entityMap, parkMap, A, N, out)
  <2> HIDE DEF A
  <2> QED BY <1>1, <1>3, <1>5, AllBuilt
<1>7. \A m \in A : m <= N /\ m \in 1 .. N
  <2> HIDE DEF A
  <2> QED BY <1>1, <1>5
<1>8. DOMAIN out = {children[n].id : n \in A}
  <2> HIDE DEF A
  <2> QED BY <1>6, <1>7 DEF Built
<1>9. ASSUME NEW id \in DOMAIN out
      PROVE  \E n \in LastOf(id, children, entityMap, parkMap) :
               /\ {out[id].park} = NearestPark(children[n], entityMap, parkMap)
               /\ out[id].name = children[n].name
               /\ out[id].category = Classify(children[n])
  <2> HIDE DEF A
  <2>1. PICK m \in A : /\ m <= N /\ children[m].id = id
                       /\ \A j \in A : j <= N /\ children[j].id = id => j <= m
                       /\ out[id] = Becomes(children[m], entityMap, parkMap)
    BY <1>6 DEF Built
  <2>2. m \in LastOf(id, children, entityMap, parkMap)
    BY <1>7, <2>1 DEF LastOf, A
  <2>3. /\ out[id].park = ResolvePark(children[m], entityMap, parkMap)
        /\ out[id].name = children[m].name
        /\ out[id].category = Classify(children[m])
    BY <2>1 DEF Becomes, ToUpstreamExperience
  <2>4. {out[id].park} = NearestPark(children[m], entityMap, parkMap)
    BY <1>4, <1>5, <1>7, <2>3
  <2> QED BY <2>2, <2>3, <2>4
<1> QED BY <1>8, <1>9 DEF children, entityMap, parkMap, out

------------------------------------------------------------------------------
(* CatalogContent.                                                         *)

\* An applied diff gives a row all the data of the release it was computed from,
\* or leaves its data alone, and no release is forgotten.
LEMMA RowsStep ==
  ASSUME TypeOK, [Next]_vars, RowsAreOfReleases
  PROVE  RowsAreOfReleases'
<1>1. \A n \in DOMAIN releases : n \in DOMAIN releases' /\ releases'[n] = releases[n]
  <2>1. DOMAIN releases = 1..Len(releases) /\ Len(releases) \in Nat
    BY DEF TypeOK
  <2>2. UNCHANGED releases \/ \E content \in Content : releases' = Append(releases, content)
    BY DEF Next, SyncStep, vars, ReadAge, RunJob, Deadline, List, Acquire, Fetch, Compare, Apply,
       RecordSuccess, Fail, RecordFailure, Release, Crash, Expire, GrowStale, ChangeUpstream
  <2>3. releases \in Seq(Content)
    BY DEF TypeOK
  <2>4. QED
    BY <2>1, <2>2, <2>3
<1>2. CASE UNCHANGED rows
  BY <1>1, <1>2 DEF RowsAreOfReleases
<1>3. ASSUME NEW c \in Caller, Apply(c)
      PROVE  RowsAreOfReleases'
  <2>1. /\ sync[c].fetched \in DOMAIN releases
        /\ rows' = Reconciled(c)
        /\ rows \in [Experience -> Row]
    BY <1>3 DEF Apply, TypeOK
  <2>2. ASSUME NEW e \in Experience
        PROVE  rows'[e].detail \in {rows[e].detail, releases[sync[c].fetched][e]}
    BY <2>1 DEF Reconciled, Row
  <2>3. QED
    BY <1>1, <2>1, <2>2 DEF RowsAreOfReleases
<1>4. QED
  BY <1>2, <1>3
     DEF Next, SyncStep, vars, ReadAge, RunJob, Deadline, List, Acquire, Fetch, Compare,
         RecordSuccess, Fail, RecordFailure, Release, Crash, Expire, GrowStale, ChangeUpstream

\* Whatever upstream answers and however syncs overlap, fail and die, each row
\* of the catalog is what one walk made of its entity, filed under its nearest
\* park (sync.ts; repo.ts, applyReconciliation).
THEOREM ParkRight == Spec => []ParkIsNearest
<1>1. Init => RowsAreOfReleases
  BY DEF Init, NoRow, RowsAreOfReleases
<1>2. IInv /\ RowsAreOfReleases /\ [Next]_vars => RowsAreOfReleases'
  BY RowsStep DEF IInv
<1>3. RowsAreOfReleases => ParkIsNearest
  BY WalkRight DEF ParkIsNearest
<1>4. QED
  BY <1>1, <1>2, <1>3, Always, PTL DEF Spec

\* So of every row that has been written upstream once gave an answer in which
\* the row's park is the nearest of its entity.
THEOREM RowsAreFiled ==
  Spec => [](\A e \in Experience : rows[e].detail # Absent =>
               \E upstream \in Answers : Filed(e, rows[e].detail, upstream))
<1> DEFINE Filings == \A e \in Experience : rows[e].detail # Absent =>
                        \E upstream \in Answers : Filed(e, rows[e].detail, upstream)
<1>1. IInv /\ ParkIsNearest => Filings
  <2> SUFFICES ASSUME TypeOK, ParkIsNearest, NEW e \in Experience, rows[e].detail # Absent
               PROVE  \E upstream \in Answers : Filed(e, rows[e].detail, upstream)
    BY DEF IInv
  <2>1. PICK n \in DOMAIN releases : rows[e].detail = releases[n][e]
    BY DEF ParkIsNearest, RowsAreOfReleases
  <2>2. releases[n] \in Content
    BY DEF TypeOK
  <2>3. PICK upstream \in Answers : releases[n] = ContentOf(upstream)
    BY <2>2, ContentAssumption
  <2>4. e \in DOMAIN Walk(upstream) /\ rows[e].detail = Walk(upstream)[e]
    BY <2>1, <2>3 DEF ContentOf
  <2>5. Filed(e, Walk(upstream)[e], upstream)
    BY <2>4, WalkRight DEF WalksAreRight
  <2> QED BY <2>4, <2>5
<1>2. QED
  BY <1>1, Always, ParkRight, PTL
===============================================================================
