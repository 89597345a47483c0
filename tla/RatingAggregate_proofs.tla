------------------------ MODULE RatingAggregate_proofs ------------------------
(***************************************************************************)
(* Theorems about RatingAggregate and AggregateReconcile, for every set of *)
(* users, experiences and handlers and every initial table of ratings.     *)
(***************************************************************************)
EXTENDS AggregateReconcile, FiniteSetTheorems, SequenceTheorems, TLAPS

\* The points of one user: a column of `n` cells.
LEMMA ColumnCardinality ==
  ASSUME NEW u, NEW n \in Rating0
  PROVE  /\ IsFiniteSet({u} \X (1 .. n))
         /\ Cardinality({u} \X (1 .. n)) = n
<1>1. IsFiniteSet({u}) /\ Cardinality({u}) = 1
  BY FS_Singleton
<1>2. n \in Int /\ n >= 0
  BY DEF Rating0, Rating, NoRating, MaxRating
<1>3. IsFiniteSet(1 .. n) /\ Cardinality(1 .. n) = n
  BY <1>2, FS_Interval
<1>4. /\ IsFiniteSet({u} \X (1 .. n))
      /\ Cardinality({u} \X (1 .. n)) = Cardinality({u}) * Cardinality(1 .. n)
  BY <1>1, <1>3, FS_Product, Zenon
<1>5. QED
  BY <1>1, <1>2, <1>3, <1>4

\* Changing one rating changes the sum of its experience by the difference.
LEMMA PointsUpdate ==
  ASSUME NEW r \in [Row -> Rating0], NEW u \in User, NEW e \in Experience,
         NEW new \in Rating0
  PROVE  LET s == [r EXCEPT ![<<u, e>>] = new] IN
         /\ Points(r, e) \in Nat
         /\ Points(s, e) = Points(r, e) + (new - r[<<u, e>>])
<1> DEFINE s == [r EXCEPT ![<<u, e>>] = new]
           Cells(t) == {p \in User \X Rating : p[2] <= t[<<p[1], e>>]}
           Rest == {p \in (User \ {u}) \X Rating : p[2] <= r[<<p[1], e>>]}
           Column(n) == {u} \X (1 .. n)
<1>1. r[<<u, e>>] \in Rating0 /\ s \in [Row -> Rating0] /\ s[<<u, e>>] = new
  BY DEF Row
<1>2. \A x \in User \ {u} : s[<<x, e>>] = r[<<x, e>>]
  BY DEF Row
<1>3. IsFiniteSet(User \X Rating)
  <2>1. IsFiniteSet(Rating)
    BY FS_Interval, 1 \in Int, 10 \in Int, Zenon DEF Rating, MaxRating
  <2>2. QED
    BY <2>1, ConstantsAssumption, FS_Product
<1>4. Rest \subseteq User \X Rating
  OBVIOUS
<1>5. IsFiniteSet(Rest) /\ Cardinality(Rest) \in Nat
  BY <1>3, <1>4, FS_Subset, FS_CardinalityType
<1>6. ASSUME NEW n \in Rating0
      PROVE  /\ Rest \cap Column(n) = {}
             /\ Cardinality(Rest \cup Column(n)) = Cardinality(Rest) + n
  <2>1. Rest \cap Column(n) = {}
    OBVIOUS
  <2>2. IsFiniteSet(Column(n)) /\ Cardinality(Column(n)) = n
    BY ColumnCardinality
  <2>3. Cardinality(Rest \cap Column(n)) = 0
    BY <2>1, FS_EmptySet
  <2> HIDE DEF Rest, Column
  <2>4. n \in Int
    BY DEF Rating0, Rating, NoRating
  <2>5. Cardinality(Rest \cup Column(n))
          = Cardinality(Rest) + Cardinality(Column(n)) - Cardinality(Rest \cap Column(n))
    BY <1>5, <2>2, FS_Union, Zenon
  <2>6. QED
    BY <1>5, <2>1, <2>2, <2>3, <2>4, <2>5
<1>7. ASSUME NEW t \in [Row -> Rating0],
             \A x \in User \ {u} : t[<<x, e>>] = r[<<x, e>>]
      PROVE  Cells(t) = Rest \cup Column(t[<<u, e>>])
  <2>1. t[<<u, e>>] \in Int /\ t[<<u, e>>] <= 10
    BY DEF Row, Rating0, Rating, NoRating, MaxRating
  <2>2. ASSUME NEW p \in Cells(t) PROVE p \in Rest \cup Column(t[<<u, e>>])
    <3>1. CASE p[1] = u
      BY <2>1, <2>2, <3>1 DEF Rating, MaxRating
    <3>2. CASE p[1] # u
      BY <1>7, <2>2, <3>2
    <3>3. QED
      BY <3>1, <3>2
  <2>3. ASSUME NEW p \in Rest PROVE p \in Cells(t)
    BY <1>7, <2>3
  <2>4. ASSUME NEW p \in Column(t[<<u, e>>]) PROVE p \in Cells(t)
    BY <2>1, <2>4 DEF Rating, MaxRating
  <2>5. QED
    BY <2>2, <2>3, <2>4
<1>8. Points(r, e) = Cardinality(Rest) + r[<<u, e>>]
  BY <1>1, <1>6, <1>7 DEF Points
<1>9. Points(s, e) = Cardinality(Rest) + new
  BY <1>1, <1>2, <1>6, <1>7 DEF Points
<1> HIDE DEF s, Rest
<1>10. r[<<u, e>>] \in Nat /\ new \in Nat
  BY <1>1 DEF Rating0, Rating, NoRating
<1>11. QED
  BY <1>5, <1>8, <1>9, <1>10 DEF s

\* ... and the number of its ratings by one, when a row appears or goes.
LEMMA RatersUpdate ==
  ASSUME NEW r \in [Row -> Rating0], NEW u \in User, NEW e \in Experience,
         NEW new \in Rating0
  PROVE  LET s == [r EXCEPT ![<<u, e>>] = new] IN
         /\ Raters(r, e) \in Nat
         /\ Raters(s, e) = Raters(r, e) + (Present(new) - Present(r[<<u, e>>]))
<1> DEFINE s == [r EXCEPT ![<<u, e>>] = new]
           Who(t) == {x \in User : t[<<x, e>>] # NoRating}
           Others == Who(r) \ {u}
<1>1. s \in [Row -> Rating0] /\ s[<<u, e>>] = new
  BY DEF Row
<1>2. \A x \in User \ {u} : s[<<x, e>>] = r[<<x, e>>]
  BY DEF Row
<1>3. IsFiniteSet(Who(r)) /\ Cardinality(Who(r)) \in Nat
  BY ConstantsAssumption, FS_Subset, FS_CardinalityType
<1>4. /\ IsFiniteSet(Others)
      /\ Cardinality(Others) = Cardinality(Who(r)) - Present(r[<<u, e>>])
  <2>1. /\ IsFiniteSet(Others)
        /\ Cardinality(Others) = IF u \in Who(r) THEN Cardinality(Who(r)) - 1
                                                ELSE Cardinality(Who(r))
    BY <1>3, FS_RemoveElement, Zenon
  <2>2. u \in Who(r) <=> r[<<u, e>>] # NoRating
    OBVIOUS
  <2> HIDE DEF Who, Others
  <2>3. QED
    BY <1>3, <2>1, <2>2 DEF Present
<1>5. Cardinality(Who(s)) = Cardinality(Others) + Present(new)
  <2>1. CASE new = NoRating
    <3>1. Who(s) = Others
      BY <1>1, <1>2, <2>1
    <3> HIDE DEF Who, Others, s
    <3>2. QED
      BY <1>3, <1>4, <2>1, <3>1 DEF Present
  <2>2. CASE new # NoRating
    <3>1. Who(s) = Others \cup {u} /\ u \notin Others
      BY <1>1, <1>2, <2>2
    <3>2. Cardinality(Others \cup {u}) = Cardinality(Others) + 1
      BY <1>4, <3>1, FS_AddElement, Zenon
    <3> HIDE DEF Who, Others, s
    <3>3. QED
      BY <2>2, <3>1, <3>2 DEF Present
  <2>3. QED
    BY <2>1, <2>2
<1>6. Present(new) \in Int /\ Present(r[<<u, e>>]) \in Int
  BY DEF Present
<1>7. Raters(r, e) = Cardinality(Who(r)) /\ Raters(s, e) = Cardinality(Who(s))
  BY DEF Raters
<1> HIDE DEF Who, Others, s
<1>8. QED
  BY <1>3, <1>4, <1>5, <1>6, <1>7 DEF s

\* One event, applied to the exact row of a table, gives the exact row of the
\* table it changes; the rows of the other experiences are not concerned.
LEMMA ExactRowUpdate ==
  ASSUME NEW r \in [Row -> Rating0], NEW row \in Row, NEW new \in Rating0
  PROVE  LET s == [r EXCEPT ![row] = new] IN
         /\ ExactRow(s, row[2])
              = UpdateMeanX10(ExactRow(r, row[2]).sum, ExactRow(r, row[2]).count,
                              r[row], new)
         /\ \A e \in Experience \ {row[2]} : ExactRow(s, e) = ExactRow(r, e)
<1> DEFINE s == [r EXCEPT ![row] = new]
<1>1. row[1] \in User /\ row[2] \in Experience /\ row = <<row[1], row[2]>>
  BY DEF Row
<1>2. Points(s, row[2]) = Points(r, row[2]) + (new - r[row])
  BY <1>1, PointsUpdate
<1>3. Raters(s, row[2]) = Raters(r, row[2]) + (Present(new) - Present(r[row]))
  BY <1>1, RatersUpdate
<1>4. ExactRow(s, row[2])
        = UpdateMeanX10(ExactRow(r, row[2]).sum, ExactRow(r, row[2]).count, r[row], new)
  BY <1>2, <1>3 DEF ExactRow, RowOf, UpdateMeanX10
<1>5. ASSUME NEW e \in Experience \ {row[2]}
      PROVE  ExactRow(s, e) = ExactRow(r, e)
  <2>1. \A u \in User : s[<<u, e>>] = r[<<u, e>>]
    BY <1>1 DEF Row
  <2>2. Points(s, e) = Points(r, e) /\ Raters(s, e) = Raters(r, e)
    BY <2>1 DEF Points, Raters
  <2>3. QED
    BY <2>2 DEF ExactRow
<1>6. QED
  BY <1>4, <1>5

------------------------------------------------------------------------------
(* Types.                                                                  *)

LEMMA RowOfType ==
  ASSUME NEW sum \in Int, NEW count \in Int
  PROVE  RowOf(sum, count) \in AggregateRow
<1>1. MeanOf(sum, count) \in Int
  <2>1. CASE count >= 3
    <3>1. ASSUME NEW n \in Int, NEW d \in Int, d >= 3
          PROVE  RoundHalfUp(n, d) \in Int
      BY <3>1 DEF RoundHalfUp
    <3>2. QED
      BY <2>1, <3>1 DEF MeanOf, MIN_AGGREGATE_RATING_COUNT
  <2>2. CASE ~(count >= 3)
    BY <2>2 DEF MeanOf, MIN_AGGREGATE_RATING_COUNT, NoMean
  <2>3. QED
    BY <2>1, <2>2
<1>2. QED
  BY <1>1 DEF RowOf, AggregateRow

LEMMA UpdateType ==
  ASSUME NEW a \in AggregateRow, NEW old \in Rating0, NEW new \in Rating0
  PROVE  UpdateMeanX10(a.sum, a.count, old, new) \in AggregateRow
<1>1. /\ a.sum + (new - old) \in Int
      /\ a.count + (Present(new) - Present(old)) \in Int
  BY DEF AggregateRow, Rating0, Rating, NoRating, MaxRating, Present
<1>2. UpdateMeanX10(a.sum, a.count, old, new)
        = RowOf(a.sum + (new - old), a.count + (Present(new) - Present(old)))
  BY DEF UpdateMeanX10, RowOf
<1>3. QED
  BY <1>1, <1>2, RowOfType

LEMMA ExactRowType ==
  ASSUME NEW r \in [Row -> Rating0], NEW e \in Experience
  PROVE  ExactRow(r, e) \in AggregateRow
<1>1. IsFiniteSet(User \X Rating)
  <2>1. IsFiniteSet(Rating)
    BY FS_Interval, 1 \in Int, 10 \in Int, Zenon DEF Rating, MaxRating
  <2>2. QED
    BY <2>1, ConstantsAssumption, FS_Product
<1>2. Points(r, e) \in Nat
  BY <1>1, FS_Subset, FS_CardinalityType DEF Points
<1>3. Raters(r, e) \in Nat
  BY ConstantsAssumption, FS_Subset, FS_CardinalityType DEF Raters
<1>4. QED
  BY <1>2, <1>3, RowOfType DEF ExactRow

LEMMA InitType == Init => TypeOK
<1> SUFFICES ASSUME Init PROVE TypeOK
  OBVIOUS
<1>1. agg \in [Experience -> AggregateRow]
  BY ExactRowType, ConstantsAssumption DEF Init
<1>2. seen \in [Worker -> AggregateRow]
  BY DEF Init, EmptyRow, AggregateRow, NoMean
<1>3. prior \in [Worker -> Rating0]
  BY DEF Init, Rating0, NoRating
<1>4. QED
  BY <1>1, <1>2, <1>3, ConstantsAssumption DEF Init, TypeOK, Stage

LEMMA TypeStep == TypeOK /\ [Next]_vars => TypeOK'
<1> SUFFICES ASSUME TypeOK, [Next]_vars PROVE TypeOK'
  OBVIOUS
<1> USE DEF TypeOK
<1>1. CASE UNCHANGED vars
  BY <1>1 DEF vars
<1>2. ASSUME NEW w \in Worker, NEW row \in Row, NEW new \in Value,
             Request(w, row, new)
      PROVE  TypeOK'
  BY <1>2, ConstantsAssumption DEF Request, Goto, Stage, Job
<1>3. ASSUME NEW w \in Worker, Answer(w)
      PROVE  /\ pc' \in [Worker -> Stage]
             /\ job' \in [Worker -> Job \cup {NoJob}]
             /\ \A x \in Worker : pc'[x] # "idle" => job'[x] \in Job
             /\ prior' \in [Worker -> Rating0]
             /\ seen' \in [Worker -> AggregateRow]
  <2>1. EmptyRow \in AggregateRow /\ NoRating \in Rating0
    BY DEF EmptyRow, AggregateRow, NoMean, Rating0
  <2>2. QED
    BY <1>3, <2>1 DEF Answer, Goto, Stage
<1>4. ASSUME NEW w \in Worker, SelectPrior(w)
      PROVE  TypeOK'
  <2>1. job[w].row \in Row
    BY <1>4 DEF SelectPrior, Job
  <2>2. QED
    BY <1>3, <1>4, <2>1 DEF SelectPrior, Goto, Stage
<1>5. ASSUME NEW w \in Worker, WriteRating(w)
      PROVE  TypeOK'
  BY <1>5 DEF WriteRating, Goto, Stage
<1>6. ASSUME NEW w \in Worker, CommitRating(w)
      PROVE  TypeOK'
  BY <1>6 DEF CommitRating, Goto, Stage, Job
<1>7. ASSUME NEW w \in Worker, AbortRating(w)
      PROVE  TypeOK'
  BY <1>3, <1>7 DEF AbortRating
<1>8. ASSUME NEW w \in Worker, LockAggregate(w)
      PROVE  TypeOK'
  BY <1>8 DEF LockAggregate, Goto, Stage
<1>9. ASSUME NEW w \in Worker, pc[w] # "idle"
      PROVE  ExpOf(w) \in Experience /\ job[w].new \in Rating0
  BY <1>9 DEF ExpOf, Job, Row
<1>10. ASSUME NEW w \in Worker, ReadAggregate(w)
       PROVE  TypeOK'
  BY <1>9, <1>10 DEF ReadAggregate, Goto, Stage
<1>11. ASSUME NEW w \in Worker, WriteAggregate(w)
       PROVE  TypeOK'
  <2>1. NextRow(w) \in AggregateRow /\ ExpOf(w) \in Experience
    BY <1>9, <1>11, UpdateType DEF WriteAggregate, NextRow
  <2>2. QED
    BY <1>3, <1>11, <2>1 DEF WriteAggregate
<1>12. ASSUME NEW w \in Worker, LoseEvent(w)
       PROVE  TypeOK'
  BY <1>3, <1>9, <1>12 DEF LoseEvent, Emitting
<1>13. QED
  BY <1>1, <1>2, <1>4, <1>5, <1>6, <1>7, <1>8, <1>10, <1>11, <1>12 DEF Next, Step

(* Every variable has its type in every reachable state, for any finite set *)
(* of users and any number of handlers of requests (setRating, removeRating). *)
THEOREM TypeCorrect == Spec => []TypeOK
BY InitType, TypeStep, PTL DEF Spec
------------------------------------------------------------------------------
(* The advisory lock.                                                      *)

LockExclusive ==
  \A w, x \in Worker :
    HoldsAdvisoryLock(w) /\ HoldsAdvisoryLock(x) /\ ExpOf(w) = ExpOf(x) => w = x

LockInv == LockExclusive /\ ReadIsCurrent

LEMMA LockInvStep == TypeOK /\ LockInv /\ [Next]_vars => LockInv'
<1> SUFFICES ASSUME TypeOK, LockInv, [Next]_vars PROVE LockInv'
  OBVIOUS
<1> USE DEF TypeOK, LockInv, LockExclusive, ReadIsCurrent, HoldsAdvisoryLock
<1>1. CASE UNCHANGED vars
  BY <1>1 DEF vars, ExpOf
<1>2. ASSUME NEW w \in Worker, NEW row \in Row, NEW new \in Value,
             Request(w, row, new)
      PROVE  LockInv'
  BY <1>2 DEF Request, Goto, ExpOf
<1>3. ASSUME NEW w \in Worker, Answer(w), UNCHANGED agg
      PROVE  LockInv'
  BY <1>3 DEF Answer, Goto, ExpOf
<1>4. ASSUME NEW w \in Worker, SelectPrior(w)
      PROVE  LockInv'
  <2>1. CASE Answer(w)
    BY <1>3, <1>4, <2>1 DEF SelectPrior
  <2>2. CASE Goto(w, "selected") /\ UNCHANGED <<job, seen>>
    BY <1>4, <2>2 DEF SelectPrior, Goto, ExpOf
  <2>3. QED
    BY <1>4, <2>1, <2>2 DEF SelectPrior
<1>5. ASSUME NEW w \in Worker, WriteRating(w) \/ CommitRating(w)
      PROVE  LockInv'
  BY <1>5 DEF WriteRating, CommitRating, Goto, ExpOf
<1>6. ASSUME NEW w \in Worker, AbortRating(w) \/ LoseEvent(w)
      PROVE  LockInv'
  BY <1>3, <1>6 DEF AbortRating, LoseEvent
<1>7. ASSUME NEW w \in Worker, LockAggregate(w)
      PROVE  LockInv'
  BY <1>7 DEF LockAggregate, Goto, ExpOf
<1>8. ASSUME NEW w \in Worker, ReadAggregate(w)
      PROVE  LockInv'
  BY <1>8 DEF ReadAggregate, Goto, ExpOf
<1>9. ASSUME NEW w \in Worker, WriteAggregate(w)
      PROVE  LockInv'
  <2>1. \A x \in Worker \ {w} : HoldsAdvisoryLock(x) => ExpOf(x) # ExpOf(w)
    BY <1>9 DEF WriteAggregate
  <2>2. \A x \in Worker \ {w} :
          pc'[x] = pc[x] /\ job'[x] = job[x] /\ seen'[x] = seen[x]
    BY <1>9 DEF WriteAggregate, Answer, Goto
  <2>3. pc'[w] = "idle"
    BY <1>9 DEF WriteAggregate, Answer, Goto
  <2>4. \A e \in Experience \ {ExpOf(w)} : agg'[e] = agg[e]
    BY <1>9 DEF WriteAggregate
  <2>5. \A x \in Worker : pc[x] # "idle" => ExpOf(x) \in Experience
    BY DEF ExpOf, Job, Row
  <2>6. QED
    BY <2>1, <2>2, <2>3, <2>4, <2>5 DEF ExpOf
<1>10. QED
  BY <1>1, <1>2, <1>4, <1>5, <1>6, <1>7, <1>8, <1>9 DEF Next, Step

\* No update of an aggregate row is ever lost, however many handlers there
\* are, with failures and with any number of requests of one user at a time.
THEOREM NoLostUpdate == Spec => []ReadIsCurrent
<1>1. Init => LockInv
  BY DEF Init, LockInv, LockExclusive, ReadIsCurrent, HoldsAdvisoryLock
<1>2. QED
  BY <1>1, LockInvStep, TypeCorrect, PTL DEF Spec, LockInv
------------------------------------------------------------------------------
(* One request per user and experience at a time.                          *)

RowUnique ==
  \A w, x \in Worker :
    pc[w] # "idle" /\ pc[x] # "idle" /\ job[w].row = job[x].row => w = x

\* What a handler knows of its row stays true: nobody else writes it.
RowKnown ==
  \A w \in Worker :
    /\ pc[w] \in {"selected", "written"} => ratings[job[w].row] = prior[w]
    /\ pc[w] \in Emitting => ratings[job[w].row] = job[w].new

RowInv == RowUnique /\ RowKnown

LEMMA RowInvStep ==
  OneAtATime /\ TypeOK /\ RowInv /\ [Next]_vars => RowInv'
<1> SUFFICES ASSUME OneAtATime, TypeOK, RowInv, [Next]_vars PROVE RowInv'
  OBVIOUS
<1> USE DEF TypeOK, RowInv, RowUnique, RowKnown, Emitting
<1>1. CASE UNCHANGED vars
  BY <1>1 DEF vars
<1>2. ASSUME NEW w \in Worker, NEW row \in Row, NEW new \in Value,
             Request(w, row, new)
      PROVE  RowInv'
  BY <1>2 DEF Request, Goto
<1>3. ASSUME NEW w \in Worker, Answer(w), UNCHANGED ratings
      PROVE  RowInv'
  BY <1>3 DEF Answer, Goto
<1>4. ASSUME NEW w \in Worker, SelectPrior(w)
      PROVE  RowInv'
  <2>1. CASE Answer(w)
    BY <1>3, <1>4, <2>1 DEF SelectPrior
  <2>2. CASE Goto(w, "selected") /\ prior' = [prior EXCEPT ![w] = ratings[job[w].row]]
                                 /\ UNCHANGED job
    BY <1>4, <2>2 DEF SelectPrior, Goto
  <2>3. QED
    BY <1>4, <2>1, <2>2 DEF SelectPrior
<1>5. ASSUME NEW w \in Worker,
             WriteRating(w) \/ LockAggregate(w) \/ ReadAggregate(w)
      PROVE  RowInv'
  BY <1>5 DEF WriteRating, LockAggregate, ReadAggregate, Goto
<1>6. ASSUME NEW w \in Worker, CommitRating(w)
      PROVE  RowInv'
  <2>1. \A x \in Worker \ {w} : pc[x] # "idle" => job[x].row # job[w].row
    BY <1>6 DEF CommitRating
  <2>2. job[w].row \in Row
    BY <1>6 DEF CommitRating, Job
  <2>3. QED
    BY <1>6, <2>1, <2>2 DEF CommitRating, Goto
<1>7. ASSUME NEW w \in Worker,
             AbortRating(w) \/ LoseEvent(w) \/ WriteAggregate(w)
      PROVE  RowInv'
  BY <1>3, <1>7 DEF AbortRating, LoseEvent, WriteAggregate
<1>8. QED
  BY <1>1, <1>2, <1>4, <1>5, <1>6, <1>7 DEF Next, Step

\* What Reflected is, without the CHOOSE.
ReflectedIs(f) ==
  /\ f \in [Row -> Rating0]
  /\ \A w \in Worker : pc[w] \in Emitting => f[job[w].row] = prior[w]
  /\ \A row \in Row :
       (\A w \in Worker : ~(pc[w] \in Emitting /\ job[w].row = row))
         => f[row] = ratings[row]

LEMMA ReflectedValue == TypeOK /\ RowUnique => ReflectedIs(Reflected)
<1> SUFFICES ASSUME TypeOK, RowUnique PROVE ReflectedIs(Reflected)
  OBVIOUS
<1> DEFINE On(row) == {w \in Worker : pc[w] \in Emitting /\ job[w].row = row}
<1>1. ASSUME NEW w \in Worker, pc[w] \in Emitting
      PROVE  /\ job[w].row \in Row
             /\ \A x \in Worker :
                  pc[x] \in Emitting /\ job[x].row = job[w].row => x = w
  BY <1>1 DEF TypeOK, Job, RowUnique, Emitting
<1>2. ASSUME NEW row \in Row
      PROVE  Reflected[row] = IF \E w \in Worker : pc[w] \in Emitting /\ job[w].row = row
               THEN prior[CHOOSE w \in Worker : pc[w] \in Emitting /\ job[w].row = row]
               ELSE ratings[row]
  BY DEF Reflected
<1>3. ASSUME NEW w \in Worker, pc[w] \in Emitting
      PROVE  Reflected[job[w].row] = prior[w]
  BY <1>1, <1>2, <1>3
<1>4. ASSUME NEW row \in Row,
             \A w \in Worker : ~(pc[w] \in Emitting /\ job[w].row = row)
      PROVE  Reflected[row] = ratings[row]
  BY <1>2, <1>4
<1>5. \A row \in Row : Reflected[row] \in Rating0
  <2> SUFFICES ASSUME NEW row \in Row PROVE Reflected[row] \in Rating0
    OBVIOUS
  <2>1. CASE \E w \in Worker : pc[w] \in Emitting /\ job[w].row = row
    BY <1>3, <2>1 DEF TypeOK
  <2>2. CASE ~\E w \in Worker : pc[w] \in Emitting /\ job[w].row = row
    BY <1>4, <2>2 DEF TypeOK
  <2>3. QED
    BY <2>1, <2>2
<1>6. Reflected \in [Row -> Rating0]
  BY <1>5 DEF Reflected
<1>7. QED
  BY <1>3, <1>4, <1>6 DEF ReflectedIs
\* The three kinds of step, as the board sees them.
Silent == UNCHANGED <<ratings, agg, lost>> /\ Reflected' = Reflected

Changes(w) ==
  /\ CommitRating(w)
  /\ Reflected' = Reflected
  /\ Reflected[job[w].row] = ratings[job[w].row]

Settles(w) ==
  /\ WriteAggregate(w) \/ LoseEvent(w)
  /\ ratings' = ratings
  /\ Reflected[job[w].row] = prior[w]
  /\ ratings[job[w].row] = job[w].new
  /\ Reflected' = [Reflected EXCEPT ![job[w].row] = job[w].new]

LEMMA StepKinds ==
  OneAtATime /\ TypeOK /\ RowInv /\ [Next]_vars /\ TypeOK' /\ RowInv'
    => Silent \/ \E w \in Worker : Changes(w) \/ Settles(w)
<1> SUFFICES ASSUME OneAtATime, TypeOK, RowInv, [Next]_vars, TypeOK', RowInv'
             PROVE  Silent \/ \E w \in Worker : Changes(w) \/ Settles(w)
  OBVIOUS
<1>1. ReflectedIs(Reflected) /\ ReflectedIs(Reflected)'
  BY ReflectedValue, PTL DEF RowInv
<1> USE DEF RowInv, ReflectedIs
<1>2. ASSUME \A row \in Row : Reflected'[row] = Reflected[row]
      PROVE  Reflected' = Reflected
  BY <1>1, <1>2
<1>3. ASSUME NEW w \in Worker, UNCHANGED <<ratings, agg, lost>>,
             pc[w] \notin Emitting, pc'[w] \notin Emitting,
             \A x \in Worker \ {w} :
               pc'[x] = pc[x] /\ job'[x] = job[x] /\ prior'[x] = prior[x]
      PROVE  Silent
  BY <1>1, <1>2, <1>3 DEF Silent
<1>4. ASSUME NEW w \in Worker, UNCHANGED <<ratings, agg, lost, job, prior>>,
             pc[w] \in Emitting, pc'[w] \in Emitting,
             \A x \in Worker \ {w} : pc'[x] = pc[x]
      PROVE  Silent
  BY <1>1, <1>2, <1>4 DEF Silent
<1>5. CASE UNCHANGED vars
  BY <1>1, <1>2, <1>5 DEF vars, Silent
<1>6. ASSUME NEW w \in Worker, NEW row \in Row, NEW new \in Value,
             Request(w, row, new)
      PROVE  Silent
  BY <1>3, <1>6 DEF Request, Goto, Emitting, TypeOK
<1>7. ASSUME NEW w \in Worker, SelectPrior(w) \/ WriteRating(w) \/ AbortRating(w)
      PROVE  Silent
  BY <1>3, <1>7 DEF SelectPrior, WriteRating, AbortRating, Answer, Goto,
                    Emitting, InRatingTx, TypeOK
<1>8. ASSUME NEW w \in Worker, LockAggregate(w) \/ ReadAggregate(w)
      PROVE  Silent
  BY <1>4, <1>8 DEF LockAggregate, ReadAggregate, Goto, Emitting, TypeOK
<1>9. ASSUME NEW w \in Worker, CommitRating(w)
      PROVE  Changes(w)
  <2>1. /\ pc[w] = "written" /\ pc'[w] = "committed" /\ job[w].row \in Row
        /\ \A x \in Worker \ {w} : pc'[x] = pc[x]
        /\ job' = job /\ prior' = prior
        /\ \A row \in Row \ {job[w].row} : ratings'[row] = ratings[row]
    BY <1>9 DEF CommitRating, Goto, TypeOK, Job
  <2>2. \A x \in Worker : pc[x] \in Emitting => job[x].row # job[w].row
    BY <2>1 DEF RowUnique, Emitting
  <2>3. Reflected[job[w].row] = ratings[job[w].row]
    BY <1>1, <2>1, <2>2
  <2>4. Reflected'[job[w].row] = Reflected[job[w].row]
    BY <1>1, <2>1, <2>3 DEF RowKnown, Emitting
  <2>5. \A row \in Row \ {job[w].row} : Reflected'[row] = Reflected[row]
    BY <1>1, <2>1, <2>2 DEF Emitting
  <2>6. QED
    BY <1>2, <1>9, <2>3, <2>4, <2>5 DEF Changes
<1>10. ASSUME NEW w \in Worker, WriteAggregate(w) \/ LoseEvent(w)
       PROVE  Settles(w)
  <2>1. /\ pc[w] \in Emitting /\ pc'[w] = "idle" /\ job[w].row \in Row
        /\ \A x \in Worker \ {w} :
             pc'[x] = pc[x] /\ job'[x] = job[x] /\ prior'[x] = prior[x]
        /\ ratings' = ratings
    BY <1>10 DEF WriteAggregate, LoseEvent, Answer, Goto, TypeOK, Job, Emitting
  <2>2. \A x \in Worker \ {w} : pc[x] \in Emitting => job[x].row # job[w].row
    BY <2>1 DEF RowUnique, Emitting
  <2>3. Reflected[job[w].row] = prior[w] /\ ratings[job[w].row] = job[w].new
    BY <1>1, <2>1 DEF RowKnown
  <2>4. Reflected'[job[w].row] = job[w].new
    BY <1>1, <2>1, <2>2, <2>3 DEF Emitting
  <2>5. \A row \in Row \ {job[w].row} : Reflected'[row] = Reflected[row]
    BY <1>1, <2>1, <2>2 DEF Emitting
  <2>6. Reflected' = [Reflected EXCEPT ![job[w].row] = job[w].new]
    BY <1>1, <2>1, <2>4, <2>5
  <2>7. QED
    BY <1>10, <2>1, <2>3, <2>6 DEF Settles
<1>11. QED
  BY <1>5, <1>6, <1>7, <1>8, <1>9, <1>10 DEF Next, Step
------------------------------------------------------------------------------
(* Exactness of the aggregate.                                             *)

ExactInv == TypeOK /\ LockInv /\ RowInv /\ AggregateExact

LEMMA InitReflected == Init => TypeOK /\ Reflected = InitialRating
<1> SUFFICES ASSUME Init PROVE TypeOK /\ Reflected = InitialRating
  OBVIOUS
<1>1. TypeOK
  BY InitType
<1>2. RowUnique
  BY DEF Init, RowUnique
<1>3. ReflectedIs(Reflected)
  BY <1>1, <1>2, ReflectedValue
<1>4. \A row \in Row : Reflected[row] = InitialRating[row]
  BY <1>3 DEF ReflectedIs, Init, Emitting
<1>5. QED
  BY <1>1, <1>3, <1>4, ConstantsAssumption DEF ReflectedIs

\* A handler whose event is applied or lost leaves every experience that has
\* lost none with its exact row.
LEMMA SettleExact ==
  ASSUME ExactInv, NEW w \in Worker, Settles(w)
  PROVE  /\ \A e \in Experience \ {ExpOf(w)} : agg'[e] = agg[e]
         /\ ExpOf(w) \notin lost' => agg'[ExpOf(w)] = ExactRow(Reflected', ExpOf(w))
         /\ \A e \in Experience \ {ExpOf(w)} : ExactRow(Reflected', e) = ExactRow(Reflected, e)
         /\ lost' \in {lost, lost \cup {ExpOf(w)}}
<1> DEFINE row == job[w].row
           e == ExpOf(w)
<1> USE DEF ExactInv, RowInv
<1>1. /\ row \in Row /\ job[w].new \in Rating0 /\ e = row[2] /\ e \in Experience
      /\ pc[w] \in Emitting
  BY DEF Settles, WriteAggregate, LoseEvent, TypeOK, Job, Row, ExpOf, Emitting
<1>2. Reflected \in [Row -> Rating0] /\ Reflected[row] = prior[w]
  BY ReflectedValue DEF ReflectedIs, Settles
<1>3. /\ ExactRow(Reflected', e)
           = UpdateMeanX10(ExactRow(Reflected, e).sum, ExactRow(Reflected, e).count,
                           prior[w], job[w].new)
      /\ \A x \in Experience \ {e} : ExactRow(Reflected', x) = ExactRow(Reflected, x)
  <2>1. Reflected' = [Reflected EXCEPT ![row] = job[w].new]
    BY DEF Settles
  <2> DEFINE s == [Reflected EXCEPT ![row] = job[w].new]
  <2>2. /\ ExactRow(s, row[2])
             = UpdateMeanX10(ExactRow(Reflected, row[2]).sum,
                             ExactRow(Reflected, row[2]).count,
                             Reflected[row], job[w].new)
        /\ \A x \in Experience \ {row[2]} : ExactRow(s, x) = ExactRow(Reflected, x)
    <3> HIDE DEF row
    <3>1. QED
      BY <1>1, <1>2, ExactRowUpdate
  <2>3. QED
    BY <1>1, <1>2, <2>1, <2>2
<1>4. CASE WriteAggregate(w)
  <2>1. seen[w] = agg[e]
    BY <1>4 DEF WriteAggregate, LockInv, ReadIsCurrent
  <2>2. CASE ChecksPass(NextRow(w)) /\ UNCHANGED lost
             /\ agg' = [agg EXCEPT ![e] = NextRow(w)]
    <3>1. e \notin lost => NextRow(w) = ExactRow(Reflected', e)
      BY <1>1, <1>3, <2>1 DEF NextRow, AggregateExact
    <3>2. QED
      BY <1>1, <1>3, <2>2, <3>1 DEF TypeOK
  <2>3. CASE lost' = lost \cup {e} /\ UNCHANGED agg
    BY <1>1, <1>3, <2>3
  <2>4. QED
    BY <1>4, <2>2, <2>3 DEF WriteAggregate
<1>5. CASE LoseEvent(w)
  BY <1>1, <1>3, <1>5 DEF LoseEvent
<1>6. QED
  BY <1>4, <1>5 DEF Settles

LEMMA ExactStep ==
  OneAtATime /\ ExactInv /\ [Next]_vars => ExactInv'
<1> SUFFICES ASSUME OneAtATime, ExactInv, [Next]_vars PROVE ExactInv'
  OBVIOUS
<1>1. TypeOK' /\ LockInv' /\ RowInv'
  BY TypeStep, LockInvStep, RowInvStep DEF ExactInv
<1>2. AggregateExact'
  <2>1. Silent \/ \E w \in Worker : Changes(w) \/ Settles(w)
    BY <1>1, StepKinds DEF ExactInv
  <2>2. CASE Silent
    BY <2>2 DEF Silent, AggregateExact, ExactInv
  <2>3. ASSUME NEW w \in Worker, Changes(w) PROVE AggregateExact'
    BY <2>3 DEF Changes, CommitRating, AggregateExact, ExactInv
  <2>4. ASSUME NEW w \in Worker, Settles(w) PROVE AggregateExact'
    BY <2>4, SettleExact DEF AggregateExact, ExactInv
  <2>5. QED
    BY <2>1, <2>2, <2>3, <2>4
<1>3. QED
  BY <1>1, <1>2 DEF ExactInv

LEMMA ExactInit == Init => ExactInv
<1> SUFFICES ASSUME Init PROVE ExactInv
  OBVIOUS
<1>1. TypeOK /\ LockInv /\ RowInv
  BY InitReflected
  DEF Init, LockInv, LockExclusive, ReadIsCurrent, HoldsAdvisoryLock, RowInv,
      RowUnique, RowKnown, Emitting
<1>2. AggregateExact
  BY InitReflected DEF Init, AggregateExact
<1>3. QED
  BY <1>1, <1>2 DEF ExactInv

\* With one request per user and experience in flight, the aggregate row of
\* an experience that has lost no event is exactly what recomputing it from
\* the ratings would give, each change counted from when it is applied.
THEOREM AggregateIsExact == OneAtATime => (Spec => []AggregateExact)
<1>1. OneAtATime => (ExactInv /\ [Next]_vars => ExactInv')
  BY ExactStep
<1>2. ExactInv => AggregateExact
  BY DEF ExactInv
<1> SUFFICES ASSUME OneAtATime PROVE Spec => []AggregateExact
  OBVIOUS
<1>3. QED
  BY <1>1, <1>2, ExactInit, PTL DEF Spec

------------------------------------------------------------------------------
(* The published mean, and the CHECK constraints.                          *)

\* The quotient that Integers' \div yields, and how far below it stays.
LEMMA Quotient ==
  ASSUME NEW n \in Nat, NEW d \in Nat \ {0}
  PROVE  /\ n \div d \in Nat
         /\ (n \div d) * d <= n
         /\ n < (n \div d) * d + d
OBVIOUS

\* RoundHalfUp is at most half a unit from the fraction, and above it when
\* two integers are equally near.
LEMMA RoundNearest ==
  ASSUME NEW n \in Nat, NEW d \in Nat \ {0}
  PROVE  /\ RoundHalfUp(n, d) \in Nat
         /\ 2 * (RoundHalfUp(n, d) * d) > 2 * n - d
         /\ 2 * (RoundHalfUp(n, d) * d) <= 2 * n + d
<1> DEFINE q == n \div d
<1>1. q \in Nat /\ q * d \in Int /\ q * d <= n /\ n < q * d + d
  BY Quotient
<1>2. RoundHalfUp(n, d) = IF 2 * (n - q * d) >= d THEN q + 1 ELSE q
  BY DEF RoundHalfUp
<1>3. (q + 1) * d = q * d + d
  <2> HIDE DEF q
  <2>1. QED
    BY <1>1
<1> HIDE DEF q
<1>4. CASE 2 * (n - q * d) >= d
  <2>1. RoundHalfUp(n, d) = q + 1
    BY <1>2, <1>4
  <2>2. 2 * (q * d + d) > 2 * n - d /\ 2 * (q * d + d) <= 2 * n + d
    BY <1>1, <1>4
  <2>3. QED
    BY <1>1, <1>3, <2>1, <2>2
<1>5. CASE ~(2 * (n - q * d) >= d)
  <2>1. RoundHalfUp(n, d) = q
    BY <1>2, <1>5
  <2>2. 2 * (q * d) > 2 * n - d /\ 2 * (q * d) <= 2 * n + d
    BY <1>1, <1>5
  <2>3. QED
    BY <1>1, <2>1, <2>2
<1>6. QED
  BY <1>4, <1>5

\* The mean of `count` ratings between 1 and 10 is between 1.0 and 10.0: the
\* rounding does not carry it out of what the CHECK constraint admits.
LEMMA MeanWithin ==
  ASSUME NEW sum \in Nat, NEW count \in Nat, count <= sum, sum <= 10 * count
  PROVE  ChecksPass(RowOf(sum, count))
<1> DEFINE n == 10 * sum
           m == RoundHalfUp(n, count)
<1>1. CASE count < 3
  BY <1>1 DEF ChecksPass, RowOf, MeanOf, MIN_AGGREGATE_RATING_COUNT
<1>2. CASE count >= 3
  <2>1. m \in Nat /\ m * count \in Int
        /\ 2 * (m * count) > 2 * n - count /\ 2 * (m * count) <= 2 * n + count
    BY <1>2, RoundNearest
  <2>2. MeanOf(sum, count) = m
    <3>1. sum * 10 = n
      OBVIOUS
    <3>2. QED
      BY <1>2, <3>1 DEF MeanOf, MIN_AGGREGATE_RATING_COUNT
  <2> HIDE DEF m
  <2>3. ~(m <= 9)
    <3> SUFFICES ASSUME m <= 9 PROVE FALSE
      OBVIOUS
    <3>1. m * count <= 9 * count
      BY <1>2, <2>1
    <3>2. QED
      BY <1>2, <2>1, <3>1
  <2>4. ~(m >= 101)
    <3> SUFFICES ASSUME m >= 101 PROVE FALSE
      OBVIOUS
    <3>1. m * count >= 101 * count
      BY <1>2, <2>1
    <3>2. QED
      BY <1>2, <2>1, <3>1
  <2>5. m \in 10 .. 100
    BY <2>1, <2>3, <2>4
  <2>6. QED
    BY <2>2, <2>5 DEF ChecksPass, RowOf
<1>3. QED
  BY <1>1, <1>2

\* Every rating is between 1 and 10, and so is their mean.
LEMMA PointsBounds ==
  ASSUME NEW r \in [Row -> Rating0], NEW e \in Experience
  PROVE  /\ Points(r, e) \in Nat /\ Raters(r, e) \in Nat
         /\ Raters(r, e) <= Points(r, e)
         /\ Points(r, e) <= 10 * Raters(r, e)
<1> DEFINE Who == {u \in User : r[<<u, e>>] # NoRating}
           Cells == {p \in User \X Rating : p[2] <= r[<<p[1], e>>]}
<1>1. IsFiniteSet(Rating) /\ Cardinality(Rating) = 10
  <2>1. /\ IsFiniteSet(1 .. 10)
        /\ Cardinality(1 .. 10) = IF 1 > 10 THEN 0 ELSE 10 - 1 + 1
    BY FS_Interval, 1 \in Int, 10 \in Int, Zenon
  <2>2. QED
    BY <2>1 DEF Rating, MaxRating
<1>2. \A u \in User : r[<<u, e>>] \in 0 .. 10
  BY DEF Row, Rating0, Rating, NoRating, MaxRating
<1>3. IsFiniteSet(Who) /\ Cardinality(Who) \in Nat
  BY ConstantsAssumption, FS_Subset, FS_CardinalityType
<1>4. IsFiniteSet(Who \X Rating) /\ Cardinality(Who \X Rating) = Cardinality(Who) * Cardinality(Rating)
  BY <1>1, <1>3, FS_Product, Zenon
<1>5. Cells \subseteq Who \X Rating
  BY <1>2 DEF Rating, NoRating, MaxRating
<1>6. IsFiniteSet(Cells) /\ Cardinality(Cells) <= Cardinality(Who \X Rating)
      /\ Cardinality(Cells) \in Nat
  BY <1>4, <1>5, FS_Subset, FS_CardinalityType, Zenon
<1>7. IsFiniteSet(Who \X {1}) /\ Cardinality(Who \X {1}) = Cardinality(Who) * 1
  <2>1. IsFiniteSet({1}) /\ Cardinality({1}) = 1
    BY FS_Singleton, Zenon
  <2>2. /\ IsFiniteSet(Who \X {1})
        /\ Cardinality(Who \X {1}) = Cardinality(Who) * Cardinality({1})
    BY <1>3, <2>1, FS_Product, Zenon
  <2>3. QED
    BY <2>1, <2>2
<1>8. Who \X {1} \subseteq Cells
  BY <1>2 DEF Rating, NoRating, MaxRating
<1>9. Cardinality(Who \X {1}) <= Cardinality(Cells)
  BY <1>6, <1>8, FS_Subset, Zenon
<1>10. Points(r, e) = Cardinality(Cells) /\ Raters(r, e) = Cardinality(Who)
  BY DEF Points, Raters
<1> HIDE DEF Who, Cells
<1>11. QED
  BY <1>1, <1>3, <1>4, <1>6, <1>7, <1>9, <1>10

LEMMA ExactRowPasses ==
  ASSUME NEW r \in [Row -> Rating0], NEW e \in Experience
  PROVE  ChecksPass(ExactRow(r, e))
BY PointsBounds, MeanWithin DEF ExactRow

\* What a handler in flight is about to write is the exact row.
LEMMA NextRowExact ==
  ASSUME ExactInv, NEW w \in Worker, pc[w] = "read", ExpOf(w) \notin lost
  PROVE  ChecksPass(NextRow(w))
<1> DEFINE row == job[w].row
           s == [Reflected EXCEPT ![row] = job[w].new]
<1> USE DEF ExactInv, RowInv
<1>1. row \in Row /\ job[w].new \in Rating0 /\ ExpOf(w) = row[2] /\ row[2] \in Experience
  BY DEF TypeOK, Job, Row, ExpOf
<1>2. Reflected \in [Row -> Rating0] /\ Reflected[row] = prior[w]
  BY ReflectedValue DEF ReflectedIs, Emitting
<1>3. seen[w] = ExactRow(Reflected, row[2])
  BY <1>1 DEF LockInv, ReadIsCurrent, AggregateExact
<1>4. s \in [Row -> Rating0]
  BY <1>1, <1>2
<1>5. ExactRow(s, row[2])
        = UpdateMeanX10(ExactRow(Reflected, row[2]).sum,
                        ExactRow(Reflected, row[2]).count, Reflected[row], job[w].new)
  <2> HIDE DEF row
  <2>1. QED
    BY <1>1, <1>2, ExactRowUpdate
<1>6. NextRow(w) = ExactRow(s, row[2])
  BY <1>2, <1>3, <1>5 DEF NextRow
<1> HIDE DEF s, row
<1>7. QED
  BY <1>1, <1>4, <1>6, ExactRowPasses

\* With one request per user and experience in flight the CHECK constraints
\* never refuse the row a handler writes, as long as no event of that experience
\* was lost: the comment of upsertAggregate holds so far.  Nothing is said of an
\* experience that lost one.
THEOREM NoCheckFires == OneAtATime => (Spec => []ChecksNeverFire)
<1>1. OneAtATime => (ExactInv /\ [Next]_vars => ExactInv')
  BY ExactStep
<1>2. ExactInv => ChecksNeverFire
  BY NextRowExact DEF ChecksNeverFire
<1> SUFFICES ASSUME OneAtATime PROVE Spec => []ChecksNeverFire
  OBVIOUS
<1>3. QED
  BY <1>1, <1>2, ExactInit, PTL DEF Spec

\* A committed row is one that the CHECK constraints let through, its mean
\* computed from its own sum and count, drift or not.
MeanInv ==
  \A e \in Experience :
    agg[e].sum >= 0 /\ agg[e].count >= 0 /\ agg[e].mean = MeanOf(agg[e].sum, agg[e].count)

LEMMA MeanInvInit == Init => MeanInv
<1> SUFFICES ASSUME Init, NEW e \in Experience
             PROVE  /\ agg[e].sum >= 0 /\ agg[e].count >= 0
                    /\ agg[e].mean = MeanOf(agg[e].sum, agg[e].count)
  BY DEF MeanInv
<1>1. Points(InitialRating, e) \in Nat /\ Raters(InitialRating, e) \in Nat
  BY ConstantsAssumption, PointsBounds
<1>2. agg[e] = RowOf(Points(InitialRating, e), Raters(InitialRating, e))
  BY DEF Init, ExactRow
<1>3. QED
  BY <1>1, <1>2 DEF RowOf

LEMMA MeanInvStep == TypeOK /\ MeanInv /\ [Next]_vars => MeanInv'
<1> SUFFICES ASSUME TypeOK, MeanInv, [Next]_vars PROVE MeanInv'
  OBVIOUS
<1>1. CASE UNCHANGED agg
  BY <1>1 DEF MeanInv
<1>2. ASSUME NEW w \in Worker, WriteAggregate(w) PROVE MeanInv'
  <2>1. CASE UNCHANGED agg
    BY <1>1, <2>1
  <2>2. CASE ChecksPass(NextRow(w)) /\ agg' = [agg EXCEPT ![ExpOf(w)] = NextRow(w)]
    <3>1. NextRow(w).mean = MeanOf(NextRow(w).sum, NextRow(w).count)
      BY DEF NextRow, UpdateMeanX10
    <3>2. NextRow(w).sum >= 0 /\ NextRow(w).count >= 0
      BY <2>2 DEF ChecksPass
    <3>3. \A e \in Experience : agg'[e] = agg[e] \/ agg'[e] = NextRow(w)
      BY <2>2 DEF TypeOK
    <3>4. QED
      BY <3>1, <3>2, <3>3 DEF MeanInv
  <2>3. QED
    BY <1>2, <2>1, <2>2 DEF WriteAggregate
<1>3. QED
  BY <1>1, <1>2
  DEF Next, Step, vars, Request, SelectPrior, WriteRating, CommitRating, AbortRating,
      LockAggregate, ReadAggregate, LoseEvent

LEMMA MeanInvNearest == TypeOK /\ MeanInv => MeanIsNearestTenth
<1> SUFFICES ASSUME TypeOK, MeanInv, NEW e \in Experience
             PROVE  LET sum == agg[e].sum  count == agg[e].count  mean == agg[e].mean IN
                    IF count < 3 THEN mean = NoMean
                    ELSE /\ 2 * mean * count >  20 * sum - count
                         /\ 2 * mean * count <= 20 * sum + count
  BY DEF MeanIsNearestTenth
<1> DEFINE sum == agg[e].sum
           count == agg[e].count
           mean == agg[e].mean
<1>1. sum \in Nat /\ count \in Nat /\ mean = MeanOf(sum, count)
  BY DEF TypeOK, AggregateRow, MeanInv
<1> HIDE DEF sum, count, mean
<1>2. CASE count < 3
  BY <1>1, <1>2 DEF MeanOf, MIN_AGGREGATE_RATING_COUNT, sum, count, mean
<1>3. CASE ~(count < 3)
  <2>1. mean = RoundHalfUp(sum * 10, count) /\ sum * 10 \in Nat /\ count \in Nat \ {0}
    BY <1>1, <1>3 DEF MeanOf, MIN_AGGREGATE_RATING_COUNT
  <2>2. /\ mean \in Nat
        /\ 2 * (mean * count) > 2 * (sum * 10) - count
        /\ 2 * (mean * count) <= 2 * (sum * 10) + count
    BY <2>1, RoundNearest
  <2>3. 2 * mean * count = 2 * (mean * count)
    BY <2>1, <2>2
  <2>4. 2 * (sum * 10) = 20 * sum
    BY <1>1
  <2>5. QED
    BY <1>3, <2>2, <2>3, <2>4 DEF sum, count, mean
<1>4. QED
  BY <1>2, <1>3

\* Every published mean is the nearest tenth of its row's sum over its count,
\* and fewer than three ratings publish none, whatever events are lost and
\* however the requests interleave.
THEOREM MeanIsRounded == Spec => []MeanIsNearestTenth
BY MeanInvInit, MeanInvStep, MeanInvNearest, TypeCorrect, PTL DEF Spec

------------------------------------------------------------------------------
(* Refinement of the board.                                                *)

\* The board computes a row as the code's recomputation does.
LEMMA SamePublished ==
  \A r, e : Board!Published(r, e) = ExactRow(r, e)
<1>1. \A S : Board!Cardinality(S) = Cardinality(S)
  BY Zenon DEF Cardinality, Board!Cardinality
<1>2. Board!Rating = Rating /\ Board!NoRating = NoRating
  BY DEF Board!Rating, Rating, Board!MaxRating, MaxRating, Board!NoRating, NoRating
<1>3. ASSUME NEW sum, NEW count PROVE Board!RowOf(sum, count) = RowOf(sum, count)
  BY DEF Board!RowOf, RowOf, Board!MeanOf, MeanOf, Board!RoundHalfUp, RoundHalfUp,
         Board!NoMean, NoMean, Board!MIN_AGGREGATE_RATING_COUNT,
         MIN_AGGREGATE_RATING_COUNT
<1>4. ASSUME NEW r, NEW e
      PROVE  Board!Published(r, e) = ExactRow(r, e)
  <2>1. Board!Sum(r, e) = Points(r, e)
    BY <1>1, <1>2, Zenon DEF Board!Sum, Points
  <2>2. Board!Count(r, e) = Raters(r, e)
    BY <1>1, <1>2, Zenon DEF Board!Count, Raters
  <2>3. QED
    BY <1>3, <2>1, <2>2 DEF Board!Published, ExactRow
<1>5. QED
  BY <1>4

LEMMA BoardStep ==
  OneAtATime /\ ExactInv /\ [Next]_vars /\ ExactInv' => [Board!Next]_(Board!boardVars)
<1> SUFFICES ASSUME OneAtATime, ExactInv, [Next]_vars, ExactInv'
             PROVE  [Board!Next]_(Board!boardVars)
  OBVIOUS
<1>1. Silent \/ \E w \in Worker : Changes(w) \/ Settles(w)
  BY StepKinds DEF ExactInv
<1>2. CASE Silent
  BY <1>2 DEF Silent, Board!boardVars
<1>3. ASSUME NEW w \in Worker, Changes(w) PROVE Board!Next
  <2>1. job[w].row \in Board!Key /\ job[w].new \in Rating0
    BY <1>3 DEF Changes, CommitRating, ExactInv, TypeOK, Job, Row, Board!Key
  <2>2. Board!Change(job[w].row, job[w].new)
    BY <1>3 DEF Changes, CommitRating, Board!Change
  <2>3. QED
    BY <2>1, <2>2 DEF Board!Next, Board!Rating0, Rating0, Board!Rating, Rating,
                      Board!MaxRating, MaxRating, Board!NoRating, NoRating
<1>4. ASSUME NEW w \in Worker, Settles(w) PROVE Board!Next
  <2> DEFINE row == job[w].row
  <2>1. row \in Board!Key /\ row[2] = ExpOf(w) /\ ExpOf(w) \in Experience
    BY <1>4 DEF Settles, WriteAggregate, LoseEvent, Emitting, ExactInv, TypeOK, Job,
                Row, ExpOf, Board!Key
  <2>2. /\ ratings' = ratings
        /\ Reflected' = [Reflected EXCEPT ![row] = ratings[row]]
    BY <1>4 DEF Settles
  <2>3. CASE ExpOf(w) \in lost'
    <3>1. Board!Drift(row)
      BY <1>4, <2>1, <2>2, <2>3, SettleExact DEF Board!Drift
    <3>2. QED
      BY <2>1, <3>1 DEF Board!Next
  <2>4. CASE ExpOf(w) \notin lost'
    <3>1. lost' = lost
      BY <1>4, <2>4, SettleExact
    <3>2. agg' = [agg EXCEPT ![row[2]] = ExactRow(Reflected', row[2])]
      BY <1>4, <2>1, <2>4, SettleExact DEF ExactInv, TypeOK
    <3>3. Board!Published(Reflected', row[2]) = ExactRow(Reflected', row[2])
      BY SamePublished
    <3>4. Board!Reflect(row)
      BY <2>1, <2>2, <2>4, <3>1, <3>2, <3>3 DEF Board!Reflect
    <3>5. QED
      BY <2>1, <3>4 DEF Board!Next
  <2>5. QED
    BY <2>3, <2>4
<1>5. QED
  BY <1>1, <1>2, <1>3, <1>4

\* The handlers implement the abstract board: from request to aggregate row
\* the service only ever changes a rating, reflects a change exactly, or
\* drops an event and gives the experience up.
THEOREM BoardImplemented == OneAtATime => (Spec => ImplementsBoard)
<1> SUFFICES ASSUME OneAtATime PROVE Spec => ImplementsBoard
  OBVIOUS
<1>1. Init => Board!Init
  <2>1. ASSUME NEW e \in Experience
        PROVE  Board!Published(InitialRating, e) = ExactRow(InitialRating, e)
    BY SamePublished
  <2>2. QED
    BY <2>1, InitReflected DEF Init, Board!Init
<1>2. ExactInv /\ [Next]_vars => ExactInv'
  BY ExactStep
<1>3. ExactInv /\ [Next]_vars /\ ExactInv' => [Board!Next]_(Board!boardVars)
  BY BoardStep
<1>4. QED
  BY <1>1, <1>2, <1>3, ExactInit, PTL DEF Spec, ImplementsBoard, Board!Spec
------------------------------------------------------------------------------
(* Beside the reconciler and the queue (AggregateReconcile).               *)

\* A job in the queue has an attempt left.
QueuedJob == [job : Job, prior : Rating0, attempts : 0 .. (Attempts - 1)]

\* What a processor has is an event under way.
AttemptInv == \A w \in Worker : attempt[w] > 0 => pc[w] \in Emitting

ReconcileTypes ==
  /\ TypeOK
  /\ tick \in Scan
  /\ hasRow \subseteq Experience
  /\ \A e \in Experience \ hasRow : agg[e] = EmptyRow
  /\ queued \in BOOLEAN
  /\ queue \in Seq(QueuedJob)
  /\ attempt \in [Worker -> 0 .. Attempts]
  /\ AttemptInv

LEMMA EmptyWithoutRatings ==
  ASSUME NEW r \in [Row -> Rating0], NEW e \in Experience,
         \A u \in User : r[<<u, e>>] = NoRating
  PROVE  ExactRow(r, e) = EmptyRow
<1>1. {p \in User \X Rating : p[2] <= r[<<p[1], e>>]} = {}
  BY DEF Rating, NoRating
<1>2. {u \in User : r[<<u, e>>] # NoRating} = {}
  OBVIOUS
<1>3. Points(r, e) = 0 /\ Raters(r, e) = 0
  BY <1>1, <1>2, FS_EmptySet, Zenon DEF Points, Raters
<1>4. QED
  BY <1>3 DEF ExactRow, RowOf, EmptyRow, MeanOf, MIN_AGGREGATE_RATING_COUNT

LEMMA ReconcileTypesInit == ReconcileInit => ReconcileTypes
<1> SUFFICES ASSUME ReconcileInit PROVE ReconcileTypes
  OBVIOUS
<1>1. TypeOK
  BY InitType DEF ReconcileInit
<1>2. tick \in Scan
  BY DEF ReconcileInit, Scan
<1>3. ASSUME NEW e \in Experience \ hasRow PROVE agg[e] = EmptyRow
  BY EmptyWithoutRatings, ConstantsAssumption DEF ReconcileInit, Init
<1>4. queue \in Seq(QueuedJob)
  BY DEF ReconcileInit
<1>5. QED
  BY <1>1, <1>2, <1>3, <1>4, BatchAssumption DEF ReconcileInit, Init, ReconcileTypes, AttemptInv

\* The job that a processor gives back, or that a handler hands over.
LEMMA AgainType ==
  ASSUME ReconcileTypes, NEW w \in Worker, pc[w] # "idle", attempt[w] < Attempts
  PROVE  /\ Again(w) \in QueuedJob
         /\ Append(queue, Again(w)) \in Seq(QueuedJob)
<1>1. attempt[w] \in 0 .. (Attempts - 1)
  BY BatchAssumption DEF ReconcileTypes
<1>2. Again(w) \in QueuedJob
  BY <1>1 DEF Again, QueuedJob, ReconcileTypes, TypeOK
<1>3. QED
  BY <1>2, AppendProperties DEF ReconcileTypes

LEMMA AnswerType ==
  ASSUME TypeOK, NEW w \in Worker, Answer(w)
  PROVE  /\ pc' \in [Worker -> Stage]
         /\ job' \in [Worker -> Job \cup {NoJob}]
         /\ \A x \in Worker : pc'[x] # "idle" => job'[x] \in Job
         /\ prior' \in [Worker -> Rating0]
         /\ seen' \in [Worker -> AggregateRow]
<1>1. EmptyRow \in AggregateRow /\ NoRating \in Rating0
  BY DEF EmptyRow, AggregateRow, NoMean, Rating0
<1>2. QED
  BY <1>1 DEF TypeOK, Answer, Goto, Stage

\* Of a row that AppliedAndFails or the UPSERT of WriteAggregate writes.
LEMMA NextRowType ==
  ASSUME TypeOK, NEW w \in Worker, pc[w] # "idle"
  PROVE  NextRow(w) \in AggregateRow /\ ExpOf(w) \in Experience
<1>1. ExpOf(w) \in Experience /\ job[w].new \in Rating0
  BY DEF TypeOK, ExpOf, Job, Row
<1>2. QED
  BY <1>1, UpdateType DEF NextRow, TypeOK

LEMMA ReconcileTypesStep ==
  ReconcileTypes /\ [ReconcileNext]_reconcileVars => ReconcileTypes'
<1> SUFFICES ASSUME ReconcileTypes, [ReconcileNext]_reconcileVars PROVE ReconcileTypes'
  OBVIOUS
<1> USE DEF ReconcileTypes
<1>1. CASE UNCHANGED reconcileVars
  BY <1>1, TypeStep DEF reconcileVars, jobs, vars, AttemptInv
<1>2. ASSUME NEW w \in Worker, Statement(w), UNCHANGED <<tick, queued>>
      PROVE  ReconcileTypes'
  <2>1. TypeOK'
    BY <1>2, TypeStep DEF Statement, Next
  <2>2. attempt' \in [Worker -> 0 .. Attempts]
    BY <1>2, BatchAssumption DEF Statement
  <2>3. AttemptInv'
    BY <1>2 DEF Statement, Step, SelectPrior, WriteRating, CommitRating, LockAggregate,
                ReadAggregate, WriteAggregate, Answer, Goto, AttemptInv, Emitting, TypeOK
  <2>4. \A e \in Experience \ hasRow' : agg'[e] = EmptyRow
    <3>1. CASE UNCHANGED agg
      BY <1>2, <3>1 DEF Statement, Upserted
    <3>2. CASE WriteAggregate(w) /\ ~UNCHANGED agg
      BY <1>2, <3>2 DEF Statement, Upserted, WriteAggregate, TypeOK
    <3>3. QED
      BY <1>2, <3>1, <3>2 DEF Statement, Step, SelectPrior, WriteRating, CommitRating,
                              LockAggregate, ReadAggregate
  <2>5. hasRow' \subseteq Experience
    BY <1>2, NextRowType DEF Statement, Upserted
  <2>6. QED
    BY <1>2, <2>1, <2>2, <2>3, <2>4, <2>5 DEF Statement
<1>3. ASSUME NEW w \in Worker, Enqueue(w), UNCHANGED <<tick, queued>>
      PROVE  ReconcileTypes'
  <2>1. TypeOK'
    BY <1>3, AnswerType DEF Enqueue, TypeOK
  <2>2. queue' \in Seq(QueuedJob)
    BY <1>3, AgainType, BatchAssumption DEF Enqueue
  <2>3. AttemptInv'
    BY <1>3 DEF Enqueue, Answer, Goto, AttemptInv, TypeOK
  <2>4. QED
    BY <1>3, <2>1, <2>2, <2>3 DEF Enqueue
<1>4. ASSUME NEW w \in Worker, Take(w), UNCHANGED <<tick, queued>>
      PROVE  ReconcileTypes'
  <2>1. Head(queue) \in QueuedJob /\ Tail(queue) \in Seq(QueuedJob)
    BY <1>4, HeadTailProperties DEF Take
  <2>2. /\ Head(queue).job \in Job /\ Head(queue).prior \in Rating0
        /\ Head(queue).attempts + 1 \in 0 .. Attempts
    BY <2>1, BatchAssumption DEF QueuedJob
  <2>3. TypeOK'
    BY <1>4, <2>2 DEF Take, TypeOK, Goto, Stage
  <2>4. AttemptInv' /\ attempt' \in [Worker -> 0 .. Attempts]
    BY <1>4, <2>2 DEF Take, Goto, AttemptInv, Emitting, TypeOK
  <2>5. QED
    BY <1>4, <2>1, <2>3, <2>4 DEF Take
<1>5. ASSUME NEW w \in Worker, attempt[w] > 0, Requeue(w)
      PROVE  /\ queue' \in Seq(QueuedJob) /\ AttemptInv'
             /\ attempt' \in [Worker -> 0 .. Attempts]
  <2>1. queue' \in Seq(QueuedJob)
    BY <1>5, AgainType DEF Requeue, AttemptInv, Emitting
  <2>2. AttemptInv' /\ attempt' \in [Worker -> 0 .. Attempts]
    BY <1>5, BatchAssumption DEF Requeue, Answer, Goto, AttemptInv, TypeOK
  <2>3. QED
    BY <2>1, <2>2
<1>6. ASSUME NEW w \in Worker, JobFails(w), UNCHANGED <<tick, queued>>
      PROVE  ReconcileTypes'
  <2>1. pc[w] # "idle" /\ Answer(w)
    BY <1>6 DEF JobFails, Requeue, AttemptInv, Emitting
  <2>2. TypeOK'
    BY <1>6, <2>1, AnswerType, NextRowType DEF JobFails, TypeOK
  <2>3. QED
    BY <1>5, <1>6, <2>2 DEF JobFails
<1>7. ASSUME NEW w \in Worker, AppliedAndFails(w), UNCHANGED <<tick, queued>>
      PROVE  ReconcileTypes'
  <2>1. pc[w] # "idle" /\ Answer(w)
    BY <1>7 DEF AppliedAndFails, Requeue
  <2>2. NextRow(w) \in AggregateRow /\ ExpOf(w) \in Experience
    BY <2>1, NextRowType
  <2>3. TypeOK'
    BY <1>7, <2>1, <2>2, AnswerType DEF AppliedAndFails, TypeOK
  <2>4. \A e \in Experience \ hasRow' : agg'[e] = EmptyRow
    BY <1>7, <2>2 DEF AppliedAndFails, Upserted, TypeOK
  <2>5. hasRow' \subseteq Experience
    BY <1>7, <2>2 DEF AppliedAndFails, Upserted
  <2>6. QED
    BY <1>5, <1>7, <2>3, <2>4, <2>5 DEF AppliedAndFails
<1>8. ASSUME NEW w \in Worker, Handle(w), UNCHANGED <<tick, queued>>
      PROVE  ReconcileTypes'
  <2>1. TypeOK'
    BY <1>8, TypeStep DEF Handle, Next
  <2>2. AttemptInv' /\ UNCHANGED agg
    BY <1>8 DEF Handle, Request, AbortRating, LoseEvent, Answer, Goto, AttemptInv, Emitting,
                InRatingTx, TypeOK
  <2>3. QED
    BY <1>8, <2>1, <2>2 DEF Handle
<1>9. CASE (StartTick \/ (\E e \in Experience : LockForRecompute(e)) \/ ScanRatings \/ EndTick)
           /\ UNCHANGED <<vars, hasRow, jobs>>
  <2>1. TypeOK' /\ AttemptInv' /\ UNCHANGED <<agg, hasRow, queued, queue, attempt>>
    BY <1>9, TypeStep DEF vars, jobs, AttemptInv
  <2>2. tick' \in Scan
    <3>1. CASE StartTick
      BY <3>1 DEF StartTick, Scan, Slice, Listed
    <3>2. ASSUME NEW e \in Experience, LockForRecompute(e) PROVE tick' \in Scan
      BY <3>2 DEF LockForRecompute, Scan
    <3>3. CASE ScanRatings
      <4>1. tick.exp \in Experience /\ tick.todo \in SUBSET Experience
        BY <3>3 DEF ScanRatings, Scan
      <4>2. ExactRow(ratings, tick.exp) \in AggregateRow
        BY <4>1, ExactRowType DEF TypeOK
      <4>3. QED
        BY <3>3, <4>1, <4>2 DEF ScanRatings, Scan
    <3>4. CASE EndTick
      BY <3>4 DEF EndTick, Scan
    <3>5. QED
      BY <1>9, <3>1, <3>2, <3>3, <3>4
  <2>3. QED
    BY <2>1, <2>2
<1>10. CASE OverwriteAggregate
  <2>1. /\ tick.exp \in Experience /\ tick.todo \in SUBSET Experience
        /\ tick.row \in AggregateRow
    BY <1>10 DEF OverwriteAggregate, Scan
  <2>2. TypeOK'
    BY <1>10, <2>1 DEF OverwriteAggregate, TypeOK
  <2>3. tick' \in Scan
    BY <1>10, <2>1 DEF OverwriteAggregate, Scan
  <2>4. \A e \in Experience \ hasRow' : agg'[e] = EmptyRow
    BY <1>10, <2>1 DEF OverwriteAggregate, TypeOK
  <2>5. QED
    BY <1>10, <2>1, <2>2, <2>3, <2>4 DEF OverwriteAggregate, jobs, AttemptInv
<1>11. CASE SkipExperience
  <2>1. TypeOK' /\ tick' \in Scan
    BY <1>11 DEF SkipExperience, TypeOK, Scan
  <2>2. QED
    BY <1>11, <2>1 DEF SkipExperience, jobs, AttemptInv
<1>12. QED
  BY <1>1, <1>2, <1>3, <1>4, <1>6, <1>7, <1>8, <1>9, <1>10, <1>11
  DEF ReconcileNext, Proceed, Reconcile

\* The reconciler and a handler never hold the lock of one experience.
TickExclusive ==
  \A w \in Worker : HoldsAdvisoryLock(w) => ~TickHolds(ExpOf(w))

ReconcileLock == LockInv /\ TickExclusive

\* A handler that answers or gives its job back gives up its lock.
LEMMA AnswerLock ==
  ASSUME ReconcileTypes, ReconcileLock, NEW w \in Worker, Answer(w), UNCHANGED tick,
         \A e \in Experience : agg'[e] # agg[e] => pc[w] = "read" /\ e = ExpOf(w)
  PROVE  ReconcileLock'
<1> USE DEF ReconcileLock, LockInv, LockExclusive, ReadIsCurrent, HoldsAdvisoryLock
<1>1. /\ pc'[w] = "idle"
      /\ \A x \in Worker \ {w} :
           pc'[x] = pc[x] /\ job'[x] = job[x] /\ seen'[x] = seen[x]
  BY DEF Answer, Goto, ReconcileTypes, TypeOK
<1>2. \A x \in Worker \ {w} : ExpOf(x)' = ExpOf(x)
  BY <1>1 DEF ExpOf
<1>3. \A x \in Worker : pc[x] # "idle" => ExpOf(x) \in Experience
  BY DEF ExpOf, ReconcileTypes, TypeOK, Job, Row
<1>4. LockExclusive' /\ TickExclusive'
  BY <1>1, <1>2 DEF TickExclusive, TickHolds
<1>5. ReadIsCurrent'
  <2> SUFFICES ASSUME NEW x \in Worker, pc'[x] = "read"
               PROVE  seen'[x] = agg'[ExpOf(x)']
    BY DEF ReadIsCurrent
  <2>1. x # w /\ pc[x] = "read" /\ seen'[x] = seen[x] /\ ExpOf(x)' = ExpOf(x)
    BY <1>1, <1>2
  <2>2. ExpOf(x) \in Experience
    BY <1>3, <2>1
  <2>3. agg'[ExpOf(x)] = agg[ExpOf(x)]
    BY <2>1, <2>2
  <2>4. QED
    BY <2>1, <2>3
<1>6. QED
  BY <1>4, <1>5

LEMMA ReconcileLockStep ==
  ReconcileTypes /\ ReconcileLock /\ [ReconcileNext]_reconcileVars => ReconcileLock'
<1> SUFFICES ASSUME ReconcileTypes, ReconcileLock, [ReconcileNext]_reconcileVars
             PROVE  ReconcileLock'
  OBVIOUS
<1> USE DEF ReconcileTypes, ReconcileLock
<1>1. CASE UNCHANGED reconcileVars
  BY <1>1, LockInvStep DEF reconcileVars, vars, TickExclusive, HoldsAdvisoryLock, ExpOf,
                           TickHolds
<1>2. ASSUME NEW w \in Worker, Statement(w), UNCHANGED <<tick, queued>>
      PROVE  ReconcileLock'
  <2>1. LockInv'
    BY <1>2, LockInvStep DEF Statement, Next
  <2>2. TickExclusive'
    BY <1>2 DEF Statement, Step, SelectPrior, WriteRating, CommitRating, LockAggregate,
                ReadAggregate, WriteAggregate, Answer, Goto, TickExclusive,
                HoldsAdvisoryLock, TickHolds, ExpOf, TypeOK
  <2>3. QED
    BY <2>1, <2>2
<1>3. ASSUME NEW w \in Worker, Enqueue(w) \/ JobFails(w), UNCHANGED <<tick, queued>>
      PROVE  ReconcileLock'
  BY <1>3, AnswerLock DEF Enqueue, JobFails, Requeue
<1>4. ASSUME NEW w \in Worker, Take(w), UNCHANGED <<tick, queued>>
      PROVE  ReconcileLock'
  <2>1. /\ pc'[w] = "committed" /\ agg' = agg /\ seen' = seen /\ tick' = tick
        /\ \A x \in Worker \ {w} : pc'[x] = pc[x] /\ job'[x] = job[x]
    BY <1>4 DEF Take, Goto, TypeOK
  <2>2. QED
    BY <2>1 DEF LockInv, LockExclusive, ReadIsCurrent, HoldsAdvisoryLock, TickExclusive,
                TickHolds, ExpOf
<1>5. ASSUME NEW w \in Worker, AppliedAndFails(w), UNCHANGED <<tick, queued>>
      PROVE  ReconcileLock'
  <2>1. \A e \in Experience : agg'[e] # agg[e] => pc[w] = "read" /\ e = ExpOf(w)
    BY <1>5 DEF AppliedAndFails, TypeOK
  <2>2. QED
    BY <1>5, <2>1, AnswerLock DEF AppliedAndFails, Requeue
<1>6. ASSUME NEW w \in Worker, Handle(w), UNCHANGED <<tick, queued>>
      PROVE  ReconcileLock'
  <2>1. LockInv'
    BY <1>6, LockInvStep DEF Handle, Next
  <2>2. TickExclusive'
    BY <1>6 DEF Handle, Request, AbortRating, LoseEvent, Answer, Goto, TickExclusive,
                HoldsAdvisoryLock, TickHolds, ExpOf, TypeOK
  <2>3. QED
    BY <2>1, <2>2
<1>7. CASE (StartTick \/ (\E e \in Experience : LockForRecompute(e)) \/ ScanRatings \/ EndTick)
           /\ UNCHANGED <<vars, hasRow, jobs>>
  <2>1. LockInv'
    BY <1>7, LockInvStep
  <2>2. TickExclusive'
    BY <1>7 DEF vars, StartTick, LockForRecompute, ScanRatings, EndTick, TickExclusive,
                HoldsAdvisoryLock, TickHolds, ExpOf
  <2>3. QED
    BY <2>1, <2>2
<1>8. CASE OverwriteAggregate \/ SkipExperience
  <2>1. /\ UNCHANGED <<pc, job, seen>> /\ tick'.stage = "walking"
        /\ \A e \in Experience : agg'[e] # agg[e] => TickHolds(e)
    BY <1>8 DEF OverwriteAggregate, SkipExperience, TickHolds, TypeOK
  <2>2. \A x \in Worker : pc[x] # "idle" => ExpOf(x) \in Experience
    BY DEF ExpOf, TypeOK, Job, Row
  <2>3. QED
    BY <2>1, <2>2 DEF LockInv, LockExclusive, ReadIsCurrent, HoldsAdvisoryLock,
                      TickExclusive, TickHolds, ExpOf
<1>9. QED
  BY <1>1, <1>2, <1>3, <1>4, <1>5, <1>6, <1>7, <1>8 DEF ReconcileNext, Proceed, Reconcile

LEMMA ReconcileLockInit == ReconcileInit => ReconcileLock
BY DEF ReconcileInit, Init, ReconcileLock, LockInv, LockExclusive, ReadIsCurrent,
       HoldsAdvisoryLock, TickExclusive

\* The variables of the reconciler and the queue have their types.
THEOREM ReconcileTypeCorrect == ReconcileSpec => []ReconcileTypeOK
<1>1. ReconcileTypes => ReconcileTypeOK
  <2>1. QueuedJob \subseteq [job : Job, prior : Rating0, attempts : 0 .. Attempts]
    BY BatchAssumption DEF QueuedJob
  <2>2. ASSUME queue \in Seq(QueuedJob)
        PROVE  queue \in Seq([job : Job, prior : Rating0, attempts : 0 .. Attempts])
    BY <2>1, <2>2, SeqMonotonic
  <2>3. QED
    BY <2>2 DEF ReconcileTypes, ReconcileTypeOK
<1>2. QED
  BY <1>1, ReconcileTypesInit, ReconcileTypesStep, PTL DEF ReconcileSpec

\* No update of an aggregate row is lost to the reconciler either, nor to a
\* job that is tried again: the row a handler writes over is the one it read.
THEOREM NoUpdateLostToReconciler == ReconcileSpec => []ReadIsCurrent
<1>1. ReconcileLock => ReadIsCurrent
  BY DEF ReconcileLock, LockInv
<1>2. QED
  BY <1>1, ReconcileTypesInit, ReconcileTypesStep, ReconcileLockInit, ReconcileLockStep, PTL
  DEF ReconcileSpec

\* An event of experience e is still to be applied, or was lost.
Pending(e) ==
  \/ e \in lost
  \/ \E w \in Worker : pc[w] \in Emitting /\ ExpOf(w) = e
  \/ \E i \in DOMAIN queue : queue[i].job.row[2] = e

\* What the reconciler summed is still what the ratings say, or an event
\* that says otherwise is pending.
ScanInv ==
  tick.stage = "scanned" =>
    Pending(tick.exp) \/ tick.row = ExactRow(ratings, tick.exp)

ReconcileInv == ReconcileTypes /\ ReconcileLock /\ ScanInv

\* An append leaves what was in the queue where it was.
LEMMA QueueAppend ==
  ASSUME NEW q \in Seq(QueuedJob), NEW j \in QueuedJob, NEW e
  PROVE  /\ (\E i \in DOMAIN q : q[i].job.row[2] = e)
              => \E i \in DOMAIN Append(q, j) : Append(q, j)[i].job.row[2] = e
         /\ j.job.row[2] = e
              => \E i \in DOMAIN Append(q, j) : Append(q, j)[i].job.row[2] = e
<1>1. /\ Append(q, j) \in Seq(QueuedJob) /\ Len(q) \in Nat
      /\ Len(Append(q, j)) = Len(q) + 1
      /\ \A i \in 1 .. Len(q) : Append(q, j)[i] = q[i]
      /\ Append(q, j)[Len(q) + 1] = j
  BY AppendProperties, LenProperties
<1>2. DOMAIN q = 1 .. Len(q) /\ DOMAIN Append(q, j) = 1 .. (Len(q) + 1)
  BY <1>1, LenProperties
<1>3. \A i \in 1 .. Len(q) : i \in 1 .. (Len(q) + 1)
  BY <1>1
<1>4. Len(q) + 1 \in 1 .. (Len(q) + 1)
  BY <1>1
<1>5. QED
  BY <1>1, <1>2, <1>3, <1>4

\* A processor that takes the head of the queue leaves the rest there.
LEMMA QueueTake ==
  ASSUME NEW q \in Seq(QueuedJob), q # <<>>, NEW e,
         \E i \in DOMAIN q : q[i].job.row[2] = e
  PROVE  \/ Head(q).job.row[2] = e
         \/ \E i \in DOMAIN Tail(q) : Tail(q)[i].job.row[2] = e
<1>1. /\ Len(q) \in Nat /\ DOMAIN q = 1 .. Len(q)
      /\ DOMAIN Tail(q) = 1 .. (Len(q) - 1)
      /\ \A i \in 1 .. (Len(q) - 1) : Tail(q)[i] = q[i + 1]
  BY HeadTailProperties, LenProperties
<1>2. PICK i \in 1 .. Len(q) : q[i].job.row[2] = e
  BY <1>1
<1>3. CASE i = 1
  <2>1. Head(q) = q[1]
    OBVIOUS
  <2>2. QED
    BY <1>2, <1>3, <2>1
<1>4. CASE i # 1
  <2>1. i - 1 \in 1 .. (Len(q) - 1) /\ (i - 1) + 1 = i
    BY <1>1, <1>4
  <2>2. Tail(q)[i - 1] = q[i]
    BY <1>1, <2>1
  <2>3. QED
    BY <1>1, <1>2, <2>1, <2>2
<1>5. QED
  BY <1>3, <1>4

\* While the reconciler holds the lock of an experience, nothing but a loss
\* takes an event of it away: it moves between handlers and queue.
LEMMA PendingStays ==
  ASSUME ReconcileInv, NEW w \in Worker, NEW e \in Experience, TickHolds(e), Pending(e),
         \/ Statement(w) \/ Enqueue(w) \/ Take(w) \/ JobFails(w)
         \/ Handle(w) \/ AppliedAndFails(w)
  PROVE  Pending(e)'
<1> USE DEF ReconcileInv, ReconcileTypes
<1>1. lost \subseteq lost'
  BY DEF Statement, Step, SelectPrior, WriteRating, CommitRating, LockAggregate, ReadAggregate,
         WriteAggregate, Enqueue, Take, JobFails, Handle, Request, AbortRating, LoseEvent,
         AppliedAndFails
<1>2. \A x \in Worker \ {w} : pc'[x] = pc[x] /\ job'[x] = job[x]
  BY DEF Statement, Step, SelectPrior, WriteRating, CommitRating, LockAggregate, ReadAggregate,
         WriteAggregate, Enqueue, Take, JobFails, Requeue, Handle, Request, AbortRating,
         LoseEvent, AppliedAndFails, Answer, Goto, TypeOK
<1>3. ~(pc[w] = "read" /\ ExpOf(w) = e)
  BY DEF ReconcileLock, TickExclusive, HoldsAdvisoryLock
<1>4. CASE e \in lost
  BY <1>1, <1>4 DEF Pending
<1>5. ASSUME NEW x \in Worker \ {w}, pc[x] \in Emitting, ExpOf(x) = e
      PROVE  Pending(e)'
  BY <1>2, <1>5 DEF Pending, ExpOf
<1>6. CASE pc[w] \in Emitting /\ ExpOf(w) = e
  <2>1. CASE Statement(w) \/ Handle(w)
    <3>1. \/ pc'[w] \in Emitting /\ job'[w] = job[w]
          \/ e \in lost'
      BY <1>3, <1>6, <2>1
      DEF Statement, Step, SelectPrior, WriteRating, CommitRating, LockAggregate,
          ReadAggregate, WriteAggregate, Handle, Request, AbortRating, LoseEvent, Goto,
          Emitting, InRatingTx, TypeOK
    <3>2. QED
      BY <1>6, <3>1 DEF Pending, ExpOf
  <2>2. CASE Enqueue(w)
    <3>1. Again(w) \in QueuedJob /\ queue' = Append(queue, Again(w))
      BY <1>6, <2>2, AgainType, BatchAssumption DEF Enqueue, Emitting
    <3>2. Again(w).job.row[2] = e
      BY <1>6 DEF Again, ExpOf
    <3>3. QED
      BY <3>1, <3>2, QueueAppend DEF Pending
  <2>3. CASE Take(w)
    BY <1>6, <2>3 DEF Take, Emitting
  <2>4. CASE JobFails(w) /\ attempt[w] < Attempts
    <3>1. Again(w) \in QueuedJob /\ queue' = Append(queue, Again(w))
      BY <1>6, <2>4, AgainType DEF JobFails, Requeue, Emitting
    <3>2. Again(w).job.row[2] = e
      BY <1>6 DEF Again, ExpOf
    <3>3. QED
      BY <3>1, <3>2, QueueAppend DEF Pending
  <2>5. CASE JobFails(w) /\ ~(attempt[w] < Attempts)
    BY <1>6, <2>5 DEF JobFails, Pending
  <2>6. CASE AppliedAndFails(w)
    BY <1>6, <2>6 DEF AppliedAndFails, Pending
  <2>7. QED
    BY <2>1, <2>2, <2>3, <2>4, <2>5, <2>6
<1>7. CASE \E i \in DOMAIN queue : queue[i].job.row[2] = e
  <2>1. CASE queue' = queue
    BY <1>7, <2>1 DEF Pending
  <2>2. CASE queue' = Append(queue, Again(w)) /\ Again(w) \in QueuedJob
    BY <1>7, <2>2, QueueAppend DEF Pending
  <2>3. CASE Take(w)
    <3>1. \/ Head(queue).job.row[2] = e
          \/ \E i \in DOMAIN queue' : queue'[i].job.row[2] = e
      BY <1>7, <2>3, QueueTake DEF Take
    <3>2. pc'[w] \in Emitting /\ job'[w] = Head(queue).job
      BY <2>3 DEF Take, Goto, Emitting, TypeOK
    <3>3. QED
      BY <3>1, <3>2 DEF Pending, ExpOf
  <2>4. CASE Enqueue(w)
    <3>1. pc[w] # "idle" /\ attempt[w] < Attempts
      BY <2>4, BatchAssumption DEF Enqueue
    <3>2. Again(w) \in QueuedJob
      BY <3>1, AgainType
    <3>3. QED
      BY <2>2, <2>4, <3>2 DEF Enqueue
  <2>5. CASE JobFails(w) \/ AppliedAndFails(w)
    <3>1. pc[w] # "idle" /\ Requeue(w)
      BY <2>5 DEF JobFails, AppliedAndFails, AttemptInv, Emitting
    <3>2. QED
      BY <2>1, <2>2, <3>1, AgainType DEF Requeue
  <2>6. QED
    BY <2>1, <2>3, <2>4, <2>5 DEF Statement, Handle
<1>8. QED
  BY <1>4, <1>5, <1>6, <1>7 DEF Pending

\* A rating of that experience that changes has its event pending.
LEMMA ChangeIsPending ==
  ASSUME ReconcileInv, NEW w \in Worker, NEW e \in Experience,
         \/ Statement(w) \/ Enqueue(w) \/ Take(w) \/ JobFails(w)
         \/ Handle(w) \/ AppliedAndFails(w)
  PROVE  Pending(e)' \/ ExactRow(ratings', e) = ExactRow(ratings, e)
<1> USE DEF ReconcileInv, ReconcileTypes
<1>1. CASE ratings' = ratings
  BY <1>1
<1>2. CASE CommitRating(w)
  <2>1. /\ job[w].row \in Row /\ job[w].new \in Rating0
        /\ pc'[w] = "committed" /\ job' = job
        /\ ratings' = [ratings EXCEPT ![job[w].row] = job[w].new]
    BY <1>2 DEF CommitRating, Goto, TypeOK, Job
  <2>2. CASE job[w].row[2] = e
    BY <2>1, <2>2 DEF Pending, ExpOf, Emitting
  <2>3. CASE job[w].row[2] # e
    <3>1. ExactRow([ratings EXCEPT ![job[w].row] = job[w].new], e) = ExactRow(ratings, e)
      <4> DEFINE row == job[w].row
                 new == job[w].new
      <4>1. /\ row \in Row /\ new \in Rating0 /\ e \in Experience \ {row[2]}
            /\ ratings \in [Row -> Rating0]
        BY <2>1, <2>3 DEF TypeOK
      <4> HIDE DEF row, new, ReconcileInv, ReconcileTypes
      <4>2. ExactRow([ratings EXCEPT ![row] = new], e) = ExactRow(ratings, e)
        BY <4>1, ExactRowUpdate
      <4>3. QED
        BY <4>2 DEF row, new
    <3>2. QED
      BY <2>1, <3>1
  <2>4. QED
    BY <2>2, <2>3
<1>3. QED
  BY <1>1, <1>2 DEF Statement, Step, SelectPrior, WriteRating, LockAggregate, ReadAggregate,
                    WriteAggregate, Enqueue, Take, JobFails, Handle, Request, AbortRating,
                    LoseEvent, AppliedAndFails

LEMMA ScanInvStep ==
  ReconcileInv /\ [ReconcileNext]_reconcileVars => ScanInv'
<1> SUFFICES ASSUME ReconcileInv, [ReconcileNext]_reconcileVars, tick'.stage = "scanned"
             PROVE  Pending(tick.exp)' \/ tick'.row = ExactRow(ratings', tick'.exp)
  BY DEF ScanInv, Pending
<1> USE DEF ReconcileInv
<1>1. CASE UNCHANGED reconcileVars
  BY <1>1 DEF reconcileVars, vars, jobs, ScanInv, Pending, ExpOf, ExactRow, Points, Raters
<1>2. ASSUME NEW w \in Worker, UNCHANGED <<tick, queued>>,
             \/ Statement(w) \/ Enqueue(w) \/ Take(w) \/ JobFails(w)
             \/ Handle(w) \/ AppliedAndFails(w)
      PROVE  Pending(tick.exp)' \/ tick'.row = ExactRow(ratings', tick'.exp)
  <2>1. tick' = tick /\ tick.stage = "scanned"
    BY <1>2
  <2>2. tick.exp \in Experience /\ TickHolds(tick.exp)
    BY <2>1 DEF TickHolds, ReconcileTypes, Scan
  <2>3. PICK e \in Experience : TickHolds(e) /\ e = tick.exp /\ e = tick'.exp
    BY <2>1, <2>2
  <2>4. Pending(e) \/ tick.row = ExactRow(ratings, e)
    BY <2>1, <2>3 DEF ScanInv
  <2>5. CASE Pending(e)
    <3>1. Pending(e)'
      BY <1>2, <2>3, <2>5, PendingStays
    <3>2. QED
      BY <2>1, <2>3, <3>1 DEF Pending
  <2>6. CASE tick.row = ExactRow(ratings, e)
    <3>1. Pending(e)' \/ ExactRow(ratings', e) = ExactRow(ratings, e)
      BY <1>2, <2>3, ChangeIsPending
    <3>2. QED
      BY <2>1, <2>3, <2>6, <3>1 DEF Pending
  <2>7. QED
    BY <2>4, <2>5, <2>6
<1>3. CASE ScanRatings /\ UNCHANGED <<vars, hasRow, jobs>>
  BY <1>3 DEF ScanRatings, vars
<1>4. CASE StartTick \/ (\E e \in Experience : LockForRecompute(e)) \/ EndTick
           \/ OverwriteAggregate \/ SkipExperience
  BY <1>4 DEF StartTick, LockForRecompute, EndTick, OverwriteAggregate, SkipExperience
<1>5. QED
  BY <1>1, <1>2, <1>3, <1>4 DEF ReconcileNext, Proceed, Reconcile

\* Between its scan and its commit the reconciler does not overwrite a row
\* with stale sums: unless an event of the experience was lost, is with a
\* handler or waits in the queue, what it is about to write is exact.
THEOREM ReconcilerOverwritesCurrent == ReconcileSpec => []OverwriteIsCurrent
<1>1. ReconcileInit => ReconcileInv
  BY ReconcileTypesInit, ReconcileLockInit DEF ReconcileInit, ReconcileInv, ScanInv
<1>2. ReconcileInv /\ [ReconcileNext]_reconcileVars => ReconcileInv'
  BY ReconcileTypesStep, ReconcileLockStep, ScanInvStep DEF ReconcileInv
<1>3. ReconcileInv => OverwriteIsCurrent
  BY DEF ReconcileInv, ScanInv, Pending, OverwriteIsCurrent, InFlight
<1>4. QED
  BY <1>1, <1>2, <1>3, PTL DEF ReconcileSpec
==============================================================================
