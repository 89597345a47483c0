-------------------------- MODULE Leaderboard_proofs --------------------------
(***************************************************************************)
(* What TLAPS proves of Leaderboard, for any tables, any number of phones  *)
(* and any windows: how old a list that is shown, or stored, can be, and   *)
(* how often the table is read between two expiries of the key.  The       *)
(* invariant of the first bounds the age of a list at every place it       *)
(* passes through: the one just read is as old as its request at most, the *)
(* stored one as its key and the request that stored it, and so on to the  *)
(* screen.  That of the second counts the requests that have yet to read.  *)
(***************************************************************************)
EXTENDS Leaderboard, FiniteSetTheorems, TLAPS

\* A request that is under way is no older than MaxDelay.
Young == \A p \in Phone : pc[p] # "idle" => job[p].age <= MaxDelay

\* A list that was read from the database, and not yet stored.
ReadAge == \A p \in Phone : pc[p] = "set" => job[p].old <= job[p].age

StoredAge == cache.there /\ Valid(cache.board) => cache.old <= cache.age + MaxDelay

\* The key is gone when its time has come.
StoredShort == cache.there => cache.age < LEADERBOARD_TTL

AnsweredAge == \A p \in Phone :
  pc[p] = "reply" => job[p].old <= job[p].age + LEADERBOARD_TTL + MaxDelay

ShownAge == \A p \in Phone :
  home[p].there /\ home[p].age < CACHE_WINDOW =>
    home[p].old <= home[p].age + LEADERBOARD_TTL + 2 * MaxDelay

IInv == /\ TypeOK
        /\ Young /\ ReadAge /\ StoredAge /\ StoredShort /\ AnsweredAge /\ ShownAge

------------------------------------------------------------------------------
\* What a SELECT returns is a sequence of entries.
LEMMA BoardsAreBoards == ASSUME NEW d \in [Experience -> Row] PROVE Boards(d) \subseteq Board
<1> DEFINE all   == {EntryOf(d, e) : e \in Ranked(d)}
           count == IF Cardinality(all) < LEADERBOARD_LIMIT
                    THEN Cardinality(all) ELSE LEADERBOARD_LIMIT
<1>1. IsFiniteSet(Ranked(d))
  <2>1. Ranked(d) \subseteq Experience  BY DEF Ranked
  <2> QED  BY <2>1, LeaderboardAssumption, FS_Subset, Zenon
<1>2. IsFiniteSet(all)
  <2> DEFINE of == [e \in Ranked(d) |-> EntryOf(d, e)]
  <2>1. all = {of[e] : e \in Ranked(d)}  OBVIOUS
  <2>2. of \in [Ranked(d) -> all]  OBVIOUS
  <2>3. of \in Surjection(Ranked(d), all)  BY <2>1, <2>2 DEF Surjection
  <2> QED  BY <1>1, <2>3, FS_Surjection, Zenon
<1>3. Cardinality(all) \in Nat
  BY <1>2, FS_CardinalityType, Zenon
<1>4. all \subseteq Entry
  BY LeaderboardAssumption DEF EntryOf, Entry, Ranked
<1>5. count \in Nat
  BY <1>3, LeaderboardAssumption
<1>6. ASSUME NEW b \in Boards(d) PROVE b \in [1 .. count -> all]
  BY <1>6, Zenon DEF Boards
<1> HIDE DEF all, count
<1> QED  BY <1>4, <1>5, <1>6 DEF Board

\* A list under other tables keeps all but its `old`, which may only fall.
LEMMA UnderHeld ==
  ASSUME NEW d, NEW held \in Held
  PROVE  /\ Under(d, held) \in Held
         /\ Under(d, held).there = held.there /\ Under(d, held).board = held.board
         /\ Under(d, held).age = held.age /\ Under(d, held).old <= held.old
  BY DEF Under, Held

\* A tick makes a list at most one tick older.
LEMMA LaterHeld ==
  ASSUME NEW held \in Held
  PROVE  /\ Later(held) \in Held
         /\ Later(held).there = held.there /\ Later(held).board = held.board
         /\ held.there => Later(held).age = held.age + 1
         /\ Later(held).old <= held.old + 1
<1>1. CASE ~held.there  BY <1>1 DEF Later, Held
<1>2. CASE held.there
  <2>1. held.age \in Nat /\ held.old \in Nat /\ TooOld \in Nat
    BY LeaderboardAssumption DEF Held, TooOld
  <2> DEFINE old == IF held.board \in Boards(db) THEN 0
                    ELSE IF held.old < TooOld THEN held.old + 1 ELSE TooOld
  <2>2. old \in Nat /\ old <= held.old + 1  BY <2>1
  <2>3. Later(held) = [held EXCEPT !.age = held.age + 1, !.old = old]
    BY <1>2, Zenon DEF Later
  <2> HIDE DEF old
  <2>4. held = [there |-> held.there, board |-> held.board,
                old |-> held.old, age |-> held.age]
        /\ held.there \in BOOLEAN /\ held.board \in Board
    BY DEF Held
  <2>5. Later(held) = [there |-> held.there, board |-> held.board,
                       old |-> old, age |-> held.age + 1]
    BY <2>3, <2>4
  <2> QED  BY <2>1, <2>2, <2>4, <2>5 DEF Held
<1> QED  BY <1>1, <1>2

LEMMA NothingHeld == Nothing \in Held /\ ~Nothing.there /\ Nothing.old = 0 /\ Nothing.age = 0
<1>1. <<>> \in Board  BY DEF Board
<1> QED  BY <1>1 DEF Nothing, Held

\* Init: whatever was in the key is not valid, and nothing is displayed.
LEMMA InitInv == Init => IInv
<1> SUFFICES ASSUME Init PROVE IInv  OBVIOUS
<1>1. cache \in Held /\ cache.old = 0 /\ cache.age = 0
  <2>1. CASE cache = Nothing  BY <2>1, NothingHeld
  <2>2. CASE \E b \in Foreign : cache = [there |-> TRUE, board |-> b, old |-> 0, age |-> 0]
    <3>1. \A e \in Experience : [exp |-> e, mean |-> 0, count |-> 0] \in Entry
      BY DEF Entry
    <3>2. \A x \in Entry : <<x>> \in Board  BY DEF Board
    <3>3. Foreign \subseteq Board  BY <3>1, <3>2 DEF Foreign
    <3> QED  BY <2>2, <3>3 DEF Held
  <2> QED  BY <2>1, <2>2 DEF Init
<1>2. TypeOK
  BY <1>1, NothingHeld DEF Init, TypeOK, Stage, Held
<1> QED
  BY <1>1, <1>2, NothingHeld, LeaderboardAssumption
     DEF Init, IInv, Young, ReadAge, StoredAge, StoredShort, AnsweredAge, ShownAge

------------------------------------------------------------------------------
\* A step that changes the tables makes no list older.
LEMMA ChangeStep ==
  ASSUME IInv, NEW e \in Experience, NEW row \in Row, Change(e, row)
  PROVE  IInv'
<1>1. /\ db' = [db EXCEPT ![e] = row] /\ pc' = pc /\ reads' = reads /\ failures' = failures
      /\ cache' = Under(db', cache)
      /\ job' = [p \in Phone |-> Under(db', job[p])]
      /\ home' = [p \in Phone |-> Under(db', home[p])]
  BY DEF Change
<1>2. cache \in Held /\ \A p \in Phone : job[p] \in Held /\ home[p] \in Held
  BY DEF IInv, TypeOK
<1>3. \A held \in Held :
        /\ Under(db', held) \in Held
        /\ Under(db', held).there = held.there /\ Under(db', held).board = held.board
        /\ Under(db', held).age = held.age /\ Under(db', held).old <= held.old
  BY UnderHeld
<1>4. \A held \in Held : held.old \in Nat /\ held.age \in Nat  BY DEF Held
<1>5. TypeOK'
  BY <1>1, <1>2, <1>3 DEF IInv, TypeOK
<1>6. Young' /\ StoredShort'
  BY <1>1, <1>2, <1>3 DEF IInv, Young, StoredShort
<1>7. StoredAge'
  <2>1. cache'.there = cache.there /\ cache'.board = cache.board
        /\ cache'.age = cache.age /\ cache'.old <= cache.old /\ cache'.old \in Nat
    BY <1>1, <1>2, <1>3, <1>4
  <2> QED  BY <2>1, <1>2, <1>4, LeaderboardAssumption DEF IInv, StoredAge
<1>8. ReadAge' /\ AnsweredAge'
  <2> SUFFICES ASSUME NEW p \in Phone
               PROVE  /\ pc[p] = "set" => job'[p].old <= job'[p].age
                      /\ pc[p] = "reply" =>
                           job'[p].old <= job'[p].age + LEADERBOARD_TTL + MaxDelay
    BY <1>1 DEF ReadAge, AnsweredAge
  <2>1. /\ job'[p].age = job[p].age /\ job'[p].old <= job[p].old
        /\ job[p].age \in Nat /\ job[p].old \in Nat /\ job'[p].old \in Nat
    BY <1>1, <1>2, <1>3, <1>4
  <2> QED  BY <2>1, LeaderboardAssumption DEF IInv, ReadAge, AnsweredAge
<1>9. ShownAge'
  <2> SUFFICES ASSUME NEW p \in Phone, home'[p].there, home'[p].age < CACHE_WINDOW
               PROVE  home'[p].old <= home'[p].age + LEADERBOARD_TTL + 2 * MaxDelay
    BY DEF ShownAge
  <2>1. /\ home'[p].there = home[p].there
        /\ home'[p].age = home[p].age /\ home'[p].old <= home[p].old
        /\ home[p].age \in Nat /\ home[p].old \in Nat /\ home'[p].old \in Nat
    BY <1>1, <1>2, <1>3, <1>4
  <2> QED  BY <2>1, LeaderboardAssumption DEF IInv, ShownAge
<1> QED  BY <1>5, <1>6, <1>7, <1>8, <1>9 DEF IInv

\* A step of one phone's that leaves the key and the screens: what the other
\* phones carry stands, and of the one that moved its new list has to be shown.
LEMMA CarryStep ==
  ASSUME IInv, NEW p \in Phone, NEW stage \in Stage, NEW held \in Held,
         pc' = [pc EXCEPT ![p] = stage], job' = [job EXCEPT ![p] = held],
         UNCHANGED <<db, cache, home>>, reads' \in Nat, failures' \in Nat,
         stage # "idle" => held.age <= MaxDelay,
         stage = "set" => held.old <= held.age,
         stage = "reply" => held.old <= held.age + LEADERBOARD_TTL + MaxDelay
  PROVE  IInv'
<1>1. /\ pc'[p] = stage /\ job'[p] = held
      /\ \A q \in Phone \ {p} : pc'[q] = pc[q] /\ job'[q] = job[q]
  BY DEF IInv, TypeOK
<1>2. TypeOK'
  BY DEF IInv, TypeOK
<1>3. Young' /\ ReadAge' /\ AnsweredAge'
  BY <1>1 DEF IInv, Young, ReadAge, AnsweredAge
<1>4. StoredAge' /\ StoredShort' /\ ShownAge'
  BY DEF IInv, StoredAge, StoredShort, ShownAge
<1> QED  BY <1>2, <1>3, <1>4 DEF IInv

\* A query begins, with no list and no age.
LEMMA OpenStep == ASSUME IInv, NEW p \in Phone, Open(p) PROVE IInv'
<1>1. /\ pc' = [pc EXCEPT ![p] = "get"] /\ job' = [job EXCEPT ![p] = Nothing]
      /\ UNCHANGED <<db, cache, home>> /\ reads' \in Nat /\ failures' \in Nat
      /\ "get" \in Stage
  BY DEF Open, IInv, TypeOK, Stage
<1>2. Nothing \in Held /\ Nothing.age <= MaxDelay
  BY NothingHeld, LeaderboardAssumption
<1> QED  BY <1>1, <1>2, CarryStep

\* A request that fails carries nothing any more.
LEMMA FailStep == ASSUME IInv, NEW p \in Phone, Fail(p) PROVE IInv'
<1>1. failures' \in Nat  BY DEF Fail, IInv, TypeOK
<1> QED  BY <1>1, CarryStep, NothingHeld DEF Fail, Goto, IInv, TypeOK, Stage

LEMMA CollectStep == ASSUME IInv, NEW p \in Phone, Collect(p) PROVE IInv'
<1>1. TypeOK'  BY NothingHeld DEF Collect, IInv, TypeOK
<1>2. Young' /\ ReadAge' /\ StoredAge' /\ StoredShort' /\ AnsweredAge'
  BY DEF Collect, IInv, Young, ReadAge, StoredAge, StoredShort, AnsweredAge
<1>3. ShownAge'
  BY NothingHeld DEF Collect, IInv, TypeOK, ShownAge
<1> QED  BY <1>1, <1>2, <1>3 DEF IInv

\* The screen displays what was answered, from now on.
LEMMA ReceiveStep == ASSUME IInv, NEW p \in Phone, Receive(p) PROVE IInv'
<1> DEFINE new == [job[p] EXCEPT !.age = 0]
<1>1. job[p] \in Held /\ job[p].old \in Nat /\ job[p].age \in Nat
  BY DEF IInv, TypeOK, Held
<1>2. new \in Held /\ new.age = 0 /\ new.old = job[p].old
  BY <1>1 DEF Held
<1>3. /\ pc' = [pc EXCEPT ![p] = "idle"] /\ job' = [job EXCEPT ![p] = Nothing]
      /\ home' = [home EXCEPT ![p] = new]
      /\ pc[p] = "reply" /\ UNCHANGED <<db, cache, reads, failures>>
  BY DEF Receive
<1> HIDE DEF new
<1>4. TypeOK'
  BY <1>2, <1>3, NothingHeld DEF IInv, TypeOK, Stage
<1>5. Young' /\ ReadAge' /\ StoredAge' /\ StoredShort' /\ AnsweredAge'
  BY <1>3 DEF IInv, TypeOK, Young, ReadAge, StoredAge, StoredShort, AnsweredAge
<1>6. new.old <= LEADERBOARD_TTL + 2 * MaxDelay
  <2>1. job[p].age <= MaxDelay /\ job[p].old <= job[p].age + LEADERBOARD_TTL + MaxDelay
    BY <1>3 DEF IInv, Young, AnsweredAge
  <2> QED  BY <1>1, <1>2, <2>1, LeaderboardAssumption
<1>7. ShownAge'
  <2> SUFFICES ASSUME NEW q \in Phone, home'[q].there, home'[q].age < CACHE_WINDOW
               PROVE  home'[q].old <= home'[q].age + LEADERBOARD_TTL + 2 * MaxDelay
    BY DEF ShownAge
  <2>1. CASE q = p
    <3>1. home'[q] = new  BY <1>3, <2>1 DEF IInv, TypeOK
    <3> QED  BY <3>1, <1>1, <1>2, <1>6, LeaderboardAssumption
  <2>2. CASE q # p
    <3>1. home'[q] = home[q]  BY <1>3, <2>2 DEF IInv, TypeOK
    <3> QED  BY <3>1 DEF IInv, ShownAge
  <2> QED  BY <2>1, <2>2
<1> QED  BY <1>4, <1>5, <1>7 DEF IInv

\* A hit carries the stored list on, a miss nothing.
LEMMA GetStep == ASSUME IInv, NEW p \in Phone, Get(p) PROVE IInv'
<1>1. /\ job[p] \in Held /\ job[p].age \in Nat /\ job[p].age <= MaxDelay
      /\ cache \in Held /\ cache.old \in Nat /\ cache.age \in Nat
  BY DEF Get, IInv, TypeOK, Held, Young
<1>2. CASE cache.there /\ Valid(cache.board)
  <2> DEFINE new == [cache EXCEPT !.age = job[p].age]
  <2>1. new \in Held /\ new.age = job[p].age /\ new.old = cache.old
    BY <1>1 DEF Held
  <2>2. /\ pc' = [pc EXCEPT ![p] = "reply"] /\ job' = [job EXCEPT ![p] = new]
        /\ UNCHANGED <<db, cache, home, reads, failures>>
    BY <1>2 DEF Get, Goto
  <2> HIDE DEF new
  <2>3. new.old <= new.age + LEADERBOARD_TTL + MaxDelay
    <3>1. cache.old <= cache.age + MaxDelay /\ cache.age < LEADERBOARD_TTL
      BY <1>2 DEF IInv, StoredAge, StoredShort
    <3> QED  BY <1>1, <2>1, <3>1, LeaderboardAssumption
  <2>4. "reply" \in Stage /\ reads' \in Nat /\ failures' \in Nat
    BY <2>2 DEF Stage, IInv, TypeOK
  <2> QED  BY <1>1, <2>1, <2>2, <2>3, <2>4, CarryStep
<1>3. CASE ~(cache.there /\ Valid(cache.board))
  <2>1. /\ pc' = [pc EXCEPT ![p] = "query"] /\ job' = job
        /\ UNCHANGED <<db, cache, home, reads, failures>>
    BY <1>3 DEF Get, Goto
  <2>2. job' = [job EXCEPT ![p] = job[p]]  BY <2>1 DEF IInv, TypeOK
  <2>3. "query" \in Stage /\ reads' \in Nat /\ failures' \in Nat
    BY <2>1 DEF Stage, IInv, TypeOK
  <2> QED  BY <1>1, <2>1, <2>2, <2>3, CarryStep
<1> QED  BY <1>2, <1>3

\* The SELECT returns the true list.
LEMMA QueryStep == ASSUME IInv, NEW p \in Phone, Query(p) PROVE IInv'
<1>1. PICK b \in Boards(db) :
        job' = [job EXCEPT ![p] = [there |-> TRUE, board |-> b, old |-> 0, age |-> @.age]]
  BY DEF Query
<1>2. job[p] \in Held /\ job[p].age \in Nat /\ job[p].age <= MaxDelay
  BY DEF Query, IInv, TypeOK, Held, Young
<1> DEFINE new == [there |-> TRUE, board |-> b, old |-> 0, age |-> job[p].age]
<1>3. b \in Board  BY BoardsAreBoards DEF IInv, TypeOK
<1>4. new \in Held /\ new.age = job[p].age /\ new.old = 0
  BY <1>2, <1>3 DEF Held
<1>5. /\ pc' = [pc EXCEPT ![p] = "set"] /\ job' = [job EXCEPT ![p] = new]
      /\ UNCHANGED <<db, cache, home, failures>> /\ reads' = reads + 1
  BY <1>1 DEF Query, Goto, IInv, TypeOK
<1>6. "set" \in Stage /\ reads' \in Nat /\ failures' \in Nat
  BY <1>5 DEF Stage, IInv, TypeOK
<1> HIDE DEF new
<1>7. new.old <= new.age  BY <1>2, <1>4
<1> QED  BY <1>2, <1>4, <1>5, <1>6, <1>7, CarryStep

\* What is answered after a SELECT, stored or not.
LEMMA ReplyStep ==
  ASSUME IInv, NEW p \in Phone, pc[p] = "set", Goto(p, "reply"), job' = job,
         UNCHANGED <<db, cache, home, reads>>, failures' \in Nat
  PROVE  IInv'
<1>1. /\ job[p] \in Held /\ job[p].age \in Nat /\ job[p].old \in Nat
      /\ job[p].age <= MaxDelay /\ job[p].old <= job[p].age
  BY DEF IInv, TypeOK, Held, Young, ReadAge
<1>2. job' = [job EXCEPT ![p] = job[p]] /\ "reply" \in Stage /\ reads' \in Nat
  BY DEF IInv, TypeOK, Stage
<1>3. job[p].old <= job[p].age + LEADERBOARD_TTL + MaxDelay
  BY <1>1, LeaderboardAssumption
<1> QED  BY <1>1, <1>2, <1>3, CarryStep DEF Goto

LEMMA SetFailsStep == ASSUME IInv, NEW p \in Phone, SetFails(p) PROVE IInv'
<1>1. failures' \in Nat  BY DEF SetFails, IInv, TypeOK
<1> QED  BY <1>1, ReplyStep DEF SetFails

\* SET stores a list that is as old as its request, with a new key.
LEMMA SetStep == ASSUME IInv, NEW p \in Phone, Set(p) PROVE IInv'
<1> DEFINE new == [job[p] EXCEPT !.age = 0]
<1>1. /\ job[p] \in Held /\ job[p].age \in Nat /\ job[p].old \in Nat
      /\ job[p].age <= MaxDelay /\ job[p].old <= job[p].age
  BY DEF Set, IInv, TypeOK, Held, Young, ReadAge
<1>2. new \in Held /\ new.age = 0 /\ new.old = job[p].old
  BY <1>1 DEF Held
<1>3. /\ cache' = new /\ pc' = [pc EXCEPT ![p] = "reply"]
      /\ UNCHANGED <<db, job, home, reads, failures>> /\ pc[p] = "set"
  BY DEF Set, Goto
<1> HIDE DEF new
<1>4. TypeOK'
  BY <1>2, <1>3 DEF IInv, TypeOK, Stage
<1>5. StoredAge' /\ StoredShort'
  <2>1. new.old <= new.age + MaxDelay /\ new.age < LEADERBOARD_TTL
    BY <1>1, <1>2, LeaderboardAssumption
  <2> QED  BY <1>3, <2>1 DEF StoredAge, StoredShort
<1>6. Young' /\ ReadAge'
  BY <1>1, <1>3 DEF IInv, TypeOK, Young, ReadAge
<1>7. AnsweredAge'
  <2>1. job[p].old <= job[p].age + LEADERBOARD_TTL + MaxDelay
    BY <1>1, LeaderboardAssumption
  <2> QED  BY <1>3, <2>1 DEF IInv, TypeOK, AnsweredAge
<1>8. ShownAge'
  BY <1>3 DEF IInv, ShownAge
<1> QED  BY <1>4, <1>5, <1>6, <1>7, <1>8 DEF IInv

------------------------------------------------------------------------------
\* Time goes on: a key that lives on is younger than its time to live, a request
\* younger than MaxDelay, and a list on a screen grows old with its query.
LEMMA TickStep == ASSUME IInv, Tick PROVE IInv'
<1> DEFINE aged == Later(cache)
           gone == cache.there /\ aged.age >= LEADERBOARD_TTL
<1>1. /\ cache' = IF gone THEN Nothing ELSE aged
      /\ reads' = IF gone THEN 0 ELSE reads
      /\ db' = db /\ pc' = pc /\ failures' = failures
  BY Zenon DEF Tick
<1>2. job' = [p \in Phone |->
         IF pc[p] = "idle" THEN Nothing ELSE [Later(job[p]) EXCEPT !.age = job[p].age + 1]]
  BY DEF Tick
<1>3. home' = [p \in Phone |->
         IF home[p].age >= CACHE_WINDOW THEN Under(db, home[p]) ELSE Later(home[p])]
  BY DEF Tick
<1>4. \A p \in Phone : pc[p] # "idle" => job[p].age < MaxDelay
  BY DEF Tick
<1>5. /\ cache \in Held /\ cache.age \in Nat /\ cache.old \in Nat
      /\ aged \in Held /\ aged.there = cache.there /\ aged.board = cache.board
      /\ cache.there => aged.age = cache.age + 1
      /\ aged.old <= cache.old + 1 /\ aged.old \in Nat /\ aged.age \in Nat
  <2>1. cache \in Held  BY DEF IInv, TypeOK
  <2>2. aged \in Held  BY <2>1, LaterHeld
  <2>3. \A held \in Held : held.old \in Nat /\ held.age \in Nat  BY DEF Held
  <2> QED  BY <2>1, <2>2, <2>3, LaterHeld
<1> HIDE DEF aged
<1>6. ASSUME NEW p \in Phone, pc[p] # "idle"
      PROVE  /\ job'[p] \in Held /\ job'[p].age = job[p].age + 1
             /\ job'[p].old <= job[p].old + 1 /\ job'[p].old \in Nat
             /\ job[p].old \in Nat /\ job[p].age \in Nat
  <2> DEFINE held == Later(job[p])
  <2>1. job[p] \in Held /\ job[p].age \in Nat /\ job[p].old \in Nat
    BY DEF IInv, TypeOK, Held
  <2>2. held \in Held /\ held.old <= job[p].old + 1
    BY <2>1, LaterHeld
  <2>3. job'[p] = [held EXCEPT !.age = job[p].age + 1]
    BY <1>2, <1>6
  <2> HIDE DEF held
  <2>4. job'[p] = [there |-> held.there, board |-> held.board,
                   old |-> held.old, age |-> job[p].age + 1]
        /\ held.there \in BOOLEAN /\ held.board \in Board /\ held.old \in Nat
    BY <2>2, <2>3 DEF Held
  <2> QED  BY <2>1, <2>2, <2>4 DEF Held
<1>7. ASSUME NEW p \in Phone
      PROVE  /\ home[p] \in Held /\ home'[p] \in Held
             /\ home[p].age \in Nat /\ home[p].old \in Nat
             /\ home'[p].age \in Nat /\ home'[p].old \in Nat
             /\ home'[p].there = home[p].there
             /\ home[p].age >= CACHE_WINDOW => home'[p].age = home[p].age
             /\ home[p].there /\ home[p].age < CACHE_WINDOW =>
                  home'[p].age = home[p].age + 1 /\ home'[p].old <= home[p].old + 1
  <2>1. home[p] \in Held  BY DEF IInv, TypeOK
  <2>2. \A held \in Held : held.old \in Nat /\ held.age \in Nat  BY DEF Held
  <2>3. CASE home[p].age >= CACHE_WINDOW
    <3>1. home'[p] = Under(db, home[p])  BY <1>3, <2>3
    <3>2. home'[p] \in Held /\ home'[p].there = home[p].there /\ home'[p].age = home[p].age
      BY <2>1, <3>1, UnderHeld
    <3> QED  BY <2>1, <2>2, <2>3, <3>2, LeaderboardAssumption
  <2>4. CASE ~(home[p].age >= CACHE_WINDOW)
    <3>1. home'[p] = Later(home[p])  BY <1>3, <2>4
    <3> QED  BY <2>1, <2>2, <2>4, <3>1, LaterHeld
  <2> QED  BY <2>3, <2>4
<1>8. TypeOK'
  <2>1. cache' \in Held  BY <1>1, <1>5, NothingHeld
  <2>2. job' \in [Phone -> Held]
    <3>1. \A p \in Phone : job'[p] \in Held
      BY <1>2, <1>6, NothingHeld
    <3> QED  BY <1>2, <3>1
  <2>3. home' \in [Phone -> Held]
    BY <1>3, <1>7
  <2>4. reads' \in Nat  BY <1>1 DEF IInv, TypeOK
  <2> QED  BY <1>1, <2>1, <2>2, <2>3, <2>4 DEF IInv, TypeOK
<1>9. StoredAge' /\ StoredShort'
  <2>1. CASE gone
    BY <1>1, <2>1, NothingHeld DEF StoredAge, StoredShort
  <2>2. CASE ~gone
    <3>1. cache' = aged  BY <1>1, <2>2
    <3>2. cache.there => aged.age < LEADERBOARD_TTL
      BY <2>2, <1>5, LeaderboardAssumption
    <3>3. cache.there /\ Valid(cache.board) => aged.old <= aged.age + MaxDelay
      BY <1>5, LeaderboardAssumption DEF IInv, StoredAge
    <3> QED  BY <1>5, <3>1, <3>2, <3>3 DEF StoredAge, StoredShort
  <2> QED  BY <2>1, <2>2
<1>10. Young'
  BY <1>1, <1>4, <1>6, LeaderboardAssumption DEF Young
<1>11. ReadAge' /\ AnsweredAge'
  <2> SUFFICES ASSUME NEW p \in Phone
               PROVE  /\ pc[p] = "set" => job'[p].old <= job'[p].age
                      /\ pc[p] = "reply" =>
                           job'[p].old <= job'[p].age + LEADERBOARD_TTL + MaxDelay
    BY <1>1 DEF ReadAge, AnsweredAge
  <2>1. CASE pc[p] = "set"
    BY <1>6, <2>1 DEF IInv, ReadAge
  <2>2. CASE pc[p] = "reply"
    BY <1>6, <2>2, LeaderboardAssumption DEF IInv, AnsweredAge
  <2> QED  BY <2>1, <2>2
<1>12. ShownAge'
  <2> SUFFICES ASSUME NEW p \in Phone, home'[p].there, home'[p].age < CACHE_WINDOW
               PROVE  home'[p].old <= home'[p].age + LEADERBOARD_TTL + 2 * MaxDelay
    BY DEF ShownAge
  <2>1. home[p].there /\ home[p].age < CACHE_WINDOW
    BY <1>7, LeaderboardAssumption
  <2> QED  BY <1>7, <2>1, LeaderboardAssumption DEF IInv, ShownAge
<1> QED  BY <1>8, <1>9, <1>10, <1>11, <1>12 DEF IInv

LEMMA Stuttering == ASSUME IInv, UNCHANGED vars PROVE IInv'
  BY DEF vars, IInv, TypeOK, Young, ReadAge, StoredAge, StoredShort, AnsweredAge, ShownAge

LEMMA StepInv == ASSUME IInv, [Next]_vars PROVE IInv'
<1>1. ASSUME NEW e \in Experience, NEW row \in Row, Change(e, row) PROVE IInv'
  BY <1>1, ChangeStep
<1>2. ASSUME NEW p \in Phone, Open(p) \/ Collect(p) \/ SetFails(p) \/ Fail(p) PROVE IInv'
  BY <1>2, OpenStep, CollectStep, SetFailsStep, FailStep
<1>3. ASSUME NEW p \in Phone, Serve(p) PROVE IInv'
  BY <1>3, GetStep, QueryStep, SetStep, ReceiveStep DEF Serve
<1>4. CASE Tick  BY <1>4, TickStep
<1>5. CASE UNCHANGED vars  BY <1>5, Stuttering
<1> QED  BY <1>1, <1>2, <1>3, <1>4, <1>5 DEF Next

\* Every reachable state is well typed, fairness or not.
THEOREM TypeCorrect == FairSpec => []TypeOK
<1>1. IInv => TypeOK  BY DEF IInv
<1> QED  BY <1>1, InitInv, StepInv, PTL DEF FairSpec

\* leaderboard.ts writeToCache and HomeScreen.tsx: a stored list is out of date by
\* its key's age and one request's time at most, and a displayed one by the time
\* to live, the window of the phone and the time of two requests.
THEOREM ListsAreRecent == FairSpec => []StaleBound
<1>1. IInv => StaleBound  BY DEF IInv, StoredAge, ShownAge, StaleBound
<1> QED  BY <1>1, InitInv, StepInv, PTL DEF FairSpec
------------------------------------------------------------------------------
(* How often the table is read.  While the key is not usable a SELECT is     *)
(* still in the hands of a phone, or is one of the failures; once it is, no  *)
(* phone will query that is not about to.                                    *)

Count(f, stage) == Cardinality({p \in Phone : f[p] = stage})
Usable == cache.there /\ Valid(cache.board)

\* What is about to be stored is valid.
ReadLists == \A p \in Phone : pc[p] = "set" => job[p].there /\ Valid(job[p].board)

ReadsInv ==
  IF Usable THEN reads + Count(pc, "query") <= Cardinality(Phone) + failures
  ELSE reads <= Count(pc, "set") + failures

LEMMA Counts ==
  ASSUME NEW f \in [Phone -> Stage]
  PROVE  /\ Cardinality(Phone) \in Nat
         /\ \A s \in Stage : Count(f, s) \in Nat
         /\ Count(f, "query") + Count(f, "set") <= Cardinality(Phone)
<1> DEFINE In(s) == {p \in Phone : f[p] = s}
<1>1. IsFiniteSet(Phone)  BY LeaderboardAssumption
<1>2. \A s : IsFiniteSet(In(s))
  <2>1. \A s : In(s) \in SUBSET Phone  OBVIOUS
  <2> QED  BY <1>1, <2>1, FS_Subset, Zenon
<1>3. \A s : Cardinality(In(s)) \in Nat  BY <1>2, FS_CardinalityType, Zenon
<1>4. Cardinality(In("query") \cup In("set"))
        = Cardinality(In("query")) + Cardinality(In("set"))
            - Cardinality(In("query") \cap In("set"))
      /\ IsFiniteSet(In("query") \cup In("set"))
  BY <1>2, FS_Union, Zenon
<1>5. Cardinality(In("query") \cap In("set")) = 0
  <2>1. In("query") \cap In("set") = {}  OBVIOUS
  <2> QED  BY <2>1, FS_EmptySet, Zenon
<1>6. Cardinality(In("query") \cup In("set")) <= Cardinality(Phone)
  <2>1. In("query") \cup In("set") \in SUBSET Phone  OBVIOUS
  <2> QED  BY <1>1, <2>1, FS_Subset, Zenon
<1>7. Cardinality(Phone) \in Nat  BY <1>1, FS_CardinalityType, Zenon
<1>8. \A s : Count(f, s) = Cardinality(In(s))  BY Zenon DEF Count
<1> HIDE DEF In
<1> QED  BY <1>3, <1>4, <1>5, <1>6, <1>7, <1>8

\* A phone that moves on is one less where it was, and one more where it is.
LEMMA Moves ==
  ASSUME NEW f \in [Phone -> Stage], NEW p \in Phone, NEW stage \in Stage, f[p] # stage,
         NEW g \in [Phone -> Stage], g[p] = stage, \A q \in Phone \ {p} : g[q] = f[q]
  PROVE  /\ Count(g, f[p]) = Count(f, f[p]) - 1
         /\ Count(g, stage) = Count(f, stage) + 1
         /\ \A s \in Stage \ {f[p], stage} : Count(g, s) = Count(f, s)
<1> DEFINE In(h, s) == {q \in Phone : h[q] = s}
<1>1. IsFiniteSet(In(f, f[p])) /\ IsFiniteSet(In(f, stage))
  <2>1. In(f, f[p]) \in SUBSET Phone /\ In(f, stage) \in SUBSET Phone  OBVIOUS
  <2> QED  BY <2>1, LeaderboardAssumption, FS_Subset, Zenon
<1>2. In(g, f[p]) = In(f, f[p]) \ {p} /\ p \in In(f, f[p])  OBVIOUS
<1>3. In(g, stage) = In(f, stage) \cup {p} /\ p \notin In(f, stage)  OBVIOUS
<1>4. \A s \in Stage \ {f[p], stage} : In(g, s) = In(f, s)  OBVIOUS
<1>5. \A h, s : Count(h, s) = Cardinality(In(h, s))  BY Zenon DEF Count
<1>6. Cardinality(In(f, f[p]) \ {p}) = Cardinality(In(f, f[p])) - 1
  BY <1>1, <1>2, FS_RemoveElement
<1>7. Cardinality(In(f, stage) \cup {p}) = Cardinality(In(f, stage)) + 1
  BY <1>1, <1>3, FS_AddElement
<1> HIDE DEF In
<1> QED  BY <1>2, <1>3, <1>4, <1>5, <1>6, <1>7

\* What readFromDb returns passes validatePayload.
LEMMA BoardsAreValid ==
  ASSUME NEW d \in [Experience -> Row], NEW b \in Boards(d)
  PROVE  Valid(b)
<1> DEFINE all   == {EntryOf(d, e) : e \in Ranked(d)}
           count == IF Cardinality(all) < LEADERBOARD_LIMIT
                    THEN Cardinality(all) ELSE LEADERBOARD_LIMIT
<1>1. b \in [1 .. count -> all]  BY Zenon DEF Boards
<1>2. Cardinality(all) \in Nat
  <2>1. Ranked(d) \subseteq Experience  BY DEF Ranked
  <2>2. IsFiniteSet(Ranked(d))  BY <2>1, LeaderboardAssumption, FS_Subset, Zenon
  <2> DEFINE of == [e \in Ranked(d) |-> EntryOf(d, e)]
  <2>3. of \in Surjection(Ranked(d), all)  BY DEF Surjection
  <2>4. IsFiniteSet(all)  BY <2>2, <2>3, FS_Surjection, Zenon
  <2> QED  BY <2>4, FS_CardinalityType, Zenon
<1>3. count \in Nat /\ count <= LEADERBOARD_LIMIT  BY <1>2, LeaderboardAssumption
<1>4. \A a \in all : a.mean \in 10 .. 100 /\ a.count >= LEADERBOARD_MIN_COUNT
  BY LeaderboardAssumption DEF EntryOf, Ranked
<1> HIDE DEF all, count
<1>5. Len(b) = count  BY <1>1, <1>3
<1> QED  BY <1>1, <1>3, <1>4, <1>5 DEF Valid

LEMMA InitReads == Init => ReadLists /\ ReadsInv
<1> SUFFICES ASSUME Init PROVE ReadLists /\ ReadsInv  OBVIOUS
<1>1. ReadLists  BY DEF Init, ReadLists
<1>2. ~Usable
  <2>1. ~Nothing.there  BY DEF Nothing
  <2>2. ASSUME NEW e \in Experience PROVE ~Valid(<<[exp |-> e, mean |-> 0, count |-> 0]>>)
    <3>1. PICK b : b = <<[exp |-> e, mean |-> 0, count |-> 0]>>  OBVIOUS
    <3>2. 1 \in 1 .. Len(b) /\ b[1].mean = 0  BY <3>1
    <3>3. b[1].mean \notin 10 .. 100  BY <3>2
    <3>4. ~Valid(b)  BY <3>2, <3>3, Zenon DEF Valid
    <3> QED  BY <3>1, <3>4
  <2> QED  BY <2>1, <2>2 DEF Init, Usable, Foreign
<1>3. 0 <= Count(pc, "set")  BY Counts DEF Init, Stage
<1> QED  BY <1>1, <1>2, <1>3, Counts DEF Init, ReadsInv, Stage

\* Steps that leave every phone where it is.
LEMMA StandStill ==
  ASSUME TypeOK, ReadLists, ReadsInv, pc' = pc, failures' = failures,
         \/ reads' = reads /\ cache'.there = cache.there /\ cache'.board = cache.board
         \/ reads' = 0 /\ ~cache'.there,
         \A p \in Phone : pc[p] = "set" =>
           job'[p].there = job[p].there /\ job'[p].board = job[p].board
  PROVE  ReadLists' /\ ReadsInv'
<1>1. ReadLists'  BY DEF ReadLists
<1>2. Count(pc, "set") \in Nat /\ failures \in Nat  BY Counts DEF TypeOK, Stage
<1>3. ReadsInv'
  <2>1. CASE reads' = reads /\ cache'.there = cache.there /\ cache'.board = cache.board
    BY <2>1 DEF ReadsInv, Usable
  <2>2. CASE reads' = 0 /\ ~cache'.there
    BY <1>2, <2>2 DEF ReadsInv, Usable
  <2> QED  BY <2>1, <2>2
<1> QED  BY <1>1, <1>3

\* Among those that query, and those that have queried.
LEMMA Deltas ==
  ASSUME NEW f \in [Phone -> Stage], NEW p \in Phone, NEW stage \in Stage, f[p] # stage,
         NEW g \in [Phone -> Stage], g[p] = stage, \A q \in Phone \ {p} : g[q] = f[q],
         NEW s \in {"query", "set"}
  PROVE  /\ Count(f, s) \in Nat /\ Count(g, s) \in Nat
         /\ stage = s => Count(g, s) = Count(f, s) + 1
         /\ f[p] = s => Count(g, s) = Count(f, s) - 1
         /\ stage # s /\ f[p] # s => Count(g, s) = Count(f, s)
<1>1. /\ Count(g, f[p]) = Count(f, f[p]) - 1
      /\ Count(g, stage) = Count(f, stage) + 1
      /\ \A t \in Stage \ {f[p], stage} : Count(g, t) = Count(f, t)
  BY Moves
<1>2. s \in Stage  BY DEF Stage
<1>3. Count(f, s) \in Nat /\ Count(g, s) \in Nat  BY <1>1, <1>2, Counts
<1> QED  BY <1>1, <1>2, <1>3

\* A phone that moves on.
LEMMA MoveOn ==
  ASSUME TypeOK, ReadLists, NEW p \in Phone, NEW stage \in Stage, pc[p] # stage,
         Goto(p, stage), \A q \in Phone \ {p} : job'[q] = job[q],
         stage = "set" => job'[p].there /\ Valid(job'[p].board)
  PROVE  /\ ReadLists'
         /\ reads \in Nat /\ failures \in Nat /\ Cardinality(Phone) \in Nat
         /\ \A s \in {"query", "set"} :
              /\ Count(pc, s) \in Nat /\ Count(pc', s) \in Nat
              /\ stage = s => Count(pc', s) = Count(pc, s) + 1
              /\ pc[p] = s => Count(pc', s) = Count(pc, s) - 1
              /\ stage # s /\ pc[p] # s => Count(pc', s) = Count(pc, s)
         /\ Count(pc, "query") + Count(pc, "set") <= Cardinality(Phone)
<1>1. pc \in [Phone -> Stage] /\ reads \in Nat /\ failures \in Nat  BY DEF TypeOK
<1>2. pc' = [pc EXCEPT ![p] = stage]  BY DEF Goto
<1>3. PICK g : g = pc'  OBVIOUS
<1>4. g \in [Phone -> Stage] /\ g[p] = stage /\ \A q \in Phone \ {p} : g[q] = pc[q]
  BY <1>1, <1>2, <1>3
<1>5. \A s \in {"query", "set"} :
        /\ Count(pc, s) \in Nat /\ Count(g, s) \in Nat
        /\ stage = s => Count(g, s) = Count(pc, s) + 1
        /\ pc[p] = s => Count(g, s) = Count(pc, s) - 1
        /\ stage # s /\ pc[p] # s => Count(g, s) = Count(pc, s)
  BY <1>1, <1>4, Deltas
<1>6. /\ Cardinality(Phone) \in Nat
      /\ Count(pc, "query") + Count(pc, "set") <= Cardinality(Phone)
  BY <1>1, Counts
<1>7. ReadLists'  BY <1>1, <1>2 DEF ReadLists
<1> QED  BY <1>1, <1>3, <1>5, <1>6, <1>7

\* A phone that asks, hits the key, or has been answered.
LEMMA IdleReads ==
  ASSUME TypeOK, ReadLists, ReadsInv, NEW p \in Phone, NEW stage \in {"get", "reply", "idle"},
         pc[p] \in {"idle", "get", "reply"}, pc[p] # stage, Goto(p, stage),
         \A q \in Phone \ {p} : job'[q] = job[q], UNCHANGED <<cache, reads>>,
         failures' \in Nat, failures' >= failures
  PROVE  ReadLists' /\ ReadsInv'
<1>1. stage \in Stage /\ stage # "set"  BY DEF Stage
<1>2. /\ ReadLists' /\ reads \in Nat /\ failures \in Nat /\ Cardinality(Phone) \in Nat
      /\ \A s \in {"query", "set"} : Count(pc, s) \in Nat /\ Count(pc', s) = Count(pc, s)
  BY <1>1, MoveOn
<1>3. Usable' = Usable  BY DEF Usable
<1> QED  BY <1>2, <1>3 DEF ReadsInv

LEMMA GetReads ==
  ASSUME TypeOK, ReadLists, ReadsInv, NEW p \in Phone, Get(p) PROVE ReadLists' /\ ReadsInv'
<1>1. /\ pc[p] = "get" /\ UNCHANGED <<cache, reads, failures>>
      /\ job' = job \/ \E held : job' = [job EXCEPT ![p] = held]
  BY DEF Get
<1>2. \A q \in Phone \ {p} : job'[q] = job[q]  BY <1>1 DEF TypeOK
<1>3. CASE Usable
  <2>1. Goto(p, "reply")  BY <1>3 DEF Get, Usable
  <2>2. failures' \in Nat /\ failures' >= failures  BY <1>1 DEF TypeOK
  <2> QED  BY <1>1, <1>2, <2>1, <2>2, IdleReads
<1>4. CASE ~Usable
  <2>1. Goto(p, "query") /\ "query" \in Stage  BY <1>4 DEF Get, Usable, Stage
  <2>2. /\ ReadLists' /\ reads \in Nat /\ failures \in Nat
        /\ Count(pc, "set") \in Nat /\ Count(pc', "set") = Count(pc, "set")
    BY <1>1, <1>2, <2>1, MoveOn
  <2>3. ~Usable'  BY <1>1, <1>4 DEF Usable
  <2> QED  BY <1>1, <1>4, <2>2, <2>3 DEF ReadsInv
<1> QED  BY <1>3, <1>4

LEMMA QueryReads ==
  ASSUME TypeOK, ReadLists, ReadsInv, NEW p \in Phone, Query(p) PROVE ReadLists' /\ ReadsInv'
<1>1. PICK b \in Boards(db) :
        job' = [job EXCEPT ![p] = [there |-> TRUE, board |-> b, old |-> 0, age |-> @.age]]
  BY DEF Query
<1>2. job'[p].there /\ job'[p].board = b /\ \A q \in Phone \ {p} : job'[q] = job[q]
  BY <1>1 DEF TypeOK
<1>3. Valid(b)  BY BoardsAreValid DEF TypeOK
<1>4. /\ pc[p] = "query" /\ Goto(p, "set") /\ reads' = reads + 1
      /\ UNCHANGED <<cache, failures>> /\ "set" \in Stage
  BY DEF Query, Stage
<1>5. /\ ReadLists' /\ reads \in Nat /\ failures \in Nat /\ Cardinality(Phone) \in Nat
      /\ Count(pc, "set") \in Nat /\ Count(pc', "set") = Count(pc, "set") + 1
      /\ Count(pc, "query") \in Nat /\ Count(pc', "query") = Count(pc, "query") - 1
  BY <1>2, <1>3, <1>4, MoveOn
<1>6. Usable' = Usable  BY <1>4 DEF Usable
<1> QED  BY <1>4, <1>5, <1>6 DEF ReadsInv

LEMMA SetReads ==
  ASSUME TypeOK, ReadLists, ReadsInv, NEW p \in Phone, Set(p) PROVE ReadLists' /\ ReadsInv'
<1>1. /\ pc[p] = "set" /\ Goto(p, "reply") /\ cache' = [job[p] EXCEPT !.age = 0]
      /\ UNCHANGED <<job, reads, failures>> /\ "reply" \in Stage
  BY DEF Set, Stage
<1>2. cache'.there = job[p].there /\ cache'.board = job[p].board
  BY <1>1 DEF TypeOK, Held
<1>3. Usable'  BY <1>1, <1>2 DEF ReadLists, Usable
<1>4. /\ ReadLists' /\ reads \in Nat /\ failures \in Nat /\ Cardinality(Phone) \in Nat
      /\ Count(pc, "set") \in Nat
      /\ Count(pc, "query") \in Nat /\ Count(pc', "query") = Count(pc, "query")
      /\ Count(pc, "query") + Count(pc, "set") <= Cardinality(Phone)
  BY <1>1, MoveOn
<1> QED  BY <1>1, <1>3, <1>4 DEF ReadsInv

\* A SELECT whose list is lost is one of the failures.
LEMMA LostReads ==
  ASSUME TypeOK, ReadLists, ReadsInv, NEW p \in Phone, SetFails(p) \/ Fail(p)
  PROVE  ReadLists' /\ ReadsInv'
<1>1. PICK stage \in {"reply", "idle"} : Goto(p, stage) /\ pc[p] # stage
  BY DEF SetFails, Fail
<1>2. /\ UNCHANGED <<cache, reads>> /\ failures' = failures + 1 /\ stage \in Stage
      /\ job' = job \/ job' = [job EXCEPT ![p] = Nothing]
  BY DEF SetFails, Fail, Stage
<1>3. \A q \in Phone \ {p} : job'[q] = job[q]  BY <1>2 DEF TypeOK
<1>4. /\ ReadLists' /\ reads \in Nat /\ failures \in Nat /\ Cardinality(Phone) \in Nat
      /\ Count(pc, "set") \in Nat /\ Count(pc', "set") \in Nat
      /\ Count(pc, "query") \in Nat /\ Count(pc', "query") \in Nat
      /\ Count(pc', "set") >= Count(pc, "set") - 1
      /\ Count(pc', "query") <= Count(pc, "query")
  <2>1. /\ ReadLists' /\ reads \in Nat /\ failures \in Nat /\ Cardinality(Phone) \in Nat
        /\ \A s \in {"query", "set"} :
             /\ Count(pc, s) \in Nat /\ Count(pc', s) \in Nat
             /\ pc[p] = s => Count(pc', s) = Count(pc, s) - 1
             /\ stage # s /\ pc[p] # s => Count(pc', s) = Count(pc, s)
    BY <1>1, <1>2, <1>3, MoveOn
  <2> QED  BY <2>1
<1>5. Usable' = Usable  BY <1>2 DEF Usable
<1> QED  BY <1>2, <1>4, <1>5 DEF ReadsInv

LEMMA TickReads == ASSUME TypeOK, ReadLists, ReadsInv, Tick PROVE ReadLists' /\ ReadsInv'
<1> DEFINE aged == Later(cache)
           gone == cache.there /\ aged.age >= LEADERBOARD_TTL
<1>1. /\ cache' = IF gone THEN Nothing ELSE aged
      /\ reads' = IF gone THEN 0 ELSE reads
      /\ pc' = pc /\ failures' = failures
  BY Zenon DEF Tick
<1>2. aged.there = cache.there /\ aged.board = cache.board  BY LaterHeld DEF TypeOK
<1>3. \/ reads' = reads /\ cache'.there = cache.there /\ cache'.board = cache.board
      \/ reads' = 0 /\ ~cache'.there
  <2> HIDE DEF aged
  <2> QED  BY <1>1, <1>2, NothingHeld
<1>4. ASSUME NEW p \in Phone, pc[p] = "set"
      PROVE  job'[p].there = job[p].there /\ job'[p].board = job[p].board
  <2>1. PICK held : held = Later(job[p])  OBVIOUS
  <2>2. job'[p] = [held EXCEPT !.age = job[p].age + 1]  BY <1>4, <2>1 DEF Tick
  <2>3. job[p] \in Held  BY DEF TypeOK
  <2>4. held \in Held /\ held.there = job[p].there /\ held.board = job[p].board
    BY <2>1, <2>3, LaterHeld
  <2> QED  BY <2>2, <2>4 DEF Held
<1> QED  BY <1>1, <1>3, <1>4, StandStill

LEMMA ChangeReads ==
  ASSUME TypeOK, ReadLists, ReadsInv, NEW e \in Experience, NEW row \in Row, Change(e, row)
  PROVE  ReadLists' /\ ReadsInv'
<1>1. /\ cache' = Under(db', cache) /\ job' = [p \in Phone |-> Under(db', job[p])]
      /\ UNCHANGED <<pc, reads, failures>>
  BY DEF Change
<1>2. cache'.there = cache.there /\ cache'.board = cache.board
  BY <1>1, UnderHeld DEF TypeOK
<1>3. \A p \in Phone : job'[p].there = job[p].there /\ job'[p].board = job[p].board
  BY <1>1, UnderHeld DEF TypeOK
<1> QED  BY <1>1, <1>2, <1>3, StandStill

LEMMA StepReads == ASSUME TypeOK, ReadLists, ReadsInv, [Next]_vars PROVE ReadLists' /\ ReadsInv'
<1>1. ASSUME NEW e \in Experience, NEW row \in Row, Change(e, row)
      PROVE  ReadLists' /\ ReadsInv'
  BY <1>1, ChangeReads
<1>2. ASSUME NEW p \in Phone, Open(p) \/ Receive(p) PROVE ReadLists' /\ ReadsInv'
  <2>1. /\ UNCHANGED <<cache, reads, failures>> /\ job' = [job EXCEPT ![p] = Nothing]
        /\ \/ pc[p] = "idle" /\ Goto(p, "get")
           \/ pc[p] = "reply" /\ Goto(p, "idle")
    BY <1>2 DEF Open, Receive, Goto
  <2>2. \A q \in Phone \ {p} : job'[q] = job[q]  BY <2>1 DEF TypeOK
  <2>3. failures' \in Nat /\ failures' >= failures  BY <2>1 DEF TypeOK
  <2> QED  BY <2>1, <2>2, <2>3, IdleReads
<1>3. ASSUME NEW p \in Phone, Get(p) \/ Query(p) \/ Set(p) \/ SetFails(p) \/ Fail(p)
      PROVE  ReadLists' /\ ReadsInv'
  BY <1>3, GetReads, QueryReads, SetReads, LostReads
<1>4. CASE Tick  BY <1>4, TickReads
<1>5. CASE UNCHANGED vars \/ \E p \in Phone : Collect(p)
  BY <1>5, StandStill DEF Collect, vars
<1> QED  BY <1>1, <1>2, <1>3, <1>4, <1>5 DEF Next, Serve

\* leaderboard.ts getLeaderboard: between two expiries of the key the table is
\* read once for every phone that was waiting, and once for every failure.
THEOREM TableIsSpared == FairSpec => []ReadsBounded
<1>1. IInv => TypeOK  BY DEF IInv
<1>2. ASSUME TypeOK, ReadsInv PROVE ReadsBounded
  <2>1. /\ Cardinality(Phone) \in Nat /\ reads \in Nat /\ failures \in Nat
        /\ Count(pc, "query") \in Nat /\ Count(pc, "set") \in Nat
        /\ Count(pc, "query") + Count(pc, "set") <= Cardinality(Phone)
    BY <1>2, Counts DEF TypeOK, Stage
  <2> QED  BY <1>2, <2>1 DEF ReadsInv, ReadsBounded
<1>3. TypeOK /\ ReadLists /\ ReadsInv /\ [Next]_vars => ReadLists' /\ ReadsInv'
  BY StepReads
<1> QED  BY <1>1, <1>2, <1>3, InitInv, StepInv, InitReads, PTL DEF FairSpec
==============================================================================
