----------------------------- MODULE RatingBoard -----------------------------
(***************************************************************************)
(* What the aggregate rating promises: a published row per experience that *)
(* follows the ratings with a delay.  A rating changes at once; some time  *)
(* later, and before the same user changes it again, the change is         *)
(* reflected in the board, whose row is at every moment exactly what the   *)
(* reflected ratings add up to.  An experience may go adrift (an event is  *)
(* lost): from then on nothing is promised of its row.                     *)
(***************************************************************************)
EXTENDS MeanX10, FiniteSets

CONSTANTS User, Experience, Initial

Key == User \X Experience

VARIABLES
  rating,     \* what each user rates each experience, NoRating for nothing
  reflected,  \* the rating of each key that the board accounts for
  board,      \* the published row of each experience
  adrift      \* experiences whose row is no longer kept

boardVars == <<rating, reflected, board, adrift>>

Sum(r, e)   == Cardinality({p \in User \X Rating : p[2] <= r[<<p[1], e>>]})
Count(r, e) == Cardinality({u \in User : r[<<u, e>>] # NoRating})
Published(r, e) == RowOf(Sum(r, e), Count(r, e))

Init ==
  /\ rating = Initial
  /\ reflected = Initial
  /\ board = [e \in Experience |-> Published(Initial, e)]
  /\ adrift = {}

Change(key, value) ==
  /\ reflected[key] = rating[key]
  /\ rating' = [rating EXCEPT ![key] = value]
  /\ UNCHANGED <<reflected, board, adrift>>

Reflect(key) ==
  /\ key[2] \notin adrift
  /\ reflected' = [reflected EXCEPT ![key] = rating[key]]
  /\ board' = [board EXCEPT ![key[2]] = Published(reflected', key[2])]
  /\ UNCHANGED <<rating, adrift>>

\* The row of an experience adrift may become anything.
Drift(key) ==
  /\ adrift' = adrift \cup {key[2]}
  /\ reflected' = [reflected EXCEPT ![key] = rating[key]]
  /\ \A e \in Experience \ {key[2]} : board'[e] = board[e]
  /\ UNCHANGED rating

Next ==
  \E key \in Key :
    \/ \E value \in Rating0 : Change(key, value)
    \/ Reflect(key)
    \/ Drift(key)

Spec == Init /\ [][Next]_boardVars
==============================================================================
