------------------------- MODULE AggregateReconcileMC -------------------------
(* Instances of AggregateReconcile for TLC.                                  *)
EXTENDS AggregateReconcile

Unrated == [row \in Row |-> NoRating]
==============================================================================
