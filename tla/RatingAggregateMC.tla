------------------------- MODULE RatingAggregateMC -------------------------
(* Instances of RatingAggregate for TLC.                                    *)
EXTENDS RatingAggregate, TLC

\* Nobody has rated anything.
Unrated == [row \in Row |-> NoRating]

UsersAndWorkers == Permutations(Worker) \cup Permutations(User)
==============================================================================
