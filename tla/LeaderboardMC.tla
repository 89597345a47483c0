---------------------------- MODULE LeaderboardMC ----------------------------
(* Instances of Leaderboard for TLC.                                         *)
EXTENDS Leaderboard, TLC

\* At the threshold, below it, and dropped from the catalog.
Rows == {[mean |-> 40, count |-> 3, active |-> TRUE],
         [mean |-> 40, count |-> 2, active |-> TRUE],
         [mean |-> 50, count |-> 4, active |-> FALSE]}
SameNames == [e \in Experience |-> 1]
==============================================================================
