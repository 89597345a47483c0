------------------------------- MODULE MeanX10 -------------------------------
(***************************************************************************)
(* The arithmetic of an aggregate rating: the pure functions of            *)
(* services/aggregate/updateMeanX10.ts.  A rating is an integer in         *)
(* 1..MaxRating; NoRating (0) is the source's `null`, the absence of a     *)
(* row.  A mean is stored times ten; NoMean (-1) is the `null` published   *)
(* while fewer than MIN_AGGREGATE_RATING_COUNT ratings contribute: a row   *)
(* whose rounded mean is negative has a negative sum and is rejected.      *)
(***************************************************************************)
EXTENDS Integers

NoRating == 0
NoMean   == -1

MaxRating == 10
Rating  == 1 .. MaxRating
Rating0 == Rating \cup {NoRating}

MIN_AGGREGATE_RATING_COUNT == 3

\* Mutant: the fraction is dropped.
RoundDown(num, den) == num \div den

\* Integer division rounded to nearest, halves away from zero; den > 0.
RoundHalfUp(num, den) ==
  LET magnitude == IF num < 0 THEN -num ELSE num
      quotient  == magnitude \div den
      rounded   == IF 2 * (magnitude - quotient * den) >= den
                   THEN quotient + 1 ELSE quotient
  IN  IF num < 0 THEN -rounded ELSE rounded

MeanOf(sum, count) ==
  IF count >= MIN_AGGREGATE_RATING_COUNT THEN RoundHalfUp(sum * 10, count)
                                         ELSE NoMean

\* How many rows a rating value stands for: `newValue !== null ? 1 : 0`.
Present(value) == IF value = NoRating THEN 0 ELSE 1

\* Mutant: a removed rating is still counted.
UpdateKeepingCount(prevSum, prevCount, old, new) ==
  LET sum   == prevSum + (new - old)
      count == prevCount + (IF old = NoRating THEN 1 ELSE 0)
  IN  [sum |-> sum, count |-> count, mean |-> MeanOf(sum, count)]

\* The aggregate row after the event RatingChanged{old, new}.
UpdateMeanX10(prevSum, prevCount, old, new) ==
  LET sum   == prevSum + (new - old)
      count == prevCount + (Present(new) - Present(old))
  IN  [sum |-> sum, count |-> count, mean |-> MeanOf(sum, count)]

\* The row's triple computed from the ratings table (recomputeFromScratch).
RowOf(sum, count) == [sum |-> sum, count |-> count, mean |-> MeanOf(sum, count)]

\* The CHECK constraints of table aggregate_ratings.
ChecksPass(row) ==
  /\ row.sum >= 0
  /\ row.count >= 0
  /\ row.mean # NoMean => row.mean \in 10 .. 100

EmptyRow == [sum |-> 0, count |-> 0, mean |-> NoMean]
==============================================================================
