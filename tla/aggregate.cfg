SPECIFICATION Spec
CONSTANTS
  User = {u1, u2, u3}
  Experience = {e1}
  Worker = {w1, w2}
  Value = {0, 4, 9}
  InitialRating <- Unrated
  OneAtATime = TRUE
  MaxFailures = 1
SYMMETRY UsersAndWorkers
INVARIANT AggregateExact
INVARIANT ChecksNeverFire
INVARIANT MeanIsNearestTenth
PROPERTY ImplementsBoard
CHECK_DEADLOCK FALSE
