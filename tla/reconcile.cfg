SPECIFICATION FairReconcileSpec
CONSTANTS
  User = {u1}
  Experience = {1}
  Worker = {w1, w2}
  Value = {0, 4}
  InitialRating <- Unrated
  BatchSize = 2
  Attempts = 2
  MaxQueued = 1
  OneAtATime = FALSE
  MaxFailures = 1
INVARIANT OverwriteIsCurrent
PROPERTY DriftRepaired
PROPERTY Answered
CHECK_DEADLOCK FALSE
