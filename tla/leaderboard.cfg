SPECIFICATION FairSpec
CONSTANTS
  Experience = {x}
  Row <- Rows
  NameRank <- SameNames
  Phone = {p1, p2}
  LEADERBOARD_TTL = 2
  CACHE_WINDOW = 1
  LEADERBOARD_LIMIT = 1
  LEADERBOARD_MIN_COUNT = 3
  MaxDelay = 1
  MaxFailures = 1
INVARIANT StaleBound
INVARIANT ReadsBounded
PROPERTY Refreshed
CHECK_DEADLOCK FALSE
