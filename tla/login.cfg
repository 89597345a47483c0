SPECIFICATION LoginSpec
CONSTANTS
  Email = {e1}
  Handler = {h1, h2}
  LOCKOUT_THRESHOLD = 2
  LOCKOUT_WINDOW = 3
  RATE_MAX = 3
  RATE_WINDOW = 3
  MaxDelay = 1
  MaxFaults = 1
  MaxTime = 5
SYMMETRY Symmetric
INVARIANT AccountIsWhole
INVARIANT FailuresLock
INVARIANT GuessesBounded
INVARIANT LockIsEarned
CHECK_DEADLOCK FALSE
