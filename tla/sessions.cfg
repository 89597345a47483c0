SPECIFICATION Spec
CONSTANTS
  Session = {s1}
  Handler = {h1, h2}
  SESSION_BURST_GAP = 5
  SESSION_BURST_DURATION = 6
  SESSION_IDLE_WINDOW = 7
  MaxDelay = 1
  MaxTime = 12
SYMMETRY Symmetric
INVARIANT LogoutIsFinal
INVARIANT ExpiryFollowsUse
INVARIANT ContinuousUseEnds
CHECK_DEADLOCK FALSE
