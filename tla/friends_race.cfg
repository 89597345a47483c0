SPECIFICATION Spec
CONSTANTS
  h1 = h1
  h2 = h2
  User <- TwoUsers
  Id <- TwoUsers
  Names <- Folded
  Handler <- TwoHandlers
  MaxRequests = 2
INVARIANT NoSecondPending
