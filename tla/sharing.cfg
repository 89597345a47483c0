SPECIFICATION Spec
CONSTANTS
  u1 = u1
  u2 = u2
  u3 = u3
  nobody = nobody
  User <- Users
  Id <- Ids
  Handler = {h1, h2}
  MAX_RECIPIENTS = 2
  MaxShares = 1
  MaxTime = 2
SYMMETRY Symmetric
INVARIANT AllOrNone
INVARIANT SharedAmongFriends
PROPERTY DeliverySettles
CHECK_DEADLOCK FALSE
