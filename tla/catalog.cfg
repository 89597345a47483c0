SPECIFICATION Spec
CONSTANTS
  x1 = x1
  x2 = x2
  land = land
  area = area
  park = park
  kingdom = kingdom
  resort = resort
  NoPark = NoPark
  NoId = NoId
  MAX_PARENT_CHAIN_HOPS = 2
  Answers <- Answered
  Content <- Versions
  Detail <- Details
  Experience = {x1, x2}
  Absent = Absent
  Caller = {c1, c2}
  NoCaller = NoCaller
  MaxReleases = 3
SYMMETRY Symmetric
INVARIANT OneSyncPerKey
INVARIANT ParkIsNearest
PROPERTY PublishesReleases
PROPERTY SyncRepairs
