SPECIFICATION Spec
CONSTANTS
  x = x
  y = y
  MK = MK
  EP = EP
  ride = ride
  show = show
  west = west
  east = east
  Experience = {x, y}
  Park = {MK, EP}
  Category = {ride, show}
  Catalog <- Syncs
  Zone = {west, east}
  Offset <- HalfADay
  DAY = 2
  Handler = {h1, h2}
  Object = {o1, o2}
  Mime = {png, jpeg}
  All = All
  NoObject = NoObject
  MaxTime = 1
SYMMETRY Symmetric
INVARIANT AnswersAddUp
INVARIANT NoneInTheFuture
INVARIANT StatsOfOneInstant
INVARIANT AvatarIsStored
CHECK_DEADLOCK FALSE
