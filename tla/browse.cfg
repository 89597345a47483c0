SPECIFICATION BrowseSpec
CONSTANTS
  x = x
  y = y
  z = z
  ride = ride
  show = show
  Item = {x, y, z}
  Self = z
  Park = {1, 2}
  Category = {ride, show}
  All = All
  Choice <- Chips
  Text <- Texts
  Table <- Tables
  NameRank <- Place
  SEARCH_MAX_LENGTH = 1
  SEARCH_RESULT_CAP = 1
  MaxKeys = 2
INVARIANT ListIsOfFilters
CHECK_DEADLOCK FALSE
