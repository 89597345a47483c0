SPECIFICATION FairSpec
CONSTANTS
  h1 = h1
  h2 = h2
  User <- TwoUsers
  Id <- Spelled
  Names <- Folded
  Handler <- TwoHandlers
  MaxRequests = 2
INVARIANT Consented
INVARIANT AnsweredIsGone
INVARIANT OnePending
INVARIANT NonePendingOfFriends
INVARIANT DeclineIsFinal
PROPERTY MadeByNewAccept
PROPERTY ImplementsGraph
PROPERTY Answered
