SPECIFICATION FairSpec
CONSTANTS
  Conversations <- MCTwo
  Messages <- MCMessages
  Chat <- NoOne
  Polling <- Account1
  kMaxEmptyRefetches = 1
  Scenarios <- MCLive
PROPERTY PendingResolves
PROPERTY InboxCatchesUp
