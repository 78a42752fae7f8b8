SPECIFICATION FairSpec
CONSTANTS
  Labels <- MCLabels
  Msgs <- MCMsgs
  Inbox = "inbox"
  MaxCalls = 2
CHECK_DEADLOCK FALSE
INVARIANT TypeOK
PROPERTY RemovesOnlyGone
PROPERTY PushLists
PROPERTY RelistingCatchesUp
PROPERTY TeardownEnds
