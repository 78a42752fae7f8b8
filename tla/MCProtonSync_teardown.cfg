SPECIFICATION Spec
CONSTANTS
  Labels <- MCLabels
  Msgs <- MCMsgs
  Inbox = "inbox"
  MaxCalls = 2
CHECK_DEADLOCK FALSE
INVARIANT NothingPastTeardown
