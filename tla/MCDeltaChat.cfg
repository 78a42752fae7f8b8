SPECIFICATION FairSpec
CONSTANTS
  Starts <- MCStarts
  Chats <- MCChats
  Messages <- MCMessages
CHECK_DEADLOCK FALSE
INVARIANT TypeOK
INVARIANT OneConsumer
PROPERTY RegisteredByIdentity
PROPERTY RequestsAnswered
PROPERTY EventsHeard
