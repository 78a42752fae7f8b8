SPECIFICATION FairSpec
CONSTANTS
  Folders <- MCFolders
  Msgs <- MCMsgs
  MaxRotations = 1
  MaxResets = 1
INVARIANT TypeOK
INVARIANT PurgedStaysPurged
PROPERTY KeepsServerMail
PROPERTY CatchesUp
