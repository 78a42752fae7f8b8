SPECIFICATION Spec
CONSTANTS
  Conversations <- MCThree
  Messages <- MCBoth
  Chat <- Account2
  Polling <- Account1
  kMaxEmptyRefetches = 2
  Scenarios <- MCScenarios
INVARIANT TypeOK
INVARIANT RefetchBounded
PROPERTY NoYank
PROPERTY OnlyOpenMessageFills
