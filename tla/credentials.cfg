CONSTANTS
  Handler <- MCHandler
  MaxAttempts = 3
  MaxCalls = 2
SPECIFICATION FairSpec
INVARIANTS
  TypeOK
  EveryoneAsked
  DeclinedOnce
  OwnException
PROPERTIES
  RetriedOnlyWithCredential
  Ends
