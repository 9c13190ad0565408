SPECIFICATION FairSpec
CONSTANTS
  g1 = g1
  c1 = c1
  c2 = c2
  Groups = {g1}
  Consumers = {c1}
  GroupOf <- OneGroup
  Limit = 2
  MaxLen = 1
  ReadCount = 2
  ClaimCount = 1
  MaxMsgs = 2
  MaxFaults = 1
INVARIANTS TypeOK NoSilentLoss DeadLetterOnlyAfterLimit
PROPERTIES ImplementsAtLeastOnce PendingSettles ReadLoopProgress
CHECK_DEADLOCK FALSE
