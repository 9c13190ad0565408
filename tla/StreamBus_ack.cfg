SPECIFICATION Spec
CONSTANTS
  g1 = g1
  c1 = c1
  c2 = c2
  Groups = {g1}
  Consumers = {c1}
  GroupOf <- OneGroup
  Limit = 2
  MaxLen = 1
  ReadCount = 1
  ClaimCount = 1
  MaxMsgs = 1
  MaxFaults = 2
INVARIANT OnlyHandlerFailuresBuried
CHECK_DEADLOCK FALSE
