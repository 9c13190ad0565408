SPECIFICATION Spec
CONSTANTS
  MaxNow = 2
  MaxChecks = 2
  Retention = 0
  MaxDrops = 1
INVARIANTS TypeOK MatchesFitStatus ConnectedOrTrying CaughtUpAfterOutage
PROPERTIES NothingGoesBack SnapshotsInOrder KeptWhileHeard
CHECK_DEADLOCK FALSE
