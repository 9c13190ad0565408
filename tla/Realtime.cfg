SPECIFICATION FairSpec
CONSTANTS
  v1 = v1
  v2 = v2
  c1 = c1
  c2 = c2
  Vessels = {v1, v2}
  NoVessel = NoVessel
  MaxEntries = 2
  Conns = {c1}
  BufferedLimit = 1
  MaxSerial = 4
  MaxBadMessages = 1
INVARIANTS TypeOK ResourcesBounded OthersInOrder NewestPositionWins
PROPERTY VanishedPeersLeave
CHECK_DEADLOCK FALSE
