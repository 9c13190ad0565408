SPECIFICATION Spec
CONSTANTS
  h1 = h1
  h2 = h2
  m1 = m1
  n1 = n1
  n2 = n2
  Handles = {h1, h2}
  Mmsis = {m1}
  Navs = {n1, n2}
  NoNav = NoNav
  MaxTime = 2
  MovingWindow = 2
  StationaryWindow = 3
  MaxReceived = 3
  MaxFaults = 0
INVARIANT WindowEnforced
CHECK_DEADLOCK FALSE
