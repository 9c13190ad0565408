SPECIFICATION BusySpec
CONSTANTS
  v1 = v1
  p1 = p1
  p2 = p2
  Vessels = {v1}
  Profiles = {p1, p2}
  NoProfile = NoProfile
  BatchSize = 1
  Attempts = 2
  MaxPersists = 1
  MaxStale = 1
  MaxFaults = 2
PROPERTY EveryVesselChecked
CHECK_DEADLOCK FALSE
