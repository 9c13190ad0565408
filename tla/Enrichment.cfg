SPECIFICATION Spec
CONSTANTS
  v1 = v1
  p1 = p1
  p2 = p2
  Vessels = {v1}
  Profiles = {p1, p2}
  NoProfile = NoProfile
  BatchSize = 1
  Attempts = 2
  MaxPersists = 2
  MaxStale = 0
  MaxFaults = 2
INVARIANTS TypeOK MarkersVouch RowAnnounced
SYMMETRY Alike
CHECK_DEADLOCK FALSE
