SPECIFICATION Spec
CONSTANTS
  a1 = a1
  a2 = a2
  w1 = w1
  w2 = w2
  v1 = v1
  x = x
  y = y
  Maintainers = {a1, a2}
  Retention = 1
  Safety = 1
  Precreate = 1
  FirstDay = 3
  MaxDay = 4
  Writers = {w1, w2}
  Vessels = {v1}
  Bodies = {x, y}
  MaxWrites = 3
INVARIANTS TypeOK LatestAgrees RetainedIsPlaced
PROPERTY TrackKept
SYMMETRY Alike
CHECK_DEADLOCK FALSE
