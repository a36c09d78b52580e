SPECIFICATION Spec
CONSTANTS
  p1 = p1
  t1 = t1
  s1 = s1
  Paths = {p1}
  Trees = {t1}
  Spaces = {}
  NoItem = NoItem
  MaxOps = 1
  MaxTouches = 1
  MaxTouched = 1
  MaxLaunches = 0
  MaxCrashes = 1
PROPERTIES AdmittedEnds
CHECK_DEADLOCK FALSE
