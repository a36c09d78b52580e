SPECIFICATION Spec
CONSTANTS
  p1 = p1
  t1 = t1
  s1 = s1
  Paths = {p1}
  Trees = {}
  Spaces = {s1}
  NoItem = NoItem
  MaxOps = 1
  MaxTouches = 1
  MaxTouched = 1
  MaxLaunches = 1
  MaxCrashes = 1
INVARIANTS HelperAlone
PROPERTIES OnlyConfirmedGoes UncommittedNeedsConsent ReceiptIsTrue 
CHECK_DEADLOCK FALSE
