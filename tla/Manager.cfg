SPECIFICATION FairSpec
CONSTANTS
  Crs = {a, b}
  Good = {g1, g2}
  NeedsCm = {n}
  Panicking = {p}
  Texts = {t1, t2}
  NoCr = NoCr
  MaxEdits = 2
  MaxCrashes = 1
INVARIANTS
  TypeOK
  NothingForgotten
PROPERTIES
  DeployedOfThisSpec
  EachServed
  ServedOnceComplete
  ComesToRest
CHECK_DEADLOCK FALSE
