SPECIFICATION MixedSpec
CONSTANTS
  a = a
  b = b
  N = 4
  MaxTime = 1
  Traits = {a, b}
  Sights = {"public"}
  Lists <- Opened
  PageSize = 1
  MaxScan = 3
  MaxEdits = 2
INVARIANTS ListTypeOK PagesTrue NoneSkipped
