SPECIFICATION ListSpec
CONSTANTS
  a = a
  b = b
  N = 3
  MaxTime = 1
  Traits = {a, b}
  Sights = {"public"}
  Lists <- Search
  PageSize = 1
  MaxScan = 9
  MaxEdits = 1
PROPERTY FilterHolds
