SPECIFICATION Spec
CONSTANTS
  Calls = {c1, c2}
  Scenes <- TwoScenes
  MaxChanges = 2
  None = None
SYMMETRY Symmetric
INVARIANTS
  TypeOK
  ShownTrue
  NoTrace
CHECK_DEADLOCK FALSE
