SPECIFICATION Spec
CONSTANTS
  Tabs = {t1, t2}
  Mixes <- WithEdit
  MaxChanges = 2
  None = None
SYMMETRY Symmetric
INVARIANTS
  TypeOK
  PostedIsGone
  PostedOnce
  DraftKept
  SavedAsShown
CHECK_DEADLOCK FALSE
