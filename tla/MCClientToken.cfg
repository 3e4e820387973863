SPECIFICATION FairSpec
CONSTANTS
  t1 = t1
  Tabs = {t1, t2}
  Fetches = {f1, f2}
  Kinds = {"api", "focus", "load", "signout"}
  Scenes <- OneOrAll
  None = None
INVARIANTS
  TypeOK
  JarUsable
  StaysIn
PROPERTIES
  FetchEnds
CHECK_DEADLOCK FALSE
