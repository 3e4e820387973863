SPECIFICATION HSpec
CONSTANTS
  Users = {u1, u2}
  Names = {n1, n2, n3}
  Requests = {r1, r2, r3}
  Seeded = {}
  BootKey = BootKey
  None = None
SYMMETRY Symmetric
INVARIANTS
  TypeOK
  UniqueNames
  KeyNeverMissing
  SerialUnlessRaced
  OwnSessions
PROPERTIES
  NoResurrection
  ArchivedFrozen
CHECK_DEADLOCK FALSE
