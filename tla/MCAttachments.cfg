SPECIFICATION Spec
CONSTANTS
  Users = {u1}
  Admins = {}
  Memos = {m1}
  Requests = {r1, r2, r3}
  Sent = {"post", "external", "delete", "batch", "patch", "link"}
  Backends = {"R2", "S3"}
  Usable = {"R2", "S3"}
  Default = "R2"
  Lists <- NoneOrOne
  Links <- Keys
  None = None
CONSTRAINT NotMixed
SYMMETRY SymmetricRequests
INVARIANTS
  TypeOK
  FileServed
  NoOrphans
  LinksAsAsked
CHECK_DEADLOCK FALSE
