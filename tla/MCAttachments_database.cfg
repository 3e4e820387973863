SPECIFICATION Spec
CONSTANTS
  Users = {u1}
  Admins = {}
  Memos = {}
  Requests = {r1}
  Sent = {"post"}
  Backends = {"DB", "R2", "S3"}
  Usable = {"DB", "R2", "S3"}
  Default = "R2"
  Lists <- Nothing
  Links <- Nothing
  None = None
PROPERTIES
  ChoiceHolds
CHECK_DEADLOCK FALSE
