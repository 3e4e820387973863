SPECIFICATION Spec
CONSTANTS
  Users = {u1, u2}
  Admins = {u1}
  m1 = m1
  Seeds = {m1}
  SeedVis = {"PUBLIC", "PRIVATE"}
  Requests = {r1, r2}
  Sent = {"create", "comment", "patch", "archive", "delete", "relate",
          "react", "unreact", "share", "unshare"}
  Drafts <- OpenAndPrivate
  Patches <- Changes
  Bodies <- RelationLists
  None = None
SYMMETRY SymmetricRequests
INVARIANTS
  TypeOK
  InboxTrue
  CommentsHang
  SharesHaveMemo
  ReactionsKept
PROPERTIES
  DeletedForGood
CHECK_DEADLOCK FALSE
