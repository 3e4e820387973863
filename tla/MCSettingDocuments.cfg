SPECIFICATION Spec
CONSTANTS
  Requests = {r1, r2}
  Old = old
  Before = before
  NoOne = nobody
SYMMETRY Symmetry
INVARIANTS TypeOK FreshUnlessLate
PROPERTIES NodeImplements SecretsKept
