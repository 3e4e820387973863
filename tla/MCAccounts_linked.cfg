CONSTANTS
  Requests = {r1, r2}
  Old = {old1, old2}
  Names = {ann, bob}
  Providers = {idp}
  None = None
SPECIFICATION Spec
SYMMETRY Symmetric
PROPERTY LinkedSignsIn
