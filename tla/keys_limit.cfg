SPECIFICATION Spec
CONSTANTS
  None = None
  Users = {u1, u2}
  Keys = {k1, k2, k3}
  Requests = {r1, r2}
  MaxActiveKeys = 1
  PermissionNames = {"transfer", "ADMIN"}
  Upper <- UpperNames
  Required = {"TRANSFER"}
  Lifetimes = {1}
  LastTick = 2
SYMMETRY KeySymmetry
INVARIANT AtMostMaxActiveKeys
