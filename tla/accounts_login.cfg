SPECIFICATION Spec
CONSTANTS
  None = None
  g1 = g1
  g2 = g2
  g3 = g3
  GoogleAccounts = {g1, g2, g3}
  Email <- Addresses
  UserIDs = {u1, u2, u3}
  WalletIDs = {1, 2, 3}
  Numbers = {n1, n2, n3}
  Requests = {r1, r2}
  TokenLife = 1
  LastTick = 1
  Faults = {"create", "find"}
SYMMETRY IdSymmetry
INVARIANTS TypeOK LoginIdentity ServedWhoLoggedIn WalletsWithinRace
PROPERTIES ImplementsRegistry WalletSettles
