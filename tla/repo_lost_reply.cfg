SPECIFICATION RepoSpec
CONSTANTS
  None = None
  Wallets = {w1, w2}
  Deposits = {d1, d2}
  References = {r1}
  Transfers = {t1}
  Workers = {k1}
  Amounts = {1, 2}
  MinTransactionAmount = 1
  MaxBalance = 3
  OpeningBalance = 1
  Opening <- OpenWith
  ExactCharges = TRUE
  Faults = {"db", "crash"}
INVARIANT FailedMeansNothingMoved
