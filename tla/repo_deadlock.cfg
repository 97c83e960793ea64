SPECIFICATION FairRepoSpec
CONSTANTS
  None = None
  Wallets = {w1, w2, w3}
  Deposits = {}
  References = {r1}
  Transfers = {t1, t2, t3}
  Workers = {}
  Amounts = {1}
  MinTransactionAmount = 1
  MaxBalance = 3
  OpeningBalance = 1
  Opening <- OpenWith
  ExactCharges = TRUE
  Faults = {}
PROPERTIES TransfersAnswered
CHECK_DEADLOCK FALSE
