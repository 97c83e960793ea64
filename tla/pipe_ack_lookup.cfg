SPECIFICATION PipelineSpec
CONSTANTS
  None = None
  Wallets = {w1}
  Deposits = {d1}
  References = {r1}
  Transfers = {}
  Workers = {k1}
  Hooks = {h1}
  Amounts = {1}
  MinTransactionAmount = 1
  MaxBalance = 2
  OpeningBalance = 1
  Opening <- OpenWith
  ExactCharges = TRUE
  Faults = {"lookup"}
  MaxRetries = 3
  QueueBound = 2
INVARIANT AckedPaymentKept
CHECK_DEADLOCK FALSE
