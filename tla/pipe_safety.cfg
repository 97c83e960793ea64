SPECIFICATION PipelineSpec
CONSTANTS
  None = None
  Wallets = {w1}
  Deposits = {d1}
  References = {r1}
  Transfers = {}
  Workers = {k1}
  Hooks = {h1, h2}
  Amounts = {1}
  MinTransactionAmount = 1
  MaxBalance = 2
  OpeningBalance = 1
  Opening <- OpenWith
  ExactCharges = TRUE
  Faults = {"db", "ack", "redis", "paystack", "crash", "lookup", "repay", "dlq", "pop"}
  MaxRetries = 3
  QueueBound = 2
SYMMETRY HookSymmetry
INVARIANTS PipelineTypeOK NoOrphanPayment StatusMatchesGateway AckedPaymentAccounted
PROPERTIES ImplementsRepo
CHECK_DEADLOCK FALSE
