SPECIFICATION StatusSpec
CONSTANTS
  None = None
  Wallets = {w1, w2}
  Deposits = {d1}
  References = {r1}
  Transfers = {t1}
  Workers = {k1}
  Hooks = {h1}
  Amounts = {1}
  MinTransactionAmount = 1
  MaxBalance = 2
  OpeningBalance = 1
  Opening <- OpenWith
  ExactCharges = TRUE
  Faults = {"db", "crash", "lookup", "dlq", "pop"}
  MaxRetries = 3
  QueueBound = 1
INVARIANT AnswerTruthful
PROPERTIES PayerLearns SuccessToldForEver
CHECK_DEADLOCK FALSE
