SPECIFICATION Spec
CONSTANTS
  None = None
  IPs = {a, b}
  Requests = {r1, r2}
  Limiters = {l1, l2, l3, l4}
  Burst = 1
  Token = 2
  ExpireAfter = 3
  Stall = 1
  LastTick = 9
SYMMETRY LimiterSymmetry
INVARIANTS TypeOK LimiterIsCurrent
PROPERTIES ImplementsTokenBucket
