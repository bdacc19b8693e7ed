SPECIFICATION FrontFairSpec
CONSTANTS
  Clients = {c1, c2}
  RateNum = 3
  RateDen = 2
  Burst = 2
  Needed = 1
  MaxTime = 3
  MaxPermits = 1
INVARIANTS PermitsConserved RefillAccounted
PROPERTIES CallsLetThrough
