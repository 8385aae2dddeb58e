\* The shipped limit of one: a claimed job may have to wait for its turn.
CONSTANTS
  MaxAttempts = 2
  StaleAfter = 1
  MaxQuiet = 1
  Limit = 1
  MaxFaults = 0
  MaxRequests = 2
  Jobs <- TwoCalls
  Workers = {w1}
  Goroutines = {g1, g2, g3}
  Batches = {b1, b2}
SPECIFICATION Spec
INVARIANT ClaimKept
CHECK_DEADLOCK FALSE
