\* Two workers, and groups with room for every claim: no claim waits to start.
CONSTANTS
  MaxAttempts = 2
  StaleAfter = 1
  MaxQuiet = 1
  Limit = 2
  MaxFaults = 1
  MaxRequests = 3
  Jobs <- TwoCalls
  Workers = {w1, w2}
  Goroutines = {g1, g2}
  Batches = {b1, b2}
SYMMETRY Names
SPECIFICATION Spec
INVARIANTS TypeOK AttemptsWithinBudget ClaimKept
CHECK_DEADLOCK FALSE
