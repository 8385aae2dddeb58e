\* Everything people can ask for, against one fault.
CONSTANTS
  MaxAttempts = 2
  StaleAfter = 0
  Handlers = {h1, h2}
  Users = {u1, u2}
  Offered = {"cancel", "restart", "delete", "restore", "analyze", "drain"}
  MaxFaults = 1
  MaxRequests = 3
SYMMETRY Names
SPECIFICATION Spec
INVARIANTS TypeOK SettledBeforeShown
CHECK_DEADLOCK FALSE
