\* One cancel, nothing fails.
CONSTANTS
  MaxAttempts = 2
  StaleAfter = 0
  Handlers = {h1, h2}
  Users = {u1}
  Offered = {"cancel"}
  MaxFaults = 0
  MaxRequests = 1
SPECIFICATION FairSpec
PROPERTY CancelSticks
CHECK_DEADLOCK FALSE
