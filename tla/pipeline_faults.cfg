\* No cancel and no bin: the queue alone, with lost handlers.
CONSTANTS
  MaxAttempts = 3
  StaleAfter = 0
  Handlers = {h1, h2}
  Users = {u1}
  Offered = {"analyze", "drain"}
  MaxFaults = 2
  MaxRequests = 2
SPECIFICATION FairSpec
INVARIANTS BusyCallHasJob AnalysisIsQueued ShownTextExists
PROPERTY CallComesToRest
CHECK_DEADLOCK FALSE
