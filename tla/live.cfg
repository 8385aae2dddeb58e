\* Do jobs, reservations and letters come to an end?
CONSTANTS
  \* the queue: one worker with a group of two, one fault
  MaxAttempts = 2
  StaleAfter = 1
  MaxQuiet = 1
  Limit = 2
  MaxRequests = 2
  QueueFaults = 1
  QueueWorkers = {w1}
  Goroutines = {g1, g2}
  Batches = {b1, b2}
  \* the ledger: one worker that may be lost twice after any transaction, and a
  \* reconciler that takes one operation at a time
  NoCap = NoCap
  ReconcileBatch = 1
  LedgerFaults = 2
  LedgerEdits = 0
  LedgerWorkers = {w1}
  \* the letters: two senders, one of which may be lost or late
  Alerts = {"alert"}
  Secrets = {"reset"}
  Senders = {s1, s2}
  BatchSize = 2
  MaxSends = 2
  MaxDelays = 1
SPECIFICATION LiveSpec
INVARIANTS DeliveryTypeOK SendsBounded
PROPERTIES ToldOnce NoJobForgotten ReservationMoves LetterSettles
CHECK_DEADLOCK FALSE
