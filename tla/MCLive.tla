------------------------------- MODULE MCLive -------------------------------
(***************************************************************************)
(* What must happen in the end, on one graph: the queue, the credits and   *)
(* the letters share nothing that these promises rest on, so a behaviour   *)
(* is one of one of them, and the others keep their initial states.        *)
(***************************************************************************)
EXTENDS Delivery, TLC

CONSTANTS
  MaxAttempts, StaleAfter, MaxQuiet, Limit, MaxRequests,   \* the queue
  QueueFaults, QueueWorkers, Goroutines, Batches,
  NoCap, ReconcileBatch, LedgerFaults, LedgerEdits, LedgerWorkers   \* the ledger

VARIABLES
  rows, holder, gor, phase, batch, dead, funded, queueFaults, requests,
  available, opened, expired, op, before, taken, spent, cap, worker, listed, ledgerFaults,
  edits,
  focus

queueVars == <<rows, holder, gor, phase, batch, dead, funded, queueFaults, requests>>
ledgerVars == <<available, opened, expired, op, before, taken, spent, cap, worker, listed,
                ledgerFaults, edits>>

(* A staged analysis and a transcription of different calls. *)
QueueJobs == {<<"analyze_call", "c1">>, <<"transcribe_call", "c2">>}

Q == INSTANCE ProcessingQueue WITH
  Jobs <- QueueJobs, Workers <- QueueWorkers, MaxFaults <- QueueFaults, faults <- queueFaults

(* The account of MCCreditLedger. *)
LedgerOps == {"speech1", "speech2"}

L == INSTANCE CreditLedger WITH
  NumGrants <- 2, Size <- 1 :> 3 @@ 2 :> 2,
  Ops <- LedgerOps,
  Maximum <- "speech1" :> 2 @@ "speech2" :> 3,
  CallOf <- "speech1" :> "c1" @@ "speech2" :> "c2",
  Subjects <- {"company"},
  Under <- [o \in LedgerOps |-> {"company"}],
  Caps <- {3}, Costs <- {1},
  Workers <- LedgerWorkers, MaxFaults <- LedgerFaults, MaxEdits <- LedgerEdits,
  faults <- ledgerFaults

Focus(name) == focus = name /\ UNCHANGED focus

LiveInit ==
  /\ focus \in {"queue", "ledger", "letters"}
  /\ Q!Init /\ L!Init /\ DeliveryInit
  /\ batch = [w \in QueueWorkers |-> CHOOSE b \in Batches : TRUE]   \* one is as good as another
  /\ focus # "queue" => funded

LiveNext ==
  \/ Focus("queue") /\ Q!Next /\ UNCHANGED <<ledgerVars, deliveryVars>>
  \/ Focus("ledger") /\ L!Next /\ UNCHANGED <<queueVars, deliveryVars>>
  \/ Focus("letters") /\ DeliveryNext /\ UNCHANGED <<queueVars, ledgerVars>>

(* The fairness of each module, for behaviours that are about it. *)
QueueFairness ==
  /\ \A w \in QueueWorkers :
       /\ WF_queueVars(Focus("queue") /\ Q!TakeNothing(w))
       /\ WF_queueVars(Focus("queue") /\ Q!WaitReturns(w))
       /\ WF_queueVars(Focus("queue") /\ Q!TakeCancelled(w))
  /\ \A j \in QueueJobs :
       /\ SF_queueVars(Focus("queue") /\ \E w \in QueueWorkers, g \in Goroutines : Q!TakeNext(w, j, g))
       /\ WF_queueVars(Focus("queue") /\ Q!Ripen(j))
  /\ \A g \in Goroutines : /\ WF_queueVars(Focus("queue") /\ Q!Start(g))
                           /\ WF_queueVars(Focus("queue") /\ Q!Finish(g))
  /\ WF_queueVars(Focus("queue") /\ Q!Tick)
  /\ WF_queueVars(Focus("queue") /\ Q!TopUp)

LedgerFairness ==
  /\ \A o \in LedgerOps : WF_ledgerVars(Focus("ledger") /\ L!ScanReaches(o))
  /\ \A r \in L!Releasers : WF_ledgerVars(Focus("ledger") /\ \E o \in LedgerOps : L!Release(r, o))
  /\ \A w \in LedgerWorkers :
       WF_ledgerVars(Focus("ledger") /\ (L!MarkProviderRunning(w) \/ L!ProviderAnswers(w) \/ L!Settle(w)))

LetterFairness ==
  /\ \A s \in Senders : WF_deliveryVars(Focus("letters") /\ SenderStep(s))
  /\ \A l \in Letters : WF_deliveryVars(Focus("letters") /\ (BackoffEnds(l) \/ LeaseEnds(l)))

LiveSpec ==
  /\ LiveInit
  /\ [][LiveNext]_<<focus, queueVars, ledgerVars, deliveryVars>>
  /\ QueueFairness /\ LedgerFairness /\ LetterFairness

-----------------------------------------------------------------------------
(* Every job that is due is taken in the end, whatever one fault does         *)
(* (processing_jobs, worker.go:60-66).                                        *)
NoJobForgotten == Q!NoJobForgotten

(* No reservation holds a customer's credits for ever, as long as the         *)
(* reconciler's batch has room behind the older ones                          *)
(* (repository/billing/credit_reconciliation.go:65).                          *)
ReservationMoves == L!ReservationMoves
=============================================================================
