-------------------------- MODULE ProcessingQueue --------------------------
(***************************************************************************)
(* The job queue of the call pipeline and the workers that drain it:       *)
(* repository/processing_job and service/processing/worker.go.             *)
(*                                                                         *)
(* A worker is a process of the backend; several run against one database. *)
(* It works in batches.  runBatch makes an errgroup with a limit and then  *)
(* takes jobs one after another; a job is claimed in the database first    *)
(* and handed to group.Go second, and group.Go blocks while the group is   *)
(* full.  When no job is left the worker waits for the group and polls     *)
(* again.  All goroutines of a batch share one context, which dies with    *)
(* the first goroutine that returns an error.                              *)
(*                                                                         *)
(* What a job does to a call is abstracted to its outcome; CallPipeline    *)
(* has the inside.  Time is a tick that ages the locks of running rows; a  *)
(* goroutine at work ends or sends a heartbeat within MaxQuiet ticks,      *)
(* which is the promise heartbeat.go and worker.go rest on ("Provider      *)
(* calls are bounded to five minutes").                                    *)
(***************************************************************************)
EXTENDS JobRows, FiniteSets

CONSTANTS
  Jobs,         \* the rows there may be: a set of <<job type, call>>
  Workers,      \* backend processes that run the worker
  Goroutines,   \* names for claimed jobs (bounds how many there are at once)
  Batches,      \* names for the errgroups of one worker (bound)
  Limit,        \* WORKER_LIMIT, the size of one errgroup
  MaxQuiet,     \* ticks a healthy goroutine goes without a heartbeat
  MaxFaults,    \* database errors and crashes in a behaviour (bound)
  MaxRequests   \* inserts and enqueues in a behaviour (bound)

ASSUME LimitAssumption == Limit \in Nat \ {0}
ASSUME QuietAssumption == MaxQuiet \in Nat /\ MaxQuiet <= StaleAfter
ASSUME BoundsAssumption == MaxFaults \in Nat /\ MaxRequests \in Nat
ASSUME FiniteAssumption == IsFiniteSet(Goroutines)

VARIABLES
  rows,         \* Jobs -> Rows, the table
  holder,       \* Jobs -> the goroutine that claimed the row last (locked_by)
  gor,          \* Goroutines -> what each of them does
  phase,        \* Workers -> "take" (the loop of runBatch) or "wait"
  batch,        \* Workers -> the errgroup in use
  dead,         \* the <<worker, batch>> whose context is cancelled
  funded,       \* whether credits can be reserved
  faults,       \* faults that may still happen
  requests      \* requests that may still come

workerVars == <<gor, phase, batch, dead>>
boundVars == <<faults, requests>>
vars == <<rows, holder, gor, phase, batch, dead, funded, faults, requests>>

CallOf(j) == j[2]

Nobody == "nobody"

Free == [pc |-> "free"]

Claims == [pc : {"blocked", "work"}, worker : Workers, batch : Batches,
           job : Jobs, id : Nat, quiet : 0 .. MaxQuiet]

TypeOK ==
  /\ rows \in [Jobs -> Rows]
  /\ holder \in [Jobs -> Goroutines \cup {Nobody}]
  /\ gor \in [Goroutines -> Claims \cup {Free}]
  /\ phase \in [Workers -> {"take", "wait"}]
  /\ batch \in [Workers -> Batches]
  /\ dead \in SUBSET (Workers \X Batches)
  /\ funded \in BOOLEAN
  /\ faults \in 0 .. MaxFaults
  /\ requests \in 0 .. MaxRequests

Init ==
  /\ rows = [j \in Jobs |-> NoRow]
  /\ holder = [j \in Jobs |-> Nobody]
  /\ gor = [g \in Goroutines |-> Free]
  /\ phase = [w \in Workers |-> "take"]
  /\ batch \in [Workers -> Batches]
  /\ dead = {}
  /\ funded \in BOOLEAN
  /\ faults = MaxFaults
  /\ requests = MaxRequests

-----------------------------------------------------------------------------
(* Helpers *)

Claiming(w, b) ==
  {g \in Goroutines : gor[g].pc # "free" /\ gor[g].worker = w /\ gor[g].batch = b}

Working(w, b) == {g \in Claiming(w, b) : gor[g].pc = "work"}

Blocked(w) ==
  \E g \in Goroutines : gor[g].pc = "blocked" /\ gor[g].worker = w

HasRoom(w, b) == Cardinality(Working(w, b)) < Limit

ContextDead(g) == <<gor[g].worker, gor[g].batch>> \in dead

(* The row a Mark statement of g finds: WHERE job_uuid = ... *)
Finds(g) ==
  LET r == rows[gor[g].job] IN Present(r) /\ r.id = gor[g].id

-----------------------------------------------------------------------------
(* Requests: the statements other parts of the program run on the table. *)

(* repository.Create, and the INSERTs of createCallWithProcessingJob and *)
(* RestartCallProcessing: the row must not exist.                        *)
Insert(j) ==
  /\ requests > 0
  /\ ~Present(rows[j])
  /\ rows' = [rows EXCEPT ![j] = Inserted(@)]
  /\ requests' = requests - 1
  /\ UNCHANGED <<holder, workerVars, funded, faults>>

Enqueue(j) ==
  /\ requests > 0
  /\ rows' = [rows EXCEPT ![j] = Enqueued(@)]
  /\ requests' = requests - 1
  /\ UNCHANGED <<holder, workerVars, funded, faults>>

(* Cancelling or deleting a call deletes all its jobs in one statement, *)
(* running or not.                                                      *)
Remove(c) ==
  /\ \E j \in Jobs : CallOf(j) = c /\ Present(rows[j])
  /\ rows' = [j \in Jobs |-> IF CallOf(j) = c THEN Removed(rows[j]) ELSE rows[j]]
  /\ UNCHANGED <<holder, workerVars, funded, boundVars>>

-----------------------------------------------------------------------------
(* The worker loop *)

(* TakeNext succeeded: the row is claimed, the goroutine does not run yet. *)
TakeNext(w, j, g) ==
  /\ phase[w] = "take" /\ ~Blocked(w) /\ <<w, batch[w]>> \notin dead
  /\ gor[g].pc = "free"
  /\ Claimable(rows[j])
  /\ rows' = [rows EXCEPT ![j] = Claimed(@)]
  /\ holder' = [holder EXCEPT ![j] = g]
  /\ gor' = [gor EXCEPT ![g] = [pc |-> "blocked", worker |-> w, batch |-> batch[w],
                                job |-> j, id |-> rows[j].id, quiet |-> 0]]
  /\ UNCHANGED <<phase, batch, dead, funded, boundVars>>

(* group.Go found room and started the goroutine. *)
Start(g) ==
  /\ gor[g].pc = "blocked"
  /\ HasRoom(gor[g].worker, gor[g].batch)
  /\ gor' = [gor EXCEPT ![g].pc = "work"]
  /\ UNCHANGED <<rows, holder, phase, batch, dead, funded, boundVars>>

(* ErrNoProcessingJobs: on to group.Wait. *)
TakeNothing(w) ==
  /\ phase[w] = "take" /\ ~Blocked(w) /\ <<w, batch[w]>> \notin dead
  /\ \A j \in Jobs : ~Claimable(rows[j])
  /\ Claiming(w, batch[w]) # {}
  /\ phase' = [phase EXCEPT ![w] = "wait"]
  /\ UNCHANGED <<rows, holder, gor, batch, dead, funded, boundVars>>

(* group.Wait returned; the next poll makes a new errgroup. *)
WaitReturns(w) ==
  /\ phase[w] = "wait"
  /\ Claiming(w, batch[w]) = {}
  /\ phase' = [phase EXCEPT ![w] = "take"]
  /\ dead' = dead \ {<<w, batch[w]>>}
  /\ UNCHANGED <<rows, holder, gor, batch, funded, boundVars>>

(* runBatch returns without group.Wait, and the next poll makes an errgroup *)
(* beside the goroutines that still run.                                   *)
LeaveBatch(w) ==
  /\ phase[w] = "take" /\ ~Blocked(w)
  /\ \E b \in Batches :
       /\ Claiming(w, b) = {}
       /\ Claiming(w, batch[w]) = {} => b = batch[w]
       /\ batch' = [batch EXCEPT ![w] = b]
       /\ dead' = dead \ {<<w, b>>}
  /\ UNCHANGED <<rows, holder, gor, phase, funded, requests>>

(* TakeNext fails because its context, the one of the batch, is dead. *)
TakeCancelled(w) ==
  <<w, batch[w]>> \in dead /\ LeaveBatch(w) /\ UNCHANGED faults

(* TakeNext fails because the database did, or did not answer in time. *)
TakeErrs(w) ==
  /\ <<w, batch[w]>> \notin dead /\ LeaveBatch(w)
  /\ faults > 0 /\ faults' = faults - 1

-----------------------------------------------------------------------------
(* A goroutine at work.  Report is the end it comes to while its context   *)
(* lives: one Mark statement by job_uuid.  The statement asks neither for  *)
(* the status nor for locked_by.  When the row is gone the goroutine       *)
(* returns ErrProcessingJobNotFound, and the errgroup cancels the context. *)

Report(g, Mark(_)) ==
  /\ gor[g].pc = "work" /\ ~ContextDead(g)
  /\ IF Finds(g)
     THEN /\ rows' = [rows EXCEPT ![gor[g].job] = Mark(@)]
          /\ dead' = dead
     ELSE /\ dead' = dead \cup {<<gor[g].worker, gor[g].batch>>}
          /\ rows' = rows
  /\ gor' = [gor EXCEPT ![g] = Free]
  /\ UNCHANGED <<holder, phase, batch, funded, boundVars>>

Complete(g) == Report(g, MarkedDone)

FailPermanently(g) == Report(g, MarkedFailed)

FailForNow(g) == Report(g, MarkedRetry)

WaitForCredits(g) == ~funded /\ Report(g, MarkedWaitingForCredits)

(* The Mark statement itself fails. *)
ReportFails(g) ==
  /\ gor[g].pc = "work" /\ ~ContextDead(g)
  /\ faults > 0 /\ faults' = faults - 1
  /\ dead' = dead \cup {<<gor[g].worker, gor[g].batch>>}
  /\ gor' = [gor EXCEPT ![g] = Free]
  /\ UNCHANGED <<rows, holder, phase, batch, funded, requests>>

(* Under a dead context the job fails and so does every Mark statement: *)
(* the row stays as it is.                                              *)
Abandon(g) ==
  /\ gor[g].pc = "work" /\ ContextDead(g)
  /\ gor' = [gor EXCEPT ![g] = Free]
  /\ UNCHANGED <<rows, holder, phase, batch, dead, funded, boundVars>>

(* A staged analysis published a step: HeartbeatByEntity refreshes every *)
(* running row of the call, whoever holds it.                            *)
Heartbeat(g) ==
  /\ gor[g].pc = "work" /\ ~ContextDead(g)
  /\ gor[g].job[1] = "analyze_call"
  /\ rows' = [j \in Jobs |-> IF CallOf(j) = CallOf(gor[g].job)
                             THEN Heartbeaten(rows[j]) ELSE rows[j]]
  /\ gor' = [gor EXCEPT ![g].quiet = 0]
  /\ UNCHANGED <<holder, phase, batch, dead, funded, boundVars>>

(* The process dies, or is told to stop: a cancelled root context fails    *)
(* every job and every Mark statement.  Another process takes its place.   *)
Crash(w) ==
  /\ faults > 0 /\ faults' = faults - 1
  /\ gor' = [g \in Goroutines |->
               IF gor[g].pc # "free" /\ gor[g].worker = w THEN Free ELSE gor[g]]
  /\ phase' = [phase EXCEPT ![w] = "take"]
  /\ dead' = {d \in dead : d[1] # w}
  /\ UNCHANGED <<rows, holder, batch, funded, requests>>

-----------------------------------------------------------------------------
(* Time and money *)

(* available_at comes. *)
Ripen(j) ==
  /\ rows[j].status = "pending" /\ ~rows[j].ripe
  /\ rows' = [rows EXCEPT ![j] = Ripened(@)]
  /\ UNCHANGED <<holder, workerVars, funded, boundVars>>

(* group.Go with room takes no time, and no goroutine at work outlasts its *)
(* promise.                                                                *)
Tick ==
  /\ \A g \in Goroutines :
       /\ gor[g].pc = "blocked" => ~HasRoom(gor[g].worker, gor[g].batch)
       /\ gor[g].pc = "work" => gor[g].quiet < MaxQuiet
  /\ \E j \in Jobs : rows[j].status = "running" /\ ~Stale(rows[j])
  /\ rows' = [j \in Jobs |-> Aged(rows[j])]
  /\ gor' = [g \in Goroutines |->
               IF gor[g].pc = "work" THEN [gor[g] EXCEPT !.quiet = @ + 1] ELSE gor[g]]
  /\ UNCHANGED <<holder, phase, batch, dead, funded, boundVars>>

(* The limit resets or the wallet is topped up. *)
TopUp ==
  /\ ~funded /\ funded' = TRUE
  /\ UNCHANGED <<rows, holder, workerVars, boundVars>>

-----------------------------------------------------------------------------
Finish(g) ==
  Complete(g) \/ FailPermanently(g) \/ FailForNow(g) \/ WaitForCredits(g) \/ Abandon(g)

Next ==
  \/ \E j \in Jobs : Insert(j) \/ Enqueue(j) \/ Ripen(j)
  \/ \E c \in {CallOf(j) : j \in Jobs} : Remove(c)
  \/ \E w \in Workers : \/ \E j \in Jobs, g \in Goroutines : TakeNext(w, j, g)
                        \/ TakeNothing(w) \/ WaitReturns(w)
                        \/ TakeCancelled(w) \/ TakeErrs(w) \/ Crash(w)
  \/ \E g \in Goroutines : Start(g) \/ Finish(g) \/ ReportFails(g) \/ Heartbeat(g)
  \/ Tick
  \/ TopUp

Spec == Init /\ [][Next]_vars

(* The loop of a worker and the goroutines it starts keep running; a step   *)
(* of the queue order is fair in the strong sense, because TakeNext orders  *)
(* by available_at and a row that waits cannot be passed for ever.  The     *)
(* clock and the billing period go on.  Requests and faults are not fair.   *)
Fairness ==
  /\ \A w \in Workers : /\ WF_vars(TakeNothing(w))
                        /\ WF_vars(WaitReturns(w))
                        /\ WF_vars(TakeCancelled(w))
  /\ \A j \in Jobs : /\ SF_vars(\E w \in Workers, g \in Goroutines : TakeNext(w, j, g))
                     /\ WF_vars(Ripen(j))
  /\ \A g \in Goroutines : WF_vars(Start(g)) /\ WF_vars(Finish(g))
  /\ WF_vars(Tick)
  /\ WF_vars(TopUp)

FairSpec == Spec /\ Fairness

-----------------------------------------------------------------------------
(* Properties *)

(* A row never counts more attempts than it has, and a row that waits for *)
(* its turn has one left, also when goroutines that lost their claim      *)
(* report late and a parked job gets attempts back (update_status.go,     *)
(* take_next.go).                                                         *)
AttemptsWithinBudget ==
  \A j \in Jobs :
    /\ rows[j].attempts <= MaxAttempts
    /\ rows[j].status = "pending" => rows[j].attempts < MaxAttempts

(* A healthy goroutine keeps its claim until it reports: as long as the row *)
(* it claimed exists, the row is running and nobody claimed it since.       *)
(* This is what the margin of StaleAfter and the heartbeat are for          *)
(* (worker.go:26, heartbeat.go:9).                                          *)
ClaimKept ==
  \A g \in Goroutines :
    gor[g].pc # "free" /\ Finds(g) =>
      rows[gor[g].job].status = "running" /\ holder[gor[g].job] = g

(* A row nobody works on any more, with no attempt left for TakeNext to     *)
(* reclaim it: only a request for the call can change it again.             *)
Stranded(j) ==
  /\ rows[j].status = "running" /\ Stale(rows[j])
  /\ rows[j].attempts >= MaxAttempts

(* No job is forgotten: a job in the table ends, is removed, or is left     *)
(* stranded with every attempt spent; a job parked for credits comes back   *)
(* by itself.                                                               *)
NoJobForgotten ==
  \A j \in Jobs :
    (rows[j].status \in {"pending", "running"})
      ~> (rows[j].status \in {"none", "done", "failed"} \/ Stranded(j))
=============================================================================
