------------------------------ MODULE JobRows ------------------------------
(***************************************************************************)
(* One row of the table processing_jobs and the SQL statements of          *)
(* repository/processing_job that change it, each statement an operator    *)
(* from the row before to the row after.  Every statement is one atomic    *)
(* UPDATE, INSERT or DELETE, so a module that uses the table makes one     *)
(* step of each.                                                           *)
(*                                                                         *)
(* A row is keyed by its (job_type, entity_uuid) pair, which is unique in  *)
(* the table; job_uuid, the key of the Mark statements, changes when a row *)
(* is deleted and inserted again: id counts the inserts.  Of the           *)
(* timestamps only what the code compares is kept: whether available_at    *)
(* has come (ripe) and how long ago locked_at was (age, in ticks, counted  *)
(* up to the first value that is stale).  last_error, mode and the audit   *)
(* timestamps are left out: no statement reads them.                       *)
(***************************************************************************)
EXTENDS Naturals

CONSTANTS
  MaxAttempts,  \* processing_jobs.max_attempts, WORKER_MAX_ATTEMPTS
  StaleAfter    \* WORKER_STALE_AFTER in ticks

ASSUME MaxAttemptsAssumption == MaxAttempts \in Nat \ {0}
ASSUME StaleAfterAssumption == StaleAfter \in Nat

JobStatus == {"none", "pending", "running", "done", "failed"}

LockAges == 0 .. StaleAfter + 1

Rows == [status : JobStatus, attempts : Nat, age : LockAges, ripe : BOOLEAN, id : Nat]

Row(status, attempts, age, ripe, id) ==
  [status |-> status, attempts |-> attempts, age |-> age, ripe |-> ripe, id |-> id]

NoRow == Row("none", 0, 0, TRUE, 0)

Present(r) == r.status # "none"

(* INSERT of a new job: available at once, a job_uuid never used before. *)
Inserted(r) == Row("pending", 0, 0, TRUE, r.id + 1)

(* INSERT ... ON CONFLICT (job_type, entity_uuid) DO UPDATE: a running row *)
(* keeps everything, any other row starts over under the job_uuid it has.  *)
Enqueued(r) ==
  CASE r.status = "none"    -> Inserted(r)
    [] r.status = "running" -> r
    [] OTHER                -> Row("pending", 0, 0, TRUE, r.id)

(* The row after DELETE; id remembers which job_uuids are used up. *)
Removed(r) == Row("none", 0, 0, TRUE, r.id)

Stale(r) == r.age > StaleAfter

(* Mutant of Claimable: the staleness comparison lets the margin through. *)
ClaimableEarly(r) ==
  \/ r.status = "pending" /\ r.ripe
  \/ r.status = "running" /\ r.age >= StaleAfter /\ r.attempts < MaxAttempts

(* Mutant of Claimable: abandoned rows are not reclaimed. *)
ClaimableOncePending(r) == r.status = "pending" /\ r.ripe

Claimable(r) ==
  \/ r.status = "pending" /\ r.ripe
  \/ r.status = "running" /\ Stale(r) /\ r.attempts < MaxAttempts

Claimed(r) == Row("running", r.attempts + 1, 0, TRUE, r.id)

(* Mutant of MarkedDone: a status the CHECK of the table does not know. *)
MarkedCompleted(r) == Row("completed", r.attempts, 0, TRUE, r.id)

MarkedDone(r) == Row("done", r.attempts, 0, TRUE, r.id)

MarkedFailed(r) == Row("failed", r.attempts, 0, TRUE, r.id)

(* Mutant of MarkedRetry: one retry too many. *)
MarkedRetryOnceMore(r) ==
  IF r.attempts > MaxAttempts
  THEN MarkedFailed(r)
  ELSE Row("pending", r.attempts, 0, FALSE, r.id)

(* Back to the queue after a delay, or failed when no attempt is left. *)
MarkedRetry(r) ==
  IF r.attempts >= MaxAttempts
  THEN MarkedFailed(r)
  ELSE Row("pending", r.attempts, 0, FALSE, r.id)

(* GREATEST(attempts - 1, 0): the attempt TakeNext counted is given back. *)
MarkedWaitingForCredits(r) ==
  Row("pending", IF r.attempts > 0 THEN r.attempts - 1 ELSE 0, 0, FALSE, r.id)

Heartbeaten(r) ==
  IF r.status = "running" THEN Row(r.status, r.attempts, 0, r.ripe, r.id) ELSE r

(* A tick of the clock, as the staleness condition sees it. *)
Aged(r) ==
  IF r.status = "running" /\ ~Stale(r)
  THEN Row(r.status, r.attempts, r.age + 1, r.ripe, r.id) ELSE r

(* available_at has come. *)
Ripened(r) == Row(r.status, r.attempts, r.age, TRUE, r.id)
=============================================================================
