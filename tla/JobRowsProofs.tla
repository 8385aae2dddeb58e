--------------------------- MODULE JobRowsProofs ---------------------------
(***************************************************************************)
(* Facts about one row of processing_jobs that the modules with a table of *)
(* them build on.                                                          *)
(***************************************************************************)
EXTENDS JobRows, TLAPS

(* The row that is not there is typed like the others. *)
LEMMA NoRowType == NoRow \in Rows
  BY StaleAfterAssumption DEF NoRow, Row, Rows, JobStatus, LockAges

(* What one step may do to one row: at most one statement, under the guard *)
(* the statement or its caller has.                                        *)
RowStep(r, q) ==
  \/ q = r \/ q = Enqueued(r) \/ q = Removed(r) \/ q = Heartbeaten(r) \/ q = Aged(r)
  \/ q = MarkedDone(r) \/ q = MarkedFailed(r)
  \/ q = MarkedRetry(r) \/ q = MarkedWaitingForCredits(r)
  \/ q = Inserted(r) /\ ~Present(r)
  \/ q = Claimed(r) /\ Claimable(r)
  \/ q = Ripened(r)

(* The part of AttemptsWithinBudget that speaks of one row. *)
RowBudget(r) ==
  r.attempts <= MaxAttempts /\ (r.status = "pending" => r.attempts < MaxAttempts)

(* Every statement on a row keeps its type. *)
LEMMA RowStepType ==
  ASSUME NEW r \in Rows, NEW q, RowStep(r, q)
  PROVE  q \in Rows
<1>0. 0 \in LockAges /\ (r.age \in LockAges /\ ~Stale(r) => r.age + 1 \in LockAges)
  BY StaleAfterAssumption DEF LockAges, Stale
<1> USE <1>0, MaxAttemptsAssumption DEF Rows, Row, JobStatus
<1>1. CASE q = r
  BY <1>1
<1>10. CASE q = Removed(r)
  BY <1>10 DEF Removed
<1>8. CASE q = Enqueued(r)
  <2>1. CASE r.status = "none"
    BY <1>8, <2>1 DEF Enqueued, Inserted
  <2>2. CASE r.status = "running"
    BY <1>8, <2>2 DEF Enqueued
  <2>3. CASE r.status \notin {"none", "running"}
    BY <1>8, <2>3 DEF Enqueued
  <2> QED
    BY <2>1, <2>2, <2>3
<1>2. CASE q = Heartbeaten(r) \/ q = Aged(r)
  BY <1>2 DEF Heartbeaten, Aged
<1>3. CASE q = MarkedDone(r)
  BY <1>3 DEF MarkedDone
<1>11. CASE q = MarkedFailed(r)
  BY <1>11 DEF MarkedFailed
<1>9. CASE q = MarkedRetry(r)
  BY <1>9 DEF MarkedRetry, MarkedFailed
<1>4. CASE q = MarkedWaitingForCredits(r)
  <2>1. \A a \in Nat : (IF a > 0 THEN a - 1 ELSE 0) \in Nat
    OBVIOUS
  <2> QED
    BY <1>4, <2>1 DEF MarkedWaitingForCredits
<1>5. CASE q = Inserted(r)
  BY <1>5 DEF Inserted
<1>6. CASE q = Claimed(r)
  BY <1>6 DEF Claimed
<1>7. CASE q = Ripened(r)
  BY <1>7 DEF Ripened
<1> QED
  BY <1>1, <1>2, <1>3, <1>4, <1>5, <1>6, <1>7, <1>8, <1>9, <1>10, <1>11 DEF RowStep

(* Every statement on a row keeps its attempts within their budget. *)
LEMMA RowStepBudget ==
  ASSUME NEW r \in Rows, NEW q, RowStep(r, q), RowBudget(r)
  PROVE  RowBudget(q)
<1> USE MaxAttemptsAssumption DEF Rows, Row, JobStatus, RowBudget
<1>1. CASE q = r
  BY <1>1
<1>10. CASE q = Removed(r)
  BY <1>10 DEF Removed
<1>8. CASE q = Enqueued(r)
  BY <1>8 DEF Enqueued, Inserted
<1>2. CASE q = Heartbeaten(r) \/ q = Aged(r)
  BY <1>2 DEF Heartbeaten, Aged
<1>3. CASE q = MarkedDone(r)
  BY <1>3 DEF MarkedDone
<1>11. CASE q = MarkedFailed(r)
  BY <1>11 DEF MarkedFailed
<1>9. CASE q = MarkedRetry(r)
  BY <1>9 DEF MarkedRetry, MarkedFailed
<1>4. CASE q = MarkedWaitingForCredits(r)
  BY <1>4 DEF MarkedWaitingForCredits
<1>5. CASE q = Inserted(r)
  BY <1>5 DEF Inserted
<1>6. CASE q = Claimed(r) /\ Claimable(r)
  BY <1>6 DEF Claimed, Claimable
<1>7. CASE q = Ripened(r)
  BY <1>7 DEF Ripened
<1> QED
  BY <1>1, <1>2, <1>3, <1>4, <1>5, <1>6, <1>7, <1>8, <1>9, <1>10, <1>11 DEF RowStep
=============================================================================
