----------------------- MODULE ProcessingQueueProofs -----------------------
(***************************************************************************)
(* Theorems about ProcessingQueue for every value of its constants.        *)
(***************************************************************************)
EXTENDS ProcessingQueue, JobRowsProofs, FiniteSetTheorems, TLAPS

(* Every step of the system is a RowStep on every row. *)
LEMMA NextRows ==
  ASSUME rows \in [Jobs -> Rows], [Next]_vars
  PROVE  /\ rows' = [j \in Jobs |-> rows'[j]]
         /\ \A j \in Jobs : RowStep(rows[j], rows'[j])
<1> DEFINE Goal == /\ rows' = [i \in Jobs |-> rows'[i]]
                   /\ \A i \in Jobs : RowStep(rows[i], rows'[i])
<1> USE DEF RowStep
<1>1. ASSUME NEW k \in Jobs, Insert(k) \/ Enqueue(k) \/ Ripen(k)
      PROVE  Goal
  BY <1>1 DEF Insert, Enqueue, Ripen
<1>2. ASSUME NEW c, Remove(c)
      PROVE  Goal
  BY <1>2 DEF Remove
<1>3. ASSUME NEW w \in Workers, NEW k \in Jobs, NEW g \in Goroutines, TakeNext(w, k, g)
      PROVE  Goal
  BY <1>3 DEF TakeNext
<1>4. ASSUME NEW w \in Workers,
             \/ TakeNothing(w) \/ WaitReturns(w) \/ TakeCancelled(w)
             \/ TakeErrs(w) \/ Crash(w)
      PROVE  rows' = rows
  BY <1>4 DEF TakeNothing, WaitReturns, TakeCancelled, TakeErrs, LeaveBatch, Crash
<1>5. ASSUME NEW g \in Goroutines, Start(g) \/ Abandon(g) \/ ReportFails(g)
      PROVE  rows' = rows
  BY <1>5 DEF Start, Abandon, ReportFails
<1>6. ASSUME NEW g \in Goroutines,
             Complete(g) \/ FailPermanently(g) \/ FailForNow(g) \/ WaitForCredits(g)
      PROVE  Goal
  BY <1>6 DEF Complete, FailPermanently, FailForNow, WaitForCredits, Report
<1>7. ASSUME NEW g \in Goroutines, Heartbeat(g)
      PROVE  Goal
  BY <1>7 DEF Heartbeat
<1>8. CASE Tick
  BY <1>8 DEF Tick
<1>9. CASE TopUp \/ UNCHANGED vars
  BY <1>9 DEF TopUp, vars
<1> QED
  BY <1>1, <1>2, <1>3, <1>4, <1>5, <1>6, <1>7, <1>8, <1>9 DEF Next, Finish

-----------------------------------------------------------------------------
(* The fields of a claim have their types. *)
LEMMA ClaimFields ==
  ASSUME NEW c \in Claims
  PROVE  /\ c # Free
         /\ c.pc \in {"blocked", "work"} /\ c.worker \in Workers /\ c.batch \in Batches
         /\ c.job \in Jobs /\ c.id \in Nat /\ c.quiet \in 0 .. MaxQuiet
         /\ [c EXCEPT !.pc = "work"] \in Claims
         /\ [c EXCEPT !.quiet = 0] \in Claims
         /\ c.quiet < MaxQuiet => [c EXCEPT !.quiet = @ + 1] \in Claims
<1>1. 0 \in 0 .. MaxQuiet
  BY QuietAssumption
<1>2. c.quiet \in 0 .. MaxQuiet /\ c.quiet < MaxQuiet => c.quiet + 1 \in 0 .. MaxQuiet
  BY QuietAssumption
<1> QED
  BY <1>1, <1>2 DEF Claims, Free

(* Type correctness: every variable of the queue and of the workers stays *)
(* in its type in every behaviour.                                        *)
THEOREM TypeCorrect == Spec => []TypeOK
<1>1. Init => TypeOK
  <2> SUFFICES ASSUME Init PROVE TypeOK
    OBVIOUS
  <2>1. NoRow \in Rows
    BY NoRowType
  <2> QED
    BY <2>1, BoundsAssumption DEF Init, TypeOK
<1>2. TypeOK /\ [Next]_vars => TypeOK'
  <2> SUFFICES ASSUME TypeOK, [Next]_vars PROVE TypeOK'
    OBVIOUS
  <2>1. rows' \in [Jobs -> Rows]
    <3>1. \A j \in Jobs : rows'[j] \in Rows
      BY NextRows, RowStepType DEF TypeOK
    <3> QED
      BY <3>1, NextRows DEF TypeOK
  <2> DEFINE Others == /\ holder' \in [Jobs -> Goroutines \cup {Nobody}]
                       /\ gor' \in [Goroutines -> Claims \cup {Free}]
                       /\ phase' \in [Workers -> {"take", "wait"}]
                       /\ batch' \in [Workers -> Batches]
                       /\ dead' \in SUBSET (Workers \X Batches)
                       /\ funded' \in BOOLEAN
                       /\ faults' \in 0 .. MaxFaults
                       /\ requests' \in 0 .. MaxRequests
  <2> USE BoundsAssumption DEF TypeOK
  <2>2. ASSUME NEW j \in Jobs, Insert(j) \/ Enqueue(j) \/ Ripen(j)
        PROVE  Others
    BY <2>2 DEF Insert, Enqueue, Ripen, workerVars, boundVars
  <2>3. ASSUME NEW c, Remove(c)
        PROVE  Others
    BY <2>3 DEF Remove, workerVars, boundVars
  <2>4. ASSUME NEW w \in Workers, NEW j \in Jobs, NEW g \in Goroutines, TakeNext(w, j, g)
        PROVE  Others
    <3>1. [pc |-> "blocked", worker |-> w, batch |-> batch[w], job |-> j,
           id |-> rows[j].id, quiet |-> 0] \in Claims
      BY QuietAssumption DEF Claims, Rows
    <3> QED
      BY <2>4, <3>1 DEF TakeNext, boundVars
  <2>5. ASSUME NEW w \in Workers, TakeNothing(w) \/ WaitReturns(w)
        PROVE  Others
    BY <2>5 DEF TakeNothing, WaitReturns, boundVars
  <2>6. ASSUME NEW w \in Workers, TakeCancelled(w) \/ TakeErrs(w)
        PROVE  Others
    BY <2>6 DEF TakeCancelled, TakeErrs, LeaveBatch
  <2>7. ASSUME NEW w \in Workers, Crash(w)
        PROVE  Others
    BY <2>7 DEF Crash
  <2>8. ASSUME NEW g \in Goroutines, Start(g) \/ Heartbeat(g)
        PROVE  Others
    <3>1. gor[g] \in Claims
      BY <2>8 DEF Start, Heartbeat, Free
    <3> QED
      BY <2>8, <3>1, ClaimFields DEF Start, Heartbeat, boundVars
  <2>9. ASSUME NEW g \in Goroutines,
               \/ Complete(g) \/ FailPermanently(g) \/ FailForNow(g) \/ WaitForCredits(g)
               \/ Abandon(g) \/ ReportFails(g)
        PROVE  Others
    <3>1. gor[g].pc = "work"
      BY <2>9 DEF Complete, FailPermanently, FailForNow, WaitForCredits, Report,
                  Abandon, ReportFails
    <3>2. gor[g] \in Claims
      BY <3>1 DEF Free
    <3>3. <<gor[g].worker, gor[g].batch>> \in Workers \X Batches
      BY <3>2, ClaimFields
    <3> QED
      BY <2>9, <3>3 DEF Complete, FailPermanently, FailForNow, WaitForCredits, Report,
                        Abandon, ReportFails, boundVars
  <2>10. ASSUME Tick PROVE Others
    <3>1. ASSUME NEW g \in Goroutines, gor[g].pc = "work"
          PROVE  [gor[g] EXCEPT !.quiet = @ + 1] \in Claims
      <4>1. gor[g].quiet < MaxQuiet
        BY <2>10, <3>1 DEF Tick
      <4>2. gor[g] \in Claims
        BY <3>1 DEF Free
      <4> QED
        BY <4>1, <4>2, ClaimFields
    <3> QED
      BY <2>10, <3>1 DEF Tick, boundVars
  <2>11. CASE TopUp \/ UNCHANGED vars
    BY <2>11 DEF TopUp, vars, workerVars, boundVars
  <2> QED
    BY <2>1, <2>2, <2>3, <2>4, <2>5, <2>6, <2>7, <2>8, <2>9, <2>10, <2>11 DEF Next, Finish
<1> QED
  BY <1>1, <1>2, PTL DEF Spec

(* No row ever counts more attempts than it has, and a waiting row has one *)
(* left, whoever reports on it and however late (update_status.go,         *)
(* take_next.go).                                                          *)
THEOREM AttemptsSafe == Spec => []AttemptsWithinBudget
<1>1. Init => AttemptsWithinBudget
  BY MaxAttemptsAssumption DEF Init, AttemptsWithinBudget, NoRow, Row
<1>2. TypeOK /\ AttemptsWithinBudget /\ [Next]_vars => AttemptsWithinBudget'
  <2> SUFFICES ASSUME TypeOK, AttemptsWithinBudget, [Next]_vars, NEW j \in Jobs
               PROVE  RowBudget(rows'[j])
    BY DEF AttemptsWithinBudget, RowBudget
  <2>1. rows[j] \in Rows /\ RowBudget(rows[j])
    BY DEF TypeOK, AttemptsWithinBudget, RowBudget
  <2>2. RowStep(rows[j], rows'[j])
    BY NextRows DEF TypeOK
  <2> QED
    BY <2>1, <2>2, RowStepBudget
<1> QED
  BY <1>1, <1>2, TypeCorrect, PTL DEF Spec

-----------------------------------------------------------------------------
(* A goroutine whose claim still names a row of the table holds that row:  *)
(* it runs, nobody claimed it since, and its lock is no older than the     *)
(* goroutine has been quiet.  The last part makes ClaimKept inductive: it  *)
(* is why no claim held in good health is ever stale.                      *)
Holds(g) ==
  LET j == gor[g].job IN
    /\ gor[g].id <= rows[j].id
    /\ Present(rows[j]) /\ rows[j].id = gor[g].id =>
         rows[j].status = "running" /\ holder[j] = g /\ rows[j].age <= gor[g].quiet

ClaimInv == \A g \in Goroutines : gor[g].pc # "free" => Holds(g)

(* No claimed job waits for room in its errgroup. *)
NoClaimWaits ==
  \A g \in Goroutines :
    gor[g].pc = "blocked" => HasRoom(gor[g].worker, gor[g].batch)

(* A busy goroutine has a typed claim, quiet for less than the margin. *)
LEMMA HolderTypes ==
  ASSUME TypeOK, NEW g \in Goroutines, gor[g].pc # "free"
  PROVE  /\ gor[g] \in Claims /\ gor[g].pc \in {"blocked", "work"}
         /\ gor[g].job \in Jobs /\ gor[g].id \in Nat
         /\ gor[g].quiet \in Nat /\ gor[g].quiet <= StaleAfter
<1>1. gor[g] \in Claims
  BY DEF TypeOK, Free
<1>2. /\ gor[g].pc \in {"blocked", "work"} /\ gor[g].job \in Jobs
      /\ gor[g].id \in Nat /\ gor[g].quiet \in 0 .. MaxQuiet
  BY <1>1 DEF Claims
<1>3. \A q \in 0 .. MaxQuiet : q \in Nat /\ q <= StaleAfter
  BY QuietAssumption, StaleAfterAssumption
<1> QED
  BY <1>1, <1>2, <1>3

(* What a step leaves alone it leaves held. *)
LEMMA StillHolds ==
  ASSUME NEW g \in Goroutines, Holds(g),
         gor'[g].job = gor[g].job, gor'[g].id = gor[g].id, gor'[g].quiet = gor[g].quiet,
         rows'[gor[g].job] = rows[gor[g].job], holder'[gor[g].job] = holder[gor[g].job]
  PROVE  Holds(g)'
BY DEF Holds

(* The statements that put a row back in the queue find no holder: the id *)
(* moves on, or the row was not running.                                  *)
LEMMA RequestsKeepClaims ==
  ASSUME TypeOK, ClaimInv, NEW k \in Jobs, Insert(k) \/ Enqueue(k) \/ Ripen(k)
  PROVE  ClaimInv'
<1> SUFFICES ASSUME NEW g \in Goroutines, gor'[g].pc # "free"
             PROVE  Holds(g)'
  BY DEF ClaimInv
<1>1. gor' = gor /\ holder' = holder
  BY DEF Insert, Enqueue, Ripen, workerVars
<1>2. Holds(g) /\ gor[g] \in Claims
  BY <1>1 DEF ClaimInv, TypeOK, Free
<1>3. gor[g].job \in Jobs /\ gor[g].id \in Nat
  BY <1>2, ClaimFields
<1>4. CASE gor[g].job # k
  BY <1>1, <1>2, <1>3, <1>4, StillHolds DEF Insert, Enqueue, Ripen, TypeOK
<1>5. CASE gor[g].job = k
  <2> DEFINE r == rows[k]
  <2>1. r.id \in Nat /\ rows'[k] \in {Inserted(r), Enqueued(r), Ripened(r)}
    BY DEF Insert, Enqueue, Ripen, TypeOK, Rows
  <2>2. CASE rows'[k] = Inserted(r)
    BY <1>1, <1>2, <1>3, <1>5, <2>1, <2>2 DEF Inserted, Row, Holds
  <2>3. CASE rows'[k] = Enqueued(r) /\ r.status = "running"
    BY <1>1, <1>2, <1>5, <2>3, StillHolds DEF Enqueued
  <2>4. CASE rows'[k] = Enqueued(r) /\ r.status \notin {"none", "running"}
    <3>1. rows'[k].id = r.id /\ Present(r)
      BY <2>4 DEF Enqueued, Row, Present
    <3> QED
      BY <1>1, <1>2, <1>5, <2>4, <3>1 DEF Holds
  <2>5. CASE Ripen(k)
    BY <1>1, <1>2, <1>5, <2>5 DEF Ripen, Ripened, Row, Holds, Present, TypeOK
  <2>6. CASE rows'[k] = Enqueued(r) /\ r.status = "none"
    BY <2>2, <2>6 DEF Enqueued
  <2> QED
    BY <2>2, <2>3, <2>4, <2>5, <2>6 DEF Insert, Enqueue, TypeOK
<1> QED
  BY <1>4, <1>5

(* A removed row is found by nobody, so removing breaks no claim. *)
LEMMA RemovalKeepsClaims ==
  ASSUME TypeOK, ClaimInv, NEW c, Remove(c)
  PROVE  ClaimInv'
<1> SUFFICES ASSUME NEW g \in Goroutines, gor'[g].pc # "free"
             PROVE  Holds(g)'
  BY DEF ClaimInv
<1>1. gor' = gor /\ holder' = holder
  BY DEF Remove, workerVars
<1>2. Holds(g) /\ gor[g] \in Claims
  BY <1>1 DEF ClaimInv, TypeOK, Free
<1>3. gor[g].job \in Jobs
  BY <1>2, ClaimFields
<1> QED
  BY <1>1, <1>2, <1>3 DEF Remove, Removed, Row, Present, Holds

(* A claim in good health is not stale, so nobody else can claim the row. *)
LEMMA ClaimingKeepsClaims ==
  ASSUME TypeOK, ClaimInv,
         NEW w \in Workers, NEW k \in Jobs, NEW h \in Goroutines, TakeNext(w, k, h)
  PROVE  ClaimInv'
<1> SUFFICES ASSUME NEW g \in Goroutines, gor'[g].pc # "free"
             PROVE  Holds(g)'
  BY DEF ClaimInv
<1>1. /\ rows' = [rows EXCEPT ![k] = Claimed(rows[k])]
      /\ holder' = [holder EXCEPT ![k] = h]
      /\ Claimable(rows[k])
  BY DEF TakeNext
<1>2. rows[k].id \in Nat /\ rows[k] \in Rows
  BY DEF TypeOK, Rows
<1>3. CASE g = h
  <2>1. gor'[g].job = k /\ gor'[g].id = rows[k].id /\ gor'[g].quiet = 0
    BY <1>3 DEF TakeNext, TypeOK
  <2>2. /\ rows'[k].status = "running" /\ rows'[k].age = 0
        /\ rows'[k].id = rows[k].id /\ holder'[k] = h
    BY <1>1 DEF Claimed, Row, TypeOK
  <2> QED
    BY <1>2, <1>3, <2>1, <2>2 DEF Holds
<1>4. CASE g # h
  <2>1. gor'[g] = gor[g] /\ gor[g].pc # "free" /\ Holds(g)
    BY <1>4 DEF TakeNext, TypeOK, ClaimInv
  <2>2. gor[g].job \in Jobs /\ gor[g].quiet <= StaleAfter /\ gor[g].quiet \in Nat
    BY <2>1, HolderTypes
  <2>3. CASE gor[g].job # k
    BY <1>1, <2>1, <2>2, <2>3, StillHolds DEF TypeOK
  <2>4. CASE gor[g].job = k
    <3>1. rows'[k].id = rows[k].id /\ Present(rows[k])
      BY <1>1 DEF Claimed, Row, Claimable, Present, TypeOK
    <3>2. rows[k].age \in Nat
      BY <1>2, StaleAfterAssumption DEF Rows, LockAges
    <3>3. gor[g].id # rows[k].id
      <4> SUFFICES ASSUME gor[g].id = rows[k].id PROVE FALSE
        OBVIOUS
      <4>1. rows[k].status = "running" /\ rows[k].age <= gor[g].quiet
        BY <2>1, <2>4, <3>1 DEF Holds
      <4>2. ~Stale(rows[k])
        BY <2>2, <3>2, <4>1, StaleAfterAssumption DEF Stale
      <4> QED
        BY <1>1, <4>1, <4>2 DEF Claimable
    <3> QED
      BY <2>1, <2>4, <3>1, <3>3 DEF Holds
  <2> QED
    BY <2>3, <2>4
<1> QED
  BY <1>3, <1>4

(* Two holders of one row would be the same goroutine, so nobody loses a *)
(* row because somebody else reports.                                    *)
LEMMA ReportsKeepClaims ==
  ASSUME TypeOK, ClaimInv, NEW h \in Goroutines,
         Complete(h) \/ FailPermanently(h) \/ FailForNow(h) \/ WaitForCredits(h)
  PROVE  ClaimInv'
<1> SUFFICES ASSUME NEW g \in Goroutines, gor'[g].pc # "free"
             PROVE  Holds(g)'
  BY DEF ClaimInv
<1> DEFINE k == gor[h].job
<1>1. /\ gor[h].pc = "work"
      /\ gor' = [gor EXCEPT ![h] = Free]
      /\ holder' = holder
  BY DEF Complete, FailPermanently, FailForNow, WaitForCredits, Report
<1>2. g # h /\ gor'[g] = gor[g] /\ gor[g] \in Claims /\ Holds(g)
  BY <1>1 DEF TypeOK, ClaimInv, Free
<1>3. gor[g].job \in Jobs
  BY <1>2, ClaimFields
<1>4. CASE ~Finds(h)
  <2>1. rows' = rows
    BY <1>4 DEF Complete, FailPermanently, FailForNow, WaitForCredits, Report
  <2> QED
    BY <1>1, <1>2, <2>1, StillHolds
<1>5. CASE Finds(h)
  <2>1. PICK q : q.id = rows[k].id /\ rows' = [rows EXCEPT ![k] = q]
    BY <1>5 DEF Complete, FailPermanently, FailForNow, WaitForCredits, Report, Row,
                MarkedDone, MarkedFailed, MarkedRetry, MarkedWaitingForCredits
  <2>2. CASE gor[g].job # k
    BY <1>1, <1>2, <1>3, <2>1, <2>2, StillHolds DEF TypeOK
  <2>3. CASE gor[g].job = k
    <3>1. Holds(h) /\ holder[k] = h /\ Present(rows[k])
      BY <1>1, <1>5 DEF ClaimInv, Holds, Finds
    <3>2. gor[g].id # rows[k].id
      BY <1>2, <2>3, <3>1 DEF Holds
    <3>3. rows'[k].id = rows[k].id
      BY <1>3, <2>1, <2>3 DEF TypeOK
    <3> QED
      BY <1>2, <2>3, <3>2, <3>3 DEF Holds
  <2> QED
    BY <2>2, <2>3
<1> QED
  BY <1>4, <1>5

(* A heartbeat makes locks younger, and quiets only its own goroutine. *)
LEMMA HeartbeatsKeepClaims ==
  ASSUME TypeOK, ClaimInv, NEW h \in Goroutines, Heartbeat(h)
  PROVE  ClaimInv'
<1> SUFFICES ASSUME NEW g \in Goroutines, gor'[g].pc # "free"
             PROVE  Holds(g)'
  BY DEF ClaimInv
<1>1. gor' = [gor EXCEPT ![h] = [gor[h] EXCEPT !.quiet = 0]] /\ holder' = holder
  BY DEF Heartbeat
<1>2. gor[h] \in Claims /\ gor[h].pc = "work" /\ gor[h].job \in Jobs
  <2>1. gor[h].pc = "work"
    BY DEF Heartbeat
  <2> QED
    BY <2>1, HolderTypes
<1>3. gor[g].pc # "free"
  BY <1>1, <1>2 DEF TypeOK
<1>4. /\ Holds(g) /\ gor[g] \in Claims /\ gor[g].job \in Jobs
      /\ gor[g].quiet \in Nat
  BY <1>3, HolderTypes DEF ClaimInv
<1>5. gor'[g].job = gor[g].job /\ gor'[g].id = gor[g].id
  BY <1>1, <1>2, <1>4 DEF Claims, TypeOK
<1> DEFINE j == gor[g].job
<1>6. rows'[j] = rows[j] \/ rows'[j] = Heartbeaten(rows[j])
  BY <1>4 DEF Heartbeat, TypeOK
<1>7. g = h => rows'[j] = Heartbeaten(rows[j])
  BY <1>4 DEF Heartbeat, TypeOK
<1>8. /\ rows'[j].id = rows[j].id /\ rows'[j].status = rows[j].status
      /\ rows'[j].age = rows[j].age \/ rows'[j].age = 0
      /\ g = h /\ rows[j].status = "running" => rows'[j].age = 0
  BY <1>6, <1>7 DEF Heartbeaten, Row
<1>9. gor[g].quiet \in Nat /\ (g # h => gor'[g].quiet = gor[g].quiet)
      /\ (g = h => gor'[g].quiet = 0)
  BY <1>1, <1>2, <1>4 DEF Claims, TypeOK
<1> QED
  BY <1>1, <1>4, <1>5, <1>8, <1>9 DEF Holds, Present

(* A tick ages a lock and its goroutine alike, unless the goroutine has not *)
(* started.                                                                 *)
LEMMA TicksKeepClaims ==
  ASSUME TypeOK, ClaimInv, NoClaimWaits, Tick
  PROVE  ClaimInv'
<1> SUFFICES ASSUME NEW g \in Goroutines, gor'[g].pc # "free"
             PROVE  Holds(g)'
  BY DEF ClaimInv
<1>1. /\ gor'[g] = IF gor[g].pc = "work" THEN [gor[g] EXCEPT !.quiet = @ + 1] ELSE gor[g]
      /\ holder' = holder
  BY DEF Tick
<1>2. gor[g].pc # "free" /\ gor[g].pc # "blocked"
  BY <1>1 DEF NoClaimWaits, Tick
<1>3. /\ gor[g] \in Claims /\ gor[g].pc = "work" /\ gor[g].job \in Jobs
      /\ gor[g].quiet \in Nat /\ Holds(g)
  BY <1>2, HolderTypes DEF ClaimInv
<1>4. /\ gor'[g].job = gor[g].job /\ gor'[g].id = gor[g].id
      /\ gor'[g].quiet = gor[g].quiet + 1
  BY <1>1, <1>2, <1>3 DEF Claims
<1> DEFINE j == gor[g].job
<1>5. rows'[j] = Aged(rows[j]) /\ rows[j].age \in Nat
  BY <1>3, StaleAfterAssumption DEF Tick, TypeOK, Rows, LockAges
<1>6. /\ rows'[j].id = rows[j].id /\ rows'[j].status = rows[j].status
      /\ rows'[j].age = rows[j].age \/ rows'[j].age = rows[j].age + 1
  BY <1>5 DEF Aged, Row
<1> QED
  BY <1>1, <1>3, <1>4, <1>5, <1>6 DEF Holds, Present

(* Every step of the system keeps the claims of the healthy. *)
LEMMA NextKeepsClaims ==
  ASSUME TypeOK, ClaimInv, NoClaimWaits, [Next]_vars
  PROVE  ClaimInv'
<1>1. ASSUME NEW w \in Workers,
             \/ TakeNothing(w) \/ WaitReturns(w) \/ TakeCancelled(w)
             \/ TakeErrs(w) \/ Crash(w)
      PROVE  ClaimInv'
  <2>1. /\ rows' = rows /\ holder' = holder
        /\ \A g \in Goroutines : gor'[g] = gor[g] \/ gor'[g] = Free
    BY <1>1 DEF TakeNothing, WaitReturns, TakeCancelled, TakeErrs, LeaveBatch, Crash, TypeOK
  <2> QED
    BY <2>1, StillHolds DEF ClaimInv, Free
<1>2. ASSUME NEW h \in Goroutines, Abandon(h) \/ ReportFails(h)
      PROVE  ClaimInv'
  <2>1. /\ rows' = rows /\ holder' = holder
        /\ \A g \in Goroutines : gor'[g] = gor[g] \/ gor'[g] = Free
    BY <1>2 DEF Abandon, ReportFails, TypeOK
  <2> QED
    BY <2>1, StillHolds DEF ClaimInv, Free
<1>3. ASSUME NEW h \in Goroutines, Start(h)
      PROVE  ClaimInv'
  <2>1. /\ rows' = rows /\ holder' = holder
        /\ gor' = [gor EXCEPT ![h] = [gor[h] EXCEPT !.pc = "work"]]
        /\ gor[h] \in Claims /\ gor[h].pc # "free"
    BY <1>3 DEF Start, TypeOK, Free
  <2>2. ASSUME NEW g \in Goroutines
        PROVE  /\ gor'[g].pc # "free" => gor[g].pc # "free"
               /\ gor'[g].job = gor[g].job /\ gor'[g].id = gor[g].id
               /\ gor'[g].quiet = gor[g].quiet
    BY <2>1 DEF Claims, TypeOK
  <2> QED
    BY <2>1, <2>2, StillHolds DEF ClaimInv
<1>4. CASE TopUp \/ UNCHANGED vars
  <2>1. rows' = rows /\ holder' = holder /\ gor' = gor
    BY <1>4 DEF TopUp, vars, workerVars
  <2> QED
    BY <2>1, StillHolds DEF ClaimInv
<1> QED
  BY <1>1, <1>2, <1>3, <1>4, RequestsKeepClaims, RemovalKeepsClaims, ClaimingKeepsClaims,
     ReportsKeepClaims, HeartbeatsKeepClaims, TicksKeepClaims DEF Next, Finish

(* As long as no claimed job waits for room, a healthy goroutine keeps its *)
(* claim until it reports: this is what worker.go:26 and heartbeat.go:9    *)
(* promise, and waiting for room is the only way to break it.              *)
THEOREM ClaimsSafe == Spec /\ []NoClaimWaits => []ClaimKept
<1>1. Init => ClaimInv
  BY DEF Init, ClaimInv, Free
<1>2. TypeOK /\ ClaimInv /\ NoClaimWaits /\ [Next]_vars => ClaimInv'
  BY NextKeepsClaims
<1>3. ClaimInv => ClaimKept
  BY DEF ClaimInv, ClaimKept, Holds, Finds
<1> QED
  BY <1>1, <1>2, <1>3, TypeCorrect, PTL DEF Spec

(* In a group with room for every goroutine no claim waits to start. *)
LEMMA RoomForAll ==
  ASSUME Cardinality(Goroutines) <= Limit,
         NEW g \in Goroutines, gor[g].pc = "blocked"
  PROVE  HasRoom(gor[g].worker, gor[g].batch)
<1> DEFINE W == Working(gor[g].worker, gor[g].batch)
<1>1. W \subseteq Goroutines \ {g}
  BY DEF Working, Claiming
<1>2. /\ IsFiniteSet(Goroutines \ {g})
      /\ Cardinality(Goroutines \ {g}) = Cardinality(Goroutines) - 1
  BY FiniteAssumption, FS_RemoveElement
<1>3. Cardinality(W) <= Cardinality(Goroutines \ {g})
  BY <1>1, <1>2, FS_Subset
<1>4. Cardinality(W) \in Nat /\ Cardinality(Goroutines) \in Nat
  BY <1>1, <1>2, FiniteAssumption, FS_Subset, FS_CardinalityType
<1> QED
  BY <1>2, <1>3, <1>4, LimitAssumption DEF HasRoom

(* With no more claims at a time than one errgroup has room for, every *)
(* healthy goroutine keeps its claim (worker.go:26, heartbeat.go:9).   *)
THEOREM ClaimsSafeWithRoom ==
  ASSUME Cardinality(Goroutines) <= Limit
  PROVE  Spec => []ClaimKept
<1>1. NoClaimWaits
  BY RoomForAll DEF NoClaimWaits
<1> QED
  BY <1>1, ClaimsSafe, PTL
=============================================================================
