---------------------------- MODULE CreditLedger ----------------------------
(***************************************************************************)
(* The credits of one billing account: repository/billing with the meter   *)
(* of service/billing on top.  A worker reserves the maximum an operation  *)
(* may cost, marks it as running, calls the provider and settles the cost; *)
(* meanwhile a cancelled call hands its reservations back, the             *)
(* reconciliation worker goes over what is older than 45 minutes, grants   *)
(* open and expire, and the owner edits caps.                              *)
(*                                                                         *)
(* Each transaction of the repository is one step: those that move credits *)
(* are serializable and lock the account.  What happens between two        *)
(* transactions is where the processes interleave.  The postings of the    *)
(* double-entry ledger are kept as the balances they add up to: available  *)
(* per grant, taken and spent per operation and grant.  What the provider  *)
(* costs above the maximum is the vendor's loss, outside this account.     *)
(***************************************************************************)
EXTENDS Naturals, FiniteSets, Functions

CONSTANTS
  NumGrants,   \* grants are numbered in the order they are spent
  Size,        \* Grants -> credits posted when the grant opens
  Ops,         \* operations, one per idempotency key
  Maximum,     \* Ops -> maximum_charge_credits
  CallOf,      \* Ops -> the call the operation is for
  Subjects,    \* companies, departments and applications with a cap
  Under,       \* Ops -> the subjects whose cap the operation counts for
  Caps,        \* caps an owner may set
  NoCap,       \* no row in the table of caps
  Costs,       \* what a provider may turn out to cost, in credits
  Workers,     \* goroutines that run operations
  ReconcileBatch,  \* rows of this account among the 200 the reconciler takes at once
  MaxFaults,   \* provider failures and crashes in a behaviour (bound)
  MaxEdits     \* edits of caps in a behaviour (bound)

Grants == 1 .. NumGrants

ASSUME GrantsAssumption == NumGrants \in Nat /\ Size \in [Grants -> Nat]
ASSUME OpsAssumption ==
  /\ IsFiniteSet(Ops)
  /\ Maximum \in [Ops -> Nat] /\ Under \in [Ops -> SUBSET Subjects]
ASSUME CapsAssumption == Caps \subseteq Nat /\ NoCap \notin Nat
ASSUME CostsAssumption == Costs \subseteq Nat
ASSUME BatchAssumption == ReconcileBatch \in Nat \ {0}
ASSUME BoundsAssumption == MaxFaults \in Nat /\ MaxEdits \in Nat

VARIABLES
  available,   \* Grants -> balance of its customer_available account
  opened,      \* the grants that exist
  expired,     \* those whose expires_at has passed
  op,          \* Ops -> its row in usage_operations
  before,      \* Ops -> the operations whose started_at is earlier
  taken,       \* Ops -> Grants -> reserved_credits of usage_operation_reservations
  spent,       \* Ops -> Grants -> settled_credits there
  cap,         \* Subjects -> limit_credits
  worker,      \* Workers -> the next transaction and what it is about
  listed,      \* Releasers -> the operations read as reserved and not done yet
  faults, edits

grantVars == <<available, opened, expired>>
opVars == <<op, taken, spent>>
boundVars == <<faults, edits>>
vars == <<available, opened, expired, op, before, taken, spent, cap, worker, listed,
          faults, edits>>

OpStatus == {"none", "reserved", "provider_running", "reconciling", "settled"}
Live == {"reserved", "provider_running", "reconciling"}

OpRow(status, charge) == [status |-> status, charge |-> charge]
OpRows == [status : OpStatus, charge : Nat]

Releasers == {"canceller", "reconciler"}

Idle == [pc |-> "idle"]
Task(pc, o, cost) == [pc |-> pc, op |-> o, cost |-> cost]
Tasks == [pc : {"mark", "provider", "settle"}, op : Ops, cost : Nat]

Nothing == [g \in Grants |-> 0]

TypeOK ==
  /\ available \in [Grants -> Nat]
  /\ opened \in SUBSET Grants
  /\ expired \in SUBSET Grants
  /\ op \in [Ops -> OpRows]
  /\ before \in [Ops -> SUBSET Ops]
  /\ taken \in [Ops -> [Grants -> Nat]]
  /\ spent \in [Ops -> [Grants -> Nat]]
  /\ cap \in [Subjects -> Nat \cup {NoCap}]
  /\ worker \in [Workers -> Tasks \cup {Idle}]
  /\ listed \in [Releasers -> SUBSET Ops]
  /\ faults \in 0 .. MaxFaults
  /\ edits \in 0 .. MaxEdits

Init ==
  /\ available = Nothing /\ opened = {} /\ expired = {}
  /\ op = [o \in Ops |-> OpRow("none", 0)]
  /\ before = [o \in Ops |-> {}]
  /\ taken = [o \in Ops |-> Nothing]
  /\ spent = [o \in Ops |-> Nothing]
  /\ cap = [s \in Subjects |-> NoCap]
  /\ worker = [w \in Workers |-> Idle]
  /\ listed = [r \in Releasers |-> {}]
  /\ faults = MaxFaults /\ edits = MaxEdits

-----------------------------------------------------------------------------
(* Helpers *)

Total(f) == SumFunction(f)

(* The ways to take n credits out of the balances b: the loops over grants *)
(* and over allocations, which empty one before they touch the next, leave *)
(* exactly one, or none when there is too little.                          *)
Portions(b, n) ==
  {p \in [Grants -> 0 .. n] :
     /\ Total(p) = n
     /\ \A g \in Grants : p[g] <= b[g]
     /\ \A g, h \in Grants : g < h /\ p[h] > 0 => p[g] = b[g]}

(* Mutant of Spendable: what the grant was opened with, not what is left. *)
SpendableOriginal == [g \in Grants |-> IF g \in opened \ expired THEN Size[g] ELSE 0]

Spendable == [g \in Grants |-> IF g \in expired THEN 0 ELSE available[g]]

(* creditSpendingExpression: charged, or still reserved at its maximum. *)
Committed(s) ==
  Total([o \in {x \in Ops : s \in Under[x]} |->
           CASE op[o].status = "settled" -> op[o].charge
             [] op[o].status \in Live    -> Maximum[o]
             [] OTHER                    -> 0])

(* completed_at IS NULL *)
Unfinished == {o \in Ops : op[o].status \in Live}

(* Mutant of WithinCaps: looks only at what was committed before. *)
WithinCapsBefore(o) ==
  \A s \in Under[o] : cap[s] # NoCap => Committed(s) < cap[s]

WithinCaps(o) ==
  \A s \in Under[o] : cap[s] # NoCap => Committed(s) + Maximum[o] <= cap[s]

ChargeFor(o, cost) == IF cost < Maximum[o] THEN cost ELSE Maximum[o]

(* Mutant of Returned: the rest of an allocation is not given back. *)
ReturnedNothing(o, charged) == available

(* Mutant of Returned: everything goes back to the grant spent first. *)
ReturnedToFirst(o, charged) ==
  [available EXCEPT ![1] = @ + (Total(taken[o]) - Total(charged))]

(* The rest of every allocation goes back to the grant it was taken from, *)
(* expired or not.                                                        *)
Returned(o, charged) ==
  [g \in Grants |-> available[g] + (taken[o][g] - charged[g])]

(* Mutant of SettlesNow: a settled operation is settled again. *)
SettlesAgain(o) == op[o].status \in {"reserved", "provider_running", "settled"}

SettlesNow(o) == op[o].status \in {"reserved", "provider_running"}

Conflicts(o) == op[o].status \in {"none", "reconciling"}

(* Mutant of SettleCredits: the row records the cost and not the charge. *)
SettleCreditsAtCost(o, cost) ==
  IF SettlesNow(o)
  THEN \E charged \in Portions(taken[o], ChargeFor(o, cost)) :
         /\ available' = Returned(o, charged)
         /\ spent' = [spent EXCEPT ![o] = charged]
         /\ op' = [op EXCEPT ![o] = OpRow("settled", cost)]
         /\ UNCHANGED <<opened, expired, taken>>
  ELSE UNCHANGED <<grantVars, opVars>>

(* SettleCredits: at most the maximum, and only once. *)
SettleCredits(o, cost) ==
  IF SettlesNow(o)
  THEN \E charged \in Portions(taken[o], ChargeFor(o, cost)) :
         /\ available' = Returned(o, charged)
         /\ spent' = [spent EXCEPT ![o] = charged]
         /\ op' = [op EXCEPT ![o] = OpRow("settled", ChargeFor(o, cost))]
         /\ UNCHANGED <<opened, expired, taken>>
  ELSE UNCHANGED <<grantVars, opVars>>

SetStatus(o, status) == op' = [op EXCEPT ![o] = OpRow(status, @.charge)]

Goto(w, task) == worker' = [worker EXCEPT ![w] = task]

-----------------------------------------------------------------------------
(* A worker and one operation *)

(* ReserveCredits found the key: the operation is returned as it stands. *)
ReserveAgain(w, o) ==
  /\ worker[w] = Idle
  /\ op[o].status # "none"
  /\ Goto(w, Task("mark", o, 0))
  /\ UNCHANGED <<grantVars, opVars, before, cap, listed, boundVars>>

(* A new reservation, of the full maximum or not at all. *)
Reserve(w, o) ==
  /\ worker[w] = Idle
  /\ op[o].status = "none"
  /\ WithinCaps(o)
  /\ \E part \in Portions(Spendable, Maximum[o]) :
       /\ available' = [g \in Grants |-> available[g] - part[g]]
       /\ taken' = [taken EXCEPT ![o] = part]
  /\ SetStatus(o, "reserved")
  /\ before' = [before EXCEPT ![o] = {x \in Ops : op[x].status # "none"}]
  /\ Goto(w, Task("mark", o, 0))
  /\ UNCHANGED <<opened, expired, spent, cap, listed, boundVars>>

(* Refused for a settled operation. *)
MarkProviderRunning(w) ==
  /\ worker[w] # Idle /\ worker[w].pc = "mark"
  /\ IF op[worker[w].op].status \in Live
     THEN /\ SetStatus(worker[w].op, "provider_running")
          /\ Goto(w, Task("provider", worker[w].op, 0))
     ELSE Goto(w, Idle) /\ UNCHANGED op
  /\ UNCHANGED <<grantVars, taken, spent, before, cap, listed, boundVars>>

ProviderAnswers(w) ==
  /\ worker[w] # Idle /\ worker[w].pc = "provider"
  /\ \E cost \in Costs : Goto(w, Task("settle", worker[w].op, cost))
  /\ UNCHANGED <<grantVars, opVars, before, cap, listed, boundVars>>

(* The outcome is unknown: MarkCreditOperationReconciling. *)
ProviderFails(w) ==
  /\ worker[w] # Idle /\ worker[w].pc = "provider"
  /\ faults > 0 /\ faults' = faults - 1
  /\ IF op[worker[w].op].status \in Live
     THEN SetStatus(worker[w].op, "reconciling") ELSE UNCHANGED op
  /\ Goto(w, Idle)
  /\ UNCHANGED <<grantVars, taken, spent, before, cap, listed, edits>>

Settle(w) ==
  /\ worker[w] # Idle /\ worker[w].pc = "settle"
  /\ SettleCredits(worker[w].op, worker[w].cost)
  /\ Goto(w, Idle)
  /\ UNCHANGED <<before, cap, listed, boundVars>>

(* The worker dies, or its context does, between two transactions. *)
Crash(w) ==
  /\ worker[w] # Idle
  /\ faults > 0 /\ faults' = faults - 1
  /\ Goto(w, Idle)
  /\ UNCHANGED <<grantVars, opVars, before, cap, listed, edits>>

-----------------------------------------------------------------------------
(* Those who release *)

(* ReleaseCallReservations, first its SELECT. *)
ListCallReservations(call) ==
  LET found == {o \in Ops : CallOf[o] = call /\ op[o].status = "reserved"} IN
  /\ listed["canceller"] = {} /\ found # {}
  /\ listed' = [listed EXCEPT !["canceller"] = found]
  /\ UNCHANGED <<grantVars, opVars, before, cap, worker, boundVars>>

(* What started before it and is not finished: a row that is reconciling    *)
(* stays, and stays in front.                                              *)
Ahead(o) == before[o] \cap Unfinished

(* ORDER BY started_at LIMIT *)
Oldest(rows) == {o \in rows : Cardinality(before[o] \cap rows) < ReconcileBatch}

(* The rows a transaction of somebody else may have locked at the moment.   *)
Lockable == {worker[w].op : w \in {v \in Workers : worker[v] # Idle}} \cup listed["canceller"]

(* What a scan may find: of the operations that started 45 minutes ago the  *)
(* oldest, without those that are locked, which are skipped.                *)
Findable ==
  {batch \in SUBSET Unfinished :
     \E old \in SUBSET Unfinished, locked \in SUBSET Lockable :
       (\A o \in old : Ahead(o) \subseteq old) /\ batch = Oldest(old \ locked)}

(* Mutant of Released: a reservation is nothing to worry about. *)
ReleasedNever(batch) == {}

Released(batch) == {o \in batch : op[o].status = "reserved"}

(* ReconcileCreditOperations, its transaction.  A retry does not renew       *)
(* started_at, so a worker may be at any operation of the batch.  What never *)
(* reached the provider is released afterwards, anything else is of unknown  *)
(* outcome.                                                                  *)
Scan(batch) ==
  /\ listed["reconciler"] = {}
  /\ listed' = [listed EXCEPT !["reconciler"] = Released(batch)]
  /\ op' = [o \in Ops |-> IF o \in batch /\ op[o].status # "reserved"
                          THEN OpRow("reconciling", op[o].charge) ELSE op[o]]
  /\ UNCHANGED <<grantVars, taken, spent, before, cap, worker, boundVars>>

(* One turn of the loop after it: settled at nothing; an error ends the loop. *)
Release(r, o) ==
  /\ o \in listed[r]
  /\ SettleCredits(o, 0)
  /\ listed' = [listed EXCEPT ![r] = IF Conflicts(o) THEN {} ELSE @ \ {o}]
  /\ UNCHANGED <<before, cap, worker, boundVars>>

(* The request or the process of a releaser dies. *)
LoseList(r) ==
  /\ listed[r] # {}
  /\ faults > 0 /\ faults' = faults - 1
  /\ listed' = [listed EXCEPT ![r] = {}]
  /\ UNCHANGED <<grantVars, opVars, before, cap, worker, edits>>

-----------------------------------------------------------------------------
(* Grants and caps *)

(* An allowance opens lazily, a purchase or a promotion is posted. *)
OpenGrant(g) ==
  /\ g \notin opened
  /\ opened' = opened \cup {g}
  /\ available' = [available EXCEPT ![g] = Size[g]]
  /\ UNCHANGED <<expired, opVars, before, cap, worker, listed, boundVars>>

ExpireGrant(g) ==
  /\ g \in opened \ expired
  /\ expired' = expired \cup {g}
  /\ UNCHANGED <<available, opened, opVars, before, cap, worker, listed, boundVars>>

SetCap(s, c) ==
  /\ edits > 0 /\ edits' = edits - 1
  /\ cap' = [cap EXCEPT ![s] = c]
  /\ UNCHANGED <<grantVars, opVars, before, worker, listed, faults>>

-----------------------------------------------------------------------------
WorkerStep(w) ==
  \/ \E o \in Ops : ReserveAgain(w, o) \/ Reserve(w, o)
  \/ MarkProviderRunning(w) \/ ProviderAnswers(w) \/ ProviderFails(w)
  \/ Settle(w) \/ Crash(w)

Next ==
  \/ \E w \in Workers : WorkerStep(w)
  \/ \E call \in {CallOf[o] : o \in Ops} : ListCallReservations(call)
  \/ \E batch \in Findable : Scan(batch)
  \/ \E r \in Releasers : (\E o \in Ops : Release(r, o)) \/ LoseList(r)
  \/ \E g \in Grants : OpenGrant(g) \/ ExpireGrant(g)
  \/ \E s \in Subjects, c \in Caps \cup {NoCap} : SetCap(s, c)

Spec == Init /\ [][Next]_vars

(* A scan that has the operation in its batch, where there is room for it    *)
(* though nothing be skipped.                                               *)
ScanReaches(o) ==
  /\ o \in Unfinished /\ Cardinality(Ahead(o)) < ReconcileBatch
  /\ \E batch \in Findable : o \in batch /\ Scan(batch)

(* The reconciliation worker runs every five minutes, for ever, and so comes *)
(* to an operation that is old enough and among the oldest, and ends its     *)
(* loops; to one with a full batch in front of it nobody has to come.  What  *)
(* a worker began it carries on.  Nobody has to run an operation again.      *)
Fairness ==
  /\ \A o \in Ops : WF_vars(ScanReaches(o))
  /\ \A r \in Releasers : WF_vars(\E o \in Ops : Release(r, o))
  /\ \A w \in Workers :
       WF_vars(MarkProviderRunning(w) \/ ProviderAnswers(w) \/ Settle(w))

FairSpec == Spec /\ Fairness

-----------------------------------------------------------------------------
(* Properties *)

(* What an operation keeps out of a grant: its allocation, or what it cost. *)
Held(o, g) == IF op[o].status = "settled" THEN spent[o][g] ELSE taken[o][g]

(* No credit is lost or made: what was posted to a grant is available, held *)
(* by a live operation or spent by a settled one, grant by grant, whoever  *)
(* settled it (credit_operations.go:362-379).                              *)
GrantsBalance ==
  \A g \in Grants :
    available[g] + Total([o \in Ops |-> Held(o, g)])
      = IF g \in opened THEN Size[g] ELSE 0

(* A customer pays for an operation at most what was disclosed before it    *)
(* ran, and each allocation at most what it had reserved                   *)
(* (credit_operations.go:330, 291).                                        *)
ChargeCovered ==
  \A o \in Ops :
    /\ op[o].charge <= Maximum[o]
    /\ \A g \in Grants : spent[o][g] <= taken[o][g]

(* A settlement is final: a retry of the worker, a cancelled call and the   *)
(* reconciler find it and change nothing (credit_operations.go:320).        *)
SettledIsFinal ==
  [][\A o \in Ops : op[o].status = "settled" =>
       UNCHANGED <<op[o], taken[o], spent[o]>>]_vars

(* The cap is hard: as long as the owner leaves it, no step makes a subject *)
(* commit more than its cap, reservations of other workers included         *)
(* (credit_limits.go:45, 62).                                               *)
CapIsHard ==
  [][\A s \in Subjects :
       cap[s] # NoCap /\ cap'[s] = cap[s] /\ Committed(s)' > Committed(s)
         => Committed(s)' <= cap[s]]_vars

(* A reservation does not stay: as soon as less than a batch of older       *)
(* operations is unfinished it reaches the provider or is handed back,      *)
(* whatever is reserved after it (credit_reconciliation.go:65).             *)
ReservationMoves ==
  \A o \in Ops : (op[o].status = "reserved" /\ Cardinality(Ahead(o)) < ReconcileBatch)
                   ~> (op[o].status # "reserved")

(* What reached the provider is not released for nothing                    *)
(* (release_call_reservations.go:25).                                      *)
ProviderChargeKept ==
  [][\A r \in Releasers, o \in Ops :
       Release(r, o) /\ op'[o].status # op[o].status => op[o].status = "reserved"]_vars

-----------------------------------------------------------------------------
(* The ledger is a wallet: its grants taken together. *)

Promise == INSTANCE Wallet WITH
  Deposits <- {Size[g] : g \in Grants},
  free <- Total(available),
  state <- [o \in Ops |-> CASE op[o].status = "none"    -> "new"
                            [] op[o].status = "settled" -> "closed"
                            [] OTHER                    -> "held"],
  spent <- Total([o \in Ops |-> op[o].charge])

(* Every step of every process keeps what the customer is promised. *)
ImplementsWallet == Promise!WalletSpec
=============================================================================
