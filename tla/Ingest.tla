------------------------------- MODULE Ingest -------------------------------
(***************************************************************************)
(* Recordings that a customer's system hands over, and the webhooks that   *)
(* tell it what became of them: service/integration and                    *)
(* repository/integration, the queue of ingest_items and the outbox.       *)
(*                                                                         *)
(* A worker claims an item under a lease that nobody renews, makes a call  *)
(* of the recording in another component, and completes or fails the item. *)
(* When the lease is over another worker claims it again: the first may be *)
(* dead, or only slow, and then both go on.  The webhook worker claims an  *)
(* event of the outbox in the same way, asks the endpoints one by one and  *)
(* records each answer.  An event is followed for each item: the last one. *)
(***************************************************************************)
EXTENDS Naturals, Sequences, FiniteSets

CONSTANTS
  Recordings,      \* items, by their external call
  IngestWorkers,   \* one per process
  MaxClaims,       \* max_attempts of an item (8 in the code)
  Endpoints,       \* webhook endpoints of the connection
  HookWorkers,     \* one per process
  MaxHookClaims,   \* max_attempts of an event (12)
  MaxHookTries,    \* requests to an endpoint before it is given up (10)
  MaxLosses        \* workers that die, leases that end early (bound)

ASSUME IngestAssumption ==
  /\ IsFiniteSet(IngestWorkers)
  /\ MaxClaims \in Nat \ {0} /\ MaxHookClaims \in Nat \ {0}
  /\ MaxHookTries \in Nat \ {0} /\ MaxLosses \in Nat

Nothing == "no recording"

VARIABLES
  ingestItem,     \* ingest_items
  made,           \* calls made of each recording
  connection,     \* status of the connection
  ingestWorker,   \* what each worker is doing
  told,           \* how often the outbox was given each outcome
  hookEvent,      \* the event about the first outcome, in the outbox
  delivery,       \* integration_webhook_deliveries of that event
  endpoint,       \* which endpoints are active
  hookWorker,     \* what each webhook worker is doing
  losses          \* losses left (bound)

ingestOnly == <<ingestItem, made, connection, ingestWorker>>
hookOnly == <<delivery, endpoint, hookWorker>>
ingestVars == <<ingestItem, made, connection, ingestWorker, told, hookEvent,
                delivery, endpoint, hookWorker, losses>>

ItemStatus == {"absent", "received", "processing", "completed", "failed"}
Outcomes == {"completed", "failed"}
Final == {"succeeded", "permanent_failed"}
Tried == Endpoints \X (1 .. MaxHookClaims)
DoingNothing == [pc |-> "idle", item |-> Nothing, call |-> 0]
AskingNobody == [pc |-> "idle", targets |-> {}]

IngestTypeOK ==
  /\ ingestItem \in [Recordings -> [status : ItemStatus, claims : 0 .. MaxClaims,
                                    leased : BOOLEAN, call : Nat, locator : BOOLEAN]]
  /\ made \in [Recordings -> Nat]
  /\ connection \in {"active", "disabled", "revoked"}
  /\ ingestWorker \in [IngestWorkers -> [pc : {"idle", "create", "complete", "retry", "giveup"},
                                         item : Recordings \cup {Nothing}, call : Nat]]
  /\ told \in [Recordings -> [Outcomes -> Nat]]
  /\ hookEvent \in [status : {"none", "pending", "delivering", "delivered"},
                    claims : 0 .. MaxHookClaims, leased : BOOLEAN]
  /\ delivery \in [Tried -> {"none", "retryable_failed"} \cup Final]
  /\ endpoint \in [Endpoints -> {"active", "revoked"}]
  /\ hookWorker \in [HookWorkers -> [pc : {"idle", "asking"}, targets : SUBSET Tried]]
  /\ losses \in 0 .. MaxLosses

IngestInit ==
  /\ ingestItem = [i \in Recordings |-> [status |-> "absent", claims |-> 0, leased |-> FALSE,
                                         call |-> 0, locator |-> FALSE]]
  /\ made = [i \in Recordings |-> 0]
  /\ connection = "active"
  /\ ingestWorker = [w \in IngestWorkers |-> DoingNothing]
  /\ told = [i \in Recordings |-> [o \in Outcomes |-> 0]]
  /\ hookEvent = [status |-> "none", claims |-> 0, leased |-> FALSE]
  /\ delivery = [t \in Tried |-> "none"]
  /\ endpoint \in [Endpoints -> {"active", "revoked"}]
  /\ hookWorker = [w \in HookWorkers |-> AskingNobody]
  /\ losses = MaxLosses

-----------------------------------------------------------------------------
(* The outbox *)

(* outbox: an event in the transaction of the outcome it is about. *)
Tell(i, outcome) ==
  /\ told' = [told EXCEPT ![i][outcome] = @ + 1]
  /\ hookEvent' = IF hookEvent.status = "none" THEN [hookEvent EXCEPT !.status = "pending"]
                                               ELSE hookEvent

-----------------------------------------------------------------------------
(* Items *)

(* acceptIngest: a recording the connection has seen is not another item. *)
AcceptIngest(i) ==
  /\ connection = "active"
  /\ ingestItem[i].status = "absent"
  /\ ingestItem' = [ingestItem EXCEPT ![i].status = "received", ![i].locator = TRUE]
  /\ UNCHANGED <<made, connection, ingestWorker, told, hookEvent, hookOnly, losses>>

(* Mutant of Claimable: attempts are not asked for. *)
ClaimableExhausted(i) ==
  /\ ingestItem[i].locator
  /\ \/ ingestItem[i].status = "received"
     \/ ingestItem[i].status = "processing" /\ ~ingestItem[i].leased

(* An item without its locator cannot be read; the claim is rolled back. *)
Claimable(i) ==
  /\ ingestItem[i].claims < MaxClaims /\ ingestItem[i].locator
  /\ \/ ingestItem[i].status = "received"
     \/ ingestItem[i].status = "processing" /\ ~ingestItem[i].leased

(* Mutant of CountClaim: only a failure counts. *)
CountNoClaim(i) == ingestItem[i].claims

CountClaim(i) == ingestItem[i].claims + 1

(* ClaimIngest; a disabled connection goes on with what it has accepted     *)
(* under one of its policies.                                               *)
ClaimIngest(w, i) ==
  /\ ingestWorker[w].pc = "idle"
  /\ connection \in {"active", "disabled"} /\ Claimable(i)
  /\ ingestItem' = [ingestItem EXCEPT ![i].status = "processing", ![i].leased = TRUE,
                                      ![i].claims = CountClaim(i)]
  /\ ingestWorker' = [ingestWorker EXCEPT ![w] = [pc |-> "create", item |-> i, call |-> 0]]
  /\ UNCHANGED <<made, connection, told, hookEvent, hookOnly, losses>>

(* runOne: the recording is fetched and a call made of it, ...              *)
MakeCall(w) ==
  /\ ingestWorker[w].pc = "create"
  /\ LET i == ingestWorker[w].item IN
     /\ made' = [made EXCEPT ![i] = @ + 1]
     /\ ingestWorker' = [ingestWorker EXCEPT ![w].pc = "complete", ![w].call = made[i] + 1]
  /\ UNCHANGED <<ingestItem, connection, told, hookEvent, hookOnly, losses>>

(* ... or it cannot be had now, or not at all.                              *)
RecordingFails(w) ==
  /\ ingestWorker[w].pc = "create"
  /\ \E pc \in {"retry", "giveup"} : ingestWorker' = [ingestWorker EXCEPT ![w].pc = pc]
  /\ UNCHANGED <<ingestItem, made, connection, told, hookEvent, hookOnly, losses>>

(* Mutant of MayComplete: the item is still there. *)
MayCompleteAny(i) == ingestItem[i].status # "absent"

MayComplete(i) == ingestItem[i].status = "processing" /\ ingestItem[i].call = 0

(* CompleteIngest, whoever holds the lease now; an error leaves it all. *)
CompleteIngest(w) ==
  /\ ingestWorker[w].pc = "complete"
  /\ LET i == ingestWorker[w].item IN
     IF MayComplete(i)
     THEN /\ ingestItem' = [ingestItem EXCEPT ![i] =
               [status |-> "completed", claims |-> ingestItem[i].claims, leased |-> FALSE,
                call |-> ingestWorker[w].call, locator |-> FALSE]]
          /\ Tell(i, "completed")
     ELSE UNCHANGED <<ingestItem, told, hookEvent>>
  /\ ingestWorker' = [ingestWorker EXCEPT ![w] = DoingNothing]
  /\ UNCHANGED <<made, connection, hookOnly, losses>>

(* FailIngest asks neither for the lease nor for the status of the item. *)
FailIngest(w) ==
  /\ ingestWorker[w].pc \in {"retry", "giveup"}
  /\ LET i == ingestWorker[w].item
         again == ingestWorker[w].pc = "retry" /\ ingestItem[i].claims < MaxClaims IN
     /\ ingestItem' = [ingestItem EXCEPT ![i].status = IF again THEN "received" ELSE "failed",
                                         ![i].leased = FALSE]
     /\ IF again THEN UNCHANGED <<told, hookEvent>> ELSE Tell(i, "failed")
  /\ ingestWorker' = [ingestWorker EXCEPT ![w] = DoingNothing]
  /\ UNCHANGED <<made, connection, hookOnly, losses>>

(* Fifteen minutes: the worker is gone, or the recording is a long one. *)
IngestLeaseEnds(i) ==
  /\ ingestItem[i].leased
  /\ losses > 0 /\ losses' = losses - 1
  /\ ingestItem' = [ingestItem EXCEPT ![i].leased = FALSE]
  /\ UNCHANGED <<made, connection, ingestWorker, told, hookEvent, hookOnly>>

LoseIngestWorker(w) ==
  /\ ingestWorker[w].pc # "idle"
  /\ losses > 0 /\ losses' = losses - 1
  /\ ingestItem' = [ingestItem EXCEPT ![ingestWorker[w].item].leased = FALSE]
  /\ ingestWorker' = [ingestWorker EXCEPT ![w] = DoingNothing]
  /\ UNCHANGED <<made, connection, told, hookEvent, hookOnly>>

ClearExpiredLocator(i) ==
  /\ ingestItem[i].status \in {"failed", "completed"} /\ ingestItem[i].locator
  /\ ingestItem' = [ingestItem EXCEPT ![i].locator = FALSE]
  /\ UNCHANGED <<made, connection, ingestWorker, told, hookEvent, hookOnly, losses>>

ChangeConnectionStatus(status) ==
  /\ connection # status /\ connection # "revoked"
  /\ connection' = status
  /\ UNCHANGED <<ingestItem, made, ingestWorker, told, hookEvent, hookOnly, losses>>

-----------------------------------------------------------------------------
(* Webhooks *)

Active == {e \in Endpoints : endpoint[e] = "active"}
TriesOf(e) == {n \in 1 .. MaxHookClaims : delivery[<<e, n>>] # "none"}
NextTryOf(e) == 1 + Cardinality(TriesOf(e))
Answered(e) == \E n \in TriesOf(e) : delivery[<<e, n>>] \in Final

(* ClaimWebhook: every active endpoint is a target, also those that answered. *)
ClaimWebhook(w) ==
  /\ hookWorker[w].pc = "idle"
  /\ hookEvent.claims < MaxHookClaims
  /\ hookEvent.status = "pending" \/ (hookEvent.status = "delivering" /\ ~hookEvent.leased)
  /\ hookEvent' = [status |-> IF Active = {} THEN "delivered" ELSE "delivering",
                   claims |-> hookEvent.claims + 1, leased |-> Active # {}]
  /\ hookWorker' = [hookWorker EXCEPT ![w] =
       IF Active = {} THEN AskingNobody
       ELSE [pc |-> "asking", targets |-> {<<e, NextTryOf(e)>> : e \in Active}]]
  /\ UNCHANGED <<ingestOnly, told, delivery, endpoint, losses>>

(* What runOne makes of an answer: the last try is for good. *)
Verdict(answer, n) ==
  IF answer = "retryable_failed" /\ n >= MaxHookTries THEN "permanent_failed" ELSE answer

(* Mutant of Remaining: an endpoint that was asked has had its event. *)
RemainingUnasked(e, verdict) == {f \in Active \ {e} : TriesOf(f) = {}}

(* Endpoints without a final answer once this one is recorded. *)
Remaining(e, verdict) ==
  {f \in Active : ~Answered(f) /\ ~(f = e /\ verdict \in Final)}

(* An endpoint is asked and RecordWebhookDelivery commits; two workers with  *)
(* one try write one row.  The loop may end at any target: an error.         *)
RecordWebhookDelivery(w) ==
  /\ hookWorker[w].pc = "asking"
  /\ \E t \in hookWorker[w].targets, answer \in {"succeeded", "permanent_failed", "retryable_failed"} :
       LET e == t[1]
           verdict == Verdict(answer, t[2])
           row == IF delivery[t] = "none" THEN verdict ELSE delivery[t]
           left == hookWorker[w].targets \ {t} IN
       /\ delivery' = [delivery EXCEPT ![t] = row]
       /\ hookEvent' =
            IF verdict = "retryable_failed"
            THEN [hookEvent EXCEPT !.status = "pending", !.leased = FALSE]
            ELSE IF Remaining(e, row) = {}
            THEN [hookEvent EXCEPT !.status = "delivered", !.leased = FALSE]
            ELSE hookEvent
       /\ hookWorker' = [hookWorker EXCEPT ![w] =
            IF left = {} THEN AskingNobody ELSE [pc |-> "asking", targets |-> left]]
  /\ UNCHANGED <<ingestOnly, told, endpoint, losses>>

LoseHookWorker(w) ==
  /\ hookWorker[w].pc = "asking"
  /\ losses > 0 /\ losses' = losses - 1
  /\ hookWorker' = [hookWorker EXCEPT ![w] = AskingNobody]
  /\ hookEvent' = [hookEvent EXCEPT !.leased = FALSE]
  /\ UNCHANGED <<ingestOnly, told, delivery, endpoint>>

RevokeWebhook(e) ==
  /\ endpoint[e] = "active"
  /\ endpoint' = [endpoint EXCEPT ![e] = "revoked"]
  /\ UNCHANGED <<ingestOnly, told, hookEvent, delivery, hookWorker, losses>>

-----------------------------------------------------------------------------
IngestNext ==
  \/ \E i \in Recordings :
       \/ AcceptIngest(i) \/ IngestLeaseEnds(i) \/ ClearExpiredLocator(i)
       \/ \E w \in IngestWorkers : ClaimIngest(w, i)
  \/ \E w \in IngestWorkers :
       \/ MakeCall(w) \/ RecordingFails(w) \/ CompleteIngest(w) \/ FailIngest(w)
       \/ LoseIngestWorker(w)
  \/ \E status \in {"active", "disabled", "revoked"} : ChangeConnectionStatus(status)
  \/ \E w \in HookWorkers : ClaimWebhook(w) \/ RecordWebhookDelivery(w) \/ LoseHookWorker(w)
  \/ \E e \in Endpoints : RevokeWebhook(e)

IngestSpec == IngestInit /\ [][IngestNext]_ingestVars

-----------------------------------------------------------------------------
(* Properties *)

(* The customer is told once that a recording became a call, whatever two     *)
(* workers with one item do, and the item names that call and no other        *)
(* (worker.go:80-95).                                                         *)
CompletedOnce ==
  \A i \in Recordings : /\ told[i]["completed"] <= 1
                        /\ told[i]["completed"] = 1 <=> ingestItem[i].call # 0

(* A recording that keeps losing its workers makes no more calls than it has  *)
(* been claimed (worker.go:24, 31).                                           *)
CopiesBounded == \A i \in Recordings : made[i] <= ingestItem[i].claims

(* An event is over only when every endpoint that is still active has given   *)
(* its last answer; a late worker cannot end it for the others                *)
(* (webhooks.go:252, 270).                                                    *)
DeliveredIsAnswered ==
  hookEvent.status = "delivered" => \A e \in Active : Answered(e)
=============================================================================
