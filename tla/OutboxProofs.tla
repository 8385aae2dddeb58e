---------------------------- MODULE OutboxProofs ----------------------------
(***************************************************************************)
(* What leaves the system, for any number of items, letters, tasks,        *)
(* workers and losses: the customer is told once of a recording that       *)
(* became a call, claims bound the copies that lost leases make, an event  *)
(* that counts as delivered was answered, an alert rings once, a letter is *)
(* sent no oftener than it was claimed, and the portal gets a task for     *)
(* each decision to create one.                                            *)
(***************************************************************************)
EXTENDS Ingest, Delivery, ActionSync, FiniteSetTheorems, TLAPS

Item == [status : ItemStatus, claims : 0 .. MaxClaims, leased : BOOLEAN, call : Nat,
         locator : BOOLEAN]
Errand == [pc : {"idle", "create", "complete", "retry", "giveup"},
           item : Recordings \cup {Nothing}, call : Nat]

(* Who is about to make a call of i. *)
Makers(i) == {w \in IngestWorkers : ingestWorker[w].pc = "create" /\ ingestWorker[w].item = i}

ItemsTyped ==
  /\ ingestItem \in [Recordings -> Item] /\ made \in [Recordings -> Nat]
  /\ ingestWorker \in [IngestWorkers -> Errand]
  /\ told \in [Recordings -> [Outcomes -> Nat]]

(* A worker that is busy has an item, and one that completes it a call. *)
Busy ==
  \A w \in IngestWorkers :
    /\ ingestWorker[w].pc # "idle" => ingestWorker[w].item \in Recordings
    /\ ingestWorker[w].pc = "complete" => ingestWorker[w].call # 0

(* Each call that was made, and each that is about to be, had a claim. *)
ClaimsPay ==
  \A i \in Recordings : made[i] + Cardinality(Makers(i)) <= ingestItem[i].claims

ItemsInv == ItemsTyped /\ Busy /\ CompletedOnce /\ ClaimsPay

LEMMA MakersFinite ==
  ASSUME NEW i PROVE IsFiniteSet(Makers(i)) /\ Cardinality(Makers(i)) \in Nat
<1>1. Makers(i) \subseteq IngestWorkers
  BY DEF Makers
<1> QED BY <1>1, IngestAssumption, FS_Subset, FS_CardinalityType

LEMMA ItemsBegin == ASSUME IngestInit PROVE ItemsInv
<1>1. ItemsTyped
  <2>1. [status |-> "absent", claims |-> 0, leased |-> FALSE, call |-> 0, locator |-> FALSE] \in Item
    BY IngestAssumption DEF Item, ItemStatus
  <2>2. DoingNothing \in Errand
    BY DEF DoingNothing, Errand
  <2> QED BY <2>1, <2>2 DEF IngestInit, ItemsTyped
<1>2. Busy
  BY DEF IngestInit, Busy, DoingNothing
<1>3. CompletedOnce
  BY DEF IngestInit, CompletedOnce, Outcomes
<1>4. ASSUME NEW i \in Recordings PROVE made[i] + Cardinality(Makers(i)) <= ingestItem[i].claims
  <2>1. Makers(i) = {}
    BY DEF IngestInit, Makers, DoingNothing
  <2>2. Cardinality(Makers(i)) = 0
    BY <2>1, FS_EmptySet
  <2> QED BY <2>2 DEF IngestInit
<1> QED BY <1>1, <1>2, <1>3, <1>4 DEF ItemsInv, ClaimsPay

-----------------------------------------------------------------------------
(* One worker, one item *)

LEMMA ErrandWritten ==
  ASSUME NEW errand \in Errand
  PROVE  /\ errand.pc \in {"idle", "create", "complete", "retry", "giveup"}
         /\ errand.item \in Recordings \cup {Nothing} /\ errand.call \in Nat
BY DEF Errand

LEMMA ErrandMakes ==
  ASSUME NEW errand \in Errand, NEW call \in Nat
  PROVE  /\ [errand EXCEPT !.pc = "complete", !.call = call] \in Errand
         /\ [errand EXCEPT !.pc = "complete", !.call = call].pc = "complete"
         /\ [errand EXCEPT !.pc = "complete", !.call = call].call = call
         /\ [errand EXCEPT !.pc = "complete", !.call = call].item = errand.item
BY DEF Errand

LEMMA ErrandGoesOn ==
  ASSUME NEW errand \in Errand, NEW pc \in {"retry", "giveup"}
  PROVE  /\ [errand EXCEPT !.pc = pc] \in Errand /\ [errand EXCEPT !.pc = pc].pc = pc
         /\ [errand EXCEPT !.pc = pc].item = errand.item
BY DEF Errand

LEMMA ItemWritten ==
  ASSUME NEW item \in Item
  PROVE  /\ item.claims \in 0 .. MaxClaims /\ item.call \in Nat /\ item.status \in ItemStatus
         /\ \A status \in ItemStatus :
              /\ [item EXCEPT !.status = status, !.leased = FALSE] \in Item
              /\ [item EXCEPT !.status = status, !.leased = FALSE].call = item.call
              /\ [item EXCEPT !.status = status, !.leased = FALSE].claims = item.claims
         /\ [item EXCEPT !.status = "received", !.locator = TRUE] \in Item
         /\ [item EXCEPT !.status = "received", !.locator = TRUE].call = item.call
         /\ [item EXCEPT !.status = "received", !.locator = TRUE].claims = item.claims
         /\ [item EXCEPT !.leased = FALSE] \in Item
         /\ [item EXCEPT !.leased = FALSE].call = item.call
         /\ [item EXCEPT !.leased = FALSE].claims = item.claims
         /\ [item EXCEPT !.locator = FALSE] \in Item
         /\ [item EXCEPT !.locator = FALSE].call = item.call
         /\ [item EXCEPT !.locator = FALSE].claims = item.claims
BY DEF Item, ItemStatus

(* A worker that takes up another errand: makers of another item are as they *)
(* were, and those of its own are one fewer if it was about to make a call.  *)
LEMMA MakersAfter ==
  ASSUME ItemsTyped, NEW w \in IngestWorkers, NEW errand \in Errand, errand.pc # "create",
         ingestWorker' = [ingestWorker EXCEPT ![w] = errand], NEW i \in Recordings
  PROVE  /\ Cardinality(Makers(i))' <= Cardinality(Makers(i))
         /\ w \in Makers(i) => Cardinality(Makers(i))' + 1 = Cardinality(Makers(i))
<1>1. Makers(i)' = Makers(i) \ {w}
  BY DEF Makers, ItemsTyped
<1>2. IsFiniteSet(Makers(i)) /\ Cardinality(Makers(i)) \in Nat
  BY MakersFinite
<1>3. CASE w \in Makers(i)
  <2>1. Cardinality(Makers(i) \ {w}) = Cardinality(Makers(i)) - 1
    BY <1>2, <1>3, FS_RemoveElement
  <2> QED BY <1>1, <1>2, <2>1
<1>4. CASE w \notin Makers(i)
  BY <1>1, <1>2, <1>4
<1> QED BY <1>3, <1>4

(* Steps that leave the calls and what was told of them alone. *)
LEMMA ItemsCalm ==
  ASSUME ItemsInv, ingestItem' \in [Recordings -> Item],
         \A i \in Recordings : /\ ingestItem'[i].call = ingestItem[i].call
                               /\ ingestItem'[i].claims = ingestItem[i].claims,
         told' \in [Recordings -> [Outcomes -> Nat]],
         \A i \in Recordings : told'[i]["completed"] = told[i]["completed"],
         UNCHANGED made,
         \/ UNCHANGED ingestWorker
         \/ \E w \in IngestWorkers, errand \in Errand :
              /\ errand.pc \notin {"create", "complete"}
              /\ errand.pc # "idle" => errand.item \in Recordings
              /\ ingestWorker' = [ingestWorker EXCEPT ![w] = errand]
  PROVE  ItemsInv'
<1>1. ItemsTyped' /\ Busy'
  BY DEF ItemsInv, ItemsTyped, Busy
<1>2. CompletedOnce'
  BY DEF ItemsInv, CompletedOnce
<1>3. ASSUME NEW i \in Recordings
      PROVE  made'[i] + Cardinality(Makers(i))' <= ingestItem'[i].claims
  <2>1. Cardinality(Makers(i))' <= Cardinality(Makers(i))
    <3>1. CASE UNCHANGED ingestWorker
      <4>1. Makers(i)' = Makers(i)
        BY <3>1 DEF Makers
      <4> QED BY <4>1, MakersFinite
    <3>2. CASE ~UNCHANGED ingestWorker
      BY <3>2, MakersAfter DEF ItemsInv
    <3> QED BY <3>1, <3>2
  <2>2. Cardinality(Makers(i)) \in Nat /\ Cardinality(Makers(i))' \in Nat
    <3>1. Makers(i) \subseteq IngestWorkers /\ Makers(i)' \subseteq IngestWorkers
      BY DEF Makers
    <3> QED BY <3>1, IngestAssumption, FS_Subset, FS_CardinalityType
  <2>3. made[i] \in Nat /\ ingestItem[i].claims \in Nat /\ made'[i] = made[i]
    <3>1. ingestItem[i] \in Item /\ made[i] \in Nat
      BY DEF ItemsInv, ItemsTyped
    <3> QED BY <3>1, IngestAssumption DEF Item
  <2> QED BY <2>1, <2>2, <2>3 DEF ItemsInv, ClaimsPay
<1>4. ClaimsPay'
  BY <1>3 DEF ClaimsPay
<1> QED BY <1>1, <1>2, <1>4 DEF ItemsInv

-----------------------------------------------------------------------------
(* The steps *)

LEMMA AcceptKeeps ==
  ASSUME ItemsInv, NEW i \in Recordings,
         AcceptIngest(i) \/ IngestLeaseEnds(i) \/ ClearExpiredLocator(i)
  PROVE  ItemsInv'
<1>1. ingestItem \in [Recordings -> Item] /\ ingestItem[i] \in Item
  BY DEF ItemsInv, ItemsTyped
<1>2. UNCHANGED <<made, told, ingestWorker>>
  BY DEF AcceptIngest, IngestLeaseEnds, ClearExpiredLocator, hookOnly
<1>3. PICK row \in Item : /\ row.call = ingestItem[i].call /\ row.claims = ingestItem[i].claims
                          /\ ingestItem' = [ingestItem EXCEPT ![i] = row]
  <2>1. CASE AcceptIngest(i)
    <3> DEFINE row == [ingestItem[i] EXCEPT !.status = "received", !.locator = TRUE]
    <3>1. ingestItem' = [ingestItem EXCEPT ![i] = row]
      BY <1>1, <2>1 DEF AcceptIngest
    <3>2. row \in Item /\ row.call = ingestItem[i].call /\ row.claims = ingestItem[i].claims
      BY <1>1, ItemWritten
    <3> HIDE DEF row
    <3> QED BY <3>1, <3>2
  <2>2. CASE IngestLeaseEnds(i)
    <3> DEFINE row == [ingestItem[i] EXCEPT !.leased = FALSE]
    <3>1. ingestItem' = [ingestItem EXCEPT ![i] = row]
      BY <1>1, <2>2 DEF IngestLeaseEnds
    <3>2. row \in Item /\ row.call = ingestItem[i].call /\ row.claims = ingestItem[i].claims
      BY <1>1, ItemWritten
    <3> HIDE DEF row
    <3> QED BY <3>1, <3>2
  <2>3. CASE ClearExpiredLocator(i)
    <3> DEFINE row == [ingestItem[i] EXCEPT !.locator = FALSE]
    <3>1. ingestItem' = [ingestItem EXCEPT ![i] = row]
      BY <1>1, <2>3 DEF ClearExpiredLocator
    <3>2. row \in Item /\ row.call = ingestItem[i].call /\ row.claims = ingestItem[i].claims
      BY <1>1, ItemWritten
    <3> HIDE DEF row
    <3> QED BY <3>1, <3>2
  <2> QED BY <2>1, <2>2, <2>3
<1>4. /\ ingestItem' \in [Recordings -> Item]
      /\ \A k \in Recordings : /\ ingestItem'[k].call = ingestItem[k].call
                              /\ ingestItem'[k].claims = ingestItem[k].claims
  BY <1>1, <1>3
<1> QED BY <1>2, <1>4, ItemsCalm DEF ItemsInv, ItemsTyped

LEMMA LoseKeeps ==
  ASSUME ItemsInv, NEW w \in IngestWorkers, LoseIngestWorker(w)
  PROVE  ItemsInv'
<1> DEFINE i == ingestWorker[w].item
           row == [ingestItem[i] EXCEPT !.leased = FALSE]
<1>1. i \in Recordings /\ ingestItem \in [Recordings -> Item] /\ ingestItem[i] \in Item
  BY DEF LoseIngestWorker, ItemsInv, Busy, ItemsTyped
<1>2. /\ UNCHANGED <<made, told>> /\ ingestWorker' = [ingestWorker EXCEPT ![w] = DoingNothing]
      /\ ingestItem' = [ingestItem EXCEPT ![i] = row]
  BY <1>1 DEF LoseIngestWorker, hookOnly
<1>3. row \in Item /\ row.call = ingestItem[i].call /\ row.claims = ingestItem[i].claims
  BY <1>1, ItemWritten
<1>4. DoingNothing \in Errand /\ DoingNothing.pc = "idle"
  BY DEF DoingNothing, Errand
<1> HIDE DEF row
<1>5. /\ ingestItem' \in [Recordings -> Item]
      /\ \A k \in Recordings : /\ ingestItem'[k].call = ingestItem[k].call
                              /\ ingestItem'[k].claims = ingestItem[k].claims
  BY <1>1, <1>2, <1>3
<1> QED BY <1>2, <1>4, <1>5, ItemsCalm DEF ItemsInv, ItemsTyped

LEMMA FailsKeeps ==
  ASSUME ItemsInv, NEW w \in IngestWorkers, RecordingFails(w)
  PROVE  ItemsInv'
<1>1. ingestWorker[w] \in Errand /\ ingestWorker \in [IngestWorkers -> Errand]
  BY DEF ItemsInv, ItemsTyped
<1>2. PICK pc \in {"retry", "giveup"} : ingestWorker' = [ingestWorker EXCEPT ![w].pc = pc]
  BY DEF RecordingFails
<1> DEFINE errand == [ingestWorker[w] EXCEPT !.pc = pc]
<1>3. errand \in Errand /\ errand.pc = pc /\ errand.item = ingestWorker[w].item
  BY <1>1, ErrandGoesOn
<1>4. ingestWorker[w].item \in Recordings
  BY DEF RecordingFails, ItemsInv, Busy
<1>5. ingestWorker' = [ingestWorker EXCEPT ![w] = errand]
  BY <1>1, <1>2
<1>6. UNCHANGED <<made, told, ingestItem>>
  BY DEF RecordingFails, hookOnly
<1> HIDE DEF errand
<1> QED BY <1>3, <1>4, <1>5, <1>6, ItemsCalm DEF ItemsInv, ItemsTyped

LEMMA FailKeeps ==
  ASSUME ItemsInv, NEW w \in IngestWorkers, FailIngest(w)
  PROVE  ItemsInv'
<1> DEFINE i == ingestWorker[w].item
           again == ingestWorker[w].pc = "retry" /\ ingestItem[i].claims < MaxClaims
<1>1. i \in Recordings /\ ingestItem \in [Recordings -> Item] /\ ingestItem[i] \in Item
  BY DEF FailIngest, ItemsInv, Busy, ItemsTyped
<1>2. PICK status \in ItemStatus :
        ingestItem' = [ingestItem EXCEPT ![i].status = status, ![i].leased = FALSE]
  BY DEF FailIngest, ItemStatus
<1> DEFINE row == [ingestItem[i] EXCEPT !.status = status, !.leased = FALSE]
<1>3. row \in Item /\ row.call = ingestItem[i].call /\ row.claims = ingestItem[i].claims
  BY <1>1, ItemWritten
<1>4. ingestItem' = [ingestItem EXCEPT ![i] = row]
  BY <1>1, <1>2
<1>5. UNCHANGED made /\ ingestWorker' = [ingestWorker EXCEPT ![w] = DoingNothing]
  BY DEF FailIngest
<1>6. DoingNothing \in Errand /\ DoingNothing.pc = "idle"
  BY DEF DoingNothing, Errand
<1>7. /\ told' \in [Recordings -> [Outcomes -> Nat]]
      /\ \A k \in Recordings : told'[k]["completed"] = told[k]["completed"]
  <2>1. told \in [Recordings -> [Outcomes -> Nat]] /\ told[i] \in [Outcomes -> Nat]
    BY <1>1 DEF ItemsInv, ItemsTyped
  <2>2. CASE UNCHANGED told
    BY <2>1, <2>2
  <2>3. CASE ~UNCHANGED told
    <3>1. told' = [told EXCEPT ![i]["failed"] = @ + 1]
      BY <2>3 DEF FailIngest, Tell
    <3> QED BY <1>1, <2>1, <3>1 DEF Outcomes
  <2> QED BY <2>2, <2>3
<1> HIDE DEF row
<1>8. /\ ingestItem' \in [Recordings -> Item]
      /\ \A k \in Recordings : /\ ingestItem'[k].call = ingestItem[k].call
                              /\ ingestItem'[k].claims = ingestItem[k].claims
  BY <1>1, <1>3, <1>4
<1> QED BY <1>5, <1>6, <1>7, <1>8, ItemsCalm
LEMMA ClaimKeeps ==
  ASSUME ItemsInv, NEW w \in IngestWorkers, NEW i \in Recordings, ClaimIngest(w, i)
  PROVE  ItemsInv'
<1>1. /\ ingestItem \in [Recordings -> Item] /\ ingestItem[i] \in Item
      /\ ingestWorker \in [IngestWorkers -> Errand]
  BY DEF ItemsInv, ItemsTyped
<1>2. /\ ingestItem[i].claims \in 0 .. MaxClaims /\ ingestItem[i].claims < MaxClaims
      /\ ingestWorker[w].pc = "idle" /\ UNCHANGED <<made, told>>
  BY <1>1, ItemWritten DEF ClaimIngest, Claimable, hookOnly
<1>3. PICK n \in 0 .. MaxClaims : n = ingestItem[i].claims + 1
  BY <1>2, IngestAssumption
<1> DEFINE row == [ingestItem[i] EXCEPT !.status = "processing", !.leased = TRUE, !.claims = n]
           errand == [pc |-> "create", item |-> i, call |-> 0]
<1>4. row \in Item /\ row.call = ingestItem[i].call /\ row.claims = n
  BY <1>1 DEF Item, ItemStatus
<1>5. errand \in Errand /\ errand.pc = "create" /\ errand.item = i
  BY DEF Errand
<1>6. /\ ingestItem' = [ingestItem EXCEPT ![i] = row]
      /\ ingestWorker' = [ingestWorker EXCEPT ![w] = errand]
  BY <1>1, <1>3 DEF ClaimIngest, CountClaim
<1> HIDE DEF row, errand
<1>7. \A k \in Recordings : ingestItem'[k] = IF k = i THEN row ELSE ingestItem[k]
  BY <1>1, <1>6
<1>8. \A v \in IngestWorkers : ingestWorker'[v] = IF v = w THEN errand ELSE ingestWorker[v]
  BY <1>1, <1>6
<1>9. ItemsTyped' /\ Busy'
  BY <1>1, <1>2, <1>4, <1>5, <1>6, <1>8 DEF ItemsInv, ItemsTyped, Busy
<1>10. CompletedOnce'
  BY <1>2, <1>4, <1>7 DEF ItemsInv, CompletedOnce
<1>11. ASSUME NEW k \in Recordings
       PROVE  made'[k] + Cardinality(Makers(k))' <= ingestItem'[k].claims
  <2>1. /\ IsFiniteSet(Makers(k)) /\ Cardinality(Makers(k)) \in Nat /\ w \notin Makers(k)
    BY <1>2, MakersFinite DEF Makers
  <2>2. made[k] \in Nat /\ made[k] + Cardinality(Makers(k)) <= ingestItem[k].claims
    BY DEF ItemsInv, ItemsTyped, ClaimsPay
  <2>3. CASE k = i
    <3>1. Makers(k)' = Makers(k) \cup {w}
      BY <1>5, <1>8, <2>3 DEF Makers
    <3>2. Cardinality(Makers(k) \cup {w}) = Cardinality(Makers(k)) + 1
      BY <2>1, FS_AddElement
    <3> QED BY <1>2, <1>3, <1>4, <1>7, <2>1, <2>2, <2>3, <3>1, <3>2
  <2>4. CASE k # i
    <3>1. Makers(k)' = Makers(k)
      BY <1>2, <1>5, <1>8, <2>4 DEF Makers
    <3> QED BY <1>2, <1>7, <2>2, <2>4, <3>1
  <2> QED BY <2>3, <2>4
<1>12. ClaimsPay'
  BY <1>11 DEF ClaimsPay
<1> QED BY <1>9, <1>10, <1>12 DEF ItemsInv

LEMMA MakeKeeps ==
  ASSUME ItemsInv, NEW w \in IngestWorkers, MakeCall(w)
  PROVE  ItemsInv'
<1> DEFINE i == ingestWorker[w].item
<1>1. /\ i \in Recordings /\ made \in [Recordings -> Nat] /\ w \in Makers(i)
      /\ ingestWorker \in [IngestWorkers -> Errand] /\ ingestWorker[w] \in Errand
  BY DEF ItemsInv, ItemsTyped, Busy, MakeCall, Makers
<1>2. UNCHANGED <<ingestItem, told>> /\ made' = [made EXCEPT ![i] = @ + 1]
  BY DEF MakeCall, hookOnly
<1>3. PICK n \in Nat \ {0} : n = made[i] + 1
  BY <1>1
<1> DEFINE errand == [ingestWorker[w] EXCEPT !.pc = "complete", !.call = n]
<1>4. /\ errand \in Errand /\ errand.pc = "complete" /\ errand.call = n
      /\ errand.item = ingestWorker[w].item
  BY <1>1, ErrandMakes
<1>5. ingestWorker' = [ingestWorker EXCEPT ![w] = errand]
  BY <1>1, <1>3 DEF MakeCall
<1> HIDE DEF errand
<1>6. \A v \in IngestWorkers : ingestWorker'[v] = IF v = w THEN errand ELSE ingestWorker[v]
  BY <1>1, <1>5
<1>7. ItemsTyped'
  BY <1>1, <1>2, <1>4, <1>5 DEF ItemsInv, ItemsTyped
<1>8. Busy'
  BY <1>1, <1>4, <1>6 DEF ItemsInv, Busy
<1>9. CompletedOnce'
  BY <1>2 DEF ItemsInv, CompletedOnce
<1>10. ASSUME NEW k \in Recordings
       PROVE  made'[k] + Cardinality(Makers(k))' <= ingestItem'[k].claims
  <2>1. /\ Cardinality(Makers(k))' <= Cardinality(Makers(k))
        /\ w \in Makers(k) => Cardinality(Makers(k))' + 1 = Cardinality(Makers(k))
    BY <1>4, <1>5, MakersAfter DEF ItemsInv
  <2>2. Cardinality(Makers(k)) \in Nat /\ Cardinality(Makers(k))' \in Nat
    <3>1. Makers(k) \subseteq IngestWorkers /\ Makers(k)' \subseteq IngestWorkers
      BY DEF Makers
    <3> QED BY <3>1, IngestAssumption, FS_Subset, FS_CardinalityType
  <2>3. made[k] \in Nat /\ made[k] + Cardinality(Makers(k)) <= ingestItem[k].claims
    BY DEF ItemsInv, ItemsTyped, ClaimsPay
  <2>4. ingestItem[k].claims \in Nat /\ ingestItem'[k].claims = ingestItem[k].claims
    <3>1. ingestItem[k] \in Item
      BY DEF ItemsInv, ItemsTyped
    <3> QED BY <1>2, <3>1, IngestAssumption DEF Item
  <2>5. CASE k = i
    <3>1. made'[k] = made[k] + 1 /\ w \in Makers(k)
      BY <1>1, <1>2, <2>5
    <3> QED BY <2>1, <2>2, <2>3, <2>4, <3>1
  <2>6. CASE k # i
    <3>1. made'[k] = made[k]
      BY <1>1, <1>2, <2>6
    <3> QED BY <2>1, <2>2, <2>3, <2>4, <3>1
  <2> QED BY <2>5, <2>6
<1>11. ClaimsPay'
  BY <1>10 DEF ClaimsPay
<1> QED BY <1>7, <1>8, <1>9, <1>11 DEF ItemsInv

LEMMA CompleteKeeps ==
  ASSUME ItemsInv, NEW w \in IngestWorkers, CompleteIngest(w)
  PROVE  ItemsInv'
<1> DEFINE i == ingestWorker[w].item
<1>1. /\ i \in Recordings /\ ingestItem \in [Recordings -> Item] /\ ingestItem[i] \in Item
      /\ ingestWorker \in [IngestWorkers -> Errand] /\ ingestWorker[w].call \in Nat \ {0}
      /\ told \in [Recordings -> [Outcomes -> Nat]]
  BY ErrandWritten DEF ItemsInv, ItemsTyped, Busy, CompleteIngest
<1>2. UNCHANGED made /\ ingestWorker' = [ingestWorker EXCEPT ![w] = DoingNothing]
  BY DEF CompleteIngest
<1>3. DoingNothing \in Errand /\ DoingNothing.pc = "idle"
  BY DEF DoingNothing, Errand
<1>4. CASE ~MayComplete(i)
  <2>1. UNCHANGED <<ingestItem, told>>
    BY <1>4 DEF CompleteIngest
  <2> QED BY <1>1, <1>2, <1>3, <2>1, ItemsCalm
<1>5. CASE MayComplete(i)
  <2> DEFINE row == [status |-> "completed", claims |-> ingestItem[i].claims, leased |-> FALSE,
                     call |-> ingestWorker[w].call, locator |-> FALSE]
  <2>1. /\ row \in Item /\ row.call # 0 /\ row.call \in Nat
        /\ row.claims = ingestItem[i].claims
    BY <1>1 DEF Item, ItemStatus
  <2>2. /\ ingestItem' = [ingestItem EXCEPT ![i] = row]
        /\ told' = [told EXCEPT ![i]["completed"] = @ + 1]
    BY <1>5 DEF CompleteIngest, Tell
  <2> HIDE DEF row
  <2>3. \A k \in Recordings : ingestItem'[k] = IF k = i THEN row ELSE ingestItem[k]
    BY <1>1, <2>2
  <2>4. /\ told' \in [Recordings -> [Outcomes -> Nat]]
        /\ told'[i]["completed"] = told[i]["completed"] + 1
        /\ \A k \in Recordings : k # i => told'[k] = told[k]
    BY <1>1, <2>2 DEF Outcomes
  <2>5. told[i]["completed"] = 0
    <3>1. told[i]["completed"] \in Nat /\ ingestItem[i].call = 0
      BY <1>1, <1>5 DEF Outcomes, MayComplete
    <3>2. told[i]["completed"] <= 1 /\ (told[i]["completed"] = 1 <=> ingestItem[i].call # 0)
      BY <1>1 DEF ItemsInv, CompletedOnce
    <3> QED BY <3>1, <3>2
  <2>6. CompletedOnce'
    BY <2>1, <2>3, <2>4, <2>5 DEF ItemsInv, CompletedOnce
  <2>7. ItemsTyped' /\ Busy'
    BY <1>1, <1>2, <1>3, <2>1, <2>2, <2>4 DEF ItemsInv, ItemsTyped, Busy
  <2>8. ASSUME NEW k \in Recordings
        PROVE  made'[k] + Cardinality(Makers(k))' <= ingestItem'[k].claims
    <3>1. Cardinality(Makers(k))' <= Cardinality(Makers(k))
      BY <1>2, <1>3, MakersAfter DEF ItemsInv
    <3>2. Cardinality(Makers(k)) \in Nat /\ Cardinality(Makers(k))' \in Nat
      <4>1. Makers(k) \subseteq IngestWorkers /\ Makers(k)' \subseteq IngestWorkers
        BY DEF Makers
      <4> QED BY <4>1, IngestAssumption, FS_Subset, FS_CardinalityType
    <3>3. made[k] \in Nat /\ made[k] + Cardinality(Makers(k)) <= ingestItem[k].claims
      BY DEF ItemsInv, ItemsTyped, ClaimsPay
    <3>4. ingestItem[k].claims \in Nat /\ ingestItem'[k].claims = ingestItem[k].claims
      <4>1. ingestItem[k] \in Item
        BY DEF ItemsInv, ItemsTyped
      <4> QED BY <2>1, <2>3, <4>1, IngestAssumption DEF Item
    <3> QED BY <1>2, <3>1, <3>2, <3>3, <3>4
  <2>9. ClaimsPay'
    BY <2>8 DEF ClaimsPay
  <2> QED BY <2>6, <2>7, <2>9 DEF ItemsInv
<1> QED BY <1>4, <1>5

LEMMA ItemsStep ==
  ASSUME ItemsInv, [IngestNext]_ingestVars PROVE ItemsInv'
<1>1. CASE UNCHANGED <<ingestItem, made, ingestWorker, told>>
  BY <1>1, ItemsCalm DEF ItemsInv, ItemsTyped
<1>2. ASSUME NEW w \in HookWorkers, ClaimWebhook(w) \/ RecordWebhookDelivery(w) \/ LoseHookWorker(w)
      PROVE  ItemsInv'
  BY <1>1, <1>2 DEF ClaimWebhook, RecordWebhookDelivery, LoseHookWorker, ingestOnly
<1>3. ASSUME NEW e \in Endpoints, RevokeWebhook(e) PROVE ItemsInv'
  BY <1>1, <1>3 DEF RevokeWebhook, ingestOnly
<1>4. ASSUME NEW status, ChangeConnectionStatus(status) PROVE ItemsInv'
  BY <1>1, <1>4 DEF ChangeConnectionStatus
<1> QED BY <1>1, <1>2, <1>3, <1>4, AcceptKeeps, LoseKeeps, FailsKeeps, FailKeeps, ClaimKeeps,
           MakeKeeps, CompleteKeeps DEF IngestNext, ingestVars

LEMMA ItemsInvariant == IngestSpec => []ItemsInv
<1>1. IngestInit => ItemsInv
  BY ItemsBegin
<1>2. ItemsInv /\ [IngestNext]_ingestVars => ItemsInv'
  BY ItemsStep
<1> QED BY <1>1, <1>2, PTL DEF IngestSpec

(* The outbox holds one completion of a recording that became a call and none *)
(* of another, with any number of workers, claims and lost leases             *)
(* (worker.go:80-95).                                                         *)
THEOREM CompletionsAreOnce == IngestSpec => []CompletedOnce
<1>1. ItemsInv => CompletedOnce
  BY DEF ItemsInv
<1> QED BY <1>1, ItemsInvariant, PTL

(* A recording makes no more calls than it has claims (worker.go:24, 31).     *)
THEOREM CopiesAreClaimed == IngestSpec => []CopiesBounded
<1>1. ItemsInv => CopiesBounded
  <2>1. ASSUME ItemsInv, NEW i \in Recordings PROVE made[i] <= ingestItem[i].claims
    <3>1. Cardinality(Makers(i)) \in Nat /\ made[i] \in Nat
      BY <2>1, MakersFinite DEF ItemsInv, ItemsTyped
    <3>2. ingestItem[i].claims \in Nat
      <4>1. ingestItem[i] \in Item
        BY <2>1 DEF ItemsInv, ItemsTyped
      <4> QED BY <4>1, IngestAssumption DEF Item
    <3>3. made[i] + Cardinality(Makers(i)) <= ingestItem[i].claims
      BY <2>1 DEF ItemsInv, ClaimsPay
    <3> QED BY <3>1, <3>2, <3>3
  <2> QED BY <2>1 DEF CopiesBounded
<1> QED BY <1>1, ItemsInvariant, PTL

-----------------------------------------------------------------------------
(* Letters *)

Shape == [status : LetterStatus, attempts : Nat, leased : BOOLEAN, due : BOOLEAN, whole : BOOLEAN]
Claim == [letter : Letters, attempt : Nat, outcome : Outcome]

(* No bell and no letter of an alert is there before its mark, and a sender *)
(* holds letters that were queued: what a late one writes does not take a   *)
(* letter back.                                                             *)
LettersInv ==
  /\ letter \in [Letters -> Shape] /\ bell \in [Alerts -> Nat] /\ marks \subseteq Alerts
  /\ \A a \in Alerts : a \notin marks => bell[a] = 0 /\ letter[a].status = "absent"
  /\ sender \in [Senders -> SUBSET Claim]
  /\ \A s \in Senders : \A c \in sender[s] : letter[c.letter].status # "absent"

LEMMA LettersBegin == ASSUME DeliveryInit PROVE LettersInv
<1>1. [status |-> "absent", attempts |-> 0, leased |-> FALSE, due |-> FALSE, whole |-> TRUE] \in Shape
  BY DEF Shape, LetterStatus
<1> QED BY <1>1 DEF DeliveryInit, LettersInv, Letters

LEMMA ShapeWritten ==
  ASSUME NEW l \in Shape
  PROVE  /\ [l EXCEPT !.leased = FALSE] \in Shape /\ [l EXCEPT !.leased = FALSE].status = l.status
         /\ [l EXCEPT !.due = TRUE] \in Shape /\ [l EXCEPT !.due = TRUE].status = l.status
         /\ l.attempts \in Nat
BY DEF Shape

LEMMA ShapeQueued ==
  ASSUME NEW l \in Shape
  PROVE  /\ [l EXCEPT !.status = "pending", !.due = TRUE] \in Shape
         /\ [l EXCEPT !.status = "pending", !.due = TRUE].status = "pending"
BY DEF Shape, LetterStatus

(* A step that neither queues nor takes back a letter. *)
LEMMA LettersCalm ==
  ASSUME LettersInv, UNCHANGED <<marks, bell>>, letter' \in [Letters -> Shape],
         \A l \in Letters : letter'[l].status = "absent" <=> letter[l].status = "absent",
         sender' \in [Senders -> SUBSET Claim],
         \A s \in Senders : \A c \in sender'[s] :
           c \in sender[s] \/ letter[c.letter].status # "absent"
  PROVE  LettersInv'
<1>1. \A s \in Senders : \A c \in sender'[s] : letter'[c.letter].status # "absent"
  <2>1. ASSUME NEW s \in Senders, NEW c \in sender'[s]
        PROVE  letter'[c.letter].status # "absent"
    <3>1. c \in Claim /\ letter[c.letter].status # "absent"
      BY <2>1 DEF LettersInv
    <3>2. c.letter \in Letters
      BY <3>1 DEF Claim
    <3> QED BY <3>1, <3>2
  <2> QED BY <2>1
<1>2. \A a \in Alerts : a \in Letters
  BY DEF Letters
<1> QED BY <1>1, <1>2 DEF LettersInv

(* A letter that is queued now and was not before. *)
LEMMA Queued ==
  ASSUME LettersInv, NEW l \in Letters, letter[l].status = "absent", Enqueue(l)
  PROVE  /\ letter' \in [Letters -> Shape] /\ letter'[l].status = "pending"
         /\ \A k \in Letters \ {l} : letter'[k] = letter[k]
<1>1. letter \in [Letters -> Shape] /\ letter[l] \in Shape
  BY DEF LettersInv
<1> DEFINE row == [letter[l] EXCEPT !.status = "pending", !.due = TRUE]
<1>2. row \in Shape /\ row.status = "pending"
  BY <1>1, ShapeQueued
<1>3. letter' = [letter EXCEPT ![l] = row]
  BY <1>1 DEF Enqueue
<1> HIDE DEF row
<1> QED BY <1>1, <1>2, <1>3

LEMMA DeliverKeeps ==
  ASSUME LettersInv, NEW a \in Alerts, Deliver(a) PROVE LettersInv'
<1>1. a \notin marks /\ a \in Letters /\ letter[a].status = "absent" /\ bell[a] = 0
  BY DEF Deliver, NewMark, Letters, LettersInv
<1>2. marks' = marks \cup {a} /\ UNCHANGED sender
  BY DEF Deliver
<1>3. bell' = bell \/ bell' = [bell EXCEPT ![a] = @ + 1]
  BY DEF Deliver
<1>4. /\ letter' \in [Letters -> Shape]
      /\ \A k \in Letters \ {a} : letter'[k] = letter[k]
  <2>1. Enqueue(a) \/ UNCHANGED letter
    BY DEF Deliver
  <2> QED BY <1>1, <2>1, Queued DEF LettersInv
<1>5. /\ bell' \in [Alerts -> Nat] /\ marks' \subseteq Alerts
      /\ \A b \in Alerts : b \notin marks' => bell'[b] = 0
  BY <1>1, <1>2, <1>3 DEF LettersInv
<1>6. \A b \in Alerts : b \notin marks' => letter'[b].status = "absent"
  BY <1>1, <1>2, <1>4 DEF LettersInv, Letters
<1>7. ASSUME NEW s \in Senders, NEW c \in sender'[s]
      PROVE  letter'[c.letter].status # "absent"
  <2>1. c \in Claim /\ letter[c.letter].status # "absent"
    BY <1>2, <1>7 DEF LettersInv
  <2>2. c.letter \in Letters \ {a}
    BY <1>1, <2>1 DEF Claim
  <2> QED BY <1>4, <2>1, <2>2
<1> QED BY <1>2, <1>4, <1>5, <1>6, <1>7 DEF LettersInv

LEMMA SecretKeeps ==
  ASSUME LettersInv, NEW l \in Secrets, WriteSecretLetter(l) PROVE LettersInv'
<1>1. l \in Letters /\ l \notin Alerts /\ letter[l].status = "absent" /\ Enqueue(l)
  BY DeliveryAssumption DEF WriteSecretLetter, Letters
<1>2. UNCHANGED <<marks, bell, sender>>
  BY DEF WriteSecretLetter
<1>3. /\ letter' \in [Letters -> Shape] /\ letter'[l].status = "pending"
      /\ \A k \in Letters \ {l} : letter'[k] = letter[k]
  BY <1>1, Queued
<1>4. ASSUME NEW s \in Senders, NEW c \in sender'[s]
      PROVE  letter'[c.letter].status # "absent"
  <2>1. c \in Claim /\ letter[c.letter].status # "absent"
    BY <1>2, <1>4 DEF LettersInv
  <2>2. c.letter \in Letters
    BY <2>1 DEF Claim
  <2> QED BY <1>3, <2>1, <2>2
<1>5. \A a \in Alerts : a \in Letters \ {l}
  BY <1>1 DEF Letters
<1> QED BY <1>2, <1>3, <1>4, <1>5 DEF LettersInv

LEMMA ClaimBatchKeeps ==
  ASSUME LettersInv, NEW s \in Senders, ClaimBatch(s) PROVE LettersInv'
<1>1. PICK batch \in SUBSET {l \in Letters : Due(l)} :
       /\ letter' = [l \in Letters |-> IF l \notin batch THEN letter[l] ELSE
            [letter[l] EXCEPT !.status = "sending", !.attempts = @ + 1, !.leased = TRUE]]
       /\ sender' = [sender EXCEPT ![s] =
            {[letter |-> l, attempt |-> letter[l].attempts + 1,
              outcome |-> IF frozen /\ l \in Alerts THEN "stopped" ELSE "claimed"] : l \in batch}]
  BY DEF ClaimBatch
<1>2. UNCHANGED <<marks, bell>>
  BY DEF ClaimBatch
<1>3. \A l \in batch : l \in Letters /\ letter[l].status # "absent"
  BY DEF Due
<1>4. ASSUME NEW l \in Letters
      PROVE  letter'[l] \in Shape /\ (letter'[l].status = "absent" <=> letter[l].status = "absent")
  <2>1. letter[l] \in Shape
    BY DEF LettersInv
  <2>2. PICK n \in Nat : n = letter[l].attempts + 1
    <3>1. letter[l].attempts \in Nat
      BY <2>1 DEF Shape
    <3> QED BY <3>1
  <2>3. CASE l \in batch
    <3>1. letter'[l] = [letter[l] EXCEPT !.status = "sending", !.attempts = n, !.leased = TRUE]
      BY <1>1, <2>1, <2>2, <2>3
    <3>2. [letter[l] EXCEPT !.status = "sending", !.attempts = n, !.leased = TRUE] \in Shape
      BY <2>1 DEF Shape, LetterStatus
    <3>3. [letter[l] EXCEPT !.status = "sending", !.attempts = n, !.leased = TRUE].status = "sending"
      BY <2>1 DEF Shape
    <3> QED BY <1>3, <2>3, <3>1, <3>2, <3>3
  <2>4. CASE l \notin batch
    BY <1>1, <2>1, <2>4
  <2> QED BY <2>3, <2>4
<1>5. letter' \in [Letters -> Shape]
  BY <1>1, <1>4
<1> DEFINE claims == {[letter |-> l, attempt |-> letter[l].attempts + 1,
                      outcome |-> IF frozen /\ l \in Alerts THEN "stopped" ELSE "claimed"] : l \in batch}
<1>6. \A c \in claims : c \in Claim /\ letter[c.letter].status # "absent"
  <2>1. ASSUME NEW l \in batch
        PROVE  LET c == [letter |-> l, attempt |-> letter[l].attempts + 1,
                         outcome |-> IF frozen /\ l \in Alerts THEN "stopped" ELSE "claimed"]
               IN  c \in Claim /\ letter[c.letter].status # "absent"
    <3>1. l \in Letters /\ letter[l].status # "absent"
      BY <1>3
    <3>2. letter[l].attempts + 1 \in Nat
      <4>1. letter[l].attempts \in Nat
        BY <3>1 DEF LettersInv, Shape
      <4> QED BY <4>1
    <3> QED BY <3>1, <3>2 DEF Claim, Outcome
  <2> QED BY <2>1
<1> HIDE DEF claims
<1>7. sender \in [Senders -> SUBSET Claim] /\ sender' = [sender EXCEPT ![s] = claims]
  BY <1>1 DEF LettersInv, claims
<1>8. /\ sender' \in [Senders -> SUBSET Claim]
      /\ \A t \in Senders : \A c \in sender'[t] : c \in sender[t] \/ letter[c.letter].status # "absent"
  BY <1>6, <1>7
<1> QED BY <1>2, <1>4, <1>5, <1>8, LettersCalm

LEMMA SendKeeps ==
  ASSUME LettersInv, NEW s \in Senders, Send(s) PROVE LettersInv'
<1>1. PICK c \in sender[s], outcome \in {"sent", "refused"} :
        sender' = [sender EXCEPT ![s] = (@ \ {c}) \cup {[c EXCEPT !.outcome = outcome]}]
  BY DEF Send
<1>2. UNCHANGED <<marks, bell, letter>>
  BY DEF Send
<1>3. c \in Claim /\ letter[c.letter].status # "absent"
  BY DEF LettersInv
<1>4. /\ [c EXCEPT !.outcome = outcome] \in Claim
      /\ [c EXCEPT !.outcome = outcome].letter = c.letter
  BY <1>3 DEF Claim, Outcome
<1> DEFINE done == [c EXCEPT !.outcome = outcome]
<1> HIDE DEF done
<1>5. done \in Claim /\ done.letter = c.letter /\ sender \in [Senders -> SUBSET Claim]
      /\ sender' = [sender EXCEPT ![s] = (@ \ {c}) \cup {done}]
  BY <1>1, <1>4 DEF LettersInv, done
<1>6. sender' \in [Senders -> SUBSET Claim]
  BY <1>5
<1>7. \A t \in Senders : \A d \in sender'[t] : d \in sender[t] \/ letter[d.letter].status # "absent"
  BY <1>3, <1>5
<1>8. letter' \in [Letters -> Shape]
  BY <1>2 DEF LettersInv
<1> QED BY <1>2, <1>6, <1>7, <1>8, LettersCalm

LEMMA FinishKeeps ==
  ASSUME LettersInv, NEW s \in Senders, Finish(s) PROVE LettersInv'
<1>1. PICK c \in sender[s] :
       /\ letter' = [letter EXCEPT ![c.letter] =
            [status |-> Ended(c), attempts |-> letter[c.letter].attempts, leased |-> FALSE,
             due |-> Ended(c) # "failed",
             whole |-> letter[c.letter].whole /\ (Ended(c) = "failed" \/ c.letter \in Alerts)]]
       /\ sender' = [sender EXCEPT ![s] = @ \ {c}]
  BY DEF Finish
<1>2. UNCHANGED <<marks, bell>>
  BY DEF Finish
<1>3. /\ letter \in [Letters -> Shape] /\ c.letter \in Letters
      /\ letter[c.letter] \in Shape /\ letter[c.letter].status # "absent"
  BY DEF LettersInv, Claim
<1>4. Ended(c) \in {"sent", "dead", "failed"}
  BY DEF Ended
<1> DEFINE row == [status |-> Ended(c), attempts |-> letter[c.letter].attempts, leased |-> FALSE,
                   due |-> Ended(c) # "failed",
                   whole |-> letter[c.letter].whole /\ (Ended(c) = "failed" \/ c.letter \in Alerts)]
<1>5. row \in Shape /\ row.status # "absent"
  <2>1. letter[c.letter].attempts \in Nat
    BY <1>3 DEF Shape
  <2>2. (letter[c.letter].whole /\ (Ended(c) = "failed" \/ c.letter \in Alerts)) \in BOOLEAN
    OBVIOUS
  <2> QED BY <1>4, <2>1, <2>2 DEF Shape, LetterStatus
<1>6. letter' = [letter EXCEPT ![c.letter] = row]
  BY <1>1
<1> HIDE DEF row
<1>7. letter' \in [Letters -> Shape]
  BY <1>3, <1>5, <1>6
<1>8. \A l \in Letters : letter'[l].status = "absent" <=> letter[l].status = "absent"
  BY <1>3, <1>5, <1>6
<1>9. /\ sender' \in [Senders -> SUBSET Claim]
      /\ \A t \in Senders : \A d \in sender'[t] : d \in sender[t]
  BY <1>1 DEF LettersInv
<1> QED BY <1>2, <1>7, <1>8, <1>9, LettersCalm

(* A delay that passes, or a lease that ends. *)
LEMMA ClockKeeps ==
  ASSUME LettersInv, NEW l \in Letters, BackoffEnds(l) \/ LeaseEnds(l) PROVE LettersInv'
<1>1. /\ letter \in [Letters -> Shape] /\ letter[l] \in Shape
      /\ sender \in [Senders -> SUBSET Claim] /\ UNCHANGED <<marks, bell, sender>>
  BY DEF LettersInv, BackoffEnds, LeaseEnds
<1>2. PICK row \in Shape : row.status = letter[l].status /\ letter' = [letter EXCEPT ![l] = row]
  <2>1. CASE BackoffEnds(l)
    <3>1. letter' = [letter EXCEPT ![l] = [letter[l] EXCEPT !.due = TRUE]]
      BY <1>1, <2>1 DEF BackoffEnds
    <3> QED BY <1>1, <3>1, ShapeWritten
  <2>2. CASE LeaseEnds(l)
    <3>1. letter' = [letter EXCEPT ![l] = [letter[l] EXCEPT !.leased = FALSE]]
      BY <1>1, <2>2 DEF LeaseEnds
    <3> QED BY <1>1, <3>1, ShapeWritten
  <2> QED BY <2>1, <2>2
<1>3. letter' \in [Letters -> Shape]
  BY <1>1, <1>2
<1>4. \A k \in Letters : letter'[k].status = "absent" <=> letter[k].status = "absent"
  BY <1>1, <1>2
<1> QED BY <1>1, <1>3, <1>4, LettersCalm

(* Claims that are lost, a company that is frozen, nothing at all. *)
LEMMA LossKeeps ==
  ASSUME LettersInv,
         \/ \E s \in Senders : FinishFails(s) \/ LoseSender(s)
         \/ Freeze
         \/ UNCHANGED deliveryVars
  PROVE  LettersInv'
<1>1. UNCHANGED <<marks, bell, letter>>
  BY DEF FinishFails, LoseSender, Freeze, deliveryVars
<1>2. PICK kept \in SUBSET UNION {sender[s] : s \in Senders} :
        \/ UNCHANGED sender
        \/ \E s \in Senders : kept \subseteq sender[s] /\ sender' = [sender EXCEPT ![s] = kept]
  <2>1. CASE \E s \in Senders : FinishFails(s) \/ LoseSender(s)
    <3>1. PICK s \in Senders : \E lost \in SUBSET sender[s] :
            sender' = [sender EXCEPT ![s] = @ \ lost]
      <4>1. PICK s \in Senders : FinishFails(s) \/ LoseSender(s)
        BY <2>1
      <4>2. CASE FinishFails(s)
        BY <4>2 DEF FinishFails
      <4>3. CASE LoseSender(s)
        <5>1. sender' = [sender EXCEPT ![s] = @ \ sender[s]]
          BY <4>3 DEF LoseSender
        <5> QED BY <5>1
      <4> QED BY <4>1, <4>2, <4>3
    <3> QED BY <3>1
  <2>2. CASE UNCHANGED sender
    BY <2>2
  <2> QED BY <2>1, <2>2 DEF Freeze, deliveryVars
<1>3. /\ sender' \in [Senders -> SUBSET Claim]
      /\ \A t \in Senders : \A c \in sender'[t] : c \in sender[t]
  BY <1>2 DEF LettersInv
<1>4. letter' \in [Letters -> Shape]
  BY <1>1 DEF LettersInv
<1> QED BY <1>1, <1>3, <1>4, LettersCalm

LEMMA LettersStep ==
  ASSUME LettersInv, [DeliveryNext]_deliveryVars PROVE LettersInv'
BY DeliverKeeps, SecretKeeps, ClaimBatchKeeps, SendKeeps, FinishKeeps, ClockKeeps, LossKeeps
   DEF DeliveryNext, SenderStep

(* Whoever changes the bell or the letters of an alert: Deliver does, at the  *)
(* first mark; the workers and the clock only change letters that are there.  *)
LEMMA ToldStep ==
  ASSUME LettersInv, [DeliveryNext]_deliveryVars, NEW a \in Alerts
  PROVE  \/ bell'[a] = bell[a] /\ (letter[a].status = "absent" => letter'[a].status = "absent")
         \/ a \notin marks /\ a \in marks' /\ bell'[a] <= 1
<1>1. a \in Letters /\ a \notin Secrets
  BY DeliveryAssumption DEF Letters
<1>2. ASSUME NEW b \in Alerts, Deliver(b)
      PROVE  b \notin marks /\ marks' = marks \cup {b} /\ bell[b] = 0
  BY <1>2 DEF Deliver, NewMark, LettersInv
<1>3. CASE \E b \in Alerts : Deliver(b)
  <2>1. PICK b \in Alerts : Deliver(b)
    BY <1>3
  <2>2. bell' = bell \/ bell' = [bell EXCEPT ![b] = @ + 1]
    BY <2>1 DEF Deliver
  <2>3. CASE a = b
    BY <1>2, <2>1, <2>2, <2>3 DEF LettersInv
  <2>4. CASE a # b
    <3>1. bell'[a] = bell[a]
      BY <2>2, <2>4 DEF LettersInv
    <3>2. letter' = letter \/ letter' = [letter EXCEPT ![b].status = "pending", ![b].due = TRUE]
      BY <2>1 DEF Deliver, Enqueue
    <3>3. letter'[a] = letter[a]
      BY <1>1, <2>4, <3>2 DEF LettersInv
    <3> QED BY <3>1, <3>3
  <2> QED BY <2>3, <2>4
<1>4. CASE \E l \in Secrets : WriteSecretLetter(l)
  <2>1. PICK l \in Secrets : WriteSecretLetter(l)
    BY <1>4
  <2>2. /\ bell' = bell
        /\ letter' = letter \/ letter' = [letter EXCEPT ![l].status = "pending", ![l].due = TRUE]
    BY <2>1 DEF WriteSecretLetter, Enqueue
  <2>3. letter'[a] = letter[a]
    BY <1>1, <2>1, <2>2 DEF LettersInv
  <2> QED BY <2>2, <2>3
<1>5. CASE \E s \in Senders : ClaimBatch(s)
  <2>1. PICK s \in Senders : ClaimBatch(s)
    BY <1>5
  <2>2. PICK batch \in SUBSET {l \in Letters : Due(l)} :
         letter' = [l \in Letters |-> IF l \notin batch THEN letter[l] ELSE
           [letter[l] EXCEPT !.status = "sending", !.attempts = @ + 1, !.leased = TRUE]]
    BY <2>1 DEF ClaimBatch
  <2>3. letter[a].status = "absent" => a \notin batch
    BY <2>2 DEF Due
  <2>4. bell' = bell
    BY <2>1 DEF ClaimBatch
  <2> QED BY <1>1, <2>2, <2>3, <2>4
<1>6. CASE \E s \in Senders : Send(s) \/ FinishFails(s) \/ LoseSender(s)
  BY <1>6 DEF Send, FinishFails, LoseSender
<1>7. CASE \E s \in Senders : Finish(s)
  <2>1. PICK s \in Senders : Finish(s)
    BY <1>7
  <2>2. PICK c, row :
         c \in sender[s] /\ letter' = [letter EXCEPT ![c.letter] = row]
    BY <2>1 DEF Finish
  <2>3. c.letter \in Letters /\ letter[c.letter].status # "absent"
    BY <2>1, <2>2 DEF LettersInv, Claim
  <2>4. bell' = bell
    BY <2>1 DEF Finish
  <2> QED BY <1>1, <2>2, <2>3, <2>4 DEF LettersInv
<1>8. CASE \E l \in Letters : BackoffEnds(l) \/ LeaseEnds(l)
  <2>1. PICK l \in Letters : BackoffEnds(l) \/ LeaseEnds(l)
    BY <1>8
  <2>2. /\ bell' = bell /\ letter[l].status # "absent"
        /\ \E row : letter' = [letter EXCEPT ![l] = row]
    BY <2>1 DEF BackoffEnds, LeaseEnds
  <2> QED BY <1>1, <2>1, <2>2 DEF LettersInv
<1>9. CASE Freeze \/ UNCHANGED deliveryVars
  BY <1>9 DEF Freeze, deliveryVars
<1> QED BY <1>3, <1>4, <1>5, <1>6, <1>7, <1>8, <1>9 DEF DeliveryNext, SenderStep

(* Nobody is told twice: what was marked neither rings again nor gets a       *)
(* letter later, for any number of alerts, letters and workers and whatever   *)
(* channels are switched on in between (service.go:77-81).                    *)
THEOREM AlertsRingOnce == DeliverySpec => ToldOnce
<1>1. DeliveryInit => LettersInv
  BY LettersBegin
<1>2. LettersInv /\ [DeliveryNext]_deliveryVars => LettersInv'
  BY LettersStep
<1> DEFINE Told ==
      \A a \in Alerts :
        \/ bell'[a] = bell[a] /\ (letter[a].status = "absent" => letter'[a].status = "absent")
        \/ a \notin marks /\ a \in marks' /\ bell'[a] <= 1
<1>3. LettersInv /\ [DeliveryNext]_deliveryVars => [Told]_deliveryVars
  BY ToldStep
<1>4. ToldOnce <=> [][Told]_deliveryVars
  BY DEF ToldOnce
<1> HIDE DEF Told
<1> QED BY <1>1, <1>2, <1>3, <1>4, PTL DEF DeliverySpec

-----------------------------------------------------------------------------
(* Tasks in the portal *)

SyncShape == [state : SyncState, attempts : Nat, leased : BOOLEAN, code : Codes,
              task : Nat, review : BOOLEAN]
WorkShape == {e \in [pc : {"idle", "prepare", "create", "save", "compare"}, row : Syncs,
                     answer : Answers, task : Nat] : e.pc = "save" => e.answer # "none"}
Errands == [pc : {"idle", "confirm", "restore"}, row : Syncs]

SyncsTyped ==
  /\ sync \in [Syncs -> SyncShape]
  /\ retries \in [Syncs -> Nat] /\ tasks \in [Syncs -> Nat]
  /\ syncWorker \in [SyncWorkers -> WorkShape]
  /\ decider \in [Deciders -> Errands]

(* The rows that a creation is still to be claimed for, or was never asked. *)
Waiting == {"none", "pending_approval", "queued"}
Left(i) == IF sync[i].state \in Waiting THEN 1 ELSE 0

(* The workers that may yet create a task for the row. *)
Creators(i) ==
  {w \in SyncWorkers : syncWorker[w].pc \in {"prepare", "create"} /\ syncWorker[w].row = i}

(* What was created, what may be and what waits are the approval and the      *)
(* decisions: a claim takes what waits, a doubtful answer leaves nothing.     *)
CreationsPaid ==
  \A i \in Syncs : tasks[i] + Cardinality(Creators(i)) + Left(i) <= 1 + retries[i]

(* Only a row that is synced has a task. *)
LinkedIsSynced == \A i \in Syncs : sync[i].task # 0 => sync[i].state = "synced"

SyncInv == SyncsTyped /\ CreationsPaid /\ LinkedIsSynced

LEMMA CreatorsFinite ==
  ASSUME NEW i PROVE IsFiniteSet(Creators(i)) /\ Cardinality(Creators(i)) \in Nat
<1>1. Creators(i) \subseteq SyncWorkers
  BY DEF Creators
<1> QED BY <1>1, ActionSyncAssumption, FS_Subset, FS_CardinalityType

LEMMA SyncBegins == ASSUME ActionSyncInit PROVE SyncInv
<1>1. NoSync \in SyncShape /\ NoSync.state = "none" /\ NoSync.task = 0
  BY DEF NoSync, SyncShape, SyncState, Closed, Codes
<1>2. 1 \in Syncs /\ NoWork \in WorkShape /\ NoWork.pc = "idle"
  BY ActionSyncAssumption DEF Syncs, NoWork, WorkShape, Answers
<1>3. SyncsTyped
  BY <1>1, <1>2 DEF ActionSyncInit, SyncsTyped, Errands
<1>4. ASSUME NEW i \in Syncs PROVE tasks[i] + Cardinality(Creators(i)) + Left(i) <= 1 + retries[i]
  <2>1. Creators(i) = {}
    BY <1>2 DEF ActionSyncInit, Creators
  <2>2. Cardinality(Creators(i)) = 0
    BY <2>1, FS_EmptySet
  <2> QED BY <2>2 DEF ActionSyncInit, Left
<1>5. LinkedIsSynced
  BY <1>1 DEF ActionSyncInit, LinkedIsSynced
<1> QED BY <1>3, <1>4, <1>5 DEF SyncInv, CreationsPaid

(* The forms in which a row is written: what they leave alone. *)
Written(q, state, t) == q \in SyncShape /\ q.state = state /\ q.task = t
WritesRow(i, state, t) == \E row : Written(row, state, t) /\ sync' = [sync EXCEPT ![i] = row]

LEMMA RowIsWritten ==
  ASSUME NEW i, NEW state, NEW t, NEW row,
         Written(row, state, t), sync' = [sync EXCEPT ![i] = row]
  PROVE  WritesRow(i, state, t)
BY DEF WritesRow

(* A statement on one row, with the workers as they are: only a decision     *)
(* makes a row wait for a creation again.                                    *)
LEMMA RowKeeps ==
  ASSUME SyncInv, NEW i \in Syncs, NEW state, NEW t, WritesRow(i, state, t),
         UNCHANGED <<tasks, syncWorker>>, decider' \in [Deciders -> Errands],
         \/ retries' = retries /\ (state \in Waiting => sync[i].state \in Waiting)
         \/ retries' = [retries EXCEPT ![i] = @ + 1],
         t # 0 => state = "synced"
  PROVE  SyncInv'
<1>0. PICK row \in SyncShape :
        row.state = state /\ row.task = t /\ sync' = [sync EXCEPT ![i] = row]
  BY DEF WritesRow, Written
<1> USE DEF SyncInv, SyncsTyped
<1>1. SyncsTyped'
  <2>1. sync' \in [Syncs -> SyncShape]
    BY <1>0
  <2>2. retries' \in [Syncs -> Nat]
    OBVIOUS
  <2> QED BY <2>1, <2>2
<1>2. ASSUME NEW j \in Syncs
      PROVE  (tasks[j] + Cardinality(Creators(j)) + Left(j) <= 1 + retries[j])'
  <2>1. Creators(j)' = Creators(j)
    BY DEF Creators
  <2>2. tasks[j] + Cardinality(Creators(j)) + Left(j) <= 1 + retries[j]
    BY DEF CreationsPaid
  <2>3. sync'[j].state = IF j = i THEN state ELSE sync[j].state
    BY <1>0
  <2>4. tasks'[j] = tasks[j] /\ tasks[j] \in Nat /\ retries[j] \in Nat
    OBVIOUS
  <2>5. CASE retries' = retries /\ (state \in Waiting => sync[i].state \in Waiting)
    BY <2>1, <2>2, <2>3, <2>4, <2>5, CreatorsFinite DEF Left
  <2>6. CASE retries' = [retries EXCEPT ![i] = @ + 1]
    <3>1. retries'[j] = IF j = i THEN retries[j] + 1 ELSE retries[j]
      BY <2>6
    <3> QED BY <2>1, <2>2, <2>3, <2>4, <3>1, CreatorsFinite DEF Left
  <2> QED BY <2>5, <2>6
<1>3. LinkedIsSynced'
  BY <1>0 DEF LinkedIsSynced
<1> QED BY <1>1, <1>2, <1>3 DEF CreationsPaid

(* What a worker has in hand decides whether it may still create a task. *)
Creating(e, i) == e.pc \in {"prepare", "create"} /\ e.row = i

TurnsTo(w, e) == e \in WorkShape /\ syncWorker' = [syncWorker EXCEPT ![w] = e]

LEMMA CreatorsAfter ==
  ASSUME SyncInv, NEW w \in SyncWorkers, NEW e,
         TurnsTo(w, e), NEW i
  PROVE  /\ w \in Creators(i) <=> Creating(syncWorker[w], i)
         /\ Creating(e, i) => Creators(i)' = Creators(i) \cup {w}
         /\ ~Creating(e, i) => Creators(i)' = Creators(i) \ {w}
BY DEF SyncInv, SyncsTyped, Creators, Creating, TurnsTo

LEMMA CreatorsCount ==
  ASSUME NEW w, NEW i
  PROVE  /\ w \in Creators(i) => Cardinality(Creators(i) \ {w}) = Cardinality(Creators(i)) - 1
         /\ w \notin Creators(i) => Creators(i) \ {w} = Creators(i)
         /\ w \in Creators(i) => Creators(i) \cup {w} = Creators(i)
         /\ w \notin Creators(i) =>
              Cardinality(Creators(i) \cup {w}) = Cardinality(Creators(i)) + 1
BY CreatorsFinite, FS_AddElement, FS_RemoveElement

(* A worker goes on with row i and writes it: it takes up a creation that     *)
(* waited, goes on with its own, or has none any more; and only who gives one *)
(* up makes the row wait again.                                              *)
LEMMA SyncWorkerKeeps ==
  ASSUME SyncInv, NEW w \in SyncWorkers, NEW e, TurnsTo(w, e),
         NEW i \in Syncs, NEW state, NEW t, WritesRow(i, state, t),
         UNCHANGED <<retries, tasks, decider>>,
         t # 0 => state = "synced",
         \A j \in Syncs : Creating(e, j) => j = i,
         Creating(e, i) =>
           \/ Creating(syncWorker[w], i)
           \/ sync[i].state \in Waiting /\ state \notin Waiting,
         state \in Waiting =>
           \/ sync[i].state \in Waiting
           \/ Creating(syncWorker[w], i) /\ ~Creating(e, i)
  PROVE  SyncInv'
<1>0. PICK row \in SyncShape :
        row.state = state /\ row.task = t /\ sync' = [sync EXCEPT ![i] = row]
  BY DEF WritesRow, Written
<1> USE DEF SyncInv, SyncsTyped
<1>1. SyncsTyped'
  <2>1. sync' \in [Syncs -> SyncShape]
    BY <1>0
  <2>2. syncWorker' \in [SyncWorkers -> WorkShape]
    BY DEF TurnsTo
  <2> QED BY <2>1, <2>2
<1>2. ASSUME NEW j \in Syncs
      PROVE  (tasks[j] + Cardinality(Creators(j)) + Left(j) <= 1 + retries[j])'
  <2> DEFINE c == Cardinality(Creators(j))
  <2>1. /\ tasks[j] + c + Left(j) <= 1 + retries[j]
        /\ tasks'[j] = tasks[j] /\ retries'[j] = retries[j]
        /\ tasks[j] \in Nat /\ retries[j] \in Nat /\ c \in Nat
    BY CreatorsFinite DEF CreationsPaid
  <2>2. sync'[j].state = IF j = i THEN state ELSE sync[j].state
    BY <1>0
  <2>3. Left(j) \in 0 .. 1 /\ Left(j)' \in 0 .. 1
    BY DEF Left
  <2>4. CASE ~Creating(e, j)
    <3>1. Creators(j)' = Creators(j) \ {w}
      BY <2>4, CreatorsAfter
    <3>2. CASE w \in Creators(j)
      <4>1. Cardinality(Creators(j))' = c - 1
        BY <3>1, <3>2, CreatorsCount
      <4> QED BY <4>1, <2>1, <2>3
    <3>3. CASE w \notin Creators(j)
      <4>1. Cardinality(Creators(j))' = c
        BY <3>1, <3>3, CreatorsCount
      <4>2. ~Creating(syncWorker[w], j)
        BY <3>3, CreatorsAfter
      <4>3. Left(j)' <= Left(j)
        BY <2>2, <4>2 DEF Left
      <4> QED BY <4>1, <4>3, <2>1, <2>3
    <3> QED BY <3>2, <3>3
  <2>5. CASE Creating(e, j)
    <3>1. j = i /\ Creators(j)' = Creators(j) \cup {w}
      BY <2>5, CreatorsAfter
    <3>2. CASE w \in Creators(j)
      <4>1. Cardinality(Creators(j))' = c
        BY <3>1, <3>2, CreatorsCount
      <4>2. Left(j)' <= Left(j)
        BY <2>2, <2>5, <3>1 DEF Left
      <4> QED BY <4>1, <4>2, <2>1, <2>3
    <3>3. CASE w \notin Creators(j)
      <4>1. Cardinality(Creators(j))' = c + 1
        BY <3>1, <3>3, CreatorsCount
      <4>2. ~Creating(syncWorker[w], j)
        BY <3>3, CreatorsAfter
      <4>3. Left(j) = 1 /\ Left(j)' = 0
        BY <2>2, <2>5, <3>1, <4>2 DEF Left
      <4> QED BY <4>1, <4>3, <2>1
    <3> QED BY <3>2, <3>3
  <2> QED BY <2>4, <2>5
<1>3. LinkedIsSynced'
  BY <1>0 DEF LinkedIsSynced
<1> QED BY <1>1, <1>2, <1>3 DEF CreationsPaid

(* The same, when the worker leaves the row as it is. *)
LEMMA SyncWorkerGoesOn ==
  ASSUME SyncInv, NEW w \in SyncWorkers, NEW e, TurnsTo(w, e),
         UNCHANGED <<sync, retries, tasks, decider>>,
         NEW i \in Syncs,
         \A j \in Syncs : Creating(e, j) => j = i,
         Creating(e, i) => Creating(syncWorker[w], i)
  PROVE  SyncInv'
<1>1. sync[i] \in SyncShape /\ sync' = [sync EXCEPT ![i] = sync[i]]
  BY DEF SyncInv, SyncsTyped
<1>2. PICK state, t : WritesRow(i, state, t) /\ state = sync[i].state /\ t = sync[i].task
  BY <1>1 DEF WritesRow, Written
<1>3. t # 0 => state = "synced"
  BY <1>2 DEF SyncInv, LinkedIsSynced
<1>4. UNCHANGED <<retries, tasks, decider>>
  OBVIOUS
<1>5. state \in Waiting => sync[i].state \in Waiting
  BY <1>2
<1> QED BY <1>2, <1>3, <1>4, <1>5, SyncWorkerKeeps

-----------------------------------------------------------------------------
(* The actions *)

LEMMA SyncRowFacts ==
  ASSUME SyncInv, NEW i \in Syncs
  PROVE  /\ sync[i] \in SyncShape /\ (sync[i].task # 0 => sync[i].state = "synced")
         /\ sync[i].state \in SyncState /\ sync[i].task \in Nat /\ sync[i].code \in Codes
BY DEF SyncInv, SyncsTyped, LinkedIsSynced, SyncShape

(* Statements of people, and of the worker that looks after leases. *)
LEMMA PeopleKeep ==
  ASSUME SyncInv, NEW i \in Syncs,
         \/ CreateActionSync(i) \/ ApproveActionSync(i) \/ RejectActionSync(i)
         \/ RecoverActionSyncLease(i) \/ EscalateAmbiguous(i)
         \/ RetryCreate(i) \/ CancelActionSync(i) \/ AcceptExternal(i) \/ UnlinkTask(i)
  PROVE  SyncInv'
<1>1. /\ sync[i] \in SyncShape /\ (sync[i].task # 0 => sync[i].state = "synced")
      /\ sync[i].state \in SyncState /\ sync[i].task \in Nat
  BY SyncRowFacts
<1>2. UNCHANGED <<tasks, syncWorker>> /\ decider' \in [Deciders -> Errands]
  BY DEF SyncInv, SyncsTyped, CreateActionSync, ApproveActionSync, RejectActionSync,
         RecoverActionSyncLease, EscalateAmbiguous, RetryCreate, CancelActionSync,
         AcceptExternal, UnlinkTask
<1> USE DEF SyncState, Closed, Codes, In, WriteSync, Move
<1>3. ASSUME CreateActionSync(i) PROVE SyncInv'
  <2>1. WritesRow(i, "pending_approval", 0)
    BY <1>3 DEF CreateActionSync, NoSync, WritesRow, Written, SyncShape
  <2>2. retries' = retries /\ sync[i].state \in Waiting
    BY <1>3 DEF CreateActionSync, Waiting
  <2> QED BY <1>2, <2>1, <2>2, RowKeeps
<1>4. ASSUME ApproveActionSync(i) PROVE SyncInv'
  <2>1. WritesRow(i, "queued", sync[i].task)
    <3> DEFINE row == [sync[i] EXCEPT !.state = "queued", !.code = "none", !.leased = FALSE]
    <3>1. Written(row, "queued", sync[i].task)
      BY <1>1 DEF Written, SyncShape
    <3>2. sync' = [sync EXCEPT ![i] = row]
      BY <1>4 DEF ApproveActionSync
    <3> HIDE DEF row
    <3> QED BY <3>1, <3>2, RowIsWritten
  <2>2. retries' = retries /\ sync[i].task = 0 /\ sync[i].state \in Waiting
    BY <1>1, <1>4 DEF ApproveActionSync, Waiting
  <2> QED BY <1>1, <1>2, <2>1, <2>2, RowKeeps
<1>5. ASSUME RejectActionSync(i) PROVE SyncInv'
  <2>1. WritesRow(i, "rejected", sync[i].task)
    <3> DEFINE row == [sync[i] EXCEPT !.state = "rejected", !.code = "other", !.leased = FALSE]
    <3>1. Written(row, "rejected", sync[i].task)
      BY <1>1 DEF Written, SyncShape
    <3>2. sync' = [sync EXCEPT ![i] = row]
      BY <1>5 DEF RejectActionSync
    <3> HIDE DEF row
    <3> QED BY <3>1, <3>2, RowIsWritten
  <2>2. retries' = retries /\ sync[i].task = 0 /\ "rejected" \notin Waiting
    BY <1>1, <1>5 DEF RejectActionSync, Waiting
  <2> QED BY <1>1, <1>2, <2>1, <2>2, RowKeeps
<1>6. ASSUME RecoverActionSyncLease(i) PROVE SyncInv'
  <2>1. WritesRow(i, "reconciling", sync[i].task)
    <3> DEFINE row == [sync[i] EXCEPT !.state = "reconciling", !.code = "doubtful", !.leased = FALSE]
    <3>1. Written(row, "reconciling", sync[i].task)
      BY <1>1 DEF Written, SyncShape
    <3>2. sync' = [sync EXCEPT ![i] = row]
      BY <1>6 DEF RecoverActionSyncLease, AfterDoubt
    <3> HIDE DEF row
    <3> QED BY <3>1, <3>2, RowIsWritten
  <2>2. retries' = retries /\ sync[i].task = 0 /\ "reconciling" \notin Waiting
    BY <1>1, <1>6 DEF RecoverActionSyncLease, Waiting
  <2> QED BY <1>1, <1>2, <2>1, <2>2, RowKeeps
<1>7. ASSUME EscalateAmbiguous(i) PROVE SyncInv'
  <2>1. WritesRow(i, "needs_review", sync[i].task)
    <3> DEFINE row == [sync[i] EXCEPT !.state = "needs_review"]
    <3>1. Written(row, "needs_review", sync[i].task)
      BY <1>1 DEF Written, SyncShape
    <3>2. sync' = [sync EXCEPT ![i] = row]
      BY <1>7 DEF EscalateAmbiguous
    <3> HIDE DEF row
    <3> QED BY <3>1, <3>2, RowIsWritten
  <2>2. retries' = retries /\ sync[i].task = 0 /\ "needs_review" \notin Waiting
    BY <1>1, <1>7 DEF EscalateAmbiguous, Waiting
  <2> QED BY <1>1, <1>2, <2>1, <2>2, RowKeeps
<1>8. ASSUME CancelActionSync(i) PROVE SyncInv'
  <2>1. WritesRow(i, "cancelled", sync[i].task)
    <3> DEFINE row == [sync[i] EXCEPT !.state = "cancelled"]
    <3>1. Written(row, "cancelled", sync[i].task)
      BY <1>1 DEF Written, SyncShape
    <3>2. sync' = [sync EXCEPT ![i] = row]
      BY <1>8 DEF CancelActionSync
    <3> HIDE DEF row
    <3> QED BY <3>1, <3>2, RowIsWritten
  <2>2. retries' = retries /\ sync[i].task = 0 /\ "cancelled" \notin Waiting
    BY <1>1, <1>8 DEF CancelActionSync, Doubted, Waiting
  <2> QED BY <1>1, <1>2, <2>1, <2>2, RowKeeps
<1>9. ASSUME RetryCreate(i) PROVE SyncInv'
  <2>1. WritesRow(i, "queued", sync[i].task)
    <3> DEFINE row == [sync[i] EXCEPT !.state = "queued", !.code = "none"]
    <3>1. Written(row, "queued", sync[i].task)
      BY <1>1 DEF Written, SyncShape
    <3>2. sync' = [sync EXCEPT ![i] = row]
      BY <1>9 DEF RetryCreate
    <3> HIDE DEF row
    <3> QED BY <3>1, <3>2, RowIsWritten
  <2>2. retries' = [retries EXCEPT ![i] = @ + 1] /\ sync[i].task = 0
    BY <1>1, <1>9 DEF RetryCreate, Doubted
  <2> QED BY <1>1, <1>2, <2>1, <2>2, RowKeeps
<1>10. ASSUME AcceptExternal(i) PROVE SyncInv'
  <2>1. WritesRow(i, "synced", sync[i].task)
    <3> DEFINE row == [sync[i] EXCEPT !.review = FALSE, !.leased = FALSE, !.code = "none"]
    <3>1. Written(row, "synced", sync[i].task)
      BY <1>1, <1>10 DEF Written, SyncShape, AcceptExternal, Differs
    <3>2. sync' = [sync EXCEPT ![i] = row]
      BY <1>10 DEF AcceptExternal
    <3> HIDE DEF row
    <3> QED BY <3>1, <3>2, RowIsWritten
  <2>2. retries' = retries /\ sync[i].state = "synced" /\ "synced" \notin Waiting
    BY <1>1, <1>10 DEF AcceptExternal, Differs, Waiting
  <2> QED BY <1>1, <1>2, <2>1, <2>2, RowKeeps
<1>11. ASSUME UnlinkTask(i) PROVE SyncInv'
  <2>1. WritesRow(i, "unlinked", 0)
    <3> DEFINE row == [sync[i] EXCEPT !.state = "unlinked", !.task = 0, !.review = FALSE,
                                 !.leased = FALSE, !.code = "none"]
    <3>1. Written(row, "unlinked", 0)
      BY <1>1 DEF Written, SyncShape
    <3>2. sync' = [sync EXCEPT ![i] = row]
      BY <1>11 DEF UnlinkTask
    <3> HIDE DEF row
    <3> QED BY <3>1, <3>2, RowIsWritten
  <2>2. retries' = retries /\ "unlinked" \notin Waiting
    BY <1>1, <1>11 DEF UnlinkTask, Waiting
  <2> QED BY <1>1, <1>2, <2>1, <2>2, RowKeeps
<1> QED BY <1>3, <1>4, <1>5, <1>6, <1>7, <1>8, <1>9, <1>10, <1>11

(* A request to the portal, before and after: it waits for no creation, and   *)
(* what it links is the task of a row that becomes synced.                    *)
LEMMA DecisionsKeep ==
  ASSUME SyncInv, NEW d \in Deciders, DecisionStep(d) PROVE SyncInv'
<1>1. ASSUME NEW i \in Syncs, NEW state, NEW t, WritesRow(i, state, t),
             state = sync[i].state \/ state = "synced", t # 0 => state = "synced",
             UNCHANGED <<retries, tasks, syncWorker>>, decider' \in [Deciders -> Errands]
      PROVE  SyncInv'
  <2>1. retries' = retries /\ (state \in Waiting => sync[i].state \in Waiting)
    BY <1>1 DEF Waiting
  <2> QED BY <1>1, <2>1, RowKeeps
<1>2. ASSUME NEW i \in Syncs
      PROVE  /\ sync[i] \in SyncShape /\ (sync[i].task # 0 => sync[i].state = "synced")
             /\ sync[i].state \in SyncState /\ sync[i].task \in Nat /\ tasks[i] \in Nat
  BY <1>2, SyncRowFacts DEF SyncInv, SyncsTyped
<1>3. decider[d] \in Errands /\ decider[d].row \in Syncs
  BY DEF SyncInv, SyncsTyped, Errands
<1>4. ASSUME DecisionOver(d), sync' = sync PROVE SyncInv'
  <2> DEFINE i == decider[d].row
  <2>1. PICK state, t : WritesRow(i, state, t) /\ state = sync[i].state /\ t = sync[i].task
    <3>1. sync' = [sync EXCEPT ![i] = sync[i]] /\ Written(sync[i], sync[i].state, sync[i].task)
      BY <1>2, <1>3, <1>4 DEF SyncInv, SyncsTyped, Written
    <3> QED BY <3>1 DEF WritesRow
  <2>2. UNCHANGED <<retries, tasks, syncWorker>> /\ decider' \in [Deciders -> Errands]
    BY <1>4 DEF DecisionOver, SyncInv, SyncsTyped, Errands
  <2> HIDE DEF i
  <2>3. i \in Syncs /\ (t # 0 => state = "synced")
    BY <1>2, <1>3, <2>1 DEF i
  <2> QED BY <1>1, <2>1, <2>2, <2>3
<1>5. ASSUME DecisionOver(d), NEW state, NEW t, WritesRow(decider[d].row, state, t),
             state = sync[decider[d].row].state \/ state = "synced", t # 0 => state = "synced"
      PROVE  SyncInv'
  <2>1. UNCHANGED <<retries, tasks, syncWorker>> /\ decider' \in [Deciders -> Errands]
    BY <1>5 DEF DecisionOver, SyncInv, SyncsTyped, Errands
  <2> QED BY <1>1, <1>3, <1>5, <2>1
<1>6. ASSUME NEW i \in Syncs, BeginDecision(d, i) PROVE SyncInv'
  <2>1. PICK state, t : WritesRow(i, state, t) /\ state = sync[i].state /\ t = sync[i].task
    <3>1. PICK row : row = [sync[i] EXCEPT !.leased = TRUE]
      OBVIOUS
    <3>2. Written(row, sync[i].state, sync[i].task)
      BY <1>2, <3>1 DEF Written, SyncShape
    <3>3. sync' = [sync EXCEPT ![i] = row]
      BY <1>6, <3>1 DEF BeginDecision
    <3> QED BY <3>2, <3>3 DEF WritesRow
  <2>2. UNCHANGED <<retries, tasks, syncWorker>> /\ decider' \in [Deciders -> Errands]
    BY <1>6 DEF BeginDecision, SyncInv, SyncsTyped, Errands
  <2>3. t # 0 => state = "synced"
    BY <1>2, <2>1
  <2> QED BY <1>1, <2>1, <2>2, <2>3
<1>7. ASSUME ConfirmTask(d) PROVE SyncInv'
  <2> DEFINE i == decider[d].row
  <2>1. DecisionOver(d)
    BY <1>7 DEF ConfirmTask
  <2>2. PICK t \in 1 .. tasks[i] :
          \/ sync' = sync
          \/ sync' = [sync EXCEPT ![i] = [sync[i] EXCEPT
               !.state = "synced", !.task = t, !.leased = FALSE, !.code = "none"]]
    BY <1>7 DEF ConfirmTask, WriteSync
  <2>3. CASE sync' = sync
    BY <1>4, <2>1, <2>3
  <2>4. CASE sync' # sync
    <3>1. PICK row : row = [sync[i] EXCEPT
            !.state = "synced", !.task = t, !.leased = FALSE, !.code = "none"]
      OBVIOUS
    <3>2. t \in Nat
      BY <1>2, <1>3
    <3>3. Written(row, "synced", t)
      BY <1>2, <1>3, <3>1, <3>2 DEF Written, SyncShape, SyncState, Codes
    <3>4. WritesRow(i, "synced", t)
      BY <2>2, <2>4, <3>1, <3>3, RowIsWritten
    <3> QED BY <1>5, <2>1, <3>4
  <2> QED BY <2>3, <2>4
<1>8. ASSUME RestoreTask(d) PROVE SyncInv'
  <2> DEFINE i == decider[d].row
  <2>1. DecisionOver(d)
    BY <1>8 DEF RestoreTask
  <2>2. \/ sync' = sync
        \/ /\ sync[i].state = "synced"
           /\ sync' = [sync EXCEPT ![i] = [sync[i] EXCEPT
                !.review = FALSE, !.leased = FALSE, !.code = "none"]]
    BY <1>8 DEF RestoreTask, WriteSync, In
  <2>3. CASE sync' = sync
    BY <1>4, <2>1, <2>3
  <2>4. CASE sync' # sync
    <3>1. PICK row, t : t = sync[i].task /\
            row = [sync[i] EXCEPT !.review = FALSE, !.leased = FALSE, !.code = "none"]
      OBVIOUS
    <3>2. Written(row, "synced", t)
      <4>1. sync[i] \in SyncShape /\ sync[i].state = "synced"
        BY <1>2, <1>3, <2>2, <2>4
      <4> HIDE DEF i
      <4> QED BY <3>1, <4>1 DEF Written, SyncShape, SyncState, Codes
    <3>3. WritesRow(i, "synced", t)
      BY <2>2, <2>4, <3>1, <3>2, RowIsWritten
    <3> QED BY <1>5, <2>1, <3>3
  <2> QED BY <2>3, <2>4
<1>9. ASSUME ReleaseResolutionLease(d) PROVE SyncInv'
  <2> DEFINE i == decider[d].row
  <2>1. DecisionOver(d) /\ sync' = [sync EXCEPT ![i] =
          [sync[i] EXCEPT !.leased = FALSE, !.code = "other"]]
    BY <1>9 DEF ReleaseResolutionLease, WriteSync
  <2>2. PICK row, state, t : state = sync[i].state /\ t = sync[i].task /\
          row = [sync[i] EXCEPT !.leased = FALSE, !.code = "other"]
    OBVIOUS
  <2>3. Written(row, state, t) /\ (t # 0 => state = "synced")
    BY <1>2, <1>3, <2>2 DEF Written, SyncShape, Codes
  <2>4. WritesRow(i, state, t)
    BY <2>1, <2>2, <2>3, RowIsWritten
  <2> QED BY <1>5, <2>1, <2>2, <2>3, <2>4
<1>10. ASSUME AbandonDecision(d) PROVE SyncInv'
  BY <1>4, <1>10 DEF AbandonDecision
<1> QED BY <1>6, <1>7, <1>8, <1>9, <1>10 DEF DecisionStep

(* What a worker has in hand after a step. *)
LEMMA HandsTurn ==
  ASSUME NEW w \in SyncWorkers, NEW i \in Syncs,
         NEW pc \in {"prepare", "create", "compare"}
  PROVE  /\ Hands(w, pc, i) =>
              \E e : TurnsTo(w, e) /\ \A j \in Syncs : Creating(e, j) => j = i /\ pc # "compare"
         /\ HandsFree(w) =>
              \E e : TurnsTo(w, e) /\ \A j \in Syncs : ~Creating(e, j)
<1>1. [NoWork EXCEPT !.pc = pc, !.row = i] \in WorkShape
  BY DEF NoWork, WorkShape, Answers
<1>2. ASSUME NEW e, e = [NoWork EXCEPT !.pc = pc, !.row = i]
      PROVE  e.pc = pc /\ e.row = i
  BY <1>2 DEF NoWork
<1>3. NoWork \in WorkShape /\ NoWork.pc = "idle"
  BY ActionSyncAssumption DEF NoWork, WorkShape, Answers, Syncs
<1>4. ASSUME Hands(w, pc, i)
      PROVE  \E e : TurnsTo(w, e) /\ \A j \in Syncs : Creating(e, j) => j = i /\ pc # "compare"
  <2>1. PICK e : e = [NoWork EXCEPT !.pc = pc, !.row = i]
    OBVIOUS
  <2>2. TurnsTo(w, e)
    BY <1>1, <1>4, <2>1 DEF Hands, TurnsTo
  <2>3. e.pc = pc /\ e.row = i
    BY <1>2, <2>1
  <2> QED BY <2>2, <2>3 DEF Creating
<1>5. ASSUME HandsFree(w) PROVE \E e : TurnsTo(w, e) /\ \A j \in Syncs : ~Creating(e, j)
  <2>1. TurnsTo(w, NoWork)
    BY <1>3, <1>5 DEF HandsFree, TurnsTo
  <2> QED BY <1>3, <2>1 DEF Creating
<1> QED BY <1>4, <1>5

(* A worker that has no creation in hand any more, or goes on with its own,   *)
(* and leaves the row.                                                        *)
LEMMA WorkersGoOn ==
  ASSUME SyncInv, NEW w \in SyncWorkers, UNCHANGED <<sync, retries, tasks, decider>>,
         \/ HandsFree(w)
         \/ Hands(w, "create", syncWorker[w].row) /\ syncWorker[w].pc = "prepare"
         \/ \E i \in Syncs : Hands(w, "compare", i)
  PROVE  SyncInv'
<1>0. syncWorker[w].row \in Syncs
  BY DEF SyncInv, SyncsTyped, WorkShape
<1>1. ASSUME HandsFree(w) PROVE SyncInv'
  <2>1. PICK e : TurnsTo(w, e) /\ \A j \in Syncs : ~Creating(e, j)
    BY <1>0, <1>1, HandsTurn
  <2> QED BY <1>0, <2>1, SyncWorkerGoesOn
<1>2. ASSUME Hands(w, "create", syncWorker[w].row), syncWorker[w].pc = "prepare" PROVE SyncInv'
  <2>1. PICK e : TurnsTo(w, e) /\ \A j \in Syncs : Creating(e, j) => j = syncWorker[w].row
    BY <1>0, <1>2, HandsTurn
  <2>2. Creating(syncWorker[w], syncWorker[w].row)
    BY <1>2 DEF Creating
  <2>3. PICK i \in Syncs : i = syncWorker[w].row
    BY <1>0
  <2> QED BY <2>1, <2>2, <2>3, SyncWorkerGoesOn
<1>3. ASSUME NEW i \in Syncs, Hands(w, "compare", i) PROVE SyncInv'
  <2>1. PICK e : TurnsTo(w, e) /\ \A j \in Syncs : ~Creating(e, j)
    BY <1>3, HandsTurn
  <2> QED BY <1>3, <2>1, SyncWorkerGoesOn
<1> QED BY <1>1, <1>2, <1>3

LEMMA ClaimSyncKeeps ==
  ASSUME SyncInv, NEW w \in SyncWorkers, NEW i \in Syncs, ClaimActionSync(w, i)
  PROVE  SyncInv'
<1>1. sync[i] \in SyncShape /\ sync[i].state = "queued" /\ sync[i].task = 0
  BY SyncRowFacts DEF ClaimActionSync, In
<1>2. PICK row : row = [sync[i] EXCEPT !.state = "sending", !.leased = TRUE, !.attempts = @ + 1]
  OBVIOUS
<1>3. Written(row, "sending", 0)
  <2>1. sync[i].attempts + 1 \in Nat
    BY <1>1 DEF SyncShape
  <2> QED BY <1>1, <1>2, <2>1 DEF Written, SyncShape, SyncState
<1>4. WritesRow(i, "sending", 0)
  BY <1>2, <1>3, RowIsWritten DEF ClaimActionSync, WriteSync
<1>5. PICK e : TurnsTo(w, e) /\ \A j \in Syncs : Creating(e, j) => j = i
  BY HandsTurn DEF ClaimActionSync
<1>6. UNCHANGED <<retries, tasks, decider>>
  BY DEF ClaimActionSync
<1>7. sync[i].state \in Waiting /\ "sending" \notin Waiting
  BY <1>1 DEF Waiting
<1> QED BY <1>4, <1>5, <1>6, <1>7, SyncWorkerKeeps

LEMMA PrepareKeeps ==
  ASSUME SyncInv, NEW w \in SyncWorkers, PrepareActionSync(w) PROVE SyncInv'
<1>1. PICK i \in Syncs : i = syncWorker[w].row /\ Creating(syncWorker[w], i)
  BY DEF PrepareActionSync, Creating, SyncInv, SyncsTyped, WorkShape
<1>2. UNCHANGED <<retries, tasks, decider>> /\ syncWorker[w].pc = "prepare"
  BY DEF PrepareActionSync
<1>3. \/ Hands(w, "create", syncWorker[w].row) /\ sync' = sync
      \/ HandsFree(w) /\ sync' = sync
      \/ /\ HandsFree(w) /\ sync[i].state = "sending"
         /\ \E next \in {"needs_review", "queued", "failed"} : Move(i, next, "other")
  BY <1>1 DEF PrepareActionSync, WriteNothing, StillSending, In, Rescheduled
<1>4. CASE sync' = sync
  BY <1>2, <1>3, <1>4, WorkersGoOn DEF Move
<1>5. ASSUME NEW next \in {"needs_review", "queued", "failed"}, Move(i, next, "other"),
             HandsFree(w), sync[i].state = "sending"
      PROVE  SyncInv'
  <2>1. sync[i] \in SyncShape /\ sync[i].task = 0
    BY <1>5, SyncRowFacts
  <2>2. PICK row : row = [sync[i] EXCEPT !.state = next, !.code = "other", !.leased = FALSE]
    OBVIOUS
  <2>3. Written(row, next, 0)
    BY <2>1, <2>2 DEF Written, SyncShape, SyncState, Codes
  <2>4. WritesRow(i, next, 0)
    BY <1>5, <2>2, <2>3, RowIsWritten DEF Move, WriteSync
  <2>5. PICK e : TurnsTo(w, e) /\ \A j \in Syncs : ~Creating(e, j)
    BY <1>5, HandsTurn
  <2> QED BY <1>1, <1>2, <2>4, <2>5, SyncWorkerKeeps
<1> QED BY <1>3, <1>4, <1>5, <1>2, WorkersGoOn

LEMMA SaveKeeps ==
  ASSUME SyncInv, NEW w \in SyncWorkers, SaveOutcome(w) \/ SaveComparison(w) PROVE SyncInv'
<1>1. PICK i \in Syncs : i = syncWorker[w].row
  BY DEF SyncInv, SyncsTyped, WorkShape
<1>2. UNCHANGED <<retries, tasks, decider>> /\ HandsFree(w)
  BY DEF SaveOutcome, SaveComparison
<1>3. PICK e : TurnsTo(w, e) /\ \A j \in Syncs : ~Creating(e, j)
  BY <1>1, <1>2, HandsTurn
<1>4. sync[i] \in SyncShape /\ (sync[i].task # 0 => sync[i].state = "synced")
  BY SyncRowFacts
<1>5. ASSUME NEW state \in {"reconciling", "failed", "synced"}, NEW t, WritesRow(i, state, t),
             t # 0 => state = "synced"
      PROVE  SyncInv'
  <2>1. state \notin Waiting
    BY DEF Waiting
  <2> QED BY <1>2, <1>3, <1>5, <2>1, SyncWorkerKeeps
<1>6. CASE sync' = sync
  BY <1>2, <1>6, WorkersGoOn
<1>7. ASSUME SaveOutcome(w), sync' # sync PROVE SyncInv'
  <2>1. sync[i].state = "sending" /\ sync[i].task = 0
    BY <1>1, <1>4, <1>7 DEF SaveOutcome, StillSending, In, WriteNothing
  <2>2. syncWorker[w].task \in Nat
    BY DEF SyncInv, SyncsTyped, WorkShape
  <2>3. \/ Move(i, "reconciling", "doubtful") \/ Move(i, "failed", "other")
        \/ WriteSync(i, [sync[i] EXCEPT !.state = "synced", !.task = syncWorker[w].task,
                                        !.leased = FALSE, !.code = "none"])
    <3>1. syncWorker[w].answer \in {"doubtful", "refused", "task"}
      BY <1>7 DEF SaveOutcome, SyncInv, SyncsTyped, WorkShape, Answers
    <3> QED BY <1>1, <1>7, <2>1, <3>1 DEF SaveOutcome, StillSending, In, AfterDoubt
  <2>4. ASSUME NEW state \in {"reconciling", "failed"}, NEW code \in Codes, Move(i, state, code)
        PROVE  SyncInv'
    <3>1. PICK row : row = [sync[i] EXCEPT !.state = state, !.code = code, !.leased = FALSE]
      OBVIOUS
    <3>2. Written(row, state, 0)
      BY <1>4, <2>1, <3>1 DEF Written, SyncShape, SyncState
    <3>3. WritesRow(i, state, 0)
      BY <2>4, <3>1, <3>2, RowIsWritten DEF Move, WriteSync
    <3> QED BY <1>5, <3>3
  <2>5. ASSUME WriteSync(i, [sync[i] EXCEPT !.state = "synced", !.task = syncWorker[w].task,
                                           !.leased = FALSE, !.code = "none"])
        PROVE  SyncInv'
    <3>1. PICK row, t : t = syncWorker[w].task /\
            row = [sync[i] EXCEPT !.state = "synced", !.task = t, !.leased = FALSE, !.code = "none"]
      OBVIOUS
    <3>2. Written(row, "synced", t)
      BY <1>4, <2>2, <3>1 DEF Written, SyncShape, SyncState, Codes
    <3>3. WritesRow(i, "synced", t)
      BY <2>5, <3>1, <3>2, RowIsWritten DEF WriteSync
    <3> QED BY <1>5, <3>3
  <2> QED BY <2>3, <2>4, <2>5 DEF Codes
<1>8. ASSUME SaveComparison(w), sync' # sync PROVE SyncInv'
  <2>1. sync[i].state = "synced" /\ \E differs \in BOOLEAN :
          WriteSync(i, [sync[i] EXCEPT !.review = differs, !.leased = FALSE])
    BY <1>1, <1>8 DEF SaveComparison, In, WriteNothing
  <2>2. PICK differs \in BOOLEAN :
          WriteSync(i, [sync[i] EXCEPT !.review = differs, !.leased = FALSE])
    BY <2>1
  <2>3. PICK row, t : t = sync[i].task /\
          row = [sync[i] EXCEPT !.review = differs, !.leased = FALSE]
    OBVIOUS
  <2>4. Written(row, "synced", t)
    BY <1>4, <2>1, <2>3 DEF Written, SyncShape
  <2>5. WritesRow(i, "synced", t)
    BY <2>2, <2>3, <2>4, RowIsWritten DEF WriteSync
  <2> QED BY <1>5, <2>5
<1> QED BY <1>6, <1>7, <1>8

(* The portal is asked once per claim: the worker may not create any more,     *)
(* whether there is a task now or not.                                        *)
LEMMA CreateTaskKeeps ==
  ASSUME SyncInv, NEW w \in SyncWorkers, CreateTask(w) PROVE SyncInv'
<1> USE DEF SyncInv
<1>1. PICK i \in Syncs : i = syncWorker[w].row
  BY DEF SyncsTyped, WorkShape
<1>2. /\ Creating(syncWorker[w], i) /\ UNCHANGED <<sync, retries, decider>>
      /\ tasks' = tasks \/ tasks' = [tasks EXCEPT ![i] = @ + 1]
  BY <1>1 DEF CreateTask, WriteNothing, Creating
<1>3. tasks[i] \in Nat /\ retries[i] \in Nat /\ tasks' \in [Syncs -> Nat]
  BY <1>2 DEF SyncsTyped
<1>4. PICK answer \in {"task", "doubtful", "refused"}, t \in Nat : Heard(w, answer, t)
  BY <1>1, <1>3 DEF CreateTask
<1>5. PICK e : e = [syncWorker[w] EXCEPT !.pc = "save", !.answer = answer, !.task = t]
  OBVIOUS
<1>6. syncWorker[w] \in WorkShape /\ syncWorker \in [SyncWorkers -> WorkShape]
  BY DEF SyncsTyped
<1>7. e \in WorkShape /\ e.pc = "save"
  BY <1>4, <1>5, <1>6 DEF WorkShape, Answers
<1>8. TurnsTo(w, e)
  BY <1>4, <1>5, <1>6, <1>7 DEF Heard, TurnsTo
<1>9. SyncsTyped'
  <2>1. syncWorker' \in [SyncWorkers -> WorkShape]
    BY <1>6, <1>8 DEF TurnsTo
  <2> QED BY <1>2, <1>3, <2>1 DEF SyncsTyped
<1>10. ASSUME NEW j \in Syncs
       PROVE  (tasks[j] + Cardinality(Creators(j)) + Left(j) <= 1 + retries[j])'
  <2> DEFINE c == Cardinality(Creators(j))
  <2>1. /\ tasks[j] + c + Left(j) <= 1 + retries[j]
        /\ Left(j)' = Left(j) /\ retries'[j] = retries[j]
        /\ tasks[j] \in Nat /\ retries[j] \in Nat /\ c \in Nat /\ Left(j) \in 0 .. 1
    BY <1>2, CreatorsFinite DEF CreationsPaid, SyncsTyped, Left
  <2>2. Creators(j)' = Creators(j) \ {w} /\ (w \in Creators(j) <=> Creating(syncWorker[w], j))
    BY <1>7, <1>8, CreatorsAfter DEF Creating
  <2>3. CASE j = i
    <3>1. Cardinality(Creators(j))' = c - 1
      BY <1>2, <2>2, <2>3, CreatorsCount
    <3>2. tasks'[j] \in {tasks[j], tasks[j] + 1}
      BY <1>2, <2>3 DEF SyncsTyped
    <3> QED BY <2>1, <3>1, <3>2
  <2>4. CASE j # i
    <3>1. Cardinality(Creators(j))' = c
      BY <1>1, <2>2, <2>4, CreatorsCount DEF Creating
    <3>2. tasks'[j] = tasks[j]
      BY <1>2, <2>4 DEF SyncsTyped
    <3> QED BY <2>1, <3>1, <3>2
  <2> QED BY <2>3, <2>4
<1>11. LinkedIsSynced'
  BY <1>2 DEF LinkedIsSynced
<1> QED BY <1>9, <1>10, <1>11 DEF CreationsPaid

LEMMA SyncStep == ASSUME SyncInv, [ActionSyncNext]_syncVars PROVE SyncInv'
<1>1. ASSUME NEW w \in SyncWorkers, SyncWorkerStep(w) PROVE SyncInv'
  <2>1. ASSUME NEW i \in Syncs, TakeComparison(w, i) PROVE SyncInv'
    BY <2>1, WorkersGoOn DEF TakeComparison, WriteNothing
  <2>2. ASSUME LoseSyncWorker(w) PROVE SyncInv'
    BY <2>2, WorkersGoOn DEF LoseSyncWorker, WriteNothing
  <2> QED BY <1>1, <2>1, <2>2, ClaimSyncKeeps, PrepareKeeps, CreateTaskKeeps, SaveKeeps
       DEF SyncWorkerStep
<1>2. CASE UNCHANGED syncVars
  <2>1. \A i : Creators(i)' = Creators(i) /\ Left(i)' = Left(i)
    BY <1>2 DEF syncVars, Creators, Left
  <2> QED BY <1>2, <2>1 DEF syncVars, SyncInv, SyncsTyped, CreationsPaid, LinkedIsSynced
<1> QED BY <1>1, <1>2, DecisionsKeep, PeopleKeep DEF ActionSyncNext

LEMMA SyncInvariant == ActionSyncSpec => []SyncInv
BY SyncBegins, SyncStep, PTL DEF ActionSyncSpec

(* The portal has one task for the approval and one for every decision to try *)
(* again, for any number of rows, replicas, people and attempts               *)
(* (action_sync.go:325-344; action_reconciliation.go:149-153).                *)
THEOREM TasksAreAskedFor == ActionSyncSpec => []TaskPerDecision
<1>1. SyncInv => TaskPerDecision
  <2>1. ASSUME SyncInv, NEW i \in Syncs PROVE tasks[i] <= 1 + retries[i]
    <3>1. /\ tasks[i] + Cardinality(Creators(i)) + Left(i) <= 1 + retries[i]
          /\ tasks[i] \in Nat /\ retries[i] \in Nat
      BY <2>1 DEF SyncInv, SyncsTyped, CreationsPaid
    <3>2. Cardinality(Creators(i)) \in Nat /\ Left(i) \in Nat
      BY CreatorsFinite DEF Left
    <3> QED BY <3>1, <3>2
  <2> QED BY <2>1 DEF TaskPerDecision
<1> QED BY <1>1, SyncInvariant, PTL

(* A linked row is synced: what may be written to a synced row leaves its     *)
(* task, or unlinks it.                                                       *)
LEMMA LinkStep ==
  ASSUME SyncInv, ActionSyncNext, NEW i \in Syncs, sync[i].task # 0
  PROVE  sync'[i].task = sync[i].task \/ sync'[i].state = "unlinked"
<1>1. sync \in [Syncs -> SyncShape] /\ sync[i].state = "synced"
  BY DEF SyncInv, SyncsTyped, LinkedIsSynced
<1>2. sync[i] \in SyncShape
  BY <1>1
<1> USE DEF In, WriteSync, Move, WriteNothing, SyncShape
<1>3. ASSUME NEW j \in Syncs,
             \/ CreateActionSync(j) \/ ApproveActionSync(j) \/ RejectActionSync(j)
             \/ RecoverActionSyncLease(j) \/ EscalateAmbiguous(j)
             \/ RetryCreate(j) \/ CancelActionSync(j)
      PROVE  sync'[i] = sync[i]
  <2>1. j # i /\ \E row : sync' = [sync EXCEPT ![j] = row]
    BY <1>1, <1>3 DEF CreateActionSync, ApproveActionSync, RejectActionSync,
       RecoverActionSyncLease, EscalateAmbiguous, RetryCreate, CancelActionSync, Doubted
  <2> QED BY <1>1, <2>1
<1>4. ASSUME NEW j \in Syncs, AcceptExternal(j) \/ UnlinkTask(j)
      PROVE  sync'[i].task = sync[i].task \/ sync'[i].state = "unlinked"
  <2>1. CASE j # i
    <3>1. \E row : sync' = [sync EXCEPT ![j] = row]
      BY <1>4 DEF AcceptExternal, UnlinkTask
    <3> QED BY <1>1, <2>1, <3>1
  <2>2. CASE j = i /\ AcceptExternal(j)
    BY <1>1, <1>2, <2>2 DEF AcceptExternal
  <2>3. CASE j = i /\ UnlinkTask(j)
    BY <1>1, <1>2, <2>3 DEF UnlinkTask
  <2> QED BY <1>4, <2>1, <2>2, <2>3
<1>5. ASSUME NEW w \in SyncWorkers, SyncWorkerStep(w)
      PROVE  sync'[i].task = sync[i].task
  <2>1. ASSUME NEW j \in Syncs, ClaimActionSync(w, j) PROVE sync'[i] = sync[i]
    BY <1>1, <2>1 DEF ClaimActionSync
  <2>2. ASSUME PrepareActionSync(w) \/ SaveOutcome(w) PROVE sync'[i] = sync[i]
    <3>1. sync' = sync \/ \E row : sync' = [sync EXCEPT ![syncWorker[w].row] = row]
                                /\ syncWorker[w].row # i
      <4>1. sync' = sync \/ StillSending(syncWorker[w].row)
        BY <2>2 DEF PrepareActionSync, SaveOutcome
      <4>2. ASSUME StillSending(syncWorker[w].row)
            PROVE  sync' = sync \/ \E row : sync' = [sync EXCEPT ![syncWorker[w].row] = row]
        <5>1. ASSUME SaveOutcome(w)
              PROVE  \E row : sync' = [sync EXCEPT ![syncWorker[w].row] = row]
          <6>1. syncWorker[w].answer \in {"doubtful", "refused", "task"}
            BY <5>1 DEF SaveOutcome, SyncInv, SyncsTyped, WorkShape, Answers
          <6>2. CASE syncWorker[w].answer = "doubtful"
            BY <4>2, <5>1, <6>2 DEF SaveOutcome
          <6>3. CASE syncWorker[w].answer = "refused"
            BY <4>2, <5>1, <6>3 DEF SaveOutcome
          <6>4. CASE syncWorker[w].answer = "task"
            BY <4>2, <5>1, <6>4 DEF SaveOutcome
          <6> QED BY <6>1, <6>2, <6>3, <6>4
        <5> QED BY <2>2, <4>2, <5>1 DEF PrepareActionSync
      <4> QED BY <1>1, <4>1, <4>2 DEF StillSending
    <3> QED BY <1>1, <3>1
  <2>3. ASSUME SaveComparison(w) PROVE sync'[i].task = sync[i].task
    <3>1. CASE syncWorker[w].row # i
      BY <1>1, <2>3, <3>1 DEF SaveComparison
    <3>2. CASE syncWorker[w].row = i /\ sync' # sync
      <4>1. PICK differs \in BOOLEAN :
              sync' = [sync EXCEPT ![i] = [sync[i] EXCEPT !.review = differs, !.leased = FALSE]]
        BY <2>3, <3>2 DEF SaveComparison
      <4> QED BY <1>1, <1>2, <4>1
    <3> QED BY <3>1, <3>2
  <2>4. ASSUME NEW j \in Syncs, \/ TakeComparison(w, j) \/ CreateTask(w) \/ LoseSyncWorker(w)
        PROVE  sync'[i] = sync[i]
    BY <2>4 DEF TakeComparison, CreateTask, LoseSyncWorker
  <2> QED BY <1>5, <2>1, <2>2, <2>3, <2>4 DEF SyncWorkerStep
<1>6. ASSUME NEW d \in Deciders, DecisionStep(d)
      PROVE  sync'[i].task = sync[i].task
  <2>1. ASSUME NEW j \in Syncs, BeginDecision(d, j) PROVE sync'[i].task = sync[i].task
    BY <1>1, <1>2, <2>1 DEF BeginDecision
  <2>2. ASSUME ConfirmTask(d) PROVE sync'[i].task = sync[i].task
    <3>1. sync' = sync \/ /\ sync[decider[d].row].state = "needs_review"
                          /\ \E row : sync' = [sync EXCEPT ![decider[d].row] = row]
      BY <2>2 DEF ConfirmTask
    <3> QED BY <1>1, <3>1
  <2>3. ASSUME RestoreTask(d) PROVE sync'[i].task = sync[i].task
    <3>1. CASE decider[d].row # i
      BY <1>1, <2>3, <3>1 DEF RestoreTask
    <3>2. CASE decider[d].row = i /\ sync' # sync
      <4>1. sync' = [sync EXCEPT ![i] =
              [sync[i] EXCEPT !.review = FALSE, !.leased = FALSE, !.code = "none"]]
        BY <2>3, <3>2 DEF RestoreTask
      <4> QED BY <1>1, <1>2, <4>1
    <3> QED BY <3>1, <3>2
  <2>4. ASSUME ReleaseResolutionLease(d) \/ AbandonDecision(d) PROVE sync'[i].task = sync[i].task
    <3>1. CASE decider[d].row # i
      BY <1>1, <2>4, <3>1 DEF ReleaseResolutionLease, AbandonDecision
    <3>2. CASE decider[d].row = i /\ sync' # sync
      <4>1. sync' = [sync EXCEPT ![i] = [sync[i] EXCEPT !.leased = FALSE, !.code = "other"]]
        BY <2>4, <3>2 DEF ReleaseResolutionLease, AbandonDecision
      <4> QED BY <1>1, <1>2, <4>1
    <3> QED BY <3>1, <3>2
  <2> QED BY <1>6, <2>1, <2>2, <2>3, <2>4 DEF DecisionStep
<1> QED BY <1>3, <1>4, <1>5, <1>6 DEF ActionSyncNext

(* No worker and no overtaken confirmation puts another task in the place of  *)
(* the linked one (action_sync.go:347, action_reconciliation.go:241).         *)
THEOREM LinksAreKept == ActionSyncSpec => TaskLinkKept
<1>1. SyncInv /\ [ActionSyncNext]_syncVars =>
        [\A i \in Syncs : sync[i].task # 0 =>
           sync'[i].task = sync[i].task \/ sync'[i].state = "unlinked"]_syncVars
  BY LinkStep DEF syncVars
<1> QED BY <1>1, SyncInvariant, PTL DEF ActionSyncSpec, TaskLinkKept

-----------------------------------------------------------------------------
(* How often a letter is sent *)

(* An attempt that somebody has in hand, and one that was not sent yet.       *)
InHand(l, n) == \E s \in Senders : \E c \in sender[s] : c.letter = l /\ c.attempt = n
Unposted(l, n) == \E s \in Senders : \E c \in sender[s] :
                    c.letter = l /\ c.attempt = n /\ c.outcome = "claimed"

Unsent(l) == {n \in 1 .. letter[l].attempts : Unposted(l, n)}
Early(l) == {n \in 1 .. MaxSends - 1 : InHand(l, n)}

(* Another attempt of the letter will cost no mishap.                         *)
Opens(l) ==
  IF \/ letter[l].status \in {"absent", "pending", "failed"}
     \/ letter[l].status = "sending" /\ (~ letter[l].leased \/ ~ Held(l))
  THEN 1 ELSE 0

Top(l) == IF letter[l].attempts < MaxSends THEN MaxSends - 1 ELSE letter[l].attempts

(* Each request to the channel is one of the attempts, and each attempt past  *)
(* the last was paid for by a mishap: an early one still in hand may fail and *)
(* open the letter once more.                                                 *)
LetterCounted(l) ==
  /\ posted[l] + Cardinality(Unsent(l)) <= letter[l].attempts
  /\ Top(l) + Cardinality(Early(l)) + Opens(l) <= MaxSends + (MaxDelays - delays)

(* No two hold the same attempt, and none holds one that was not made.        *)
ClaimsOwn ==
  \A s, t \in Senders : \A c \in sender[s], d \in sender[t] :
    c.letter = d.letter /\ c.attempt = d.attempt => s = t /\ c = d
ClaimsMade ==
  \A s \in Senders : \A c \in sender[s] :
    c.attempt \in 1 .. letter[c.letter].attempts

SendInv ==
  /\ LettersInv /\ ClaimsOwn /\ ClaimsMade
  /\ posted \in [Letters -> Nat] /\ frozen \in BOOLEAN /\ delays \in 0 .. MaxDelays
  /\ \A l \in Letters : LetterCounted(l)

(* What a step may do to one letter.                                          *)
FewerHands(l) ==
  \A n \in Nat : (InHand(l, n)' => InHand(l, n)) /\ (Unposted(l, n)' => Unposted(l, n))

Rests(l) == /\ letter'[l].attempts = letter[l].attempts /\ posted'[l] = posted[l]
            /\ FewerHands(l) /\ Opens(l)' <= Opens(l) /\ delays' = delays
Mishap(l) == /\ letter'[l].attempts = letter[l].attempts /\ posted'[l] = posted[l]
             /\ FewerHands(l) /\ delays' = delays - 1
Attempted(l) == /\ letter'[l].attempts = letter[l].attempts + 1 /\ posted'[l] = posted[l]
            /\ Opens(l) = 1 /\ Opens(l)' = 0 /\ delays' = delays
            /\ \A n \in Nat : n # letter[l].attempts + 1 =>
                 (InHand(l, n)' => InHand(l, n)) /\ (Unposted(l, n)' => Unposted(l, n))
Posts(l) == /\ letter'[l].attempts = letter[l].attempts /\ posted'[l] = posted[l] + 1
            /\ FewerHands(l) /\ Opens(l)' <= Opens(l) /\ delays' = delays
            /\ \E n \in Unsent(l) : ~ Unposted(l, n)'
FailsEarly(l) == /\ letter'[l].attempts = letter[l].attempts /\ posted'[l] = posted[l]
                 /\ FewerHands(l) /\ delays' = delays
                 /\ \E n \in Early(l) : ~ InHand(l, n)'

LEMMA SomeOf ==
  ASSUME NEW n \in Int, NEW S, S \subseteq 1 .. n
  PROVE  IsFiniteSet(S) /\ Cardinality(S) \in Nat
<1>1. IsFiniteSet(1 .. n)
  BY FS_Interval
<1> QED BY <1>1, FS_Subset, FS_CardinalityType

LEMMA CountOf ==
  ASSUME NEW n \in Int, NEW S, S \subseteq 1 .. n, NEW T
  PROVE  /\ T \subseteq S => Cardinality(T) <= Cardinality(S)
         /\ \A x : T \subseteq S \cup {x} => Cardinality(T) <= Cardinality(S) + 1
         /\ \A x \in S : T \subseteq S \ {x} => Cardinality(T) <= Cardinality(S) - 1
<1>1. IsFiniteSet(S) /\ Cardinality(S) \in Nat
  BY SomeOf
<1>2. ASSUME T \subseteq S PROVE Cardinality(T) <= Cardinality(S)
  BY <1>1, <1>2, FS_Subset
<1>3. ASSUME NEW x, T \subseteq S \cup {x} PROVE Cardinality(T) <= Cardinality(S) + 1
  <2>1. IsFiniteSet(S \cup {x}) /\ Cardinality(S \cup {x}) <= Cardinality(S) + 1
    BY <1>1, FS_AddElement
  <2>2. Cardinality(T) <= Cardinality(S \cup {x})
    BY <1>3, <2>1, FS_Subset
  <2>3. IsFiniteSet(T)
    BY <1>3, <2>1, FS_Subset
  <2>4. Cardinality(T) \in Nat /\ Cardinality(S \cup {x}) \in Nat
    BY <2>1, <2>3, FS_CardinalityType
  <2> QED BY <1>1, <2>1, <2>2, <2>4
<1>4. ASSUME NEW x \in S, T \subseteq S \ {x} PROVE Cardinality(T) <= Cardinality(S) - 1
  <2>1. IsFiniteSet(S \ {x}) /\ Cardinality(S \ {x}) = Cardinality(S) - 1
    BY <1>1, FS_RemoveElement
  <2>2. Cardinality(T) <= Cardinality(S \ {x})
    BY <1>4, <2>1, FS_Subset
  <2> QED BY <2>1, <2>2
<1> QED BY <1>2, <1>3, <1>4

LEMMA CountKeeps ==
  ASSUME NEW l \in Letters, letter[l].attempts \in Nat, posted[l] \in Nat,
         delays \in 0 .. MaxDelays, delays' \in 0 .. MaxDelays, LetterCounted(l),
         Rests(l) \/ Mishap(l) \/ Attempted(l) \/ Posts(l) \/ FailsEarly(l)
  PROVE  LetterCounted(l)'
<1> DEFINE a == letter[l].attempts
           U == Unsent(l)
           E == Early(l)
           u == Cardinality(U)
           e == Cardinality(E)
<1>1. /\ U \subseteq 1 .. a /\ E \subseteq 1 .. MaxSends - 1
      /\ u \in Nat /\ e \in Nat /\ a \in Nat /\ MaxSends \in Nat \ {0} /\ MaxDelays \in Nat
      /\ MaxSends - 1 \in Int
  <2>1. U \subseteq 1 .. a /\ E \subseteq 1 .. MaxSends - 1 /\ MaxSends - 1 \in Int /\ a \in Int
    BY DeliveryAssumption DEF Unsent, Early
  <2> QED BY <2>1, SomeOf, DeliveryAssumption
<1>2. Opens(l) \in {0, 1} /\ Opens(l)' \in {0, 1}
  BY DEF Opens
<1>3. /\ Top(l) = IF a < MaxSends THEN MaxSends - 1 ELSE a
      /\ Top(l)' = IF letter'[l].attempts < MaxSends THEN MaxSends - 1 ELSE letter'[l].attempts
  BY DEF Top
<1>4. posted[l] + u <= a /\ Top(l) + e + Opens(l) <= MaxSends + (MaxDelays - delays)
  BY DEF LetterCounted
<1>5. ASSUME FewerHands(l), letter'[l].attempts = a
      PROVE  Cardinality(U') <= u /\ Cardinality(E') <= e
  <2>1. U' \subseteq U /\ E' \subseteq E
    BY <1>1, <1>5 DEF FewerHands, Unsent, Early
  <2> QED BY <1>1, <2>1, CountOf
<1>6. Cardinality(U') \in Nat /\ Cardinality(E') \in Nat
  <2>1. U' \subseteq 1 .. a + 1 /\ E' \subseteq 1 .. MaxSends - 1 /\ a + 1 \in Int
    <3>1. letter'[l].attempts \in {a, a + 1}
      BY DEF Rests, Mishap, Attempted, Posts, FailsEarly
    <3> QED BY <1>1, <3>1 DEF Unsent, Early
  <2> QED BY <1>1, <2>1, SomeOf
<1>7. CASE Rests(l)
  <2>1. /\ letter'[l].attempts = a /\ posted'[l] = posted[l] /\ FewerHands(l)
        /\ Opens(l)' <= Opens(l) /\ delays' = delays
    BY <1>7 DEF Rests
  <2>2. posted'[l] + Cardinality(U') <= letter'[l].attempts
    BY <1>1, <1>4, <1>5, <1>6, <2>1
  <2>3. Top(l)' + Cardinality(E') + Opens(l)' <= MaxSends + (MaxDelays - delays')
    BY <1>1, <1>2, <1>3, <1>4, <1>5, <1>6, <2>1
  <2> QED BY <2>2, <2>3 DEF LetterCounted
<1>8. CASE Mishap(l)
  <2>1. /\ letter'[l].attempts = a /\ posted'[l] = posted[l] /\ FewerHands(l)
        /\ delays' = delays - 1
    BY <1>8 DEF Mishap
  <2>2. posted'[l] + Cardinality(U') <= letter'[l].attempts
    BY <1>1, <1>4, <1>5, <1>6, <2>1
  <2>3. Top(l)' + Cardinality(E') + Opens(l)' <= MaxSends + (MaxDelays - delays')
    BY <1>1, <1>2, <1>3, <1>4, <1>5, <1>6, <2>1
  <2> QED BY <2>2, <2>3 DEF LetterCounted
<1>9. CASE Attempted(l)
  <2>1. /\ letter'[l].attempts = a + 1 /\ posted'[l] = posted[l]
        /\ Opens(l) = 1 /\ Opens(l)' = 0 /\ delays' = delays
    BY <1>9 DEF Attempted
  <2>2. U' \subseteq U \cup {a + 1} /\ E' \subseteq E \cup {a + 1}
    BY <1>1, <1>9, <2>1 DEF Attempted, Unsent, Early
  <2>3. Cardinality(U') <= u + 1 /\ Cardinality(E') <= e + 1
    <3>1. PICK next : next = a + 1
      OBVIOUS
    <3>2. U' \subseteq U \cup {next} /\ E' \subseteq E \cup {next}
      BY <2>2, <3>1
    <3> HIDE DEF U, E
    <3>3. Cardinality(U') <= u + 1
      <4>1. a \in Int /\ U \subseteq 1 .. a
        BY <1>1
      <4> HIDE DEF a
      <4> QED BY ONLY <4>1, <3>2, CountOf
    <3>4. Cardinality(E') <= e + 1
      BY ONLY <1>1, <3>2, CountOf
    <3> QED BY <3>3, <3>4
  <2>4. a + 1 >= MaxSends => Cardinality(E') <= e
    <3>1. ASSUME a + 1 >= MaxSends PROVE E' \subseteq E
      <4>1. \A n \in E' : n \in 1 .. MaxSends - 1
        BY DEF Early
      <4>2. a + 1 \notin 1 .. MaxSends - 1
        BY <1>1, <3>1
      <4> HIDE DEF E
      <4> QED BY <2>2, <4>1, <4>2
    <3> QED BY <1>1, <3>1, CountOf
  <2>5. posted'[l] + Cardinality(U') <= letter'[l].attempts
    BY <1>1, <1>4, <1>6, <2>1, <2>3
  <2>6. Top(l)' + Cardinality(E') + Opens(l)' <= MaxSends + (MaxDelays - delays')
    BY <1>1, <1>2, <1>3, <1>4, <1>6, <2>1, <2>3, <2>4
  <2> QED BY <2>5, <2>6 DEF LetterCounted
<1>10. CASE Posts(l)
  <2>1. /\ letter'[l].attempts = a /\ posted'[l] = posted[l] + 1 /\ FewerHands(l)
        /\ Opens(l)' <= Opens(l) /\ delays' = delays
    BY <1>10 DEF Posts
  <2>2. PICK n \in U : ~ Unposted(l, n)'
    BY <1>10 DEF Posts
  <2>3. U' \subseteq U \ {n}
    BY <1>1, <2>1, <2>2 DEF FewerHands, Unsent
  <2>4. Cardinality(U') <= u - 1
    BY <1>1, <2>2, <2>3, CountOf
  <2>5. posted'[l] + Cardinality(U') <= letter'[l].attempts
    BY <1>1, <1>4, <1>6, <2>1, <2>4
  <2>6. Top(l)' + Cardinality(E') + Opens(l)' <= MaxSends + (MaxDelays - delays')
    BY <1>1, <1>2, <1>3, <1>4, <1>5, <1>6, <2>1
  <2> QED BY <2>5, <2>6 DEF LetterCounted
<1>11. CASE FailsEarly(l)
  <2>1. /\ letter'[l].attempts = a /\ posted'[l] = posted[l] /\ FewerHands(l)
        /\ delays' = delays
    BY <1>11 DEF FailsEarly
  <2>2. PICK n \in E : ~ InHand(l, n)'
    BY <1>11 DEF FailsEarly
  <2>3. E' \subseteq E \ {n}
    BY <1>1, <2>1, <2>2 DEF FewerHands, Early
  <2>4. Cardinality(E') <= e - 1
    BY <1>1, <2>2, <2>3, CountOf
  <2>5. posted'[l] + Cardinality(U') <= letter'[l].attempts
    BY <1>1, <1>4, <1>5, <1>6, <2>1
  <2>6. Top(l)' + Cardinality(E') + Opens(l)' <= MaxSends + (MaxDelays - delays')
    BY <1>1, <1>2, <1>3, <1>4, <1>6, <2>1, <2>4
  <2> QED BY <2>5, <2>6 DEF LetterCounted
<1> QED BY <1>7, <1>8, <1>9, <1>10, <1>11

LEMMA AllCounted ==
  ASSUME SendInv, [DeliveryNext]_deliveryVars, ClaimsOwn', ClaimsMade',
         posted' \in [Letters -> Nat], frozen' \in BOOLEAN, delays' \in 0 .. MaxDelays,
         \A l \in Letters : Rests(l) \/ Mishap(l) \/ Attempted(l) \/ Posts(l) \/ FailsEarly(l)
  PROVE  SendInv'
<1>1. LettersInv'
  BY LettersStep DEF SendInv
<1>2. ASSUME NEW l \in Letters PROVE LetterCounted(l)'
  <2>1. letter[l].attempts \in Nat /\ posted[l] \in Nat
    BY DEF SendInv, LettersInv, Shape
  <2> QED BY <2>1, CountKeeps DEF SendInv
<1> QED BY <1>1, <1>2 DEF SendInv

(* Claims that are given up leave the others what they are.                   *)
LEMMA LessInHand ==
  ASSUME SendInv, \A s \in Senders : sender'[s] \subseteq sender[s],
         \A l \in Letters : letter'[l].attempts = letter[l].attempts
  PROVE  ClaimsOwn' /\ ClaimsMade' /\ \A l \in Letters : FewerHands(l)
<1>1. ClaimsOwn'
  BY DEF SendInv, ClaimsOwn
<1>2. ASSUME NEW s \in Senders, NEW c \in sender'[s]
      PROVE  c.attempt \in 1 .. letter'[c.letter].attempts
  <2>1. c \in sender[s] /\ c.letter \in Letters
    BY DEF SendInv, LettersInv, Claim
  <2> QED BY <2>1 DEF SendInv, ClaimsMade
<1>3. \A l \in Letters : FewerHands(l)
  BY DEF FewerHands, InHand, Unposted
<1> QED BY <1>1, <1>2, <1>3 DEF ClaimsMade

LEMMA SendBegins == ASSUME DeliveryInit PROVE SendInv
<1>1. LettersInv
  BY LettersBegin
<1>2. /\ ClaimsOwn /\ ClaimsMade /\ posted \in [Letters -> Nat] /\ frozen \in BOOLEAN
      /\ delays = MaxDelays /\ MaxDelays \in Nat /\ MaxSends \in Nat \ {0}
  BY DeliveryAssumption DEF DeliveryInit, ClaimsOwn, ClaimsMade
<1>3. ASSUME NEW l \in Letters PROVE LetterCounted(l)
  <2>1. letter[l].attempts = 0 /\ posted[l] = 0 /\ Opens(l) = 1
    BY DEF DeliveryInit, Opens
  <2>2. Unsent(l) = {} /\ Early(l) = {}
    BY DEF DeliveryInit, Unsent, Early, Unposted, InHand
  <2>3. Top(l) = MaxSends - 1
    BY <1>2, <2>1 DEF Top
  <2> QED BY <1>2, <2>1, <2>2, <2>3, FS_EmptySet DEF LetterCounted
<1> QED BY <1>1, <1>2, <1>3 DEF SendInv

(* A letter is queued, or an alert is marked for somebody who wants none.     *)
LEMMA QueueCounted ==
  ASSUME SendInv,
         \/ \E a \in Alerts : Deliver(a)
         \/ \E l \in Secrets : WriteSecretLetter(l)
  PROVE  SendInv'
<1>1. UNCHANGED letter \/ \E q \in Letters : Enqueue(q)
  BY DEF Deliver, WriteSecretLetter, Letters
<1>2. UNCHANGED <<posted, frozen, sender, delays>>
  BY DEF Deliver, WriteSecretLetter
<1>3. ASSUME NEW l \in Letters
      PROVE  /\ letter'[l].attempts = letter[l].attempts /\ letter'[l].leased = letter[l].leased
             /\ \/ letter'[l].status = letter[l].status
                \/ letter[l].status = "absent" /\ letter'[l].status = "pending"
  <2>1. letter \in [Letters -> Shape] /\ letter[l] \in Shape
    BY DEF SendInv, LettersInv
  <2>2. CASE UNCHANGED letter
    BY <2>2
  <2>3. CASE \E q \in Letters : Enqueue(q)
    <3>1. PICK q \in Letters : Enqueue(q)
      BY <2>3
    <3>2. CASE letter[q].status = "absent" /\ l = q
      <4>1. PICK row : row = [letter[l] EXCEPT !.status = "pending", !.due = TRUE]
        OBVIOUS
      <4>2. row.attempts = letter[l].attempts /\ row.leased = letter[l].leased /\ row.status = "pending"
        BY <2>1, <4>1 DEF Shape
      <4>3. letter'[l] = row
        BY <2>1, <3>1, <3>2, <4>1 DEF Enqueue
      <4> QED BY <3>2, <4>2, <4>3
    <3>3. CASE letter[q].status = "absent" /\ l # q
      BY <2>1, <3>1, <3>3 DEF Enqueue
    <3>4. CASE letter[q].status # "absent"
      BY <3>1, <3>4 DEF Enqueue
    <3> QED BY <3>2, <3>3, <3>4
  <2> QED BY <1>1, <2>2, <2>3
<1>4. ClaimsOwn' /\ ClaimsMade' /\ \A l \in Letters : FewerHands(l)
  BY <1>2, <1>3, LessInHand
<1>5. \A l \in Letters : Rests(l)
  BY <1>2, <1>3, <1>4 DEF Rests, Opens, Held
<1>6. [DeliveryNext]_deliveryVars
  BY DEF DeliveryNext
<1> QED BY <1>2, <1>4, <1>5, <1>6, AllCounted DEF SendInv

(* A delay that passes; a lease that ends, at the cost of a mishap when its   *)
(* worker still holds the letter.                                             *)
LEMMA ClockCounted ==
  ASSUME SendInv, NEW q \in Letters, BackoffEnds(q) \/ LeaseEnds(q)
  PROVE  SendInv'
<1>1. UNCHANGED <<posted, frozen, sender>> /\ delays' \in 0 .. MaxDelays
  <2>1. delays \in 0 .. MaxDelays /\ MaxDelays \in Nat
    BY DeliveryAssumption DEF SendInv
  <2>2. delays' = delays \/ (delays > 0 /\ delays' = delays - 1)
    BY DEF BackoffEnds, LeaseEnds
  <2> QED BY <2>1, <2>2 DEF BackoffEnds, LeaseEnds
<1>2. ASSUME NEW l \in Letters
      PROVE  /\ letter'[l].attempts = letter[l].attempts /\ letter'[l].status = letter[l].status
             /\ \/ letter'[l].leased = letter[l].leased
                \/ LeaseEnds(q) /\ l = q
  <2>1. letter \in [Letters -> Shape] /\ letter[l] \in Shape
    BY DEF SendInv, LettersInv
  <2>2. CASE BackoffEnds(q) /\ l = q
    <3>1. PICK row : row = [letter[l] EXCEPT !.due = TRUE]
      OBVIOUS
    <3>2. row.attempts = letter[l].attempts /\ row.leased = letter[l].leased /\ row.status = letter[l].status
      BY <2>1, <3>1 DEF Shape
    <3>3. letter'[l] = row
      BY <2>1, <2>2, <3>1 DEF BackoffEnds
    <3> QED BY <3>2, <3>3
  <2>3. CASE LeaseEnds(q) /\ l = q
    <3>1. PICK row : row = [letter[l] EXCEPT !.leased = FALSE]
      OBVIOUS
    <3>2. row.attempts = letter[l].attempts /\ row.status = letter[l].status
      BY <2>1, <3>1 DEF Shape
    <3>3. letter'[l] = row
      BY <2>1, <2>3, <3>1 DEF LeaseEnds
    <3> QED BY <2>3, <3>2, <3>3
  <2>4. CASE l # q
    BY <2>1, <2>4 DEF BackoffEnds, LeaseEnds
  <2> QED BY <2>2, <2>3, <2>4
<1>3. ClaimsOwn' /\ ClaimsMade' /\ \A l \in Letters : FewerHands(l)
  BY <1>1, <1>2, LessInHand
<1>4. \A l \in Letters : Rests(l) \/ Mishap(l)
  <2>1. CASE LeaseEnds(q) /\ Held(q)
    BY <1>1, <1>2, <1>3, <2>1 DEF LeaseEnds, Mishap
  <2>2. CASE LeaseEnds(q) /\ ~ Held(q)
    <3>1. Opens(q) = 1 /\ delays' = delays
      BY <2>2 DEF LeaseEnds, Opens
    <3>2. \A l \in Letters : Opens(l)' <= Opens(l)
      BY <1>1, <1>2, <3>1 DEF Opens, Held
    <3> QED BY <1>1, <1>2, <1>3, <3>1, <3>2 DEF Rests
  <2>3. CASE BackoffEnds(q)
    <3>1. delays' = delays /\ \A l \in Letters : letter'[l].leased = letter[l].leased
      <4>1. ASSUME LeaseEnds(q) PROVE FALSE
        BY <2>3, <4>1 DEF BackoffEnds, LeaseEnds
      <4> QED BY <1>2, <2>3, <4>1 DEF BackoffEnds
    <3> QED BY <1>1, <1>2, <1>3, <3>1 DEF Rests, Opens, Held
  <2> QED BY <2>1, <2>2, <2>3
<1>5. [DeliveryNext]_deliveryVars
  BY DEF DeliveryNext
<1> QED BY <1>1, <1>3, <1>4, <1>5, AllCounted DEF SendInv

(* Claims are lost, a company is frozen, or nothing happens.                  *)
LEMMA LossCounted ==
  ASSUME SendInv,
         \/ \E s \in Senders : FinishFails(s) \/ LoseSender(s)
         \/ Freeze \/ UNCHANGED deliveryVars
  PROVE  SendInv'
<1>1. UNCHANGED <<posted, letter>> /\ frozen' \in BOOLEAN
  BY DEF FinishFails, LoseSender, Freeze, deliveryVars, SendInv
<1>2. sender \in [Senders -> SUBSET Claim]
  BY DEF SendInv, LettersInv
<1>3. \/ delays > 0 /\ delays' = delays - 1 /\ \A s \in Senders : sender'[s] \subseteq sender[s]
      \/ UNCHANGED <<delays, sender>>
  <2>1. ASSUME NEW s \in Senders, FinishFails(s) \/ LoseSender(s)
        PROVE  delays > 0 /\ delays' = delays - 1 /\ \A t \in Senders : sender'[t] \subseteq sender[t]
    BY <1>2, <2>1 DEF FinishFails, LoseSender
  <2> QED BY <2>1 DEF Freeze, deliveryVars
<1>4. delays' \in 0 .. MaxDelays
  <2>1. delays \in 0 .. MaxDelays /\ MaxDelays \in Nat
    BY DeliveryAssumption DEF SendInv
  <2> QED BY <1>3, <2>1
<1>5. ClaimsOwn' /\ ClaimsMade' /\ \A l \in Letters : FewerHands(l)
  <2>1. \A s \in Senders : sender'[s] \subseteq sender[s]
    BY <1>3
  <2> QED BY <1>1, <2>1, LessInHand
<1>6. \A l \in Letters : Rests(l) \/ Mishap(l)
  <2>1. CASE delays' = delays - 1
    BY <1>1, <1>5, <2>1 DEF Mishap
  <2>2. CASE UNCHANGED <<delays, sender>>
    BY <1>1, <1>5, <2>2 DEF Rests, Opens, Held
  <2> QED BY <1>3, <2>1, <2>2
<1>7. [DeliveryNext]_deliveryVars
  BY DEF DeliveryNext
<1> QED BY <1>1, <1>4, <1>5, <1>6, <1>7, AllCounted DEF SendInv

(* A batch is claimed: each of its letters was open, and gets a new attempt.   *)
LEMMA BatchCounted ==
  ASSUME SendInv, NEW s \in Senders, ClaimBatch(s)
  PROVE  SendInv'
<1>1. PICK batch \in SUBSET {l \in Letters : Due(l)} :
       /\ letter' = [l \in Letters |-> IF l \notin batch THEN letter[l] ELSE
            [letter[l] EXCEPT !.status = "sending", !.attempts = @ + 1, !.leased = TRUE]]
       /\ sender' = [sender EXCEPT ![s] =
            {[letter |-> l, attempt |-> letter[l].attempts + 1,
              outcome |-> IF frozen /\ l \in Alerts THEN "stopped" ELSE "claimed"] : l \in batch}]
  BY DEF ClaimBatch
<1>2. UNCHANGED <<posted, frozen, delays>> /\ sender[s] = {}
  BY DEF ClaimBatch
<1>3. /\ letter \in [Letters -> Shape] /\ sender \in [Senders -> SUBSET Claim]
      /\ \A l \in Letters : letter[l] \in Shape /\ letter[l].attempts \in Nat
  BY DEF SendInv, LettersInv, Shape
<1>4. ASSUME NEW l \in Letters
      PROVE  /\ l \in batch => /\ letter'[l].attempts = letter[l].attempts + 1
                               /\ letter'[l].status = "sending" /\ letter'[l].leased
             /\ l \notin batch => letter'[l] = letter[l]
  <2>1. CASE l \in batch
    <3>1. PICK n \in Nat : n = letter[l].attempts + 1
      BY <1>3
    <3>2. letter'[l] = [letter[l] EXCEPT !.status = "sending", !.attempts = n, !.leased = TRUE]
      BY <1>1, <1>3, <2>1, <3>1
    <3> QED BY <1>3, <2>1, <3>1, <3>2 DEF Shape
  <2>2. CASE l \notin batch
    BY <1>1, <2>2
  <2> QED BY <2>1, <2>2
<1>5. /\ \A c \in sender'[s] : /\ c.letter \in batch /\ c.letter \in Letters
                               /\ c.attempt = letter[c.letter].attempts + 1
      /\ \A c, d \in sender'[s] : c.letter = d.letter => c = d
      /\ \A l \in batch : \E c \in sender'[s] : c.letter = l
      /\ \A t \in Senders : t # s => sender'[t] = sender[t]
  <2> DEFINE claim(l) == [letter |-> l, attempt |-> letter[l].attempts + 1,
                          outcome |-> IF frozen /\ l \in Alerts THEN "stopped" ELSE "claimed"]
  <2>1. sender' = [sender EXCEPT ![s] = {claim(l) : l \in batch}]
    BY <1>1
  <2>2. \A l : claim(l).letter = l /\ claim(l).attempt = letter[l].attempts + 1
    OBVIOUS
  <2> HIDE DEF claim
  <2>3. /\ sender'[s] = {claim(l) : l \in batch}
        /\ \A t \in Senders : t # s => sender'[t] = sender[t]
    BY <1>3, <2>1
  <2> QED BY <2>2, <2>3
<1>6. \A t \in Senders : \A c \in sender[t] :
        c.letter \in Letters /\ c.attempt \in 1 .. letter[c.letter].attempts
  BY <1>3 DEF SendInv, ClaimsMade, Claim
<1>7. ClaimsMade'
  <2>1. ASSUME NEW t \in Senders, NEW c \in sender'[t]
        PROVE  c.attempt \in 1 .. letter'[c.letter].attempts
    <3>1. CASE t = s
      BY <1>3, <1>4, <1>5, <3>1
    <3>2. CASE t # s
      BY <1>3, <1>4, <1>5, <1>6, <3>2
    <3> QED BY <3>1, <3>2
  <2> QED BY <2>1 DEF ClaimsMade
<1>8. ClaimsOwn'
  <2>1. ASSUME NEW t \in Senders, NEW r \in Senders, NEW c \in sender'[t], NEW d \in sender'[r],
               c.letter = d.letter, c.attempt = d.attempt
        PROVE  t = r /\ c = d
    <3>1. CASE t = s /\ r = s
      BY <1>5, <2>1, <3>1
    <3>2. CASE t # s /\ r # s
      BY <1>5, <2>1, <3>2 DEF SendInv, ClaimsOwn
    <3>3. ASSUME NEW x \in sender'[s], NEW z \in Senders \ {s}, NEW y \in sender'[z],
                 x.letter = y.letter, x.attempt = y.attempt
          PROVE  FALSE
      BY <1>3, <1>5, <1>6, <3>3
    <3> QED BY <2>1, <3>1, <3>2, <3>3
  <2> QED BY <2>1 DEF ClaimsOwn
<1>9. ASSUME NEW l \in Letters PROVE Rests(l) \/ Attempted(l)
  <2>1. ASSUME NEW n \in Nat, n # letter[l].attempts + 1 \/ l \notin batch
        PROVE  (InHand(l, n)' => InHand(l, n)) /\ (Unposted(l, n)' => Unposted(l, n))
    <3>1. ASSUME NEW t \in Senders, NEW c \in sender'[t], c.letter = l, c.attempt = n
          PROVE  c \in sender[t]
      BY <1>5, <2>1, <3>1
    <3> QED BY <3>1 DEF InHand, Unposted
  <2>2. Held(l) => Held(l)'
    BY <1>2, <1>5 DEF Held
  <2>3. CASE l \in batch
    <3>1. Opens(l) = 1
      BY <2>3 DEF Due, Opens
    <3>2. Held(l)'
      BY <1>5, <2>3 DEF Held
    <3>3. Opens(l)' = 0
      BY <1>4, <2>3, <3>2 DEF Opens
    <3> QED BY <1>2, <1>4, <2>1, <2>3, <3>1, <3>3 DEF Attempted
  <2>4. CASE l \notin batch
    <3>1. Opens(l)' <= Opens(l)
      BY <1>4, <2>2, <2>4 DEF Opens
    <3> QED BY <1>2, <1>4, <2>1, <2>4, <3>1 DEF Rests, FewerHands
  <2> QED BY <2>3, <2>4
<1>10. [DeliveryNext]_deliveryVars
  BY DEF DeliveryNext, SenderStep
<1> QED BY <1>2, <1>7, <1>8, <1>9, <1>10, AllCounted DEF SendInv

(* A letter is given to the channel: its claim is answered, and no other has  *)
(* that attempt.                                                              *)
LEMMA PostCounted ==
  ASSUME SendInv, NEW s \in Senders, Send(s)
  PROVE  SendInv'
<1>1. PICK c \in sender[s], outcome \in {"sent", "refused"} :
        /\ c.outcome = "claimed"
        /\ sender' = [sender EXCEPT ![s] = (@ \ {c}) \cup {[c EXCEPT !.outcome = outcome]}]
        /\ posted' = [posted EXCEPT ![c.letter] = @ + 1]
  BY DEF Send
<1>2. UNCHANGED <<letter, frozen, delays>>
  BY DEF Send
<1>3. PICK done : done = [c EXCEPT !.outcome = outcome]
  OBVIOUS
<1>4. sender \in [Senders -> SUBSET Claim] /\ c \in Claim
  BY DEF SendInv, LettersInv
<1>5. done.letter = c.letter /\ done.attempt = c.attempt /\ done.outcome # "claimed" /\ c.letter \in Letters
  BY <1>3, <1>4 DEF Claim, Outcome
<1>6. /\ sender'[s] = (sender[s] \ {c}) \cup {done}
      /\ \A t \in Senders : t # s => sender'[t] = sender[t]
  BY <1>1, <1>3, <1>4
<1>7. ASSUME NEW t \in Senders, NEW d \in sender'[t]
      PROVE  \/ d \in sender[t] /\ (d # c \/ t # s)
             \/ d = done /\ t = s
  <2>1. CASE t = s
    BY <1>6, <2>1
  <2>2. CASE t # s
    BY <1>6, <2>2
  <2> QED BY <2>1, <2>2
<1>8. ClaimsOwn'
  <2>1. ASSUME NEW t \in Senders, NEW r \in Senders, NEW d \in sender'[t], NEW e \in sender'[r],
               d.letter = e.letter, d.attempt = e.attempt
        PROVE  t = r /\ d = e
    <3>1. \A x \in Senders : \A y \in sender[x] :
            y.letter = c.letter /\ y.attempt = c.attempt => x = s /\ y = c
      BY DEF SendInv, ClaimsOwn
    <3>2. CASE d \in sender[t] /\ e \in sender[r]
      BY <2>1, <3>2 DEF SendInv, ClaimsOwn
    <3>3. CASE d = done /\ t = s
      BY <1>5, <1>7, <2>1, <3>1, <3>3
    <3>4. CASE e = done /\ r = s
      BY <1>5, <1>7, <2>1, <3>1, <3>4
    <3> QED BY <1>7, <3>2, <3>3, <3>4
  <2> QED BY <2>1 DEF ClaimsOwn
<1>9. ClaimsMade'
  <2>1. ASSUME NEW t \in Senders, NEW d \in sender'[t]
        PROVE  d.attempt \in 1 .. letter[d.letter].attempts
    BY <1>5, <1>7 DEF SendInv, ClaimsMade
  <2> QED BY <1>2, <2>1 DEF ClaimsMade
<1>10. posted' \in [Letters -> Nat] /\ posted'[c.letter] = posted[c.letter] + 1
       /\ \A l \in Letters : l # c.letter => posted'[l] = posted[l]
  BY <1>1, <1>5 DEF SendInv
<1>11. ASSUME NEW l \in Letters PROVE Rests(l) \/ Posts(l)
  <2>1. ASSUME NEW n \in Nat PROVE (InHand(l, n)' => InHand(l, n)) /\ (Unposted(l, n)' => Unposted(l, n))
    <3>1. ASSUME InHand(l, n)' PROVE InHand(l, n)
      BY <1>5, <1>7, <3>1 DEF InHand
    <3>2. ASSUME Unposted(l, n)' PROVE Unposted(l, n)
      BY <1>5, <1>7, <3>2 DEF Unposted
    <3> QED BY <3>1, <3>2
  <2>2. Held(l)' <=> Held(l)
    <3>1. ASSUME Held(l)' PROVE Held(l)
      BY <1>5, <1>7, <3>1 DEF Held
    <3>2. ASSUME NEW t \in Senders, NEW d \in sender[t], d.letter = l PROVE Held(l)'
      BY <1>5, <1>6, <3>2 DEF Held
    <3> QED BY <3>1, <3>2 DEF Held
  <2>3. Opens(l)' = Opens(l)
    BY <1>2, <2>2 DEF Opens
  <2>4. CASE l # c.letter
    <3>1. Opens(l) \in {0, 1}
      BY DEF Opens
    <3> QED BY <1>2, <1>10, <2>1, <2>3, <2>4, <3>1 DEF Rests, FewerHands
  <2>5. CASE l = c.letter
    <3>1. c.attempt \in Unsent(l)
      BY <1>1, <2>5 DEF Unsent, Unposted, SendInv, ClaimsMade
    <3>2. ~ Unposted(l, c.attempt)'
      <4>1. ASSUME NEW t \in Senders, NEW d \in sender'[t], d.letter = l, d.attempt = c.attempt,
                   d.outcome = "claimed"
            PROVE  FALSE
        BY <1>5, <1>7, <2>5, <4>1 DEF SendInv, ClaimsOwn
      <4> QED BY <4>1 DEF Unposted
    <3>3. Opens(l) \in {0, 1}
      BY DEF Opens
    <3> QED BY <1>2, <1>10, <2>1, <2>3, <2>5, <3>1, <3>2, <3>3 DEF Posts, FewerHands
  <2> QED BY <2>4, <2>5
<1>12. [DeliveryNext]_deliveryVars
  BY DEF DeliveryNext, SenderStep
<1> QED BY <1>2, <1>8, <1>9, <1>10, <1>11, <1>12, AllCounted DEF SendInv

(* An attempt is written down: the letter is open again only when it failed   *)
(* early, and then that attempt is nobody's any more.                         *)
LEMMA FinishCounted ==
  ASSUME SendInv, NEW s \in Senders, Finish(s)
  PROVE  SendInv'
<1>1. PICK c \in sender[s] :
       /\ letter' = [letter EXCEPT ![c.letter] =
            [status |-> Ended(c), attempts |-> letter[c.letter].attempts, leased |-> FALSE,
             due |-> Ended(c) # "failed",
             whole |-> letter[c.letter].whole /\ (Ended(c) = "failed" \/ c.letter \in Alerts)]]
       /\ sender' = [sender EXCEPT ![s] = @ \ {c}]
  BY DEF Finish
<1>2. UNCHANGED <<posted, frozen, delays>>
  BY DEF Finish
<1>3. /\ letter \in [Letters -> Shape] /\ sender \in [Senders -> SUBSET Claim]
      /\ c.letter \in Letters /\ c \in Claim
  BY DEF SendInv, LettersInv, Claim
<1>4. /\ letter'[c.letter].status = Ended(c)
      /\ letter'[c.letter].attempts = letter[c.letter].attempts
      /\ \A l \in Letters : l # c.letter => letter'[l] = letter[l]
  BY <1>1, <1>3
<1>5. /\ sender'[s] = sender[s] \ {c}
      /\ \A t \in Senders : t # s => sender'[t] = sender[t]
  BY <1>1, <1>3
<1>6. ClaimsOwn' /\ ClaimsMade' /\ \A l \in Letters : FewerHands(l)
  BY <1>4, <1>5, LessInHand
<1>7. \A l \in Letters : letter'[l].attempts = letter[l].attempts
  BY <1>4
<1>8. ASSUME NEW l \in Letters PROVE Rests(l) \/ FailsEarly(l)
  <2>1. CASE l # c.letter
    <3>1. Held(l) => Held(l)'
      <4>1. ASSUME NEW t \in Senders, NEW d \in sender[t], d.letter = l PROVE d \in sender'[t]
        BY <1>5, <2>1, <4>1
      <4> QED BY <4>1 DEF Held
    <3>2. Opens(l)' <= Opens(l)
      BY <1>4, <2>1, <3>1 DEF Opens
    <3> QED BY <1>2, <1>6, <1>7, <3>2 DEF Rests
  <2>2. CASE l = c.letter /\ Ended(c) # "failed"
    <3>1. Opens(l)' = 0 /\ Opens(l) \in {0, 1}
      BY <1>4, <2>2 DEF Opens, Ended
    <3> QED BY <1>2, <1>6, <1>7, <3>1 DEF Rests
  <2>3. CASE l = c.letter /\ Ended(c) = "failed"
    <3>1. ~ (c.attempt >= MaxSends)
      BY <2>3 DEF Ended, GivenUp
    <3>2. c.attempt \in 1 .. letter[l].attempts /\ letter[l].attempts \in Nat
      BY <1>3, <2>3 DEF SendInv, ClaimsMade, Shape
    <3>3. c.attempt \in Early(l)
      BY <2>3, <3>1, <3>2, DeliveryAssumption DEF Early, InHand
    <3>4. ~ InHand(l, c.attempt)'
      <4>1. ASSUME NEW t \in Senders, NEW d \in sender'[t], d.letter = l, d.attempt = c.attempt
            PROVE  FALSE
        <5>1. d \in sender[t] /\ (d # c \/ t # s)
          BY <1>5
        <5> QED BY <2>3, <4>1, <5>1 DEF SendInv, ClaimsOwn
      <4> QED BY <4>1 DEF InHand
    <3> QED BY <1>2, <1>6, <1>7, <3>3, <3>4 DEF FailsEarly
  <2> QED BY <2>1, <2>2, <2>3
<1>9. [DeliveryNext]_deliveryVars
  BY DEF DeliveryNext, SenderStep
<1> QED BY <1>2, <1>6, <1>8, <1>9, AllCounted DEF SendInv

LEMMA SendStep == ASSUME SendInv, [DeliveryNext]_deliveryVars PROVE SendInv'
BY QueueCounted, BatchCounted, PostCounted, FinishCounted, ClockCounted, LossCounted
   DEF DeliveryNext, SenderStep

LEMMA CountedIsBounded ==
  ASSUME SendInv PROVE SendsBounded /\ DeliveryTypeOK
<1>1. ASSUME NEW l \in Letters
      PROVE  /\ posted[l] <= letter[l].attempts
             /\ letter[l].attempts <= MaxSends + (MaxDelays - delays)
             /\ letter[l].attempts \in 0 .. MaxCount
  <2>1. /\ letter[l].attempts \in Nat /\ posted[l] \in Nat /\ delays \in 0 .. MaxDelays
        /\ MaxSends \in Nat \ {0} /\ MaxDelays \in Nat /\ LetterCounted(l)
    BY DeliveryAssumption DEF SendInv, LettersInv, Shape
  <2>2. Cardinality(Unsent(l)) \in Nat /\ Cardinality(Early(l)) \in Nat
    <3>1. /\ Unsent(l) \subseteq 1 .. letter[l].attempts /\ letter[l].attempts \in Int
          /\ Early(l) \subseteq 1 .. MaxSends - 1 /\ MaxSends - 1 \in Int
      BY <2>1 DEF Unsent, Early
    <3> QED BY <3>1, SomeOf
  <2>3. Opens(l) \in {0, 1} /\ Top(l) \in Int /\ letter[l].attempts <= Top(l)
    BY <2>1 DEF Opens, Top
  <2> QED BY <2>1, <2>2, <2>3 DEF LetterCounted, MaxCount
<1>2. SendsBounded
  BY <1>1 DEF SendsBounded
<1>3. letter \in [Letters -> [status : LetterStatus, attempts : 0 .. MaxCount,
                             leased : BOOLEAN, due : BOOLEAN, whole : BOOLEAN]]
  <2>1. letter \in [Letters -> Shape]
    BY DEF SendInv, LettersInv
  <2>2. ASSUME NEW l \in Letters
        PROVE  letter[l] \in [status : LetterStatus, attempts : 0 .. MaxCount,
                              leased : BOOLEAN, due : BOOLEAN, whole : BOOLEAN]
    BY <1>1, <2>1 DEF Shape
  <2> QED BY <2>1, <2>2
<1>4. \A s \in Senders : sender[s] \subseteq
       [letter : Letters, attempt : 1 .. MaxCount, outcome : Outcome]
  <2>1. ASSUME NEW s \in Senders, NEW c \in sender[s]
        PROVE  c \in [letter : Letters, attempt : 1 .. MaxCount, outcome : Outcome]
    <3>1. c \in Claim /\ c.letter \in Letters /\ c.attempt \in 1 .. letter[c.letter].attempts
      BY DEF SendInv, LettersInv, ClaimsMade, Claim
    <3>2. c.attempt \in 1 .. MaxCount
      <4>1. letter[c.letter].attempts \in 0 .. MaxCount
        BY <1>1, <3>1
      <4>2. MaxCount \in Nat
        BY DeliveryAssumption DEF MaxCount
      <4> QED BY <3>1, <4>1, <4>2
    <3> QED BY <3>1, <3>2 DEF Claim
  <2> QED BY <2>1
<1> QED BY <1>2, <1>3, <1>4 DEF SendInv, LettersInv, DeliveryTypeOK

(* Only replicas that die or outlive a lease push a letter past its attempts,  *)
(* one each, and the channel never gets more requests than attempts, for any  *)
(* letters, workers, batches and mishaps (sender.go:88-89).                   *)
THEOREM SendsAreBounded == DeliverySpec => []SendsBounded
<1>1. DeliveryInit => SendInv
  BY SendBegins
<1>2. SendInv /\ [DeliveryNext]_deliveryVars => SendInv'
  BY SendStep
<1>3. SendInv => SendsBounded
  BY CountedIsBounded
<1> QED BY <1>1, <1>2, <1>3, PTL DEF DeliverySpec

(* The rows of outbound_messages and the claims on them keep their columns:   *)
(* the bound on the attempts is a consequence of the counting.                *)
THEOREM LettersAreTyped == DeliverySpec => []DeliveryTypeOK
<1>1. DeliveryInit => SendInv
  BY SendBegins
<1>2. SendInv /\ [DeliveryNext]_deliveryVars => SendInv'
  BY SendStep
<1>3. SendInv => DeliveryTypeOK
  BY CountedIsBounded
<1> QED BY <1>1, <1>2, <1>3, PTL DEF DeliverySpec

-----------------------------------------------------------------------------
(* Webhooks *)

Verdicts == {"none", "retryable_failed"} \cup Final
EventShape == [status : {"none", "pending", "delivering", "delivered"},
               claims : 0 .. MaxHookClaims, leased : BOOLEAN]
Asking == [pc : {"idle", "asking"}, targets : SUBSET Tried]

(* Every try that was made or is under way was claimed, so that the next one  *)
(* is a row there may be.                                                     *)
HookInv ==
  /\ hookEvent \in EventShape
  /\ delivery \in [Tried -> Verdicts]
  /\ endpoint \in [Endpoints -> {"active", "revoked"}]
  /\ hookWorker \in [HookWorkers -> Asking]
  /\ \A e \in Endpoints : \A n \in TriesOf(e) : n <= hookEvent.claims
  /\ \A w \in HookWorkers : \A t \in hookWorker[w].targets : t[2] <= hookEvent.claims
  /\ DeliveredIsAnswered

LEMMA HooksBegin == ASSUME IngestInit PROVE HookInv
<1>1. hookEvent \in EventShape /\ hookEvent.status = "none"
  BY IngestAssumption DEF IngestInit, EventShape
<1>2. delivery \in [Tried -> Verdicts] /\ \A e \in Endpoints : TriesOf(e) = {}
  BY DEF IngestInit, Verdicts, TriesOf, Tried
<1>3. hookWorker \in [HookWorkers -> Asking] /\ \A w \in HookWorkers : hookWorker[w].targets = {}
  BY DEF IngestInit, Asking, AskingNobody
<1>4. endpoint \in [Endpoints -> {"active", "revoked"}]
  BY DEF IngestInit
<1> QED BY <1>1, <1>2, <1>3, <1>4 DEF HookInv, DeliveredIsAnswered

(* The items: at most the event is queued.                                    *)
LEMMA ItemsLeaveHooks ==
  ASSUME HookInv, UNCHANGED <<delivery, hookWorker>>,
         endpoint' \in [Endpoints -> {"active", "revoked"}],
         \A e \in Endpoints : endpoint'[e] = "active" => endpoint[e] = "active",
         hookEvent' = hookEvent \/ hookEvent' = [hookEvent EXCEPT !.status = "pending"]
  PROVE  HookInv'
<1>1. /\ hookEvent' \in EventShape /\ hookEvent'.claims = hookEvent.claims
      /\ hookEvent'.status = "delivered" => hookEvent.status = "delivered"
  <2>1. CASE hookEvent' = hookEvent
    BY <2>1 DEF HookInv
  <2>2. CASE hookEvent' # hookEvent
    BY <2>2 DEF HookInv, EventShape
  <2> QED BY <2>1, <2>2
<1>2. Active' \subseteq Active /\ \A e \in Endpoints : TriesOf(e)' = TriesOf(e)
  BY DEF Active, TriesOf
<1>3. \A e \in Endpoints : Answered(e)' <=> Answered(e)
  BY <1>2 DEF Answered
<1>4. \A e \in Active : e \in Endpoints
  BY DEF Active
<1> QED BY <1>1, <1>2, <1>3, <1>4 DEF HookInv, DeliveredIsAnswered

LEMMA FirstNumbers ==
  ASSUME NEW n \in Nat PROVE IsFiniteSet(1 .. n) /\ Cardinality(1 .. n) = n
<1>1. IsFiniteSet(1 .. n) /\ Cardinality(1 .. n) = IF 1 > n THEN 0 ELSE n - 1 + 1
  BY FS_Interval
<1>2. (IF 1 > n THEN 0 ELSE n - 1 + 1) = n
  OBVIOUS
<1> QED BY ONLY <1>1, <1>2

LEMMA ClaimWebhookKeeps ==
  ASSUME HookInv, NEW w \in HookWorkers, ClaimWebhook(w) PROVE HookInv'
<1>0. /\ hookEvent.claims \in Nat /\ hookEvent.claims < MaxHookClaims /\ MaxHookClaims \in Nat
      /\ UNCHANGED <<delivery, endpoint>>
  BY IngestAssumption DEF ClaimWebhook, HookInv, EventShape
<1>1. /\ hookEvent' \in EventShape /\ hookEvent'.claims = hookEvent.claims + 1
      /\ hookEvent'.status = "delivered" => Active = {}
  <2>1. PICK status \in {"delivered", "delivering"}, leased \in BOOLEAN :
          /\ hookEvent' = [status |-> status, claims |-> hookEvent.claims + 1, leased |-> leased]
          /\ status = "delivered" => Active = {}
    BY DEF ClaimWebhook
  <2> QED BY <1>0, <2>1 DEF EventShape
<1>2. ASSUME NEW e \in Active
      PROVE  <<e, NextTryOf(e)>> \in Tried /\ NextTryOf(e) <= hookEvent.claims + 1
  <2>1. e \in Endpoints
    BY DEF Active
  <2>2. TriesOf(e) \subseteq 1 .. hookEvent.claims
    <3>1. \A n \in TriesOf(e) : n \in Nat /\ 1 <= n
      BY <1>0 DEF TriesOf
    <3>2. \A n \in TriesOf(e) : n <= hookEvent.claims
      BY <2>1 DEF HookInv
    <3> QED BY <1>0, <3>1, <3>2
  <2>3. IsFiniteSet(1 .. hookEvent.claims) /\ Cardinality(1 .. hookEvent.claims) = hookEvent.claims
    BY <1>0, FirstNumbers
  <2>4. Cardinality(TriesOf(e)) \in Nat /\ Cardinality(TriesOf(e)) <= hookEvent.claims
    <3>1. TriesOf(e) \in SUBSET (1 .. hookEvent.claims)
      BY <2>2
    <3>2. IsFiniteSet(TriesOf(e)) /\ Cardinality(TriesOf(e)) <= Cardinality(1 .. hookEvent.claims)
      BY ONLY <2>3, <3>1, FS_Subset
    <3> QED BY <2>3, <3>2, FS_CardinalityType
  <2> QED BY <1>0, <2>1, <2>4 DEF NextTryOf, Tried
<1>3. PICK asking \in Asking :
        /\ hookWorker' = [hookWorker EXCEPT ![w] = asking]
        /\ \A t \in asking.targets : t[2] <= hookEvent.claims + 1
  <2>1. CASE Active = {}
    <3>1. AskingNobody \in Asking /\ AskingNobody.targets = {}
      BY DEF AskingNobody, Asking
    <3> QED BY <2>1, <3>1 DEF ClaimWebhook
  <2>2. CASE Active # {}
    <3>1. PICK targets : targets = {<<e, NextTryOf(e)>> : e \in Active}
      OBVIOUS
    <3>2. targets \subseteq Tried /\ \A t \in targets : t[2] <= hookEvent.claims + 1
      BY <1>2, <3>1
    <3>3. hookWorker' = [hookWorker EXCEPT ![w] = [pc |-> "asking", targets |-> targets]]
      BY <2>2, <3>1 DEF ClaimWebhook
    <3>4. [pc |-> "asking", targets |-> targets] \in Asking
      BY <3>2 DEF Asking
    <3> QED BY <3>2, <3>3, <3>4
  <2> QED BY <2>1, <2>2
<1>4. hookWorker' \in [HookWorkers -> Asking] /\ \A v \in HookWorkers : v # w => hookWorker'[v] = hookWorker[v]
      /\ hookWorker'[w] = asking
  BY <1>3 DEF HookInv
<1>5. ASSUME NEW v \in HookWorkers, NEW t \in hookWorker'[v].targets
      PROVE  t[2] <= hookEvent'.claims
  <2>1. CASE v = w
    BY <1>1, <1>3, <1>4, <2>1
  <2>2. CASE v # w
    <3>1. t \in hookWorker[v].targets /\ t \in Tried
      BY <1>4, <2>2 DEF HookInv, Asking
    <3>2. t[2] \in Nat /\ t[2] <= hookEvent.claims
      BY <1>0, <3>1 DEF HookInv, Tried
    <3> QED BY <1>0, <1>1, <3>2
  <2> QED BY <2>1, <2>2
<1>6. \A e \in Endpoints : TriesOf(e)' = TriesOf(e) /\ \A n \in TriesOf(e) : n \in Nat
  BY <1>0 DEF TriesOf
<1>7. Active' = Active
  BY <1>0 DEF Active
<1>8. \A e \in Endpoints : \A n \in TriesOf(e)' : n <= hookEvent'.claims
  <2>1. \A e \in Endpoints : \A n \in TriesOf(e) : n \in Nat /\ n <= hookEvent.claims
    BY <1>6 DEF HookInv
  <2> QED BY <1>0, <1>1, <1>6, <2>1
<1>9. DeliveredIsAnswered'
  BY <1>1, <1>7 DEF DeliveredIsAnswered
<1> QED BY <1>0, <1>1, <1>4, <1>5, <1>8, <1>9 DEF HookInv

(* An answer that is written stays, and it ends the event only when nobody is *)
(* left to answer.                                                            *)
LEMMA RecordKeeps ==
  ASSUME HookInv, NEW w \in HookWorkers, RecordWebhookDelivery(w) PROVE HookInv'
<1>1. PICK t \in hookWorker[w].targets,
           answer \in {"succeeded", "permanent_failed", "retryable_failed"} :
       LET e == t[1]
           verdict == Verdict(answer, t[2])
           row == IF delivery[t] = "none" THEN verdict ELSE delivery[t]
           left == hookWorker[w].targets \ {t} IN
       /\ delivery' = [delivery EXCEPT ![t] = row]
       /\ hookEvent' =
            IF verdict = "retryable_failed"
            THEN [hookEvent EXCEPT !.status = "pending", !.leased = FALSE]
            ELSE IF Remaining(e, row) = {}
            THEN [hookEvent EXCEPT !.status = "delivered", !.leased = FALSE]
            ELSE hookEvent
       /\ hookWorker' = [hookWorker EXCEPT ![w] =
            IF left = {} THEN AskingNobody ELSE [pc |-> "asking", targets |-> left]]
  BY DEF RecordWebhookDelivery
<1>2. PICK verdict : verdict = Verdict(answer, t[2])
  OBVIOUS
<1>3. PICK row : row = IF delivery[t] = "none" THEN verdict ELSE delivery[t]
  OBVIOUS
<1>4. /\ t \in Tried /\ t[1] \in Endpoints /\ t[2] \in 1 .. MaxHookClaims /\ t = <<t[1], t[2]>>
      /\ t[2] <= hookEvent.claims /\ endpoint' = endpoint
  <2>1. t \in Tried
    BY DEF HookInv, Asking
  <2> QED BY <2>1 DEF Tried, HookInv, RecordWebhookDelivery
<1>5. verdict \in {"succeeded", "permanent_failed", "retryable_failed"}
  BY <1>2 DEF Verdict
<1>6. row \in Verdicts /\ row # "none" /\ (delivery[t] # "none" => row = delivery[t])
  BY <1>3, <1>4, <1>5 DEF HookInv, Verdicts, Final
<1>7. /\ delivery' \in [Tried -> Verdicts] /\ delivery'[t] = row
      /\ \A u \in Tried : u # t => delivery'[u] = delivery[u]
  <2>1. delivery' = [delivery EXCEPT ![t] = row]
    BY <1>1, <1>2, <1>3
  <2> QED BY <1>4, <1>6, <2>1 DEF HookInv
<1>8. /\ hookEvent' \in EventShape /\ hookEvent'.claims = hookEvent.claims
      /\ hookEvent'.status = "delivered" =>
           hookEvent.status = "delivered" \/ Remaining(t[1], row) = {}
  <2>1. \/ hookEvent' = hookEvent
        \/ hookEvent' = [hookEvent EXCEPT !.status = "pending", !.leased = FALSE]
        \/ /\ hookEvent' = [hookEvent EXCEPT !.status = "delivered", !.leased = FALSE]
           /\ Remaining(t[1], row) = {}
    BY <1>1, <1>2, <1>3
  <2> QED BY <2>1 DEF HookInv, EventShape
<1>9. /\ hookWorker' \in [HookWorkers -> Asking]
      /\ \A v \in HookWorkers : hookWorker'[v].targets \subseteq hookWorker[v].targets
  <2>1. PICK asking \in Asking : /\ hookWorker' = [hookWorker EXCEPT ![w] = asking]
                                 /\ asking.targets \subseteq hookWorker[w].targets
    <3>1. PICK left : left = hookWorker[w].targets \ {t}
      OBVIOUS
    <3>2. /\ AskingNobody \in Asking /\ AskingNobody.targets = {}
          /\ [pc |-> "asking", targets |-> left] \in Asking
          /\ [pc |-> "asking", targets |-> left].targets = left
      BY <3>1 DEF AskingNobody, Asking, HookInv
    <3>3. \/ hookWorker' = [hookWorker EXCEPT ![w] = AskingNobody]
          \/ hookWorker' = [hookWorker EXCEPT ![w] = [pc |-> "asking", targets |-> left]]
      BY <1>1, <3>1
    <3> QED BY <3>1, <3>2, <3>3
  <2> QED BY <2>1 DEF HookInv
<1>10. ASSUME NEW e \in Endpoints, NEW n \in 1 .. MaxHookClaims
       PROVE  /\ <<e, n>> \in Tried
              /\ <<e, n>> # t => delivery'[<<e, n>>] = delivery[<<e, n>>]
              /\ <<e, n>> = t => e = t[1] /\ n = t[2]
  BY <1>4, <1>7 DEF Tried
<1>11. \A e \in Endpoints : \A n \in TriesOf(e)' : n <= hookEvent'.claims
  <2>1. ASSUME NEW e \in Endpoints, NEW n \in 1 .. MaxHookClaims, delivery'[<<e, n>>] # "none"
        PROVE  n <= hookEvent.claims
    <3>1. CASE <<e, n>> = t
      BY <1>4, <1>10, <3>1
    <3>2. CASE <<e, n>> # t
      BY <1>10, <2>1, <3>2 DEF HookInv, TriesOf
    <3> QED BY <3>1, <3>2
  <2> QED BY <1>8, <2>1 DEF TriesOf
<1>12. ASSUME NEW e \in Endpoints, Answered(e) PROVE Answered(e)'
  <2>1. PICK n \in 1 .. MaxHookClaims : delivery[<<e, n>>] \in Final
    BY <1>12 DEF Answered, TriesOf
  <2>2. delivery'[<<e, n>>] = delivery[<<e, n>>]
    BY <1>6, <1>7, <1>10, <2>1 DEF Final
  <2> QED BY <2>1, <2>2 DEF Answered, TriesOf, Final
<1>13. ASSUME row \in Final PROVE Answered(t[1])'
  BY <1>4, <1>7, <1>13 DEF Answered, TriesOf, Final
<1>14. DeliveredIsAnswered'
  <2>1. Active' = Active /\ Active \subseteq Endpoints
    BY <1>4 DEF Active
  <2>2. ASSUME hookEvent'.status = "delivered", NEW e \in Active PROVE Answered(e)'
    <3>1. Answered(e) \/ (e = t[1] /\ row \in Final)
      BY <1>8, <2>2 DEF Remaining, HookInv, DeliveredIsAnswered
    <3> QED BY <1>12, <1>13, <2>1, <3>1
  <2> QED BY <2>1, <2>2 DEF DeliveredIsAnswered
<1>15. \A v \in HookWorkers : \A u \in hookWorker'[v].targets : u[2] <= hookEvent'.claims
  BY <1>8, <1>9 DEF HookInv
<1> QED BY <1>4, <1>7, <1>8, <1>9, <1>11, <1>14, <1>15 DEF HookInv

LEMMA LoseHookKeeps ==
  ASSUME HookInv, NEW w \in HookWorkers, LoseHookWorker(w) PROVE HookInv'
<1>1. UNCHANGED <<delivery, endpoint>>
  BY DEF LoseHookWorker
<1>2. /\ hookEvent' \in EventShape /\ hookEvent'.claims = hookEvent.claims
      /\ hookEvent'.status = hookEvent.status
  BY DEF LoseHookWorker, HookInv, EventShape
<1>3. AskingNobody \in Asking /\ AskingNobody.targets = {}
  BY DEF AskingNobody, Asking
<1>4. /\ hookWorker' \in [HookWorkers -> Asking]
      /\ \A v \in HookWorkers : hookWorker'[v].targets \subseteq hookWorker[v].targets
  BY <1>3 DEF LoseHookWorker, HookInv
<1>5. \A e \in Endpoints : TriesOf(e)' = TriesOf(e)
  BY <1>1 DEF TriesOf
<1>6. Active' = Active /\ Active \subseteq Endpoints /\ \A e \in Endpoints : Answered(e)' <=> Answered(e)
  BY <1>1, <1>5 DEF Active, Answered
<1> QED BY <1>1, <1>2, <1>4, <1>5, <1>6 DEF HookInv, DeliveredIsAnswered

LEMMA HookStep == ASSUME HookInv, [IngestNext]_ingestVars PROVE HookInv'
<1>1. ASSUME \/ UNCHANGED ingestVars
             \/ \E i \in Recordings :
                  \/ AcceptIngest(i) \/ IngestLeaseEnds(i) \/ ClearExpiredLocator(i)
                  \/ \E w \in IngestWorkers : ClaimIngest(w, i)
             \/ \E w \in IngestWorkers : MakeCall(w) \/ RecordingFails(w) \/ LoseIngestWorker(w)
             \/ \E status \in {"active", "disabled", "revoked"} : ChangeConnectionStatus(status)
      PROVE  HookInv'
  <2>1. UNCHANGED <<hookEvent, delivery, endpoint, hookWorker>>
    BY <1>1 DEF ingestVars, hookOnly, AcceptIngest, IngestLeaseEnds, ClearExpiredLocator,
       ClaimIngest, MakeCall, RecordingFails, LoseIngestWorker, ChangeConnectionStatus
  <2> QED BY <2>1, ItemsLeaveHooks DEF HookInv
<1>2. ASSUME NEW w \in IngestWorkers, CompleteIngest(w) \/ FailIngest(w)
      PROVE  HookInv'
  <2>1. UNCHANGED <<delivery, endpoint, hookWorker>>
    BY <1>2 DEF CompleteIngest, FailIngest, hookOnly
  <2>2. UNCHANGED hookEvent \/ hookEvent' = [hookEvent EXCEPT !.status = "pending"]
    BY <1>2 DEF CompleteIngest, FailIngest, Tell
  <2> QED BY <2>1, <2>2, ItemsLeaveHooks DEF HookInv
<1>3. ASSUME NEW e \in Endpoints, RevokeWebhook(e) PROVE HookInv'
  <2>1. /\ UNCHANGED <<hookEvent, delivery, hookWorker>>
        /\ endpoint' \in [Endpoints -> {"active", "revoked"}]
        /\ \A f \in Endpoints : endpoint'[f] = "active" => endpoint[f] = "active"
    BY <1>3 DEF RevokeWebhook, HookInv
  <2> QED BY <2>1, ItemsLeaveHooks
<1> QED BY <1>1, <1>2, <1>3, ClaimWebhookKeeps, RecordKeeps, LoseHookKeeps DEF IngestNext

(* An event is over only when every endpoint that is still active has given   *)
(* its last answer, for any endpoints, tries and workers                      *)
(* (webhooks.go:252, 270).                                                    *)
THEOREM EventsEndAnswered == IngestSpec => []DeliveredIsAnswered
<1>1. IngestInit => HookInv
  BY HooksBegin
<1>2. HookInv /\ [IngestNext]_ingestVars => HookInv'
  BY HookStep
<1>3. HookInv => DeliveredIsAnswered
  BY DEF HookInv
<1> QED BY <1>1, <1>2, <1>3, PTL DEF IngestSpec

-----------------------------------------------------------------------------
(* What neither the items nor the webhooks are about.                         *)
LossesTyped == connection \in {"active", "disabled", "revoked"} /\ losses \in 0 .. MaxLosses

LEMMA LossesStep == ASSUME LossesTyped, [IngestNext]_ingestVars PROVE LossesTyped'
<1> USE DEF LossesTyped
<1>1. CASE UNCHANGED <<connection, losses>>
  BY <1>1
<1>2. CASE losses > 0 /\ losses' = losses - 1 /\ connection' = connection
  BY <1>2, IngestAssumption
<1>3. ASSUME NEW status \in {"active", "disabled", "revoked"}, ChangeConnectionStatus(status)
      PROVE  LossesTyped'
  BY <1>3 DEF ChangeConnectionStatus
<1>4. ASSUME NEW i \in Recordings,
             \/ AcceptIngest(i) \/ IngestLeaseEnds(i) \/ ClearExpiredLocator(i)
             \/ \E w \in IngestWorkers : ClaimIngest(w, i)
      PROVE  LossesTyped'
  BY <1>1, <1>2, <1>4 DEF AcceptIngest, IngestLeaseEnds, ClearExpiredLocator, ClaimIngest
<1>5. ASSUME NEW w \in IngestWorkers,
             \/ MakeCall(w) \/ RecordingFails(w) \/ CompleteIngest(w) \/ FailIngest(w)
             \/ LoseIngestWorker(w)
      PROVE  LossesTyped'
  BY <1>1, <1>2, <1>5 DEF MakeCall, RecordingFails, CompleteIngest, FailIngest, LoseIngestWorker
<1>6. ASSUME NEW w \in HookWorkers,
             ClaimWebhook(w) \/ RecordWebhookDelivery(w) \/ LoseHookWorker(w)
      PROVE  LossesTyped'
  BY <1>1, <1>2, <1>6
     DEF ClaimWebhook, RecordWebhookDelivery, LoseHookWorker, ingestOnly
<1>7. ASSUME NEW e \in Endpoints, RevokeWebhook(e) PROVE LossesTyped'
  BY <1>1, <1>7 DEF RevokeWebhook, ingestOnly
<1> QED BY <1>1, <1>3, <1>4, <1>5, <1>6, <1>7 DEF IngestNext, ingestVars

(* Items, events, deliveries and what workers hold keep their columns and     *)
(* their bounds, for any recordings, endpoints, workers and tries.            *)
THEOREM OutboxIsTyped == IngestSpec => []IngestTypeOK
<1>1. IngestInit => LossesTyped
  BY IngestAssumption DEF IngestInit, LossesTyped
<1>2. LossesTyped /\ [IngestNext]_ingestVars => LossesTyped'
  BY LossesStep
<1>3. IngestInit => HookInv
  BY HooksBegin
<1>4. HookInv /\ [IngestNext]_ingestVars => HookInv'
  BY HookStep
<1>5. ItemsInv /\ HookInv /\ LossesTyped => IngestTypeOK
  BY DEF ItemsInv, ItemsTyped, HookInv, LossesTyped, IngestTypeOK, Item, Errand, EventShape,
         Asking, Verdicts
<1> QED BY <1>1, <1>2, <1>3, <1>4, <1>5, ItemsInvariant, PTL DEF IngestSpec

-----------------------------------------------------------------------------
(* A row has been tried as often as there were attempts and decisions, one    *)
(* less while it waits for the next, and its task is one of those there are.  *)
RowFits(row, again, created) ==
  /\ row.attempts <= MaxCreates + again
  /\ row.state \in Waiting => row.attempts < MaxCreates + again
  /\ row.task <= created

SyncFits ==
  /\ \A i \in Syncs : retries[i] <= MaxRetries /\ RowFits(sync[i], retries[i], tasks[i])
  /\ \A w \in SyncWorkers : syncWorker[w].task <= tasks[syncWorker[w].row]
  /\ unmoved \subseteq Deciders

(* A step that makes no task and writes at most one row.                      *)
LEMMA RowFitsKeeps ==
  ASSUME SyncInv, SyncFits, NEW i \in Syncs, NEW row \in SyncShape,
         sync' = [sync EXCEPT ![i] = row], tasks' = tasks, unmoved' \subseteq Deciders,
         \A w \in SyncWorkers : \/ syncWorker'[w] = syncWorker[w]
                                \/ syncWorker'[w].task = 0 /\ syncWorker'[w].row \in Syncs,
         \/ retries' = retries
         \/ retries[i] < MaxRetries /\ retries' = [retries EXCEPT ![i] = @ + 1],
         RowFits(row, retries'[i], tasks[i])
  PROVE  SyncFits'
<1> USE DEF SyncInv, SyncsTyped
<1>1. ASSUME NEW j \in Syncs
      PROVE  retries'[j] <= MaxRetries /\ RowFits(sync'[j], retries'[j], tasks'[j])
  <2>1. retries[j] \in Nat /\ retries[j] <= MaxRetries
    BY DEF SyncFits
  <2>2. CASE j = i
    BY <2>1, <2>2, ActionSyncAssumption
  <2>3. CASE j # i
    BY <2>1, <2>3 DEF SyncFits
  <2> QED BY <2>2, <2>3
<1>2. ASSUME NEW w \in SyncWorkers
      PROVE  syncWorker'[w].task <= tasks'[syncWorker'[w].row]
  BY DEF SyncFits
<1> QED BY <1>1, <1>2 DEF SyncFits

(* Most statements leave the attempts, and keep the task or take it away.     *)
LEMMA CalmRowFits ==
  ASSUME SyncInv, SyncFits, NEW i \in Syncs, NEW row \in SyncShape,
         sync' = [sync EXCEPT ![i] = row], UNCHANGED <<tasks, retries>>,
         unmoved' \subseteq Deciders,
         \A w \in SyncWorkers : \/ syncWorker'[w] = syncWorker[w]
                                \/ syncWorker'[w].task = 0 /\ syncWorker'[w].row \in Syncs,
         row.attempts = sync[i].attempts, row.task \in {0, sync[i].task},
         row.state \in Waiting => sync[i].state \in Waiting
  PROVE  SyncFits'
<1>1. sync[i] \in SyncShape /\ RowFits(sync[i], retries[i], tasks[i]) /\ tasks[i] \in Nat
  BY DEF SyncInv, SyncsTyped, SyncFits
<1>2. RowFits(row, retries'[i], tasks[i])
  BY <1>1 DEF RowFits
<1> QED BY <1>2, RowFitsKeeps

(* Statements of people, and of the worker that looks after leases.           *)
LEMMA PeopleFit ==
  ASSUME SyncInv, SyncFits, NEW i \in Syncs,
         \/ CreateActionSync(i) \/ ApproveActionSync(i) \/ RejectActionSync(i)
         \/ RecoverActionSyncLease(i) \/ EscalateAmbiguous(i)
         \/ RetryCreate(i) \/ CancelActionSync(i) \/ AcceptExternal(i) \/ UnlinkTask(i)
  PROVE  SyncFits'
<1>1. /\ sync[i] \in SyncShape /\ sync[i].attempts \in Nat /\ retries[i] \in Nat
      /\ tasks[i] \in Nat /\ RowFits(sync[i], retries[i], tasks[i])
  BY DEF SyncInv, SyncsTyped, SyncFits, SyncShape
<1>2. UNCHANGED <<tasks, syncWorker>> /\ unmoved' \subseteq Deciders
  BY DEF SyncFits, CreateActionSync, ApproveActionSync, RejectActionSync,
         RecoverActionSyncLease, EscalateAmbiguous, RetryCreate, CancelActionSync,
         AcceptExternal, UnlinkTask, Move, WriteSync
<1>3. CASE CreateActionSync(i)
  <2>1. PICK row : row = [NoSync EXCEPT !.state = "pending_approval"]
    OBVIOUS
  <2>2. row \in SyncShape /\ row.attempts = 0 /\ row.task = 0
    BY <2>1 DEF NoSync, SyncShape, SyncState, Closed, Codes
  <2>3. RowFits(row, retries[i], tasks[i])
    BY <1>1, <2>2, ActionSyncAssumption DEF RowFits
  <2>4. sync' = [sync EXCEPT ![i] = row] /\ retries' = retries
    BY <1>3, <2>1 DEF CreateActionSync, WriteSync
  <2> QED BY <1>2, <2>2, <2>3, <2>4, RowFitsKeeps
<1>4. CASE RetryCreate(i)
  <2>1. PICK row : row = [sync[i] EXCEPT !.state = "queued", !.code = "none"]
    OBVIOUS
  <2>2. row \in SyncShape /\ row.attempts = sync[i].attempts /\ row.task = sync[i].task
    BY <1>1, <2>1 DEF SyncShape, SyncState, Codes
  <2>3. /\ sync' = [sync EXCEPT ![i] = row]
        /\ retries[i] < MaxRetries /\ retries' = [retries EXCEPT ![i] = @ + 1]
    BY <1>4, <2>1 DEF RetryCreate, WriteSync
  <2>4. retries'[i] = retries[i] + 1
    BY <2>3 DEF SyncInv, SyncsTyped
  <2>5. RowFits(row, retries'[i], tasks[i])
    BY <1>1, <2>2, <2>4, ActionSyncAssumption DEF RowFits
  <2> QED BY <1>2, <2>2, <2>3, <2>5, RowFitsKeeps
<1>5. ASSUME NEW row, sync' = [sync EXCEPT ![i] = row], retries' = retries, row \in SyncShape,
             row.attempts = sync[i].attempts, row.task \in {0, sync[i].task},
             row.state \in Waiting => sync[i].state \in Waiting
      PROVE  SyncFits'
  BY <1>2, <1>5, CalmRowFits
<1>6. CASE ApproveActionSync(i)
  <2>1. PICK row : row = [sync[i] EXCEPT !.state = "queued", !.code = "none", !.leased = FALSE]
    OBVIOUS
  <2>2. sync' = [sync EXCEPT ![i] = row] /\ retries' = retries
    BY <1>6, <2>1 DEF ApproveActionSync, Move, WriteSync
  <2>3. /\ row \in SyncShape /\ row.attempts = sync[i].attempts
        /\ row.task \in {0, sync[i].task}
    BY <1>1, <2>1 DEF SyncShape, SyncState, Closed, Codes
  <2>4. row.state \in Waiting => sync[i].state \in Waiting
    BY <1>1, <1>6, <2>1 DEF ApproveActionSync, In, Waiting, SyncShape
  <2> QED BY <1>5, <2>2, <2>3, <2>4
<1>7. CASE RejectActionSync(i)
  <2>1. PICK row : row = [sync[i] EXCEPT !.state = "rejected", !.code = "other", !.leased = FALSE]
    OBVIOUS
  <2>2. sync' = [sync EXCEPT ![i] = row] /\ retries' = retries
    BY <1>7, <2>1 DEF RejectActionSync, Move, WriteSync
  <2>3. /\ row \in SyncShape /\ row.attempts = sync[i].attempts
        /\ row.task \in {0, sync[i].task}
    BY <1>1, <2>1 DEF SyncShape, SyncState, Closed, Codes
  <2>4. row.state \in Waiting => sync[i].state \in Waiting
    BY <1>1, <1>7, <2>1 DEF RejectActionSync, In, Waiting, SyncShape
  <2> QED BY <1>5, <2>2, <2>3, <2>4
<1>8. CASE RecoverActionSyncLease(i)
  <2>1. PICK row : row = [sync[i] EXCEPT !.state = "reconciling", !.code = "doubtful", !.leased = FALSE]
    OBVIOUS
  <2>2. sync' = [sync EXCEPT ![i] = row] /\ retries' = retries
    BY <1>8, <2>1 DEF RecoverActionSyncLease, Move, AfterDoubt, WriteSync
  <2>3. /\ row \in SyncShape /\ row.attempts = sync[i].attempts
        /\ row.task \in {0, sync[i].task}
    BY <1>1, <2>1 DEF SyncShape, SyncState, Closed, Codes
  <2>4. row.state \in Waiting => sync[i].state \in Waiting
    BY <1>1, <1>8, <2>1 DEF RecoverActionSyncLease, In, Waiting, SyncShape
  <2> QED BY <1>5, <2>2, <2>3, <2>4
<1>9. CASE EscalateAmbiguous(i)
  <2>1. PICK row : row = [sync[i] EXCEPT !.state = "needs_review"]
    OBVIOUS
  <2>2. sync' = [sync EXCEPT ![i] = row] /\ retries' = retries
    BY <1>9, <2>1 DEF EscalateAmbiguous, WriteSync
  <2>3. /\ row \in SyncShape /\ row.attempts = sync[i].attempts
        /\ row.task \in {0, sync[i].task}
    BY <1>1, <2>1 DEF SyncShape, SyncState, Closed, Codes
  <2>4. row.state \in Waiting => sync[i].state \in Waiting
    BY <1>1, <1>9, <2>1 DEF EscalateAmbiguous, In, Waiting, SyncShape
  <2> QED BY <1>5, <2>2, <2>3, <2>4
<1>10. CASE CancelActionSync(i)
  <2>1. PICK row : row = [sync[i] EXCEPT !.state = "cancelled"]
    OBVIOUS
  <2>2. sync' = [sync EXCEPT ![i] = row] /\ retries' = retries
    BY <1>10, <2>1 DEF CancelActionSync, WriteSync
  <2>3. /\ row \in SyncShape /\ row.attempts = sync[i].attempts
        /\ row.task \in {0, sync[i].task}
    BY <1>1, <2>1 DEF SyncShape, SyncState, Closed, Codes
  <2>4. row.state \in Waiting => sync[i].state \in Waiting
    BY <1>1, <1>10, <2>1 DEF CancelActionSync, In, Waiting, SyncShape
  <2> QED BY <1>5, <2>2, <2>3, <2>4
<1>11. CASE AcceptExternal(i)
  <2>1. PICK row : row = [sync[i] EXCEPT !.review = FALSE, !.leased = FALSE, !.code = "none"]
    OBVIOUS
  <2>2. sync' = [sync EXCEPT ![i] = row] /\ retries' = retries
    BY <1>11, <2>1 DEF AcceptExternal, WriteSync
  <2>3. /\ row \in SyncShape /\ row.attempts = sync[i].attempts
        /\ row.task \in {0, sync[i].task}
    BY <1>1, <2>1 DEF SyncShape, SyncState, Closed, Codes
  <2>4. row.state \in Waiting => sync[i].state \in Waiting
    BY <1>1, <1>11, <2>1 DEF AcceptExternal, In, Waiting, SyncShape, Differs
  <2> QED BY <1>5, <2>2, <2>3, <2>4
<1>12. CASE UnlinkTask(i)
  <2>1. PICK row : row = [sync[i] EXCEPT !.state = "unlinked", !.task = 0, !.review = FALSE,
                                  !.leased = FALSE, !.code = "none"]
    OBVIOUS
  <2>2. sync' = [sync EXCEPT ![i] = row] /\ retries' = retries
    BY <1>12, <2>1 DEF UnlinkTask, WriteSync
  <2>3. /\ row \in SyncShape /\ row.attempts = sync[i].attempts
        /\ row.task \in {0, sync[i].task}
    BY <1>1, <2>1 DEF SyncShape, SyncState, Closed, Codes
  <2>4. row.state \in Waiting => sync[i].state \in Waiting
    BY <1>1, <1>12, <2>1 DEF UnlinkTask, In, Waiting, SyncShape, Differs
  <2> QED BY <1>5, <2>2, <2>3, <2>4
<1> QED BY <1>3, <1>4, <1>6, <1>7, <1>8, <1>9, <1>10, <1>11, <1>12

(* A request to the portal, before and after.                                 *)
LEMMA DecisionsFit ==
  ASSUME SyncInv, SyncFits, NEW d \in Deciders, DecisionStep(d) PROVE SyncFits'
<1>1. UNCHANGED <<tasks, retries, syncWorker>> /\ unmoved' \subseteq Deciders
  BY DEF SyncFits, DecisionStep, BeginDecision, ConfirmTask, RestoreTask,
         ReleaseResolutionLease, AbandonDecision, DecisionOver, WriteSync
<1>2. ASSUME NEW i \in Syncs
      PROVE  /\ sync[i] \in SyncShape /\ sync[i].attempts \in Nat /\ retries[i] \in Nat
             /\ tasks[i] \in Nat /\ RowFits(sync[i], retries[i], tasks[i])
  BY <1>2 DEF SyncInv, SyncsTyped, SyncFits, SyncShape
<1>3. ASSUME NEW i \in Syncs, NEW row, sync' = [sync EXCEPT ![i] = row],
             row \in SyncShape, row.attempts = sync[i].attempts, row.task = sync[i].task,
             row.state = sync[i].state
      PROVE  SyncFits'
  BY <1>1, <1>3, CalmRowFits
<1>4. decider[d].row \in Syncs
  BY DEF SyncInv, SyncsTyped, Errands
<1>5. ASSUME NEW i \in Syncs, sync' = sync PROVE SyncFits'
  <2>1. sync' = [sync EXCEPT ![i] = sync[i]]
    BY <1>5 DEF SyncInv, SyncsTyped
  <2> QED BY <1>2, <1>3, <2>1
<1>6. ASSUME NEW i \in Syncs, BeginDecision(d, i) PROVE SyncFits'
  <2>1. PICK row : row = [sync[i] EXCEPT !.leased = TRUE]
    OBVIOUS
  <2>2. /\ row \in SyncShape /\ row.attempts = sync[i].attempts /\ row.task = sync[i].task
        /\ row.state = sync[i].state
    BY <1>2, <2>1 DEF SyncShape
  <2>3. sync' = [sync EXCEPT ![i] = row]
    BY <1>6, <2>1 DEF BeginDecision, SyncInv, SyncsTyped
  <2> QED BY <1>3, <2>2, <2>3
<1>7. CASE ConfirmTask(d)
  <2> DEFINE i == decider[d].row
  <2>1. PICK t \in 1 .. tasks[i] :
          \/ sync' = sync
          \/ sync' = [sync EXCEPT ![i] = [sync[i] EXCEPT
               !.state = "synced", !.task = t, !.leased = FALSE, !.code = "none"]]
    BY <1>7 DEF ConfirmTask, WriteSync
  <2>2. PICK row : row = [sync[i] EXCEPT
          !.state = "synced", !.task = t, !.leased = FALSE, !.code = "none"]
    OBVIOUS
  <2>3. row \in SyncShape /\ row.attempts = sync[i].attempts /\ row.task = t
        /\ row.state = "synced"
    <3>1. sync[i] \in SyncShape /\ t \in Nat
      BY <1>2, <1>4
    <3> HIDE DEF i
    <3> QED BY <2>2, <3>1 DEF SyncShape, SyncState, Codes
  <2>4. RowFits(row, retries'[i], tasks[i])
    BY <1>1, <1>2, <1>4, <2>3 DEF RowFits, Waiting
  <2>5. CASE sync' # sync
    <3>1. sync' = [sync EXCEPT ![i] = row]
      BY <2>1, <2>2, <2>5
    <3> QED BY <1>1, <1>4, <2>3, <2>4, <3>1, RowFitsKeeps
  <2> QED BY <1>4, <1>5, <2>5
<1>8. CASE RestoreTask(d)
  <2> DEFINE i == decider[d].row
  <2>1. PICK row : row = [sync[i] EXCEPT !.review = FALSE, !.leased = FALSE, !.code = "none"]
    OBVIOUS
  <2>2. /\ row \in SyncShape /\ row.attempts = sync[i].attempts /\ row.task = sync[i].task
        /\ row.state = sync[i].state
    BY <1>2, <1>4, <2>1 DEF SyncShape, Codes
  <2>3. sync' = sync \/ sync' = [sync EXCEPT ![i] = row]
    BY <1>8, <2>1 DEF RestoreTask, WriteSync
  <2> QED BY <1>3, <1>4, <1>5, <2>2, <2>3
<1>9. CASE ReleaseResolutionLease(d)
  <2> DEFINE i == decider[d].row
  <2>1. PICK row : row = [sync[i] EXCEPT !.leased = FALSE, !.code = "other"]
    OBVIOUS
  <2>2. /\ row \in SyncShape /\ row.attempts = sync[i].attempts /\ row.task = sync[i].task
        /\ row.state = sync[i].state
    BY <1>2, <1>4, <2>1 DEF SyncShape, Codes
  <2>3. sync' = [sync EXCEPT ![i] = row]
    BY <1>9, <2>1 DEF ReleaseResolutionLease, WriteSync
  <2> QED BY <1>3, <1>4, <2>2, <2>3
<1>10. CASE AbandonDecision(d)
  BY <1>4, <1>5, <1>10 DEF AbandonDecision
<1> QED BY <1>6, <1>7, <1>8, <1>9, <1>10 DEF DecisionStep

(* What a worker takes up or lays down names no task.                         *)
LEMMA HandsFit ==
  ASSUME SyncInv, NEW w \in SyncWorkers, NEW i \in Syncs,
         NEW pc \in {"prepare", "create", "compare"}, HandsFree(w) \/ Hands(w, pc, i)
  PROVE  \A v \in SyncWorkers : \/ syncWorker'[v] = syncWorker[v]
                                \/ syncWorker'[v].task = 0 /\ syncWorker'[v].row \in Syncs
<1>1. PICK e : syncWorker' = [syncWorker EXCEPT ![w] = e] /\ e.task = 0 /\ e.row \in Syncs
  <2>1. 1 \in Syncs /\ NoWork.task = 0 /\ NoWork.row = 1
    BY ActionSyncAssumption DEF Syncs, NoWork
  <2>2. ASSUME NEW e, e = [NoWork EXCEPT !.pc = pc, !.row = i]
        PROVE  e.task = 0 /\ e.row = i
    BY <2>2 DEF NoWork
  <2>3. CASE HandsFree(w)
    BY <2>1, <2>3 DEF HandsFree
  <2>4. ASSUME Hands(w, pc, i)
        PROVE  \E e : syncWorker' = [syncWorker EXCEPT ![w] = e] /\ e.task = 0 /\ e.row \in Syncs
    <3>1. PICK e : e = [NoWork EXCEPT !.pc = pc, !.row = i]
      OBVIOUS
    <3>2. syncWorker' = [syncWorker EXCEPT ![w] = e]
      BY <2>4, <3>1 DEF Hands
    <3> QED BY <2>2, <3>1, <3>2
  <2> QED BY <2>3, <2>4
<1> QED BY <1>1 DEF SyncInv, SyncsTyped

LEMMA WorkersFit ==
  ASSUME SyncInv, SyncFits, NEW w \in SyncWorkers, SyncWorkerStep(w) PROVE SyncFits'
<1> DEFINE Idles == \A v \in SyncWorkers :
                      \/ syncWorker'[v] = syncWorker[v]
                      \/ syncWorker'[v].task = 0 /\ syncWorker'[v].row \in Syncs
<1>1. ASSUME NEW i \in Syncs
      PROVE  /\ sync[i] \in SyncShape /\ sync[i].attempts \in Nat /\ retries[i] \in Nat
             /\ tasks[i] \in Nat /\ RowFits(sync[i], retries[i], tasks[i])
  BY <1>1 DEF SyncInv, SyncsTyped, SyncFits, SyncShape
<1>2. retries' = retries /\ unmoved' \subseteq Deciders
  <2>1. ASSUME NEW i \in Syncs, NEW state, NEW code, Move(i, state, code)
        PROVE  unmoved' \subseteq Deciders
    BY <2>1 DEF Move, WriteSync, SyncFits
  <2>2. ASSUME NEW i \in Syncs, NEW row, WriteSync(i, row) PROVE unmoved' \subseteq Deciders
    BY <2>2 DEF WriteSync, SyncFits
  <2>3. ASSUME WriteNothing PROVE unmoved' \subseteq Deciders
    BY <2>3 DEF WriteNothing, SyncFits
  <2>4. syncWorker[w].row \in Syncs /\ syncWorker[w].answer \in Answers
    BY DEF SyncInv, SyncsTyped, WorkShape
  <2>5. CASE \E i \in Syncs : ClaimActionSync(w, i) \/ TakeComparison(w, i)
    BY <2>2, <2>3, <2>5 DEF ClaimActionSync, TakeComparison
  <2>6. CASE PrepareActionSync(w) \/ CreateTask(w) \/ LoseSyncWorker(w)
    BY <2>1, <2>3, <2>4, <2>6 DEF PrepareActionSync, CreateTask, LoseSyncWorker
  <2>7. CASE SaveOutcome(w)
    BY <2>1, <2>2, <2>3, <2>4, <2>7
       DEF SaveOutcome, SyncInv, SyncsTyped, WorkShape, Answers
  <2>8. CASE SaveComparison(w)
    BY <2>2, <2>3, <2>4, <2>8 DEF SaveComparison
  <2> QED BY <2>5, <2>6, <2>7, <2>8 DEF SyncWorkerStep
<1>3. syncWorker[w].row \in Syncs /\ syncWorker[w].task \in Nat
      /\ syncWorker[w].task <= tasks[syncWorker[w].row]
  BY DEF SyncInv, SyncsTyped, WorkShape, SyncFits
<1>4. ASSUME NEW i \in Syncs, sync' = sync, tasks' = tasks, Idles PROVE SyncFits'
  <2>1. sync' = [sync EXCEPT ![i] = sync[i]]
    BY <1>4 DEF SyncInv, SyncsTyped
  <2> QED BY <1>1, <1>2, <1>4, <2>1, CalmRowFits
<1>5. ASSUME NEW i \in Syncs, ClaimActionSync(w, i) PROVE SyncFits'
  <2>1. PICK row : row = [sync[i] EXCEPT !.state = "sending", !.leased = TRUE, !.attempts = @ + 1]
    OBVIOUS
  <2>2. /\ row \in SyncShape /\ row.attempts = sync[i].attempts + 1 /\ row.task = sync[i].task
        /\ row.state = "sending"
    <3>1. sync[i].attempts + 1 \in Nat
      BY <1>1
    <3> QED BY <1>1, <2>1, <3>1 DEF SyncShape, SyncState
  <2>3. sync[i].state \in Waiting /\ sync' = [sync EXCEPT ![i] = row] /\ tasks' = tasks
    BY <1>5, <2>1 DEF ClaimActionSync, In, WriteSync, Waiting
  <2>4. RowFits(row, retries'[i], tasks[i])
    BY <1>1, <1>2, <2>2, <2>3, ActionSyncAssumption DEF RowFits, Waiting
  <2>5. Idles
    <3>1. Hands(w, "prepare", i)
      BY <1>5 DEF ClaimActionSync
    <3> QED BY <3>1, HandsFit
  <2> QED BY <1>2, <2>2, <2>3, <2>4, <2>5, RowFitsKeeps
<1>6. ASSUME NEW i \in Syncs, TakeComparison(w, i) PROVE SyncFits'
  <2>1. sync' = sync /\ tasks' = tasks /\ Hands(w, "compare", i)
    BY <1>6 DEF TakeComparison, WriteNothing
  <2> QED BY <1>4, <2>1, HandsFit
<1>7. CASE LoseSyncWorker(w)
  <2>1. sync' = sync /\ tasks' = tasks /\ HandsFree(w)
    BY <1>7 DEF LoseSyncWorker, WriteNothing
  <2> QED BY <1>3, <1>4, <2>1, HandsFit
<1>8. CASE PrepareActionSync(w)
  <2> DEFINE i == syncWorker[w].row
  <2>1. tasks' = tasks /\ (HandsFree(w) \/ Hands(w, "create", i))
    BY <1>8 DEF PrepareActionSync
  <2>2. Idles
    BY <1>3, <2>1, HandsFit
  <2>3. \/ sync' = sync
        \/ \E next \in {"needs_review", Rescheduled(i)} : Move(i, next, "other")
    BY <1>8 DEF PrepareActionSync, WriteNothing
  <2>4. ASSUME NEW next \in {"needs_review", Rescheduled(i)}, Move(i, next, "other")
        PROVE  SyncFits'
    <3>1. PICK row : row = [sync[i] EXCEPT !.state = next, !.code = "other", !.leased = FALSE]
      OBVIOUS
    <3>2. next \in {"needs_review", "queued", "failed"}
          /\ (next = "queued" => sync[i].attempts < MaxCreates)
      BY <2>4 DEF Rescheduled
    <3>3. /\ row \in SyncShape /\ row.attempts = sync[i].attempts /\ row.task = sync[i].task
          /\ row.state = next
      BY <1>1, <1>3, <3>1, <3>2 DEF SyncShape, SyncState, Codes
    <3>4. RowFits(row, retries'[i], tasks[i])
      BY <1>1, <1>2, <1>3, <3>2, <3>3, ActionSyncAssumption DEF RowFits, Waiting
    <3>5. sync' = [sync EXCEPT ![i] = row]
      BY <2>4, <3>1 DEF Move, WriteSync
    <3> QED BY <1>2, <1>3, <2>1, <2>2, <3>3, <3>4, <3>5, RowFitsKeeps
  <2> QED BY <1>3, <1>4, <2>1, <2>2, <2>3, <2>4
<1>9. CASE CreateTask(w)
  <2> DEFINE i == syncWorker[w].row
  <2>1. sync' = sync
    BY <1>9 DEF CreateTask, WriteNothing
  <2>2. tasks[i] \in Nat /\ (tasks' = tasks \/ tasks' = [tasks EXCEPT ![i] = @ + 1])
    BY <1>1, <1>3, <1>9 DEF CreateTask
  <2>3. \A j \in Syncs : tasks'[j] \in Nat /\ tasks[j] <= tasks'[j]
    BY <1>1, <2>2 DEF SyncInv, SyncsTyped
  <2>4. PICK answer, t : Heard(w, answer, t) /\ t \in Nat /\ t <= tasks'[i]
    <3>1. CASE tasks' = [tasks EXCEPT ![i] = @ + 1]
      <4>1. tasks'[i] = tasks[i] + 1
        BY <1>3, <3>1 DEF SyncInv, SyncsTyped
      <4>2. PICK answer, t : Heard(w, answer, t) /\ t \in {0, tasks[i] + 1}
        BY <1>9 DEF CreateTask
      <4> QED BY <2>2, <4>1, <4>2
    <3>2. CASE tasks' = tasks
      <4>1. tasks # [tasks EXCEPT ![i] = @ + 1]
        BY <1>3, <2>2 DEF SyncInv, SyncsTyped
      <4>2. PICK answer : Heard(w, answer, 0)
        BY <1>9, <3>2, <4>1 DEF CreateTask
      <4> QED BY <2>2, <3>2, <4>2
    <3> QED BY <2>2, <3>1, <3>2
  <2>5. /\ syncWorker'[w].task = t /\ syncWorker'[w].row = i
        /\ \A v \in SyncWorkers : v # w => syncWorker'[v] = syncWorker[v]
    <3>1. syncWorker \in [SyncWorkers -> WorkShape]
      BY DEF SyncInv, SyncsTyped
    <3>2. PICK e : e = [syncWorker[w] EXCEPT !.pc = "save", !.answer = answer, !.task = t]
      OBVIOUS
    <3>3. e.task = t /\ e.row = i
      BY <3>1, <3>2 DEF WorkShape
    <3>4. syncWorker' = [syncWorker EXCEPT ![w] = e]
      BY <2>4, <3>1, <3>2 DEF Heard
    <3> QED BY <3>1, <3>3, <3>4
  <2>6. ASSUME NEW v \in SyncWorkers PROVE syncWorker'[v].task <= tasks'[syncWorker'[v].row]
    <3>1. CASE v = w
      BY <2>4, <2>5, <3>1
    <3>2. CASE v # w
      <4>1. /\ syncWorker'[v] = syncWorker[v] /\ syncWorker[v].row \in Syncs
            /\ syncWorker[v].task \in Nat /\ syncWorker[v].task <= tasks[syncWorker[v].row]
        BY <2>5, <3>2 DEF SyncInv, SyncsTyped, WorkShape, SyncFits
      <4> QED BY <1>1, <2>3, <4>1
    <3> QED BY <3>1, <3>2
  <2>7. ASSUME NEW j \in Syncs
        PROVE  retries'[j] <= MaxRetries /\ RowFits(sync'[j], retries'[j], tasks'[j])
    <3>1. sync[j].task \in Nat /\ tasks[j] <= tasks'[j] /\ tasks'[j] \in Nat
      BY <1>1, <2>3 DEF SyncShape
    <3> QED BY <1>1, <1>2, <2>1, <3>1 DEF RowFits, SyncFits
  <2> QED BY <1>2, <2>6, <2>7 DEF SyncFits
<1>10. CASE SaveOutcome(w)
  <2> DEFINE i == syncWorker[w].row
  <2>1. tasks' = tasks /\ HandsFree(w)
    BY <1>10 DEF SaveOutcome
  <2>2. Idles
    BY <1>3, <2>1, HandsFit
  <2>3. \/ sync' = sync
        \/ \E state \in {"reconciling", "failed", "synced"}, code \in Codes,
              t \in {sync[i].task, syncWorker[w].task} :
             sync' = [sync EXCEPT ![i] = [sync[i] EXCEPT
               !.state = state, !.code = code, !.leased = FALSE, !.task = t]]
    <3>1. syncWorker[w].answer \in {"doubtful", "refused", "task"}
      BY <1>10 DEF SaveOutcome, SyncInv, SyncsTyped, WorkShape, Answers
    <3>2. sync[i] \in SyncShape
      BY <1>1, <1>3
    <3>3. \/ sync' = sync
          \/ sync' = [sync EXCEPT ![i] = [sync[i] EXCEPT
               !.state = "reconciling", !.code = "doubtful", !.leased = FALSE]]
          \/ sync' = [sync EXCEPT ![i] = [sync[i] EXCEPT
               !.state = "failed", !.code = "other", !.leased = FALSE]]
          \/ sync' = [sync EXCEPT ![i] = [sync[i] EXCEPT
               !.state = "synced", !.task = syncWorker[w].task, !.leased = FALSE,
               !.code = "none"]]
      BY <1>10, <3>1 DEF SaveOutcome, Move, WriteSync, WriteNothing, AfterDoubt
    <3>4. /\ [sync[i] EXCEPT !.state = "reconciling", !.code = "doubtful", !.leased = FALSE]
             = [sync[i] EXCEPT !.state = "reconciling", !.code = "doubtful", !.leased = FALSE,
                               !.task = sync[i].task]
          /\ [sync[i] EXCEPT !.state = "failed", !.code = "other", !.leased = FALSE]
             = [sync[i] EXCEPT !.state = "failed", !.code = "other", !.leased = FALSE,
                               !.task = sync[i].task]
      BY <3>2 DEF SyncShape
    <3>5. [sync[i] EXCEPT !.state = "synced", !.task = syncWorker[w].task, !.leased = FALSE,
                          !.code = "none"]
          = [sync[i] EXCEPT !.state = "synced", !.code = "none", !.leased = FALSE,
                            !.task = syncWorker[w].task]
      BY <3>2 DEF SyncShape
    <3>6. CASE sync' = [sync EXCEPT ![i] = [sync[i] EXCEPT
                 !.state = "reconciling", !.code = "doubtful", !.leased = FALSE]]
      BY <3>4, <3>6 DEF Codes
    <3>7. CASE sync' = [sync EXCEPT ![i] = [sync[i] EXCEPT
                 !.state = "failed", !.code = "other", !.leased = FALSE]]
      BY <3>4, <3>7 DEF Codes
    <3>8. CASE sync' = [sync EXCEPT ![i] = [sync[i] EXCEPT
                 !.state = "synced", !.task = syncWorker[w].task, !.leased = FALSE,
                 !.code = "none"]]
      BY <3>5, <3>8 DEF Codes
    <3> QED BY <3>3, <3>6, <3>7, <3>8
  <2>4. ASSUME NEW state \in {"reconciling", "failed", "synced"}, NEW code \in Codes,
               NEW t \in {sync[i].task, syncWorker[w].task},
               sync' = [sync EXCEPT ![i] = [sync[i] EXCEPT
                 !.state = state, !.code = code, !.leased = FALSE, !.task = t]]
        PROVE  SyncFits'
    <3>1. PICK row : row = [sync[i] EXCEPT
                       !.state = state, !.code = code, !.leased = FALSE, !.task = t]
      OBVIOUS
    <3>2. t \in Nat /\ t <= tasks[i]
      BY <1>1, <1>3 DEF RowFits, SyncShape
    <3>3. /\ row \in SyncShape /\ row.attempts = sync[i].attempts /\ row.task = t
          /\ row.state = state
      BY <1>1, <1>3, <3>1, <3>2 DEF SyncShape, SyncState
    <3>4. RowFits(row, retries'[i], tasks[i])
      BY <1>1, <1>2, <1>3, <3>2, <3>3 DEF RowFits, Waiting
    <3> QED BY <1>2, <1>3, <2>1, <2>2, <2>4, <3>1, <3>3, <3>4, RowFitsKeeps
  <2> QED BY <1>3, <1>4, <2>1, <2>2, <2>3, <2>4
<1>11. CASE SaveComparison(w)
  <2> DEFINE i == syncWorker[w].row
  <2>1. tasks' = tasks /\ HandsFree(w)
    BY <1>11 DEF SaveComparison
  <2>2. Idles
    BY <1>3, <2>1, HandsFit
  <2>3. PICK differs \in BOOLEAN :
          \/ sync' = sync
          \/ sync' = [sync EXCEPT ![i] = [sync[i] EXCEPT !.review = differs, !.leased = FALSE]]
    BY <1>11 DEF SaveComparison, WriteSync, WriteNothing
  <2>4. PICK row : row = [sync[i] EXCEPT !.review = differs, !.leased = FALSE]
    OBVIOUS
  <2>5. /\ row \in SyncShape /\ row.attempts = sync[i].attempts /\ row.task = sync[i].task
        /\ row.state = sync[i].state
    BY <1>1, <1>3, <2>4 DEF SyncShape
  <2> QED BY <1>2, <1>3, <1>4, <2>1, <2>2, <2>3, <2>4, <2>5, CalmRowFits
<1> QED BY <1>5, <1>6, <1>7, <1>8, <1>9, <1>10, <1>11 DEF SyncWorkerStep

LEMMA FitsStep ==
  ASSUME SyncInv, SyncFits, [ActionSyncNext]_syncVars PROVE SyncFits'
<1>1. CASE UNCHANGED syncVars
  BY <1>1 DEF syncVars, SyncFits, RowFits
<1> QED BY <1>1, PeopleFit, DecisionsFit, WorkersFit DEF ActionSyncNext

(* The rows of tasks keep their columns, and attempts and tasks stay within   *)
(* what the limit of attempts and the decisions allow, for any rows,          *)
(* replicas and people (action_sync.go:325-344).                              *)
THEOREM TasksAreTyped == ActionSyncSpec => []ActionSyncTypeOK
<1>1. ActionSyncInit => SyncInv /\ SyncFits
  <2>1. ActionSyncInit => SyncFits
    BY ActionSyncAssumption DEF ActionSyncInit, SyncFits, RowFits, NoSync, NoWork, Syncs
  <2> QED BY <2>1, SyncBegins
<1>2. SyncInv /\ SyncFits /\ [ActionSyncNext]_syncVars => SyncInv' /\ SyncFits'
  BY SyncStep, FitsStep
<1>3. ASSUME SyncInv, SyncFits PROVE ActionSyncTypeOK
  <2>1. ASSUME NEW i \in Syncs
        PROVE  retries[i] \in 0 .. MaxRetries /\ tasks[i] \in TaskNumber
               /\ sync[i] \in SyncRow
    <3>1. /\ sync[i] \in SyncShape /\ sync[i].attempts \in Nat /\ sync[i].task \in Nat
          /\ retries[i] \in Nat /\ tasks[i] \in Nat
          /\ retries[i] <= MaxRetries /\ RowFits(sync[i], retries[i], tasks[i])
      BY <1>3 DEF SyncInv, SyncsTyped, SyncFits, SyncShape
    <3>2. tasks[i] <= 1 + retries[i]
      <4>1. tasks[i] + Cardinality(Creators(i)) + Left(i) <= 1 + retries[i]
        BY <1>3 DEF SyncInv, CreationsPaid
      <4>2. Cardinality(Creators(i)) \in Nat /\ Left(i) \in Nat
        BY CreatorsFinite DEF Left
      <4> QED BY <3>1, <4>1, <4>2
    <3>3. tasks[i] \in TaskNumber /\ sync[i].attempts \in TaskNumber /\ sync[i].task \in TaskNumber
      BY <3>1, <3>2, ActionSyncAssumption DEF RowFits, TaskNumber
    <3> QED BY <3>1, <3>3, ActionSyncAssumption DEF SyncShape, SyncRow
  <2>2. ASSUME NEW w \in SyncWorkers
        PROVE  /\ syncWorker[w].pc \in {"idle", "prepare", "create", "save", "compare"}
               /\ syncWorker[w].row \in Syncs /\ syncWorker[w].answer \in Answers
               /\ syncWorker[w].task \in TaskNumber
    <3>1. /\ syncWorker[w] \in WorkShape /\ syncWorker[w].row \in Syncs
          /\ syncWorker[w].task \in Nat /\ syncWorker[w].task <= tasks[syncWorker[w].row]
      BY <1>3 DEF SyncInv, SyncsTyped, WorkShape, SyncFits
    <3>2. syncWorker[w].task \in TaskNumber
      BY <2>1, <3>1, ActionSyncAssumption DEF TaskNumber
    <3> QED BY <3>1, <3>2 DEF WorkShape
  <2>3. sync \in [Syncs -> SyncRow] /\ retries \in [Syncs -> 0 .. MaxRetries]
        /\ tasks \in [Syncs -> TaskNumber]
    BY <1>3, <2>1 DEF SyncInv, SyncsTyped
  <2> QED BY <1>3, <2>2, <2>3 DEF SyncInv, SyncsTyped, SyncFits, Errands, ActionSyncTypeOK
<1> QED BY <1>1, <1>2, <1>3, PTL DEF ActionSyncSpec
=============================================================================
