------------------------------ MODULE Delivery ------------------------------
(***************************************************************************)
(* What people are told: service/delivery.  An alert or a digest is marked *)
(* once, and in the same transaction rings the bell and queues a letter,   *)
(* each only if the person wants that channel; a letter with a link of a   *)
(* password reset is queued by itself.  Workers, one per replica, claim a  *)
(* batch of letters under one lease, send them one after the other and     *)
(* write down how each of them ended.                                      *)
(***************************************************************************)
EXTENDS Naturals, FiniteSets

CONSTANTS
  Alerts,          \* alerts and digests, by their mark
  Secrets,         \* letters that carry a link, by their key
  Senders,         \* workers, one per replica
  BatchSize,       \* letters of a batch (50 in the code)
  MaxSends,        \* attempts before a letter is given up (5)
  MaxDelays        \* replicas that die, updates lost, leases outlived (bound)

ASSUME DeliveryAssumption ==
  /\ Alerts \cap Secrets = {}
  /\ BatchSize \in Nat \ {0} /\ MaxSends \in Nat \ {0} /\ MaxDelays \in Nat

Letters == Alerts \cup Secrets

VARIABLES
  marks,           \* delivery_marks
  bell,            \* notifications written, per alert
  letter,          \* outbound_messages
  posted,          \* how often each letter was given to the channel
  frozen,          \* the company of the alerts is frozen
  sender,          \* the letters each worker has claimed and not finished
  delays

deliveryVars == <<marks, bell, letter, posted, frozen, sender, delays>>

LetterStatus == {"absent", "pending", "sending", "failed", "sent", "dead"}
Settled(l) == letter[l].status \in {"sent", "dead"}
Outcome == {"claimed", "stopped", "sent", "refused"}
MaxCount == MaxSends + MaxDelays

DeliveryTypeOK ==
  /\ marks \subseteq Alerts
  /\ bell \in [Alerts -> Nat]
  /\ letter \in [Letters -> [status : LetterStatus, attempts : 0 .. MaxCount,
                             leased : BOOLEAN, due : BOOLEAN, whole : BOOLEAN]]
  /\ posted \in [Letters -> Nat]
  /\ frozen \in BOOLEAN
  /\ \A s \in Senders : sender[s] \subseteq
       [letter : Letters, attempt : 1 .. MaxCount, outcome : Outcome]
  /\ delays \in 0 .. MaxDelays

DeliveryInit ==
  /\ marks = {} /\ bell = [a \in Alerts |-> 0]
  /\ letter = [l \in Letters |-> [status |-> "absent", attempts |-> 0, leased |-> FALSE,
                                  due |-> FALSE, whole |-> TRUE]]
  /\ posted = [l \in Letters |-> 0]
  /\ frozen = FALSE
  /\ sender = [s \in Senders |-> {}]
  /\ delays = MaxDelays

-----------------------------------------------------------------------------
(* Enqueue: once per key. *)
Enqueue(l) ==
  letter' = IF letter[l].status # "absent" THEN letter
            ELSE [letter EXCEPT ![l].status = "pending", ![l].due = TRUE]

(* Mutant of NewMark: the mark is written and not asked for. *)
NewMarkAlways(a) == TRUE

(* The first INSERT of a mark counts, a repeated one changes no row. *)
NewMark(a) == a \notin marks

(* enabledChannels: what the person wants now.  The bell is on unless it is  *)
(* switched off; mail and Telegram need a subscription and a confirmed       *)
(* address, and count as one channel outside the app.                        *)
EnabledChannels == SUBSET {"in_app", "outside"}

(* Deliver: the analysis of a call may be repeated, a digest run as well,    *)
(* and the person may have changed the channels in between.                  *)
Deliver(a) ==
  /\ NewMark(a)
  /\ marks' = marks \cup {a}
  /\ \E channels \in EnabledChannels :
       /\ bell' = IF "in_app" \in channels THEN [bell EXCEPT ![a] = @ + 1] ELSE bell
       /\ IF "outside" \in channels THEN Enqueue(a) ELSE UNCHANGED letter
  /\ UNCHANGED <<posted, frozen, sender, delays>>

(* A reset of a password or an invitation queues its letter. *)
WriteSecretLetter(l) ==
  /\ letter[l].status = "absent"
  /\ Enqueue(l)
  /\ UNCHANGED <<marks, bell, posted, frozen, sender, delays>>

-----------------------------------------------------------------------------
(* The workers *)

(* Mutant of Due: what is being sent is somebody's. *)
DueUnclaimed(l) == letter[l].status \in {"pending", "failed"} /\ letter[l].due

Due(l) ==
  \/ letter[l].status \in {"pending", "failed"} /\ letter[l].due
  \/ letter[l].status = "sending" /\ ~letter[l].leased

(* RunOnce, its UPDATE: the oldest that are due, whether the company is      *)
(* frozen now, and another attempt for each of them.                         *)
ClaimBatch(s) ==
  /\ sender[s] = {}
  /\ \E batch \in SUBSET {l \in Letters : Due(l)} :
       /\ batch # {} /\ Cardinality(batch) <= BatchSize
       /\ Cardinality(batch) = BatchSize \/ batch = {l \in Letters : Due(l)}
       /\ \A l \in batch : letter[l].attempts < MaxCount
       /\ letter' = [l \in Letters |-> IF l \notin batch THEN letter[l] ELSE
            [letter[l] EXCEPT !.status = "sending", !.attempts = @ + 1, !.leased = TRUE]]
       /\ sender' = [sender EXCEPT ![s] =
            {[letter |-> l, attempt |-> letter[l].attempts + 1,
              outcome |-> IF frozen /\ l \in Alerts THEN "stopped" ELSE "claimed"] : l \in batch}]
  /\ UNCHANGED <<marks, bell, posted, frozen, delays>>

(* One letter at a time: the one before is finished. *)
Send(s) ==
  /\ \A c \in sender[s] : c.outcome \in {"claimed", "stopped"}
  /\ \E c \in sender[s] :
       /\ c.outcome = "claimed"
       /\ \E outcome \in {"sent", "refused"} :
            sender' = [sender EXCEPT ![s] = (@ \ {c}) \cup {[c EXCEPT !.outcome = outcome]}]
       /\ posted' = [posted EXCEPT ![c.letter] = @ + 1]
  /\ UNCHANGED <<marks, bell, letter, frozen, delays>>

(* Mutant of GivenUp: a letter is retried as often as it fails. *)
GivenUpNever(c) == c.outcome = "stopped"

GivenUp(c) == c.outcome = "stopped" \/ c.attempt >= MaxSends

(* Mutant of Ended: the outcome itself is the status. *)
EndedAs(c) == c.outcome

(* The status finish writes. *)
Ended(c) ==
  CASE c.outcome = "sent"                  -> "sent"
    [] c.outcome # "sent" /\ GivenUp(c)    -> "dead"
    [] OTHER                               -> "failed"

(* finish: by the key alone.  What is settled keeps no secret. *)
Finish(s) ==
  /\ \E c \in sender[s] :
       /\ c.outcome # "claimed"
       /\ letter' = [letter EXCEPT ![c.letter] =
            [status |-> Ended(c), attempts |-> letter[c.letter].attempts, leased |-> FALSE,
             due |-> Ended(c) # "failed",
             whole |-> letter[c.letter].whole /\ (Ended(c) = "failed" \/ c.letter \in Alerts)]]
       /\ sender' = [sender EXCEPT ![s] = @ \ {c}]
  /\ UNCHANGED <<marks, bell, posted, frozen, delays>>

(* The delay of a failed letter passes. *)
BackoffEnds(l) ==
  /\ letter[l].status = "failed" /\ ~letter[l].due
  /\ letter' = [letter EXCEPT ![l].due = TRUE]
  /\ UNCHANGED <<marks, bell, posted, frozen, sender, delays>>

Held(l) == \E s \in Senders : \E c \in sender[s] : c.letter = l

(* The lease of a batch whose worker is gone ends by itself; one that lives  *)
(* may outlive it.                                                           *)
LeaseEnds(l) ==
  /\ letter[l].status = "sending" /\ letter[l].leased
  /\ IF Held(l) THEN delays > 0 /\ delays' = delays - 1 ELSE UNCHANGED delays
  /\ letter' = [letter EXCEPT ![l].leased = FALSE]
  /\ UNCHANGED <<marks, bell, posted, frozen, sender>>

LoseSender(s) ==
  /\ sender[s] # {}
  /\ delays > 0 /\ delays' = delays - 1
  /\ sender' = [sender EXCEPT ![s] = {}]
  /\ UNCHANGED <<marks, bell, letter, posted, frozen>>

(* finish only logs that its update failed: the letter waits for the lease. *)
FinishFails(s) ==
  /\ \E c \in sender[s] : c.outcome # "claimed" /\ sender' = [sender EXCEPT ![s] = @ \ {c}]
  /\ delays > 0 /\ delays' = delays - 1
  /\ UNCHANGED <<marks, bell, letter, posted, frozen>>

Freeze ==
  /\ frozen' = ~frozen
  /\ UNCHANGED <<marks, bell, letter, posted, sender, delays>>

-----------------------------------------------------------------------------
SenderStep(s) == ClaimBatch(s) \/ Send(s) \/ Finish(s)

DeliveryNext ==
  \/ \E a \in Alerts : Deliver(a)
  \/ \E l \in Secrets : WriteSecretLetter(l)
  \/ \E s \in Senders : SenderStep(s) \/ FinishFails(s) \/ LoseSender(s)
  \/ \E l \in Letters : BackoffEnds(l) \/ LeaseEnds(l)
  \/ Freeze

(* Every replica ticks, and clocks go on. *)
DeliveryFairness ==
  /\ \A s \in Senders : WF_deliveryVars(SenderStep(s))
  /\ \A l \in Letters : WF_deliveryVars(BackoffEnds(l) \/ LeaseEnds(l))

DeliverySpec == DeliveryInit /\ [][DeliveryNext]_deliveryVars /\ DeliveryFairness

-----------------------------------------------------------------------------
(* Properties *)

(* However often the analysis of a call is repeated or a digest run again,   *)
(* a person is told once, in the channels wanted at that time: what was      *)
(* marked never rings again and never gets a letter it did not get then,     *)
(* whatever channels were switched on since (service.go:77-81).              *)
ToldOnce ==
  [][\A a \in Alerts :
       \/ bell'[a] = bell[a] /\ (letter[a].status = "absent" => letter'[a].status = "absent")
       \/ a \notin marks /\ a \in marks' /\ bell'[a] <= 1]_deliveryVars

(* Retries are bounded: only workers that die or outlive their lease push a   *)
(* letter past its five attempts, one attempt each, and never more requests  *)
(* to the channel than attempts (sender.go:88-89).                           *)
SendsBounded ==
  \A l \in Letters : /\ posted[l] <= letter[l].attempts
                     /\ letter[l].attempts <= MaxSends + (MaxDelays - delays)

(* A letter that is queued is sent or given up: lost workers, leases that    *)
(* end, refusals and frozen companies never leave one in the queue for ever  *)
(* (sender.go:88-89).                                                        *)
LetterSettles == \A l \in Letters : letter[l].status # "absent" ~> Settled(l)
=============================================================================
