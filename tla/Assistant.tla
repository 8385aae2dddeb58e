----------------------------- MODULE Assistant -----------------------------
(***************************************************************************)
(* A conversation with the assistant: internal/assistant/service.go.  A    *)
(* question is stored with a run; the recovery worker of every process     *)
(* takes queued runs, and those that are still active two minutes after    *)
(* the question, searches, pays for an answer and stores it with the end   *)
(* of the run.                                                             *)
(*                                                                         *)
(* A claim names no owner and has no lease: a second process takes an old  *)
(* run from the first.  AnswersInTurn is about one process, as             *)
(* deploy/docker-compose.yaml starts one, which may die and be restarted   *)
(* anywhere.  The operations of the ledger are as the ledger leaves them   *)
(* (CreditLedger); what is found and said is left out.                     *)
(***************************************************************************)
EXTENDS Naturals, Sequences

CONSTANTS
  Assistants,       \* processes
  MaxRuns           \* questions of a chat (bound)

ASSUME AssistantAssumption == MaxRuns \in Nat \ {0}

VARIABLES
  runState,         \* state of assistant_runs
  agedRuns,         \* runs asked for more than two minutes ago
  runOp,            \* usage_operations row of a run
  messages,         \* assistant_messages of the chat, by sequence
  chatDeleted,
  recovering        \* what each process has in hand

assistantVars == <<runState, agedRuns, runOp, messages, chatDeleted, recovering>>

ChatRuns == 1 .. MaxRuns
ActiveStates == {"queued", "retrieving", "generating"}
Unsettled == {"reserved", "provider_running", "reconciling"}
Question(r) == [role |-> "user", run |-> r, sources |-> FALSE]
AnswerTo(r, sources) == [role |-> "assistant", run |-> r, sources |-> sources]
NoneTaken == [pc |-> "idle", run |-> 1, sources |-> FALSE]

AssistantTypeOK ==
  /\ runState \in [ChatRuns -> ActiveStates \cup {"none", "completed", "failed"}]
  /\ agedRuns \subseteq ChatRuns
  /\ runOp \in [ChatRuns -> Unsettled \cup {"none", "settled"}]
  /\ \A i \in DOMAIN messages :
       messages[i] \in [role : {"user", "assistant"}, run : ChatRuns, sources : BOOLEAN]
  /\ chatDeleted \in BOOLEAN
  /\ recovering \in [Assistants ->
       [pc : {"idle", "search", "reserve", "mark", "generate", "settle", "save", "fail"},
        run : ChatRuns, sources : BOOLEAN]]

AssistantInit ==
  /\ runState = [r \in ChatRuns |-> "none"] /\ agedRuns = {}
  /\ runOp = [r \in ChatRuns |-> "none"]
  /\ messages = <<>> /\ chatDeleted = FALSE
  /\ recovering = [p \in Assistants |-> NoneTaken]

-----------------------------------------------------------------------------
(* The chat *)

Underway(r) == runState[r] \in ActiveStates
ChatBusy == \E r \in ChatRuns : Underway(r)

(* CreateMessage: one transaction, the chat is locked; a request that comes  *)
(* again finds its run by the idempotency key and changes nothing.           *)
CreateMessage(r) ==
  /\ runState[r] = "none" /\ \A q \in ChatRuns : q < r => runState[q] # "none"
  /\ ~chatDeleted /\ ~ChatBusy
  /\ messages' = Append(messages, Question(r))
  /\ runState' = [runState EXCEPT ![r] = "queued"]
  /\ UNCHANGED <<agedRuns, runOp, chatDeleted, recovering>>

DeleteChat ==
  /\ ~chatDeleted /\ ~ChatBusy /\ chatDeleted' = TRUE
  /\ UNCHANGED <<runState, agedRuns, runOp, messages, recovering>>

TwoMinutesPass(r) ==
  /\ runState[r] # "none" /\ r \notin agedRuns /\ agedRuns' = agedRuns \cup {r}
  /\ UNCHANGED <<runState, runOp, messages, chatDeleted, recovering>>

-----------------------------------------------------------------------------
(* recoverRuns and completeRun *)

Writes(r, state) == runState' = [runState EXCEPT ![r] = state]
Then(p, pc) == recovering' = [recovering EXCEPT ![p].pc = pc]
Operation(r, status) == runOp' = [runOp EXCEPT ![r] = status]

(* Mutant of Recoverable: a run that failed is tried again. *)
RecoverableFailed(r) ==
  runState[r] = "queued" \/ (r \in agedRuns /\ runState[r] \in ActiveStates \cup {"failed"})

Recoverable(r) == runState[r] = "queued" \/ (Underway(r) /\ r \in agedRuns)

ClaimRun(p, r) ==
  /\ recovering[p].pc = "idle" /\ Recoverable(r)
  /\ Writes(r, "retrieving")
  /\ recovering' = [recovering EXCEPT ![p] = [NoneTaken EXCEPT !.pc = "search", !.run = r]]
  /\ UNCHANGED <<agedRuns, runOp, messages, chatDeleted>>

(* The state is written whatever it is; a failure of that is not looked at.  *)
(* Nothing found is answered without a provider.                             *)
SearchContent(p) ==
  /\ recovering[p].pc = "search"
  /\ Writes(recovering[p].run, "generating") \/ UNCHANGED runState
  /\ \E found \in BOOLEAN :
       recovering' = [recovering EXCEPT ![p].sources = found,
                                        ![p].pc = IF found THEN "reserve" ELSE "save"]
  /\ UNCHANGED <<agedRuns, runOp, messages, chatDeleted>>

(* A key that is known returns the operation as it stands. *)
ReserveGeneration(p) ==
  LET r == recovering[p].run IN
  /\ recovering[p].pc = "reserve" /\ Then(p, "mark")
  /\ IF runOp[r] = "none" THEN Operation(r, "reserved") ELSE UNCHANGED runOp
  /\ UNCHANGED <<runState, agedRuns, messages, chatDeleted>>

(* A run whose answer was paid for and lost is refused here. *)
MarkGeneration(p) ==
  LET r == recovering[p].run IN
  /\ recovering[p].pc = "mark"
  /\ IF runOp[r] \in Unsettled
     THEN Operation(r, "provider_running") /\ Then(p, "generate")
     ELSE UNCHANGED runOp /\ Then(p, "fail")
  /\ UNCHANGED <<runState, agedRuns, messages, chatDeleted>>

(* MarkCreditOperationReconciling leaves a settled operation as it is. *)
Doubt(r) == IF runOp[r] \in Unsettled THEN Operation(r, "reconciling") ELSE UNCHANGED runOp

Generate(p) ==
  /\ recovering[p].pc = "generate"
  /\ \/ Then(p, "settle") /\ UNCHANGED runOp
     \/ Then(p, "fail") /\ Doubt(recovering[p].run)
  /\ UNCHANGED <<runState, agedRuns, messages, chatDeleted>>

(* An operation the reconciler has set aside conflicts. *)
SettleGeneration(p) ==
  LET r == recovering[p].run IN
  /\ recovering[p].pc = "settle"
  /\ \/ /\ runOp[r] # "reconciling"
        /\ Operation(r, "settled") /\ Then(p, "save")
     \/ Doubt(r) /\ Then(p, "fail")
  /\ UNCHANGED <<runState, agedRuns, messages, chatDeleted>>

(* The answer and the end of the run are one transaction. *)
SaveAnswer(p) ==
  LET r == recovering[p].run IN
  /\ recovering[p].pc = "save"
  /\ messages' = Append(messages, AnswerTo(r, recovering[p].sources))
  /\ Writes(r, "completed") /\ Then(p, "idle")
  /\ UNCHANGED <<agedRuns, runOp, chatDeleted>>

(* The search failed, credits ran out, the answer was too long. *)
GiveUpRun(p) ==
  /\ recovering[p].pc \in {"search", "reserve", "mark", "save"} /\ Then(p, "fail")
  /\ UNCHANGED <<runState, agedRuns, runOp, messages, chatDeleted>>

FailRun(p) ==
  LET r == recovering[p].run IN
  /\ recovering[p].pc = "fail" /\ Then(p, "idle")
  /\ IF runState[r] \in {"completed", "failed"} THEN UNCHANGED runState ELSE Writes(r, "failed")
  /\ UNCHANGED <<agedRuns, runOp, messages, chatDeleted>>

(* The process dies, or the last transaction or failRun itself does. *)
LeaveRun(p) ==
  /\ recovering[p].pc # "idle" /\ Then(p, "idle")
  /\ UNCHANGED <<runState, agedRuns, runOp, messages, chatDeleted>>

(* After 45 minutes: what reached the provider waits, the rest is released.  *)
ReconcileRun(r) ==
  /\ r \in agedRuns /\ runOp[r] \in {"reserved", "provider_running"}
  /\ Operation(r, IF runOp[r] = "reserved" THEN "settled" ELSE "reconciling")
  /\ UNCHANGED <<runState, agedRuns, messages, chatDeleted, recovering>>

-----------------------------------------------------------------------------
AssistantNext ==
  \/ \E p \in Assistants :
       \/ \E r \in ChatRuns : ClaimRun(p, r)
       \/ SearchContent(p) \/ ReserveGeneration(p) \/ MarkGeneration(p) \/ Generate(p)
       \/ SettleGeneration(p) \/ SaveAnswer(p) \/ GiveUpRun(p) \/ FailRun(p) \/ LeaveRun(p)
  \/ \E r \in ChatRuns : CreateMessage(r) \/ TwoMinutesPass(r) \/ ReconcileRun(r)
  \/ DeleteChat

AssistantSpec == AssistantInit /\ [][AssistantNext]_assistantVars

-----------------------------------------------------------------------------
(* Properties *)

(* An answer stands directly under its question, which has no other, and one *)
(* that was made of sources is settled: whatever process died between the    *)
(* search and the answer, no run that was taken up again answers a question  *)
(* the chat has gone on from, or a second time, or for nothing               *)
(* (service.go:58-60, 101, 763-770, 883-889, 949, 1003).                          *)
AnswersInTurn ==
  \A i \in DOMAIN messages : messages[i].role = "assistant" =>
    /\ i > 1 /\ messages[i - 1] = Question(messages[i].run)
    /\ messages[i].sources => runOp[messages[i].run] = "settled"
=============================================================================
