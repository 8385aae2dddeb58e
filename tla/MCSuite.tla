------------------------------- MODULE MCSuite -------------------------------
(***************************************************************************)
(* Components that share no state their properties rest on, on one graph:  *)
(* a behaviour is one of the component in focus, and the others keep one   *)
(* of their initial states.                                                *)
(***************************************************************************)
EXTENDS StagedAnalysis, QualityReview, Sessions, Ingest, Ownership,
        ActionSync, CallActions, Purge, Assistant, TLC

CONSTANTS
  MaxStirs,        \* edits, selections, requests and mishaps of an analysis, together
  MaxStopped,      \* companies that are frozen or deleted at a time
  MaxOutstanding   \* invitations, offers and checked requests at a time

VARIABLE focus

suiteVars == <<stagedVars, reviewVars, sessionsVars, ingestVars, ownershipVars,
              syncVars, actionVars, purgeVars, assistantVars, focus>>

(* Four things disturb an analysis; not all of them in one behaviour.        *)
Stirs == Cardinality((2 .. MaxRevisions) \cap (DOMAIN revisions \cup {editing.target}))
         + Len(attempts) + (MaxSelects - selects) + (MaxMishaps - mishaps)
Outstanding == invitations \cup offers \cup checked
Stopped == {c \in Companies : life[c] \in {"frozen", "soft_deleted"}}

SuiteInit ==
  /\ focus \in {"analysis", "review", "sessions", "ingest", "companies",
                "tasks", "actions", "files", "assistant"}
  /\ StagedInit /\ ReviewInit /\ SessionsInit /\ IngestInit /\ OwnershipInit
  /\ ActionSyncInit /\ CallActionsInit /\ PurgeInit /\ AssistantInit
  /\ focus # "analysis" => revisions[1] = CHOOSE c \in Content : TRUE
  /\ focus # "sessions" => userRole = CHOOSE r \in Roles : TRUE
  /\ focus # "ingest" => endpoint = [e \in Endpoints |-> "active"]
  /\ focus # "actions" => action.assignee = CHOOSE p \in Department : TRUE

Focus(name) == focus = name /\ UNCHANGED focus

SuiteNext ==
  \/ /\ Focus("analysis") /\ StagedNext /\ Stirs' <= MaxStirs
     /\ UNCHANGED <<reviewVars, sessionsVars, ingestVars, ownershipVars,
                    syncVars, actionVars, purgeVars, assistantVars>>
  \/ /\ Focus("review") /\ ReviewNext
     /\ UNCHANGED <<stagedVars, sessionsVars, ingestVars, ownershipVars,
                    syncVars, actionVars, purgeVars, assistantVars>>
  \/ /\ Focus("sessions") /\ SessionsNext
     /\ UNCHANGED <<stagedVars, reviewVars, ingestVars, ownershipVars,
                    syncVars, actionVars, purgeVars, assistantVars>>
  \/ /\ Focus("ingest") /\ IngestNext
     /\ UNCHANGED <<stagedVars, reviewVars, sessionsVars, ownershipVars,
                    syncVars, actionVars, purgeVars, assistantVars>>
  \/ /\ Focus("companies") /\ OwnershipNext
     /\ Cardinality(Stopped') <= MaxStopped /\ Cardinality(Outstanding') <= MaxOutstanding
     /\ UNCHANGED <<stagedVars, reviewVars, sessionsVars, ingestVars,
                    syncVars, actionVars, purgeVars, assistantVars>>
  \/ /\ Focus("tasks") /\ ActionSyncNext
     /\ UNCHANGED <<stagedVars, reviewVars, sessionsVars, ingestVars,
                    ownershipVars, actionVars, purgeVars, assistantVars>>
  \/ /\ Focus("actions") /\ CallActionsNext
     /\ UNCHANGED <<stagedVars, reviewVars, sessionsVars, ingestVars,
                    ownershipVars, syncVars, purgeVars, assistantVars>>
  \/ /\ Focus("files") /\ PurgeNext
     /\ UNCHANGED <<stagedVars, reviewVars, sessionsVars, ingestVars,
                    ownershipVars, syncVars, actionVars, assistantVars>>
  \/ /\ Focus("assistant") /\ AssistantNext
     /\ UNCHANGED <<stagedVars, reviewVars, sessionsVars, ingestVars,
                    ownershipVars, syncVars, actionVars, purgeVars>>

SuiteSpec == SuiteInit /\ [][SuiteNext]_suiteVars

(* Every variable of the component in focus has its type: rows of the        *)
(* tables, and what workers and requests hold between two statements.        *)
SuiteTypeOK ==
  CASE focus = "analysis" -> StagedTypeOK
    [] focus = "review" -> ReviewTypeOK
    [] focus = "sessions" -> SessionsTypeOK
    [] focus = "ingest" -> IngestTypeOK
    [] focus = "companies" -> OwnershipTypeOK
    [] focus = "tasks" -> ActionSyncTypeOK
    [] focus = "actions" -> CallActionsTypeOK
    [] focus = "files" -> PurgeTypeOK
    [] focus = "assistant" -> AssistantTypeOK

(* Handlers, workers, requests and people go by the same names, and so do    *)
(* companies, logins and endpoints: one group of permutations serves all.    *)
Names == Permutations(Texts) \cup Permutations(People) \cup Permutations(Companies)
=============================================================================
