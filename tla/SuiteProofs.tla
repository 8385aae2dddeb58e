----------------------------- MODULE SuiteProofs -----------------------------
(***************************************************************************)
(* The graph that nine components share is a behaviour of each of them: a  *)
(* step is one of the component in focus, which the others sit out.  What  *)
(* was proved of a component holds there; and so every component keeps its *)
(* type, in focus or not.                                                  *)
(***************************************************************************)
EXTENDS MCSuite, CompanyProofs, OutboxProofs, StagedProofs

(* A step of the suite is a step of each component or leaves it alone. *)
LEMMA StepOfEach ==
  ASSUME [SuiteNext]_suiteVars
  PROVE  /\ [StagedNext]_stagedVars /\ [ReviewNext]_reviewVars
         /\ [SessionsNext]_sessionsVars /\ [IngestNext]_ingestVars
         /\ [OwnershipNext]_ownershipVars /\ [ActionSyncNext]_syncVars
         /\ [CallActionsNext]_actionVars /\ [PurgeNext]_purgeVars
         /\ [AssistantNext]_assistantVars
<1>1. CASE UNCHANGED suiteVars
  BY <1>1 DEF suiteVars
<1>2. CASE SuiteNext
  BY <1>2 DEF SuiteNext
<1> QED BY <1>1, <1>2

LEMMA BeginningOfEach ==
  ASSUME SuiteInit
  PROVE  /\ StagedInit /\ ReviewInit /\ SessionsInit /\ IngestInit /\ OwnershipInit
         /\ ActionSyncInit /\ CallActionsInit /\ PurgeInit /\ AssistantInit
BY DEF SuiteInit

(* A behaviour of the suite is one of every component. *)
LEMMA RunOfEach ==
  SuiteSpec => /\ StagedSpec /\ ReviewSpec /\ SessionsSpec /\ IngestSpec /\ OwnershipSpec
               /\ ActionSyncSpec /\ CallActionsSpec /\ PurgeSpec /\ AssistantSpec
<1>1. SuiteInit => /\ StagedInit /\ ReviewInit /\ SessionsInit /\ IngestInit /\ OwnershipInit
                   /\ ActionSyncInit /\ CallActionsInit /\ PurgeInit /\ AssistantInit
  BY BeginningOfEach
<1>2. [SuiteNext]_suiteVars =>
        /\ [StagedNext]_stagedVars /\ [ReviewNext]_reviewVars
        /\ [SessionsNext]_sessionsVars /\ [IngestNext]_ingestVars
        /\ [OwnershipNext]_ownershipVars /\ [ActionSyncNext]_syncVars
        /\ [CallActionsNext]_actionVars /\ [PurgeNext]_purgeVars
        /\ [AssistantNext]_assistantVars
  BY StepOfEach
<1> QED BY <1>1, <1>2, PTL
     DEF SuiteSpec, StagedSpec, ReviewSpec, SessionsSpec, IngestSpec, OwnershipSpec,
         ActionSyncSpec, CallActionsSpec, PurgeSpec, AssistantSpec

(* The rows of the tables, and what workers and requests hold between two     *)
(* statements, keep their columns and bounds in every component, for every    *)
(* value of the constants.                                                    *)
THEOREM EverythingIsTyped == SuiteSpec => []SuiteTypeOK
<1>1. /\ StagedTypeOK /\ ReviewTypeOK /\ SessionsTypeOK /\ IngestTypeOK /\ OwnershipTypeOK
      /\ ActionSyncTypeOK /\ CallActionsTypeOK /\ PurgeTypeOK /\ AssistantTypeOK
      /\ focus \in {"analysis", "review", "sessions", "ingest", "companies",
                    "tasks", "actions", "files", "assistant"}
      => SuiteTypeOK
  BY DEF SuiteTypeOK
<1>2. SuiteInit => focus \in {"analysis", "review", "sessions", "ingest", "companies",
                              "tasks", "actions", "files", "assistant"}
  BY DEF SuiteInit
<1>3. focus \in {"analysis", "review", "sessions", "ingest", "companies",
                 "tasks", "actions", "files", "assistant"} /\ [SuiteNext]_suiteVars
      => (focus \in {"analysis", "review", "sessions", "ingest", "companies",
                     "tasks", "actions", "files", "assistant"})'
  BY DEF SuiteNext, Focus, suiteVars
<1> QED BY <1>1, <1>2, <1>3, RunOfEach, StagesTyped, ReviewsAreTyped, SessionsAreTyped,
           OutboxIsTyped, CompaniesAreTyped, TasksAreTyped, ActionsAreTyped, PurgesAreTyped,
           ChatsAreTyped, PTL DEF SuiteSpec
=============================================================================
