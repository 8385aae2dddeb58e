\* Safety of nine components, one at a time; they share the names of what is
\* interchangeable in them
CONSTANTS
  \* a staged analysis: two handlers, two texts of two revisions, two stages
  Analyzers = {x1, x2}
  Texts = {said, meant}
  Voices = {anyone}
  MaxRevisions = 2
  MaxAsks = 1
  MaxSelects = 1
  Stages = 2
  Tries = 1
  MaxTakes = 2
  MaxMishaps = 1
  MaxStirs = 3
  \* a quality review
  Reviewers = {"owner", "leader"}
  Management = {"owner"}
  Counted = {"leader", "seller"}
  MaxVerdicts = 2
  MaxAppeals = 1
  MaxWords = 2
  MaxReruns = 1
  \* sessions: two logins, two requests in flight
  Logins = {y1, y2}
  Callers = {x1, x2}
  MaxTokens = 3
  MaxVersion = 2
  Roles = {"user", "admin"}
  Links = {"link"}
  \* ingest: a recording, two workers of each kind, two endpoints
  Recordings = {"r1"}
  IngestWorkers = {x1, x2}
  MaxClaims = 2
  Endpoints = {y1, y2}
  HookWorkers = {x1, x2}
  MaxHookClaims = 2
  MaxHookTries = 2
  MaxLosses = 1
  \* companies: two, and two people
  Companies = {y1, y2}
  People = {x1, x2}
  CompanyLimit = 2
  MaxInvitations = 1
  MaxOffers = 1
  MaxStopped = 1
  MaxOutstanding = 2
  \* a task in Bitrix24: two replicas, a person who decides
  SyncWorkers = {x1, x2}
  Deciders = {"manager"}
  MaxSyncs = 1
  MaxCreates = 2
  MaxRetries = 2
  \* an action: two requests, a worker that moves it, two people
  Writers = {x1, x2}
  AssignWorkers = {"mover"}
  Staff = {"seller", "owner"}
  Department = {"seller"}
  Leaders = {}
  Deputies = {}
  Owners = {"owner"}
  \* a call and its files: two runs of the purge
  PurgeWorkers = {x1, x2}
  Made = {"cache", "media"}
  Claims = {"retention", "bin"}
  \* a chat with the assistant: one process, two questions
  Assistants = {"process"}
  MaxRuns = 2
SPECIFICATION SuiteSpec
SYMMETRY Names
INVARIANTS
  SuiteTypeOK
  TaskSentOnce
  OneVerdictInForce SecondOpinionIsAnothers
  OneSuccessor AccessHasPresentRole
  CompletedOnce CopiesBounded DeliveredIsAnswered
  OwnerSeated
  TaskPerDecision PurgedFilesTracked AnswersInTurn
PROPERTIES WordsLostOnlyOvertaken ProgressKept VerdictOfSeenAnalysis EndedForGood TaskLinkKept ClosedKept
CHECK_DEADLOCK FALSE
