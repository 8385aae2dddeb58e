------------------------------ MODULE Sessions ------------------------------
(***************************************************************************)
(* The sessions of one user: service/auth, service/passwordreset,          *)
(* repository/refresh_session and what an administrator does to them.      *)
(*                                                                         *)
(* A session is a row with the hash of its refresh token, the hash of the  *)
(* one before and an access version.  An access token names the session,   *)
(* the version and a role, and middleware/auth.go takes it as long as the  *)
(* session lives and has that version.  A request reads, then writes in a  *)
(* later statement, and others come between: two tabs that refresh with    *)
(* one token, a logout, a change of the role, a reset of the password.     *)
(* Tokens are numbers in the order they were generated; what a password    *)
(* is, and the counters of failed attempts, are left out.                  *)
(***************************************************************************)
EXTENDS Naturals, FiniteSets

CONSTANTS
  Logins,         \* sessions that may be opened
  Callers,        \* requests in flight at a time
  MaxTokens,      \* refresh tokens generated (bound)
  MaxVersion,     \* access version of a session (bound)
  Roles,          \* roles of the user
  Links           \* password reset links that may be sent

ASSUME SessionsAssumption ==
  /\ MaxTokens \in Nat \ {0} /\ MaxVersion \in Nat \ {0}

NoToken == 0
NoLogin == "no session"
Tokens == 1 .. MaxTokens

VARIABLES
  sessionRow,    \* refresh_sessions
  nextToken,     \* the next refresh token generated
  userRole,      \* users.role
  caller,        \* what each request in flight holds
  access,        \* access tokens issued by a refresh
  successors,    \* <<old, new>> for each refresh that was answered
  resetLink      \* password_reset_tokens

sessionsVars == <<sessionRow, nextToken, userRole, caller, access, successors, resetLink>>

SessionRow == [status : {"none", "live", "revoked", "expired"}, hash : Tokens \cup {NoToken},
               previous : Tokens \cup {NoToken}, grace : BOOLEAN, version : 1 .. MaxVersion]
Session(status, hash, previous, grace, version) ==
  [status |-> status, hash |-> hash, previous |-> previous, grace |-> grace, version |-> version]

CallerSteps == {"idle", "create", "rotate", "classify", "revoke", "issue", "insert"}
Quiet == [pc |-> "idle", token |-> NoToken, session |-> NoLogin, version |-> 1, voided |-> {}]

SessionsTypeOK ==
  /\ sessionRow \in [Logins -> SessionRow]
  /\ nextToken \in 1 .. MaxTokens + 1
  /\ userRole \in Roles
  /\ caller \in [Callers -> [pc : CallerSteps, token : Tokens \cup {NoToken},
                             session : Logins \cup {NoLogin}, version : 1 .. MaxVersion,
                             voided : SUBSET Links]]
  /\ access \subseteq [session : Logins, version : 1 .. MaxVersion, role : Roles]
  /\ successors \subseteq Tokens \X Tokens
  /\ resetLink \in [Links -> {"none", "live", "used"}]

SessionsInit ==
  /\ sessionRow = [s \in Logins |-> Session("none", NoToken, NoToken, FALSE, 1)]
  /\ nextToken = 1 /\ userRole \in Roles
  /\ caller = [c \in Callers |-> Quiet]
  /\ access = {} /\ successors = {}
  /\ resetLink = [l \in Links |-> "none"]

-----------------------------------------------------------------------------
(* Helpers *)

LiveSession(s) == sessionRow[s].status = "live"
CallerAt(c, pc) == caller[c].pc = pc
CallerGoes(c, pc) == caller' = [caller EXCEPT ![c].pc = pc]
CallerRests(c) == caller' = [caller EXCEPT ![c] = Quiet]

WithStatus(row, status) == [row EXCEPT !.status = status]

(* Every live session of S is revoked; the row keeps its hashes. *)
RevokeAll(S) ==
  sessionRow' = [s \in Logins |-> IF s \in S /\ LiveSession(s)
                                  THEN WithStatus(sessionRow[s], "revoked") ELSE sessionRow[s]]

-----------------------------------------------------------------------------
(* Login: the password is compared, then the session created *)

ComparePassword(c) ==
  /\ CallerAt(c, "idle")
  /\ CallerGoes(c, "create")
  /\ UNCHANGED <<sessionRow, nextToken, userRole, access, successors, resetLink>>

CreateRefreshSession(c) ==
  /\ CallerAt(c, "create") /\ nextToken <= MaxTokens
  /\ \E s \in {l \in Logins : sessionRow[l].status = "none"} :
       sessionRow' = [sessionRow EXCEPT ![s] = Session("live", nextToken, NoToken, FALSE, 1)]
  /\ nextToken' = nextToken + 1
  /\ CallerRests(c)
  /\ UNCHANGED <<userRole, access, successors, resetLink>>

-----------------------------------------------------------------------------
(* Refresh *)

(* A live session has the hash of the token presented. *)
GetRefreshSessionByHash(c, token) ==
  /\ CallerAt(c, "idle")
  /\ \E s \in Logins : LiveSession(s) /\ sessionRow[s].hash = token
  /\ caller' = [caller EXCEPT ![c] = [Quiet EXCEPT !.pc = "rotate", !.token = token]]
  /\ UNCHANGED <<sessionRow, nextToken, userRole, access, successors, resetLink>>

(* Mutant of Rotatable: the token before is good for a retry. *)
RotatableByEither(s, token) ==
  LiveSession(s) /\ token \in {sessionRow[s].hash, sessionRow[s].previous}

(* Mutant of Rotatable: the session was alive when it was read. *)
RotatableAsRead(s, token) == sessionRow[s].hash = token

(* What the UPDATE of RotateRefreshSession asks of a row. *)
Rotatable(s, token) == LiveSession(s) /\ sessionRow[s].hash = token

RotateRefreshSession(c) ==
  /\ CallerAt(c, "rotate") /\ nextToken <= MaxTokens
  /\ LET old == caller[c].token IN
     \/ \E s \in Logins :
          /\ Rotatable(s, old)
          /\ sessionRow' = [sessionRow EXCEPT ![s] =
               Session("live", nextToken, sessionRow[s].hash, TRUE, sessionRow[s].version)]
          /\ nextToken' = nextToken + 1
          /\ successors' = successors \cup {<<old, nextToken>>}
          /\ caller' = [caller EXCEPT ![c] =
               [Quiet EXCEPT !.pc = "issue", !.session = s, !.version = sessionRow[s].version]]
     \/ /\ \A s \in Logins : ~Rotatable(s, old)
        /\ CallerGoes(c, "classify")
        /\ UNCHANGED <<sessionRow, nextToken, successors>>
  /\ UNCHANGED <<userRole, access, resetLink>>

(* classifyPreviousToken, its SELECT: a conflict while the grace lasts. *)
ClassifyPreviousToken(c) ==
  /\ CallerAt(c, "classify")
  /\ LET mine == {s \in Logins : LiveSession(s) /\ sessionRow[s].previous = caller[c].token} IN
     IF \E s \in mine : ~sessionRow[s].grace
     THEN \E s \in mine : caller' = [caller EXCEPT ![c].pc = "revoke", ![c].session = s]
     ELSE CallerRests(c)
  /\ UNCHANGED <<sessionRow, nextToken, userRole, access, successors, resetLink>>

(* The UPDATE asks again what the SELECT found. *)
ReusedStill(c) ==
  LiveSession(caller[c].session) /\ sessionRow[caller[c].session].previous = caller[c].token

RevokeReused(c) ==
  /\ CallerAt(c, "revoke")
  /\ LET s == caller[c].session IN
     sessionRow' = IF ReusedStill(c)
                   THEN [sessionRow EXCEPT ![s].status = "revoked"] ELSE sessionRow
  /\ CallerRests(c)
  /\ UNCHANGED <<nextToken, userRole, access, successors, resetLink>>

(* The user is read after the rotation, with the version the rotation met. *)
IssueAccess(c) ==
  /\ CallerAt(c, "issue")
  /\ access' = access \cup {[session |-> caller[c].session, version |-> caller[c].version,
                             role |-> userRole]}
  /\ CallerRests(c)
  /\ UNCHANGED <<sessionRow, nextToken, userRole, successors, resetLink>>

(* Ten seconds, then a month. *)
GraceEnds(s) ==
  /\ sessionRow[s].grace
  /\ sessionRow' = [sessionRow EXCEPT ![s].grace = FALSE]
  /\ UNCHANGED <<nextToken, userRole, caller, access, successors, resetLink>>

SessionExpires(s) ==
  /\ LiveSession(s) /\ ~sessionRow[s].grace
  /\ sessionRow' = [sessionRow EXCEPT ![s].status = "expired"]
  /\ UNCHANGED <<nextToken, userRole, caller, access, successors, resetLink>>

-----------------------------------------------------------------------------
(* Ends of sessions *)

Logout(s) ==
  /\ LiveSession(s)
  /\ RevokeAll({s})
  /\ UNCHANGED <<nextToken, userRole, caller, access, successors, resetLink>>

LogoutAll ==
  /\ \E s \in Logins : LiveSession(s)
  /\ RevokeAll(Logins)
  /\ UNCHANGED <<nextToken, userRole, caller, access, successors, resetLink>>

(* UpdatePassword, after the new hash: the other sessions end. *)
RevokeOtherSessions(s) ==
  /\ LiveSession(s)
  /\ RevokeAll(Logins \ {s})
  /\ UNCHANGED <<nextToken, userRole, caller, access, successors, resetLink>>

(* Mutant of ChangeRole: the tokens in use are left to expire. *)
ChangeRoleOnly(role) ==
  /\ role # userRole
  /\ \A s \in Logins : sessionRow[s].version < MaxVersion
  /\ userRole' = role
  /\ UNCHANGED <<sessionRow, nextToken, caller, access, successors, resetLink>>

(* ChangeAdminUserRole: in one transaction every live session gets a new     *)
(* access version.                                                           *)
ChangeRole(role) ==
  /\ role # userRole
  /\ \A s \in Logins : sessionRow[s].version < MaxVersion
  /\ userRole' = role
  /\ sessionRow' = [s \in Logins |->
       IF LiveSession(s) THEN [sessionRow[s] EXCEPT !.version = @ + 1] ELSE sessionRow[s]]
  /\ UNCHANGED <<nextToken, caller, access, successors, resetLink>>

-----------------------------------------------------------------------------
(* Password reset *)

(* request: the links that are there are voided, ... *)
VoidLinks(c) ==
  /\ CallerAt(c, "idle")
  /\ caller' = [caller EXCEPT ![c] =
       [Quiet EXCEPT !.pc = "insert", !.voided = {l \in Links : resetLink[l] = "live"}]]
  /\ UNCHANGED <<sessionRow, nextToken, userRole, access, successors, resetLink>>

(* ... and at the commit a new one joins those it did not see. *)
StoreLink(c) ==
  /\ CallerAt(c, "insert")
  /\ \E l \in {k \in Links : resetLink[k] = "none"} :
       resetLink' = [k \in Links |-> CASE k = l                  -> "live"
                                       [] k \in caller[c].voided -> "used"
                                       [] OTHER                  -> resetLink[k]]
  /\ CallerRests(c)
  /\ UNCHANGED <<sessionRow, nextToken, userRole, access, successors>>

(* Confirm, one transaction; it waits for a request that voids the link. *)
ConfirmReset(l) ==
  /\ resetLink[l] = "live"
  /\ \A c \in Callers : l \notin caller[c].voided
  /\ resetLink' = [resetLink EXCEPT ![l] = "used"]
  /\ sessionRow' = [s \in Logins |->
       IF LiveSession(s)
       THEN [sessionRow[s] EXCEPT !.status = "revoked",
                                  !.version = IF @ < MaxVersion THEN @ + 1 ELSE @]
       ELSE sessionRow[s]]
  /\ UNCHANGED <<nextToken, userRole, caller, access, successors>>

-----------------------------------------------------------------------------
CallerStep(c) ==
  \/ ComparePassword(c) \/ CreateRefreshSession(c)
  \/ \E t \in Tokens : GetRefreshSessionByHash(c, t)
  \/ RotateRefreshSession(c) \/ ClassifyPreviousToken(c) \/ RevokeReused(c) \/ IssueAccess(c)
  \/ VoidLinks(c) \/ StoreLink(c)

SessionsNext ==
  \/ \E c \in Callers : CallerStep(c)
  \/ \E s \in Logins : GraceEnds(s) \/ SessionExpires(s) \/ Logout(s) \/ RevokeOtherSessions(s)
  \/ LogoutAll
  \/ \E role \in Roles : ChangeRole(role)
  \/ \E l \in Links : ConfirmReset(l)

SessionsSpec == SessionsInit /\ [][SessionsNext]_sessionsVars

-----------------------------------------------------------------------------
(* Properties *)

(* A refresh token buys one successor: of the tabs that present it at once    *)
(* one is answered with a new token, and two sessions never share a token     *)
(* (rotate_refresh_session.go:15-24).                                         *)
OneSuccessor ==
  /\ \A p, q \in successors : p[1] = q[1] => p = q
  /\ \A s, t \in Logins : sessionRow[s].hash # NoToken /\ sessionRow[s].hash = sessionRow[t].hash
                            => s = t

(* "refresh выдаёт access с актуальной ролью" (README:34): whatever a change   *)
(* of the role overtakes, an access token of a refresh that the middleware    *)
(* still takes carries the role the user has.                                 *)
AccessHasPresentRole ==
  \A a \in access : LiveSession(a.session) /\ sessionRow[a.session].version = a.version
                      => a.role = userRole

(* A session is over for good: a refresh that had read it alive gets no token *)
(* out of it, and nothing brings it back (rotate_refresh_session.go:23).      *)
EndedForGood ==
  [][\A s \in Logins : sessionRow[s].status \in {"revoked", "expired"}
       => /\ sessionRow'[s].status = sessionRow[s].status
          /\ sessionRow'[s].hash = sessionRow[s].hash]_sessionsVars
=============================================================================
