----------------------------- MODULE AuditTrail -----------------------------
(***************************************************************************)
(* Who may call what, and the record that is kept of it: the guards of the *)
(* controllers (jwt.strategy.ts, roles.guard.ts, @AllRoles), the interceptor  *)
(* that records changes (audit.interceptor.ts) and the menu that the       *)
(* browser offers (MainLayout.tsx).                                        *)
(*                                                                         *)
(* Role and organization of a call are the claims of its access token,     *)
(* which were the user's when login or refresh (auth.service.ts) read them, *)
(* some time before the token was signed.  A record is written after the   *)
(* handler has answered, by a call that nobody waits for.  What the        *)
(* handlers do is in the other modules; here a handler commits its change, *)
(* or does not, and then answers or fails.                                 *)
(***************************************************************************)
EXTENDS Naturals, FiniteSets, Absence

CONSTANTS
  Staff, Offices, ApiCalls,
  Used,        \* the calls that are made: <<resource, method>>
  Ranks,       \* the roles that users are given
  AuthRequests,  \* logins and renewals, each made once
  Life,        \* ticks that an access token is valid
  LastTick, MaxAssignments

VARIABLES
  clock, member,  \* role and organization of each user
  token,          \* the access token in the browser of each user, or None
  menu,           \* the role that the browser has stored at login
  auths,          \* the logins and renewals
  calls,
  recorded,       \* calls that have an audit record
  lost,           \* history: calls whose record cannot be expected any more
  held,           \* history: the last tick a user had a role
  assigned        \* history: role changes so far
auditVars == <<clock, member, token, menu, auths, calls, recorded, lost, held, assigned>>

SA == "Super Admin"
OA == "Organization Admin"
Analyst == "Security Analyst"
Technician == "IT Technician"
AllRoles == {SA, OA, Analyst, Technician}
Admins == {SA, OA}
Methods == {"GET", "POST", "PATCH", "DELETE"}

-----------------------------------------------------------------------------
(* The decorators of the controllers: for each method the roles admitted *)

Rule(get, post, patch, delete) ==
  [m \in Methods |-> CASE m = "GET" -> get [] m = "POST" -> post
                       [] m = "PATCH" -> patch [] m = "DELETE" -> delete]
Organizations == Rule(Admins, {SA}, Admins, {SA})
Departments == Rule(Admins, Admins, Admins, Admins)
Users == Rule(Admins, Admins, Admins, Admins)
Devices == Rule(AllRoles, AllRoles \ {Technician}, AllRoles \ {Technician}, Admins)
SoftwareInventory == Rule(AllRoles, AllRoles, AllRoles, AllRoles \ {Technician})
SoftwareUpdateFindings == Rule(AllRoles, AllRoles, AllRoles, AllRoles \ {Technician})
VulnerabilityFindings == Rule(AllRoles, AllRoles \ {Technician}, AllRoles \ {Technician}, Admins)
RemediationActions == Rule(AllRoles, AllRoles \ {Technician}, AllRoles, Admins)
RemediationEvidence == Rule(AllRoles, AllRoles, {}, AllRoles \ {Technician})
DashboardReads == Rule(AllRoles, {}, {}, {})
AuditLogs == Rule(Admins, {}, {}, {})
RepositoryScans == Rule({}, AllRoles, {}, {})
AiRecommendations == Rule({}, AllRoles, {}, {})  \* any authenticated user

RequiredRoles(resource) ==
  CASE resource = "/organizations"            -> Organizations
    [] resource = "/departments"              -> Departments
    [] resource = "/users"                    -> Users
    [] resource = "/devices"                  -> Devices
    [] resource = "/software-inventory"       -> SoftwareInventory
    [] resource = "/software-update-findings" -> SoftwareUpdateFindings
    [] resource = "/vulnerability-findings"   -> VulnerabilityFindings
    [] resource = "/remediation-actions"      -> RemediationActions
    [] resource = "/remediation-actions/evidence" -> RemediationEvidence
    [] resource = "/dashboard"                -> DashboardReads
    [] resource = "/audit-logs"               -> AuditLogs
    [] resource = "/repository-scans"         -> RepositoryScans
    [] resource = "/ai-recommendations"       -> AiRecommendations

CanActivate(claims, resource, method) ==
  claims.role \in RequiredRoles(resource)[method]

\* The menu of the browser, and the call each page makes first.
Everyone == {"/dashboard", "/devices", "/software-inventory",
  "/software-update-findings", "/vulnerability-findings",
  "/remediation-actions", "/repository-scanning"}
NavItems(role) == Everyone \cup
  (IF role \in Admins THEN {"/organizations", "/departments", "/users", "/audit-logs"}
   ELSE {})
FirstCall(page) == IF page = "/repository-scanning" THEN <<"/repository-scans", "POST">>
                   ELSE <<page, "GET">>

-----------------------------------------------------------------------------
Claims == [role : Ranks, org : Offices]
\* slow is history: the ticks between the read of the user and the signature.
Tokens == [claims : Claims, issued : 0 .. LastTick, slow : 0 .. LastTick]
\* What login (or refresh, if ~login) has read of the user, and when.
AuthRow == [user : Staff, claims : Claims, login : BOOLEAN, began : 0 .. LastTick,
            at : {"read", "signed"}]
CallRow == [user : Staff, claims : Claims, resource : STRING, method : Methods,
            at : {"running", "committed", "recording", "over"}, when : 0 .. LastTick,
            slow : 0 .. LastTick]

\* None is no value of a column; users are given roles that exist, and what is
\* called is a resource with a method.
ASSUME AuditAssumption ==
  /\ Ranks \subseteq AllRoles /\ Used \subseteq STRING \X Methods
  /\ Life \in Nat \ {0} /\ LastTick \in Nat
  /\ None \notin Nat /\ None \notin AllRoles /\ None \notin Tokens /\ None \notin CallRow
  /\ None \notin AuthRow

AuditTypeOK ==
  /\ clock \in 0 .. LastTick
  /\ member \in [Staff -> Claims]
  /\ token \in [Staff -> Tokens \cup {None}]
  /\ menu \in [Staff -> AllRoles \cup {None}]
  /\ auths \in [AuthRequests -> AuthRow \cup {None}]
  /\ calls \in [ApiCalls -> CallRow \cup {None}]
  /\ recorded \subseteq ApiCalls /\ lost \subseteq ApiCalls

AuditInit ==
  /\ clock = 0 /\ member \in [Staff -> Claims]
  /\ token = [u \in Staff |-> None] /\ menu = [u \in Staff |-> None]
  /\ calls = [c \in ApiCalls |-> None] /\ recorded = {} /\ lost = {}
  /\ held = [u \in Staff |-> [r \in Ranks |-> IF r = member[u].role THEN 0 ELSE None]]
  /\ auths = [a \in AuthRequests |-> None] /\ assigned = 0

\* Identities mean nothing: what starts takes one that was not used yet.
NextFree(x, used) == x = CHOOSE y \in DOMAIN used : used[y] = None

-----------------------------------------------------------------------------
(* Users and tokens *)

\* Somebody gives the user another role or organization.
Assign(u, claims) ==
  /\ assigned < MaxAssignments /\ claims # member[u]
  /\ member' = [member EXCEPT ![u] = claims]
  /\ held' = [held EXCEPT ![u][member[u].role] = clock, ![u][claims.role] = clock]
  /\ assigned' = assigned + 1
  /\ UNCHANGED <<clock, token, menu, auths, calls, recorded, lost>>

ReadUser(a, u, claims, login) ==
  /\ auths[a] = None /\ NextFree(a, auths)
  /\ auths' = [auths EXCEPT ![a] =
       [user |-> u, claims |-> claims, login |-> login, began |-> clock, at |-> "read"]]
  /\ UNCHANGED <<clock, member, token, menu, calls, recorded, lost, held, assigned>>
\* login reads the user and goes on to compare the password.
BeginSignIn(a, u) == ReadUser(a, u, member[u], TRUE)
\* refresh reads the user again and goes on to revoke the refresh token.
\* Mutant: the claims of the old token are signed again.
BeginRenewal_Claims(a, u) == token[u] # None /\ ReadUser(a, u, token[u].claims, FALSE)
BeginRenewal(a, u) == token[u] # None /\ ReadUser(a, u, member[u], FALSE)
\* What was read is signed; the browser stores the token, and after a login the user.
SignToken(a) ==
  LET q == auths[a] IN
  /\ q # None /\ q.at = "read"
  /\ auths' = [auths EXCEPT ![a].at = "signed"]
  /\ token' = [token EXCEPT ![q.user] = [claims |-> q.claims, issued |-> clock,
                                        slow |-> clock - q.began]]
  /\ menu' = IF q.login THEN [menu EXCEPT ![q.user] = q.claims.role] ELSE menu
  /\ UNCHANGED <<clock, member, calls, recorded, lost, held, assigned>>

\* jwt.strategy.ts: the signature and the expiry are all that is checked.
Valid(t) == t # None /\ clock < t.issued + Life

Tick ==
  /\ clock < LastTick /\ clock' = clock + 1
  /\ held' = [u \in Staff |-> [held[u] EXCEPT ![member[u].role] = clock + 1]]
  /\ UNCHANGED <<member, token, menu, auths, calls, recorded, lost, assigned>>

-----------------------------------------------------------------------------
(* Calls *)

StateOf(c) == IF calls[c] = None THEN "unused" ELSE calls[c].at
Set(c, at) == calls' = [calls EXCEPT ![c].at = at]
Rest == UNCHANGED <<clock, member, token, menu, auths, held, assigned>>

\* Guards run before the handler and its interceptor.
Admit(c, u, resource, method) ==
  /\ calls[c] = None /\ NextFree(c, calls) /\ Valid(token[u])
  /\ CanActivate(token[u].claims, resource, method)
  /\ calls' = [calls EXCEPT ![c] =
       [user |-> u, claims |-> token[u].claims, resource |-> resource,
        method |-> method, at |-> "running", when |-> clock, slow |-> token[u].slow]]
  /\ Rest /\ UNCHANGED <<recorded, lost>>

\* Mutant: the methods of the interceptor leave out one that changes data.
Watched_NoDelete(call) ==
  call.method \in {"POST", "PATCH", "PUT"} /\ call.resource # "/audit-logs"
Watched(call) ==
  call.method \in {"POST", "PATCH", "PUT", "DELETE"} /\ call.resource # "/audit-logs"

Commit(c) ==
  /\ StateOf(c) = "running" /\ calls[c].method # "GET"
  /\ Set(c, "committed") /\ Rest /\ UNCHANGED <<recorded, lost>>
\* The handler answers; the record is written by a call nobody waits for.
Answer(c) ==
  /\ \/ StateOf(c) = "committed"
     \/ StateOf(c) = "running" /\ calls[c].method = "GET"
  /\ Set(c, IF Watched(calls[c]) THEN "recording" ELSE "over")
  /\ Rest /\ UNCHANGED <<recorded, lost>>
\* The handler throws, possibly after its change is committed (a user is
\* created, then the verification mail cannot be issued): no record.
Throw(c) ==
  /\ StateOf(c) \in {"running", "committed"} /\ Set(c, "over")
  /\ lost' = IF StateOf(c) = "committed" THEN lost \cup {c} ELSE lost
  /\ Rest /\ UNCHANGED recorded
Record(c) ==
  /\ StateOf(c) = "recording" /\ Set(c, "over")
  /\ recorded' = recorded \cup {c}
  /\ Rest /\ UNCHANGED lost
\* The insert fails; the error is logged and nothing else happens.
RecordFails(c) ==
  /\ StateOf(c) = "recording" /\ Set(c, "over")
  /\ lost' = lost \cup {c}
  /\ Rest /\ UNCHANGED recorded
\* The server stops: handlers and records in memory are gone.
Crash ==
  LET alive == {c \in ApiCalls : StateOf(c) \in {"running", "committed", "recording"}} IN
  /\ alive # {}
  /\ calls' = [c \in ApiCalls |-> IF c \in alive THEN [calls[c] EXCEPT !.at = "over"]
                                  ELSE calls[c]]
  /\ lost' = lost \cup {c \in alive : StateOf(c) # "running"}
  /\ Rest /\ UNCHANGED recorded

\* What findAll shows to a caller: the records of the scope of the claims.  (It
\* stops at the newest hundred, or as many as are asked for, at most 500.)
LogsFor(claims) ==
  {c \in recorded : claims.role = SA \/ calls[c].claims.org = claims.org}

Proceed(c) == Commit(c) \/ Answer(c) \/ Throw(c) \/ Record(c) \/ RecordFails(c)
AuditNext ==
  \/ \E u \in Staff, claims \in Claims : Assign(u, claims)
  \/ \E a \in AuthRequests :
        SignToken(a) \/ \E u \in Staff : BeginSignIn(a, u) \/ BeginRenewal(a, u)
  \/ \E c \in ApiCalls, u \in Staff, use \in Used : Admit(c, u, use[1], use[2])
  \/ \E c \in ApiCalls : Proceed(c)
  \/ Crash \/ Tick
\* Handlers and the writes of records end.
AuditSpec == AuditInit /\ [][AuditNext]_auditVars /\ \A c \in ApiCalls : WF_auditVars(Proceed(c))

-----------------------------------------------------------------------------
(* Properties *)

\* A role that was taken from a user is of use for the life of one access token
\* only, and for the time that the login or renewal that read it took to sign that
\* token, whatever else is signed or renewed in between.
StaleRolesEnd ==
  \A c \in ApiCalls : calls[c] # None =>
    LET h == held[calls[c].user][calls[c].claims.role] IN
    h # None /\ calls[c].when < h + calls[c].slow + Life

\* A record is kept only of a change that its caller was admitted to and that
\* has been answered, and administrators of the caller's organization see it.
RecordsAreEarned ==
  \A c \in recorded :
    /\ calls[c].at = "over" /\ c \notin lost /\ Watched(calls[c])
    /\ calls[c].claims.role \in RequiredRoles(calls[c].resource)[calls[c].method]
    /\ c \in LogsFor([role |-> OA, org |-> calls[c].claims.org])

\* Every change is recorded in the end, unless the handler fails after it, the
\* insert of the record fails or the server stops.
EveryChangeRecorded ==
  \A c \in ApiCalls : StateOf(c) = "committed" ~> c \in recorded \cup lost

\* A page that the menu offers is not refused its first call, as long as the
\* menu was drawn for the role that the token claims.
OfferedPagesAreUsable ==
  \A u \in Staff : token[u] # None /\ menu[u] = token[u].claims.role =>
    \A page \in NavItems(menu[u]) :
      CanActivate(token[u].claims, FirstCall(page)[1], FirstCall(page)[2])

\* Guards, menu and records follow the roles that users have.
AccessIsCurrent == StaleRolesEnd /\ OfferedPagesAreUsable /\ RecordsAreEarned
=============================================================================
