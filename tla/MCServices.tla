----------------------------- MODULE MCServices -----------------------------
(***************************************************************************)
(* The parts of the system that share no state, side by side: the register *)
(* (Inventory), recommendations, repository scans, the dashboard, access   *)
(* and audit trail, and two kinds of pages.  A behaviour is one of a part; *)
(* the variables of the others keep an initial value.                      *)
(***************************************************************************)
EXTENDS MCInventory, AiRecommendation, RepositoryScan, Dashboard, AuditTrail,
        RecommendationDialog, RecordPage

CONSTANTS c1, c2, c3, c4, q1, q2, q3, x1, x2, f1, f2, Parts

VARIABLE part
allVars == <<part, vars, aiVars, scanVars, boardVars, auditVars, dialogVars, pageVars>>

AllParts == {"register", "ai", "scan", "board", "access", "dialog", "page"}
AiOnly == {"ai"}
PageOnly == {"page"}

-----------------------------------------------------------------------------
(* Recommendations: two requests; four past actions, one more than are used *)

Asking(org, exploit, fix, named, roomy) ==
  [org |-> org, cve |-> TRUE, software |-> named, exploit |-> exploit,
   fix |-> fix, roomy |-> roomy]
MCAsked == {
  Asking(o1, "PUBLIC_EXPLOIT_AVAILABLE", "UNKNOWN", TRUE, FALSE),
  Asking(o1, "NO_KNOWN_EXPLOIT", "UNKNOWN", FALSE, TRUE),
  Asking(o2, "UNKNOWN", "NO_FIX_AVAILABLE", FALSE, TRUE)}
PastRecord(org, verified, cve, named) ==
  [org |-> org, verified |-> verified, cve |-> cve, software |-> named]
MCHistories == {
  [p \in 1 .. 4 |-> PastRecord(o1, TRUE, TRUE, FALSE)],
  <<PastRecord(o1, TRUE, FALSE, TRUE), PastRecord(o1, FALSE, TRUE, TRUE),
    PastRecord(o2, TRUE, TRUE, TRUE), PastRecord(o1, TRUE, FALSE, FALSE)>>}
Configured(provider, configured, tokenShared, modelKey) ==
  [provider |-> provider, configured |-> configured,
   tokenShared |-> tokenShared, modelKey |-> modelKey]
MCSaid == {[priority |-> "Low", action |-> "OTHER"]}
MCDeployments == {
  Configured("nvidia", TRUE, TRUE, TRUE), Configured("nvidia", TRUE, FALSE, FALSE),
  Configured("openai", TRUE, TRUE, TRUE), Configured("none", FALSE, TRUE, TRUE),
  Configured("nvidia", FALSE, TRUE, TRUE), Configured("openai", FALSE, TRUE, TRUE)}

MCPastActions == 1 .. 4

(* Scans: four commits.  The first one has a manifest more than are read, and *)
(* as many dependencies as are kept, one of them twice; the second one has a *)
(* dependency more than are kept, and lacks a file of the first; the third   *)
(* one has no manifest, and that of the fourth is broken.                    *)

Package(name, version) == [ecosystem |-> "npm", name |-> name, version |-> version]
Old == Package("left", 1)
New == Package("left", 2)
Other == Package("right", 1)
Late == Package("tool", 1)
MCTree(c) == CASE c = c1 -> <<"web", "api", "docs">> [] c = c2 -> <<"api", "docs">>
               [] c = c3 -> << >>                    [] c = c4 -> <<"web">>
MCContent(c, path) ==
  CASE c = c1 /\ path = "web"  -> <<Old, Other>>
    [] c = c1 /\ path = "api"  -> <<Old, New>>
    [] c = c1 /\ path = "docs" -> <<Late>>
    [] c = c2 /\ path = "api"  -> <<Other, New>>
    [] c = c2 /\ path = "docs" -> <<New, Old, Late>>
    [] c = c4                  -> Broken
MCScans == {r1}
MCCommits == {c1, c2, c3, c4}
MCPaths == {"web", "api", "docs"}
MCDependencies == {Old, New, Other, Late}
MCVulnerable == {Old, Other, Late}

(* Dashboard: two rows, two organizations, one panel at a time *)

Panel(t, statuses, dues, names) ==
  [table |-> t, names |-> names, statuses |-> statuses, dues |-> dues]
UrgentNames == {"PENDING", "IN_PROGRESS", "overdue", "due soon"}
MCPanels == {
  Panel("users", {"ACTIVE", "INACTIVE"}, {none}, {"total", "ACTIVE", "INACTIVE"}),
  Panel("vulnerabilities", {"OPEN", "RESOLVED", "ACCEPTED_RISK"}, {none},
        {"total", "OPEN", "IN_PROGRESS", "RESOLVED"}),
  Panel("actions", {"PENDING", "CANCELLED"}, {0, none}, UrgentNames),
  Panel("actions", {"PENDING", "IN_PROGRESS"}, {0, 1}, UrgentNames)}
RowOrg(i) == IF i = x1 THEN o1 ELSE o2
MCRows == {x1, x2}

(* Access: one user whose role changes, two calls *)

MCStaff == {u1}
MCOffices == {o1}
MCRanks == {"Organization Admin", "IT Technician"}
MCUsed == {<<"/vulnerability-findings", "DELETE">>, <<"/devices", "GET">>}

(* Pages: two findings in two organizations; two rows on a page of records *)

MCFindings == {f1, f2}
FindingOrg(f) == IF f = f1 THEN o1 ELSE o2

DeptHome(d) == IF d = d3 THEN o2 ELSE o1
MCTables == {u1 :> [parent |-> o1, child |-> d2] @@ u2 :> [parent |-> o2, child |-> d3]}
MCParentList == <<o1, o2>>
MCChildList == <<d1, d2, d3>>
MCFormCalls == {q1, q2, q3}
MCPageKinds == {"users", "software", "devices"}

-----------------------------------------------------------------------------
(* A behaviour of one part *)

One(S) == CHOOSE x \in S : TRUE
ServicesInit ==
  /\ part \in Parts
  /\ Init /\ (part = "register" \/ scene = "organizations")
  /\ AiInit
  /\ part = "ai" \/ (deployment = One(MCDeployments) /\ past = One(MCHistories))
  /\ ScanInit /\ (part = "scan" \/ head = c1)
  /\ BoardInit /\ (part = "board" \/ panel = One(MCPanels))
  /\ AuditInit /\ (part = "access" \/ member[u1].role = OA)
  /\ DialogInit
  /\ PageInit
  /\ part = "page" \/ kind = "users"

\* A step of a part leaves the others alone.
OnlyRegister == part = "register" /\ UNCHANGED <<part, aiVars, scanVars, boardVars,
  auditVars, dialogVars, pageVars>>
OnlyAi == part = "ai" /\ UNCHANGED <<part, vars, scanVars, boardVars,
  auditVars, dialogVars, pageVars>>
OnlyScan == part = "scan" /\ UNCHANGED <<part, vars, aiVars, boardVars,
  auditVars, dialogVars, pageVars>>
OnlyBoard == part = "board" /\ UNCHANGED <<part, vars, aiVars, scanVars,
  auditVars, dialogVars, pageVars>>
OnlyAccess == part = "access" /\ UNCHANGED <<part, vars, aiVars, scanVars,
  boardVars, dialogVars, pageVars>>
OnlyDialog == part = "dialog" /\ UNCHANGED <<part, vars, aiVars, scanVars,
  boardVars, auditVars, pageVars>>
OnlyPage == part = "page" /\ UNCHANGED <<part, vars, aiVars, scanVars,
  boardVars, auditVars, dialogVars>>

ServicesNext ==
  \/ OnlyRegister /\ Next
  \/ OnlyAi /\ AiNext
  \/ OnlyScan /\ ScanNext
  \/ OnlyBoard /\ BoardNext
  \/ OnlyAccess /\ AuditNext
  \/ OnlyDialog /\ DialogNext
  \/ OnlyPage /\ PageNext

\* The fairness of the parts, in a weaker form: a behaviour is of one part and
\* makes a bounded number of calls, so it is enough that some call goes on.
SomeCallGoesOn ==
  \/ OnlyAi /\ \E r \in TwoRequests : Handle(r)
  \/ OnlyScan /\ \E r \in {r1} : Work(r)
  \/ OnlyAccess /\ \E c \in TwoRequests : Proceed(c)
ServicesFairness == WF_allVars(SomeCallGoesOn)
ServicesSpec == ServicesInit /\ [][ServicesNext]_allVars /\ ServicesFairness

-----------------------------------------------------------------------------
(* Properties of the parts *)

\* Tables, requests and pages of all parts have their types.
ServicesTypeOK ==
  CASE part = "register" -> TypeOK           [] part = "ai"     -> AiTypeOK
    [] part = "scan"     -> ScanTypeOK  [] part = "board"  -> BoardTypeOK
    [] part = "access"   -> AuditTypeOK
    [] part = "dialog"   -> DialogTypeOK
    [] part = "page"     -> PageTypeOK

\* Requests for recommendations are answered, scans end, changes are recorded.
EverythingEnds ==
  EveryRequestAnswered /\ EveryScanEnds /\ EveryChangeRecorded
=============================================================================
