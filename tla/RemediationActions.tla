------------------------- MODULE RemediationActions -------------------------
(***************************************************************************)
(* Remediation actions and their evidence (remediation-actions.service.ts) *)
(* on top of the findings they remediate.  Every handler runs as a request *)
(* whose database statements are separate steps; its local state keeps the *)
(* rows it has read, which may be stale when it uses them.                 *)
(***************************************************************************)
EXTENDS VulnerabilityFindings

CONSTANTS
  ActionIds, EvidenceIds,  \* primary keys of the two tables
  Users,                   \* users that may be assigned
  ActionRequests,          \* remediation requests that may be in flight together
  CreateInputs,            \* bodies of POST /remediation-actions
  UpdateInputs             \* bodies of PATCH /remediation-actions/:id

ActionStatuses == {"PENDING", "IN_PROGRESS", "COMPLETED", "CANCELLED"}
Verifications == {"NOT_VERIFIED", "VERIFIED", "FAILED"}

\* The bodies: started and completed say whether the date is given.
CreateDto == [status : ActionStatuses \cup {Unset},
              verification : Verifications \cup {Unset},
              assignee : Users \cup {None}]
UpdateDto == [status : ActionStatuses \cup {Unset},
              verification : Verifications \cup {Unset},
              started : BOOLEAN, completed : BOOLEAN,
              assignee : Users \cup {None}]

ASSUME ActionAssumption ==
  /\ None \notin ActionIds /\ None \notin EvidenceIds /\ None \notin Users
  /\ CreateInputs \subseteq CreateDto
  /\ UpdateInputs \subseteq UpdateDto

VARIABLES
  actions,   \* the RemediationAction table
  evidence,  \* the RemediationEvidence table
  areq,      \* local state of each remediation request
  userOrg,   \* organization of each user
  moved      \* users that UsersService has moved to another organization

actionVars == <<actions, evidence, areq, userOrg, moved>>
vars == <<findings, freq, alerts, actions, evidence, areq, userOrg, moved>>

ActionRow == [life : Lives, finding : FindingIds \cup {None},
              org : Orgs \cup {None}, status : ActionStatuses,
              verification : Verifications, started : BOOLEAN,
              completed : BOOLEAN, assignee : Users \cup {None}]
NoAction(life) ==
  [life |-> life, finding |-> None, org |-> None, status |-> "PENDING",
   verification |-> "NOT_VERIFIED", started |-> FALSE, completed |-> FALSE,
   assignee |-> None]

EvidenceRow == [life : Lives, action : ActionIds \cup {None},
                org : Orgs \cup {None}]
NoEvidence(life) == [life |-> life, action |-> None, org |-> None]

Steps == {"idle", "checkDuplicate", "checkAssigneeOfNew", "insert",
          "checkAssignee", "update", "sync", "delete", "attach", "detach"}

\* Local state of a request.  finding, org and row are what it read; target is
\* the finding status it is about to write.
ActionRequest ==
  [at : Steps, scope : Scopes, finding : FindingIds \cup {None},
   org : Orgs \cup {None}, action : ActionIds \cup {None},
   item : EvidenceIds \cup {None}, dto : UpdateDto, row : ActionRow,
   target : FindingStatuses]
NoChange == [status |-> Unset, verification |-> Unset, started |-> FALSE,
             completed |-> FALSE, assignee |-> None]
Request(at, scope, org, finding, action, item, dto) ==
  [at |-> at, scope |-> scope, org |-> org, finding |-> finding,
   action |-> action, item |-> item, dto |-> dto, row |-> NoAction("unborn"),
   target |-> "OPEN"]
IdleAction == Request("idle", None, None, None, None, None, NoChange)

LiveAction(a) == actions[a].life = "live"
LiveEvidence(e) == evidence[e].life = "live"
Remediates(a, f) == LiveAction(a) /\ actions[a].finding = f

ActionTypeOK ==
  /\ actions \in [ActionIds -> ActionRow]
  /\ evidence \in [EvidenceIds -> EvidenceRow]
  /\ areq \in [ActionRequests -> ActionRequest]
  /\ userOrg \in [Users -> Orgs]
  /\ moved \in SUBSET Users

TypeOK == FindingTypeOK /\ ActionTypeOK

Init ==
  /\ FindingInit
  /\ actions = [a \in ActionIds |-> NoAction("unborn")]
  /\ evidence = [e \in EvidenceIds |-> NoEvidence("unborn")]
  /\ areq = [r \in ActionRequests |-> IdleAction]
  /\ userOrg \in [Users -> Orgs]
  /\ moved = {}

-----------------------------------------------------------------------------
(* Parts of steps *)

Goto(r, state) == areq' = [areq EXCEPT ![r] = state]
Advance(r, step) == areq' = [areq EXCEPT ![r].at = step]
Finish(r) == Goto(r, IdleAction)

TablesUnchanged == UNCHANGED <<findings, actions, evidence>>
RestUnchanged == UNCHANGED <<freq, alerts, userOrg, moved>>


\* Deleting actions takes their evidence with it (ON DELETE CASCADE).
DeleteActions(S) ==
  /\ actions' = [a \in ActionIds |->
                   IF a \in S THEN NoAction("deleted") ELSE actions[a]]
  /\ evidence' = [e \in EvidenceIds |->
                    IF LiveEvidence(e) /\ evidence[e].action \in S
                    THEN NoEvidence("deleted") ELSE evidence[e]]

-----------------------------------------------------------------------------
(* create: read the finding, look for another action, check the assignee,  *)
(* insert.                                                                 *)

BeginCreate(r, f, scope, dto) ==
  /\ areq[r].at = "idle"
  /\ Live(f) /\ InScope(findings[f].org, scope)
  /\ Goto(r, Request("checkDuplicate", scope, findings[f].org, f, None, None,
                     [status |-> dto.status, verification |-> dto.verification,
                      started |-> FALSE, completed |-> FALSE,
                      assignee |-> dto.assignee]))
  /\ TablesUnchanged /\ RestUnchanged


\* A second action for the finding is a conflict.
CheckDuplicate(r) ==
  /\ areq[r].at = "checkDuplicate"
  /\ IF \E a \in ActionIds : Remediates(a, areq[r].finding)
     THEN Finish(r)
     ELSE Advance(r, IF areq[r].dto.assignee = None THEN "insert"
                                                     ELSE "checkAssigneeOfNew")
  /\ TablesUnchanged /\ RestUnchanged


\* create and update: the assignee must belong to the organization of the row
\* the request has read.
CheckAssignee(r, from, to) ==
  /\ areq[r].at = from
  /\ IF userOrg[areq[r].dto.assignee] = areq[r].org
     THEN Advance(r, to) ELSE Finish(r)
  /\ TablesUnchanged /\ RestUnchanged

\* Mutant: the action gets the caller's organization, not the finding's.
InsertAction_CallerOrg(r, a) ==
  /\ areq[r].at = "insert"
  /\ actions[a].life = "unborn"
  /\ Live(areq[r].finding)
  /\ actions' = [actions EXCEPT ![a] =
                   [NoAction("live") EXCEPT !.finding = areq[r].finding,
                                            !.org = areq[r].scope]]
  /\ Finish(r)
  /\ UNCHANGED <<findings, evidence>> /\ RestUnchanged

\* The insert copies the finding's organization and takes both states from the
\* body unchecked; without the finding the foreign key refuses it.
InsertAction(r, a) ==
  LET q == areq[r]
      row == [life |-> "live", finding |-> q.finding, org |-> q.org,
              status |-> Put("PENDING", q.dto.status),
              verification |-> Put("NOT_VERIFIED", q.dto.verification),
              started |-> FALSE, completed |-> FALSE,
              assignee |-> q.dto.assignee]
  IN /\ q.at = "insert"
     /\ actions[a].life = "unborn"
     /\ actions' = IF Live(q.finding) THEN [actions EXCEPT ![a] = row]
                                      ELSE actions
     /\ Finish(r)
     /\ UNCHANGED <<findings, evidence>> /\ RestUnchanged

-----------------------------------------------------------------------------
(* update: read the action, check the assignee, validate and write the     *)
(* action, then write the status of its finding in a second statement.     *)

\* Mutant: the read forgets the organization scope.
BeginUpdate_Unscoped(r, a, scope, dto) ==
  /\ areq[r].at = "idle" /\ LiveAction(a)
  /\ LET q == Request("update", scope, actions[a].org, actions[a].finding, a,
                      None, dto)
     IN Goto(r, [q EXCEPT !.row = actions[a]])
  /\ TablesUnchanged /\ RestUnchanged

BeginUpdate(r, a, scope, dto) ==
  /\ areq[r].at = "idle"
  /\ LiveAction(a) /\ InScope(actions[a].org, scope)
  /\ LET at == IF dto.assignee = None THEN "update" ELSE "checkAssignee"
         q == Request(at, scope, actions[a].org, actions[a].finding, a, None, dto)
     IN Goto(r, [q EXCEPT !.row = actions[a]])
  /\ TablesUnchanged /\ RestUnchanged

\* Dates that the handler fills in before it validates.
Completes(dto) == dto.completed \/ dto.status = "COMPLETED"
Starts(dto, row) == dto.started \/ (dto.status = "IN_PROGRESS" /\ ~row.started)

\* The states the handler decides on: the body over the row it read.
Decided(dto, row) == [status |-> Put(row.status, dto.status),
                      verification |-> Put(row.verification, dto.verification)]

\* Mutant: nothing ties verification to completion.
Acceptable_NoGate(dto, row) == Completes(dto) => dto.status \in {Unset, "COMPLETED"}

\* Mutant: the gate looks at the body and not at the row.
Acceptable_BodyOnly(dto, row) ==
  dto.verification = "VERIFIED" => Decided(dto, row).status = "COMPLETED"

Acceptable(dto, row) ==
  /\ Completes(dto) => dto.status \in {Unset, "COMPLETED"}
  /\ Decided(dto, row).verification = "VERIFIED" =>
       Decided(dto, row).status = "COMPLETED"

\* The row after the update statement: the body over the row in the table.
Written(current, dto, row) ==
  [life |-> current.life, finding |-> current.finding, org |-> current.org,
   status |-> Put(current.status, dto.status),
   verification |-> Put(current.verification, dto.verification),
   started |-> current.started \/ Starts(dto, row),
   completed |-> current.completed \/ Completes(dto),
   assignee |-> IF dto.assignee = None THEN current.assignee ELSE dto.assignee]

\* Mutant: completion alone resolves the finding.
Resolves_Unverified(decided) == decided.status = "COMPLETED"

Resolves(decided) ==
  decided.status = "COMPLETED" /\ decided.verification = "VERIFIED"
\* Mutants: only one of the two states reaches the finding.
SyncDue_ResolutionOnly(decided) == Resolves(decided)
SyncDue_ProgressOnly(decided) == decided.status = "IN_PROGRESS"

SyncDue(decided) == Resolves(decided) \/ decided.status = "IN_PROGRESS"
SyncTarget(decided) == IF Resolves(decided) THEN "RESOLVED" ELSE "IN_PROGRESS"

UpdateAction(r) ==
  LET q == areq[r]
      decided == Decided(q.dto, q.row)
      ok == Acceptable(q.dto, q.row) /\ LiveAction(q.action)
  IN /\ q.at = "update"
     /\ actions' = IF ok
                   THEN [actions EXCEPT
                           ![q.action] = Written(@, q.dto, q.row)]
                   ELSE actions
     /\ IF ok /\ SyncDue(decided)
        THEN Goto(r, [Request("sync", q.scope, q.org, q.finding, q.action, None,
                              NoChange) EXCEPT !.target = SyncTarget(decided)])
        ELSE Finish(r)
     /\ UNCHANGED <<findings, evidence>> /\ RestUnchanged

\* The separate write of the finding; it throws when the finding is gone.
SyncFinding(r) ==
  LET f == areq[r].finding
  IN /\ areq[r].at = "sync"
     /\ findings' = IF Live(f)
                    THEN [findings EXCEPT ![f].status = areq[r].target]
                    ELSE findings
     /\ Finish(r)
     /\ UNCHANGED <<actions, evidence>> /\ RestUnchanged

-----------------------------------------------------------------------------
(* remove, addEvidence, removeEvidence: read inside the scope, then write. *)


ReadAction(r, a, scope, at) ==
  /\ areq[r].at = "idle"
  /\ LiveAction(a) /\ InScope(actions[a].org, scope)
  /\ Goto(r, Request(at, scope, actions[a].org, None, a, None, NoChange))
  /\ TablesUnchanged /\ RestUnchanged

BeginRemove(r, a, scope) == ReadAction(r, a, scope, "delete")
BeginAddEvidence(r, a, scope) == ReadAction(r, a, scope, "attach")

BeginRemoveEvidence(r, e, scope) ==
  /\ areq[r].at = "idle"
  /\ LiveEvidence(e) /\ InScope(evidence[e].org, scope)
  /\ Goto(r, Request("detach", scope, evidence[e].org, None, None, e, NoChange))
  /\ TablesUnchanged /\ RestUnchanged

DeleteAction(r) ==
  /\ areq[r].at = "delete"
  /\ DeleteActions({areq[r].action} \cap {a \in ActionIds : LiveAction(a)})
  /\ Finish(r)
  /\ UNCHANGED findings /\ RestUnchanged

\* An action that was deleted meanwhile fails the foreign key.
AttachEvidence(r, e) ==
  LET q == areq[r]
      row == [life |-> "live", action |-> q.action, org |-> q.org]
  IN /\ q.at = "attach"
     /\ evidence[e].life = "unborn"
     /\ evidence' = IF LiveAction(q.action) THEN [evidence EXCEPT ![e] = row]
                                            ELSE evidence
     /\ Finish(r)
     /\ UNCHANGED <<findings, actions>> /\ RestUnchanged

DetachEvidence(r) ==
  LET e == areq[r].item
  IN /\ areq[r].at = "detach"
     /\ evidence' = IF LiveEvidence(e)
                    THEN [evidence EXCEPT ![e] = NoEvidence("deleted")]
                    ELSE evidence
     /\ Finish(r)
     /\ UNCHANGED <<findings, actions>> /\ RestUnchanged

\* The pending database call rejects; what was committed before it stays.
FailRequest(r) ==
  /\ DbFaults
  /\ areq[r].at # "idle"
  /\ Finish(r)
  /\ TablesUnchanged /\ RestUnchanged

-----------------------------------------------------------------------------
(* The rest of the system *)

\* UsersService.update may move a user; no table of this module is looked at.
MoveUser(u, org) ==
  /\ userOrg[u] # org
  /\ userOrg' = [userOrg EXCEPT ![u] = org]
  /\ moved' = moved \cup {u}
  /\ UNCHANGED <<findings, freq, alerts, actions, evidence, areq>>

\* Removing a finding cascades to its actions and to their evidence.
RemoveFindingRow(r) ==
  /\ CommitFindingRemoval(r)
  /\ DeleteActions({a \in ActionIds : Remediates(a, freq[r].id)})
  /\ UNCHANGED <<areq, userOrg, moved>>

FindingStep ==
  \/ /\ \/ \E f \in FindingIds, org \in Orgs, scope \in Scopes, dto \in FindingInputs :
              CreateFinding(f, org, scope, dto)
        \/ \E r \in FindingRequests, f \in FindingIds, scope \in Scopes :
              \/ \E dto \in FindingInputs : BeginFindingUpdate(r, f, scope, dto)
              \/ BeginFindingRemoval(r, f, scope)
        \/ \E r \in FindingRequests : CommitFindingUpdate(r)
        \/ \E r \in FindingRequests : FailFindingRequest(r)
        \/ \E f \in FindingIds : SendAlert(f)
     /\ UNCHANGED actionVars
  \/ \E r \in FindingRequests : RemoveFindingRow(r)

BeginStep(r) ==
  \E scope \in Scopes :
    \/ \E f \in FindingIds, dto \in CreateInputs : BeginCreate(r, f, scope, dto)
    \/ \E a \in ActionIds :
         \/ \E dto \in UpdateInputs : BeginUpdate(r, a, scope, dto)
         \/ BeginRemove(r, a, scope)
         \/ BeginAddEvidence(r, a, scope)
    \/ \E e \in EvidenceIds : BeginRemoveEvidence(r, e, scope)

\* What a request that is under way does next, unless its database call fails.
ContinueStep(r) ==
  \/ CheckDuplicate(r)
  \/ CheckAssignee(r, "checkAssigneeOfNew", "insert")
  \/ CheckAssignee(r, "checkAssignee", "update")
  \/ \E a \in ActionIds : InsertAction(r, a)
  \/ UpdateAction(r)
  \/ SyncFinding(r)
  \/ DeleteAction(r)
  \/ \E e \in EvidenceIds : AttachEvidence(r, e)
  \/ DetachEvidence(r)

Next ==
  \/ FindingStep
  \/ \E r \in ActionRequests : BeginStep(r) \/ ContinueStep(r) \/ FailRequest(r)
  \/ \E u \in Users, org \in Orgs : MoveUser(u, org)

\* Node resumes a handler when its database call settles, so a request under
\* way is not abandoned; nothing obliges a client to send another one.
Fairness == \A r \in ActionRequests : WF_vars(ContinueStep(r))

Spec == Init /\ [][Next]_vars
FairSpec == Spec /\ Fairness

-----------------------------------------------------------------------------
(* Properties that hold however the requests interleave *)

\* Every action has its finding and every piece of evidence its action, although
\* each is inserted by a request that read the parent some statements earlier.
ReferencesIntact ==
  /\ \A a \in ActionIds : LiveAction(a) =>
       actions[a].finding \in FindingIds /\ Live(actions[a].finding)
  /\ \A e \in EvidenceIds : LiveEvidence(e) =>
       evidence[e].action \in ActionIds /\ LiveAction(evidence[e].action)

\* An action is in the organization of its finding and evidence in that of its
\* action: the three copies of organizationId, made by different requests on
\* behalf of different callers (a Super Admin has none), never part.
TenantCoherent ==
  /\ \A a \in ActionIds, f \in FindingIds :
       Remediates(a, f) /\ Live(f) => actions[a].org = findings[f].org
  /\ \A e \in EvidenceIds, a \in ActionIds :
       LiveEvidence(e) /\ evidence[e].action = a /\ LiveAction(a) =>
         evidence[e].org = actions[a].org

\* An assignee is a member of the action's organization for as long as nobody
\* moves the user: the check, made in a statement of its own before the write,
\* uses the organization of the row that is written.
AssigneeInOrgUnlessMoved ==
  \A a \in ActionIds : LiveAction(a) /\ actions[a].assignee # None =>
    \/ userOrg[actions[a].assignee] = actions[a].org
    \/ actions[a].assignee \in moved

KnownFinding(f, org) == f \in FindingIds /\ findings[f].life # "unborn"
                          /\ (Live(f) => findings[f].org = org)
KnownAction(a, org) == a \in ActionIds /\ actions[a].life # "unborn"
                         /\ (LiveAction(a) => actions[a].org = org)
KnownEvidence(e, org) == e \in EvidenceIds /\ evidence[e].life # "unborn"
                           /\ (LiveEvidence(e) => evidence[e].org = org)

FindingRequestKnows(r) ==
  freq[r].at # "idle" =>
    /\ freq[r].id \in FindingIds /\ findings[freq[r].id].life # "unborn"
    /\ Live(freq[r].id) => InScope(findings[freq[r].id].org, freq[r].scope)
ActionRequestKnows(r) ==
  /\ areq[r].at # "idle" => InScope(areq[r].org, areq[r].scope)
  /\ areq[r].at \in {"checkDuplicate", "checkAssigneeOfNew", "insert",
                     "checkAssignee", "update", "sync"} =>
       KnownFinding(areq[r].finding, areq[r].org)
  /\ areq[r].at \in {"checkAssignee", "update", "delete", "attach"} =>
       KnownAction(areq[r].action, areq[r].org)
  /\ areq[r].at = "detach" => KnownEvidence(areq[r].item, areq[r].org)

\* However stale the rest of what a request has read may be, the organization it
\* remembers is that of the row it is going to write, for as long as that row
\* exists, and lies in its caller's scope.
RequestsKnowRows ==
  /\ \A r \in FindingRequests : FindingRequestKnows(r)
  /\ \A r \in ActionRequests : ActionRequestKnows(r)

\* What keeps the tables of two tenants apart while requests overlap: the four
\* properties above.
TenantInvariant ==
  ReferencesIntact /\ TenantCoherent /\ AssigneeInOrgUnlessMoved /\ RequestsKnowRows

\* Some request that moves in this step may touch rows of the organization.
StepInScope(org) ==
  \/ \E r \in ActionRequests :
       areq'[r] # areq[r] /\ InScope(org, areq[r].scope)
  \/ \E r \in FindingRequests :
       freq'[r] # freq[r] /\ InScope(org, freq[r].scope)

\* Every change of an existing row, cascades and the write of the finding
\* included, is made for a caller whose scope contains the row.
WritesInScope ==
  [][/\ \A f \in FindingIds : Live(f) /\ findings'[f] # findings[f] =>
          StepInScope(findings[f].org)
     /\ \A a \in ActionIds : LiveAction(a) /\ actions'[a] # actions[a] =>
          StepInScope(actions[a].org)
     /\ \A e \in EvidenceIds : LiveEvidence(e) /\ evidence'[e] # evidence[e] =>
          StepInScope(evidence[e].org)
    ]_vars

\* An action is verified only while it is completed: "verificationStatus can
\* only be VERIFIED when status is COMPLETED".
VerifiedOnlyWhenCompleted ==
  \A a \in ActionIds :
    LiveAction(a) /\ actions[a].verification = "VERIFIED" =>
      actions[a].status = "COMPLETED"

\* The row this request is about to update is still as the request read it.
Fresh(r) == actions[areq[r].action] = areq[r].row

\* An update that writes over the row it validated never leaves that row
\* verified and not completed, whatever other requests do meanwhile.
FreshUpdateKeepsGate ==
  [][\A r \in ActionRequests :
       areq[r].at = "update" /\ Fresh(r) /\ areq'[r] # areq[r]
         /\ actions'[areq[r].action] # actions[areq[r].action] =>
           LET row == actions'[areq[r].action]
           IN row.verification = "VERIFIED" => row.status = "COMPLETED"
    ]_vars

-----------------------------------------------------------------------------
(* Properties that need requests that do not overlap *)

\* A finding has at most one action: create looks for another one first.
OneActionPerFinding ==
  \A a, b \in ActionIds, f \in FindingIds :
    Remediates(a, f) /\ Remediates(b, f) => a = b

\* A request that goes on to resolve the finding has just left its action both
\* completed and verified.
ResolutionIsEarned ==
  \A r \in ActionRequests :
    areq[r].at = "sync" /\ areq[r].target = "RESOLVED"
      /\ LiveAction(areq[r].action) =>
        /\ actions[areq[r].action].status = "COMPLETED"
        /\ actions[areq[r].action].verification = "VERIFIED"
=============================================================================
