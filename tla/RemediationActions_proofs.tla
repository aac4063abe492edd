---------------------- MODULE RemediationActions_proofs ----------------------
(***************************************************************************)
(* Theorems about RemediationActions, for any sets of ids, organizations,  *)
(* users, requests and bodies.  First what holds however requests overlap; *)
(* then what remediation promises when its own requests do not: one action *)
(* per finding, the verification gate, a finding that follows its action,  *)
(* and the atomic ledger of AtomicRemediation.  Finding requests, moves of *)
(* users and any number of rows remain free in that second part.           *)
(***************************************************************************)
EXTENDS SerialRemediation, TLAPS

-----------------------------------------------------------------------------
(* Types *)

\* The records that rows and requests are reset to have their types.
LEMMA Resets ==
  /\ \A life \in Lives : /\ NoFinding(life) \in FindingRow
                         /\ NoAction(life) \in ActionRow
                         /\ NoEvidence(life) \in EvidenceRow
  /\ NoEdit \in FindingDto /\ NoChange \in UpdateDto
  /\ IdleFinding \in FindingRequest /\ IdleAction \in ActionRequest
  BY DEF Lives, NoFinding, FindingRow, FindingStatuses, Exploits, NoAction,
         ActionRow, ActionStatuses, Verifications, NoEvidence, EvidenceRow,
         NoEdit, FindingDto, NoChange, UpdateDto, IdleFinding, FindingRequest,
         IdleAction, Request, ActionRequest, Steps, Scopes

\* A request built from typed parts is typed.
LEMMA RequestType ==
  ASSUME NEW at \in Steps, NEW scope \in Scopes, NEW org \in Orgs \cup {None},
         NEW finding \in FindingIds \cup {None},
         NEW action \in ActionIds \cup {None},
         NEW item \in EvidenceIds \cup {None}, NEW dto \in UpdateDto
  PROVE /\ Request(at, scope, org, finding, action, item, dto) \in ActionRequest
        /\ \A row \in ActionRow :
             [Request(at, scope, org, finding, action, item, dto)
                EXCEPT !.row = row] \in ActionRequest
        /\ \A target \in FindingStatuses :
             [Request(at, scope, org, finding, action, item, dto)
                EXCEPT !.target = target] \in ActionRequest
<1>1. NoAction("unborn") \in ActionRow /\ "OPEN" \in FindingStatuses
  BY Resets DEF Lives, FindingStatuses
<1> QED BY <1>1 DEF Request, ActionRequest

LEMMA InitType == Init => TypeOK
  BY Resets, FindingAssumption
  DEF Init, FindingInit, TypeOK, FindingTypeOK, ActionTypeOK, Lives

LEMMA FindingsNextType ==
  ASSUME FindingTypeOK, [FindingNext]_findingVars
  PROVE FindingTypeOK'
<1> USE FindingAssumption, Resets DEF FindingTypeOK
<1>1. ASSUME NEW f \in FindingIds, NEW org \in Orgs, NEW scope \in Scopes,
             NEW dto \in FindingInputs, CreateFinding(f, org, scope, dto)
      PROVE FindingTypeOK'
  BY <1>1 DEF CreateFinding, QueueAlert, FindingRow, FindingDto, Put, Unset,
              Lives, Exploits, FindingStatuses
<1>2. ASSUME NEW r \in FindingRequests, NEW f \in FindingIds,
             NEW scope \in Scopes, NEW dto \in FindingDto,
             NEW at \in {"update", "delete"}, ReadFinding(r, f, scope, dto, at)
      PROVE FindingTypeOK'
  BY <1>2 DEF ReadFinding, FindingRequest, FindingRow, Scopes
<1>3. ASSUME NEW r \in FindingRequests, CommitFindingUpdate(r)
      PROVE FindingTypeOK'
  BY <1>3 DEF CommitFindingUpdate, FinishFinding, QueueAlert, Edited, Put, Unset,
              FindingRow, FindingRequest, FindingDto, Live
<1>4. ASSUME NEW r \in FindingRequests, CommitFindingRemoval(r)
      PROVE FindingTypeOK'
  BY <1>4 DEF CommitFindingRemoval, FinishFinding, Lives, FindingRequest
<1>5. ASSUME NEW r \in FindingRequests, FailFindingRequest(r)
      PROVE FindingTypeOK'
  BY <1>5 DEF FailFindingRequest, FinishFinding
<1>6. ASSUME NEW f \in FindingIds, SendAlert(f)
      PROVE FindingTypeOK'
  BY <1>6 DEF SendAlert
<1>7. CASE UNCHANGED findingVars
  BY <1>7 DEF findingVars
<1> QED BY <1>1, <1>2, <1>3, <1>4, <1>5, <1>6, <1>7
        DEF FindingNext, BeginFindingUpdate, BeginFindingRemoval

LEMMA FindingStepType ==
  ASSUME TypeOK, FindingStep
  PROVE TypeOK'
<1> USE Resets DEF TypeOK
<1>1. FindingTypeOK'
  BY FindingsNextType DEF FindingStep, FindingNext, RemoveFindingRow
<1>2. CASE UNCHANGED actionVars
  BY <1>1, <1>2 DEF actionVars, ActionTypeOK
<1>3. ASSUME NEW r \in FindingRequests, RemoveFindingRow(r)
      PROVE ActionTypeOK'
  BY <1>3 DEF RemoveFindingRow, DeleteActions, ActionTypeOK, Lives
<1> QED BY <1>1, <1>2, <1>3 DEF FindingStep

LEMMA ActionStepType ==
  ASSUME TypeOK, NEW r \in ActionRequests,
         BeginStep(r) \/ ContinueStep(r) \/ FailRequest(r)
  PROVE TypeOK'
<1> USE FindingAssumption, ActionAssumption, Resets
    DEF TypeOK, ActionTypeOK, TablesUnchanged, RestUnchanged, Goto, Advance,
        Finish
<1>1. ASSUME UNCHANGED <<findings, freq, alerts>> PROVE FindingTypeOK'
  BY <1>1 DEF FindingTypeOK
<1>2. ASSUME NEW f \in FindingIds, NEW scope \in Scopes, NEW dto \in CreateInputs,
             BeginCreate(r, f, scope, dto)
      PROVE TypeOK'
  <2> DEFINE body == [status |-> dto.status, verification |-> dto.verification,
                      started |-> FALSE, completed |-> FALSE,
                      assignee |-> dto.assignee]
  <2>1. body \in UpdateDto
    BY DEF UpdateDto, CreateDto
  <2>2. findings[f].org \in Orgs \cup {None}
    BY DEF FindingTypeOK, FindingRow
  <2>3. Request("checkDuplicate", scope, findings[f].org, f, None, None, body)
          \in ActionRequest
    BY <2>1, <2>2, RequestType DEF Steps
  <2> QED BY <1>1, <1>2, <2>3 DEF BeginCreate
<1>3. ASSUME CheckDuplicate(r) PROVE TypeOK'
  BY <1>1, <1>3 DEF CheckDuplicate, ActionRequest, Steps
<1>4. ASSUME NEW from \in Steps, NEW to \in Steps, CheckAssignee(r, from, to)
      PROVE TypeOK'
  BY <1>1, <1>4 DEF CheckAssignee, ActionRequest
<1>5. ASSUME NEW a \in ActionIds, InsertAction(r, a) PROVE TypeOK'
  BY <1>1, <1>5 DEF InsertAction, ActionRequest, ActionRow, UpdateDto, Put, Unset,
                    Lives, ActionStatuses, Verifications
<1>6. ASSUME NEW a \in ActionIds, NEW scope \in Scopes, NEW dto \in UpdateInputs,
             BeginUpdate(r, a, scope, dto)
      PROVE TypeOK'
  <2>1. actions[a] \in ActionRow /\ dto \in UpdateDto
    BY DEF ActionRow
  <2>2. actions[a].org \in Orgs \cup {None}
        /\ actions[a].finding \in FindingIds \cup {None}
    BY <2>1 DEF ActionRow
  <2> DEFINE at == IF dto.assignee = None THEN "update" ELSE "checkAssignee"
             q == Request(at, scope, actions[a].org, actions[a].finding, a, None, dto)
  <2>3. at \in Steps
    BY DEF Steps
  <2> HIDE DEF at
  <2>4. [q EXCEPT !.row = actions[a]] \in ActionRequest
    BY <2>1, <2>2, <2>3, RequestType
  <2> HIDE DEF q
  <2>5. areq' = [areq EXCEPT ![r] = [q EXCEPT !.row = actions[a]]]
    BY <1>6 DEF BeginUpdate, q, at
  <2> QED BY <1>1, <1>6, <2>4, <2>5 DEF BeginUpdate
<1>7. ASSUME UpdateAction(r) PROVE TypeOK'
  <2>1. Written(actions[areq[r].action], areq[r].dto, areq[r].row) \in ActionRow
        \/ areq[r].action \notin ActionIds
    BY DEF Written, ActionRequest, ActionRow, UpdateDto, Put, Unset
  <2>2. actions' \in [ActionIds -> ActionRow]
    BY <1>7, <2>1 DEF UpdateAction
  <2>3. SyncTarget(Decided(areq[r].dto, areq[r].row)) \in FindingStatuses
    BY DEF SyncTarget, FindingStatuses
  <2> DEFINE q == areq[r]
             next == Request("sync", q.scope, q.org, q.finding, q.action, None,
                             NoChange)
  <2>4. [next EXCEPT !.target = SyncTarget(Decided(q.dto, q.row))] \in ActionRequest
    <3>1. /\ q.scope \in Scopes /\ q.org \in Orgs \cup {None}
          /\ q.finding \in FindingIds \cup {None}
          /\ q.action \in ActionIds \cup {None}
      BY DEF ActionRequest
    <3> QED BY <2>3, <3>1, RequestType DEF Steps
  <2> HIDE DEF next
  <2>5. \/ areq' = [areq EXCEPT
                     ![r] = [next EXCEPT !.target = SyncTarget(Decided(q.dto, q.row))]]
        \/ areq' = [areq EXCEPT ![r] = IdleAction]
    BY <1>7 DEF UpdateAction, next
  <2>6. areq' \in [ActionRequests -> ActionRequest]
    BY <2>4, <2>5
  <2> QED BY <1>1, <1>7, <2>2, <2>6 DEF UpdateAction
<1>8. ASSUME SyncFinding(r) PROVE TypeOK'
  <2>1. areq[r].target \in FindingStatuses
    BY DEF ActionRequest
  <2>2. \A f \in FindingIds :
          [findings[f] EXCEPT !.status = areq[r].target] \in FindingRow
    BY <2>1 DEF FindingTypeOK, FindingRow
  <2>3. findings' \in [FindingIds -> FindingRow]
    BY <1>8, <2>2 DEF SyncFinding, FindingTypeOK
  <2> QED BY <1>8, <2>3 DEF SyncFinding, FindingTypeOK
<1>9. ASSUME NEW a \in ActionIds, NEW scope \in Scopes, NEW at \in Steps,
             ReadAction(r, a, scope, at)
      PROVE TypeOK'
  <2>1. actions[a].org \in Orgs \cup {None}
    BY DEF ActionRow
  <2>2. Request(at, scope, actions[a].org, None, a, None, NoChange) \in ActionRequest
    BY <2>1, RequestType
  <2> QED BY <1>1, <1>9, <2>2 DEF ReadAction
<1>10. ASSUME NEW e \in EvidenceIds, NEW scope \in Scopes,
              BeginRemoveEvidence(r, e, scope)
       PROVE TypeOK'
  <2>1. evidence[e].org \in Orgs \cup {None}
    BY DEF EvidenceRow
  <2>2. Request("detach", scope, evidence[e].org, None, None, e, NoChange)
          \in ActionRequest
    BY <2>1, RequestType DEF Steps
  <2> QED BY <1>1, <1>10, <2>2 DEF BeginRemoveEvidence
<1>11. ASSUME DeleteAction(r) PROVE TypeOK'
  BY <1>1, <1>11 DEF DeleteAction, DeleteActions, Lives
<1>12. ASSUME NEW e \in EvidenceIds, AttachEvidence(r, e) PROVE TypeOK'
  BY <1>1, <1>12 DEF AttachEvidence, EvidenceRow, ActionRequest, Lives
<1>13. ASSUME DetachEvidence(r) PROVE TypeOK'
  BY <1>1, <1>13 DEF DetachEvidence, Lives
<1>14. ASSUME FailRequest(r) PROVE TypeOK'
  BY <1>1, <1>14 DEF FailRequest
<1>15. CASE BeginStep(r)
  BY <1>15, <1>2, <1>6, <1>9, <1>10
  DEF BeginStep, BeginRemove, BeginAddEvidence, Steps
<1>16. CASE ContinueStep(r)
  BY <1>16, <1>3, <1>4, <1>5, <1>7, <1>8, <1>11, <1>12, <1>13
  DEF ContinueStep, Steps
<1> QED BY <1>14, <1>15, <1>16

LEMMA NextType ==
  ASSUME TypeOK, [Next]_vars
  PROVE TypeOK'
<1>1. CASE FindingStep
  BY <1>1, FindingStepType
<1>2. ASSUME NEW r \in ActionRequests,
             BeginStep(r) \/ ContinueStep(r) \/ FailRequest(r)
      PROVE TypeOK'
  BY <1>2, ActionStepType
<1>3. ASSUME NEW u \in Users, NEW org \in Orgs, MoveUser(u, org)
      PROVE TypeOK'
  BY <1>3 DEF MoveUser, TypeOK, FindingTypeOK, ActionTypeOK
<1>4. CASE UNCHANGED vars
  BY <1>4 DEF vars, TypeOK, FindingTypeOK, ActionTypeOK
<1> QED BY <1>1, <1>2, <1>3, <1>4 DEF Next

\* Every variable keeps its type: rows, and what the requests remember of them.
THEOREM TypeCorrect == Spec => []TypeOK
  BY InitType, NextType, PTL DEF Spec

-----------------------------------------------------------------------------
(* Rows and what the requests remember of them *)

RowsInv == ReferencesIntact /\ TenantCoherent /\ RequestsKnowRows
IInv == TypeOK /\ RowsInv

\* A row never returns to being unborn or alive, and a row that stays alive keeps
\* its organization and its parent.
RowsEvolve ==
  /\ \A f \in FindingIds : findings[f].life # "unborn" =>
       /\ findings'[f].life # "unborn"
       /\ findings'[f].life = "live" =>
            findings[f].life = "live" /\ findings'[f].org = findings[f].org
  /\ \A a \in ActionIds : actions[a].life # "unborn" =>
       /\ actions'[a].life # "unborn"
       /\ actions'[a].life = "live" =>
            /\ actions[a].life = "live" /\ actions'[a].org = actions[a].org
            /\ actions'[a].finding = actions[a].finding
  /\ \A e \in EvidenceIds : evidence[e].life # "unborn" =>
       /\ evidence'[e].life # "unborn"
       /\ evidence'[e].life = "live" =>
            /\ evidence[e].life = "live" /\ evidence'[e].org = evidence[e].org
            /\ evidence'[e].action = evidence[e].action

LEMMA FindingStepEvolves ==
  ASSUME TypeOK, FindingStep
  PROVE RowsEvolve
<1> USE DEF TypeOK, FindingTypeOK, ActionTypeOK, RowsEvolve
<1>1. ASSUME UNCHANGED actionVars,
             \E f \in FindingIds, org \in Orgs, scope \in Scopes,
                dto \in FindingInputs : CreateFinding(f, org, scope, dto)
      PROVE RowsEvolve
  BY <1>1 DEF actionVars, CreateFinding
<1>2. ASSUME UNCHANGED actionVars, UNCHANGED findings PROVE RowsEvolve
  BY <1>2 DEF actionVars
<1>3. ASSUME UNCHANGED actionVars, NEW r \in FindingRequests,
             CommitFindingUpdate(r)
      PROVE RowsEvolve
  BY <1>3 DEF actionVars, CommitFindingUpdate, Edited, FindingRow
<1>4. ASSUME NEW r \in FindingRequests, RemoveFindingRow(r) PROVE RowsEvolve
  BY <1>4 DEF RemoveFindingRow, CommitFindingRemoval, NoFinding, DeleteActions,
              NoAction, NoEvidence
<1> QED
  BY <1>1, <1>2, <1>3, <1>4
  DEF FindingStep, BeginFindingUpdate, BeginFindingRemoval, ReadFinding,
      FailFindingRequest, SendAlert

LEMMA ActionStepEvolves ==
  ASSUME TypeOK, NEW r \in ActionRequests,
         BeginStep(r) \/ ContinueStep(r) \/ FailRequest(r)
  PROVE RowsEvolve
<1> USE DEF TypeOK, FindingTypeOK, ActionTypeOK, RowsEvolve
<1>1. ASSUME UNCHANGED <<findings, actions, evidence>> PROVE RowsEvolve
  BY <1>1
<1>2. CASE BeginStep(r) \/ FailRequest(r)
  BY <1>1, <1>2
  DEF BeginStep, BeginCreate, BeginUpdate, BeginRemove, BeginAddEvidence,
      ReadAction, BeginRemoveEvidence, FailRequest, TablesUnchanged
<1>3. ASSUME \/ CheckDuplicate(r)
             \/ CheckAssignee(r, "checkAssigneeOfNew", "insert")
             \/ CheckAssignee(r, "checkAssignee", "update")
      PROVE RowsEvolve
  BY <1>1, <1>3 DEF CheckDuplicate, CheckAssignee, TablesUnchanged
<1>4. ASSUME NEW a \in ActionIds, InsertAction(r, a) PROVE RowsEvolve
  BY <1>4 DEF InsertAction
<1>5. ASSUME UpdateAction(r) PROVE RowsEvolve
  BY <1>5 DEF UpdateAction, Written
<1>6. ASSUME SyncFinding(r) PROVE RowsEvolve
  <2>1. \A f \in FindingIds : /\ findings'[f].life = findings[f].life
                              /\ findings'[f].org = findings[f].org
    BY <1>6 DEF SyncFinding, FindingRow
  <2> QED BY <1>6, <2>1 DEF SyncFinding
<1>7. ASSUME DeleteAction(r) PROVE RowsEvolve
  BY <1>7 DEF DeleteAction, DeleteActions, NoAction, NoEvidence
<1>8. ASSUME NEW e \in EvidenceIds, AttachEvidence(r, e) PROVE RowsEvolve
  BY <1>8 DEF AttachEvidence
<1>9. ASSUME DetachEvidence(r) PROVE RowsEvolve
  BY <1>9 DEF DetachEvidence, NoEvidence
<1> QED
  BY <1>2, <1>3, <1>4, <1>5, <1>6, <1>7, <1>8, <1>9 DEF ContinueStep

LEMMA NextEvolves ==
  ASSUME TypeOK, [Next]_vars
  PROVE RowsEvolve
<1>1. CASE FindingStep
  BY <1>1, FindingStepEvolves
<1>2. ASSUME NEW r \in ActionRequests,
             BeginStep(r) \/ ContinueStep(r) \/ FailRequest(r)
      PROVE RowsEvolve
  BY <1>2, ActionStepEvolves
<1>3. CASE UNCHANGED <<findings, actions, evidence>>
  BY <1>3 DEF RowsEvolve
<1> QED BY <1>1, <1>2, <1>3 DEF Next, MoveUser, vars

\* The references stay intact in a step that neither removes a parent nor adds a
\* child.
LEMMA QuietStepKeepsReferences ==
  ASSUME TypeOK, ReferencesIntact, TenantCoherent, RowsEvolve,
         \A f \in FindingIds : Live(f) => Live(f)',
         \A a \in ActionIds : LiveAction(a) <=> LiveAction(a)',
         \A e \in EvidenceIds : LiveEvidence(e)' => LiveEvidence(e)
  PROVE ReferencesIntact' /\ TenantCoherent'
<1>1. \A a \in ActionIds : LiveAction(a)' =>
        /\ LiveAction(a) /\ actions'[a].org = actions[a].org
        /\ actions'[a].finding = actions[a].finding
  BY DEF RowsEvolve, LiveAction
<1>2. \A e \in EvidenceIds : LiveEvidence(e)' =>
        /\ LiveEvidence(e) /\ evidence'[e].org = evidence[e].org
        /\ evidence'[e].action = evidence[e].action
  BY DEF RowsEvolve, LiveEvidence
<1>3. \A f \in FindingIds : Live(f) => findings'[f].org = findings[f].org
  BY DEF RowsEvolve, Live
<1>4. ReferencesIntact'
  BY <1>1, <1>2 DEF ReferencesIntact
<1>5. ASSUME NEW a \in ActionIds, NEW f \in FindingIds,
             Remediates(a, f)', Live(f)'
      PROVE actions'[a].org = findings'[f].org
  BY <1>1, <1>3, <1>5 DEF Remediates, ReferencesIntact, TenantCoherent
<1>6. ASSUME NEW e \in EvidenceIds, NEW a \in ActionIds,
             LiveEvidence(e)', evidence'[e].action = a, LiveAction(a)'
      PROVE evidence'[e].org = actions'[a].org
  BY <1>1, <1>2, <1>6 DEF TenantCoherent
<1> QED BY <1>4, <1>5, <1>6 DEF TenantCoherent

LEMMA FindingStepKeepsReferences ==
  ASSUME IInv, FindingStep
  PROVE ReferencesIntact' /\ TenantCoherent'
<1> USE DEF IInv, RowsInv
<1>1. RowsEvolve
  BY FindingStepEvolves
<1>2. ASSUME UNCHANGED actionVars, \A f \in FindingIds : Live(f) => Live(f)'
      PROVE ReferencesIntact' /\ TenantCoherent'
  BY <1>1, <1>2, QuietStepKeepsReferences DEF actionVars, LiveAction, LiveEvidence
<1>3. ASSUME NEW f \in FindingIds, NEW org \in Orgs, NEW scope \in Scopes,
             NEW dto \in FindingInputs, CreateFinding(f, org, scope, dto)
      PROVE \A g \in FindingIds : Live(g) => Live(g)'
  BY <1>3 DEF CreateFinding, Live, TypeOK, FindingTypeOK
<1>4. ASSUME NEW r \in FindingRequests, CommitFindingUpdate(r)
      PROVE \A g \in FindingIds : Live(g) => Live(g)'
  BY <1>4 DEF CommitFindingUpdate, Live, Edited, TypeOK, FindingTypeOK
<1>5. ASSUME NEW r \in FindingRequests, RemoveFindingRow(r)
      PROVE ReferencesIntact' /\ TenantCoherent'
  <2> DEFINE S == {a \in ActionIds : Remediates(a, freq[r].id)}
  <2>1. /\ freq[r].at = "delete"
        /\ findings' = IF Live(freq[r].id)
                       THEN [findings EXCEPT ![freq[r].id] = NoFinding("deleted")]
                       ELSE findings
        /\ actions' = [a \in ActionIds |->
                         IF a \in S THEN NoAction("deleted") ELSE actions[a]]
        /\ evidence' = [e \in EvidenceIds |->
                          IF LiveEvidence(e) /\ evidence[e].action \in S
                          THEN NoEvidence("deleted") ELSE evidence[e]]
    BY <1>5 DEF RemoveFindingRow, CommitFindingRemoval, DeleteActions
  <2>2. \A a \in ActionIds : LiveAction(a)' =>
          a \notin S /\ LiveAction(a) /\ actions'[a] = actions[a]
    BY <2>1 DEF LiveAction, NoAction
  <2>3. \A e \in EvidenceIds : LiveEvidence(e)' =>
          /\ evidence[e].action \notin S /\ LiveEvidence(e)
          /\ evidence'[e] = evidence[e]
    BY <2>1 DEF LiveEvidence, NoEvidence
  <2>4. \A f \in FindingIds : f # freq[r].id => findings'[f] = findings[f]
    BY <2>1 DEF TypeOK, FindingTypeOK
  <2>5. \A a \in ActionIds : LiveAction(a)' =>
          actions[a].finding # freq[r].id
    BY <2>2 DEF Remediates
  <2>6. \A a \in ActionIds : LiveAction(a) /\ a \notin S => actions'[a] = actions[a]
    BY <2>1
  <2> HIDE DEF S
  <2>7. \A a \in ActionIds : LiveAction(a)' =>
          /\ actions'[a].finding \in FindingIds
          /\ findings'[actions'[a].finding] = findings[actions[a].finding]
          /\ Live(actions[a].finding)
    BY <2>2, <2>4, <2>5 DEF ReferencesIntact
  <2>8. \A e \in EvidenceIds : LiveEvidence(e)' =>
          /\ evidence'[e].action \in ActionIds
          /\ LiveAction(evidence[e].action)
          /\ actions'[evidence'[e].action] = actions[evidence[e].action]
    BY <2>3, <2>6 DEF ReferencesIntact
  <2>9. ReferencesIntact'
    BY <2>7, <2>8 DEF ReferencesIntact, Live, LiveAction
  <2>10. TenantCoherent'
    <3>1. ASSUME NEW a \in ActionIds, NEW f \in FindingIds,
                 Remediates(a, f)', Live(f)'
          PROVE actions'[a].org = findings'[f].org
      BY <2>2, <2>7, <3>1 DEF Remediates, TenantCoherent
    <3>2. ASSUME NEW e \in EvidenceIds, NEW a \in ActionIds,
                 LiveEvidence(e)', evidence'[e].action = a, LiveAction(a)'
          PROVE evidence'[e].org = actions'[a].org
      BY <2>3, <2>8, <3>2 DEF TenantCoherent
    <3> QED BY <3>1, <3>2 DEF TenantCoherent
  <2> QED BY <2>9, <2>10
<1> QED
  BY <1>2, <1>3, <1>4, <1>5
  DEF FindingStep, BeginFindingUpdate, BeginFindingRemoval, ReadFinding,
      FailFindingRequest, SendAlert, Live

LEMMA ActionStepKeepsReferences ==
  ASSUME IInv, NEW r \in ActionRequests,
         BeginStep(r) \/ ContinueStep(r) \/ FailRequest(r)
  PROVE ReferencesIntact' /\ TenantCoherent'
<1> USE DEF IInv, RowsInv
<1>1. RowsEvolve
  BY ActionStepEvolves
<1>2. TypeOK'
  BY ActionStepType
<1>3. ASSUME UNCHANGED <<findings, actions>>,
             \A e \in EvidenceIds : LiveEvidence(e)' => LiveEvidence(e)
      PROVE ReferencesIntact' /\ TenantCoherent'
  BY <1>1, <1>3, QuietStepKeepsReferences DEF Live, LiveAction
<1>4. ASSUME NEW a \in ActionIds, InsertAction(r, a)
      PROVE ReferencesIntact' /\ TenantCoherent'
  <2>1. CASE ~Live(areq[r].finding)
    BY <1>3, <1>4, <2>1 DEF InsertAction, LiveEvidence
  <2>2. CASE Live(areq[r].finding)
    <3>1. /\ KnownFinding(areq[r].finding, areq[r].org)
          /\ actions[a].life = "unborn"
          /\ UNCHANGED <<findings, evidence>>
          /\ actions'[a].life = "live" /\ actions'[a].finding = areq[r].finding
          /\ actions'[a].org = areq[r].org
          /\ \A b \in ActionIds : b # a => actions'[b] = actions[b]
      BY <1>4, <2>2 DEF InsertAction, RequestsKnowRows, ActionRequestKnows, TypeOK,
                        ActionTypeOK
    <3>2. \A b \in ActionIds : LiveAction(b) => LiveAction(b)' /\ b # a
      BY <3>1 DEF LiveAction
    <3>3. ReferencesIntact'
      BY <3>1, <3>2, <2>2 DEF ReferencesIntact, KnownFinding, Live, LiveAction,
                              LiveEvidence
    <3>4. TenantCoherent'
      <4>1. ASSUME NEW b \in ActionIds, NEW f \in FindingIds,
                   Remediates(b, f)', Live(f)'
            PROVE actions'[b].org = findings'[f].org
        BY <3>1, <4>1 DEF Remediates, LiveAction, Live, KnownFinding, TenantCoherent
      <4>2. ASSUME NEW e \in EvidenceIds, NEW b \in ActionIds,
                   LiveEvidence(e)', evidence'[e].action = b, LiveAction(b)'
            PROVE evidence'[e].org = actions'[b].org
        BY <3>1, <3>2, <4>2 DEF LiveEvidence, LiveAction, TenantCoherent,
                                ReferencesIntact
      <4> QED BY <4>1, <4>2 DEF TenantCoherent
    <3> QED BY <3>3, <3>4
  <2> QED BY <2>1, <2>2
<1>5. ASSUME UpdateAction(r) PROVE ReferencesIntact' /\ TenantCoherent'
  <2>1. \A a \in ActionIds : LiveAction(a) <=> LiveAction(a)'
    BY <1>5 DEF UpdateAction, Written, LiveAction, TypeOK, ActionTypeOK
  <2> QED BY <1>1, <1>5, <2>1, QuietStepKeepsReferences
          DEF UpdateAction, Live, LiveEvidence
<1>6. ASSUME SyncFinding(r) PROVE ReferencesIntact' /\ TenantCoherent'
  <2>1. \A f \in FindingIds : Live(f) => Live(f)'
    BY <1>6 DEF SyncFinding, Live, TypeOK, FindingTypeOK, FindingRow
  <2> QED BY <1>1, <1>6, <2>1, QuietStepKeepsReferences
          DEF SyncFinding, LiveAction, LiveEvidence
<1>7. ASSUME DeleteAction(r) PROVE ReferencesIntact' /\ TenantCoherent'
  <2> DEFINE S == {areq[r].action} \cap {a \in ActionIds : LiveAction(a)}
  <2>1. /\ UNCHANGED findings
        /\ actions' = [a \in ActionIds |->
                         IF a \in S THEN NoAction("deleted") ELSE actions[a]]
        /\ evidence' = [e \in EvidenceIds |->
                          IF LiveEvidence(e) /\ evidence[e].action \in S
                          THEN NoEvidence("deleted") ELSE evidence[e]]
    BY <1>7 DEF DeleteAction, DeleteActions
  <2> HIDE DEF S
  <2>2. \A a \in ActionIds : LiveAction(a)' =>
          a \notin S /\ LiveAction(a) /\ actions'[a] = actions[a]
    BY <2>1 DEF LiveAction, NoAction
  <2>3. \A e \in EvidenceIds : LiveEvidence(e)' =>
          /\ evidence[e].action \notin S /\ LiveEvidence(e)
          /\ evidence'[e] = evidence[e]
    BY <2>1 DEF LiveEvidence, NoEvidence
  <2>4. \A a \in ActionIds : LiveAction(a) /\ a \notin S => actions'[a] = actions[a]
    BY <2>1
  <2>5. ReferencesIntact'
    BY <2>1, <2>2, <2>3, <2>4 DEF ReferencesIntact, Live, LiveAction
  <2>6. TenantCoherent'
    BY <2>1, <2>2, <2>3 DEF TenantCoherent, Remediates, Live
  <2> QED BY <2>5, <2>6
<1>8. ASSUME NEW e \in EvidenceIds, AttachEvidence(r, e)
      PROVE ReferencesIntact' /\ TenantCoherent'
  <2>1. CASE ~LiveAction(areq[r].action)
    BY <1>3, <1>8, <2>1 DEF AttachEvidence, LiveEvidence
  <2>2. CASE LiveAction(areq[r].action)
    <3>1. /\ KnownAction(areq[r].action, areq[r].org)
          /\ UNCHANGED <<findings, actions>>
          /\ evidence'[e].life = "live" /\ evidence'[e].action = areq[r].action
          /\ evidence'[e].org = areq[r].org
          /\ \A d \in EvidenceIds : d # e => evidence'[d] = evidence[d]
      BY <1>8, <2>2 DEF AttachEvidence, RequestsKnowRows, ActionRequestKnows, TypeOK,
                        ActionTypeOK
    <3> QED BY <2>2, <3>1 DEF ReferencesIntact, TenantCoherent, KnownAction, Live,
                              LiveAction, LiveEvidence, Remediates
  <2> QED BY <2>1, <2>2
<1>9. ASSUME DetachEvidence(r) PROVE ReferencesIntact' /\ TenantCoherent'
  BY <1>3, <1>9 DEF DetachEvidence, LiveEvidence, NoEvidence, TypeOK, ActionTypeOK
<1>10. ASSUME UNCHANGED <<findings, actions, evidence>>
       PROVE ReferencesIntact' /\ TenantCoherent'
  BY <1>3, <1>10 DEF LiveEvidence
<1>11. CASE BeginStep(r) \/ FailRequest(r)
  BY <1>10, <1>11
  DEF BeginStep, BeginCreate, BeginUpdate, BeginRemove, BeginAddEvidence,
      ReadAction, BeginRemoveEvidence, FailRequest, TablesUnchanged
<1>12. CASE ContinueStep(r)
  BY <1>4, <1>5, <1>6, <1>7, <1>8, <1>9, <1>10, <1>12
  DEF ContinueStep, CheckDuplicate, CheckAssignee, TablesUnchanged
<1> QED BY <1>11, <1>12

\* A request that does not move keeps knowing its rows.
LEMMA WaitingRequestsKnowRows ==
  ASSUME RequestsKnowRows, RowsEvolve
  PROVE /\ \A r \in FindingRequests :
             freq'[r] = freq[r] => FindingRequestKnows(r)'
        /\ \A f, org : KnownFinding(f, org) => KnownFinding(f, org)'
        /\ \A a, org : KnownAction(a, org) => KnownAction(a, org)'
        /\ \A e, org : KnownEvidence(e, org) => KnownEvidence(e, org)'
<1>1. ASSUME NEW r \in FindingRequests, freq'[r] = freq[r]
      PROVE FindingRequestKnows(r)'
  BY <1>1 DEF RequestsKnowRows, FindingRequestKnows, RowsEvolve, Live
<1>2. \A f, org : KnownFinding(f, org) => KnownFinding(f, org)'
  BY DEF KnownFinding, RowsEvolve, Live
<1>3. \A a, org : KnownAction(a, org) => KnownAction(a, org)'
  BY DEF KnownAction, RowsEvolve, LiveAction
<1>4. \A e, org : KnownEvidence(e, org) => KnownEvidence(e, org)'
  BY DEF KnownEvidence, RowsEvolve, LiveEvidence
<1> QED BY <1>1, <1>2, <1>3, <1>4

LEMMA FindingStepKnows ==
  ASSUME IInv, FindingStep
  PROVE RequestsKnowRows'
<1> USE DEF IInv, RowsInv
<1>1. RowsEvolve
  BY FindingStepEvolves
<1>2. UNCHANGED areq
  BY DEF FindingStep, actionVars, RemoveFindingRow
<1>3. \A r \in ActionRequests : ActionRequestKnows(r)'
  BY <1>1, <1>2, WaitingRequestsKnowRows DEF RequestsKnowRows, ActionRequestKnows
<1>4. ASSUME UNCHANGED freq
      PROVE \A r \in FindingRequests : FindingRequestKnows(r)'
  BY <1>1, <1>4, WaitingRequestsKnowRows
<1>5. ASSUME NEW r \in FindingRequests, NEW f \in FindingIds, NEW scope \in Scopes,
             NEW dto, NEW at \in {"update", "delete"},
             ReadFinding(r, f, scope, dto, at)
      PROVE \A q \in FindingRequests : FindingRequestKnows(q)'
  <2>1. FindingRequestKnows(r)'
    BY <1>5 DEF ReadFinding, FindingRequestKnows, Live, TypeOK, FindingTypeOK
  <2>2. \A q \in FindingRequests : q # r => freq'[q] = freq[q]
    BY <1>5 DEF ReadFinding, TypeOK, FindingTypeOK
  <2> QED BY <1>1, <2>1, <2>2, WaitingRequestsKnowRows
<1>6. ASSUME NEW r \in FindingRequests, FinishFinding(r)
      PROVE \A q \in FindingRequests : FindingRequestKnows(q)'
  <2>1. FindingRequestKnows(r)'
    BY <1>6 DEF FinishFinding, FindingRequestKnows, IdleFinding, TypeOK,
                FindingTypeOK
  <2>2. \A q \in FindingRequests : q # r => freq'[q] = freq[q]
    BY <1>6 DEF FinishFinding, TypeOK, FindingTypeOK
  <2> QED BY <1>1, <2>1, <2>2, WaitingRequestsKnowRows
<1>7. \A r \in FindingRequests : FindingRequestKnows(r)'
  BY <1>4, <1>5, <1>6
  DEF FindingStep, CreateFinding, BeginFindingUpdate, BeginFindingRemoval,
      CommitFindingUpdate, FailFindingRequest, SendAlert, RemoveFindingRow,
      CommitFindingRemoval
<1> QED BY <1>3, <1>7 DEF RequestsKnowRows

LEMMA ActionStepKnows ==
  ASSUME IInv, NEW r \in ActionRequests,
         BeginStep(r) \/ ContinueStep(r) \/ FailRequest(r)
  PROVE RequestsKnowRows'
<1> USE DEF IInv, RowsInv
<1>1. RowsEvolve
  BY ActionStepEvolves
<1>2. UNCHANGED freq /\ \A q \in ActionRequests : q # r => areq'[q] = areq[q]
  BY DEF BeginStep, BeginCreate, BeginUpdate, BeginRemove, BeginAddEvidence,
         ReadAction, BeginRemoveEvidence, ContinueStep, CheckDuplicate,
         CheckAssignee, InsertAction, UpdateAction, SyncFinding, DeleteAction,
         AttachEvidence, DetachEvidence, FailRequest, RestUnchanged, Goto,
         Advance, Finish, TypeOK, ActionTypeOK
<1>3. SUFFICES ActionRequestKnows(r)'
  BY <1>1, <1>2, <1>3, WaitingRequestsKnowRows
  DEF RequestsKnowRows, ActionRequestKnows
<1>4. ASSUME Finish(r) PROVE ActionRequestKnows(r)'
  BY <1>4 DEF Finish, Goto, IdleAction, Request, ActionRequestKnows, TypeOK,
              ActionTypeOK
<1>5. ASSUME NEW from, NEW to, areq[r].at = from, Advance(r, to),
             \/ from = "checkDuplicate" /\ to \in {"insert", "checkAssigneeOfNew"}
             \/ from = "checkAssigneeOfNew" /\ to = "insert"
             \/ from = "checkAssignee" /\ to = "update"
      PROVE ActionRequestKnows(r)'
  <2>1. /\ areq'[r].at = to /\ areq'[r].org = areq[r].org
        /\ areq'[r].scope = areq[r].scope /\ areq'[r].finding = areq[r].finding
        /\ areq'[r].action = areq[r].action
    BY <1>5 DEF Advance, TypeOK, ActionTypeOK, ActionRequest
  <2>2. ActionRequestKnows(r)
    BY DEF RequestsKnowRows
  <2> QED BY <1>1, <1>5, <2>1, <2>2, WaitingRequestsKnowRows DEF ActionRequestKnows
<1>6. ASSUME NEW f \in FindingIds, NEW scope \in Scopes, NEW dto \in CreateInputs,
             BeginCreate(r, f, scope, dto)
      PROVE ActionRequestKnows(r)'
  BY <1>6 DEF BeginCreate, Goto, Request, ActionRequestKnows, KnownFinding, Live,
              TablesUnchanged, TypeOK, ActionTypeOK
<1>7. ASSUME NEW a \in ActionIds, NEW scope \in Scopes, NEW dto \in UpdateInputs,
             BeginUpdate(r, a, scope, dto)
      PROVE ActionRequestKnows(r)'
  <2>1. /\ areq'[r].at \in {"update", "checkAssignee"}
        /\ areq'[r].scope = scope /\ areq'[r].org = actions[a].org
        /\ areq'[r].finding = actions[a].finding /\ areq'[r].action = a
        /\ LiveAction(a) /\ InScope(actions[a].org, scope)
        /\ UNCHANGED <<findings, actions>>
    BY <1>7 DEF BeginUpdate, Goto, Request, TablesUnchanged, TypeOK, ActionTypeOK
  <2>2. KnownAction(a, actions[a].org)'
    BY <2>1 DEF KnownAction, LiveAction
  <2>3. KnownFinding(actions[a].finding, actions[a].org)'
    BY <2>1 DEF KnownFinding, Live, LiveAction, ReferencesIntact, TenantCoherent,
                Remediates
  <2> QED BY <2>1, <2>2, <2>3 DEF ActionRequestKnows
<1>8. ASSUME NEW a \in ActionIds, NEW scope \in Scopes, NEW at \in {"delete", "attach"},
             ReadAction(r, a, scope, at)
      PROVE ActionRequestKnows(r)'
  BY <1>8 DEF ReadAction, Goto, Request, ActionRequestKnows, KnownAction,
              LiveAction, TablesUnchanged, TypeOK, ActionTypeOK
<1>9. ASSUME NEW e \in EvidenceIds, NEW scope \in Scopes,
             BeginRemoveEvidence(r, e, scope)
      PROVE ActionRequestKnows(r)'
  BY <1>9 DEF BeginRemoveEvidence, Goto, Request, ActionRequestKnows,
              KnownEvidence, LiveEvidence, TablesUnchanged, TypeOK, ActionTypeOK
<1>10. ASSUME UpdateAction(r), ~Finish(r) PROVE ActionRequestKnows(r)'
  <2>1. /\ areq'[r].at = "sync" /\ areq'[r].org = areq[r].org
        /\ areq'[r].scope = areq[r].scope /\ areq'[r].finding = areq[r].finding
    BY <1>10 DEF UpdateAction, Goto, Request, TypeOK, ActionTypeOK
  <2>2. areq[r].at = "update" /\ ActionRequestKnows(r)
    BY <1>10 DEF UpdateAction, RequestsKnowRows
  <2> QED BY <1>1, <2>1, <2>2, WaitingRequestsKnowRows DEF ActionRequestKnows
<1>11. CASE BeginStep(r)
  BY <1>11, <1>6, <1>7, <1>8, <1>9 DEF BeginStep, BeginRemove, BeginAddEvidence
<1>12. CASE ContinueStep(r)
  BY <1>12, <1>4, <1>5, <1>10
  DEF ContinueStep, CheckDuplicate, CheckAssignee, InsertAction, SyncFinding,
      DeleteAction, AttachEvidence, DetachEvidence
<1>13. CASE FailRequest(r)
  BY <1>13, <1>4 DEF FailRequest
<1> QED BY <1>11, <1>12, <1>13

LEMMA InitInv == Init => IInv
  BY InitType, FindingAssumption
  DEF IInv, RowsInv, Init, FindingInit, ReferencesIntact, TenantCoherent,
      RequestsKnowRows, FindingRequestKnows, ActionRequestKnows, NoFinding,
      NoAction, NoEvidence, IdleFinding, IdleAction, Request, Live, LiveAction,
      LiveEvidence, Remediates

LEMMA NextInv == IInv /\ [Next]_vars => IInv'
<1> SUFFICES ASSUME IInv, [Next]_vars PROVE RowsInv'
  BY NextType DEF IInv
<1>1. CASE FindingStep
  BY <1>1, FindingStepKeepsReferences, FindingStepKnows DEF RowsInv
<1>2. ASSUME NEW r \in ActionRequests,
             BeginStep(r) \/ ContinueStep(r) \/ FailRequest(r)
      PROVE RowsInv'
  BY <1>2, ActionStepKeepsReferences, ActionStepKnows DEF RowsInv
<1>3. CASE UNCHANGED <<findings, freq, actions, evidence, areq>>
  BY <1>3
  DEF IInv, RowsInv, ReferencesIntact, TenantCoherent, RequestsKnowRows,
      FindingRequestKnows, ActionRequestKnows, KnownFinding, KnownAction,
      KnownEvidence, Live, LiveAction, LiveEvidence, Remediates
<1> QED BY <1>1, <1>2, <1>3 DEF Next, MoveUser, vars

LEMMA Invariance == Spec => []IInv
  BY InitInv, NextInv, PTL DEF Spec

\* No row outlives the row it belongs to, and the organizations of a finding, of
\* its actions and of their evidence never part.
THEOREM TenantSafety == Spec => [](ReferencesIntact /\ TenantCoherent)
  BY Invariance, PTL DEF IInv, RowsInv

\* A request knows the organization of the row it writes, however long it has
\* been waiting.
THEOREM RequestsSafety == Spec => []RequestsKnowRows
  BY Invariance, PTL DEF IInv, RowsInv

-----------------------------------------------------------------------------
(* Writes stay in the scope of their caller *)

RowsWrittenInScope ==
  /\ \A f \in FindingIds : Live(f) /\ findings'[f] # findings[f] =>
       StepInScope(findings[f].org)
  /\ \A a \in ActionIds : LiveAction(a) /\ actions'[a] # actions[a] =>
       StepInScope(actions[a].org)
  /\ \A e \in EvidenceIds : LiveEvidence(e) /\ evidence'[e] # evidence[e] =>
       StepInScope(evidence[e].org)

LEMMA FindingStepInScope ==
  ASSUME IInv, FindingStep
  PROVE RowsWrittenInScope
<1> USE DEF IInv, RowsInv, TypeOK, FindingTypeOK, ActionTypeOK
<1>1. ASSUME UNCHANGED actionVars,
             \A f \in FindingIds : Live(f) => findings'[f] = findings[f]
      PROVE RowsWrittenInScope
  BY <1>1 DEF RowsWrittenInScope, actionVars
<1>2. ASSUME NEW r \in FindingRequests, freq[r].at # "idle", FinishFinding(r),
             Live(freq[r].id)
      PROVE StepInScope(findings[freq[r].id].org)
  BY <1>2 DEF FinishFinding, IdleFinding, StepInScope, RequestsKnowRows,
              FindingRequestKnows
<1>3. ASSUME UNCHANGED actionVars, NEW r \in FindingRequests,
             CommitFindingUpdate(r)
      PROVE RowsWrittenInScope
  <2>1. \A f \in FindingIds : findings'[f] # findings[f] =>
          f = freq[r].id /\ Live(f)
    BY <1>3 DEF CommitFindingUpdate
  <2> QED BY <1>2, <1>3, <2>1
          DEF RowsWrittenInScope, actionVars, CommitFindingUpdate
<1>4. ASSUME NEW r \in FindingRequests, RemoveFindingRow(r)
      PROVE RowsWrittenInScope
  <2>1. \A f \in FindingIds : findings'[f] # findings[f] =>
          f = freq[r].id /\ Live(f)
    BY <1>4 DEF RemoveFindingRow, CommitFindingRemoval
  <2>2. \A a \in ActionIds : actions'[a] # actions[a] => Remediates(a, freq[r].id)
    BY <1>4 DEF RemoveFindingRow, DeleteActions
  <2>3. \A e \in EvidenceIds : evidence'[e] # evidence[e] =>
          LiveEvidence(e) /\ Remediates(evidence[e].action, freq[r].id)
    BY <1>4 DEF RemoveFindingRow, DeleteActions
  <2>4. Live(freq[r].id) => StepInScope(findings[freq[r].id].org)
    BY <1>2, <1>4 DEF RemoveFindingRow, CommitFindingRemoval
  <2>5. \A a \in ActionIds : Remediates(a, freq[r].id) =>
          Live(freq[r].id) /\ actions[a].org = findings[freq[r].id].org
    BY DEF ReferencesIntact, TenantCoherent, Remediates
  <2>6. \A e \in EvidenceIds : LiveEvidence(e) =>
          /\ evidence[e].action \in ActionIds
          /\ evidence[e].org = actions[evidence[e].action].org
    BY DEF ReferencesIntact, TenantCoherent
  <2> QED BY <2>1, <2>2, <2>3, <2>4, <2>5, <2>6 DEF RowsWrittenInScope
<1> QED
  BY <1>1, <1>3, <1>4
  DEF FindingStep, CreateFinding, BeginFindingUpdate, BeginFindingRemoval,
      ReadFinding, FailFindingRequest, SendAlert, Live

LEMMA ActionStepInScope ==
  ASSUME IInv, NEW r \in ActionRequests,
         BeginStep(r) \/ ContinueStep(r) \/ FailRequest(r)
  PROVE RowsWrittenInScope
<1> USE DEF IInv, RowsInv, TypeOK, FindingTypeOK, ActionTypeOK
<1>1. ASSUME UNCHANGED <<findings, actions, evidence>> PROVE RowsWrittenInScope
  BY <1>1 DEF RowsWrittenInScope
<1>2. ActionRequestKnows(r)
  BY DEF RequestsKnowRows
<1>3. ASSUME areq'[r] # areq[r], areq[r].at # "idle"
      PROVE StepInScope(areq[r].org)
  BY <1>2, <1>3 DEF StepInScope, ActionRequestKnows
<1>4. ASSUME NEW a \in ActionIds, InsertAction(r, a) PROVE RowsWrittenInScope
  BY <1>4 DEF InsertAction, RowsWrittenInScope, LiveAction
<1>5. ASSUME UpdateAction(r) PROVE RowsWrittenInScope
  <2>1. /\ \A a \in ActionIds : actions'[a] # actions[a] =>
             a = areq[r].action /\ LiveAction(a)
        /\ UNCHANGED <<findings, evidence>>
        /\ areq[r].at = "update" /\ areq'[r] # areq[r]
    BY <1>5 DEF UpdateAction, Finish, Goto, IdleAction, Request
  <2> QED BY <1>2, <1>3, <2>1
          DEF RowsWrittenInScope, ActionRequestKnows, KnownAction
<1>6. ASSUME SyncFinding(r) PROVE RowsWrittenInScope
  <2>1. /\ \A f \in FindingIds : findings'[f] # findings[f] =>
             f = areq[r].finding /\ Live(f)
        /\ UNCHANGED <<actions, evidence>>
        /\ areq[r].at = "sync" /\ areq'[r] # areq[r]
    BY <1>6 DEF SyncFinding, Finish, Goto, IdleAction, Request
  <2> QED BY <1>2, <1>3, <2>1
          DEF RowsWrittenInScope, ActionRequestKnows, KnownFinding
<1>7. ASSUME DeleteAction(r) PROVE RowsWrittenInScope
  <2>1. /\ \A a \in ActionIds : actions'[a] # actions[a] =>
             a = areq[r].action /\ LiveAction(a)
        /\ \A e \in EvidenceIds : evidence'[e] # evidence[e] =>
             LiveEvidence(e) /\ evidence[e].action = areq[r].action
        /\ UNCHANGED findings
        /\ areq[r].at = "delete" /\ areq'[r] # areq[r]
    BY <1>7 DEF DeleteAction, DeleteActions, Finish, Goto, IdleAction, Request
  <2>2. \A e \in EvidenceIds : LiveEvidence(e) =>
          /\ evidence[e].action \in ActionIds
          /\ LiveAction(evidence[e].action)
          /\ evidence[e].org = actions[evidence[e].action].org
    BY DEF ReferencesIntact, TenantCoherent
  <2> QED BY <1>2, <1>3, <2>1, <2>2
          DEF RowsWrittenInScope, ActionRequestKnows, KnownAction
<1>8. ASSUME NEW e \in EvidenceIds, AttachEvidence(r, e) PROVE RowsWrittenInScope
  BY <1>8 DEF AttachEvidence, RowsWrittenInScope, LiveEvidence
<1>9. ASSUME DetachEvidence(r) PROVE RowsWrittenInScope
  <2>1. /\ \A e \in EvidenceIds : evidence'[e] # evidence[e] =>
             e = areq[r].item /\ LiveEvidence(e)
        /\ UNCHANGED <<findings, actions>>
        /\ areq[r].at = "detach" /\ areq'[r] # areq[r]
    BY <1>9 DEF DetachEvidence, Finish, Goto, IdleAction, Request
  <2> QED BY <1>2, <1>3, <2>1
          DEF RowsWrittenInScope, ActionRequestKnows, KnownEvidence
<1>10. CASE BeginStep(r) \/ FailRequest(r)
  BY <1>1, <1>10
  DEF BeginStep, BeginCreate, BeginUpdate, BeginRemove, BeginAddEvidence,
      ReadAction, BeginRemoveEvidence, FailRequest, TablesUnchanged
<1>11. CASE ContinueStep(r)
  BY <1>1, <1>4, <1>5, <1>6, <1>7, <1>8, <1>9, <1>11
  DEF ContinueStep, CheckDuplicate, CheckAssignee, TablesUnchanged
<1> QED BY <1>10, <1>11

\* Every change of an existing row is made for a caller whose scope contains it,
\* although the writes name rows by id alone.
THEOREM ScopeSafety == Spec => WritesInScope
<1>1. IInv /\ [Next]_vars => [RowsWrittenInScope]_vars
  <2> SUFFICES ASSUME IInv, Next PROVE RowsWrittenInScope
    OBVIOUS
  <2>1. CASE FindingStep
    BY <2>1, FindingStepInScope
  <2>2. ASSUME NEW r \in ActionRequests,
               BeginStep(r) \/ ContinueStep(r) \/ FailRequest(r)
        PROVE RowsWrittenInScope
    BY <2>2, ActionStepInScope
  <2>3. ASSUME NEW u \in Users, NEW org \in Orgs, MoveUser(u, org)
        PROVE RowsWrittenInScope
    BY <2>3 DEF MoveUser, RowsWrittenInScope
  <2> QED BY <2>1, <2>2, <2>3 DEF Next
<1>2. Spec => [][RowsWrittenInScope]_vars
  BY <1>1, Invariance, PTL DEF Spec
<1> QED BY <1>2 DEF WritesInScope, RowsWrittenInScope

-----------------------------------------------------------------------------
(* The assignee *)

Belongs(u, org) == u = None \/ userOrg[u] = org \/ u \in moved

\* A request past the check carries an assignee that passed it.
CheckedAssignees ==
  \A r \in ActionRequests : areq[r].at \in {"insert", "update"} =>
    Belongs(areq[r].dto.assignee, areq[r].org)

AssigneeInv == AssigneeInOrgUnlessMoved /\ CheckedAssignees

LEMMA AssigneeMoves ==
  ASSUME TypeOK, AssigneeInv, NEW u \in Users, NEW org \in Orgs, MoveUser(u, org)
  PROVE AssigneeInv'
  BY DEF MoveUser, AssigneeInv, AssigneeInOrgUnlessMoved, CheckedAssignees,
         Belongs, LiveAction, TypeOK, ActionTypeOK

LEMMA AssigneeRequests ==
  ASSUME TypeOK, CheckedAssignees, NEW r \in ActionRequests,
         BeginStep(r) \/ ContinueStep(r) \/ FailRequest(r)
  PROVE CheckedAssignees'
<1> USE DEF TypeOK, ActionTypeOK, TablesUnchanged, RestUnchanged
<1>1. UNCHANGED <<userOrg, moved>> /\ \A q \in ActionRequests : q # r => areq'[q] = areq[q]
  BY DEF BeginStep, BeginCreate, BeginUpdate, BeginRemove, BeginAddEvidence,
         ReadAction, BeginRemoveEvidence, ContinueStep, CheckDuplicate,
         CheckAssignee, InsertAction, UpdateAction, SyncFinding, DeleteAction,
         AttachEvidence, DetachEvidence, FailRequest, Goto, Advance, Finish
<1>2. SUFFICES areq'[r].at \in {"insert", "update"} =>
                 Belongs(areq[r].dto.assignee, areq[r].org)'
  BY <1>1, <1>2 DEF CheckedAssignees, Belongs
<1>3. ASSUME NEW to, Advance(r, to)
      PROVE areq'[r].at = to /\ areq'[r].dto = areq[r].dto /\ areq'[r].org = areq[r].org
  BY <1>3 DEF Advance, ActionRequest
<1>4. ASSUME Finish(r) PROVE areq'[r].at = "idle"
  BY <1>4 DEF Finish, Goto, IdleAction, Request
<1>5. CASE BeginStep(r)
  <2>1. ASSUME NEW a \in ActionIds, NEW scope \in Scopes, NEW dto \in UpdateInputs,
               BeginUpdate(r, a, scope, dto)
        PROVE areq'[r].at = "update" => areq'[r].dto.assignee = None
    BY <2>1 DEF BeginUpdate, Goto, Request
  <2>2. ASSUME NEW a \in ActionIds, NEW scope \in Scopes, NEW dto \in UpdateInputs,
               BeginUpdate(r, a, scope, dto)
        PROVE areq'[r].at # "insert"
    BY <2>2 DEF BeginUpdate, Goto, Request
  <2> QED BY <1>5, <2>1, <2>2
          DEF BeginStep, BeginCreate, BeginRemove, BeginAddEvidence, ReadAction,
              BeginRemoveEvidence, Goto, Request, Belongs
<1>6. ASSUME CheckDuplicate(r)
      PROVE areq'[r].at = "insert" => areq'[r].dto.assignee = None
  BY <1>3, <1>4, <1>6 DEF CheckDuplicate
<1>7. ASSUME CheckDuplicate(r) PROVE areq'[r].at # "update"
  BY <1>3, <1>4, <1>7 DEF CheckDuplicate
<1>8. ASSUME NEW from, NEW to, CheckAssignee(r, from, to)
      PROVE \/ areq'[r].at = "idle"
            \/ Belongs(areq[r].dto.assignee, areq[r].org)'
  BY <1>1, <1>3, <1>4, <1>8 DEF CheckAssignee, Belongs
<1>9. ASSUME UpdateAction(r), ~Finish(r) PROVE areq'[r].at = "sync"
  BY <1>9 DEF UpdateAction, Goto, Request
<1>10. CASE ContinueStep(r)
  BY <1>4, <1>6, <1>7, <1>8, <1>9, <1>10
  DEF ContinueStep, InsertAction, SyncFinding, DeleteAction, AttachEvidence,
      DetachEvidence, Belongs
<1>11. CASE FailRequest(r)
  BY <1>4, <1>11 DEF FailRequest
<1> QED BY <1>5, <1>10, <1>11

LEMMA AssigneeWrites ==
  ASSUME IInv, AssigneeInv, NEW r \in ActionRequests,
         BeginStep(r) \/ ContinueStep(r) \/ FailRequest(r)
  PROVE AssigneeInOrgUnlessMoved'
<1> USE DEF IInv, TypeOK, ActionTypeOK, TablesUnchanged, RestUnchanged
<1>1. UNCHANGED <<userOrg, moved>>
  BY DEF BeginStep, BeginCreate, BeginUpdate, BeginRemove, BeginAddEvidence,
         ReadAction, BeginRemoveEvidence, ContinueStep, CheckDuplicate,
         CheckAssignee, InsertAction, UpdateAction, SyncFinding, DeleteAction,
         AttachEvidence, DetachEvidence, FailRequest
<1>2. ASSUME \A a \in ActionIds : LiveAction(a)' => actions'[a] = actions[a]
      PROVE AssigneeInOrgUnlessMoved'
  BY <1>1, <1>2 DEF AssigneeInv, AssigneeInOrgUnlessMoved, LiveAction
<1>3. ASSUME NEW b \in ActionIds, InsertAction(r, b)
      PROVE AssigneeInOrgUnlessMoved'
  BY <1>1, <1>3 DEF InsertAction, AssigneeInv, AssigneeInOrgUnlessMoved,
                    CheckedAssignees, Belongs, LiveAction
<1>4. ASSUME UpdateAction(r) PROVE AssigneeInOrgUnlessMoved'
  <2>1. \A a \in ActionIds : LiveAction(a)' /\ actions'[a] # actions[a] =>
          /\ a = areq[r].action /\ LiveAction(a) /\ actions'[a].org = actions[a].org
          /\ \/ actions'[a].assignee = actions[a].assignee
             \/ actions'[a].assignee = areq[r].dto.assignee
    BY <1>4 DEF UpdateAction, Written, LiveAction
  <2>2. LiveAction(areq[r].action) => actions[areq[r].action].org = areq[r].org
    BY <1>4 DEF UpdateAction, RowsInv, RequestsKnowRows, ActionRequestKnows,
                KnownAction
  <2>3. Belongs(areq[r].dto.assignee, areq[r].org)
    BY <1>4 DEF UpdateAction, AssigneeInv, CheckedAssignees
  <2>4. \A a \in ActionIds : LiveAction(a)' => LiveAction(a)
    BY <2>1 DEF LiveAction
  <2> QED BY <1>1, <2>1, <2>2, <2>3, <2>4
          DEF AssigneeInv, AssigneeInOrgUnlessMoved, Belongs
<1>5. ASSUME DeleteAction(r)
      PROVE \A a \in ActionIds : LiveAction(a)' => actions'[a] = actions[a]
  BY <1>5 DEF DeleteAction, DeleteActions, LiveAction, NoAction
<1>6. CASE BeginStep(r) \/ FailRequest(r)
  BY <1>2, <1>6
  DEF BeginStep, BeginCreate, BeginUpdate, BeginRemove, BeginAddEvidence,
      ReadAction, BeginRemoveEvidence, FailRequest
<1>7. CASE ContinueStep(r)
  BY <1>2, <1>3, <1>4, <1>5, <1>7
  DEF ContinueStep, CheckDuplicate, CheckAssignee, SyncFinding, AttachEvidence,
      DetachEvidence
<1> QED BY <1>6, <1>7

\* An assignee belongs to the organization of the action unless the user has
\* been moved: the check and the write are separate statements, but both use the
\* organization that RequestsKnowRows says the row still has.
THEOREM AssigneeSafety == Spec => []AssigneeInOrgUnlessMoved
<1>1. Init => AssigneeInv
  BY DEF Init, AssigneeInv, AssigneeInOrgUnlessMoved, CheckedAssignees, LiveAction,
         NoAction, IdleAction, Request
<1>2. IInv /\ AssigneeInv /\ [Next]_vars => AssigneeInv'
  <2> SUFFICES ASSUME IInv, AssigneeInv, [Next]_vars PROVE AssigneeInv'
    OBVIOUS
  <2>1. ASSUME NEW r \in FindingRequests, RemoveFindingRow(r) PROVE AssigneeInv'
    BY <2>1 DEF RemoveFindingRow, DeleteActions, AssigneeInv, Belongs,
                AssigneeInOrgUnlessMoved, CheckedAssignees, LiveAction, NoAction
  <2>2. CASE UNCHANGED actionVars
    BY <2>2 DEF actionVars, AssigneeInv, AssigneeInOrgUnlessMoved,
                CheckedAssignees, LiveAction, Belongs
  <2>3. ASSUME NEW r \in ActionRequests,
               BeginStep(r) \/ ContinueStep(r) \/ FailRequest(r)
        PROVE AssigneeInv'
    BY <2>3, AssigneeRequests, AssigneeWrites DEF AssigneeInv, IInv
  <2>4. ASSUME NEW u \in Users, NEW org \in Orgs, MoveUser(u, org)
        PROVE AssigneeInv'
    BY <2>4, AssigneeMoves DEF IInv
  <2> QED BY <2>1, <2>2, <2>3, <2>4 DEF Next, FindingStep, vars, actionVars
<1>3. AssigneeInv => AssigneeInOrgUnlessMoved
  BY DEF AssigneeInv
<1> QED BY <1>1, <1>2, <1>3, Invariance, PTL DEF Spec

-----------------------------------------------------------------------------
\* Everything that keeps two tenants apart while requests overlap.
THEOREM Tenancy == Spec => []TenantInvariant
  BY TenantSafety, RequestsSafety, AssigneeSafety, PTL DEF TenantInvariant

-----------------------------------------------------------------------------
(* The verification gate *)

\* An update that writes over the row it has validated keeps the gate: it is the
\* only step of its request that changes that row, and what it writes is what it
\* has decided on.
THEOREM GateKept == Spec => FreshUpdateKeepsGate
<1> DEFINE Gate ==
      \A r \in ActionRequests :
        areq[r].at = "update" /\ Fresh(r) /\ areq'[r] # areq[r]
          /\ actions'[areq[r].action] # actions[areq[r].action] =>
            LET row == actions'[areq[r].action]
            IN row.verification = "VERIFIED" => row.status = "COMPLETED"
<1>1. TypeOK /\ [Next]_vars => [Gate]_vars
  <2> SUFFICES ASSUME TypeOK, Next, NEW r \in ActionRequests,
                      areq[r].at = "update", Fresh(r), areq'[r] # areq[r],
                      actions'[areq[r].action] # actions[areq[r].action]
               PROVE LET row == actions'[areq[r].action]
                     IN row.verification = "VERIFIED" => row.status = "COMPLETED"
    OBVIOUS
  <2> USE DEF TypeOK, ActionTypeOK
  <2>1. ASSUME NEW q \in ActionRequests, BeginStep(q) \/ ContinueStep(q) \/ FailRequest(q)
        PROVE \A p \in ActionRequests : p # q => areq'[p] = areq[p]
    BY <2>1 DEF BeginStep, BeginCreate, BeginUpdate, BeginRemove, BeginAddEvidence,
       ReadAction, BeginRemoveEvidence, ContinueStep, CheckDuplicate, CheckAssignee,
       InsertAction, UpdateAction, SyncFinding, DeleteAction, AttachEvidence,
       DetachEvidence, FailRequest, Goto, Advance, Finish
  <2>2. BeginStep(r) \/ ContinueStep(r) \/ FailRequest(r)
    BY <2>1 DEF Next, FindingStep, RemoveFindingRow, MoveUser, actionVars
  <2>3. UpdateAction(r)
    BY <2>2 DEF BeginStep, BeginCreate, BeginUpdate, BeginRemove, BeginAddEvidence,
       ReadAction, BeginRemoveEvidence, ContinueStep, CheckDuplicate, CheckAssignee,
       InsertAction, SyncFinding, DeleteAction, AttachEvidence, DetachEvidence,
       FailRequest, TablesUnchanged
  <2>4. /\ Acceptable(areq[r].dto, areq[r].row)
        /\ areq[r].action \in ActionIds =>
             actions'[areq[r].action] =
               Written(actions[areq[r].action], areq[r].dto, areq[r].row)
    BY <2>3 DEF UpdateAction
  <2>5. areq[r].action \in ActionIds
    BY <2>3 DEF UpdateAction
  <2>6. /\ actions'[areq[r].action].status = Decided(areq[r].dto, areq[r].row).status
        /\ actions'[areq[r].action].verification
             = Decided(areq[r].dto, areq[r].row).verification
    BY <2>4, <2>5 DEF Written, Decided, Fresh
  <2> QED BY <2>4, <2>6 DEF Acceptable
<1>2. Spec => [][Gate]_vars
  BY <1>1, TypeCorrect, PTL DEF Spec
<1> QED BY <1>2 DEF FreshUpdateKeepsGate

-----------------------------------------------------------------------------
(* Progress: the safety half of ProgressReachesFinding *)

\* The statements that a request still has before it, at most.
LeftAt(at) == CASE at \in {"checkDuplicate", "checkAssignee"}    -> 3
                [] at \in {"checkAssigneeOfNew", "update"}       -> 2
                [] at \in {"insert", "sync", "delete", "attach", "detach"} -> 1
                [] OTHER                                         -> 0
StatementsLeft(r) == LeftAt(areq[r].at)

RequestsAdvance == \A r \in ActionRequests :
  /\ ContinueStep(r) => StatementsLeft(r)' < StatementsLeft(r)
  /\ areq[r].at # "idle" =>
       /\ StatementsLeft(r) \in 1 .. 3
       /\ areq'[r] = areq[r] \/ StatementsLeft(r)' < StatementsLeft(r)

\* A request leaves the statement that writes its finding with the status in the
\* row, or because the row is gone or the statement failed.
OwedStatusIsWritten == \A r \in ActionRequests :
  areq[r].at = "sync" /\ areq'[r] # areq[r] =>
    \/ findings'[areq[r].finding].status = areq[r].target
    \/ (~Live(areq[r].finding) \/ DbFaults) /\ UNCHANGED findings

LEMMA StatementsOfSteps ==
  /\ \A at \in Steps : LeftAt(at) \in 0 .. 3 /\ (at # "idle" => LeftAt(at) # 0)
  /\ LeftAt("idle") = 0
  /\ LeftAt("checkAssigneeOfNew") < LeftAt("checkDuplicate")
  /\ LeftAt("insert") < LeftAt("checkDuplicate")
  /\ LeftAt("insert") < LeftAt("checkAssigneeOfNew")
  /\ LeftAt("update") < LeftAt("checkAssignee")
  /\ LeftAt("sync") < LeftAt("update")
<1>1. \A at \in Steps : LeftAt(at) \in 0 .. 3 /\ (at # "idle" => LeftAt(at) # 0)
  BY DEF LeftAt, Steps
<1> QED BY <1>1 DEF LeftAt

\* A request that goes to another state, and one that only advances.
LEMMA RequestGoes ==
  ASSUME TypeOK, NEW r \in ActionRequests, NEW state, Goto(r, state)
  PROVE  areq'[r] = state /\ StatementsLeft(r)' = LeftAt(state.at)
<1>1. areq'[r] = state
  BY DEF TypeOK, ActionTypeOK, Goto
<1> QED BY <1>1 DEF StatementsLeft

LEMMA RequestAdvances ==
  ASSUME TypeOK, NEW r \in ActionRequests, NEW step, Advance(r, step)
  PROVE  StatementsLeft(r)' = LeftAt(step)
<1>1. areq'[r].at = step
  BY DEF TypeOK, ActionTypeOK, ActionRequest, Advance
<1> QED BY <1>1 DEF StatementsLeft

\* A request that is over has nothing left, so any step that ends one advances it.
LEMMA RequestEnds ==
  ASSUME TypeOK, NEW r \in ActionRequests, Finish(r), areq[r].at # "idle"
  PROVE  StatementsLeft(r)' < StatementsLeft(r)
<1>1. StatementsLeft(r)' = 0
  BY RequestGoes, StatementsOfSteps DEF Finish, IdleAction, Request
<1>2. StatementsLeft(r) \in 0 .. 3 /\ StatementsLeft(r) # 0
  BY StatementsOfSteps DEF TypeOK, ActionTypeOK, ActionRequest, StatementsLeft
<1> QED BY <1>1, <1>2

LEMMA ContinueAdvances ==
  ASSUME TypeOK, NEW r \in ActionRequests, ContinueStep(r)
  PROVE  StatementsLeft(r)' < StatementsLeft(r)
<1>1. CASE CheckDuplicate(r)
  BY <1>1, RequestEnds, RequestAdvances, StatementsOfSteps
  DEF CheckDuplicate, StatementsLeft
<1>2. CASE CheckAssignee(r, "checkAssigneeOfNew", "insert")
  BY <1>2, RequestEnds, RequestAdvances, StatementsOfSteps
  DEF CheckAssignee, StatementsLeft
<1>3. CASE CheckAssignee(r, "checkAssignee", "update")
  BY <1>3, RequestEnds, RequestAdvances, StatementsOfSteps
  DEF CheckAssignee, StatementsLeft
<1>4. CASE UpdateAction(r)
  <2> DEFINE q == areq[r]
             sync == [Request("sync", q.scope, q.org, q.finding, q.action, None,
                              NoChange)
                        EXCEPT !.target = SyncTarget(Decided(q.dto, q.row))]
  <2>1. sync.at = "sync"
    BY DEF Request
  <2>2. q.at = "update" /\ (Goto(r, sync) \/ Finish(r))
    BY <1>4 DEF UpdateAction
  <2> HIDE DEF sync
  <2>3. CASE Goto(r, sync)
    BY <2>1, <2>2, <2>3, RequestGoes, StatementsOfSteps DEF StatementsLeft
  <2> QED BY <2>2, <2>3, RequestEnds
<1>5. CASE \/ \E a \in ActionIds : InsertAction(r, a)
           \/ SyncFinding(r) \/ DeleteAction(r)
           \/ \E e \in EvidenceIds : AttachEvidence(r, e)
           \/ DetachEvidence(r)
  <2>1. Finish(r) /\ areq[r].at # "idle"
    BY <1>5 DEF InsertAction, SyncFinding, DeleteAction, AttachEvidence, DetachEvidence
  <2> QED BY <2>1, RequestEnds
<1> QED BY <1>1, <1>2, <1>3, <1>4, <1>5 DEF ContinueStep

\* A request moves by its own steps only; it begins when it is idle.
LEMMA RequestMoves ==
  ASSUME TypeOK, [Next]_vars, NEW r \in ActionRequests
  PROVE  areq'[r] = areq[r] \/ BeginStep(r) \/ ContinueStep(r) \/ FailRequest(r)
<1>1. CASE UNCHANGED areq
  BY <1>1
<1>2. ASSUME NEW q \in ActionRequests, q # r,
             BeginStep(q) \/ ContinueStep(q) \/ FailRequest(q)
      PROVE  areq'[r] = areq[r]
  <2>1. \/ \E state : Goto(q, state)
        \/ \E step : Advance(q, step)
    BY <1>2
    DEF BeginStep, BeginCreate, BeginUpdate, BeginRemove, BeginAddEvidence,
        ReadAction, BeginRemoveEvidence, ContinueStep, CheckDuplicate,
        CheckAssignee, InsertAction, UpdateAction, SyncFinding, DeleteAction,
        AttachEvidence, DetachEvidence, FailRequest, Finish
  <2> QED BY <1>2, <2>1 DEF Goto, Advance, TypeOK, ActionTypeOK
<1>3. FindingStep => UNCHANGED areq
  BY DEF FindingStep, actionVars, RemoveFindingRow
<1>4. \A u \in Users, org \in Orgs : MoveUser(u, org) => UNCHANGED areq
  BY DEF MoveUser
<1> QED BY <1>1, <1>2, <1>3, <1>4 DEF Next, vars

LEMMA OthersLeaveRequests ==
  ASSUME TypeOK, [Next]_vars, NEW r \in ActionRequests, areq[r].at # "idle"
  PROVE  areq'[r] = areq[r] \/ ContinueStep(r) \/ FailRequest(r)
<1>1. ~BeginStep(r)
  BY DEF BeginStep, BeginCreate, BeginUpdate, BeginRemove, BeginAddEvidence,
         ReadAction, BeginRemoveEvidence
<1> QED BY <1>1, RequestMoves

\* A remediation request takes three statements at most after its read, and
\* nothing but its own statements moves it; the status that an update leaves owing
\* to the finding stays owed until it is written, however many other requests run.
\* With WF of ContinueStep this is why an accepted change reaches its finding.
THEOREM RemediationAdvances == Spec => [][RequestsAdvance /\ OwedStatusIsWritten]_vars
<1>1. IInv /\ [Next]_vars => RequestsAdvance
  <2> SUFFICES ASSUME IInv, [Next]_vars, NEW r \in ActionRequests
               PROVE  /\ ContinueStep(r) => StatementsLeft(r)' < StatementsLeft(r)
                      /\ areq[r].at # "idle" =>
                           /\ StatementsLeft(r) \in 1 .. 3
                           /\ \/ areq'[r] = areq[r]
                              \/ StatementsLeft(r)' < StatementsLeft(r)
    BY DEF RequestsAdvance
  <2>1. TypeOK
    BY DEF IInv
  <2>2. ContinueStep(r) => StatementsLeft(r)' < StatementsLeft(r)
    BY <2>1, ContinueAdvances
  <2>3. areq[r].at # "idle" => StatementsLeft(r) \in 1 .. 3
    <3>1. areq[r].at \in Steps
      BY <2>1 DEF TypeOK, ActionTypeOK, ActionRequest
    <3>2. areq[r].at # "idle" => LeftAt(areq[r].at) \in 0 .. 3 /\ LeftAt(areq[r].at) # 0
      BY <3>1, StatementsOfSteps
    <3> QED BY <3>2 DEF StatementsLeft
  <2>4. areq[r].at # "idle" /\ FailRequest(r) => StatementsLeft(r)' < StatementsLeft(r)
    BY <2>1, RequestEnds DEF FailRequest
  <2> QED BY <2>1, <2>2, <2>3, <2>4, OthersLeaveRequests
<1>2. IInv /\ [Next]_vars => OwedStatusIsWritten
  <2> SUFFICES ASSUME IInv, [Next]_vars, NEW r \in ActionRequests,
                      areq[r].at = "sync", areq'[r] # areq[r]
               PROVE  \/ findings'[areq[r].finding].status = areq[r].target
                      \/ (~Live(areq[r].finding) \/ DbFaults) /\ UNCHANGED findings
    BY DEF OwedStatusIsWritten
  <2>1. TypeOK /\ areq[r].finding \in FindingIds
    BY DEF IInv, RowsInv, RequestsKnowRows, ActionRequestKnows, KnownFinding
  <2>2. SyncFinding(r) \/ FailRequest(r)
    <3>1. ContinueStep(r) \/ FailRequest(r)
      BY <2>1, OthersLeaveRequests
    <3> QED BY <3>1 DEF ContinueStep, CheckDuplicate, CheckAssignee, InsertAction,
               UpdateAction, DeleteAction, AttachEvidence, DetachEvidence
  <2>3. CASE FailRequest(r)
    BY <2>3 DEF FailRequest, TablesUnchanged
  <2>4. CASE SyncFinding(r)
    BY <2>1, <2>4 DEF SyncFinding, TypeOK, FindingTypeOK, FindingRow
  <2> QED BY <2>2, <2>3, <2>4
<1> QED BY <1>1, <1>2, InitInv, NextInv, PTL DEF Spec

-----------------------------------------------------------------------------
(* When the gate holds although requests overlap *)

Creates(r) == areq[r].at \in {"checkDuplicate", "checkAssigneeOfNew", "insert"}

\* A creation in flight holds the body it has held before, or one it was sent.
HoldsBody(r) ==
  \/ Creates(r) /\ areq'[r].dto = areq[r].dto
  \/ \E dto \in CreateInputs : /\ areq'[r].dto.status = dto.status
                               /\ areq'[r].dto.verification = dto.verification

LEMMA CreationsHoldBodies ==
  ASSUME TypeOK, [Next]_vars, NEW r \in ActionRequests, Creates(r)'
  PROVE  HoldsBody(r)
<1> USE DEF TypeOK, ActionTypeOK
<1>1. CASE areq'[r] = areq[r]
  BY <1>1 DEF HoldsBody, Creates
<1>2. ASSUME NEW to, Advance(r, to), Creates(r) \/ to = "update" PROVE HoldsBody(r)
  BY <1>2 DEF Advance, ActionRequest, HoldsBody, Creates
<1>3. ASSUME NEW q, Goto(r, q) PROVE areq'[r] = q
  BY <1>3 DEF Goto
<1>4. ASSUME Finish(r) PROVE HoldsBody(r)
  BY <1>3, <1>4 DEF Finish, IdleAction, Request, Creates
<1>5. ASSUME NEW f \in FindingIds, NEW scope \in Scopes, NEW dto \in CreateInputs,
             BeginCreate(r, f, scope, dto)
      PROVE HoldsBody(r)
  BY <1>3, <1>5 DEF BeginCreate, Request, HoldsBody
<1>6. ASSUME NEW a \in ActionIds, NEW scope \in Scopes, NEW dto \in UpdateInputs,
             BeginUpdate(r, a, scope, dto)
      PROVE HoldsBody(r)
  <2>1. areq'[r].at \in {"update", "checkAssignee"}
    BY <1>6 DEF BeginUpdate, Goto, Request
  <2> QED BY <2>1 DEF Creates
<1>7. CASE BeginStep(r)
  <2>1. CASE \E scope \in Scopes :
               \/ \E a \in ActionIds : BeginRemove(r, a, scope) \/ BeginAddEvidence(r, a, scope)
               \/ \E e \in EvidenceIds : BeginRemoveEvidence(r, e, scope)
    <3>1. areq'[r].at \in {"delete", "attach", "detach"}
      BY <2>1 DEF BeginRemove, BeginAddEvidence, BeginRemoveEvidence, ReadAction,
                  Goto, Request
    <3> QED BY <3>1 DEF Creates
  <2> QED BY <1>5, <1>6, <1>7, <2>1 DEF BeginStep
<1>8. ASSUME UpdateAction(r) PROVE HoldsBody(r)
  <2>1. CASE ~Finish(r)
    <3>1. areq'[r].at = "sync"
      BY <1>8, <2>1 DEF UpdateAction, Goto, Request
    <3> QED BY <3>1 DEF Creates
  <2> QED BY <1>4, <2>1
<1>9. CASE ContinueStep(r)
  <2>1. CASE \/ CheckDuplicate(r)
             \/ CheckAssignee(r, "checkAssigneeOfNew", "insert")
             \/ CheckAssignee(r, "checkAssignee", "update")
    BY <1>2, <1>4, <2>1 DEF CheckDuplicate, CheckAssignee, Creates
  <2> QED BY <1>4, <1>8, <1>9, <2>1
          DEF ContinueStep, InsertAction, SyncFinding, DeleteAction, AttachEvidence,
              DetachEvidence
<1> QED
  <2>1. CASE areq[r].at = "idle"
    <3>1. areq'[r] = areq[r] \/ BeginStep(r) \/ ContinueStep(r) \/ FailRequest(r)
      BY RequestMoves
    <3> QED BY <1>1, <1>4, <1>7, <1>9, <3>1 DEF FailRequest
  <2>2. CASE areq[r].at # "idle"
    <3>1. areq'[r] = areq[r] \/ ContinueStep(r) \/ FailRequest(r)
      BY <2>2, OthersLeaveRequests
    <3> QED BY <1>1, <1>4, <1>9, <3>1 DEF FailRequest
  <2> QED BY <2>1, <2>2

\* A body of create passes the gate if it verifies only what it completes; the row
\* of an update is written as it was read, which a condition on the row in the
\* update statement would give.
CreatesPassGate ==
  \A dto \in CreateInputs : dto.verification = "VERIFIED" => dto.status = "COMPLETED"
WrittenAsRead == \A r \in ActionRequests :
  areq[r].at = "update" /\ areq'[r] # areq[r] /\ actions' # actions => Fresh(r)

HeldPassGate == \A r \in ActionRequests :
  Creates(r) /\ areq[r].dto.verification = "VERIFIED" => areq[r].dto.status = "COMPLETED"

\* What a step makes of a row that is there after it.
RowPasses(a) == actions'[a].verification = "VERIFIED" => actions'[a].status = "COMPLETED"

LEMMA GateStep ==
  ASSUME IInv, HeldPassGate, VerifiedOnlyWhenCompleted, Next, WrittenAsRead,
         NEW a \in ActionIds, LiveAction(a)'
  PROVE  RowPasses(a)
<1> USE DEF IInv, TypeOK, ActionTypeOK
<1>1. CASE actions'[a] = actions[a]
  BY <1>1 DEF VerifiedOnlyWhenCompleted, LiveAction, RowPasses
<1>2. ASSUME NEW S, DeleteActions(S) PROVE RowPasses(a)
  BY <1>1, <1>2 DEF DeleteActions, NoAction, LiveAction
<1>3. ASSUME NEW r \in ActionRequests, NEW b \in ActionIds, InsertAction(r, b)
      PROVE RowPasses(a)
  <2>1. CASE b = a /\ actions'[a] # actions[a]
    <3>1. /\ actions'[a].status = Put("PENDING", areq[r].dto.status)
          /\ actions'[a].verification = Put("NOT_VERIFIED", areq[r].dto.verification)
          /\ Creates(r)
      BY <1>3, <2>1 DEF InsertAction, Creates
    <3>2. "COMPLETED" # Unset
      BY DEF Unset
    <3> QED BY <3>1, <3>2 DEF HeldPassGate, Put, RowPasses
  <2>2. b # a => actions'[a] = actions[a]
    BY <1>3 DEF InsertAction
  <2> QED BY <1>1, <2>1, <2>2
<1>4. ASSUME NEW r \in ActionRequests, UpdateAction(r) PROVE RowPasses(a)
  <2> DEFINE q == areq[r]
  <2>1. CASE q.action = a /\ actions'[a] # actions[a]
    <3>1. /\ Acceptable(q.dto, q.row)
          /\ actions'[a] = Written(actions[a], q.dto, q.row)
      BY <1>4, <2>1 DEF UpdateAction
    <3>2. q.at = "update" /\ areq'[r].at # "update"
      BY <1>4 DEF UpdateAction, Goto, Finish, IdleAction, Request
    <3>3. actions[a] = q.row
      BY <2>1, <3>2 DEF WrittenAsRead, Fresh
    <3>4. /\ actions'[a].status = Decided(q.dto, q.row).status
          /\ actions'[a].verification = Decided(q.dto, q.row).verification
      BY <3>1, <3>3 DEF Written, Decided
    <3> QED BY <3>1, <3>4 DEF Acceptable, RowPasses
  <2>2. q.action # a => actions'[a] = actions[a]
    BY <1>4 DEF UpdateAction
  <2> QED BY <1>1, <2>1, <2>2
<1>5. ASSUME NEW r \in ActionRequests, BeginStep(r) \/ ContinueStep(r) \/ FailRequest(r)
      PROVE RowPasses(a)
  <2>1. CASE UNCHANGED actions
    BY <1>1, <2>1
  <2>2. CASE BeginStep(r) \/ FailRequest(r)
    BY <2>1, <2>2 DEF BeginStep, BeginCreate, BeginUpdate, BeginRemove, BeginAddEvidence,
                      ReadAction, BeginRemoveEvidence, FailRequest, TablesUnchanged
  <2>3. CASE ContinueStep(r)
    BY <1>2, <1>3, <1>4, <2>1, <2>3
    DEF ContinueStep, CheckDuplicate, CheckAssignee, SyncFinding, DeleteAction,
        AttachEvidence, DetachEvidence, TablesUnchanged
  <2> QED BY <1>5, <2>2, <2>3
<1>6. FindingStep => RowPasses(a)
  BY <1>1, <1>2 DEF FindingStep, actionVars, RemoveFindingRow
<1>7. \A u \in Users, org \in Orgs : MoveUser(u, org) => RowPasses(a)
  BY <1>1 DEF MoveUser
<1> QED BY <1>5, <1>6, <1>7 DEF Next

\* The gate holds for any number of overlapping requests, failures included, if
\* creations pass it and every update writes the row as it has read it: the body
\* of create (VerifiedCreate) and the stale row are all that can break it.
THEOREM GateUnderOverlap ==
  CreatesPassGate =>
    (Init /\ [][Next /\ WrittenAsRead]_vars => []VerifiedOnlyWhenCompleted)
<1> SUFFICES ASSUME CreatesPassGate
             PROVE Init /\ [][Next /\ WrittenAsRead]_vars => []VerifiedOnlyWhenCompleted
  OBVIOUS
<1> DEFINE GateInv == IInv /\ HeldPassGate /\ VerifiedOnlyWhenCompleted
<1>1. Init => GateInv
  <2> SUFFICES ASSUME Init PROVE HeldPassGate /\ VerifiedOnlyWhenCompleted
    BY InitInv
  <2> QED BY DEF Init, HeldPassGate, Creates, IdleAction, Request,
                 VerifiedOnlyWhenCompleted, LiveAction, NoAction
<1>2. GateInv /\ [Next /\ WrittenAsRead]_vars => GateInv'
  <2> SUFFICES ASSUME GateInv, [Next /\ WrittenAsRead]_vars PROVE GateInv'
    OBVIOUS
  <2>1. [Next]_vars /\ TypeOK
    BY DEF IInv
  <2>2. IInv'
    BY <2>1, NextInv
  <2>3. HeldPassGate'
    <3> SUFFICES ASSUME NEW r \in ActionRequests, Creates(r)',
                        areq'[r].dto.verification = "VERIFIED"
                 PROVE  areq'[r].dto.status = "COMPLETED"
      BY DEF HeldPassGate
    <3>1. HoldsBody(r)
      BY <2>1, CreationsHoldBodies
    <3> QED BY <3>1 DEF HoldsBody, HeldPassGate, CreatesPassGate
  <2>4. VerifiedOnlyWhenCompleted'
    <3>1. CASE UNCHANGED vars
      BY <3>1 DEF vars, VerifiedOnlyWhenCompleted, LiveAction
    <3>2. CASE Next /\ WrittenAsRead
      BY <3>2, GateStep DEF RowPasses, VerifiedOnlyWhenCompleted
    <3> QED BY <3>1, <3>2
  <2> QED BY <2>2, <2>3, <2>4
<1>3. GateInv => VerifiedOnlyWhenCompleted
  OBVIOUS
<1> HIDE DEF GateInv
<1> QED BY <1>1, <1>2, <1>3, PTL

-----------------------------------------------------------------------------
(* Findings by themselves *)

\* What a finding request remembers of its row stays true, and a row that is not
\* there counts as unpublished.
FindingsInv ==
  /\ FindingTypeOK
  /\ \A r \in FindingRequests : FindingRequestKnows(r)
  /\ \A f \in FindingIds : Public(findings[f]) => Live(f)

LEMMA FindingsInit == FindingInit => FindingsInv
  BY Resets, FindingAssumption
  DEF FindingInit, FindingsInv, FindingTypeOK, FindingRequestKnows, IdleFinding, Lives,
      NoFinding, Public, Live

LEMMA FindingsNextKnows ==
  ASSUME FindingsInv, [FindingNext]_findingVars
  PROVE \A r \in FindingRequests : FindingRequestKnows(r)'
<1> USE DEF FindingsInv, FindingTypeOK
<1> DEFINE Evolves ==
      \A f \in FindingIds : findings[f].life # "unborn" =>
        /\ findings'[f].life # "unborn"
        /\ Live(f)' => Live(f) /\ findings'[f].org = findings[f].org
<1>1. Evolves
  <2>1. CASE findings' = findings
    BY <2>1 DEF Live
  <2>2. ASSUME NEW g \in FindingIds, NEW org \in Orgs, NEW scope \in Scopes,
               NEW dto \in FindingInputs, CreateFinding(g, org, scope, dto)
        PROVE Evolves
    BY <2>2 DEF CreateFinding, Live
  <2>3. ASSUME NEW r \in FindingRequests, CommitFindingUpdate(r) PROVE Evolves
    BY <2>3 DEF CommitFindingUpdate, Edited, FindingRow, Live
  <2>4. ASSUME NEW r \in FindingRequests, CommitFindingRemoval(r) PROVE Evolves
    BY <2>4 DEF CommitFindingRemoval, NoFinding, Live
  <2> HIDE DEF Evolves
  <2> QED BY <2>1, <2>2, <2>3, <2>4
          DEF FindingNext, BeginFindingUpdate, BeginFindingRemoval, ReadFinding,
              FailFindingRequest, SendAlert, findingVars
<1>2. ASSUME NEW r \in FindingRequests, freq'[r] = freq[r] PROVE FindingRequestKnows(r)'
  BY <1>1, <1>2 DEF FindingRequestKnows
<1>3. ASSUME NEW r \in FindingRequests, NEW f \in FindingIds, NEW scope \in Scopes,
             NEW dto, NEW at, ReadFinding(r, f, scope, dto, at)
      PROVE \A q \in FindingRequests : FindingRequestKnows(q)'
  <2>1. FindingRequestKnows(r)'
    BY <1>3 DEF ReadFinding, FindingRequestKnows, Live
  <2> QED BY <1>2, <1>3, <2>1 DEF ReadFinding
<1>4. ASSUME NEW r \in FindingRequests, FinishFinding(r)
      PROVE \A q \in FindingRequests : FindingRequestKnows(q)'
  <2>1. FindingRequestKnows(r)'
    BY <1>4 DEF FinishFinding, IdleFinding, FindingRequestKnows
  <2> QED BY <1>2, <1>4, <2>1 DEF FinishFinding
<1> QED BY <1>2, <1>3, <1>4
        DEF FindingNext, CreateFinding, BeginFindingUpdate, BeginFindingRemoval,
            CommitFindingUpdate, CommitFindingRemoval, FailFindingRequest, SendAlert,
            findingVars

LEMMA FindingsNextPublic ==
  ASSUME FindingsInv, [FindingNext]_findingVars
  PROVE \A f \in FindingIds : Public(findings'[f]) => Live(f)'
<1> USE DEF FindingsInv, FindingTypeOK
<1>1. ASSUME NEW r \in FindingRequests, CommitFindingUpdate(r)
      PROVE \A f \in FindingIds : Public(findings'[f]) => Live(f)'
  BY <1>1 DEF CommitFindingUpdate, Edited, Public, Live
<1>2. ASSUME NEW r \in FindingRequests, CommitFindingRemoval(r)
      PROVE \A f \in FindingIds : Public(findings'[f]) => Live(f)'
  BY <1>2 DEF CommitFindingRemoval, NoFinding, Public, Live
<1>3. ASSUME NEW g \in FindingIds, NEW org \in Orgs, NEW scope \in Scopes,
             NEW dto \in FindingInputs, CreateFinding(g, org, scope, dto)
      PROVE \A f \in FindingIds : Public(findings'[f]) => Live(f)'
  BY <1>3 DEF CreateFinding, Public, Live
<1>4. CASE UNCHANGED findings
  BY <1>4 DEF Public, Live
<1> QED BY <1>1, <1>2, <1>3, <1>4
        DEF FindingNext, BeginFindingUpdate, BeginFindingRemoval, ReadFinding,
            FailFindingRequest, SendAlert, findingVars

LEMMA FindingsInvariance == FindingSpec => []FindingsInv
<1>1. FindingsInv /\ [FindingNext]_findingVars => FindingsInv'
  BY FindingsNextType, FindingsNextKnows, FindingsNextPublic DEF FindingsInv
<1> QED BY <1>1, FindingsInit, PTL DEF FindingSpec

\* A finding that exists is changed only by a request whose scope contains it.
THEOREM FindingScope == FindingSpec => FindingWritesInScope
<1> DEFINE InScopeStep ==
      \A f \in FindingIds :
        Live(f) /\ findings'[f] # findings[f] =>
          \E r \in FindingRequests :
            /\ freq[r].id = f /\ freq'[r] # freq[r]
            /\ InScope(findings[f].org, freq[r].scope)
<1>1. FindingsInv /\ [FindingNext]_findingVars => [InScopeStep]_findingVars
  <2> SUFFICES ASSUME FindingsInv, FindingNext, NEW f \in FindingIds,
                      Live(f), findings'[f] # findings[f]
               PROVE \E r \in FindingRequests :
                       /\ freq[r].id = f /\ freq'[r] # freq[r]
                       /\ InScope(findings[f].org, freq[r].scope)
    OBVIOUS
  <2> USE DEF FindingsInv, FindingTypeOK
  <2>1. PICK r \in FindingRequests : CommitFindingUpdate(r) \/ CommitFindingRemoval(r)
    BY DEF FindingNext, CreateFinding, BeginFindingUpdate, BeginFindingRemoval,
           ReadFinding, FailFindingRequest, SendAlert, Live
  <2>2. freq[r].id = f /\ freq[r].at # "idle" /\ FinishFinding(r)
    BY <2>1 DEF CommitFindingUpdate, CommitFindingRemoval
  <2>3. freq'[r].at = "idle"
    BY <2>2 DEF FinishFinding, IdleFinding
  <2> QED BY <2>2, <2>3 DEF FindingRequestKnows
<1>2. FindingSpec => [][InScopeStep]_findingVars
  BY <1>1, FindingsInvariance, PTL DEF FindingSpec
<1> QED BY <1>2 DEF FindingWritesInScope

\* No request in flight brings a deleted finding back.
THEOREM DeletionIsFinal == FindingSpec => DeletedFindingsStayDeleted
<1> DEFINE Final == \A f \in FindingIds :
                      findings[f].life = "deleted" => findings'[f] = findings[f]
<1>1. FindingsInv /\ [FindingNext]_findingVars => [Final]_findingVars
  <2> SUFFICES ASSUME FindingsInv, FindingNext, NEW f \in FindingIds,
                      findings[f].life = "deleted"
               PROVE findings'[f] = findings[f]
    OBVIOUS
  <2> USE DEF FindingsInv, FindingTypeOK
  <2>1. ASSUME NEW g \in FindingIds, NEW org \in Orgs, NEW scope \in Scopes,
               NEW dto \in FindingInputs, CreateFinding(g, org, scope, dto)
        PROVE findings'[f] = findings[f]
    BY <2>1 DEF CreateFinding
  <2>2. ASSUME NEW r \in FindingRequests, CommitFindingUpdate(r) \/ CommitFindingRemoval(r)
        PROVE findings'[f] = findings[f]
    BY <2>2 DEF CommitFindingUpdate, CommitFindingRemoval, Live
  <2> QED BY <2>1, <2>2
          DEF FindingNext, BeginFindingUpdate, BeginFindingRemoval, ReadFinding,
              FailFindingRequest, SendAlert
<1>2. FindingSpec => [][Final]_findingVars
  BY <1>1, FindingsInvariance, PTL DEF FindingSpec
<1> QED BY <1>2 DEF DeletedFindingsStayDeleted

\* A write whose request still knows the exploit column alerts exactly when it
\* publishes an exploit, and nothing else queues an alert.
THEOREM AlertsOnPublication == FindingSpec => AlertOnPublicationWhenReadIsFresh
<1> DEFINE Alerts ==
      \A f \in FindingIds :
        \/ (alerts'[f] > alerts[f]) <=> (~Public(findings[f]) /\ Public(findings'[f]))
        \/ \E r \in FindingRequests :
             /\ freq[r].at = "update" /\ freq[r].id = f /\ freq'[r].at = "idle"
             /\ freq[r].seen # findings[f].exploit
<1>1. FindingsInv /\ [FindingNext]_findingVars => [Alerts]_findingVars
  <2> SUFFICES ASSUME FindingsInv, FindingNext, NEW f \in FindingIds,
                      \A r \in FindingRequests :
                        freq[r].at = "update" /\ freq[r].id = f /\ freq'[r].at = "idle"
                          => freq[r].seen = findings[f].exploit
               PROVE (alerts'[f] > alerts[f]) <=> (~Public(findings[f]) /\ Public(findings'[f]))
    OBVIOUS
  <2> USE FindingAssumption DEF FindingsInv, FindingTypeOK
  <2>1. alerts[f] \in 0 .. MaxAlerts
    OBVIOUS
  <2>2. ASSUME NEW g \in FindingIds, NEW org \in Orgs, NEW scope \in Scopes,
               NEW dto \in FindingInputs, CreateFinding(g, org, scope, dto)
        PROVE (alerts'[f] > alerts[f]) <=> (~Public(findings[f]) /\ Public(findings'[f]))
    <3>1. CASE g # f
      BY <2>1, <2>2, <3>1 DEF CreateFinding, QueueAlert
    <3>2. CASE g = f
      <4>1. ~Public(findings[f])
        BY <2>2, <3>2 DEF CreateFinding, Live
      <4>2. Public(findings'[f]) => alerts'[f] = alerts[f] + 1
        BY <2>2, <3>2 DEF CreateFinding, QueueAlert
      <4>3. ~Public(findings'[f]) => alerts'[f] = alerts[f]
        BY <2>2, <3>2 DEF CreateFinding
      <4> QED BY <2>1, <4>1, <4>2, <4>3
    <3> QED BY <3>1, <3>2
  <2>3. ASSUME NEW r \in FindingRequests, CommitFindingUpdate(r)
        PROVE (alerts'[f] > alerts[f]) <=> (~Public(findings[f]) /\ Public(findings'[f]))
    BY <2>1, <2>3 DEF CommitFindingUpdate, FinishFinding, IdleFinding, QueueAlert, Edited,
                      AlertDue, Public, Live
  <2>4. ASSUME NEW r \in FindingRequests, CommitFindingRemoval(r)
        PROVE (alerts'[f] > alerts[f]) <=> (~Public(findings[f]) /\ Public(findings'[f]))
    BY <2>1, <2>4 DEF CommitFindingRemoval, NoFinding, Public
  <2>5. ASSUME NEW g \in FindingIds, SendAlert(g)
        PROVE (alerts'[f] > alerts[f]) <=> (~Public(findings[f]) /\ Public(findings'[f]))
    BY <2>1, <2>5 DEF SendAlert, Public
  <2>6. CASE UNCHANGED <<findings, alerts>>
    BY <2>1, <2>6 DEF Public
  <2> QED BY <2>2, <2>3, <2>4, <2>5, <2>6
          DEF FindingNext, BeginFindingUpdate, BeginFindingRemoval, ReadFinding,
              FailFindingRequest
<1>2. FindingSpec => [][Alerts]_findingVars
  BY <1>1, FindingsInvariance, PTL DEF FindingSpec
<1> QED BY <1>2 DEF AlertOnPublicationWhenReadIsFresh

-----------------------------------------------------------------------------
(* Requests that do not overlap *)

\* Remediation requests run one after the other.
Serial == \A q, r \in ActionRequests : q = r

-----------------------------------------------------------------------------
(* At most one action per finding, when requests do not overlap *)

Unremediated(f) == \A a \in ActionIds : ~Remediates(a, f)

\* A request past the duplicate check would still pass it.
UniqueInv ==
  /\ OneActionPerFinding
  /\ \A r \in ActionRequests : areq[r].at \in {"checkAssigneeOfNew", "insert"} =>
       Unremediated(areq[r].finding)

LEMMA UniqueRequestStep ==
  ASSUME TypeOK, UniqueInv, Serial,
         NEW r \in ActionRequests,
         BeginStep(r) \/ ContinueStep(r) \/ FailRequest(r)
  PROVE UniqueInv'
<1> USE DEF Serial, TypeOK, ActionTypeOK
<1>1. ASSUME \A a \in ActionIds, f \in FindingIds : Remediates(a, f)' => Remediates(a, f)
      PROVE OneActionPerFinding'
  BY <1>1 DEF UniqueInv, OneActionPerFinding
<1>2. ASSUME areq'[r].at \notin {"checkAssigneeOfNew", "insert"},
             OneActionPerFinding'
      PROVE UniqueInv'
  BY <1>2 DEF UniqueInv
<1>3. ASSUME Finish(r) PROVE areq'[r].at = "idle"
  BY <1>3 DEF Finish, Goto, IdleAction, Request
<1>4. ASSUME NEW to, Advance(r, to)
      PROVE areq'[r].at = to /\ areq'[r].finding = areq[r].finding
  BY <1>4 DEF Advance, ActionRequest
<1>5. ASSUME TablesUnchanged
      PROVE /\ OneActionPerFinding'
            /\ \A f : Unremediated(f) => Unremediated(f)'
  BY <1>5 DEF TablesUnchanged, UniqueInv, OneActionPerFinding, Unremediated,
              Remediates, LiveAction
<1>6. CASE BeginStep(r)
  <2>1. TablesUnchanged
    BY <1>6 DEF BeginStep, BeginCreate, BeginUpdate, BeginRemove,
                BeginAddEvidence, ReadAction, BeginRemoveEvidence
  <2>2. ASSUME NEW a \in ActionIds, NEW scope \in Scopes, NEW dto \in UpdateInputs,
               BeginUpdate(r, a, scope, dto)
        PROVE areq'[r].at \in {"update", "checkAssignee"}
    BY <2>2 DEF BeginUpdate, Goto, Request
  <2>3. areq'[r].at \notin {"checkAssigneeOfNew", "insert"}
    BY <1>6, <2>2
    DEF BeginStep, BeginCreate, BeginRemove, BeginAddEvidence, ReadAction,
        BeginRemoveEvidence, Goto, Request
  <2> QED BY <1>2, <1>5, <2>1, <2>3
<1>7. ASSUME CheckDuplicate(r) PROVE UniqueInv'
  <2>1. TablesUnchanged
    BY <1>7 DEF CheckDuplicate
  <2>2. CASE Finish(r)
    BY <1>2, <1>3, <1>5, <2>1, <2>2
  <2>3. CASE ~Finish(r)
    <3>1. areq'[r].finding = areq[r].finding /\ Unremediated(areq[r].finding)
      BY <1>4, <1>7, <2>3 DEF CheckDuplicate, Unremediated
    <3> QED BY <1>5, <2>1, <3>1 DEF UniqueInv
  <2> QED BY <2>2, <2>3
<1>8. ASSUME CheckAssignee(r, "checkAssigneeOfNew", "insert") PROVE UniqueInv'
  <2>1. TablesUnchanged /\ Unremediated(areq[r].finding)
    BY <1>8 DEF CheckAssignee, UniqueInv
  <2>2. CASE Finish(r)
    BY <1>2, <1>3, <1>5, <2>1, <2>2
  <2>3. CASE Advance(r, "insert")
    BY <1>4, <1>5, <2>1, <2>3 DEF UniqueInv
  <2> QED BY <1>8, <2>2, <2>3 DEF CheckAssignee
<1>9. ASSUME CheckAssignee(r, "checkAssignee", "update") PROVE UniqueInv'
  <2>1. areq'[r].at \in {"update", "idle"} /\ TablesUnchanged
    BY <1>3, <1>4, <1>9 DEF CheckAssignee
  <2> QED BY <1>2, <1>5, <2>1
<1>10. ASSUME NEW a \in ActionIds, InsertAction(r, a) PROVE UniqueInv'
  <2>1. Unremediated(areq[r].finding) /\ areq'[r].at = "idle"
    BY <1>3, <1>10 DEF InsertAction, UniqueInv
  <2>2. \A b \in ActionIds, f \in FindingIds : Remediates(b, f)' =>
          Remediates(b, f) \/ (b = a /\ f = areq[r].finding)
    BY <1>10 DEF InsertAction, Remediates, LiveAction
  <2>3. OneActionPerFinding'
    BY <2>1, <2>2 DEF OneActionPerFinding, UniqueInv, Unremediated
  <2> QED BY <1>2, <2>1, <2>3
<1>11. ASSUME UpdateAction(r) PROVE UniqueInv'
  <2>1. areq'[r].at \in {"idle", "sync"}
    BY <1>3, <1>11 DEF UpdateAction, Goto, Request
  <2>2. \A b \in ActionIds, f \in FindingIds : Remediates(b, f)' => Remediates(b, f)
    BY <1>11 DEF UpdateAction, Written, Remediates, LiveAction
  <2> QED BY <1>1, <1>2, <2>1, <2>2
<1>12. ASSUME \/ SyncFinding(r) \/ DetachEvidence(r)
              \/ \E e \in EvidenceIds : AttachEvidence(r, e)
       PROVE UniqueInv'
  <2>1. areq'[r].at = "idle" /\ UNCHANGED actions
    BY <1>3, <1>12 DEF SyncFinding, DetachEvidence, AttachEvidence
  <2> QED BY <1>1, <1>2, <2>1 DEF Remediates, LiveAction
<1>13. ASSUME DeleteAction(r) PROVE UniqueInv'
  <2>1. areq'[r].at = "idle"
    BY <1>3, <1>13 DEF DeleteAction
  <2>2. \A b \in ActionIds, f \in FindingIds : Remediates(b, f)' => Remediates(b, f)
    BY <1>13 DEF DeleteAction, DeleteActions, NoAction, Remediates, LiveAction
  <2> QED BY <1>1, <1>2, <2>1, <2>2
<1>14. CASE ContinueStep(r)
  BY <1>7, <1>8, <1>9, <1>10, <1>11, <1>12, <1>13, <1>14 DEF ContinueStep
<1>15. CASE FailRequest(r)
  BY <1>2, <1>3, <1>5, <1>15 DEF FailRequest
<1> QED BY <1>6, <1>14, <1>15

LEMMA UniqueInit == Init => UniqueInv
  BY DEF Init, UniqueInv, OneActionPerFinding, Remediates, LiveAction, NoAction,
         IdleAction, Request

LEMMA UniqueNext ==
  ASSUME Serial, TypeOK, UniqueInv, [Next]_vars
  PROVE UniqueInv'
<1>1. ASSUME NEW r \in FindingRequests, RemoveFindingRow(r) PROVE UniqueInv'
  <2>1. UNCHANGED areq /\ \A f : \A a \in ActionIds : Remediates(a, f)' => Remediates(a, f)
    BY <1>1 DEF RemoveFindingRow, DeleteActions, Remediates, LiveAction, NoAction
  <2> QED BY <2>1 DEF UniqueInv, OneActionPerFinding, Unremediated
<1>2. CASE UNCHANGED <<actions, areq>>
  BY <1>2 DEF UniqueInv, OneActionPerFinding, Unremediated, Remediates, LiveAction
<1>3. ASSUME NEW r \in ActionRequests,
             BeginStep(r) \/ ContinueStep(r) \/ FailRequest(r)
      PROVE UniqueInv'
  BY <1>3, UniqueRequestStep
<1> QED BY <1>1, <1>2, <1>3 DEF Next, FindingStep, MoveUser, vars, actionVars

\* When remediation requests never overlap a finding has at most one action,
\* whatever the finding requests do meanwhile.
THEOREM SerialUniqueness == Serial => (Spec => []OneActionPerFinding)
<1> SUFFICES ASSUME Serial
             PROVE Spec => []OneActionPerFinding
  OBVIOUS
<1>1. TypeOK /\ UniqueInv /\ [Next]_vars => UniqueInv'
  BY UniqueNext
<1>2. UniqueInv => OneActionPerFinding
  BY DEF UniqueInv
<1> QED BY <1>1, <1>2, UniqueInit, TypeCorrect, PTL DEF Spec

-----------------------------------------------------------------------------
(* What a request without rivals remembers *)

\* An update is about to write over the row it has read, and a request that has
\* the finding still to write has just put its action into the states that ask
\* for it.
LedgerRequests ==
  \A r \in ActionRequests :
    /\ areq[r].at \in {"checkAssignee", "update", "sync"} =>
         areq[r].action \in ActionIds
    /\ areq[r].at \in {"checkAssignee", "update"} =>
         /\ LiveAction(areq[r].action) => Fresh(r)
         /\ areq[r].row.finding = areq[r].finding
    /\ areq[r].at = "sync" /\ LiveAction(areq[r].action) =>
         /\ actions[areq[r].action].finding = areq[r].finding
         /\ SyncDue(actions[areq[r].action])
         /\ areq[r].target = SyncTarget(actions[areq[r].action])

LEMMA FreshFindingStep ==
  ASSUME TypeOK, LedgerRequests, FindingStep
  PROVE LedgerRequests'
<1> USE DEF TypeOK, ActionTypeOK
<1>1. UNCHANGED areq
  BY DEF FindingStep, RemoveFindingRow, actionVars
<1>2. \A a \in ActionIds : LiveAction(a)' => LiveAction(a) /\ actions'[a] = actions[a]
  BY DEF FindingStep, actionVars, RemoveFindingRow, DeleteActions, NoAction, LiveAction
<1>3. \A r \in ActionRequests :
        areq[r].at \in {"checkAssignee", "update", "sync"} /\ LiveAction(areq[r].action)' =>
          /\ LiveAction(areq[r].action)
          /\ actions'[areq[r].action] = actions[areq[r].action]
  BY <1>1, <1>2 DEF LedgerRequests
<1> QED BY <1>1, <1>3 DEF LedgerRequests, LiveAction, Fresh

LEMMA FreshUpdate ==
  ASSUME Serial, TypeOK, LedgerRequests, NEW r \in ActionRequests, UpdateAction(r)
  PROVE LedgerRequests'
<1> USE DEF Serial, TypeOK, ActionTypeOK
<1> DEFINE q == areq[r]
           a == areq[r].action
           decided == Decided(q.dto, q.row)
           ok == Acceptable(q.dto, q.row) /\ LiveAction(a)
<1>1. /\ q.at = "update" /\ a \in ActionIds /\ q.row.finding = q.finding
      /\ LiveAction(a) => actions[a] = q.row
  BY DEF UpdateAction, LedgerRequests, Fresh
<1>2. CASE ok /\ SyncDue(decided)
  <2>1. /\ actions'[a].life = "live" /\ actions'[a].finding = q.finding
        /\ actions'[a].status = decided.status
        /\ actions'[a].verification = decided.verification
    BY <1>1, <1>2 DEF UpdateAction, Written, Decided, LiveAction
  <2>2. /\ areq'[r].at = "sync" /\ areq'[r].finding = q.finding
        /\ areq'[r].target = SyncTarget(decided) /\ areq'[r].action = a
    BY <1>2 DEF UpdateAction, Goto, Request
  <2> QED BY <1>1, <1>2, <2>1, <2>2 DEF LedgerRequests, SyncDue, SyncTarget, Resolves
<1>3. CASE ~(ok /\ SyncDue(decided))
  <2>1. areq'[r].at = "idle"
    BY <1>3 DEF UpdateAction, Finish, Goto, IdleAction, Request
  <2> QED BY <2>1 DEF LedgerRequests
<1> QED BY <1>2, <1>3

LEMMA FreshRequestStep ==
  ASSUME Serial, TypeOK, LedgerRequests, NEW r \in ActionRequests,
         BeginStep(r) \/ ContinueStep(r) \/ FailRequest(r)
  PROVE LedgerRequests'
<1> USE DEF Serial, TypeOK, ActionTypeOK
<1>1. ASSUME Finish(r) PROVE areq'[r].at = "idle"
  BY <1>1 DEF Finish, Goto, IdleAction, Request
<1>2. ASSUME NEW to, Advance(r, to)
      PROVE /\ areq'[r].at = to /\ areq'[r].action = areq[r].action
            /\ areq'[r].row = areq[r].row /\ areq'[r].finding = areq[r].finding
  BY <1>2 DEF Advance, ActionRequest
<1>3. ASSUME areq'[r].at \notin {"checkAssignee", "update", "sync"}
      PROVE LedgerRequests'
  BY <1>3 DEF LedgerRequests
<1>4. ASSUME NEW a \in ActionIds, NEW scope \in Scopes, NEW dto \in UpdateInputs,
             BeginUpdate(r, a, scope, dto)
      PROVE LedgerRequests'
  <2>1. /\ areq'[r].action = a /\ areq'[r].row = actions[a]
        /\ areq'[r].finding = actions[a].finding
        /\ areq'[r].at \in {"update", "checkAssignee"} /\ UNCHANGED actions
    BY <1>4 DEF BeginUpdate, Goto, Request, TablesUnchanged
  <2> QED BY <2>1 DEF LedgerRequests, Fresh
<1>5. CASE BeginStep(r)
  BY <1>3, <1>4, <1>5
  DEF BeginStep, BeginCreate, BeginRemove, BeginAddEvidence, ReadAction,
      BeginRemoveEvidence, Goto, Request
<1>6. ASSUME CheckDuplicate(r) \/ CheckAssignee(r, "checkAssigneeOfNew", "insert")
      PROVE areq'[r].at \in {"idle", "insert", "checkAssigneeOfNew"}
  BY <1>1, <1>2, <1>6 DEF CheckDuplicate, CheckAssignee
<1>7. ASSUME CheckAssignee(r, "checkAssignee", "update") PROVE LedgerRequests'
  <2>1. /\ areq[r].at = "checkAssignee" /\ UNCHANGED actions
        /\ \/ areq'[r].at = "idle"
           \/ /\ areq'[r].at = "update" /\ areq'[r].action = areq[r].action
              /\ areq'[r].row = areq[r].row /\ areq'[r].finding = areq[r].finding
    BY <1>1, <1>2, <1>7 DEF CheckAssignee, TablesUnchanged
  <2> QED BY <2>1 DEF LedgerRequests, Fresh, LiveAction
<1>8. CASE ContinueStep(r)
  BY <1>1, <1>3, <1>6, <1>7, <1>8, FreshUpdate
  DEF ContinueStep, InsertAction, SyncFinding, DeleteAction, AttachEvidence,
      DetachEvidence
<1> QED BY <1>1, <1>3, <1>5, <1>8 DEF FailRequest

LEMMA FreshNext ==
  ASSUME Serial, TypeOK, LedgerRequests, [Next]_vars
  PROVE LedgerRequests'
<1>1. CASE UNCHANGED <<actions, areq>>
  BY <1>1 DEF LedgerRequests, Fresh, LiveAction
<1> QED BY <1>1, FreshFindingStep, FreshRequestStep DEF Next, MoveUser, vars

LEMMA FreshInit == Init => LedgerRequests
  BY DEF Init, LedgerRequests, IdleAction, Request

\* A request that goes on to resolve the finding has left its action completed
\* and verified, and so it still is.
THEOREM EarnedResolution == Serial => (Spec => []ResolutionIsEarned)
<1> SUFFICES ASSUME Serial PROVE Spec => []ResolutionIsEarned
  OBVIOUS
<1>1. TypeOK /\ LedgerRequests /\ [Next]_vars => LedgerRequests'
  BY FreshNext
<1>2. LedgerRequests => ResolutionIsEarned
  BY DEF LedgerRequests, ResolutionIsEarned, SyncDue, SyncTarget, Resolves
<1> QED BY <1>1, <1>2, FreshInit, TypeCorrect, PTL DEF Spec

-----------------------------------------------------------------------------
(* What a step changes of what can be seen of the ledger *)

\* What StatusSeen and PlanOf return, before a step and after it.
SeenRule ==
  \A f \in FindingIds :
    /\ \A r \in ActionRequests :
         Live(f) /\ areq[r].at = "sync" /\ areq[r].finding = f =>
           StatusSeen(f) = areq[r].target
    /\ (\A r \in ActionRequests : ~(areq[r].at = "sync" /\ areq[r].finding = f)) =>
         StatusSeen(f) = findings[f].status
    /\ ~Live(f) => StatusSeen(f) = findings[f].status

LEMMA SeenRules ==
  ASSUME Serial
  PROVE SeenRule /\ SeenRule'
<1>1. SeenRule
  BY DEF SeenRule, StatusSeen, Serial
<1>2. SeenRule'
  BY DEF SeenRule, StatusSeen, Serial
<1> QED BY <1>1, <1>2

Plan(a) == [status |-> actions[a].status, verification |-> actions[a].verification]

PlanRule ==
  \A f \in FindingIds :
    /\ Unremediated(f) => PlanOf(f) = None
    /\ \A a \in ActionIds : Remediates(a, f) => PlanOf(f) = Plan(a)

LEMMA PlanRules ==
  /\ OneActionPerFinding => PlanRule
  /\ OneActionPerFinding' => PlanRule'
<1>1. OneActionPerFinding => PlanRule
  BY DEF OneActionPerFinding, PlanRule, PlanOf, Plan, Unremediated
<1>2. OneActionPerFinding' => PlanRule'
  BY DEF OneActionPerFinding, PlanRule, PlanOf, Plan, Unremediated
<1> QED BY <1>1, <1>2

SameLife(f) == findings'[f].life = findings[f].life
SameSeen(f) == StatusSeen(f)' = StatusSeen(f)
SamePlan(f) ==
  \A a \in ActionIds :
    /\ Remediates(a, f)' <=> Remediates(a, f)
    /\ Remediates(a, f) => /\ actions'[a].status = actions[a].status
                           /\ actions'[a].verification = actions[a].verification
Same(f) == SameLife(f) /\ SameSeen(f) /\ SamePlan(f)
Others(f) == \A g \in FindingIds : g # f => Same(g)

\* One of these has happened to the finding f, and nothing to the others.
Reported(f) ==
  /\ findings[f].life = "unborn" /\ findings'[f].life = "live"
  /\ StatusSeen(f)' \in FindingStatuses
  /\ Unremediated(f) /\ Unremediated(f)'
Restated(f) ==
  Live(f) /\ SameLife(f) /\ SamePlan(f) /\ StatusSeen(f)' \in FindingStatuses
Closed(f) ==
  /\ Live(f) /\ findings'[f].life = "deleted"
  /\ StatusSeen(f)' = "OPEN" /\ Unremediated(f)'
Started(f) ==
  /\ Live(f) /\ SameLife(f) /\ SameSeen(f) /\ Unremediated(f)
  /\ \E a \in ActionIds : Remediates(a, f)'
Progressed(f) ==
  /\ Live(f) /\ SameLife(f)
  /\ \E a \in ActionIds :
       /\ Remediates(a, f) /\ Remediates(a, f)'
       /\ actions'[a].verification = "VERIFIED" => actions'[a].status = "COMPLETED"
       /\ StatusSeen(f)' = IF SyncDue(actions'[a]) THEN SyncTarget(actions'[a])
                                                   ELSE StatusSeen(f)
Dropped(f) ==
  /\ Live(f) /\ SameLife(f) /\ SameSeen(f)
  /\ ~Unremediated(f) /\ Unremediated(f)'

Quiet == \A f \in FindingIds : Same(f)

LEMMA CreateSeen ==
  ASSUME Serial, IInv, UNCHANGED actionVars,
         NEW f \in FindingIds, NEW org \in Orgs, NEW scope \in Scopes,
         NEW dto \in FindingInputs, CreateFinding(f, org, scope, dto)
  PROVE Reported(f) /\ Others(f)
<1> USE FindingAssumption, SeenRules DEF IInv, RowsInv, TypeOK, FindingTypeOK, actionVars
<1>1. /\ findings[f].life = "unborn" /\ findings'[f].life = "live"
      /\ findings'[f].status \in FindingStatuses
      /\ \A g \in FindingIds : g # f => findings'[g] = findings[g]
  BY DEF CreateFinding, Put, FindingDto, FindingStatuses
<1>2. \A a \in ActionIds, g \in FindingIds :
        /\ Remediates(a, g)' <=> Remediates(a, g)
        /\ actions'[a] = actions[a]
  BY DEF Remediates, LiveAction
<1>3. Unremediated(f) /\ Unremediated(f)'
  BY <1>1, <1>2 DEF Unremediated, ReferencesIntact, Remediates, Live
<1>4. \A r \in ActionRequests : ~(areq[r].at = "sync" /\ areq[r].finding = f)
  BY <1>1 DEF RequestsKnowRows, ActionRequestKnows, KnownFinding
<1>5. StatusSeen(f)' = findings'[f].status
  BY <1>4 DEF SeenRule
<1>6. \A g \in FindingIds : g # f => SameSeen(g)
  BY <1>1 DEF SeenRule, SameSeen, Live
<1> QED BY <1>1, <1>2, <1>3, <1>5, <1>6
        DEF Reported, Others, Same, SameLife, SamePlan

\* A request has the status of the finding still to write.
Pending(f) == \E r \in ActionRequests : areq[r].at = "sync" /\ areq[r].finding = f

LEMMA EditSeen ==
  ASSUME Serial, IInv, UNCHANGED actionVars, NEW r \in FindingRequests,
         CommitFindingUpdate(r)
  PROVE \E f \in FindingIds :
          /\ Others(f)
          /\ \/ Same(f)
             \/ /\ Restated(f)
                /\ SameSeen(f) \/ (EditsStatus(r, f) /\ ~Pending(f)')
<1> USE SeenRules DEF IInv, RowsInv, TypeOK, FindingTypeOK, actionVars
<1>1. PICK f \in FindingIds : f = freq[r].id
  BY DEF CommitFindingUpdate, RequestsKnowRows, FindingRequestKnows
<1>2. PICK new : new = Put(findings[f].status, freq[r].dto.status)
  OBVIOUS
<1>3. /\ \A g \in FindingIds : SameLife(g) /\ (Live(g)' <=> Live(g))
      /\ \A g \in FindingIds : g # f \/ ~Live(f) => findings'[g] = findings[g]
      /\ Live(f) => findings'[f].status = new
  BY <1>1, <1>2 DEF CommitFindingUpdate, Edited, SameLife, Live
<1>4. new \in FindingStatuses
  BY <1>1, <1>2 DEF Put, FindingRow, FindingRequest, FindingDto
<1>5. \A g \in FindingIds : SamePlan(g)
  BY DEF SamePlan, Remediates, LiveAction
<1>6. \A g \in FindingIds : g # f => SameSeen(g)
  BY <1>3 DEF SeenRule, SameSeen
<1>7. Others(f)
  BY <1>3, <1>5, <1>6 DEF Others, Same
<1>8. CASE ~Live(f) \/ \E q \in ActionRequests : areq[q].at = "sync" /\ areq[q].finding = f
  <2>1. SameSeen(f)
    BY <1>1, <1>3, <1>8 DEF SeenRule, SameSeen
  <2>2. Same(f)
    BY <1>3, <1>5, <2>1 DEF Same
  <2> QED BY <1>7, <2>2
<1>9. CASE Live(f) /\ \A q \in ActionRequests : ~(areq[q].at = "sync" /\ areq[q].finding = f)
  <2>1. StatusSeen(f)' = new /\ StatusSeen(f) = findings[f].status
    BY <1>1, <1>3, <1>9 DEF SeenRule
  <2>2. Restated(f)
    BY <1>3, <1>4, <1>5, <1>9, <2>1 DEF Restated
  <2>3. SameSeen(f) \/ (EditsStatus(r, f) /\ ~Pending(f)')
    BY <1>1, <1>2, <1>9, <2>1 DEF Put, SameSeen, EditsStatus, Pending
  <2> QED BY <1>7, <2>2, <2>3
<1> QED BY <1>8, <1>9

LEMMA RemovalSeen ==
  ASSUME Serial, IInv, NEW r \in FindingRequests, RemoveFindingRow(r)
  PROVE \E f \in FindingIds : Others(f) /\ (Same(f) \/ Closed(f))
<1> USE SeenRules DEF IInv, RowsInv, TypeOK, FindingTypeOK, ActionTypeOK
<1>1. PICK f \in FindingIds : f = freq[r].id /\ UNCHANGED areq
  BY DEF RemoveFindingRow, CommitFindingRemoval, RequestsKnowRows, FindingRequestKnows
<1>2. /\ \A g \in FindingIds : g # f => findings'[g] = findings[g]
      /\ findings'[f] = IF Live(f) THEN NoFinding("deleted") ELSE findings[f]
      /\ \A a \in ActionIds : actions'[a] = IF Remediates(a, f) THEN NoAction("deleted")
                                                               ELSE actions[a]
  BY <1>1 DEF RemoveFindingRow, CommitFindingRemoval, DeleteActions
<1>3. \A g \in FindingIds : g # f => SamePlan(g)
  BY <1>2 DEF SamePlan, Remediates, LiveAction, NoAction
<1>4. Unremediated(f)'
  BY <1>2 DEF Unremediated, Remediates, LiveAction, NoAction
<1>5. \A g \in FindingIds : g # f => SameSeen(g)
  BY <1>1, <1>2 DEF SeenRule, SameSeen, Live
<1>6. Others(f)
  BY <1>2, <1>3, <1>5 DEF Others, Same, SameLife
<1>7. CASE Live(f)
  <2>1. findings'[f].life = "deleted" /\ findings'[f].status = "OPEN"
    BY <1>2, <1>7 DEF NoFinding
  <2>2. StatusSeen(f)' = "OPEN"
    BY <1>1, <2>1 DEF SeenRule, Live
  <2> QED BY <1>1, <1>4, <1>6, <1>7, <2>1, <2>2 DEF Closed
<1>8. CASE ~Live(f)
  <2>1. Unremediated(f)
    BY <1>8 DEF Unremediated, Remediates, ReferencesIntact
  <2>2. SamePlan(f)
    BY <1>4, <2>1 DEF SamePlan, Unremediated
  <2>3. SameLife(f) /\ SameSeen(f)
    BY <1>1, <1>2, <1>8 DEF SameLife, SameSeen, SeenRule, Live
  <2> QED BY <1>1, <1>6, <2>2, <2>3 DEF Same
<1> QED BY <1>7, <1>8

\* The actions a request leaves alone, and what is seen of the findings when none
\* is left to write before the step and after it.
LEMMA SeenWithoutSync ==
  ASSUME Serial, NEW r \in ActionRequests, UNCHANGED findings,
         areq[r].at # "sync", areq'[r].at # "sync"
  PROVE \A f \in FindingIds : SameLife(f) /\ SameSeen(f)
  BY SeenRules DEF Serial, SeenRule, SameLife, SameSeen, Live

LEMMA QuietWithoutSync ==
  ASSUME Serial, NEW r \in ActionRequests, UNCHANGED <<findings, actions>>,
         areq[r].at # "sync", areq'[r].at # "sync"
  PROVE Quiet
  BY SeenWithoutSync DEF Quiet, Same, SamePlan, Remediates, LiveAction

LEMMA BeginSeen ==
  ASSUME Serial, TypeOK, NEW r \in ActionRequests, BeginStep(r)
  PROVE Quiet
<1> USE DEF TypeOK, ActionTypeOK
<1>1. UNCHANGED <<findings, actions>> /\ areq[r].at = "idle"
  BY DEF BeginStep, BeginCreate, BeginUpdate, BeginRemove, BeginAddEvidence,
         ReadAction, BeginRemoveEvidence, TablesUnchanged
<1>2. ASSUME NEW a \in ActionIds, NEW scope \in Scopes, NEW dto \in UpdateInputs,
             BeginUpdate(r, a, scope, dto)
      PROVE areq'[r].at # "sync"
  BY <1>2 DEF BeginUpdate, Goto, Request
<1>3. areq'[r].at # "sync"
  BY <1>2 DEF BeginStep, BeginCreate, BeginRemove, BeginAddEvidence, ReadAction,
              BeginRemoveEvidence, Goto, Request
<1> QED BY <1>1, <1>3, QuietWithoutSync

\* The statements that change neither an action nor a finding.
LEMMA ReadSeen ==
  ASSUME Serial, TypeOK, NEW r \in ActionRequests,
         \/ CheckDuplicate(r)
         \/ CheckAssignee(r, "checkAssigneeOfNew", "insert")
         \/ CheckAssignee(r, "checkAssignee", "update")
         \/ DetachEvidence(r) \/ \E e \in EvidenceIds : AttachEvidence(r, e)
  PROVE Quiet
<1> USE DEF TypeOK, ActionTypeOK
<1>1. ASSUME Finish(r) PROVE areq'[r].at = "idle"
  BY <1>1 DEF Finish, Goto, IdleAction, Request
<1>2. ASSUME NEW to, Advance(r, to) PROVE areq'[r].at = to
  BY <1>2 DEF Advance, ActionRequest
<1>3. areq[r].at # "sync" /\ areq'[r].at # "sync" /\ UNCHANGED <<findings, actions>>
  BY <1>1, <1>2 DEF CheckDuplicate, CheckAssignee, DetachEvidence, AttachEvidence,
                    TablesUnchanged
<1> QED BY <1>3, QuietWithoutSync

LEMMA InsertSeen ==
  ASSUME Serial, IInv, UniqueInv, NEW r \in ActionRequests,
         NEW a \in ActionIds, InsertAction(r, a)
  PROVE Quiet \/ \E f \in FindingIds : Started(f) /\ Others(f)
<1> USE DEF IInv, TypeOK, ActionTypeOK
<1>1. /\ areq[r].at = "insert" /\ areq'[r].at = "idle" /\ UNCHANGED findings
      /\ actions[a].life = "unborn"
  BY DEF InsertAction, Finish, Goto, IdleAction, Request
<1>2. PICK f \in FindingIds : f = areq[r].finding
  BY <1>1 DEF RowsInv, RequestsKnowRows, ActionRequestKnows, KnownFinding
<1>3. \A g \in FindingIds : SameLife(g) /\ SameSeen(g)
  BY <1>1, SeenWithoutSync
<1>4. CASE ~Live(f)
  BY <1>1, <1>2, <1>4, QuietWithoutSync DEF InsertAction
<1>5. CASE Live(f)
  <2>1. /\ \A b \in ActionIds : b # a => actions'[b] = actions[b]
        /\ actions'[a].life = "live" /\ actions'[a].finding = f
    BY <1>2, <1>5 DEF InsertAction
  <2>2. Unremediated(f)
    BY <1>1, <1>2 DEF UniqueInv
  <2>3. Started(f)
    BY <1>3, <1>5, <2>1, <2>2 DEF Started, Remediates, LiveAction
  <2>4. Others(f)
    BY <1>1, <1>3, <2>1 DEF Others, Same, SamePlan, Remediates, LiveAction
  <2> QED BY <2>3, <2>4
<1> QED BY <1>4, <1>5

LEMMA UpdateSeen ==
  ASSUME Serial, IInv, UniqueInv, LedgerRequests, NEW r \in ActionRequests,
         UpdateAction(r)
  PROVE IF Accepted(r)
        THEN \E f \in FindingIds : /\ f = areq[r].finding /\ Progressed(f) /\ Others(f)
                                   /\ actions[areq[r].action].finding = f
        ELSE Quiet /\ areq'[r].at = "idle"
<1> USE SeenRules DEF Serial, IInv, TypeOK, ActionTypeOK
<1>0. PICK decided : decided = Decided(areq[r].dto, areq[r].row)
  OBVIOUS
<1>1. PICK a \in ActionIds :
        a = areq[r].action /\ decided = Decided(areq[r].dto, areq[r].row)
  BY <1>0 DEF UpdateAction, LedgerRequests
<1>2. /\ areq[r].at = "update" /\ areq[r].row.finding = areq[r].finding
      /\ LiveAction(a) => actions[a] = areq[r].row
      /\ UNCHANGED findings
  BY <1>1 DEF UpdateAction, LedgerRequests, Fresh
<1>3. CASE ~(Acceptable(areq[r].dto, areq[r].row) /\ LiveAction(a))
  <2>1. UNCHANGED actions /\ areq'[r].at = "idle"
    BY <1>1, <1>3 DEF UpdateAction, Finish, Goto, IdleAction, Request
  <2> QED BY <1>1, <1>2, <1>3, <2>1, QuietWithoutSync DEF Accepted
<1>4. CASE Acceptable(areq[r].dto, areq[r].row) /\ LiveAction(a)
  <2>1. PICK f \in FindingIds : f = areq[r].finding /\ Remediates(a, f) /\ Live(f)
    BY <1>2, <1>4 DEF RowsInv, ReferencesIntact, Remediates
  <2>2. /\ \A b \in ActionIds : b # a => actions'[b] = actions[b]
        /\ Remediates(a, f)' /\ ~LiveAction(a)' => FALSE
        /\ actions'[a].status = decided.status
        /\ actions'[a].verification = decided.verification
    BY <1>1, <1>2, <1>4, <2>1 DEF UpdateAction, Written, Decided, LiveAction, Remediates
  <2>3. decided.verification = "VERIFIED" => decided.status = "COMPLETED"
    BY <1>1, <1>4 DEF Acceptable
  <2>4. \A g \in FindingIds : SameLife(g) /\ StatusSeen(g) = findings[g].status
    BY <1>2 DEF SeenRule, SameLife
  <2>5. \A g \in FindingIds :
          StatusSeen(g)' = IF g = f /\ SyncDue(decided) THEN SyncTarget(decided)
                                                        ELSE StatusSeen(g)
    <3>1. CASE SyncDue(decided)
      <4>1. /\ areq'[r].at = "sync" /\ areq'[r].finding = f
            /\ areq'[r].target = SyncTarget(decided)
        BY <1>1, <1>4, <2>1, <3>1 DEF UpdateAction, Goto, Request
      <4> QED BY <1>2, <2>1, <2>4, <3>1, <4>1 DEF SeenRule, Live
    <3>2. CASE ~SyncDue(decided)
      <4>1. areq'[r].at = "idle"
        BY <1>1, <3>2 DEF UpdateAction, Finish, Goto, IdleAction, Request
      <4> QED BY <1>2, <2>4, <3>2, <4>1 DEF SeenRule
    <3> QED BY <3>1, <3>2
  <2>6. SyncDue(actions'[a]) = SyncDue(decided) /\ SyncTarget(actions'[a]) = SyncTarget(decided)
    BY <2>2 DEF SyncDue, SyncTarget, Resolves
  <2>7. Remediates(a, f)' /\ actions'[a].finding = f
    BY <1>1, <1>4, <2>1 DEF UpdateAction, Written, Remediates, LiveAction
  <2>8. Progressed(f)
    BY <2>1, <2>2, <2>3, <2>4, <2>5, <2>6, <2>7 DEF Progressed
  <2>9. Others(f)
    BY <2>1, <2>2, <2>4, <2>5, <2>7 DEF Others, Same, SameSeen, SamePlan, Remediates, LiveAction
  <2> QED BY <1>1, <1>4, <2>1, <2>8, <2>9 DEF Accepted, Remediates
<1> QED BY <1>3, <1>4

\* The write of the finding cannot be seen: it has counted as made.
LEMMA SyncSeen ==
  ASSUME Serial, IInv, NEW r \in ActionRequests, SyncFinding(r)
  PROVE Quiet
<1> USE SeenRules DEF Serial, IInv, TypeOK, ActionTypeOK, FindingTypeOK
<1>1. /\ areq[r].at = "sync" /\ areq'[r].at = "idle" /\ UNCHANGED actions
  BY DEF SyncFinding, Finish, Goto, IdleAction, Request
<1>2. PICK f \in FindingIds : f = areq[r].finding
  BY <1>1 DEF RowsInv, RequestsKnowRows, ActionRequestKnows, KnownFinding
<1>3. \A g \in FindingIds :
        /\ SameLife(g) /\ (Live(g)' <=> Live(g))
        /\ findings'[g].status = IF Live(g) /\ g = f THEN areq[r].target
                                                     ELSE findings[g].status
  BY <1>2 DEF SyncFinding, Live, FindingRow, SameLife
<1>4. \A g \in FindingIds : SameSeen(g)
  BY <1>1, <1>2, <1>3 DEF SeenRule, SameSeen
<1> QED BY <1>1, <1>3, <1>4 DEF Quiet, Same, SamePlan, Remediates, LiveAction

LEMMA DeleteSeen ==
  ASSUME Serial, IInv, UniqueInv, NEW r \in ActionRequests, DeleteAction(r)
  PROVE Quiet \/ \E f \in FindingIds : Dropped(f) /\ Others(f)
<1> USE DEF IInv, TypeOK, ActionTypeOK
<1>1. /\ areq[r].at = "delete" /\ areq'[r].at = "idle" /\ UNCHANGED findings
  BY DEF DeleteAction, Finish, Goto, IdleAction, Request
<1>2. PICK a \in ActionIds : a = areq[r].action
  BY <1>1 DEF RowsInv, RequestsKnowRows, ActionRequestKnows, KnownAction
<1>3. \A g \in FindingIds : SameLife(g) /\ SameSeen(g)
  BY <1>1, SeenWithoutSync
<1>4. \A b \in ActionIds : actions'[b] = IF b = a /\ LiveAction(a) THEN NoAction("deleted")
                                                                   ELSE actions[b]
  BY <1>2 DEF DeleteAction, DeleteActions
<1>5. CASE ~LiveAction(a)
  BY <1>3, <1>4, <1>5 DEF Quiet, Same, SamePlan, Remediates, LiveAction
<1>6. CASE LiveAction(a)
  <2>1. PICK f \in FindingIds : f = actions[a].finding /\ Live(f)
    BY <1>6 DEF RowsInv, ReferencesIntact
  <2>2. Others(f)
    BY <1>3, <1>4, <2>1 DEF Others, Same, SamePlan, Remediates, LiveAction, NoAction
  <2>3. Remediates(a, f) /\ Unremediated(f)'
    BY <1>4, <1>6, <2>1
    DEF UniqueInv, OneActionPerFinding, Unremediated, Remediates, LiveAction, NoAction
  <2>4. Dropped(f)
    BY <1>3, <2>1, <2>3 DEF Dropped, Unremediated
  <2> QED BY <2>2, <2>4
<1> QED BY <1>5, <1>6

\* A write of the finding that fails is seen as an edit of the finding.
LEMMA FailSeen ==
  ASSUME Serial, IInv, NEW r \in ActionRequests, FailRequest(r)
  PROVE Quiet \/ \E f \in FindingIds : Restated(f) /\ Others(f)
<1> USE SeenRules DEF Serial, IInv, TypeOK, ActionTypeOK, FindingTypeOK
<1>1. areq'[r].at = "idle" /\ UNCHANGED <<findings, actions>>
  BY DEF FailRequest, TablesUnchanged, Finish, Goto, IdleAction, Request
<1>2. CASE areq[r].at # "sync"
  BY <1>1, <1>2, QuietWithoutSync
<1>3. CASE areq[r].at = "sync"
  <2>1. PICK f \in FindingIds : f = areq[r].finding
    BY <1>3 DEF RowsInv, RequestsKnowRows, ActionRequestKnows, KnownFinding
  <2>2. \A g \in FindingIds : SameLife(g) /\ SamePlan(g)
    BY <1>1 DEF SameLife, SamePlan, Remediates, LiveAction
  <2>3. \A g \in FindingIds : StatusSeen(g)' = findings[g].status
    BY <1>1 DEF SeenRule
  <2>4. \A g \in FindingIds : g # f \/ ~Live(f) => StatusSeen(g) = findings[g].status
    BY <1>1, <2>1 DEF SeenRule
  <2>5. Others(f)
    BY <2>2, <2>3, <2>4 DEF Others, Same, SameSeen
  <2>6. CASE Live(f)
    <3>1. findings[f].status \in FindingStatuses
      BY DEF FindingRow
    <3>2. Restated(f)
      BY <2>2, <2>3, <2>6, <3>1 DEF Restated
    <3> QED BY <2>5, <3>2
  <2>7. CASE ~Live(f)
    BY <2>2, <2>3, <2>4, <2>7 DEF Quiet, Same, SameSeen
  <2> QED BY <2>6, <2>7
<1> QED BY <1>2, <1>3

\* The step is an edit of the finding's status that nothing is about to overwrite.
EditedNow(f) == (\E r \in FindingRequests : EditsStatus(r, f)) /\ ~Pending(f)'

\* What can be seen of a step.
SeenStep(f) ==
  /\ Others(f)
  /\ \/ Reported(f) \/ Closed(f) \/ Started(f) \/ Progressed(f) \/ Dropped(f)
     \/ Restated(f) /\ (SameSeen(f) \/ EditedNow(f) \/ DbFaults)

LEMMA StepSeen ==
  ASSUME Serial, IInv, UniqueInv, LedgerRequests, [Next]_vars
  PROVE Quiet \/ \E f \in FindingIds : SeenStep(f)
<1>1. ASSUME UNCHANGED <<findings, actions, areq>> PROVE Quiet
  BY <1>1, SeenRules DEF Quiet, Same, SameLife, SameSeen, SamePlan, Remediates,
     LiveAction, SeenRule, Live
<1>2. CASE FindingStep
  <2>1. ASSUME UNCHANGED actionVars,
               NEW f \in FindingIds, NEW org \in Orgs, NEW scope \in Scopes,
               NEW dto \in FindingInputs, CreateFinding(f, org, scope, dto)
        PROVE SeenStep(f)
    BY <2>1, CreateSeen DEF SeenStep
  <2>2. ASSUME UNCHANGED actionVars, NEW r \in FindingRequests, CommitFindingUpdate(r)
        PROVE Quiet \/ \E f \in FindingIds : SeenStep(f)
    <3>1. PICK f \in FindingIds :
            /\ Others(f)
            /\ \/ Same(f)
               \/ /\ Restated(f)
                  /\ SameSeen(f) \/ (EditsStatus(r, f) /\ ~Pending(f)')
      BY <2>2, EditSeen
    <3>2. Same(f) => Quiet
      BY <3>1 DEF Quiet, Others
    <3> QED BY <3>1, <3>2 DEF SeenStep, EditedNow
  <2>3. ASSUME NEW r \in FindingRequests, RemoveFindingRow(r)
        PROVE Quiet \/ \E f \in FindingIds : SeenStep(f)
    BY <2>3, RemovalSeen DEF SeenStep, Quiet, Others
  <2>4. CASE UNCHANGED <<findings, actionVars>>
    BY <1>1, <2>4 DEF actionVars
  <2> QED BY <1>2, <2>1, <2>2, <2>3, <2>4
          DEF FindingStep, BeginFindingUpdate, BeginFindingRemoval, ReadFinding,
              FailFindingRequest, SendAlert
<1>3. ASSUME NEW r \in ActionRequests, BeginStep(r) \/ ContinueStep(r)
      PROVE Quiet \/ \E f \in FindingIds : SeenStep(f)
  <2>1. UpdateAction(r) => Quiet \/ \E f \in FindingIds : SeenStep(f)
    BY UpdateSeen DEF SeenStep
  <2> QED BY <1>3, <2>1, BeginSeen, ReadSeen, InsertSeen, SyncSeen, DeleteSeen
          DEF ContinueStep, SeenStep, IInv
<1>4. ASSUME NEW r \in ActionRequests, FailRequest(r)
      PROVE Quiet \/ \E f \in FindingIds : SeenStep(f)
  BY <1>4, FailSeen DEF FailRequest, SeenStep
<1> QED BY <1>1, <1>2, <1>3, <1>4 DEF Next, MoveUser, vars

\* Everything about requests that do not overlap.
SerialInv == IInv /\ UniqueInv /\ LedgerRequests

LEMMA SerialInit == Init => SerialInv
  BY InitInv, UniqueInit, FreshInit DEF SerialInv

LEMMA SerialNext ==
  ASSUME Serial, SerialInv, [Next]_vars
  PROVE SerialInv'
  BY NextInv, UniqueNext, FreshNext DEF SerialInv, IInv

-----------------------------------------------------------------------------
(* The finding follows its action, when no write fails *)

\* The status of the finding was written by hand, and nothing is to overwrite it.
ByHand(f) == f \in byHand /\ ~Pending(f)

\* The gate and the status of one finding, where the write that is still to come
\* counts as made: SynchronizedAtRest without waiting for rest.
Follows(f) ==
  \A a \in ActionIds \ asCreated : Remediates(a, f) =>
    /\ actions[a].verification = "VERIFIED" => actions[a].status = "COMPLETED"
    /\ ~ByHand(f) =>
         /\ Resolves(actions[a]) => StatusSeen(f) = "RESOLVED"
         /\ actions[a].status = "IN_PROGRESS" => StatusSeen(f) = "IN_PROGRESS"

LedgerInv == \A f \in FindingIds : Follows(f)

\* An action whose states count from now on has just been updated.
LEMMA ValidatedByUpdate ==
  ASSUME Serial, SerialInv, [Next]_vars, Remember,
         NEW a \in ActionIds, a \notin asCreated', NEW f \in FindingIds, Remediates(a, f)'
  PROVE  Remediates(a, f) /\ (a \notin asCreated \/ Progressed(f))
<1> USE DEF SerialInv
<1>1. TypeOK /\ RowsEvolve
  BY NextEvolves DEF IInv
<1>2. CASE \E r \in ActionRequests : Updates(r, a)
  <2>1. PICK r \in ActionRequests : UpdateAction(r) /\ Accepted(r) /\ areq[r].action = a
    BY <1>2 DEF Updates
  <2>2. PICK g \in FindingIds : Progressed(g) /\ actions[a].finding = g /\ LiveAction(a)
    BY <2>1, UpdateSeen DEF Accepted
  <2>3. actions'[a].finding = actions[a].finding
    BY <1>1, <2>2 DEF RowsEvolve, LiveAction, Remediates
  <2> QED BY <2>2, <2>3 DEF Remediates
<1>3. CASE ~\E r \in ActionRequests : Updates(r, a)
  <2>1. a \notin asCreated /\ LiveAction(a)
    BY <1>3 DEF Remember, Remediates
  <2> QED BY <1>1, <2>1 DEF RowsEvolve, Remediates, LiveAction
<1> QED BY <1>2, <1>3

\* A status comes to be owed by an update of the finding's action only.
LEMMA OwedByUpdate ==
  ASSUME Serial, SerialInv, [Next]_vars, NEW f \in FindingIds, ~Pending(f), Pending(f)'
  PROVE  Progressed(f)
<1> USE DEF SerialInv, IInv, TypeOK, ActionTypeOK
<1>1. PICK r \in ActionRequests : areq'[r].at = "sync" /\ areq'[r].finding = f
  BY DEF Pending
<1>2. areq'[r] # areq[r]
  BY <1>1 DEF Pending
<1>3. ASSUME Finish(r) PROVE FALSE
  BY <1>1, <1>3 DEF Finish, Goto, IdleAction, Request
<1>4. ASSUME NEW to, Advance(r, to) PROVE to = "sync"
  BY <1>1, <1>4 DEF Advance, ActionRequest
<1>5. ASSUME NEW a \in ActionIds, NEW scope \in Scopes, NEW dto \in UpdateInputs,
             BeginUpdate(r, a, scope, dto)
      PROVE FALSE
  BY <1>1, <1>5 DEF BeginUpdate, Goto, Request
<1>6. ~BeginStep(r)
  BY <1>1, <1>5 DEF BeginStep, BeginCreate, BeginRemove, BeginAddEvidence, ReadAction,
                    BeginRemoveEvidence, Goto, Request
<1>7. ContinueStep(r) \/ FailRequest(r)
  BY <1>2, <1>6, RequestMoves
<1>8. UpdateAction(r)
  BY <1>3, <1>4, <1>7
  DEF ContinueStep, FailRequest, CheckDuplicate, CheckAssignee, InsertAction,
      SyncFinding, DeleteAction, AttachEvidence, DetachEvidence
<1>9. areq'[r].finding = areq[r].finding
  BY <1>3, <1>8 DEF UpdateAction, Goto, Request
<1> QED BY <1>1, <1>8, <1>9, UpdateSeen

\* The status of a finding that stays is as it was, unless its action has been
\* updated or someone has written it by hand.
LEMMA StatusKept ==
  ASSUME Serial, ~DbFaults, SerialInv, [Next]_vars, Remember,
         NEW f \in FindingIds, Live(f), Live(f)', ~ByHand(f)', ~Progressed(f)
  PROVE  ~ByHand(f) /\ SameSeen(f)
<1>1. ~ByHand(f)
  <2> SUFFICES ASSUME f \in byHand, ~Pending(f) PROVE FALSE
    BY DEF ByHand
  <2>1. \A r \in ActionRequests : ~Syncs(r, f)
    BY DEF Syncs, SyncFinding, Pending
  <2>2. f \in byHand'
    BY <2>1 DEF Remember
  <2> QED BY <2>2, OwedByUpdate DEF ByHand
<1>2. ~EditedNow(f)
  BY DEF EditedNow, Remember, ByHand
<1>3. Quiet \/ \E g \in FindingIds : SeenStep(g)
  BY StepSeen DEF SerialInv
<1>4. SeenStep(f) => SameSeen(f)
  BY <1>2 DEF SeenStep, Reported, Closed, Started, Dropped, Live
<1> QED BY <1>1, <1>3, <1>4 DEF Quiet, Same, SeenStep, Others

\* The plan of a finding that keeps its action is as it was, unless it is updated.
LEMMA PlanKept ==
  ASSUME Serial, SerialInv, [Next]_vars,
         NEW f \in FindingIds, NEW a \in ActionIds,
         Remediates(a, f), Remediates(a, f)', ~Progressed(f)
  PROVE  SamePlan(f)
<1>1. Quiet \/ \E g \in FindingIds : SeenStep(g)
  BY StepSeen DEF SerialInv
<1>2. SeenStep(f) => SamePlan(f)
  BY DEF SeenStep, Reported, Closed, Started, Dropped, Unremediated, Restated
<1> QED BY <1>1, <1>2 DEF Quiet, Same, SeenStep, Others

LEMMA FollowsNext ==
  ASSUME Serial, ~DbFaults, SerialInv, SerialInv', LedgerInv, [Next]_vars, Remember
  PROVE LedgerInv'
<1> SUFFICES ASSUME NEW f \in FindingIds, NEW a \in ActionIds,
                    a \notin asCreated', Remediates(a, f)'
             PROVE  /\ actions'[a].verification = "VERIFIED" =>
                         actions'[a].status = "COMPLETED"
                    /\ ~ByHand(f)' =>
                         /\ Resolves(actions'[a]) => StatusSeen(f)' = "RESOLVED"
                         /\ actions'[a].status = "IN_PROGRESS" =>
                              StatusSeen(f)' = "IN_PROGRESS"
  BY DEF LedgerInv, Follows
<1>1. CASE Progressed(f)
  <2>1. PICK b \in ActionIds :
          /\ Remediates(b, f)'
          /\ actions'[b].verification = "VERIFIED" => actions'[b].status = "COMPLETED"
          /\ StatusSeen(f)' = IF SyncDue(actions'[b]) THEN SyncTarget(actions'[b])
                                                      ELSE StatusSeen(f)
    BY <1>1 DEF Progressed
  <2>2. a = b
    BY <2>1 DEF SerialInv, UniqueInv, OneActionPerFinding
  <2> QED BY <2>1, <2>2 DEF SyncDue, SyncTarget, Resolves
<1>2. CASE ~Progressed(f)
  <2>1. Remediates(a, f) /\ a \notin asCreated
    BY <1>2, ValidatedByUpdate
  <2>2. SamePlan(f)
    BY <1>2, <2>1, PlanKept
  <2>3. /\ actions'[a].status = actions[a].status
        /\ actions'[a].verification = actions[a].verification
    BY <2>1, <2>2 DEF SamePlan
  <2>4. Live(f) /\ Live(f)'
    BY <2>1 DEF SerialInv, IInv, RowsInv, ReferencesIntact, Remediates
  <2>5. ~ByHand(f)' => ~ByHand(f) /\ SameSeen(f)
    BY <1>2, <2>4, StatusKept
  <2> QED BY <2>1, <2>3, <2>5 DEF LedgerInv, Follows, Resolves, SameSeen
<1> QED BY <1>1, <1>2

\* Without overlapping remediation requests and failing calls, and with any states
\* in any body, the tables fit together whenever no finding is left to write: an
\* action that was updated since it was created is not verified unless completed, a
\* finding has one action, and the status of the finding of such an action is the
\* one the action asks for, or the last one written by hand.
THEOREM LedgerSafety == Serial /\ ~DbFaults => (LedgerSpec => []LedgerInvariant)
<1> SUFFICES ASSUME Serial, ~DbFaults
             PROVE LedgerSpec => []LedgerInvariant
  OBVIOUS
<1> DEFINE Inv == SerialInv /\ LedgerInv
<1>1. Init => Inv
  <2> SUFFICES ASSUME Init PROVE LedgerInv
    BY SerialInit
  <2>1. \A a \in ActionIds : ~LiveAction(a)
    BY DEF Init, LiveAction, NoAction
  <2> QED BY <2>1 DEF LedgerInv, Follows, Remediates
<1>2. Inv /\ [LedgerNext]_LedgerVars => Inv'
  <2> SUFFICES ASSUME Inv, [LedgerNext]_LedgerVars PROVE Inv'
    OBVIOUS
  <2>1. CASE LedgerNext
    <3>1. SerialInv'
      BY <2>1, SerialNext DEF LedgerNext
    <3> QED BY <2>1, <3>1, FollowsNext DEF LedgerNext
  <2>2. CASE UNCHANGED LedgerVars
    <3>1. SerialInv' /\ UNCHANGED <<findings, actions, areq, asCreated, byHand>>
      BY <2>2, SerialNext DEF LedgerVars, vars
    <3>2. \A f \in FindingIds : StatusSeen(f)' = StatusSeen(f)
      BY <3>1, SeenRules DEF SeenRule, Live
    <3> QED BY <3>1, <3>2 DEF LedgerInv, Follows, ByHand, Pending, Remediates, LiveAction
  <2> QED BY <2>1, <2>2
<1>3. Inv => LedgerInvariant
  <2> SUFFICES ASSUME Inv PROVE GateSinceUpdate /\ SynchronizedAtRest
    BY DEF SerialInv, UniqueInv, LedgerInvariant
  <2>1. GateSinceUpdate
    BY DEF SerialInv, IInv, RowsInv, ReferencesIntact, LedgerInv, Follows, Remediates,
           GateSinceUpdate
  <2>2. (\A r \in ActionRequests : areq[r].at # "sync") =>
          \A f \in FindingIds : StatusSeen(f) = findings[f].status
    BY SeenRules DEF SeenRule
  <2>3. SynchronizedAtRest
    BY <2>2 DEF LedgerInv, Follows, ByHand, SynchronizedAtRest
  <2> QED BY <2>1, <2>3
<1> HIDE DEF Inv
<1> QED BY <1>1, <1>2, <1>3, PTL DEF LedgerSpec

-----------------------------------------------------------------------------
(* Refinement *)

LEMMA MappedInit == Init => Ledger!Init
<1> SUFFICES ASSUME Init PROVE Ledger!Init
  OBVIOUS
<1>1. /\ \A f \in FindingIds : findings[f].life = "unborn" /\ findings[f].status = "OPEN"
      /\ \A a \in ActionIds : ~LiveAction(a)
      /\ \A r \in ActionRequests : areq[r].at = "idle"
  BY DEF Init, FindingInit, NoFinding, LiveAction, NoAction, IdleAction, Request
<1>2. \A f \in FindingIds : ~Live(f) /\ findings[f].life # "deleted"
  BY <1>1 DEF Live
<1>3. \A f \in FindingIds : StatusSeen(f) = "OPEN"
  BY <1>1, <1>2 DEF StatusSeen
<1>4. \A f \in FindingIds : PlanOf(f) = None
  BY <1>1 DEF PlanOf, Remediates
<1> QED BY <1>2, <1>3, <1>4 DEF Ledger!Init

LEMMA MappedSame ==
  ASSUME UniqueInv, UniqueInv', NEW f \in FindingIds, SamePlan(f)
  PROVE PlanOf(f)' = PlanOf(f)
<1>1. PlanRule /\ PlanRule'
  BY PlanRules DEF UniqueInv
<1>2. CASE Unremediated(f)
  BY <1>1, <1>2 DEF PlanRule, SamePlan, Unremediated
<1>3. ASSUME NEW a \in ActionIds, Remediates(a, f) PROVE PlanOf(f)' = PlanOf(f)
  BY <1>1, <1>3 DEF PlanRule, SamePlan, Plan
<1> QED BY <1>2, <1>3 DEF Unremediated

\* The mapped variables, one finding at a time.
LEMMA MappedStutter ==
  ASSUME UniqueInv, UniqueInv', Quiet
  PROVE UNCHANGED Ledger!ledger
<1>1. \A f \in FindingIds :
        /\ findings'[f].life = findings[f].life
        /\ StatusSeen(f)' = StatusSeen(f) /\ PlanOf(f)' = PlanOf(f)
  BY MappedSame DEF Quiet, Same, SameLife, SameSeen
<1> QED BY <1>1 DEF Ledger!ledger, Live

LEMMA MappedStep ==
  ASSUME TypeOK, TypeOK', UniqueInv, UniqueInv', NEW f \in FindingIds, SeenStep(f)
  PROVE Ledger!Next
<1>1. \A g \in FindingIds : g # f =>
        /\ findings'[g].life = findings[g].life
        /\ StatusSeen(g)' = StatusSeen(g) /\ PlanOf(g)' = PlanOf(g)
  BY MappedSame DEF SeenStep, Others, Same, SameLife, SameSeen
<1>2. SamePlan(f) => PlanOf(f)' = PlanOf(f)
  BY MappedSame
<1>3. PlanRule /\ PlanRule'
  BY PlanRules DEF UniqueInv
<1>4. FindingStatuses = Ledger!Statuses
  BY DEF FindingStatuses, Ledger!Statuses
<1>5. \A a \in ActionIds : Plan(a) \in Ledger!Plans /\ Plan(a)' \in Ledger!Plans
  BY DEF TypeOK, ActionTypeOK, ActionRow, ActionStatuses, Verifications, Plan,
         Ledger!Plans, Ledger!PlanStatuses, Ledger!PlanChecks
<1>6. CASE Reported(f)
  <2>1. PlanOf(f)' = PlanOf(f)
    BY <1>3, <1>6 DEF Reported, PlanRule
  <2>2. Ledger!Report(f)
    BY <1>1, <1>4, <1>6, <2>1 DEF Reported, Ledger!Report, Live
  <2> QED BY <2>2 DEF Ledger!Next
<1>7. CASE Restated(f)
  <2>1. Ledger!Restate(f)
    BY <1>1, <1>2, <1>4, <1>7 DEF Restated, SameLife, Ledger!Restate, Live
  <2> QED BY <2>1 DEF Ledger!Next
<1>8. CASE Closed(f)
  <2>1. PlanOf(f)' = None
    BY <1>3, <1>8 DEF Closed, PlanRule
  <2>2. Ledger!Close(f)
    BY <1>1, <1>8, <2>1 DEF Closed, Ledger!Close, Live
  <2> QED BY <2>2 DEF Ledger!Next
<1>9. CASE Started(f)
  <2>1. /\ PlanOf(f) = None
        /\ \E p \in Ledger!Plans : PlanOf(f)' = p
    BY <1>3, <1>5, <1>9 DEF Started, PlanRule
  <2>2. Ledger!StartPlan(f)
    BY <1>1, <1>9, <2>1 DEF Started, SameLife, SameSeen, Ledger!StartPlan, Live
  <2> QED BY <2>2 DEF Ledger!Next
<1>10. CASE Progressed(f)
  <2>1. PICK a \in ActionIds :
          /\ Remediates(a, f) /\ Remediates(a, f)'
          /\ actions'[a].verification = "VERIFIED" => actions'[a].status = "COMPLETED"
          /\ StatusSeen(f)' = IF SyncDue(actions'[a]) THEN SyncTarget(actions'[a])
                                                      ELSE StatusSeen(f)
    BY <1>10 DEF Progressed
  <2>2. PICK p \in Ledger!Plans : p = Plan(a)'
    BY <1>5
  <2>3. PlanOf(f) # None /\ PlanOf(f)' = p
    BY <1>3, <1>5, <2>1, <2>2, PlanAssumption DEF PlanRule
  <2>4. p.status = actions'[a].status /\ p.verification = actions'[a].verification
    BY <2>2 DEF Plan
  <2>5. Ledger!StatusAfter(p, StatusSeen(f)) = StatusSeen(f)'
    BY <2>1, <2>4 DEF Ledger!StatusAfter, SyncDue, SyncTarget, Resolves
  <2>6. Ledger!Progress(f)
    BY <1>1, <1>10, <2>1, <2>3, <2>4, <2>5 DEF Progressed, SameLife, Ledger!Progress, Live
  <2> QED BY <2>6 DEF Ledger!Next
<1>11. CASE Dropped(f)
  <2>1. PlanOf(f) # None /\ PlanOf(f)' = None
    BY <1>3, <1>11, <1>5, PlanAssumption DEF Dropped, Unremediated, PlanRule
  <2>2. Ledger!DropPlan(f)
    BY <1>1, <1>11, <2>1 DEF Dropped, SameLife, SameSeen, Ledger!DropPlan, Live
  <2> QED BY <2>2 DEF Ledger!Next
<1> QED BY <1>6, <1>7, <1>8, <1>9, <1>10, <1>11 DEF SeenStep

\* When remediation requests do not overlap, their statements act as one atomic
\* change of the plan and of the finding's status, whatever states their bodies
\* carry and whatever finding requests run between the statements; a write of the
\* finding that fails shows as an edit of the finding.
THEOREM Refinement == Serial => (Spec => ImplementsLedger)
<1> SUFFICES ASSUME Serial PROVE Spec => ImplementsLedger
  OBVIOUS
<1>1. SerialInv /\ [Next]_vars => SerialInv'
  BY SerialNext
<1>2. SerialInv /\ SerialInv' /\ [Next]_vars => [Ledger!Next]_(Ledger!ledger)
  <2> SUFFICES ASSUME SerialInv, SerialInv', [Next]_vars
               PROVE Ledger!Next \/ UNCHANGED Ledger!ledger
    OBVIOUS
  <2> QED BY StepSeen, MappedStep, MappedStutter DEF SerialInv, IInv
<1> QED BY <1>1, <1>2, SerialInit, MappedInit, PTL DEF Spec, ImplementsLedger, Ledger!Spec
=============================================================================
