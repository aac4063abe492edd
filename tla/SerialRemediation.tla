------------------------- MODULE SerialRemediation -------------------------
(***************************************************************************)
(* RemediationActions seen as the atomic ledger of AtomicRemediation, and  *)
(* how far an action and its finding agree.  A finding whose status a      *)
(* request has still to write counts as written.  Two history variables    *)
(* remember what the tables do not: which states were never validated and  *)
(* which finding was last written by hand.                                 *)
(***************************************************************************)
EXTENDS RemediationActions

PlanOf(f) ==
  IF \E a \in ActionIds : Remediates(a, f)
  THEN LET a == CHOOSE b \in ActionIds : Remediates(b, f)
       IN [status |-> actions[a].status, verification |-> actions[a].verification]
  ELSE None

StatusSeen(f) ==
  IF Live(f) /\ \E r \in ActionRequests : areq[r].at = "sync" /\ areq[r].finding = f
  THEN areq[CHOOSE r \in ActionRequests :
              areq[r].at = "sync" /\ areq[r].finding = f].target
  ELSE findings[f].status

Ledger == INSTANCE AtomicRemediation WITH
  Findings <- FindingIds,
  NoPlan <- None,
  known <- {f \in FindingIds : Live(f)},
  gone <- {f \in FindingIds : findings[f].life = "deleted"},
  status <- [f \in FindingIds |-> StatusSeen(f)],
  plan <- [f \in FindingIds |-> PlanOf(f)]

\* None can be told from a plan.
ASSUME PlanAssumption == None \notin Ledger!Plans

-----------------------------------------------------------------------------
(* What the tables do not remember *)

VARIABLES
  asCreated,  \* actions whose states come from the body of create, not updated since
  byHand      \* findings whose status was last written by an edit of the finding

history == <<asCreated, byHand>>

Accepted(r) == Acceptable(areq[r].dto, areq[r].row) /\ LiveAction(areq[r].action)

\* The update of the action succeeds in this step.
Updates(r, a) == UpdateAction(r) /\ Accepted(r) /\ areq[r].action = a
\* The status of the finding is written in this step: by an edit, by a sync.
EditsStatus(r, f) ==
  CommitFindingUpdate(r) /\ freq[r].id = f /\ freq[r].dto.status # Unset
Syncs(r, f) == SyncFinding(r) /\ areq[r].finding = f

Remember ==
  /\ asCreated' = {a \in ActionIds :
                     /\ a \in asCreated \/ (~LiveAction(a) /\ LiveAction(a)')
                     /\ \A r \in ActionRequests : ~Updates(r, a)}
  /\ byHand' = {f \in FindingIds :
                  \/ \E r \in FindingRequests : EditsStatus(r, f)
                  \/ f \in byHand /\ \A r \in ActionRequests : ~Syncs(r, f)}

LedgerNext == Next /\ Remember
LedgerVars == <<findings, freq, alerts, actions, evidence, areq, userOrg, moved,
                asCreated, byHand>>
LedgerSpec == Init /\ asCreated = {} /\ byHand = {} /\ [][LedgerNext]_LedgerVars
FairLedgerSpec == LedgerSpec /\ Fairness

-----------------------------------------------------------------------------
(* Properties that need remediation requests that do not overlap *)

\* An action that an update has ever accepted is verified only while it is
\* completed.  (create takes both states as they come: VerifiedCreate.cfg.)
GateSinceUpdate ==
  \A a \in ActionIds \ asCreated :
    LiveAction(a) /\ actions[a].verification = "VERIFIED" =>
      actions[a].status = "COMPLETED"

\* Once no request has the finding's status still to write, the finding of a
\* completed and verified action is resolved and that of an action in progress is
\* in progress, except where the code never ties the two: create does not write
\* the finding, and an edit of the finding may say anything.
SynchronizedAtRest ==
  (\A r \in ActionRequests : areq[r].at # "sync") =>
    \A a \in ActionIds \ asCreated, f \in FindingIds \ byHand : Remediates(a, f) =>
      /\ Resolves(actions[a]) => findings[f].status = "RESOLVED"
      /\ actions[a].status = "IN_PROGRESS" => findings[f].status = "IN_PROGRESS"

\* The state of an action and of its finding fit together: the verification
\* gate, one action for a finding, the status of the finding.
LedgerInvariant == GateSinceUpdate /\ OneActionPerFinding /\ SynchronizedAtRest

\* The request is about to accept a change that asks for status s of finding f.
AsksFor(r, f, s) ==
  LET decided == Decided(areq[r].dto, areq[r].row)
  IN /\ areq[r].at = "update" /\ areq[r].finding = f /\ Accepted(r)
     /\ \/ s = "RESOLVED" /\ decided.status = "COMPLETED"
                          /\ decided.verification = "VERIFIED"
        \/ s = "IN_PROGRESS" /\ decided.status = "IN_PROGRESS"

\* An accepted change of an action reaches its finding: whatever edits of the
\* finding commit between the two statements, the finding gets the status the
\* change asks for, unless it is removed first.
ProgressReachesFinding ==
  \A r \in ActionRequests, f \in FindingIds, s \in {"RESOLVED", "IN_PROGRESS"} :
    AsksFor(r, f, s) ~> (findings[f].status = s \/ ~Live(f))

\* One remediation request at a time: the statements of create, update and
\* remove together act as one atomic change of the plan and of the finding's
\* status, with finding requests interleaved between them.
ImplementsLedger == Ledger!Spec
=============================================================================
