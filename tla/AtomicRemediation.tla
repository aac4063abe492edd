------------------------- MODULE AtomicRemediation -------------------------
(***************************************************************************)
(* What remediation promises about one finding at a time: a finding has a  *)
(* status and at most one remediation plan; progress of the plan and the   *)
(* status of the finding change together; progress leaves no plan verified *)
(* that is not completed.  RemediationActions implements this when its     *)
(* remediation requests do not overlap (SerialRemediation).                *)
(***************************************************************************)
CONSTANTS Findings, NoPlan

PlanStatuses == {"PENDING", "IN_PROGRESS", "COMPLETED", "CANCELLED"}
PlanChecks == {"NOT_VERIFIED", "VERIFIED", "FAILED"}
Statuses == {"OPEN", "IN_PROGRESS", "RESOLVED", "ACCEPTED_RISK", "FALSE_POSITIVE"}
Plans == [status : PlanStatuses, verification : PlanChecks]

VARIABLES
  known,   \* findings that exist
  gone,    \* findings that were removed
  status,  \* status of each finding
  plan     \* the remediation plan of each finding, or NoPlan

ledger == <<known, gone, status, plan>>

Init ==
  /\ known = {} /\ gone = {}
  /\ status = [f \in Findings |-> "OPEN"]
  /\ plan = [f \in Findings |-> NoPlan]

Report(f) ==
  /\ f \notin known \cup gone
  /\ known' = known \cup {f}
  /\ \E s \in Statuses : status' = [status EXCEPT ![f] = s]
  /\ UNCHANGED <<gone, plan>>

\* A direct edit of the finding.
Restate(f) ==
  /\ f \in known
  /\ \E s \in Statuses : status' = [status EXCEPT ![f] = s]
  /\ UNCHANGED <<known, gone, plan>>

\* Removing a finding removes its plan.
Close(f) ==
  /\ f \in known
  /\ known' = known \ {f} /\ gone' = gone \cup {f}
  /\ status' = [status EXCEPT ![f] = "OPEN"]
  /\ plan' = [plan EXCEPT ![f] = NoPlan]

\* A new plan takes both states from its author, unchecked, and does not touch
\* the finding.
StartPlan(f) ==
  /\ f \in known /\ plan[f] = NoPlan
  /\ \E p \in Plans : plan' = [plan EXCEPT ![f] = p]
  /\ UNCHANGED <<known, gone, status>>

StatusAfter(p, s) ==
  CASE p.status = "COMPLETED" /\ p.verification = "VERIFIED" -> "RESOLVED"
    [] p.status = "IN_PROGRESS" -> "IN_PROGRESS"
    [] OTHER -> s

\* The plan and the finding's status move in one step.
Progress(f) ==
  /\ f \in known /\ plan[f] # NoPlan
  /\ \E p \in Plans :
       /\ p.verification = "VERIFIED" => p.status = "COMPLETED"
       /\ plan' = [plan EXCEPT ![f] = p]
       /\ status' = [status EXCEPT ![f] = StatusAfter(p, @)]
  /\ UNCHANGED <<known, gone>>

DropPlan(f) ==
  /\ f \in known /\ plan[f] # NoPlan
  /\ plan' = [plan EXCEPT ![f] = NoPlan]
  /\ UNCHANGED <<known, gone, status>>

Next ==
  \E f \in Findings :
    Report(f) \/ Restate(f) \/ Close(f) \/ StartPlan(f) \/ Progress(f) \/ DropPlan(f)

Spec == Init /\ [][Next]_ledger
=============================================================================
