---------------------------- MODULE MCRemediation ----------------------------
(* Instances of RemediationActions for TLC.  Rows and requests are model     *)
(* values; the bodies are the ones that reach different branches.            *)
EXTENDS RemediationActions, TLC

CONSTANTS f1, a1, a2, e1, u1, q1, r1, r2, o1, o2, none

OneFinding == {f1}
TwoActions == {a1, a2}
OneItem == {e1}
OneUser == {u1}
OneFindingRequest == {q1}
OneRequest == {r1}
TwoRequests == {r1, r2}
OneOrg == {o1}
TwoOrgs == {o1, o2}
Nothing == {}

\* Bodies of finding requests.
NoStatusEdits == {[status |-> Unset, exploit |-> Unset]}
StatusEdits == [status : {Unset, "OPEN", "IN_PROGRESS", "RESOLVED"}, exploit : {Unset}]

\* Bodies of create: the defaults, with and without an assignee, and both states.
Plain == [status |-> Unset, verification |-> Unset, assignee |-> None]
PlainCreates == {Plain}
AnyStates == [status : {Unset, "IN_PROGRESS", "COMPLETED"},
              verification : {Unset, "VERIFIED"}, assignee : {None}]
AssignedCreates == {[Plain EXCEPT !.assignee = u1]}
VerifiedCreates == {[Plain EXCEPT !.verification = "VERIFIED"]}

\* Bodies of update.
StateChanges == [status : {Unset, "IN_PROGRESS", "COMPLETED"},
                 verification : {Unset, "NOT_VERIFIED", "VERIFIED"},
                 started : {FALSE}, completed : {FALSE}, assignee : {None}]
DatedChanges == {[NoChange EXCEPT !.completed = TRUE]} \cup
                [status : {Unset, "PENDING", "IN_PROGRESS", "COMPLETED"},
                 verification : {Unset, "VERIFIED", "FAILED"},
                 started : {FALSE}, completed : {FALSE}, assignee : {None}]
OneChange == {[NoChange EXCEPT !.status = "IN_PROGRESS"]}
StartOrReassign == OneChange \cup {[NoChange EXCEPT !.assignee = u1]}

ActionSymmetry == Permutations(TwoActions)
Symmetry == ActionSymmetry \cup Permutations(TwoRequests)
TenantSymmetry == Symmetry \cup Permutations(TwoOrgs)
=============================================================================
