\* Two overlapping remediation requests and a finding request, two tenants, a
\* user who moves between them.
\* The instance may stop: every id of the bound is used up.
SPECIFICATION Spec
CONSTANTS
  f1 = f1  a1 = a1  a2 = a2  e1 = e1  u1 = u1  q1 = q1
  r1 = r1  r2 = r2  o1 = o1  o2 = o2  none = none
  FindingIds <- OneFinding
  Orgs <- TwoOrgs
  FindingRequests <- OneFindingRequest
  FindingInputs <- NoStatusEdits
  Users <- OneUser
  ActionRequests <- TwoRequests
  CreateInputs <- AssignedCreates
  UpdateInputs <- StartOrReassign
  EvidenceIds <- OneItem
  ActionIds <- TwoActions
  None = none
  MaxAlerts = 1
  DbFaults = TRUE
SYMMETRY TenantSymmetry
INVARIANTS TypeOK TenantInvariant
PROPERTY WritesInScope
CHECK_DEADLOCK FALSE
