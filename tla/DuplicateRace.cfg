\* Two overlapping creates for one finding.
SPECIFICATION Spec
CONSTANTS
  f1 = f1  a1 = a1  a2 = a2  e1 = e1  u1 = u1  q1 = q1
  r1 = r1  r2 = r2  o1 = o1  o2 = o2  none = none
  FindingIds <- OneFinding
  Orgs <- OneOrg
  FindingRequests <- Nothing
  FindingInputs <- NoStatusEdits
  Users <- Nothing
  ActionRequests <- TwoRequests
  CreateInputs <- PlainCreates
  UpdateInputs <- OneChange
  EvidenceIds <- Nothing
  ActionIds <- TwoActions
  None = none
  MaxAlerts = 1
  DbFaults = FALSE
INVARIANT OneActionPerFinding
CHECK_DEADLOCK FALSE
