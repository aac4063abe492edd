\* One remediation request at a time over one finding that a second caller
\* edits and removes.  The instance may stop: every id of the bound is used up.
SPECIFICATION FairLedgerSpec
CONSTANTS
  f1 = f1  a1 = a1  a2 = a2  e1 = e1  u1 = u1  q1 = q1
  r1 = r1  r2 = r2  o1 = o1  o2 = o2  none = none
  FindingIds <- OneFinding
  Orgs <- OneOrg
  FindingRequests <- OneFindingRequest
  FindingInputs <- StatusEdits
  Users <- Nothing
  ActionRequests <- OneRequest
  CreateInputs <- AnyStates
  UpdateInputs <- DatedChanges
  EvidenceIds <- Nothing
  ActionIds <- TwoActions
  None = none
  MaxAlerts = 1
  DbFaults = FALSE
INVARIANTS LedgerInvariant ResolutionIsEarned
PROPERTIES ProgressReachesFinding ImplementsLedger
CHECK_DEADLOCK FALSE
