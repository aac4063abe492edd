\* Two overlapping finding requests, both organizations, failing calls.
\* The instance may stop: every id of the bound is then used up.
SPECIFICATION FindingSpec
CONSTANTS
  f1 = f1  f2 = f2  q1 = q1  q2 = q2  o1 = o1  o2 = o2  none = none
  FindingIds <- MCFindingIds
  Orgs <- MCOrgs
  FindingRequests <- MCRequests
  FindingInputs <- MCInputs
  None = none
  MaxAlerts = 1
  DbFaults = TRUE
SYMMETRY Symmetry
PROPERTIES AlertOnPublicationWhenReadIsFresh FindingWritesInScope DeletedFindingsStayDeleted
CHECK_DEADLOCK FALSE
