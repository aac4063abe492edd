\* Every part of the system that is not about findings, actions or sessions.
\* The instance may stop: every part makes a bounded number of calls.
SPECIFICATION ServicesSpec
CONSTANTS
  o1 = o1  o2 = o2  d1 = d1  d2 = d2  d3 = d3  u1 = u1  u2 = u2
  v1 = v1  v2 = v2  s1 = s1  s2 = s2  w1 = w1  w2 = w2  n1 = n1  n2 = n2
  m1 = m1  m2 = m2  a = a  b = b  r1 = r1  r2 = r2  none = none
  OrgIds <- TwoOrgs
  DeptIds <- ThreeDepts
  UserIds <- TwoUsers
  DeviceIds <- TwoDevices
  SoftwareIds <- TwoSoftwares
  UpdateIds <- TwoUpdates
  Names <- TwoNames
  Mails <- TwoMails
  Versions <- TwoVersions
  Requests <- TwoRequests
  None = none
  Scenes <- Pages
  Seed <- PageSeed
  Calls <- PageCalls
  Alone <- PageAlone
  Limit <- PageLimit
  c1 = c1  c2 = c2  c3 = c3  c4 = c4  q1 = q1  q2 = q2  q3 = q3
  x1 = x1  x2 = x2  f1 = f1  f2 = f2
  AiRequests <- TwoRequests
  Orgs <- TwoOrgs
  PastActions <- MCPastActions
  Asked <- MCAsked
  Said <- MCSaid
  Histories <- MCHistories
  Deployments <- MCDeployments
  Scans <- MCScans
  Commits <- MCCommits
  Paths <- MCPaths
  Dependencies <- MCDependencies
  Broken = broken
  Tree <- MCTree
  Content <- MCContent
  Vulnerable <- MCVulnerable
  MaxManifests = 2  MaxDependencies = 3
  BoardRows <- MCRows
  Tenants <- TwoOrgs
  TenantOf <- RowOrg
  BoardScopes <- Both
  Panels <- MCPanels
  LastDay = 1  MaxWrites = 2  MaxListed = 1
  Staff <- MCStaff
  Offices <- MCOffices
  ApiCalls <- TwoRequests
  Used <- MCUsed
  Ranks <- MCRanks
  Life = 1  LastTick = 2  MaxAssignments = 1
  AuthRequests <- TwoRequests
  DialogFindings <- MCFindings
  DialogCalls <- TwoRequests
  OrgOf <- FindingOrg
  MaxActions = 2
  PageRows <- TwoUsers
  Parents <- TwoOrgs
  Children <- ThreeDepts
  FormCalls <- MCFormCalls
  HomeOf <- DeptHome
  ParentList <- MCParentList
  ChildList <- MCChildList
  Tables <- MCTables
  PageKinds <- MCPageKinds
  MaxClicks = 3
  Parts <- AllParts
INVARIANTS ServicesTypeOK ListsStayInScope AssetsStayTogether NothingTwice ChecksSuffice  ScansReportTheRepository DashboardAgrees AccessIsCurrent DialogIsAboutItsFinding SavesReachTheirRow
PROPERTIES WritesStayInScope EverythingEnds
CHECK_DEADLOCK FALSE
