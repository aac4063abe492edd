\* Two users, two overlapping requests, three links of either kind.
\* The instance may stop: every id of the bound is used up.
SPECIFICATION AccountSpec
CONSTANTS
  u1 = u1  u2 = u2  m1 = m1  l1 = l1  l2 = l2  l3 = l3  r1 = r1  r2 = r2
  old = old  new = new  none = none
  UserIds <- MCUsers
  Mails <- OneMail
  Passwords <- MCPasswords
  LinkIds <- MCLinks
  AccountRequests <- MCRequests
  None = none
  Faults = TRUE
SYMMETRY Symmetry
INVARIANTS AccountTypeOK VerifiedByLink NoMoreLinksThanRequests
PROPERTIES RegistrationStaysClosed ReplacedLinksAreDead
CHECK_DEADLOCK FALSE
