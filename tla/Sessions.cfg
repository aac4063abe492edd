\* Two overlapping logins or refreshes and one account request of one user
\* with two addresses in turn.
\* The instance may stop: every id of the bound is used up.
SPECIFICATION Spec
CONSTANTS
  u1 = u1  m1 = m1  m2 = m2  l1 = l1   c1 = c1  t1 = t1  t2 = t2  t3 = t3  r1 = r1  r2 = r2
  old = old  none = none
  UserIds <- OneUser
  Mails <- TwoMails
  Passwords <- OnePassword
  LinkIds <- OneLink
  AccountRequests <- OneAccountRequest
  TokenIds <- ThreeTokens
  SessionRequests <- TwoRequests
  None = none
  Faults = TRUE
SYMMETRY Symmetry
INVARIANTS TypeOK RotatedTokensAreSpent SessionsNeedVerifiedUser
PROPERTIES ClosedSessionsStayClosed ShutOutUsersGetNoTokens LogoutClosesQuietSession
CHECK_DEADLOCK FALSE
