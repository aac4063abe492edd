\* Two tabs, two calls, three pairs.  Temporal properties: no symmetry.
SPECIFICATION FairSpec
CONSTANTS
  a = a  b = b  c1 = c1  c2 = c2  g1 = g1  g2 = g2  g3 = g3  n1 = n1  n2 = n2
  none = none
  Tabs <- TwoTabs
  CallTabs <- MCCallTabs
  SignOuts <- OneSignOut
  ClosedTabs <- OneTab
  Calls <- TwoCalls
  LoginPairs <- OnePair
  RenewalPairs <- TwoPairs
  Renewals <- TwoRenewals
  None = none
INVARIANTS TypeOK StoredPairIsGood OwnRenewalsNeverClash
PROPERTIES RepeatedOnceWithNewToken EveryCallSettles
