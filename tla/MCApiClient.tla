----------------------------- MODULE MCApiClient -----------------------------
(* Instances of ApiClient for TLC. *)
EXTENDS ApiClient, TLC

CONSTANTS a, b, c1, c2, g1, g2, g3, n1, n2, none

OneTab == {a}
TwoTabs == {a, b}
OneSignOut == {<<a, g1>>}
\* Calls are alike, so the second one need not be made by tab b when the first
\* one is free to be.
MCCallTabs == (c1 :> TwoTabs) @@ (c2 :> OneTab)
TwoCalls == {c1, c2}
OnePair == {g1}
TwoPairs == {g2, g3}
TwoRenewals == {n1, n2}
=============================================================================
