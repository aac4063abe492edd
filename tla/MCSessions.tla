----------------------------- MODULE MCSessions -----------------------------
(* Instances of Sessions for TLC. *)
EXTENDS Sessions, TLC

CONSTANTS u1, m1, m2, l1, c1, t1, t2, t3, r1, r2, old, none

OneUser == {u1}
TwoMails == {m1, m2}
OneLink == {l1}
OneAccountRequest == {c1}
ThreeTokens == {t1, t2, t3}
TwoRequests == {r1, r2}
OnePassword == {old}

Symmetry == Permutations(ThreeTokens) \cup Permutations(TwoRequests)
              \cup Permutations(TwoMails)
=============================================================================
