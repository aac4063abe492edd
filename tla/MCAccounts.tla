----------------------------- MODULE MCAccounts -----------------------------
(* Instances of Accounts for TLC. *)
EXTENDS Accounts, TLC

CONSTANTS u1, u2, m1, l1, l2, l3, r1, r2, old, new, none

MCUsers == {u1, u2}
OneMail == {m1}
MCLinks == {l1, l2, l3}
MCRequests == {r1, r2}
MCPasswords == {old, new}

Symmetry == Permutations(MCUsers) \cup Permutations(MCLinks)
              \cup Permutations(MCRequests) \cup Permutations(MCPasswords)
=============================================================================
