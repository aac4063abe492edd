----------------------------- MODULE MCFindings -----------------------------
(* Instances of VulnerabilityFindings for TLC. *)
EXTENDS VulnerabilityFindings, TLC

CONSTANTS f1, f2, q1, q2, o1, o2, none

MCFindingIds == {f1, f2}
MCRequests == {q1, q2}
MCOrgs == {o1, o2}

\* One status edit and every exploit edit, the one that leaves it out included.
MCInputs == [status : {Unset, "RESOLVED"}, exploit : Exploits \cup {Unset}]

Symmetry == Permutations(MCFindingIds) \cup Permutations(MCRequests)
              \cup Permutations(MCOrgs)
=============================================================================
