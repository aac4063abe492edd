---------------------------- MODULE MCInventory ----------------------------
(***************************************************************************)
(* Instances of Inventory for TLC.  A behaviour is one scene: the calls of *)
(* an administrator's page, made one after the other ("...") or two at a   *)
(* time ("... at once").                                                   *)
(***************************************************************************)
EXTENDS Inventory, TLC

CONSTANTS o1, o2, d1, d2, d3, u1, u2, v1, v2, s1, s2, w1, w2,
          n1, n2, m1, m2, a, b, r1, r2, none

TwoOrgs == {o1, o2}
ThreeDepts == {d1, d2, d3}
TwoUsers == {u1, u2}
TwoDevices == {v1, v2}
TwoSoftwares == {s1, s2}
TwoUpdates == {w1, w2}
TwoNames == {n1, n2}
TwoMails == {m1, m2}
TwoVersions == {a, b}
TwoRequests == {r1, r2}
Pages == {"organizations", "departments", "users", "devices", "software",
          "updates", "organizations at once", "departments at once",
          "users at once", "devices at once", "software at once",
          "updates at once"}

PageAlone(p) == p \in {"organizations", "departments", "users", "devices",
                       "software", "updates"}
PageLimit(p) == IF PageAlone(p) /\ p # "updates" THEN 3 ELSE 2

Table2(Ids, rows) == [i \in Ids |-> IF i \in DOMAIN rows THEN rows[i] ELSE none]

\* One organization with a department, an administrator and a device with
\* software; a second one with a department and nobody, or with a user.
Peopled(p) == p \in {"devices", "devices at once"}
PageSeed(p) == [
  orgs |-> IF p \in {"organizations", "organizations at once"}
    THEN Table2(TwoOrgs, o1 :> [mail |-> m1, status |-> "ACTIVE"])
    ELSE Table2(TwoOrgs, o1 :> [mail |-> m1, status |-> "ACTIVE"]
                   @@ o2 :> [mail |-> m2, status |-> "ACTIVE"]),
  depts |-> Table2(ThreeDepts, d1 :> [org |-> o1, name |-> n1]
                       @@ d2 :> [org |-> o2, name |-> n1]),
  users |-> Table2(TwoUsers,
    (u1 :> [org |-> o1, dept |-> d1, mail |-> m1,
            role |-> "Organization Admin", status |-> "ACTIVE"])
    @@ (IF Peopled(p)
        THEN u2 :> [org |-> o2, dept |-> d2, mail |-> m2,
                    role |-> "Super Admin", status |-> "ACTIVE"]
        ELSE << >>)),
  devices |-> Table2(TwoDevices,
    v1 :> [org |-> o1, host |-> n1, assignee |-> u1, status |-> "ACTIVE"]),
  software |-> Table2(TwoSoftwares,
    s1 :> [org |-> o1, device |-> v1, name |-> n1, version |-> a,
           status |-> "INSTALLED"]),
  updates |-> Table2(TwoUpdates,
    w1 :> [org |-> o1, device |-> v1, software |-> s1, installed |-> a,
           latest |-> b, available |-> TRUE, status |-> "OUTDATED"])]

-----------------------------------------------------------------------------
Both == {o1, none}  \* an administrator of o1 and a Super Admin
Do(op, ids, bodies) == [op : {op}, scope : Both, id : ids, body : bodies]
Plain == {none}

OrganizationCalls ==
  Do("create organization", Plain, [mail : TwoMails])
    \cup Do("update organization", TwoOrgs, [mail : Maybe(TwoMails)])
    \cup Do("suspend organization", {o1}, Plain)

Move == Do("update user", {u1},
           [org : {o2}, dept : {d2}, mail : {none}, role : {none},
            status : {none}])

DepartmentCalls ==
  Do("create department", Plain, [org : TwoOrgs, name : TwoNames])
    \cup Do("update department", ThreeDepts, [name : Maybe({n2})])
    \cup Do("remove department", ThreeDepts, Plain)
    \cup Do("update user", {u1},
            [org : {none}, dept : {d3}, mail : {none}, role : {none},
             status : {none}])
    \cup Move

UserCalls ==
  Do("create user", Plain,
     [org : TwoOrgs, dept : {d1, d2}, mail : {m2}, role : Roles])
    \cup Do("update user", TwoUsers,
            [org : {none, o2}, dept : {none, d2, d1}, mail : {none, m2},
             role : {none, "Super Admin"}, status : {none}])
    \cup Do("deactivate user", {u1}, Plain)

DeviceCalls ==
  Do("create device", Plain,
     [org : TwoOrgs, host : TwoNames, assignee : {none, u1}])
    \cup Do("update device", TwoDevices,
            [org : {none, o2}, host : {none, n1}, assignee : {none, u2},
             status : {none}])
    \cup Do("retire device", {v1}, Plain) \cup Move

SoftwareCalls ==
  Do("create software", Plain,
     [org : TwoOrgs, device : {v1}, name : {n2}, version : {none}, status : {none}])
    \cup Do("update software", TwoSoftwares,
            [name : {none, n1, n2}, version : {b}, status : {none}])
    \cup Do("remove software", {s1}, Plain)
    \cup Do("update device", {v1},
            [org : {o2}, host : {none}, assignee : {none}, status : {none}])
    \cup Do("create update", {s1}, [installed : {none}, latest : {b},
                                    available : {none}, status : {none}])

Judged == [installed : {none, a}, latest : {none, a, b},
           available : {none, TRUE, FALSE}, status : {none, "UP_TO_DATE"}]
UpdateCalls ==
  Do("create update", {s1}, Judged)
    \cup Do("update update", TwoUpdates, Judged)
    \cup Do("remove update", {w1}, Plain)

PageCalls(p) ==
  CASE p \in {"organizations", "organizations at once"} -> OrganizationCalls
    [] p \in {"departments", "departments at once"} -> DepartmentCalls
    [] p \in {"users", "users at once"} -> UserCalls
    [] p \in {"devices", "devices at once"} -> DeviceCalls
    [] p \in {"software", "software at once"} -> SoftwareCalls
    [] OTHER -> UpdateCalls
=============================================================================
