------------------------------ MODULE Inventory ------------------------------
(***************************************************************************)
(* The directory and the asset register: organizations, departments,       *)
(* users, devices, software and update findings, one service each          *)
(* (organizations.service.ts ... software-update-findings.service.ts).     *)
(*                                                                         *)
(* A handler is a few reads, each a statement of its own, that may refuse  *)
(* the request, and then one write.  No handler opens a transaction, so    *)
(* whatever was read may have changed when the write is made; only the     *)
(* constraints of the schema are checked with the write.  The first read   *)
(* of an update or a removal fetches the row, and the rest of the handler  *)
(* works with that copy.                                                   *)
(*                                                                         *)
(* A request whose first statement refuses it leaves no trace and is not   *)
(* represented.  Descriptive fields (names of persons, addresses, notes,   *)
(* dates) are left out; an absent optional field of a body is None.        *)
(***************************************************************************)
EXTENDS Naturals, FiniteSets, Absence

CONSTANTS
  OrgIds, DeptIds, UserIds, DeviceIds, SoftwareIds, UpdateIds,
  Names,      \* of departments, hosts and software
  Mails, Versions, Requests,
  Scenes,     \* what the clients of one behaviour do, given by:
  Calls(_),   \*   the calls they make,
  Seed(_),    \*   the tables they start from,
  Alone(_),   \*   whether they wait for each other, and
  Limit(_)    \*   the bound on how many calls they make

VARIABLES
  scene,
  orgs, depts, users, devices, software, updates,  \* the tables
  requests,  \* what the handler of each request in flight holds
  moved,     \* history: users and devices that have changed organization
  told,      \* history: update findings whose status a client has chosen
  gone,      \* history: departments and update findings that were deleted
  served     \* how many calls have been made

tables == <<orgs, depts, users, devices, software, updates>>
vars == <<scene, tables, requests, moved, told, gone, served>>

-----------------------------------------------------------------------------
(* Rows and calls *)

Scopes == OrgIds \cup {None}  \* of a Super Admin: None
Roles == {"Super Admin", "Organization Admin"}
UserStatuses == {"ACTIVE", "INACTIVE"}
DeviceStatuses == {"ACTIVE", "INACTIVE", "RETIRED"}
SoftwareStatuses == {"INSTALLED", "REMOVED", "UNKNOWN"}
UpdateStatuses == {"UP_TO_DATE", "OUTDATED", "UNKNOWN"}
Maybe(S) == S \cup {None}

OrgRow == [mail : Mails, status : {"ACTIVE", "SUSPENDED"}]
DeptRow == [org : OrgIds, name : Names]
UserRow == [org : OrgIds, dept : DeptIds, mail : Mails, role : Roles,
            status : UserStatuses]
DeviceRow == [org : OrgIds, host : Names, assignee : Maybe(UserIds),
              status : DeviceStatuses]
SoftwareRow == [org : OrgIds, device : DeviceIds, name : Names,
                version : Maybe(Versions), status : SoftwareStatuses]
UpdateRow == [org : OrgIds, device : DeviceIds, software : SoftwareIds,
              installed : Maybe(Versions), latest : Maybe(Versions),
              available : BOOLEAN, status : UpdateStatuses]

\* The fields of the bodies that the DTOs let through.
NewOrg == [mail : Mails]
OrgChange == [mail : Maybe(Mails)]
NewDept == [org : OrgIds, name : Names]
DeptChange == [name : Maybe(Names)]
NewUser == [org : OrgIds, dept : DeptIds, mail : Mails, role : Roles]
UserChange == [org : Maybe(OrgIds), dept : Maybe(DeptIds),
               mail : Maybe(Mails), role : Maybe(Roles),
               status : Maybe(UserStatuses)]
NewDevice == [org : OrgIds, host : Names, assignee : Maybe(UserIds)]
DeviceChange == [org : Maybe(OrgIds), host : Maybe(Names),
                 assignee : Maybe(UserIds), status : Maybe(DeviceStatuses)]
NewSoftware == [org : OrgIds, device : DeviceIds, name : Names,
                version : Maybe(Versions), status : Maybe(SoftwareStatuses)]
SoftwareChange == [name : Maybe(Names), version : Maybe(Versions),
                   status : Maybe(SoftwareStatuses)]
UpdateBody == [installed : Maybe(Versions), latest : Maybe(Versions),
               available : Maybe(BOOLEAN), status : Maybe(UpdateStatuses)]
Nothing == {None}

\* A call names the row it is about, or None if it creates a row that refers
\* to others in its body; an update finding is created for the software "id".
CallOf(op, Ids, Bodies) == [op : {op}, scope : Scopes, id : Ids, body : Bodies]
Call == UNION {
  CallOf("create organization", {None}, NewOrg),
  CallOf("update organization", OrgIds, OrgChange),
  CallOf("suspend organization", OrgIds, Nothing),
  CallOf("create department", {None}, NewDept),
  CallOf("update department", DeptIds, DeptChange),
  CallOf("remove department", DeptIds, Nothing),
  CallOf("create user", {None}, NewUser),
  CallOf("update user", UserIds, UserChange),
  CallOf("deactivate user", UserIds, Nothing),
  CallOf("create device", {None}, NewDevice),
  CallOf("update device", DeviceIds, DeviceChange),
  CallOf("retire device", DeviceIds, Nothing),
  CallOf("create software", {None}, NewSoftware),
  CallOf("update software", SoftwareIds, SoftwareChange),
  CallOf("remove software", SoftwareIds, Nothing),
  CallOf("create update", SoftwareIds, UpdateBody),
  CallOf("update update", UpdateIds, UpdateBody),
  CallOf("remove update", UpdateIds, Nothing)}

Rows == UNION {OrgRow, DeptRow, UserRow, DeviceRow, SoftwareRow, UpdateRow}
Table(Ids, Row) == [Ids -> Maybe(Row)]

ASSUME InventoryAssumption ==
  /\ UserIds \cap DeviceIds = {}
  /\ None \notin UNION {OrgIds, DeptIds, UserIds, DeviceIds, SoftwareIds,
                        UpdateIds, Names, Mails, Versions, Rows}
  /\ None \notin BOOLEAN
  /\ None \notin UNION {Roles, UserStatuses, DeviceStatuses, SoftwareStatuses, UpdateStatuses}
  /\ \A s \in Scenes :
       /\ Calls(s) \subseteq Call
       /\ Alone(s) \in BOOLEAN
       /\ Limit(s) \in Nat

\* The tables that a behaviour starts from fit together.
ASSUME SeedAssumption ==
  \A s \in Scenes : LET t == Seed(s) IN
    /\ t.orgs \in Table(OrgIds, OrgRow) /\ t.depts \in Table(DeptIds, DeptRow)
    /\ t.users \in Table(UserIds, UserRow)
    /\ t.devices \in Table(DeviceIds, DeviceRow)
    /\ t.software \in Table(SoftwareIds, SoftwareRow)
    /\ t.updates \in Table(UpdateIds, UpdateRow)
    /\ \A i \in SoftwareIds : t.software[i] # None =>
         LET d == t.devices[t.software[i].device] IN
         d # None /\ d.org = t.software[i].org
    /\ \A w \in UpdateIds : t.updates[w] # None =>
         LET i == t.software[t.updates[w].software] IN
         /\ i # None /\ i.org = t.updates[w].org /\ i.device = t.updates[w].device
         /\ t.updates[w].available <=> t.updates[w].status = "OUTDATED"
    /\ \A u \in UserIds : t.users[u] # None =>
         LET d == t.depts[t.users[u].dept] IN
         /\ t.orgs[t.users[u].org] # None
         /\ d # None /\ d.org = t.users[u].org
    /\ \A v \in DeviceIds : t.devices[v] # None /\ t.devices[v].assignee # None =>
         LET u == t.users[t.devices[v].assignee] IN
         u # None /\ u.org = t.devices[v].org
    /\ \A d, e \in DeptIds : t.depts[d] # None /\ t.depts[e] = t.depts[d] => d = e
    /\ \A v, x \in DeviceIds :
         /\ t.devices[v] # None /\ t.devices[x] # None
         /\ t.devices[v].org = t.devices[x].org
         /\ t.devices[v].host = t.devices[x].host
         => v = x
    /\ \A i, j \in SoftwareIds :
         /\ t.software[i] # None /\ t.software[j] # None
         /\ t.software[i].device = t.software[j].device
         /\ t.software[i].name = t.software[j].name
         => i = j

TypeOK ==
  /\ scene \in Scenes
  /\ orgs \in Table(OrgIds, OrgRow) /\ depts \in Table(DeptIds, DeptRow)
  /\ users \in Table(UserIds, UserRow)
  /\ devices \in Table(DeviceIds, DeviceRow)
  /\ software \in Table(SoftwareIds, SoftwareRow)
  /\ updates \in Table(UpdateIds, UpdateRow)
  /\ \A r \in Requests : requests[r] # None =>
       /\ requests[r].call \in Calls(scene)
       /\ requests[r].row \in Maybe(Rows)
       /\ requests[r].at \in 2 .. 5
  /\ moved \subseteq UserIds \cup DeviceIds
  /\ told \subseteq UpdateIds
  /\ gone \subseteq DeptIds \cup UpdateIds

Init ==
  /\ scene \in Scenes
  /\ orgs = Seed(scene).orgs /\ depts = Seed(scene).depts
  /\ users = Seed(scene).users /\ devices = Seed(scene).devices
  /\ software = Seed(scene).software /\ updates = Seed(scene).updates
  /\ requests = [r \in Requests |-> None]
  /\ moved = {} /\ told = {} /\ gone = {} /\ served = 0

-----------------------------------------------------------------------------
(* What the handlers share *)

Or(x, y) == IF x # None THEN x ELSE y  \* x || y, x ?? y
InScope(c, org) == c.scope # None => org = c.scope
Stored(table, id) == table[id] # None
Lookup(table, c) == Stored(table, c.id) /\ InScope(c, table[c.id].org)
\* No row but "id" has this value in this field (and, of rows that belong to
\* an organization, in this organization).
Unused(table, field, value, id) ==
  \A i \in DOMAIN table : Stored(table, i) /\ table[i][field] = value => i = id
UnusedIn(table, org, field, value, id) ==
  \A i \in DOMAIN table :
    Stored(table, i) /\ table[i].org = org /\ table[i][field] = value => i = id
Belongs(table, id, org) == Stored(table, id) /\ table[id].org = org

\* The organization that the row will have after an update.
Home(c, row) == Or(c.body.org, row.org)

-----------------------------------------------------------------------------
(* The reads: what statement "at" of each handler requires.  The first one *)
(* includes the checks of the parameters that precede the next statement.  *)

CreateOrganization(c, row, at) ==
  at = 1 => Unused(orgs, "mail", c.body.mail, None)

\* Mutant: an organization is not told that its new address is taken.
UpdateOrganization_AnyMail(c, row, at) ==
  at = 1 => InScope(c, c.id) /\ Stored(orgs, c.id)
UpdateOrganization(c, row, at) ==
  /\ at = 1 => InScope(c, c.id) /\ Stored(orgs, c.id)
  /\ at = 2 => (c.body.mail # None => Unused(orgs, "mail", c.body.mail, c.id))

SuspendOrganization(c, row, at) == at = 1 => Stored(orgs, c.id)

CreateDepartment(c, row, at) ==
  /\ at = 1 => InScope(c, c.body.org) /\ Stored(orgs, c.body.org)
  /\ at = 2 => UnusedIn(depts, c.body.org, "name", c.body.name, None)

UpdateDepartment(c, row, at) ==
  /\ at = 1 => Lookup(depts, c)
  /\ at = 2 => (c.body.name # None =>
                  UnusedIn(depts, row.org, "name", c.body.name, c.id))

\* The department and its users (an include) are two statements.
RemoveDepartment(c, row, at) ==
  /\ at = 1 => Lookup(depts, c)
  /\ at = 2 => \A u \in UserIds : Stored(users, u) => users[u].dept # c.id

CreateUser(c, row, at) ==
  /\ at = 1 => /\ InScope(c, c.body.org)
               /\ c.body.role = "Super Admin" => c.scope = None
               /\ Unused(users, "mail", c.body.mail, None)
  /\ at = 2 => Stored(orgs, c.body.org)
  /\ at = 3 => Belongs(depts, c.body.dept, c.body.org)

\* Mutant: a department is only looked up when the organization changes too.
UpdateUser_DeptOfMove(c, row, at) ==
  /\ at = 1 => /\ Lookup(users, c)
               /\ c.body.org # None => InScope(c, c.body.org)
               /\ c.body.role = "Super Admin" => c.scope = None
  /\ at = 2 => (c.body.mail # None => Unused(users, "mail", c.body.mail, c.id))
  /\ at = 3 => (c.body.org # None =>
                  c.body.dept # None /\ Stored(orgs, c.body.org))
  /\ at = 4 => (c.body.org # None => Belongs(depts, c.body.dept, c.body.org))
\* Mutant: an organization administrator may move a user elsewhere.
UpdateUser_AnyOrganization(c, row, at) ==
  /\ at = 1 => Lookup(users, c) /\ (c.body.role = "Super Admin" => c.scope = None)
  /\ at = 2 => (c.body.mail # None => Unused(users, "mail", c.body.mail, c.id))
  /\ at = 3 => (c.body.org # None =>
                  c.body.dept # None /\ Stored(orgs, c.body.org))
  /\ at = 4 => (c.body.dept # None => Belongs(depts, c.body.dept, Home(c, row)))
UpdateUser(c, row, at) ==
  /\ at = 1 => /\ Lookup(users, c)
               /\ c.body.org # None => InScope(c, c.body.org)
               /\ c.body.role = "Super Admin" => c.scope = None
  /\ at = 2 => (c.body.mail # None => Unused(users, "mail", c.body.mail, c.id))
  /\ at = 3 => (c.body.org # None =>
                  c.body.dept # None /\ Stored(orgs, c.body.org))
  /\ at = 4 => (c.body.dept # None => Belongs(depts, c.body.dept, Home(c, row)))

DeactivateUser(c, row, at) == at = 1 => Lookup(users, c)

CreateDevice(c, row, at) ==
  /\ at = 1 => InScope(c, c.body.org) /\ Stored(orgs, c.body.org)
  /\ at = 2 => UnusedIn(devices, c.body.org, "host", c.body.host, None)
  /\ at = 3 => (c.body.assignee # None =>
                  Belongs(users, c.body.assignee, c.body.org))

\* Mutant: the host name of an update is not looked up.
UpdateDevice_AnyHost(c, row, at) ==
  /\ at = 1 => Lookup(devices, c) /\ (c.body.org # None => InScope(c, c.body.org))
  /\ at = 2 => (c.body.org # None => Stored(orgs, c.body.org))
  /\ at = 4 => (c.body.assignee # None =>
                  Belongs(users, c.body.assignee, Home(c, row)))
UpdateDevice(c, row, at) ==
  /\ at = 1 => Lookup(devices, c) /\ (c.body.org # None => InScope(c, c.body.org))
  /\ at = 2 => (c.body.org # None => Stored(orgs, c.body.org))
  /\ at = 3 => (c.body.host # None =>
                  UnusedIn(devices, Home(c, row), "host", c.body.host, c.id))
  /\ at = 4 => (c.body.assignee # None =>
                  Belongs(users, c.body.assignee, Home(c, row)))

RetireDevice(c, row, at) == at = 1 => Lookup(devices, c)

OnDevice(d, name, s) ==  \* the device has no other software of this name
  \A i \in SoftwareIds :
    Stored(software, i) /\ software[i].device = d /\ software[i].name = name
      => i = s

CreateSoftware(c, row, at) ==
  /\ at = 1 => InScope(c, c.body.org) /\ Stored(orgs, c.body.org)
  /\ at = 2 => Belongs(devices, c.body.device, c.body.org)
  /\ at = 3 => OnDevice(c.body.device, c.body.name, None)

UpdateSoftware(c, row, at) ==
  /\ at = 1 => Lookup(software, c)
  /\ at = 2 => (c.body.name # None => OnDevice(row.device, c.body.name, c.id))

RemoveSoftware(c, row, at) == at = 1 => Lookup(software, c)
CreateUpdate(c, row, at) == at = 1 => Lookup(software, c)
UpdateUpdate(c, row, at) == at = 1 => Lookup(updates, c)
RemoveUpdate(c, row, at) == at = 1 => Lookup(updates, c)

Reads(op) ==
  CASE op \in {"update user", "update device"} -> 4
    [] op \in {"create user", "create device", "create software"} -> 3
    [] op \in {"update organization", "create department", "update department",
               "remove department", "update software"} -> 2
    [] OTHER -> 1

Check(c, row, at) ==
  CASE c.op = "create organization"  -> CreateOrganization(c, row, at)
    [] c.op = "update organization"  -> UpdateOrganization(c, row, at)
    [] c.op = "suspend organization" -> SuspendOrganization(c, row, at)
    [] c.op = "create department"    -> CreateDepartment(c, row, at)
    [] c.op = "update department"    -> UpdateDepartment(c, row, at)
    [] c.op = "remove department"    -> RemoveDepartment(c, row, at)
    [] c.op = "create user"          -> CreateUser(c, row, at)
    [] c.op = "update user"          -> UpdateUser(c, row, at)
    [] c.op = "deactivate user"      -> DeactivateUser(c, row, at)
    [] c.op = "create device"        -> CreateDevice(c, row, at)
    [] c.op = "update device"        -> UpdateDevice(c, row, at)
    [] c.op = "retire device"        -> RetireDevice(c, row, at)
    [] c.op = "create software"      -> CreateSoftware(c, row, at)
    [] c.op = "update software"      -> UpdateSoftware(c, row, at)
    [] c.op = "remove software"      -> RemoveSoftware(c, row, at)
    [] c.op = "create update"        -> CreateUpdate(c, row, at)
    [] c.op = "update update"        -> UpdateUpdate(c, row, at)
    [] c.op = "remove update"        -> RemoveUpdate(c, row, at)

\* The row that the first statement of an update or a removal returns.
Fetched(c) ==
  CASE c.op = "update department" -> depts[c.id]
    [] c.op = "update user"       -> users[c.id]
    [] c.op = "update device"     -> devices[c.id]
    [] c.op \in {"update software", "create update"} -> software[c.id]
    [] c.op = "update update"     -> updates[c.id]
    [] OTHER -> None

Quiet == \A r \in Requests : requests[r] = None

Receive(r, c) ==
  /\ requests[r] = None /\ served < Limit(scene)
  /\ Alone(scene) => Quiet
  /\ Check(c, None, 1)
  /\ requests' = [requests EXCEPT
       ![r] = [call |-> c, row |-> Fetched(c), at |-> 2]]
  /\ served' = served + 1
  /\ UNCHANGED <<scene, tables, moved, told, gone>>

Reading(r) ==
  requests[r] # None /\ requests[r].at <= Reads(requests[r].call.op)
Passes(r) == Check(requests[r].call, requests[r].row, requests[r].at)

Pass(r) ==
  /\ Reading(r) /\ Passes(r)
  /\ requests' = [requests EXCEPT ![r].at = @ + 1]
  /\ UNCHANGED <<scene, tables, moved, told, gone, served>>

Refuse(r) ==
  /\ Reading(r) /\ ~Passes(r)
  /\ requests' = [requests EXCEPT ![r] = None]
  /\ UNCHANGED <<scene, tables, moved, told, gone, served>>

-----------------------------------------------------------------------------
(* The writes *)

\* What the schema requires of the row that a request writes or deletes.
OrganizationConstraints(c) ==
  c.op \in {"create organization", "update organization"} =>
    (c.body.mail # None => Unused(orgs, "mail", c.body.mail, c.id))
DepartmentConstraints(c) ==
  /\ c.op \in {"update department", "remove department"} => Stored(depts, c.id)
  /\ c.op = "remove department" =>
       \A u \in UserIds : Stored(users, u) => users[u].dept # c.id
UserConstraints(c) ==
  c.op \in {"create user", "update user"} =>
    /\ c.body.mail # None => Unused(users, "mail", c.body.mail, c.id)
    /\ c.body.dept # None => Stored(depts, c.body.dept)
SoftwareConstraints(c, row) ==
  /\ c.op = "create software" => OnDevice(c.body.device, c.body.name, None)
  /\ c.op = "update software" =>
       (c.body.name # None => OnDevice(row.device, c.body.name, c.id))
UpdateConstraints(c) ==
  c.op \in {"update update", "remove update"} => Stored(updates, c.id)

Accepted(c, row) ==
  /\ OrganizationConstraints(c) /\ DepartmentConstraints(c)
  /\ UserConstraints(c) /\ SoftwareConstraints(c, row) /\ UpdateConstraints(c)

Written(r) == requests[r] # None /\ requests[r].at > Reads(requests[r].call.op)

\* The database rejects the write: the client gets an unexpected error.
Reject(r) ==
  /\ Written(r) /\ ~Accepted(requests[r].call, requests[r].row)
  /\ requests' = [requests EXCEPT ![r] = None]
  /\ UNCHANGED <<scene, tables, moved, told, gone, served>>

Write(r, op) ==
  /\ Written(r) /\ requests[r].call.op = op
  /\ Accepted(requests[r].call, requests[r].row)
  /\ requests' = [requests EXCEPT ![r] = None]
  /\ UNCHANGED <<scene, served>>
OrgWrite(r, op) ==
  /\ Write(r, op)
  /\ UNCHANGED <<depts, users, devices, software, updates, moved, told, gone>>
DeptWrite(r, op) ==
  Write(r, op) /\ UNCHANGED <<orgs, users, devices, software, updates, moved, told>>
UserWrite(r, op) ==
  /\ Write(r, op)
  /\ UNCHANGED <<orgs, depts, devices, software, updates, told, gone>>
DeviceWrite(r, op) ==
  /\ Write(r, op)
  /\ UNCHANGED <<orgs, depts, users, software, updates, told, gone>>
SoftwareWrite(r, op) ==
  /\ Write(r, op)
  /\ UNCHANGED <<orgs, depts, users, devices, updates, moved, told, gone>>
UpdateWrite(r, op) ==
  Write(r, op) /\ UNCHANGED <<orgs, depts, users, devices, software, moved>>

Body(r) == requests[r].call.body
Id(r) == requests[r].call.id

InsertOrganization(r) ==
  /\ OrgWrite(r, "create organization")
  /\ \E o \in OrgIds : /\ orgs[o] = None
                       /\ orgs' = [orgs EXCEPT ![o] =
                            [mail |-> Body(r).mail, status |-> "ACTIVE"]]
ChangeOrganization(r) ==
  /\ OrgWrite(r, "update organization")
  /\ orgs' = [orgs EXCEPT ![Id(r)] =
       [mail |-> Or(Body(r).mail, @.mail), status |-> @.status]]
Suspend(r) ==
  /\ OrgWrite(r, "suspend organization")
  /\ orgs' = [orgs EXCEPT ![Id(r)] = [mail |-> @.mail, status |-> "SUSPENDED"]]

InsertDepartment(r) ==
  /\ DeptWrite(r, "create department") /\ UNCHANGED gone
  /\ \E d \in DeptIds \ gone : /\ depts[d] = None
                              /\ depts' = [depts EXCEPT ![d] = Body(r)]
ChangeDepartment(r) ==
  /\ DeptWrite(r, "update department") /\ UNCHANGED gone
  /\ depts' = [depts EXCEPT ![Id(r)] =
       [org |-> @.org, name |-> Or(Body(r).name, @.name)]]
DeleteDepartment(r) ==
  /\ DeptWrite(r, "remove department")
  /\ depts' = [depts EXCEPT ![Id(r)] = None]
  /\ gone' = gone \cup {Id(r)}

\* The mail of the verification link is in Accounts.
InsertUser(r) ==
  /\ UserWrite(r, "create user") /\ UNCHANGED moved
  /\ \E u \in UserIds :
       /\ users[u] = None
       /\ users' = [users EXCEPT ![u] =
            [org |-> Body(r).org, dept |-> Body(r).dept, mail |-> Body(r).mail,
             role |-> Body(r).role, status |-> "ACTIVE"]]
MovedTo(row, org, id) == IF org \in {None, row.org} THEN {} ELSE {id}
ChangeUser(r) ==
  /\ UserWrite(r, "update user")
  /\ users' = [users EXCEPT ![Id(r)] =
       [org |-> Or(Body(r).org, @.org), dept |-> Or(Body(r).dept, @.dept),
        mail |-> Or(Body(r).mail, @.mail), role |-> Or(Body(r).role, @.role),
        status |-> Or(Body(r).status, @.status)]]
  /\ moved' = moved \cup MovedTo(users[Id(r)], Body(r).org, Id(r))
Deactivate(r) ==
  /\ UserWrite(r, "deactivate user") /\ UNCHANGED moved
  /\ users' = [users EXCEPT ![Id(r)].status = "INACTIVE"]

InsertDevice(r) ==
  /\ DeviceWrite(r, "create device") /\ UNCHANGED moved
  /\ \E d \in DeviceIds :
       /\ devices[d] = None
       /\ devices' = [devices EXCEPT ![d] =
            [org |-> Body(r).org, host |-> Body(r).host,
             assignee |-> Body(r).assignee, status |-> "ACTIVE"]]
\* Mutant: a device that moves takes its software along, and nothing else.
ChangeDevice_TakesSoftware(r) ==
  LET org == Or(Body(r).org, devices[Id(r)].org) IN
  /\ Write(r, "update device") /\ moved' = moved
  /\ devices' = [devices EXCEPT ![Id(r)].org = org]
  /\ software' = [i \in SoftwareIds |->
       IF Stored(software, i) /\ software[i].device = Id(r)
       THEN [software[i] EXCEPT !.org = org] ELSE software[i]]
  /\ UNCHANGED <<orgs, depts, users, updates, told, gone>>
ChangeDevice(r) ==
  /\ DeviceWrite(r, "update device")
  /\ devices' = [devices EXCEPT ![Id(r)] =
       [org |-> Or(Body(r).org, @.org), host |-> Or(Body(r).host, @.host),
        assignee |-> Or(Body(r).assignee, @.assignee),
        status |-> Or(Body(r).status, @.status)]]
  /\ moved' = moved \cup MovedTo(devices[Id(r)], Body(r).org, Id(r))
Retire(r) ==
  /\ DeviceWrite(r, "retire device") /\ UNCHANGED moved
  /\ devices' = [devices EXCEPT ![Id(r)].status = "RETIRED"]

InsertSoftware(r) ==
  /\ SoftwareWrite(r, "create software")
  /\ \E s \in SoftwareIds :
       /\ software[s] = None
       /\ software' = [software EXCEPT ![s] =
            [org |-> Body(r).org, device |-> Body(r).device,
             name |-> Body(r).name, version |-> Body(r).version,
             status |-> Or(Body(r).status, "INSTALLED")]]
ChangeSoftware(r) ==
  /\ SoftwareWrite(r, "update software")
  /\ software' = [software EXCEPT ![Id(r)] =
       [org |-> @.org, device |-> @.device, name |-> Or(Body(r).name, @.name),
        version |-> Or(Body(r).version, @.version),
        status |-> Or(Body(r).status, @.status)]]
\* Mutant: a status that the enum does not have.
MarkRemoved_Deleted(r) ==
  /\ SoftwareWrite(r, "remove software")
  /\ software' = [software EXCEPT ![Id(r)].status = "DELETED"]
MarkRemoved(r) ==
  /\ SoftwareWrite(r, "remove software")
  /\ software' = [software EXCEPT ![Id(r)] =
       [org |-> @.org, device |-> @.device, name |-> @.name,
        version |-> @.version, status |-> "REMOVED"]]

\* The status and the flag of an update finding are derived one by one.
CalculateStatus(installed, latest, flag) ==
  CASE flag = TRUE  -> "OUTDATED"
    [] flag = FALSE -> "UP_TO_DATE"
    [] OTHER -> IF None \in {installed, latest} THEN "UNKNOWN"
                ELSE IF installed = latest THEN "UP_TO_DATE" ELSE "OUTDATED"
CalculateUpdateAvailable(installed, latest, flag) ==
  IF flag # None THEN flag
  ELSE None \notin {installed, latest} /\ installed # latest
Assess(c, home, installed, latest) ==
  [org |-> home.org, device |-> home.device, software |-> home.software,
   installed |-> installed, latest |-> latest,
   available |-> CalculateUpdateAvailable(installed, latest, c.body.available),
   status |-> Or(c.body.status,
                 CalculateStatus(installed, latest, c.body.available))]
Told(c, w) == IF c.body.status = None THEN told \ {w} ELSE told \cup {w}

InsertUpdate(r) ==
  LET c == requests[r].call  row == requests[r].row IN
  /\ UpdateWrite(r, "create update") /\ UNCHANGED gone
  /\ \E w \in UpdateIds \ gone :
       /\ updates[w] = None
       /\ updates' = [updates EXCEPT ![w] =
            Assess(c, [org |-> row.org, device |-> row.device, software |-> c.id],
                   Or(c.body.installed, row.version), c.body.latest)]
       /\ told' = Told(c, w)
ChangeUpdate(r) ==
  LET c == requests[r].call  row == requests[r].row IN
  /\ UpdateWrite(r, "update update") /\ UNCHANGED gone
  /\ updates' = [updates EXCEPT ![c.id] =
       Assess(c, @, Or(c.body.installed, row.installed),
              Or(c.body.latest, row.latest))]
  /\ told' = Told(c, c.id)
DeleteUpdate(r) ==
  /\ UpdateWrite(r, "remove update")
  /\ updates' = [updates EXCEPT ![Id(r)] = None]
  /\ told' = told \ {Id(r)}
  /\ gone' = gone \cup {Id(r)}

DirectoryWrite(r) ==
  \/ InsertOrganization(r) \/ ChangeOrganization(r) \/ Suspend(r)
  \/ InsertDepartment(r) \/ ChangeDepartment(r) \/ DeleteDepartment(r)
  \/ InsertUser(r) \/ ChangeUser(r) \/ Deactivate(r)
AssetWrite(r) ==
  \/ InsertDevice(r) \/ ChangeDevice(r) \/ Retire(r)
  \/ InsertSoftware(r) \/ ChangeSoftware(r) \/ MarkRemoved(r)
  \/ InsertUpdate(r) \/ ChangeUpdate(r) \/ DeleteUpdate(r)

Next ==
  \E r \in Requests :
    \/ \E c \in Calls(scene) : Receive(r, c)
    \/ Pass(r) \/ Refuse(r) \/ Reject(r)
    \/ DirectoryWrite(r) \/ AssetWrite(r)

Spec == Init /\ [][Next]_vars

-----------------------------------------------------------------------------
(* Lists: what findAll and findOne show to a scope *)

ListOrganizations(s) == {o \in OrgIds : Stored(orgs, o) /\ s \in {None, o}}
ListDepartments(s) == {d \in DeptIds : Stored(depts, d) /\ s \in {None, depts[d].org}}
ListUsers(s) == {u \in UserIds : Stored(users, u) /\ s \in {None, users[u].org}}
ListDevices(s) == {d \in DeviceIds : Stored(devices, d) /\ s \in {None, devices[d].org}}
ListSoftware(s) ==
  {i \in SoftwareIds : Stored(software, i) /\ s \in {None, software[i].org}}
ListUpdates(s) ==
  {w \in UpdateIds : Stored(updates, w) /\ s \in {None, updates[w].org}}

-----------------------------------------------------------------------------
(* Properties *)

\* The department of every user exists, whatever requests overlap with its
\* removal.
DepartmentsReferenced ==
  \A u \in UserIds : Stored(users, u) => Stored(depts, users[u].dept)

\* Every department, user and organization that a scoped list of users shows
\* is on the scoped lists too.  With overlapping requests a user who has been
\* moved meanwhile is an exception: the department was looked up before.
UserListsStayInScope ==
  \A s \in Scopes : \A u \in ListUsers(s) :
    /\ users[u].org \in ListOrganizations(s)
    /\ (Alone(scene) \/ u \notin moved) => users[u].dept \in ListDepartments(s)

\* A scoped list of devices names assignees of the same scope only, unless
\* the device or the assignee has changed organization since.
AssigneesStayInScope ==
  \A s \in Scopes : \A d \in ListDevices(s) :
    LET u == devices[d].assignee IN
    u # None /\ {d, u} \cap moved = {} => u \in ListUsers(s)

\* What a scoped list shows leads to nothing outside the scope: the three
\* properties above.
ListsStayInScope == DepartmentsReferenced /\ UserListsStayInScope /\ AssigneesStayInScope

\* A record of software is in the organization of its device, unless the
\* device has changed organization since: nothing moves the software along.
SoftwareFollowsDevice ==
  \A s \in Scopes : \A i \in ListSoftware(s) :
    software[i].device \notin moved => software[i].device \in ListDevices(s)

\* An update finding is on the lists of those who see its software, and names
\* the device of that software.
UpdateFollowsSoftware ==
  \A s \in Scopes : \A w \in ListUpdates(s) :
    LET i == updates[w].software IN
    i \in ListSoftware(s) /\ software[i].device = updates[w].device

\* No device has two records of one software, however requests overlap.
SoftwareUnique ==
  \A i \in SoftwareIds : Stored(software, i) =>
    OnDevice(software[i].device, software[i].name, i)

\* Requests that wait for each other never meet a constraint of the schema:
\* the handlers have checked all that the database checks.
ChecksSuffice ==
  Alone(scene) => \A r \in Requests :
    Written(r) => Accepted(requests[r].call, requests[r].row)

\* Host names are unique in an organization if requests wait for each other,
\* but for devices that came from another organization with their name.
HostsUnique ==
  Alone(scene) => \A d \in DeviceIds : Stored(devices, d) =>
    \A e \in DeviceIds \ {d} :
      /\ Stored(devices, e) /\ devices[e].org = devices[d].org
      /\ devices[e].host = devices[d].host
      => {d, e} \cap moved # {}

\* Department names are unique in an organization if requests wait for each
\* other: nothing else keeps them apart.
DepartmentNamesUnique ==
  Alone(scene) => \A d \in DeptIds : Stored(depts, d) =>
    UnusedIn(depts, depts[d].org, "name", depts[d].name, d)

\* The flag and the status of an update finding agree unless the last client
\* to write it has chosen the status.
DerivedStatusAgrees ==
  \A w \in UpdateIds : Stored(updates, w) /\ w \notin told =>
    (updates[w].available <=> updates[w].status = "OUTDATED")

\* Software is listed with its device, an update finding with its software,
\* and the two ways in which an update finding says "outdated" agree.
AssetsStayTogether == SoftwareFollowsDevice /\ UpdateFollowsSoftware /\ DerivedStatusAgrees

\* Software on a device, host names and department names occur once.
NothingTwice == SoftwareUnique /\ HostsUnique /\ DepartmentNamesUnique

\* A request of a scope, served alone, changes rows of its organization only,
\* leaves them there, and makes nobody a Super Admin.
RowsKept(table, changed, org) ==
  \A i \in DOMAIN table : changed[i] # table[i] =>
    \A row \in {table[i], changed[i]} \ {None} : row.org = org
WritesStayInScope ==
  [][\A r \in Requests :
       LET s == requests[r].call.scope IN
       Alone(scene) /\ requests[r] # None /\ requests'[r] = None /\ s # None =>
         /\ RowsKept(depts, depts', s) /\ RowsKept(users, users', s)
         /\ RowsKept(devices, devices', s) /\ RowsKept(software, software', s)
         /\ RowsKept(updates, updates', s)
         /\ \A u \in UserIds :
              Stored(users', u) /\ users'[u].role = "Super Admin" =>
                Stored(users, u) /\ users[u].role = "Super Admin"]_vars
=============================================================================
