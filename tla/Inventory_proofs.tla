-------------------------- MODULE Inventory_proofs --------------------------
(***************************************************************************)
(* Theorems about Inventory, for any tables, clients and overlap of        *)
(* requests.                                                               *)
(***************************************************************************)
EXTENDS Inventory, TLAPS

Held == [call : Call, row : Maybe(Rows), at : 2 .. 5]

\* What a request in flight remembers stays true until its write: rows that it
\* is about are not deleted (departments and update findings, which may be, are
\* looked at again by the database), software stays on its device.
Remembers(r) ==
  LET c == requests[r].call  row == requests[r].row IN
  /\ c.op \in {"update organization", "suspend organization"} => Stored(orgs, c.id)
  /\ c.op \in {"update user", "deactivate user"} => Stored(users, c.id)
  /\ c.op \in {"update device", "retire device"} => Stored(devices, c.id)
  /\ c.op \in {"update software", "remove software", "create update"} =>
       Stored(software, c.id)
  /\ c.op = "create update" =>
       /\ row.org = software[c.id].org /\ row.device = software[c.id].device
       /\ row.version \in Maybe(Versions)
  /\ c.op = "update update" =>
       row.installed \in Maybe(Versions) /\ row.latest \in Maybe(Versions)
  /\ c.op = "create software" /\ requests[r].at > 2 =>
       /\ Stored(devices, c.body.device)
       /\ devices[c.body.device].org = c.body.org \/ c.body.device \in moved

Placed(i) == Stored(software, i) =>
  /\ Stored(devices, software[i].device)
  /\ devices[software[i].device].org = software[i].org \/ software[i].device \in moved
Attached(w) == Stored(updates, w) =>
  /\ Stored(software, updates[w].software)
  /\ software[updates[w].software].org = updates[w].org
  /\ software[updates[w].software].device = updates[w].device
Agrees(w) == Stored(updates, w) /\ w \notin told =>
  (updates[w].available <=> updates[w].status = "OUTDATED")

Types ==
  /\ scene \in Scenes
  /\ orgs \in Table(OrgIds, OrgRow) /\ depts \in Table(DeptIds, DeptRow)
  /\ users \in Table(UserIds, UserRow)
  /\ devices \in Table(DeviceIds, DeviceRow)
  /\ software \in Table(SoftwareIds, SoftwareRow)
  /\ updates \in Table(UpdateIds, UpdateRow)
  /\ moved \subseteq UserIds \cup DeviceIds /\ told \subseteq UpdateIds
  /\ requests \in [Requests -> Maybe(Held)]
  /\ \A r \in Requests : requests[r] # None => requests[r].call \in Calls(scene)
Remembered == \A r \in Requests : requests[r] # None => Remembers(r)
Assets == /\ \A i \in SoftwareIds : Placed(i)
          /\ \A w \in UpdateIds : Attached(w) /\ Agrees(w)
AssetInv == Types /\ Remembered /\ Assets

-----------------------------------------------------------------------------
\* A call is one of these.
LEMMA CallKinds ==
  ASSUME NEW c \in Call
  PROVE  \/ c \in CallOf("create organization", {None}, NewOrg)
         \/ c \in CallOf("update organization", OrgIds, OrgChange)
         \/ c \in CallOf("suspend organization", OrgIds, Nothing)
         \/ c \in CallOf("create department", {None}, NewDept)
         \/ c \in CallOf("update department", DeptIds, DeptChange)
         \/ c \in CallOf("remove department", DeptIds, Nothing)
         \/ c \in CallOf("create user", {None}, NewUser)
         \/ c \in CallOf("update user", UserIds, UserChange)
         \/ c \in CallOf("deactivate user", UserIds, Nothing)
         \/ c \in CallOf("create device", {None}, NewDevice)
         \/ c \in CallOf("update device", DeviceIds, DeviceChange)
         \/ c \in CallOf("retire device", DeviceIds, Nothing)
         \/ c \in CallOf("create software", {None}, NewSoftware)
         \/ c \in CallOf("update software", SoftwareIds, SoftwareChange)
         \/ c \in CallOf("remove software", SoftwareIds, Nothing)
         \/ c \in CallOf("create update", SoftwareIds, UpdateBody)
         \/ c \in CallOf("update update", UpdateIds, UpdateBody)
         \/ c \in CallOf("remove update", UpdateIds, Nothing)
BY DEF Call

\* A call has the body, and names a row of the table, of its operation.
LEMMA CallTypes ==
  ASSUME NEW c \in Call
  PROVE  /\ c.op = "create organization" => c.id = None /\ c.body \in NewOrg
         /\ c.op = "update organization" => c.id \in OrgIds /\ c.body \in OrgChange
         /\ c.op = "suspend organization" => c.id \in OrgIds
         /\ c.op = "create department" => c.id = None /\ c.body \in NewDept
         /\ c.op = "update department" => c.id \in DeptIds /\ c.body \in DeptChange
         /\ c.op = "remove department" => c.id \in DeptIds
         /\ c.op = "create user" => c.id = None /\ c.body \in NewUser
         /\ c.op = "update user" => c.id \in UserIds /\ c.body \in UserChange
         /\ c.op = "deactivate user" => c.id \in UserIds
         /\ c.op = "create device" => c.id = None /\ c.body \in NewDevice
         /\ c.op = "update device" => c.id \in DeviceIds /\ c.body \in DeviceChange
         /\ c.op = "retire device" => c.id \in DeviceIds
         /\ c.op = "create software" => c.id = None /\ c.body \in NewSoftware
         /\ c.op = "update software" => c.id \in SoftwareIds /\ c.body \in SoftwareChange
         /\ c.op = "remove software" => c.id \in SoftwareIds
         /\ c.op = "create update" => c.id \in SoftwareIds /\ c.body \in UpdateBody
         /\ c.op = "update update" => c.id \in UpdateIds /\ c.body \in UpdateBody
         /\ c.op = "remove update" => c.id \in UpdateIds
<1>2. CASE c \in CallOf("create organization", {None}, NewOrg)
  BY <1>2 DEF CallOf
<1>3. CASE c \in CallOf("update organization", OrgIds, OrgChange)
  BY <1>3 DEF CallOf
<1>4. CASE c \in CallOf("suspend organization", OrgIds, Nothing)
  BY <1>4 DEF CallOf
<1>5. CASE c \in CallOf("create department", {None}, NewDept)
  BY <1>5 DEF CallOf
<1>6. CASE c \in CallOf("update department", DeptIds, DeptChange)
  BY <1>6 DEF CallOf
<1>7. CASE c \in CallOf("remove department", DeptIds, Nothing)
  BY <1>7 DEF CallOf
<1>8. CASE c \in CallOf("create user", {None}, NewUser)
  BY <1>8 DEF CallOf
<1>9. CASE c \in CallOf("update user", UserIds, UserChange)
  BY <1>9 DEF CallOf
<1>10. CASE c \in CallOf("deactivate user", UserIds, Nothing)
  BY <1>10 DEF CallOf
<1>11. CASE c \in CallOf("create device", {None}, NewDevice)
  BY <1>11 DEF CallOf
<1>12. CASE c \in CallOf("update device", DeviceIds, DeviceChange)
  BY <1>12 DEF CallOf
<1>13. CASE c \in CallOf("retire device", DeviceIds, Nothing)
  BY <1>13 DEF CallOf
<1>14. CASE c \in CallOf("create software", {None}, NewSoftware)
  BY <1>14 DEF CallOf
<1>15. CASE c \in CallOf("update software", SoftwareIds, SoftwareChange)
  BY <1>15 DEF CallOf
<1>16. CASE c \in CallOf("remove software", SoftwareIds, Nothing)
  BY <1>16 DEF CallOf
<1>17. CASE c \in CallOf("create update", SoftwareIds, UpdateBody)
  BY <1>17 DEF CallOf
<1>18. CASE c \in CallOf("update update", UpdateIds, UpdateBody)
  BY <1>18 DEF CallOf
<1>19. CASE c \in CallOf("remove update", UpdateIds, Nothing)
  BY <1>19 DEF CallOf
<1> QED BY CallKinds, <1>2, <1>3, <1>4, <1>5, <1>6, <1>7, <1>8, <1>9, <1>10, <1>11, <1>12, <1>13, <1>14, <1>15, <1>16, <1>17, <1>18, <1>19

LEMMA InitAssets == Init => AssetInv
<1> SUFFICES ASSUME Init PROVE AssetInv
  OBVIOUS
<1>1. Types
  BY SeedAssumption DEF Init, Types, Maybe
<1>2. Remembered
  BY DEF Init, Remembered
<1>3. Assets
  BY SeedAssumption DEF Init, Assets, Placed, Attached, Agrees, Stored
<1> QED BY <1>1, <1>2, <1>3 DEF AssetInv

-----------------------------------------------------------------------------
\* None is neither an id nor a row nor a value of a column.
LEMMA NoneIsApart ==
  /\ None \notin OrgIds /\ None \notin DeptIds /\ None \notin UserIds
  /\ None \notin DeviceIds /\ None \notin SoftwareIds /\ None \notin UpdateIds
  /\ None \notin Names /\ None \notin Mails /\ None \notin Versions
  /\ None \notin OrgRow /\ None \notin DeptRow /\ None \notin UserRow
  /\ None \notin DeviceRow /\ None \notin SoftwareRow /\ None \notin UpdateRow
  /\ None \notin BOOLEAN /\ None \notin Roles /\ None \notin UserStatuses
  /\ None \notin DeviceStatuses /\ None \notin SoftwareStatuses
  /\ None \notin UpdateStatuses /\ UserIds \cap DeviceIds = {}
  BY InventoryAssumption DEF Rows

TablesTyped ==
  /\ orgs \in Table(OrgIds, OrgRow) /\ depts \in Table(DeptIds, DeptRow)
  /\ users \in Table(UserIds, UserRow)
  /\ devices \in Table(DeviceIds, DeviceRow)
  /\ software \in Table(SoftwareIds, SoftwareRow)
  /\ updates \in Table(UpdateIds, UpdateRow)
  /\ moved \subseteq UserIds \cup DeviceIds /\ told \subseteq UpdateIds

\* What a step leaves as it is: organizations, users, devices and software are
\* not deleted, and software keeps its organization and its device.
RowsStay ==
  /\ \A o \in OrgIds : Stored(orgs, o) => Stored(orgs', o)
  /\ \A u \in UserIds : Stored(users, u) => Stored(users', u)
  /\ \A d \in DeviceIds : Stored(devices, d) =>
       Stored(devices', d) /\ (devices'[d].org = devices[d].org \/ d \in moved')
  /\ \A i \in SoftwareIds : Stored(software, i) =>
       /\ Stored(software', i)
       /\ software'[i].org = software[i].org
       /\ software'[i].device = software[i].device
  /\ moved \subseteq moved'

\* The request that writes has a call of the right type and remembers its row.
LEMMA WriterKnown ==
  ASSUME AssetInv, NEW r \in Requests, Written(r)
  PROVE  /\ requests[r] \in Held /\ requests[r].call \in Call
         /\ Remembers(r)
  BY DEF AssetInv, Types, Remembered, Written, Maybe, Held

\* The forms that a write of the directory, of devices or of software has.
OrgStep ==
  /\ \E o \in OrgIds, row \in OrgRow : orgs' = [orgs EXCEPT ![o] = row]
  /\ UNCHANGED <<depts, users, devices, software, updates, moved, told>>
DeptStep ==
  /\ \E d \in DeptIds, row \in Maybe(DeptRow) : depts' = [depts EXCEPT ![d] = row]
  /\ UNCHANGED <<orgs, users, devices, software, updates, moved, told>>
UserStep ==
  /\ \E u \in UserIds, row \in UserRow :
       users' = [users EXCEPT ![u] = row] /\ moved' \in {moved, moved \cup {u}}
  /\ UNCHANGED <<orgs, depts, devices, software, updates, told>>
DeviceStep ==
  /\ \E d \in DeviceIds, row \in DeviceRow :
       /\ devices' = [devices EXCEPT ![d] = row]
       /\ moved' \in {moved, moved \cup {d}}
       /\ Stored(devices, d) => row.org = devices[d].org \/ d \in moved'
  /\ UNCHANGED <<orgs, depts, users, software, updates, told>>
\* (The software of a creation is on the device that the request names.)
SoftwareStep(r) ==
  /\ \E i \in SoftwareIds, row \in SoftwareRow :
       /\ software' = [software EXCEPT ![i] = row]
       /\ Stored(software, i) => row.org = software[i].org /\ row.device = software[i].device
       /\ ~Stored(software, i) =>
            /\ requests[r].call.op = "create software" /\ Written(r)
            /\ row.org = Body(r).org /\ row.device = Body(r).device
  /\ UNCHANGED <<orgs, depts, users, devices, updates, moved, told>>

LEMMA OrgWrites ==
  ASSUME AssetInv, NEW r \in Requests, InsertOrganization(r) \/ ChangeOrganization(r) \/ Suspend(r)
  PROVE  OrgStep
<1> DEFINE c == requests[r].call
<1>0. TablesTyped
  BY DEF AssetInv, Types, TablesTyped
<1>1. CASE InsertOrganization(r)
  <2>1. Written(r) /\ c \in Call /\ Remembers(r)
    BY <1>1, WriterKnown DEF InsertOrganization, OrgWrite, Write
  <2>2. c.body \in NewOrg
    BY <1>1, <2>1, CallTypes DEF InsertOrganization, OrgWrite, Write, Remembers, Accepted, DepartmentConstraints
  <2> DEFINE new(i) == [mail |-> c.body.mail, status |-> "ACTIVE"]
  <2>3. \A i \in OrgIds : new(i) \in OrgRow
    BY <1>0, <2>2, NoneIsApart DEF TablesTyped, Table, Maybe, Stored, Or, NewOrg, OrgRow
  <2> QED
    BY <1>0, <1>1, <2>1, <2>2, <2>3 DEF InsertOrganization, OrgWrite, Write, Body, Id, Stored, TablesTyped,
       Table, Maybe, OrgStep
<1>2. CASE ChangeOrganization(r)
  <2>1. Written(r) /\ c \in Call /\ Remembers(r)
    BY <1>2, WriterKnown DEF ChangeOrganization, OrgWrite, Write
  <2>2. c.id \in OrgIds /\ c.body \in OrgChange /\ Stored(orgs, c.id)
    BY <1>2, <2>1, CallTypes DEF ChangeOrganization, OrgWrite, Write, Remembers, Accepted, DepartmentConstraints
  <2> DEFINE new(i) == [mail |-> Or(c.body.mail, orgs[i].mail), status |-> orgs[i].status]
  <2>3. new(c.id) \in OrgRow
    BY <1>0, <2>2, NoneIsApart DEF TablesTyped, Table, Maybe, Stored, Or, OrgChange, OrgRow
  <2> QED
    BY <1>0, <1>2, <2>1, <2>2, <2>3 DEF ChangeOrganization, OrgWrite, Write, Body, Id, Stored, TablesTyped,
       Table, Maybe, OrgStep
<1>3. CASE Suspend(r)
  <2>1. Written(r) /\ c \in Call /\ Remembers(r)
    BY <1>3, WriterKnown DEF Suspend, OrgWrite, Write
  <2>2. c.id \in OrgIds /\ Stored(orgs, c.id)
    BY <1>3, <2>1, CallTypes DEF Suspend, OrgWrite, Write, Remembers, Accepted, DepartmentConstraints
  <2> DEFINE new(i) == [mail |-> orgs[i].mail, status |-> "SUSPENDED"]
  <2>3. new(c.id) \in OrgRow
    BY <1>0, <2>2, NoneIsApart DEF TablesTyped, Table, Maybe, Stored, Or, OrgRow
  <2> QED
    BY <1>0, <1>3, <2>1, <2>2, <2>3 DEF Suspend, OrgWrite, Write, Body, Id, Stored, TablesTyped,
       Table, Maybe, OrgStep
<1> QED BY <1>1, <1>2, <1>3

LEMMA DeptWrites ==
  ASSUME AssetInv, NEW r \in Requests, InsertDepartment(r) \/ ChangeDepartment(r) \/ DeleteDepartment(r)
  PROVE  DeptStep
<1> DEFINE c == requests[r].call
<1>0. TablesTyped
  BY DEF AssetInv, Types, TablesTyped
<1>1. CASE InsertDepartment(r)
  <2>1. Written(r) /\ c \in Call /\ Remembers(r)
    BY <1>1, WriterKnown DEF InsertDepartment, DeptWrite, Write
  <2>2. c.body \in NewDept
    BY <1>1, <2>1, CallTypes DEF InsertDepartment, DeptWrite, Write, Remembers, Accepted, DepartmentConstraints
  <2> DEFINE new(i) == c.body
  <2>3. \A i \in DeptIds : new(i) \in DeptRow
    BY <1>0, <2>2, NoneIsApart DEF TablesTyped, Table, Maybe, Stored, Or, NewDept, DeptRow
  <2> QED
    BY <1>0, <1>1, <2>1, <2>2, <2>3 DEF InsertDepartment, DeptWrite, Write, Body, Id, Stored, TablesTyped,
       Table, Maybe, DeptStep
<1>2. CASE ChangeDepartment(r)
  <2>1. Written(r) /\ c \in Call /\ Remembers(r)
    BY <1>2, WriterKnown DEF ChangeDepartment, DeptWrite, Write
  <2>2. c.id \in DeptIds /\ c.body \in DeptChange /\ Stored(depts, c.id)
    BY <1>2, <2>1, CallTypes DEF ChangeDepartment, DeptWrite, Write, Remembers, Accepted, DepartmentConstraints
  <2> DEFINE new(i) == [org |-> depts[i].org, name |-> Or(c.body.name, depts[i].name)]
  <2>3. new(c.id) \in DeptRow
    BY <1>0, <2>2, NoneIsApart DEF TablesTyped, Table, Maybe, Stored, Or, DeptChange, DeptRow
  <2> QED
    BY <1>0, <1>2, <2>1, <2>2, <2>3 DEF ChangeDepartment, DeptWrite, Write, Body, Id, Stored, TablesTyped,
       Table, Maybe, DeptStep
<1>3. CASE DeleteDepartment(r)
  <2>1. Written(r) /\ c \in Call /\ Remembers(r)
    BY <1>3, WriterKnown DEF DeleteDepartment, DeptWrite, Write
  <2>2. c.id \in DeptIds
    BY <1>3, <2>1, CallTypes DEF DeleteDepartment, DeptWrite, Write, Remembers, Accepted, DepartmentConstraints
  <2> DEFINE new(i) == None
  <2>3. new(c.id) \in Maybe(DeptRow)
    BY <1>0, <2>2, NoneIsApart DEF TablesTyped, Table, Maybe, Stored, Or, DeptRow
  <2> QED
    BY <1>0, <1>3, <2>1, <2>2, <2>3 DEF DeleteDepartment, DeptWrite, Write, Body, Id, Stored, TablesTyped,
       Table, Maybe, DeptStep
<1> QED BY <1>1, <1>2, <1>3

LEMMA UserWrites ==
  ASSUME AssetInv, NEW r \in Requests, InsertUser(r) \/ ChangeUser(r) \/ Deactivate(r)
  PROVE  UserStep
<1> DEFINE c == requests[r].call
<1>0. TablesTyped
  BY DEF AssetInv, Types, TablesTyped
<1>1. CASE InsertUser(r)
  <2>1. Written(r) /\ c \in Call /\ Remembers(r)
    BY <1>1, WriterKnown DEF InsertUser, UserWrite, Write
  <2>2. c.body \in NewUser
    BY <1>1, <2>1, CallTypes DEF InsertUser, UserWrite, Write, Remembers, Accepted, DepartmentConstraints
  <2> DEFINE new(i) == [org |-> c.body.org, dept |-> c.body.dept, mail |-> c.body.mail,
                     role |-> c.body.role, status |-> "ACTIVE"]
  <2>3. \A i \in UserIds : new(i) \in UserRow
    BY <1>0, <2>2, NoneIsApart DEF TablesTyped, Table, Maybe, Stored, Or, NewUser, UserRow, UserStatuses
  <2> QED
    BY <1>0, <1>1, <2>1, <2>2, <2>3 DEF InsertUser, UserWrite, Write, Body, Id, Stored, TablesTyped,
       Table, Maybe, UserStep
<1>2. CASE ChangeUser(r)
  <2>1. Written(r) /\ c \in Call /\ Remembers(r)
    BY <1>2, WriterKnown DEF ChangeUser, UserWrite, Write
  <2>2. c.id \in UserIds /\ c.body \in UserChange /\ Stored(users, c.id)
    BY <1>2, <2>1, CallTypes DEF ChangeUser, UserWrite, Write, Remembers, Accepted, DepartmentConstraints
  <2> DEFINE new(i) == [
       org |-> Or(c.body.org, users[i].org), dept |-> Or(c.body.dept, users[i].dept),
       mail |-> Or(c.body.mail, users[i].mail), role |-> Or(c.body.role, users[i].role),
       status |-> Or(c.body.status, users[i].status)]
  <2>3. new(c.id) \in UserRow
    BY <1>0, <2>2, NoneIsApart DEF TablesTyped, Table, Maybe, Stored, Or, UserChange, UserRow
  <2> QED
    BY <1>0, <1>2, <2>1, <2>2, <2>3 DEF ChangeUser, UserWrite, Write, Body, Id, Stored, TablesTyped,
       Table, Maybe, UserStep, MovedTo
<1>3. CASE Deactivate(r)
  <2>1. Written(r) /\ c \in Call /\ Remembers(r)
    BY <1>3, WriterKnown DEF Deactivate, UserWrite, Write
  <2>2. c.id \in UserIds /\ Stored(users, c.id)
    BY <1>3, <2>1, CallTypes DEF Deactivate, UserWrite, Write, Remembers, Accepted, DepartmentConstraints
  <2> DEFINE new(i) == [users[i] EXCEPT !.status = "INACTIVE"]
  <2>3. new(c.id) \in UserRow
    BY <1>0, <2>2, NoneIsApart DEF TablesTyped, Table, Maybe, Stored, Or, UserRow, UserStatuses
  <2> QED
    BY <1>0, <1>3, <2>1, <2>2, <2>3 DEF Deactivate, UserWrite, Write, Body, Id, Stored, TablesTyped,
       Table, Maybe, UserStep
<1> QED BY <1>1, <1>2, <1>3

LEMMA DeviceWrites ==
  ASSUME AssetInv, NEW r \in Requests, InsertDevice(r) \/ ChangeDevice(r) \/ Retire(r)
  PROVE  DeviceStep
<1> DEFINE c == requests[r].call
<1>0. TablesTyped
  BY DEF AssetInv, Types, TablesTyped
<1>1. CASE InsertDevice(r)
  <2>1. Written(r) /\ c \in Call /\ Remembers(r)
    BY <1>1, WriterKnown DEF InsertDevice, DeviceWrite, Write
  <2>2. c.body \in NewDevice
    BY <1>1, <2>1, CallTypes DEF InsertDevice, DeviceWrite, Write, Remembers, Accepted, DepartmentConstraints
  <2> DEFINE new(i) == [org |-> c.body.org, host |-> c.body.host,
                     assignee |-> c.body.assignee, status |-> "ACTIVE"]
  <2>3. \A i \in DeviceIds : new(i) \in DeviceRow
    BY <1>0, <2>2, NoneIsApart DEF TablesTyped, Table, Maybe, Stored, Or, NewDevice, DeviceRow, DeviceStatuses
  <2> QED
    BY <1>0, <1>1, <2>1, <2>2, <2>3 DEF InsertDevice, DeviceWrite, Write, Body, Id, Stored, TablesTyped,
       Table, Maybe, DeviceStep
<1>2. CASE ChangeDevice(r)
  <2>1. Written(r) /\ c \in Call /\ Remembers(r)
    BY <1>2, WriterKnown DEF ChangeDevice, DeviceWrite, Write
  <2>2. c.id \in DeviceIds /\ c.body \in DeviceChange /\ Stored(devices, c.id)
    BY <1>2, <2>1, CallTypes DEF ChangeDevice, DeviceWrite, Write, Remembers, Accepted, DepartmentConstraints
  <2> DEFINE new(i) == [
       org |-> Or(c.body.org, devices[i].org), host |-> Or(c.body.host, devices[i].host),
       assignee |-> Or(c.body.assignee, devices[i].assignee),
       status |-> Or(c.body.status, devices[i].status)]
  <2>3. new(c.id) \in DeviceRow
    BY <1>0, <2>2, NoneIsApart DEF TablesTyped, Table, Maybe, Stored, Or, DeviceChange, DeviceRow
  <2>4. devices' = [devices EXCEPT ![c.id] = new(c.id)]
    BY <1>0, <1>2, <2>2 DEF ChangeDevice, Body, Id, TablesTyped, Table
  <2>5. moved' = moved \cup MovedTo(devices[c.id], c.body.org, c.id)
    BY <1>2 DEF ChangeDevice, Body, Id
  <2>6. new(c.id).org = devices[c.id].org \/ c.id \in moved'
    BY <2>5 DEF MovedTo, Or
  <2>7. moved' \in {moved, moved \cup {c.id}}
    BY <2>5 DEF MovedTo
  <2> QED
    BY <1>2, <2>2, <2>3, <2>4, <2>6, <2>7 DEF ChangeDevice, DeviceWrite, DeviceStep
<1>3. CASE Retire(r)
  <2>1. Written(r) /\ c \in Call /\ Remembers(r)
    BY <1>3, WriterKnown DEF Retire, DeviceWrite, Write
  <2>2. c.id \in DeviceIds /\ Stored(devices, c.id)
    BY <1>3, <2>1, CallTypes DEF Retire, DeviceWrite, Write, Remembers, Accepted, DepartmentConstraints
  <2> DEFINE new(i) == [devices[i] EXCEPT !.status = "RETIRED"]
  <2>3. new(c.id) \in DeviceRow /\ new(c.id).org = devices[c.id].org
    BY <1>0, <2>2, NoneIsApart DEF TablesTyped, Table, Maybe, Stored, Or, DeviceRow, DeviceStatuses
  <2> QED
    BY <1>0, <1>3, <2>1, <2>2, <2>3 DEF Retire, DeviceWrite, Write, Body, Id, Stored, TablesTyped,
       Table, Maybe, DeviceStep
<1> QED BY <1>1, <1>2, <1>3

LEMMA SoftwareWrites ==
  ASSUME AssetInv, NEW r \in Requests, InsertSoftware(r) \/ ChangeSoftware(r) \/ MarkRemoved(r)
  PROVE  SoftwareStep(r)
<1> DEFINE c == requests[r].call
<1>0. TablesTyped
  BY DEF AssetInv, Types, TablesTyped
<1>1. CASE InsertSoftware(r)
  <2>1. Written(r) /\ c \in Call /\ Remembers(r)
    BY <1>1, WriterKnown DEF InsertSoftware, SoftwareWrite, Write
  <2>2. c.op = "create software" /\ c.body \in NewSoftware
    BY <1>1, <2>1, CallTypes DEF InsertSoftware, SoftwareWrite, Write, Remembers, Accepted, DepartmentConstraints
  <2> DEFINE new(i) == [org |-> c.body.org, device |-> c.body.device, name |-> c.body.name,
                     version |-> c.body.version, status |-> Or(c.body.status, "INSTALLED")]
  <2>3. \A i \in SoftwareIds : new(i) \in SoftwareRow
    BY <1>0, <2>2, NoneIsApart DEF TablesTyped, Table, Maybe, Stored, Or, NewSoftware, SoftwareRow, SoftwareStatuses
  <2> QED
    BY <1>0, <1>1, <2>1, <2>2, <2>3 DEF InsertSoftware, SoftwareWrite, Write, Body, Id, Stored, TablesTyped,
       Table, Maybe, SoftwareStep
<1>2. CASE ChangeSoftware(r)
  <2>1. Written(r) /\ c \in Call /\ Remembers(r)
    BY <1>2, WriterKnown DEF ChangeSoftware, SoftwareWrite, Write
  <2>2. c.id \in SoftwareIds /\ c.body \in SoftwareChange /\ Stored(software, c.id)
    BY <1>2, <2>1, CallTypes DEF ChangeSoftware, SoftwareWrite, Write, Remembers, Accepted, DepartmentConstraints
  <2> DEFINE new(i) == [
       org |-> software[i].org, device |-> software[i].device,
       name |-> Or(c.body.name, software[i].name),
       version |-> Or(c.body.version, software[i].version),
       status |-> Or(c.body.status, software[i].status)]
  <2>3. new(c.id) \in SoftwareRow
    BY <1>0, <2>2, NoneIsApart DEF TablesTyped, Table, Maybe, Stored, Or, SoftwareChange, SoftwareRow
  <2> QED
    BY <1>0, <1>2, <2>1, <2>2, <2>3 DEF ChangeSoftware, SoftwareWrite, Write, Body, Id, Stored, TablesTyped,
       Table, Maybe, SoftwareStep
<1>3. CASE MarkRemoved(r)
  <2>1. Written(r) /\ c \in Call /\ Remembers(r)
    BY <1>3, WriterKnown DEF MarkRemoved, SoftwareWrite, Write
  <2>2. c.id \in SoftwareIds /\ Stored(software, c.id)
    BY <1>3, <2>1, CallTypes DEF MarkRemoved, SoftwareWrite, Write, Remembers, Accepted, DepartmentConstraints
  <2> DEFINE new(i) == [
       org |-> software[i].org, device |-> software[i].device, name |-> software[i].name,
       version |-> software[i].version, status |-> "REMOVED"]
  <2>3. new(c.id) \in SoftwareRow
    BY <1>0, <2>2, NoneIsApart DEF TablesTyped, Table, Maybe, Stored, Or, SoftwareRow, SoftwareStatuses
  <2> QED
    BY <1>0, <1>3, <2>1, <2>2, <2>3 DEF MarkRemoved, SoftwareWrite, Write, Body, Id, Stored, TablesTyped,
       Table, Maybe, SoftwareStep
<1> QED BY <1>1, <1>2, <1>3

-----------------------------------------------------------------------------
\* Such a write keeps the types of the tables and leaves rows where they are.
LEMMA FormsKeepRows ==
  ASSUME TablesTyped, NEW r \in Requests,
         OrgStep \/ DeptStep \/ UserStep \/ DeviceStep \/ SoftwareStep(r)
  PROVE  TablesTyped' /\ RowsStay
<1>1. CASE OrgStep
  BY <1>1, NoneIsApart DEF OrgStep, TablesTyped, RowsStay, Table, Maybe, Stored
<1>2. CASE DeptStep
  BY <1>2, NoneIsApart DEF DeptStep, TablesTyped, RowsStay, Table, Maybe, Stored
<1>3. CASE UserStep
  BY <1>3, NoneIsApart DEF UserStep, TablesTyped, RowsStay, Table, Maybe, Stored
<1>4. CASE DeviceStep
  BY <1>4, NoneIsApart DEF DeviceStep, TablesTyped, RowsStay, Table, Maybe, Stored
<1>5. CASE SoftwareStep(r)
  <2>1. PICK i \in SoftwareIds, row \in SoftwareRow :
          /\ software' = [software EXCEPT ![i] = row]
          /\ Stored(software, i) =>
               row.org = software[i].org /\ row.device = software[i].device
    BY <1>5 DEF SoftwareStep
  <2>2. software' \in Table(SoftwareIds, SoftwareRow)
    BY <2>1 DEF TablesTyped, Table, Maybe
  <2>3. \A j \in SoftwareIds : Stored(software, j) =>
          /\ Stored(software', j) /\ software'[j].org = software[j].org
          /\ software'[j].device = software[j].device
    BY <2>1, NoneIsApart DEF TablesTyped, Table, Stored
  <2> QED
    BY <1>5, <2>2, <2>3 DEF SoftwareStep, TablesTyped, RowsStay, Stored
<1> QED BY <1>1, <1>2, <1>3, <1>4, <1>5

\* Software stays with its device, and new software is put on a device that its
\* request has looked up.
LEMMA FormsKeepAssets ==
  ASSUME AssetInv, NEW r \in Requests,
         OrgStep \/ DeptStep \/ UserStep \/ DeviceStep \/ SoftwareStep(r)
  PROVE  Assets'
<1>0. TablesTyped /\ TablesTyped' /\ RowsStay
  <2>1. TablesTyped
    BY DEF AssetInv, Types, TablesTyped
  <2> QED BY <2>1, FormsKeepRows
<1>1. ASSUME NEW i \in SoftwareIds PROVE Placed(i)'
  <2>1. CASE Stored(software, i)
    <3>1. /\ software'[i].org = software[i].org /\ software'[i].device = software[i].device
          /\ software[i].device \in DeviceIds
      BY <1>0, <2>1 DEF RowsStay, TablesTyped, Table, Maybe, Stored, SoftwareRow
    <3> QED
      BY <1>0, <2>1, <3>1 DEF AssetInv, Assets, Placed, RowsStay
  <2>2. CASE ~Stored(software, i) /\ Stored(software', i)
    <3>1. SoftwareStep(r) /\ Written(r) /\ requests[r].call.op = "create software"
          /\ software'[i].org = Body(r).org /\ software'[i].device = Body(r).device
      BY <1>0, <2>2 DEF OrgStep, DeptStep, UserStep, DeviceStep, SoftwareStep, Stored,
         TablesTyped, Table
    <3>2. Remembers(r) /\ requests[r].at > 2
      <4>1. Reads(requests[r].call.op) = 3
        BY <3>1 DEF Reads
      <4>2. requests[r] \in Held /\ Remembers(r)
        BY <3>1, WriterKnown
      <4>3. requests[r].at > 3 /\ requests[r].at \in 2 .. 5
        BY <3>1, <4>1, <4>2 DEF Written, Held
      <4> QED BY <4>2, <4>3
    <3> QED
      BY <3>1, <3>2 DEF Remembers, Body, Placed, SoftwareStep
  <2> QED BY <2>1, <2>2 DEF Placed, Stored
<1>2. ASSUME NEW w \in UpdateIds PROVE Attached(w)' /\ Agrees(w)'
  <2>1. updates' = updates /\ told' = told
    BY DEF OrgStep, DeptStep, UserStep, DeviceStep, SoftwareStep
  <2>2. Stored(updates, w) => updates[w].software \in SoftwareIds
    BY <1>0 DEF TablesTyped, Table, Maybe, Stored, UpdateRow
  <2> QED
    BY <1>0, <2>1, <2>2 DEF AssetInv, Assets, Attached, Agrees, RowsStay, Stored
<1> QED BY <1>1, <1>2 DEF Assets

-----------------------------------------------------------------------------
\* The status and the flag that are derived are of their types, and agree.
LEMMA DerivedAgree ==
  ASSUME NEW installed \in Maybe(Versions), NEW latest \in Maybe(Versions),
         NEW flag \in Maybe(BOOLEAN)
  PROVE  /\ CalculateUpdateAvailable(installed, latest, flag) \in BOOLEAN
         /\ CalculateStatus(installed, latest, flag) \in UpdateStatuses
         /\ CalculateUpdateAvailable(installed, latest, flag)
              <=> CalculateStatus(installed, latest, flag) = "OUTDATED"
<1>1. CASE flag = TRUE
  BY <1>1, NoneIsApart DEF CalculateUpdateAvailable, CalculateStatus, UpdateStatuses
<1>2. CASE flag = FALSE
  BY <1>2, NoneIsApart DEF CalculateUpdateAvailable, CalculateStatus, UpdateStatuses
<1>3. CASE flag = None
  BY <1>3, NoneIsApart DEF CalculateUpdateAvailable, CalculateStatus, UpdateStatuses
<1> QED BY <1>1, <1>2, <1>3 DEF Maybe

\* The row that is written for an update finding.
LEMMA AssessSound ==
  ASSUME NEW c, c.body \in UpdateBody, NEW home,
         home.org \in OrgIds, home.device \in DeviceIds, home.software \in SoftwareIds,
         NEW installed \in Maybe(Versions), NEW latest \in Maybe(Versions)
  PROVE  LET row == Assess(c, home, installed, latest) IN
         /\ row \in UpdateRow
         /\ row.org = home.org /\ row.device = home.device /\ row.software = home.software
         /\ c.body.status = None => (row.available <=> row.status = "OUTDATED")
<1> DEFINE flag == c.body.available
           status == CalculateStatus(installed, latest, flag)
<1>1. flag \in Maybe(BOOLEAN) /\ c.body.status \in Maybe(UpdateStatuses)
  BY DEF UpdateBody
<1>2. /\ CalculateUpdateAvailable(installed, latest, flag) \in BOOLEAN
      /\ status \in UpdateStatuses
      /\ CalculateUpdateAvailable(installed, latest, flag) <=> status = "OUTDATED"
  BY <1>1, DerivedAgree
<1>3. Or(c.body.status, status) \in UpdateStatuses
  BY <1>1, <1>2 DEF Or, Maybe
<1>4. c.body.status = None => Or(c.body.status, status) = status
  BY DEF Or
<1> HIDE DEF status
<1> QED
  BY <1>2, <1>3, <1>4 DEF Assess, UpdateRow, status

\* The form that a write of an update finding has.
UpdateStep ==
  /\ \E w \in UpdateIds, row \in Maybe(UpdateRow) :
       /\ updates' = [updates EXCEPT ![w] = row]
       /\ told' \in {told \cup {w}, told \ {w}}
       /\ row # None =>
            /\ Stored(software, row.software)
            /\ software[row.software].org = row.org
            /\ software[row.software].device = row.device
            /\ w \notin told' => (row.available <=> row.status = "OUTDATED")
  /\ UNCHANGED <<orgs, depts, users, devices, software, moved>>

LEMMA UpdateWrites ==
  ASSUME AssetInv, NEW r \in Requests, InsertUpdate(r) \/ ChangeUpdate(r) \/ DeleteUpdate(r)
  PROVE  UpdateStep
<1> DEFINE c == requests[r].call
           row == requests[r].row
<1>0. TablesTyped /\ Assets
  BY DEF AssetInv, Types, TablesTyped
<1>1. CASE InsertUpdate(r)
  <2>1. Written(r) /\ c.op = "create update" /\ c \in Call /\ Remembers(r)
    BY <1>1, WriterKnown DEF InsertUpdate, UpdateWrite, Write
  <2>2. c.id \in SoftwareIds /\ c.body \in UpdateBody
    BY <2>1, CallTypes
  <2>3. /\ Stored(software, c.id) /\ row.version \in Maybe(Versions)
        /\ row.org = software[c.id].org /\ row.device = software[c.id].device
    BY <2>1 DEF Remembers
  <2>4. software[c.id].org \in OrgIds /\ software[c.id].device \in DeviceIds
    BY <1>0, <2>2, <2>3 DEF TablesTyped, Table, Maybe, Stored, SoftwareRow
  <2> DEFINE home == [org |-> row.org, device |-> row.device, software |-> c.id]
             new == Assess(c, home, Or(c.body.installed, row.version), c.body.latest)
  <2>5. /\ Or(c.body.installed, row.version) \in Maybe(Versions)
        /\ c.body.latest \in Maybe(Versions)
    BY <2>2, <2>3 DEF UpdateBody, Or
  <2>6. /\ new \in UpdateRow
        /\ new.org = row.org /\ new.device = row.device /\ new.software = c.id
        /\ c.body.status = None => (new.available <=> new.status = "OUTDATED")
    BY <2>2, <2>3, <2>4, <2>5, AssessSound
  <2>7. PICK w \in UpdateIds : updates' = [updates EXCEPT ![w] = new] /\ told' = Told(c, w)
    BY <1>1 DEF InsertUpdate
  <2> HIDE DEF new, c, row
  <2>8. /\ told' \in {told \cup {w}, told \ {w}}
        /\ w \notin told' => c.body.status = None
    BY <2>7 DEF Told
  <2> QED
    BY <1>1, <2>3, <2>6, <2>7, <2>8 DEF InsertUpdate, UpdateWrite, UpdateStep, Maybe
<1>2. CASE ChangeUpdate(r)
  <2>1. Written(r) /\ c.op = "update update" /\ c \in Call /\ Remembers(r)
        /\ Stored(updates, c.id)
    BY <1>2, WriterKnown DEF ChangeUpdate, UpdateWrite, Write, Accepted, UpdateConstraints
  <2>2. c.id \in UpdateIds /\ c.body \in UpdateBody
    BY <2>1, CallTypes
  <2>3. row.installed \in Maybe(Versions) /\ row.latest \in Maybe(Versions)
    BY <2>1 DEF Remembers
  <2> DEFINE home == updates[c.id]
             new == Assess(c, home, Or(c.body.installed, row.installed),
                           Or(c.body.latest, row.latest))
  <2>4. home.org \in OrgIds /\ home.device \in DeviceIds /\ home.software \in SoftwareIds
    BY <1>0, <2>1, <2>2 DEF TablesTyped, Table, Maybe, Stored, UpdateRow
  <2>5. /\ Or(c.body.installed, row.installed) \in Maybe(Versions)
        /\ Or(c.body.latest, row.latest) \in Maybe(Versions)
    BY <2>2, <2>3 DEF UpdateBody, Or
  <2>6. /\ new \in UpdateRow
        /\ new.org = home.org /\ new.device = home.device /\ new.software = home.software
        /\ c.body.status = None => (new.available <=> new.status = "OUTDATED")
    BY <2>2, <2>4, <2>5, AssessSound
  <2>7. updates' = [updates EXCEPT ![c.id] = new] /\ told' = Told(c, c.id)
    BY <1>0, <1>2, <2>2 DEF ChangeUpdate, TablesTyped, Table
  <2>8. /\ Stored(software, home.software)
        /\ software[home.software].org = home.org
        /\ software[home.software].device = home.device
    BY <1>0, <2>1, <2>2 DEF Assets, Attached
  <2> HIDE DEF new, home, c, row
  <2>9. /\ told' \in {told \cup {c.id}, told \ {c.id}}
        /\ c.id \notin told' => c.body.status = None
    BY <2>7 DEF Told
  <2> QED
    BY <1>2, <2>2, <2>6, <2>7, <2>8, <2>9 DEF ChangeUpdate, UpdateWrite, UpdateStep, Maybe
<1>3. CASE DeleteUpdate(r)
  <2>1. c.id \in UpdateIds
    BY <1>3, WriterKnown, CallTypes DEF DeleteUpdate, UpdateWrite, Write
  <2> QED
    BY <1>3, <2>1 DEF DeleteUpdate, UpdateWrite, UpdateStep, Maybe, Id
<1> QED BY <1>1, <1>2, <1>3

LEMMA UpdatesKeepAssets ==
  ASSUME AssetInv, UpdateStep
  PROVE  TablesTyped' /\ RowsStay /\ Assets'
<1>0. TablesTyped /\ Assets
  BY DEF AssetInv, Types, TablesTyped
<1>1. PICK w \in UpdateIds, row \in Maybe(UpdateRow) :
        /\ updates' = [updates EXCEPT ![w] = row]
        /\ told' \in {told \cup {w}, told \ {w}}
        /\ row # None =>
             /\ Stored(software, row.software)
             /\ software[row.software].org = row.org
             /\ software[row.software].device = row.device
             /\ w \notin told' => (row.available <=> row.status = "OUTDATED")
  BY DEF UpdateStep
<1>2. TablesTyped' /\ RowsStay
  BY <1>0, <1>1 DEF UpdateStep, TablesTyped, RowsStay, Table, Maybe, Stored
<1>3. ASSUME NEW i \in SoftwareIds PROVE Placed(i)'
  BY <1>0 DEF Assets, Placed, UpdateStep, Stored
<1>4. ASSUME NEW v \in UpdateIds PROVE Attached(v)' /\ Agrees(v)'
  <2>1. CASE v = w
    BY <1>0, <1>1, <2>1 DEF Attached, Agrees, UpdateStep, Stored, TablesTyped, Table
  <2>2. CASE v # w
    <3>1. updates'[v] = updates[v] /\ (v \in told' <=> v \in told) /\ software' = software
      BY <1>0, <1>1, <2>2 DEF UpdateStep, TablesTyped, Table
    <3> QED BY <1>0, <3>1 DEF Assets, Attached, Agrees, Stored
  <2> QED BY <2>1, <2>2
<1> QED BY <1>2, <1>3, <1>4 DEF Assets

-----------------------------------------------------------------------------
\* What a request remembers survives the steps of others.
LEMMA OthersRemember ==
  ASSUME AssetInv, RowsStay, NEW q \in Requests, requests[q] # None,
         requests'[q] = requests[q]
  PROVE  Remembers(q)'
<1> DEFINE c == requests[q].call
<1>1. c \in Call /\ Remembers(q)
  BY DEF AssetInv, Types, Remembered, Maybe, Held
<1>2. TablesTyped
  BY DEF AssetInv, Types, TablesTyped
<1>3. c.op \in {"update organization", "suspend organization"} => Stored(orgs', c.id)
  BY <1>1, CallTypes DEF Remembers, RowsStay
<1>4. c.op \in {"update user", "deactivate user"} => Stored(users', c.id)
  BY <1>1, CallTypes DEF Remembers, RowsStay
<1>5. c.op \in {"update device", "retire device"} => Stored(devices', c.id)
  BY <1>1, CallTypes DEF Remembers, RowsStay
<1>6. c.op \in {"update software", "remove software", "create update"} =>
        /\ Stored(software', c.id) /\ software'[c.id].org = software[c.id].org
        /\ software'[c.id].device = software[c.id].device
  BY <1>1, CallTypes DEF Remembers, RowsStay
<1>7. c.op = "create software" /\ requests[q].at > 2 =>
        /\ Stored(devices', c.body.device)
        /\ devices'[c.body.device].org = c.body.org \/ c.body.device \in moved'
  <2> SUFFICES ASSUME c.op = "create software", requests[q].at > 2
               PROVE  /\ Stored(devices', c.body.device)
                      /\ devices'[c.body.device].org = c.body.org \/ c.body.device \in moved'
    OBVIOUS
  <2>1. c.body.device \in DeviceIds
    BY <1>1, CallTypes DEF NewSoftware
  <2> QED BY <1>1, <2>1 DEF Remembers, RowsStay
<1> QED
  BY <1>1, <1>3, <1>4, <1>5, <1>6, <1>7 DEF Remembers

\* Requests begin, go on and end; the tables stay.
Between == UNCHANGED <<scene, tables, moved, told>>
LEMMA BetweenKeepsRows ==
  ASSUME AssetInv, Between
  PROVE  TablesTyped' /\ RowsStay /\ Assets'
<1>1. TablesTyped' /\ RowsStay
  BY DEF AssetInv, Types, TablesTyped, RowsStay, Between, tables, Stored
<1>2. Assets'
  BY DEF AssetInv, Assets, Placed, Attached, Agrees, Between, tables, Stored
<1> QED BY <1>1, <1>2

LEMMA EndKeepsInv ==
  ASSUME AssetInv, TablesTyped', RowsStay, Assets', scene' = scene, NEW r \in Requests,
         requests' = [requests EXCEPT ![r] = None]
  PROVE  AssetInv'
<1>1. requests' \in [Requests -> Maybe(Held)]
  BY DEF AssetInv, Types, Maybe
<1>2. \A q \in Requests : requests'[q] # None => requests'[q] = requests[q]
  BY DEF AssetInv, Types
<1>3. Types'
  BY <1>1, <1>2 DEF AssetInv, Types, TablesTyped
<1>4. Remembered'
  BY <1>2, OthersRemember DEF Remembered
<1> QED BY <1>3, <1>4 DEF AssetInv

LEMMA ReceiveKeepsInv ==
  ASSUME AssetInv, NEW r \in Requests, NEW c \in Calls(scene), Receive(r, c)
  PROVE  AssetInv'
<1>1. Between
  BY DEF Receive, Between
<1>2. TablesTyped /\ TablesTyped' /\ RowsStay /\ Assets'
  BY <1>1, BetweenKeepsRows DEF AssetInv, Types, TablesTyped
<1>3. c \in Call
  BY InventoryAssumption DEF AssetInv, Types
<1> DEFINE new == [call |-> c, row |-> Fetched(c), at |-> 2]
<1>4. requests' = [requests EXCEPT ![r] = new] /\ Check(c, None, 1)
  BY DEF Receive
<1>5. Fetched(c) \in Maybe(Rows)
  <2>1. c.op = "update department" => depts[c.id] \in Maybe(Rows)
    BY <1>2, <1>3, CallTypes DEF TablesTyped, Table, Maybe, Rows
  <2>2. c.op = "update user" => users[c.id] \in Maybe(Rows)
    BY <1>2, <1>3, CallTypes DEF TablesTyped, Table, Maybe, Rows
  <2>3. c.op = "update device" => devices[c.id] \in Maybe(Rows)
    BY <1>2, <1>3, CallTypes DEF TablesTyped, Table, Maybe, Rows
  <2>4. c.op \in {"update software", "create update"} => software[c.id] \in Maybe(Rows)
    BY <1>2, <1>3, CallTypes DEF TablesTyped, Table, Maybe, Rows
  <2>5. c.op = "update update" => updates[c.id] \in Maybe(Rows)
    BY <1>2, <1>3, CallTypes DEF TablesTyped, Table, Maybe, Rows
  <2> QED BY <2>1, <2>2, <2>3, <2>4, <2>5 DEF Fetched, Maybe
<1>6. new \in Held /\ requests'[r] = new
  BY <1>3, <1>4, <1>5 DEF Held, AssetInv, Types
<1>7. Remembers(r)'
  <2>1. /\ c.op = "update organization" => Stored(orgs, c.id)
        /\ c.op = "suspend organization" => Stored(orgs, c.id)
    BY <1>4 DEF Check, UpdateOrganization, SuspendOrganization
  <2>2. /\ c.op = "update user" => Stored(users, c.id)
        /\ c.op = "deactivate user" => Stored(users, c.id)
    BY <1>4 DEF Check, UpdateUser, DeactivateUser, Lookup
  <2>3. /\ c.op = "update device" => Stored(devices, c.id)
        /\ c.op = "retire device" => Stored(devices, c.id)
    BY <1>4 DEF Check, UpdateDevice, RetireDevice, Lookup
  <2>4. /\ c.op = "update software" => Stored(software, c.id)
        /\ c.op = "remove software" => Stored(software, c.id)
        /\ c.op = "create update" => Stored(software, c.id)
    BY <1>4 DEF Check, UpdateSoftware, RemoveSoftware, CreateUpdate, Lookup
  <2>5. c.op = "create update" =>
          /\ new.row.org = software[c.id].org /\ new.row.device = software[c.id].device
          /\ new.row.version \in Maybe(Versions)
    BY <1>2, <1>3, <2>4, CallTypes
    DEF Fetched, TablesTyped, Table, Maybe, Stored, SoftwareRow
  <2>6. c.op = "update update" =>
          new.row.installed \in Maybe(Versions) /\ new.row.latest \in Maybe(Versions)
    <3>1. c.op = "update update" => Stored(updates, c.id)
      BY <1>4 DEF Check, UpdateUpdate, Lookup
    <3> QED
      BY <1>2, <1>3, <3>1, CallTypes DEF Fetched, TablesTyped, Table, Maybe, Stored, UpdateRow
  <2> HIDE DEF new
  <2>7. requests'[r].call = c /\ requests'[r].row = new.row /\ ~(requests'[r].at > 2)
    BY <1>6 DEF new
  <2>8. /\ orgs' = orgs /\ users' = users /\ devices' = devices
        /\ software' = software /\ moved' = moved
    BY <1>1 DEF Between, tables
  <2> QED
    BY <2>1, <2>2, <2>3, <2>4, <2>5, <2>6, <2>7, <2>8 DEF Remembers, Stored
<1> HIDE DEF new
<1>8. Types'
  BY <1>1, <1>2, <1>4, <1>6 DEF AssetInv, Types, TablesTyped, Between, Maybe, new
<1>9. ASSUME NEW q \in Requests, requests'[q] # None PROVE Remembers(q)'
  <2>1. q # r => requests'[q] = requests[q]
    BY <1>4 DEF AssetInv, Types
  <2> QED BY <1>2, <1>7, <1>9, <2>1, OthersRemember
<1> QED BY <1>2, <1>8, <1>9 DEF AssetInv, Remembered

LEMMA PassKeepsInv ==
  ASSUME AssetInv, NEW r \in Requests, Pass(r)
  PROVE  AssetInv'
<1> DEFINE old == requests[r]
           new == [old EXCEPT !.at = @ + 1]
<1>1. Between
  BY DEF Pass, Between
<1>2. TablesTyped' /\ RowsStay /\ Assets'
  BY <1>1, BetweenKeepsRows
<1>3. old \in Held /\ Remembers(r) /\ old # None
  BY DEF AssetInv, Types, Remembered, Pass, Reading, Maybe
<1>4. old.at <= 4 /\ Check(old.call, old.row, old.at)
  <2>1. Reads(old.call.op) \in 1 .. 4
    BY DEF Reads
  <2>2. old.at \in 2 .. 5 /\ old.at <= Reads(old.call.op) /\ Check(old.call, old.row, old.at)
    BY <1>3 DEF Pass, Reading, Passes, Held
  <2> QED BY <2>1, <2>2
<1>5. requests' = [requests EXCEPT ![r] = new] /\ requests'[r] = new
  BY DEF Pass, AssetInv, Types
<1>6. new \in Held /\ new.call = old.call /\ new.row = old.row /\ new.at = old.at + 1
  BY <1>3, <1>4 DEF Held
<1>7. old.call.op = "create software" /\ old.at = 2 =>
        /\ Stored(devices, old.call.body.device)
        /\ devices[old.call.body.device].org = old.call.body.org
  BY <1>4 DEF Check, CreateSoftware, Belongs
<1> HIDE DEF new, old
<1>8. Remembers(r)'
  <2>1. old.at \in 2 .. 5 /\ (new.at > 2 => old.at > 2 \/ old.at = 2)
    BY <1>3 DEF Held
  <2>2. /\ requests'[r].call = old.call /\ requests'[r].row = old.row
        /\ requests'[r].at > 2 => old.at > 2 \/ old.at = 2
    BY <1>5, <1>6, <2>1
  <2>3. /\ orgs' = orgs /\ users' = users /\ devices' = devices
        /\ software' = software /\ moved' = moved
    BY <1>1 DEF Between, tables
  <2>4. requests[r] = old
    BY DEF old
  <2> QED
    BY <1>3, <1>7, <2>2, <2>3, <2>4 DEF Remembers, Stored
<1>9. Types'
  BY <1>1, <1>2, <1>3, <1>5, <1>6 DEF AssetInv, Types, TablesTyped, Between, Maybe, old
<1>10. ASSUME NEW q \in Requests, requests'[q] # None PROVE Remembers(q)'
  <2>1. q # r => requests'[q] = requests[q]
    BY <1>5 DEF AssetInv, Types
  <2> QED BY <1>2, <1>8, <1>10, <2>1, OthersRemember
<1> QED BY <1>2, <1>9, <1>10 DEF AssetInv, Remembered

LEMMA WritesKeepInv ==
  ASSUME AssetInv, NEW r \in Requests, DirectoryWrite(r) \/ AssetWrite(r)
  PROVE  AssetInv'
<1>1. OrgStep \/ DeptStep \/ UserStep \/ DeviceStep \/ SoftwareStep(r) \/ UpdateStep
  BY OrgWrites, DeptWrites, UserWrites, DeviceWrites, SoftwareWrites, UpdateWrites
  DEF DirectoryWrite, AssetWrite
<1>2. TablesTyped
  BY DEF AssetInv, Types, TablesTyped
<1>3. TablesTyped' /\ RowsStay /\ Assets'
  BY <1>1, <1>2, FormsKeepRows, FormsKeepAssets, UpdatesKeepAssets
<1>4. scene' = scene /\ requests' = [requests EXCEPT ![r] = None]
  <2>1. CASE DirectoryWrite(r)
    BY <2>1 DEF DirectoryWrite, InsertOrganization, ChangeOrganization, Suspend,
       InsertDepartment, ChangeDepartment, DeleteDepartment, InsertUser, ChangeUser,
       Deactivate, OrgWrite, DeptWrite, UserWrite, Write
  <2>2. CASE AssetWrite(r)
    BY <2>2 DEF AssetWrite, InsertDevice, ChangeDevice, Retire, InsertSoftware,
       ChangeSoftware, MarkRemoved, InsertUpdate, ChangeUpdate, DeleteUpdate,
       DeviceWrite, SoftwareWrite, UpdateWrite, Write
  <2> QED BY <2>1, <2>2
<1> QED BY <1>3, <1>4, EndKeepsInv

LEMMA NextKeepsAssets == AssetInv /\ [Next]_vars => AssetInv'
<1> SUFFICES ASSUME AssetInv, [Next]_vars PROVE AssetInv'
  OBVIOUS
<1>1. CASE UNCHANGED vars
  BY <1>1 DEF vars, tables, AssetInv, Types, Remembered, Remembers, Assets, Placed,
     Attached, Agrees, Stored
<1>2. ASSUME NEW r \in Requests, NEW c \in Calls(scene), Receive(r, c) PROVE AssetInv'
  BY <1>2, ReceiveKeepsInv
<1>3. ASSUME NEW r \in Requests, Pass(r) PROVE AssetInv'
  BY <1>3, PassKeepsInv
<1>4. ASSUME NEW r \in Requests, Refuse(r) \/ Reject(r) PROVE AssetInv'
  <2>1. Between /\ requests' = [requests EXCEPT ![r] = None] /\ scene' = scene
    BY <1>4 DEF Refuse, Reject, Between
  <2> QED BY <2>1, BetweenKeepsRows, EndKeepsInv
<1>5. ASSUME NEW r \in Requests, DirectoryWrite(r) \/ AssetWrite(r) PROVE AssetInv'
  BY <1>5, WritesKeepInv
<1> QED BY <1>1, <1>2, <1>3, <1>4, <1>5 DEF Next

-----------------------------------------------------------------------------
(* What refers to what, across organizations *)

\* A department that a request has looked up is still of this organization, or it
\* was deleted, which the database finds out; an assignee is still of this
\* organization, or has moved.
DeptKept(d, org) ==
  IF Stored(depts, d) THEN depts[d].org = org ELSE d \in gone
AssigneeKept(u, org) == Stored(users, u) /\ (users[u].org = org \/ u \in moved)

\* What a request in flight has looked up, as far as it is true until the write.
Looked(r) ==
  LET c == requests[r].call  row == requests[r].row  at == requests[r].at IN
  /\ c.op = "create user" =>
       /\ at > 2 => Stored(orgs, c.body.org)
       /\ at > 3 => DeptKept(c.body.dept, c.body.org)
  /\ c.op = "update user" =>
       /\ row.org \in OrgIds
       /\ row.org = users[c.id].org \/ c.id \in moved
       /\ at > 3 /\ c.body.org # None => c.body.dept # None /\ Stored(orgs, c.body.org)
       /\ at > 4 /\ c.body.dept # None => DeptKept(c.body.dept, Home(c, row))
  /\ c.op = "create device" /\ at > 3 /\ c.body.assignee # None =>
       AssigneeKept(c.body.assignee, c.body.org)
  /\ c.op = "update device" =>
       /\ row.org \in OrgIds
       /\ row.org = devices[c.id].org \/ c.id \in moved
       /\ at > 4 /\ c.body.assignee # None =>
            AssigneeKept(c.body.assignee, Home(c, row))
  /\ c.op = "update software" => row.device = software[c.id].device

\* Users are in a department of their organization, devices with an assignee of
\* theirs, up to later moves, and software is on a device once.
UserPlaced(u) == Stored(users, u) =>
  /\ Stored(orgs, users[u].org) /\ Stored(depts, users[u].dept)
  /\ Alone(scene) \/ u \notin moved => depts[users[u].dept].org = users[u].org
DevicePlaced(d) == Stored(devices, d) /\ devices[d].assignee # None =>
  /\ Stored(users, devices[d].assignee)
  /\ {d, devices[d].assignee} \cap moved = {} =>
       users[devices[d].assignee].org = devices[d].org

\* Served alone, a request works with the row as it is, and all that it has checked
\* still holds.
Vetted(c, row, at) ==
  /\ row = Fetched(c) /\ Check(c, None, 1)
  /\ \A k \in 2 .. at - 1 : Check(c, row, k)
OneAtATime ==
  /\ \A r, q \in Requests : requests[r] # None /\ requests[q] # None => r = q
  /\ \A r \in Requests : requests[r] # None =>
       Vetted(requests[r].call, requests[r].row, requests[r].at)

RegisterRows ==
  /\ gone \subseteq DeptIds \cup UpdateIds
  /\ \A u \in UserIds : UserPlaced(u)
  /\ \A d \in DeviceIds : DevicePlaced(d)
  /\ SoftwareUnique /\ HostsUnique /\ DepartmentNamesUnique
RegisterInv ==
  /\ RegisterRows
  /\ \A r \in Requests : requests[r] # None => Looked(r)
  /\ Alone(scene) => OneAtATime

Inv == AssetInv /\ RegisterInv

LEMMA InitRegister == Init => RegisterInv
<1> SUFFICES ASSUME Init PROVE RegisterInv
  OBVIOUS
<1>0. /\ orgs \in Table(OrgIds, OrgRow) /\ depts \in Table(DeptIds, DeptRow)
      /\ users \in Table(UserIds, UserRow) /\ devices \in Table(DeviceIds, DeviceRow)
  BY SeedAssumption DEF Init
<1>1. gone \subseteq DeptIds \cup UpdateIds /\ \A r \in Requests : requests[r] = None
  BY DEF Init
<1>2. ASSUME NEW u \in UserIds PROVE UserPlaced(u)
  BY SeedAssumption DEF Init, UserPlaced, Stored
<1>3. ASSUME NEW d \in DeviceIds PROVE DevicePlaced(d)
  BY SeedAssumption DEF Init, DevicePlaced, Stored
<1>4. SoftwareUnique
  BY SeedAssumption DEF Init, SoftwareUnique, OnDevice, Stored
<1>5. HostsUnique
  BY SeedAssumption DEF Init, HostsUnique, Stored
<1>6. DepartmentNamesUnique
  <2> SUFFICES ASSUME NEW d \in DeptIds, Stored(depts, d), NEW e \in DOMAIN depts,
                      Stored(depts, e), depts[e].org = depts[d].org,
                      depts[e].name = depts[d].name
               PROVE  e = d
    BY DEF DepartmentNamesUnique, UnusedIn
  <2>1. e \in DeptIds /\ depts[e] \in DeptRow /\ depts[d] \in DeptRow
    BY <1>0 DEF Table, Maybe, Stored
  <2>2. depts[e] = depts[d]
    BY <2>1 DEF DeptRow
  <2> QED
    BY <2>1, <2>2, SeedAssumption DEF Init, Stored
<1>7. OneAtATime
  BY <1>1 DEF OneAtATime
<1> QED
  BY <1>1, <1>2, <1>3, <1>4, <1>5, <1>6, <1>7 DEF RegisterInv, RegisterRows

-----------------------------------------------------------------------------
\* What a step leaves of the rows that requests have looked up.
Kept ==
  /\ RowsStay
  /\ \A u \in UserIds : Stored(users, u) => users'[u].org = users[u].org \/ u \in moved'
  /\ \A d \in DeptIds : Stored(depts, d) =>
       IF Stored(depts', d) THEN depts'[d].org = depts[d].org ELSE d \in gone'
  /\ \A d \in gone : ~Stored(depts, d) => ~Stored(depts', d)
  /\ gone \subseteq gone'

\* So what a request has looked up stays looked up during the steps of others.
LEMMA OthersLooked ==
  ASSUME AssetInv, Kept, NEW q \in Requests, requests[q] # None, Looked(q),
         requests'[q] = requests[q]
  PROVE  Looked(q)'
<1> DEFINE c == requests[q].call
           row == requests[q].row
<1>1. c \in Call /\ Remembers(q)
  BY DEF AssetInv, Types, Remembered, Maybe, Held
<1>2. ASSUME NEW d \in DeptIds, NEW org, DeptKept(d, org)
      PROVE  IF Stored(depts', d) THEN depts'[d].org = org ELSE d \in gone'
  BY <1>2 DEF DeptKept, Kept
<1>3. ASSUME NEW u \in UserIds, NEW org, AssigneeKept(u, org)
      PROVE  Stored(users', u) /\ (users'[u].org = org \/ u \in moved')
  BY <1>3 DEF AssigneeKept, Kept, RowsStay
<1>4. \A o \in OrgIds : Stored(orgs, o) => Stored(orgs', o)
  BY DEF Kept, RowsStay
<1> DEFINE at == requests[q].at
           Kept2(d, org) == IF Stored(depts', d) THEN depts'[d].org = org ELSE d \in gone'
           Kept3(u, org) == Stored(users', u) /\ (users'[u].org = org \/ u \in moved')
<1>5. c.op = "create user" =>
        /\ at > 2 => Stored(orgs', c.body.org)
        /\ at > 3 => Kept2(c.body.dept, c.body.org)
  BY <1>1, <1>2, <1>4, CallTypes DEF Looked, NewUser
<1>6. c.op = "update user" =>
        /\ row.org \in OrgIds
        /\ row.org = users'[c.id].org \/ c.id \in moved'
        /\ at > 3 /\ c.body.org # None => c.body.dept # None /\ Stored(orgs', c.body.org)
        /\ at > 4 /\ c.body.dept # None => Kept2(c.body.dept, Home(c, row))
  <2> SUFFICES ASSUME c.op = "update user"
               PROVE
        /\ row.org \in OrgIds
        /\ row.org = users'[c.id].org \/ c.id \in moved'
        /\ at > 3 /\ c.body.org # None => c.body.dept # None /\ Stored(orgs', c.body.org)
        /\ at > 4 /\ c.body.dept # None => Kept2(c.body.dept, Home(c, row))
    OBVIOUS
  <2>1. c.id \in UserIds /\ c.body.org \in Maybe(OrgIds) /\ c.body.dept \in Maybe(DeptIds)
    BY <1>1, CallTypes DEF UserChange
  <2>2. row.org = users'[c.id].org \/ c.id \in moved'
    BY <1>1, <2>1 DEF Looked, Kept, RowsStay, Remembers
  <2> QED BY <1>2, <1>4, <2>1, <2>2 DEF Looked, Maybe
<1>7. c.op = "create device" /\ at > 3 /\ c.body.assignee # None =>
        Kept3(c.body.assignee, c.body.org)
  BY <1>1, <1>3, CallTypes DEF Looked, NewDevice, Maybe
<1>8. c.op = "update device" =>
        /\ row.org \in OrgIds
        /\ row.org = devices'[c.id].org \/ c.id \in moved'
        /\ at > 4 /\ c.body.assignee # None => Kept3(c.body.assignee, Home(c, row))
  <2> SUFFICES ASSUME c.op = "update device"
               PROVE
        /\ row.org \in OrgIds
        /\ row.org = devices'[c.id].org \/ c.id \in moved'
        /\ at > 4 /\ c.body.assignee # None => Kept3(c.body.assignee, Home(c, row))
    OBVIOUS
  <2>1. c.id \in DeviceIds /\ c.body.assignee \in Maybe(UserIds)
    BY <1>1, CallTypes DEF DeviceChange
  <2>2. row.org = devices'[c.id].org \/ c.id \in moved'
    BY <1>1, <2>1 DEF Looked, Kept, RowsStay, Remembers
  <2> QED BY <1>3, <2>1, <2>2 DEF Looked, Maybe
<1>9. c.op = "update software" => row.device = software'[c.id].device
  <2> SUFFICES ASSUME c.op = "update software" PROVE row.device = software'[c.id].device
    OBVIOUS
  <2>1. c.id \in SoftwareIds
    BY <1>1, CallTypes
  <2> QED BY <1>1, <2>1 DEF Looked, Kept, RowsStay, Remembers
<1> QED
  BY <1>5, <1>6, <1>7, <1>8, <1>9 DEF Looked, DeptKept, AssigneeKept, Home

\* What a request looks up stays true while nothing is written.
LEMMA NewLooked ==
  ASSUME Inv, NEW r \in Requests, NEW c \in Calls(scene), Receive(r, c)
  PROVE  Looked(r)'
<1> DEFINE row == Fetched(c)
<1>1. requests'[r] = [call |-> c, row |-> row, at |-> 2] /\ Check(c, None, 1)
  BY DEF Receive, Inv, AssetInv, Types
<1>2. c \in Call /\ TablesTyped
  BY InventoryAssumption DEF Inv, AssetInv, Types, TablesTyped
<1>3. UNCHANGED <<users, devices, software, moved>>
  BY DEF Receive, tables
<1>4. c.op = "update user" => row.org \in OrgIds /\ row.org = users[c.id].org
  <2> SUFFICES ASSUME c.op = "update user" PROVE row.org \in OrgIds /\ row.org = users[c.id].org
    OBVIOUS
  <2>1. c.id \in UserIds /\ row = users[c.id] /\ Stored(users, c.id)
    BY <1>1, <1>2, CallTypes DEF Fetched, Check, UpdateUser, Lookup
  <2> QED BY <1>2, <2>1 DEF TablesTyped, Table, Maybe, Stored, UserRow
<1>5. c.op = "update device" => row.org \in OrgIds /\ row.org = devices[c.id].org
  <2> SUFFICES ASSUME c.op = "update device" PROVE row.org \in OrgIds /\ row.org = devices[c.id].org
    OBVIOUS
  <2>1. c.id \in DeviceIds /\ row = devices[c.id] /\ Stored(devices, c.id)
    BY <1>1, <1>2, CallTypes DEF Fetched, Check, UpdateDevice, Lookup
  <2> QED BY <1>2, <2>1 DEF TablesTyped, Table, Maybe, Stored, DeviceRow
<1>6. c.op = "update software" => row.device = software[c.id].device
  BY DEF Fetched
<1> HIDE DEF row
<1>7. /\ requests'[r].call = c /\ requests'[r].row = row
      /\ ~(requests'[r].at > 2) /\ ~(requests'[r].at > 3) /\ ~(requests'[r].at > 4)
  BY <1>1
<1> QED
  BY <1>3, <1>4, <1>5, <1>6, <1>7 DEF Looked

LEMMA PassedLooked ==
  ASSUME Inv, NEW r \in Requests, Pass(r)
  PROVE  Looked(r)'
<1> DEFINE c == requests[r].call
           row == requests[r].row
           at == requests[r].at
<1>1. /\ requests'[r] = [requests[r] EXCEPT !.at = @ + 1]
      /\ Check(c, row, at) /\ requests[r] \in Held /\ Looked(r)
  BY DEF Pass, Reading, Passes, Inv, AssetInv, Types, RegisterInv, Maybe
<1>2. requests'[r].call = c /\ requests'[r].row = row /\ requests'[r].at = at + 1
  BY <1>1 DEF Held
<1>3. at \in 2 .. 5 /\ c \in Call
  BY <1>1 DEF Held
<1>4. UNCHANGED <<orgs, depts, users, devices, software, moved, gone>>
  BY DEF Pass, tables
<1>5. c.op = "create user" =>
        /\ at = 2 => Stored(orgs, c.body.org)
        /\ at = 3 => DeptKept(c.body.dept, c.body.org)
  BY <1>1 DEF Check, CreateUser, Belongs, DeptKept
<1>6. c.op = "update user" =>
        /\ at = 3 /\ c.body.org # None => c.body.dept # None /\ Stored(orgs, c.body.org)
        /\ at = 4 /\ c.body.dept # None => DeptKept(c.body.dept, Home(c, row))
  BY <1>1 DEF Check, UpdateUser, Belongs, DeptKept
<1>7. c.op = "create device" /\ at = 3 /\ c.body.assignee # None =>
        AssigneeKept(c.body.assignee, c.body.org)
  BY <1>1 DEF Check, CreateDevice, Belongs, AssigneeKept
<1>8. c.op = "update device" /\ at = 4 /\ c.body.assignee # None =>
        AssigneeKept(c.body.assignee, Home(c, row))
  BY <1>1 DEF Check, UpdateDevice, Belongs, AssigneeKept
<1>9. /\ at + 1 > 2
      /\ at + 1 > 3 => at > 3 \/ at = 3
      /\ at + 1 > 4 => at > 4 \/ at = 4
      /\ at > 2 \/ at = 2
  BY <1>3
<1>10. Looked(r)
  BY <1>1
<1> HIDE DEF c, row, at
<1> DEFINE Goal ==
  /\ c.op = "create user" =>
       /\ at + 1 > 2 => Stored(orgs, c.body.org)
       /\ at + 1 > 3 => DeptKept(c.body.dept, c.body.org)
  /\ c.op = "update user" =>
       /\ row.org \in OrgIds
       /\ row.org = users[c.id].org \/ c.id \in moved
       /\ at + 1 > 3 /\ c.body.org # None => c.body.dept # None /\ Stored(orgs, c.body.org)
       /\ at + 1 > 4 /\ c.body.dept # None => DeptKept(c.body.dept, Home(c, row))
  /\ c.op = "create device" /\ at + 1 > 3 /\ c.body.assignee # None =>
       AssigneeKept(c.body.assignee, c.body.org)
  /\ c.op = "update device" =>
       /\ row.org \in OrgIds
       /\ row.org = devices[c.id].org \/ c.id \in moved
       /\ at + 1 > 4 /\ c.body.assignee # None =>
            AssigneeKept(c.body.assignee, Home(c, row))
  /\ c.op = "update software" => row.device = software[c.id].device
<1>11. Goal
  BY <1>5, <1>6, <1>7, <1>8, <1>9, <1>10 DEF Looked, c, row, at
<1> QED
  BY <1>2, <1>4, <1>11 DEF Looked, Home, DeptKept, AssigneeKept, Stored

-----------------------------------------------------------------------------
\* A request that writes has made all its reads; served alone, it is the only
\* one, works with the row as it is, and what it has checked still holds.
LEMMA WriterLooked ==
  ASSUME Inv, NEW r \in Requests, Written(r)
  PROVE  /\ Looked(r) /\ Remembers(r) /\ requests[r].call \in Call
         /\ requests[r].at > Reads(requests[r].call.op) /\ requests[r].at \in 2 .. 5
  BY WriterKnown DEF Inv, RegisterInv, RegisterRows, Written, Held
LEMMA WriterVetted ==
  ASSUME Inv, NEW r \in Requests, Written(r), Alone(scene)
  PROVE  LET c == requests[r].call  row == requests[r].row IN
         /\ row = Fetched(c) /\ Check(c, None, 1)
         /\ \A k \in 2 .. Reads(c.op) : Check(c, row, k)
         /\ \A q \in Requests : requests[q] # None => q = r
<1> DEFINE c == requests[r].call
           row == requests[r].row
<1>1. requests[r].at > Reads(c.op) /\ requests[r].at \in 2 .. 5 /\ requests[r] # None
  BY WriterLooked DEF Written
<1>2. Vetted(c, row, requests[r].at) /\ \A q \in Requests : requests[q] # None => q = r
  BY <1>1 DEF Inv, RegisterInv, RegisterRows, OneAtATime
<1>3. Reads(c.op) \in 1 .. 4
  BY DEF Reads
<1>4. \A k \in 2 .. Reads(c.op) : k \in 2 .. requests[r].at - 1
  BY <1>1, <1>3
<1> QED BY <1>2, <1>4 DEF Vetted

LEMMA TablesOfInv == ASSUME Inv PROVE TablesTyped
  BY DEF Inv, AssetInv, Types, TablesTyped

\* The forms of the writes, now with what the request had looked up.
OrgForm ==
  /\ OrgStep /\ UNCHANGED gone
DeptForm(d, row) ==
  /\ depts' = [depts EXCEPT ![d] = row]
  /\ \/ row \in DeptRow /\ ~Stored(depts, d) /\ d \notin gone /\ gone' = gone
     \/ row \in DeptRow /\ Stored(depts, d) /\ row.org = depts[d].org /\ gone' = gone
     \/ /\ row = None /\ gone' = gone \cup {d}
        /\ \A u \in UserIds : Stored(users, u) => users[u].dept # d
  /\ row # None /\ Alone(scene) => UnusedIn(depts, row.org, "name", row.name, d)
  /\ UNCHANGED <<orgs, users, devices, software, updates, moved, told>>
UserForm(u, row) ==
  /\ users' = [users EXCEPT ![u] = row] /\ moved' \in {moved, moved \cup {u}}
  /\ Stored(users, u) => row.org = users[u].org \/ u \in moved'
  /\ Stored(orgs, row.org) /\ Stored(depts, row.dept)
  /\ Alone(scene) \/ u \notin moved' => depts[row.dept].org = row.org
  /\ UNCHANGED <<orgs, depts, devices, software, updates, told, gone>>
DeviceForm(d, row) ==
  /\ devices' = [devices EXCEPT ![d] = row] /\ moved' \in {moved, moved \cup {d}}
  /\ Stored(devices, d) => row.org = devices[d].org \/ d \in moved'
  /\ row.assignee # None =>
       /\ Stored(users, row.assignee)
       /\ {d, row.assignee} \cap moved' = {} => users[row.assignee].org = row.org
  /\ Alone(scene) => \A e \in DeviceIds \ {d} :
       Stored(devices, e) /\ devices[e].org = row.org /\ devices[e].host = row.host
         => {d, e} \cap moved' # {}
  /\ UNCHANGED <<orgs, depts, users, software, updates, told, gone>>
SoftwareForm(i, row) ==
  /\ software' = [software EXCEPT ![i] = row]
  /\ Stored(software, i) => row.org = software[i].org /\ row.device = software[i].device
  /\ OnDevice(row.device, row.name, i)
  /\ UNCHANGED <<orgs, depts, users, devices, updates, moved, told, gone>>
UpdateForm ==
  /\ gone' = gone \/ \E w \in UpdateIds : gone' = gone \cup {w}
  /\ UNCHANGED <<orgs, depts, users, devices, software, moved>>

LEMMA DeptForms ==
  ASSUME Inv, NEW r \in Requests,
         InsertDepartment(r) \/ ChangeDepartment(r) \/ DeleteDepartment(r)
  PROVE  \E d \in DeptIds, row \in Maybe(DeptRow) : DeptForm(d, row)
<1> DEFINE c == requests[r].call
           held == requests[r].row
<1>0. TablesTyped
  BY TablesOfInv
<1>1. CASE InsertDepartment(r)
  <2>1. Written(r) /\ c.op = "create department"
    BY <1>1 DEF InsertDepartment, DeptWrite, Write
  <2>2. c.body \in NewDept
    BY <2>1, WriterLooked, CallTypes
  <2>3. PICK d \in DeptIds \ gone : depts[d] = None /\ depts' = [depts EXCEPT ![d] = c.body]
    BY <1>1 DEF InsertDepartment, Body
  <2>4. Alone(scene) => UnusedIn(depts, c.body.org, "name", c.body.name, d)
    <3> SUFFICES ASSUME Alone(scene)
                 PROVE  UnusedIn(depts, c.body.org, "name", c.body.name, d)
      OBVIOUS
    <3>1. Check(c, held, 2)
      <4>1. Reads(c.op) = 2
        BY <2>1 DEF Reads
      <4>2. \A k \in 2 .. Reads(c.op) : Check(c, held, k)
        BY <2>1, WriterVetted
      <4> QED BY <4>1, <4>2
    <3>2. UnusedIn(depts, c.body.org, "name", c.body.name, None)
      BY <2>1, <3>1 DEF Check, CreateDepartment
    <3>3. None \notin DOMAIN depts
      BY <1>0, NoneIsApart DEF TablesTyped, Table
    <3> QED BY <3>2, <3>3 DEF UnusedIn
  <2>5. c.body \in DeptRow
    BY <2>2 DEF NewDept, DeptRow
  <2>6. DeptForm(d, c.body)
    BY <1>1, <2>3, <2>4, <2>5 DEF DeptForm, InsertDepartment, DeptWrite, Stored
  <2> QED BY <2>3, <2>5, <2>6 DEF Maybe
<1>2. CASE ChangeDepartment(r)
  <2>1. Written(r) /\ c.op = "update department" /\ Stored(depts, c.id)
    BY <1>2 DEF ChangeDepartment, DeptWrite, Write, Accepted, DepartmentConstraints
  <2>2. c.id \in DeptIds /\ c.body \in DeptChange
    BY <2>1, WriterLooked, CallTypes
  <2> DEFINE new == [org |-> depts[c.id].org, name |-> Or(c.body.name, depts[c.id].name)]
  <2>3. depts' = [depts EXCEPT ![c.id] = new]
    BY <1>0, <1>2, <2>2 DEF ChangeDepartment, Body, Id, TablesTyped, Table
  <2>4. new \in DeptRow
    BY <1>0, <2>1, <2>2, NoneIsApart DEF TablesTyped, Table, Maybe, Stored, Or, DeptChange, DeptRow
  <2>5. Alone(scene) => UnusedIn(depts, new.org, "name", new.name, c.id)
    <3> SUFFICES ASSUME Alone(scene) PROVE UnusedIn(depts, new.org, "name", new.name, c.id)
      OBVIOUS
    <3>1. CASE c.body.name = None
      BY <2>1, <2>2, <3>1 DEF Inv, RegisterInv, RegisterRows, DepartmentNamesUnique, Or
    <3>2. CASE c.body.name # None
      <4>1. Check(c, held, 2) /\ held = depts[c.id]
        <5>1. Reads(c.op) = 2 /\ Fetched(c) = depts[c.id]
          BY <2>1 DEF Reads, Fetched
        <5>2. held = Fetched(c) /\ \A k \in 2 .. Reads(c.op) : Check(c, held, k)
          BY <2>1, WriterVetted
        <5> QED BY <5>1, <5>2
      <4> QED BY <2>1, <3>2, <4>1 DEF Check, UpdateDepartment, Or
    <3> QED BY <3>1, <3>2
  <2>6. new.org = depts[c.id].org
    OBVIOUS
  <2> HIDE DEF new
  <2>7. DeptForm(c.id, new)
    BY <1>2, <2>1, <2>3, <2>4, <2>5, <2>6 DEF DeptForm, ChangeDepartment, DeptWrite
  <2> QED BY <2>2, <2>4, <2>7 DEF Maybe
<1>3. CASE DeleteDepartment(r)
  <2>1. Written(r) /\ c.op = "remove department" /\ Accepted(c, held)
    BY <1>3 DEF DeleteDepartment, DeptWrite, Write
  <2>2. c.id \in DeptIds
    BY <2>1, WriterLooked, CallTypes
  <2>3. \A u \in UserIds : Stored(users, u) => users[u].dept # c.id
    BY <2>1 DEF Accepted, DepartmentConstraints
  <2>4. DeptForm(c.id, None)
    BY <1>3, <2>3 DEF DeptForm, DeleteDepartment, DeptWrite, Id
  <2> QED BY <2>2, <2>4 DEF Maybe
<1> QED BY <1>1, <1>2, <1>3

LEMMA UserForms ==
  ASSUME Inv, NEW r \in Requests, InsertUser(r) \/ ChangeUser(r) \/ Deactivate(r)
  PROVE  \E u \in UserIds, row \in UserRow : UserForm(u, row)
<1> DEFINE c == requests[r].call
           held == requests[r].row
<1>0. TablesTyped
  BY TablesOfInv
<1>1. CASE InsertUser(r)
  <2>1. Written(r) /\ c.op = "create user" /\ Accepted(c, held)
    BY <1>1 DEF InsertUser, UserWrite, Write
  <2>2. c.body \in NewUser
    BY <2>1, WriterLooked, CallTypes
  <2> DEFINE new == [org |-> c.body.org, dept |-> c.body.dept, mail |-> c.body.mail,
                     role |-> c.body.role, status |-> "ACTIVE"]
  <2>3. PICK u \in UserIds : users[u] = None /\ users' = [users EXCEPT ![u] = new]
    BY <1>1 DEF InsertUser, Body
  <2>4. new \in UserRow /\ new.org = c.body.org /\ new.dept = c.body.dept
    BY <2>2 DEF NewUser, UserRow, UserStatuses
  <2>5. Stored(orgs, c.body.org) /\ DeptKept(c.body.dept, c.body.org)
    <3>1. requests[r].at > 3 /\ requests[r].at > 2 /\ Looked(r)
      <4>1. Reads(c.op) = 3
        BY <2>1 DEF Reads
      <4>2. Looked(r) /\ requests[r].at > Reads(c.op) /\ requests[r].at \in 2 .. 5
        BY <2>1, WriterLooked
      <4> QED BY <4>1, <4>2
    <3> QED BY <2>1, <3>1 DEF Looked
  <2>6. Stored(depts, c.body.dept)
    BY <2>1, <2>2, NoneIsApart DEF Accepted, UserConstraints, NewUser
  <2> HIDE DEF new
  <2>7. UserForm(u, new)
    BY <1>1, <2>3, <2>4, <2>5, <2>6 DEF UserForm, InsertUser, UserWrite, DeptKept, Stored
  <2> QED BY <2>4, <2>7
<1>2. CASE ChangeUser(r)
  <2>1. Written(r) /\ c.op = "update user" /\ Accepted(c, held)
    BY <1>2 DEF ChangeUser, UserWrite, Write
  <2>2. c.id \in UserIds /\ c.body \in UserChange /\ Stored(users, c.id)
    BY <2>1, WriterLooked, CallTypes DEF Remembers
  <2> DEFINE old == users[c.id]
             new == [org |-> Or(c.body.org, old.org), dept |-> Or(c.body.dept, old.dept),
                     mail |-> Or(c.body.mail, old.mail), role |-> Or(c.body.role, old.role),
                     status |-> Or(c.body.status, old.status)]
  <2>3. /\ users' = [users EXCEPT ![c.id] = new]
        /\ moved' = moved \cup MovedTo(old, c.body.org, c.id)
    BY <1>0, <1>2, <2>2 DEF ChangeUser, Body, Id, TablesTyped, Table
  <2>4. new \in UserRow
    BY <1>0, <2>2, NoneIsApart DEF TablesTyped, Table, Maybe, Stored, Or, UserChange, UserRow
  <2>5. /\ moved' \in {moved, moved \cup {c.id}}
        /\ c.body.org \in {None, old.org} \/ c.id \in moved'
        /\ c.id \notin moved' => c.id \notin moved
    BY <2>3 DEF MovedTo
  <2>6. /\ held.org \in OrgIds
        /\ held.org = old.org \/ c.id \in moved
        /\ c.body.org # None => c.body.dept # None /\ Stored(orgs, c.body.org)
        /\ c.body.dept # None => DeptKept(c.body.dept, Home(c, held))
    <3>1. requests[r].at > 4 /\ requests[r].at > 3 /\ Looked(r)
      <4>1. Reads(c.op) = 4
        BY <2>1 DEF Reads
      <4>2. Looked(r) /\ requests[r].at > Reads(c.op) /\ requests[r].at \in 2 .. 5
        BY <2>1, WriterLooked
      <4> QED BY <4>1, <4>2
    <3> QED BY <2>1, <3>1 DEF Looked
  <2>7. c.body.dept # None => Stored(depts, c.body.dept)
    BY <2>1 DEF Accepted, UserConstraints
  <2>8. /\ Stored(orgs, old.org) /\ Stored(depts, old.dept)
        /\ Alone(scene) \/ c.id \notin moved => depts[old.dept].org = old.org
    BY <2>2 DEF Inv, RegisterInv, RegisterRows, UserPlaced
  <2>9. Alone(scene) => held.org = old.org
    BY <2>1, WriterVetted DEF Fetched
  <2>10. /\ new.org = Or(c.body.org, old.org) /\ new.dept = Or(c.body.dept, old.dept)
    OBVIOUS
  <2> HIDE DEF new, old
  <2>11. Stored(orgs, new.org) /\ Stored(depts, new.dept)
    BY <2>6, <2>7, <2>8, <2>10 DEF Or
  <2>12. Alone(scene) \/ c.id \notin moved' => depts[new.dept].org = new.org
    <3> SUFFICES ASSUME Alone(scene) \/ c.id \notin moved'
                 PROVE  depts[new.dept].org = new.org
      OBVIOUS
    <3>1. Alone(scene) \/ c.id \notin moved
      BY <2>5
    <3>2. held.org = old.org
      BY <2>6, <2>9, <3>1
    <3>3. CASE c.body.dept = None
      BY <2>6, <2>8, <2>10, <3>1, <3>3 DEF Or
    <3>4. CASE c.body.dept # None
      BY <2>6, <2>7, <2>10, <3>2, <3>4 DEF Or, Home, DeptKept
    <3> QED BY <3>3, <3>4
  <2>13. new.org = old.org \/ c.id \in moved'
    BY <2>5, <2>10 DEF Or
  <2>14. UserForm(c.id, new)
    BY <1>2, <2>3, <2>5, <2>11, <2>12, <2>13 DEF UserForm, ChangeUser, UserWrite, old
  <2> QED BY <2>2, <2>4, <2>14
<1>3. CASE Deactivate(r)
  <2>1. Written(r) /\ c.op = "deactivate user"
    BY <1>3 DEF Deactivate, UserWrite, Write
  <2>2. c.id \in UserIds /\ Stored(users, c.id)
    BY <2>1, WriterLooked, CallTypes DEF Remembers
  <2> DEFINE old == users[c.id]
             new == [old EXCEPT !.status = "INACTIVE"]
  <2>3. users' = [users EXCEPT ![c.id] = new] /\ moved' = moved
    BY <1>0, <1>3, <2>2 DEF Deactivate, Id, TablesTyped, Table
  <2>4. new \in UserRow /\ new.org = old.org /\ new.dept = old.dept
    BY <1>0, <2>2 DEF TablesTyped, Table, Maybe, Stored, UserRow, UserStatuses
  <2>5. /\ Stored(orgs, old.org) /\ Stored(depts, old.dept)
        /\ Alone(scene) \/ c.id \notin moved => depts[old.dept].org = old.org
    BY <2>2 DEF Inv, RegisterInv, RegisterRows, UserPlaced
  <2> HIDE DEF new, old
  <2>6. UserForm(c.id, new)
    BY <1>3, <2>3, <2>4, <2>5 DEF UserForm, Deactivate, UserWrite, old
  <2> QED BY <2>2, <2>4, <2>6
<1> QED BY <1>1, <1>2, <1>3

LEMMA DeviceForms ==
  ASSUME Inv, NEW r \in Requests, InsertDevice(r) \/ ChangeDevice(r) \/ Retire(r)
  PROVE  \E d \in DeviceIds, row \in DeviceRow : DeviceForm(d, row)
<1> DEFINE c == requests[r].call
           held == requests[r].row
<1>0. TablesTyped
  BY TablesOfInv
<1>1. CASE InsertDevice(r)
  <2>1. Written(r) /\ c.op = "create device"
    BY <1>1 DEF InsertDevice, DeviceWrite, Write
  <2>2. c.body \in NewDevice
    BY <2>1, WriterLooked, CallTypes
  <2> DEFINE new == [org |-> c.body.org, host |-> c.body.host,
                     assignee |-> c.body.assignee, status |-> "ACTIVE"]
  <2>3. PICK d \in DeviceIds : devices[d] = None /\ devices' = [devices EXCEPT ![d] = new]
    BY <1>1 DEF InsertDevice, Body
  <2>4. /\ new \in DeviceRow /\ new.org = c.body.org /\ new.host = c.body.host
        /\ new.assignee = c.body.assignee
    BY <2>2 DEF NewDevice, DeviceRow, DeviceStatuses
  <2>5. c.body.assignee # None => AssigneeKept(c.body.assignee, c.body.org)
    <3>1. Reads(c.op) = 3
      BY <2>1 DEF Reads
    <3>2. Looked(r) /\ requests[r].at > Reads(c.op) /\ requests[r].at \in 2 .. 5
      BY <2>1, WriterLooked
    <3>3. Looked(r) /\ requests[r].at > 3
      BY <3>1, <3>2
    <3> QED BY <2>1, <3>3 DEF Looked
  <2>6. Alone(scene) =>
          \A e \in DeviceIds :
            ~(Stored(devices, e) /\ devices[e].org = c.body.org /\ devices[e].host = c.body.host)
    <3> SUFFICES ASSUME Alone(scene)
                 PROVE  \A e \in DeviceIds :
            ~(Stored(devices, e) /\ devices[e].org = c.body.org /\ devices[e].host = c.body.host)
      OBVIOUS
    <3>1. Reads(c.op) = 3
      BY <2>1 DEF Reads
    <3>2. \A k \in 2 .. Reads(c.op) : Check(c, held, k)
      BY <2>1, WriterVetted
    <3>3. Check(c, held, 2)
      BY <3>1, <3>2
    <3>4. UnusedIn(devices, c.body.org, "host", c.body.host, None)
      BY <2>1, <3>3 DEF Check, CreateDevice
    <3>5. DOMAIN devices = DeviceIds /\ None \notin DeviceIds
      BY <1>0, NoneIsApart DEF TablesTyped, Table
    <3> QED BY <3>4, <3>5 DEF UnusedIn
  <2> HIDE DEF new
  <2>7. DeviceForm(d, new)
    BY <1>1, <2>3, <2>4, <2>5, <2>6 DEF DeviceForm, InsertDevice, DeviceWrite, AssigneeKept, Stored
  <2> QED BY <2>4, <2>7
<1>2. CASE ChangeDevice(r)
  <2>1. Written(r) /\ c.op = "update device"
    BY <1>2 DEF ChangeDevice, DeviceWrite, Write
  <2>2. c.id \in DeviceIds /\ c.body \in DeviceChange /\ Stored(devices, c.id)
    BY <2>1, WriterLooked, CallTypes DEF Remembers
  <2> DEFINE old == devices[c.id]
             new == [org |-> Or(c.body.org, old.org), host |-> Or(c.body.host, old.host),
                     assignee |-> Or(c.body.assignee, old.assignee),
                     status |-> Or(c.body.status, old.status)]
  <2>3. /\ devices' = [devices EXCEPT ![c.id] = new]
        /\ moved' = moved \cup MovedTo(old, c.body.org, c.id)
    BY <1>0, <1>2, <2>2 DEF ChangeDevice, Body, Id, TablesTyped, Table
  <2>4. new \in DeviceRow
    BY <1>0, <2>2, NoneIsApart DEF TablesTyped, Table, Maybe, Stored, Or, DeviceChange, DeviceRow
  <2>5. /\ moved' \in {moved, moved \cup {c.id}}
        /\ c.body.org \in {None, old.org} \/ c.id \in moved'
        /\ moved \subseteq moved'
    BY <2>3 DEF MovedTo
  <2>6. /\ held.org = old.org \/ c.id \in moved
        /\ c.body.assignee # None => AssigneeKept(c.body.assignee, Home(c, held))
    <3>1. Reads(c.op) = 4
      BY <2>1 DEF Reads
    <3>2. Looked(r) /\ requests[r].at > Reads(c.op) /\ requests[r].at \in 2 .. 5
      BY <2>1, WriterLooked
    <3>3. Looked(r) /\ requests[r].at > 4
      BY <3>1, <3>2
    <3> QED BY <2>1, <3>3 DEF Looked
  <2>7. old.assignee # None =>
          /\ Stored(users, old.assignee)
          /\ {c.id, old.assignee} \cap moved = {} => users[old.assignee].org = old.org
    BY <2>2 DEF Inv, RegisterInv, RegisterRows, DevicePlaced
  <2>8. Alone(scene) =>
          /\ held = old
          /\ c.body.host # None => UnusedIn(devices, Home(c, held), "host", c.body.host, c.id)
    <3> SUFFICES ASSUME Alone(scene)
                 PROVE  /\ held = old
                        /\ c.body.host # None =>
                             UnusedIn(devices, Home(c, held), "host", c.body.host, c.id)
      OBVIOUS
    <3>1. Reads(c.op) = 4 /\ Fetched(c) = old
      BY <2>1 DEF Reads, Fetched
    <3>2. held = Fetched(c) /\ \A k \in 2 .. Reads(c.op) : Check(c, held, k)
      BY <2>1, WriterVetted
    <3>3. held = old /\ Check(c, held, 3)
      BY <3>1, <3>2
    <3> QED BY <2>1, <3>3 DEF Check, UpdateDevice
  <2>9. Alone(scene) => \A e \in DeviceIds \ {c.id} :
          Stored(devices, e) /\ devices[e].org = old.org /\ devices[e].host = old.host
            => {c.id, e} \cap moved # {}
    BY <2>2 DEF Inv, RegisterInv, RegisterRows, HostsUnique
  <2>10. /\ new.org = Or(c.body.org, old.org) /\ new.host = Or(c.body.host, old.host)
         /\ new.assignee = Or(c.body.assignee, old.assignee)
    OBVIOUS
  <2>11. DOMAIN devices = DeviceIds
    BY <1>0 DEF TablesTyped, Table
  <2> HIDE DEF new, old
  <2>12. new.org = old.org \/ c.id \in moved'
    BY <2>5, <2>10 DEF Or
  <2>13. new.assignee # None =>
           /\ Stored(users, new.assignee)
           /\ {c.id, new.assignee} \cap moved' = {} => users[new.assignee].org = new.org
    <3>1. CASE c.body.assignee = None
      BY <2>5, <2>7, <2>10, <2>12, <3>1 DEF Or
    <3>2. CASE c.body.assignee # None
      <4>1. c.id \notin moved' => held.org = old.org /\ Home(c, held) = new.org
        BY <2>5, <2>6, <2>10 DEF Home
      <4> QED BY <2>5, <2>6, <2>10, <3>2, <4>1 DEF Or, AssigneeKept
    <3> QED BY <3>1, <3>2
  <2>14. Alone(scene) => \A e \in DeviceIds \ {c.id} :
           Stored(devices, e) /\ devices[e].org = new.org /\ devices[e].host = new.host
             => {c.id, e} \cap moved' # {}
    <3>1. CASE c.body.host = None
      BY <2>5, <2>9, <2>10, <2>12, <3>1 DEF Or
    <3>2. CASE c.body.host # None
      BY <2>8, <2>10, <2>11, <3>2 DEF Or, Home, UnusedIn
    <3> QED BY <3>1, <3>2
  <2>15. DeviceForm(c.id, new)
    BY <1>2, <2>3, <2>5, <2>12, <2>13, <2>14 DEF DeviceForm, ChangeDevice, DeviceWrite, old
  <2> QED BY <2>2, <2>4, <2>15
<1>3. CASE Retire(r)
  <2>1. Written(r) /\ c.op = "retire device"
    BY <1>3 DEF Retire, DeviceWrite, Write
  <2>2. c.id \in DeviceIds /\ Stored(devices, c.id)
    BY <2>1, WriterLooked, CallTypes DEF Remembers
  <2> DEFINE old == devices[c.id]
             new == [old EXCEPT !.status = "RETIRED"]
  <2>3. devices' = [devices EXCEPT ![c.id] = new] /\ moved' = moved
    BY <1>0, <1>3, <2>2 DEF Retire, Id, TablesTyped, Table
  <2>4. /\ new \in DeviceRow /\ new.org = old.org /\ new.host = old.host
        /\ new.assignee = old.assignee
    BY <1>0, <2>2 DEF TablesTyped, Table, Maybe, Stored, DeviceRow, DeviceStatuses
  <2>5. old.assignee # None =>
          /\ Stored(users, old.assignee)
          /\ {c.id, old.assignee} \cap moved = {} => users[old.assignee].org = old.org
    BY <2>2 DEF Inv, RegisterInv, RegisterRows, DevicePlaced
  <2>6. Alone(scene) => \A e \in DeviceIds \ {c.id} :
          Stored(devices, e) /\ devices[e].org = old.org /\ devices[e].host = old.host
            => {c.id, e} \cap moved # {}
    BY <2>2 DEF Inv, RegisterInv, RegisterRows, HostsUnique
  <2> HIDE DEF new, old
  <2>7. DeviceForm(c.id, new)
    BY <1>3, <2>3, <2>4, <2>5, <2>6 DEF DeviceForm, Retire, DeviceWrite, old
  <2> QED BY <2>2, <2>4, <2>7
<1> QED BY <1>1, <1>2, <1>3

LEMMA SoftwareForms ==
  ASSUME Inv, NEW r \in Requests, InsertSoftware(r) \/ ChangeSoftware(r) \/ MarkRemoved(r)
  PROVE  \E i \in SoftwareIds, row \in SoftwareRow : SoftwareForm(i, row)
<1> DEFINE c == requests[r].call
           held == requests[r].row
<1>0. TablesTyped
  BY TablesOfInv
<1>1. CASE InsertSoftware(r)
  <2>1. Written(r) /\ c.op = "create software" /\ Accepted(c, held)
    BY <1>1 DEF InsertSoftware, SoftwareWrite, Write
  <2>2. c.body \in NewSoftware
    BY <2>1, WriterLooked, CallTypes
  <2> DEFINE new == [org |-> c.body.org, device |-> c.body.device, name |-> c.body.name,
                     version |-> c.body.version, status |-> Or(c.body.status, "INSTALLED")]
  <2>3. PICK i \in SoftwareIds : software[i] = None /\ software' = [software EXCEPT ![i] = new]
    BY <1>1 DEF InsertSoftware, Body
  <2>4. new \in SoftwareRow /\ new.device = c.body.device /\ new.name = c.body.name
    BY <2>2 DEF NewSoftware, SoftwareRow, SoftwareStatuses, Maybe, Or
  <2>5. OnDevice(c.body.device, c.body.name, None)
    BY <2>1 DEF Accepted, SoftwareConstraints
  <2>6. OnDevice(c.body.device, c.body.name, i)
    BY <2>5, NoneIsApart DEF OnDevice
  <2> HIDE DEF new
  <2>7. SoftwareForm(i, new)
    BY <1>1, <2>3, <2>4, <2>6 DEF SoftwareForm, InsertSoftware, SoftwareWrite, Stored
  <2> QED BY <2>4, <2>7
<1>2. CASE ChangeSoftware(r)
  <2>1. Written(r) /\ c.op = "update software" /\ Accepted(c, held)
    BY <1>2 DEF ChangeSoftware, SoftwareWrite, Write
  <2>2. c.id \in SoftwareIds /\ c.body \in SoftwareChange /\ Stored(software, c.id)
    BY <2>1, WriterLooked, CallTypes DEF Remembers
  <2> DEFINE old == software[c.id]
             new == [org |-> old.org, device |-> old.device, name |-> Or(c.body.name, old.name),
                     version |-> Or(c.body.version, old.version),
                     status |-> Or(c.body.status, old.status)]
  <2>3. software' = [software EXCEPT ![c.id] = new]
    BY <1>0, <1>2, <2>2 DEF ChangeSoftware, Body, Id, TablesTyped, Table
  <2>4. /\ new \in SoftwareRow /\ new.org = old.org /\ new.device = old.device
        /\ new.name = Or(c.body.name, old.name)
    BY <1>0, <2>2, NoneIsApart DEF TablesTyped, Table, Maybe, Stored, Or, SoftwareChange, SoftwareRow
  <2>5. held.device = old.device
    BY <2>1, WriterLooked DEF Looked
  <2>6. c.body.name # None => OnDevice(held.device, c.body.name, c.id)
    BY <2>1 DEF Accepted, SoftwareConstraints
  <2>7. OnDevice(old.device, old.name, c.id)
    BY <2>2 DEF Inv, RegisterInv, RegisterRows, SoftwareUnique
  <2> HIDE DEF new, old
  <2>8. OnDevice(new.device, new.name, c.id)
    BY <2>4, <2>5, <2>6, <2>7 DEF Or
  <2>9. SoftwareForm(c.id, new)
    BY <1>2, <2>3, <2>4, <2>8 DEF SoftwareForm, ChangeSoftware, SoftwareWrite, old
  <2> QED BY <2>2, <2>4, <2>9
<1>3. CASE MarkRemoved(r)
  <2>1. Written(r) /\ c.op = "remove software"
    BY <1>3 DEF MarkRemoved, SoftwareWrite, Write
  <2>2. c.id \in SoftwareIds /\ Stored(software, c.id)
    BY <2>1, WriterLooked, CallTypes DEF Remembers
  <2> DEFINE old == software[c.id]
             new == [org |-> old.org, device |-> old.device, name |-> old.name,
                     version |-> old.version, status |-> "REMOVED"]
  <2>3. software' = [software EXCEPT ![c.id] = new]
    BY <1>0, <1>3, <2>2 DEF MarkRemoved, Id, TablesTyped, Table
  <2>4. /\ new \in SoftwareRow /\ new.org = old.org /\ new.device = old.device
        /\ new.name = old.name
    BY <1>0, <2>2 DEF TablesTyped, Table, Maybe, Stored, SoftwareRow, SoftwareStatuses
  <2>5. OnDevice(old.device, old.name, c.id)
    BY <2>2 DEF Inv, RegisterInv, RegisterRows, SoftwareUnique
  <2> HIDE DEF new, old
  <2>6. SoftwareForm(c.id, new)
    BY <1>3, <2>3, <2>4, <2>5 DEF SoftwareForm, MarkRemoved, SoftwareWrite, old
  <2> QED BY <2>2, <2>4, <2>6
<1> QED BY <1>1, <1>2, <1>3

LEMMA OrgForms ==
  ASSUME Inv, NEW r \in Requests, InsertOrganization(r) \/ ChangeOrganization(r) \/ Suspend(r)
  PROVE  OrgForm
<1>1. OrgStep
  BY OrgWrites DEF Inv
<1>2. UNCHANGED gone
  BY DEF InsertOrganization, ChangeOrganization, Suspend, OrgWrite
<1> QED BY <1>1, <1>2 DEF OrgForm

LEMMA UpdateForms ==
  ASSUME Inv, NEW r \in Requests, InsertUpdate(r) \/ ChangeUpdate(r) \/ DeleteUpdate(r)
  PROVE  UpdateForm
<1>1. CASE DeleteUpdate(r)
  <2>1. Written(r) /\ requests[r].call.op = "remove update"
    BY <1>1 DEF DeleteUpdate, UpdateWrite, Write
  <2>2. Id(r) \in UpdateIds
    BY <2>1, WriterLooked, CallTypes DEF Id
  <2> QED
    BY <1>1, <2>2 DEF DeleteUpdate, UpdateWrite, UpdateForm
<1>2. CASE InsertUpdate(r) \/ ChangeUpdate(r)
  BY <1>2 DEF InsertUpdate, ChangeUpdate, UpdateWrite, UpdateForm
<1> QED BY <1>1, <1>2

-----------------------------------------------------------------------------
\* Each form keeps what was looked up and keeps the register in order.
LEMMA OrgKeepsRegister ==
  ASSUME Inv, OrgForm, scene' = scene
  PROVE  Kept /\ RegisterRows'
<1>0. TablesTyped
  BY TablesOfInv
<1>1. PICK o \in OrgIds, row \in OrgRow : orgs' = [orgs EXCEPT ![o] = row]
  BY DEF OrgForm, OrgStep
<1>2. \A p \in OrgIds : Stored(orgs, p) => Stored(orgs', p)
  BY <1>0, <1>1, NoneIsApart DEF TablesTyped, Table, Stored
<1>3. UNCHANGED <<depts, users, devices, software, moved, gone>>
  BY DEF OrgForm, OrgStep
<1>4. Kept
  BY <1>2, <1>3 DEF Kept, RowsStay, Stored
<1>5. ASSUME NEW u \in UserIds PROVE UserPlaced(u)'
  <2>1. Stored(users, u) => users[u].org \in OrgIds
    BY <1>0 DEF TablesTyped, Table, Maybe, Stored, UserRow
  <2> QED BY <1>2, <1>3, <2>1 DEF Inv, RegisterInv, RegisterRows, UserPlaced, Stored
<1>6. ASSUME NEW d \in DeviceIds PROVE DevicePlaced(d)'
  BY <1>3 DEF Inv, RegisterInv, RegisterRows, DevicePlaced, Stored
<1>7. SoftwareUnique' /\ HostsUnique' /\ DepartmentNamesUnique'
  BY <1>3 DEF Inv, RegisterInv, RegisterRows, SoftwareUnique, OnDevice, HostsUnique,
     DepartmentNamesUnique, UnusedIn, Stored
<1> QED BY <1>3, <1>4, <1>5, <1>6, <1>7 DEF RegisterRows, Inv, RegisterInv

LEMMA DeptKeepsRegister ==
  ASSUME Inv, NEW d \in DeptIds, NEW row \in Maybe(DeptRow), DeptForm(d, row), scene' = scene
  PROVE  Kept /\ RegisterRows'
<1>0. TablesTyped
  BY TablesOfInv
<1>1. /\ depts' = [depts EXCEPT ![d] = row] /\ DOMAIN depts = DeptIds
      /\ depts'[d] = row /\ \A e \in DeptIds : e # d => depts'[e] = depts[e]
      /\ DOMAIN depts' = DeptIds
  BY <1>0 DEF DeptForm, TablesTyped, Table
<1>2. UNCHANGED <<orgs, users, devices, software, moved>>
  BY DEF DeptForm
<1>3. \/ row # None /\ ~Stored(depts, d) /\ d \notin gone /\ gone' = gone
      \/ row # None /\ Stored(depts, d) /\ row.org = depts[d].org /\ gone' = gone
      \/ /\ row = None /\ gone' = gone \cup {d}
         /\ \A u \in UserIds : Stored(users, u) => users[u].dept # d
  BY NoneIsApart DEF DeptForm
<1>4. RowsStay
  BY <1>2 DEF RowsStay, Stored
<1>5. ASSUME NEW e \in DeptIds, Stored(depts, e)
      PROVE  IF Stored(depts', e) THEN depts'[e].org = depts[e].org ELSE e \in gone'
  BY <1>1, <1>3, <1>5 DEF Stored
<1>6. \A e \in gone : e \in DeptIds /\ ~Stored(depts, e) => ~Stored(depts', e)
  BY <1>1, <1>3 DEF Stored
<1>7. \A e \in gone : ~Stored(depts, e) => ~Stored(depts', e)
  <2> SUFFICES ASSUME NEW e \in gone, e \notin DeptIds PROVE ~Stored(depts, e) => ~Stored(depts', e)
    BY <1>6
  <2>1. e # d
    OBVIOUS
  <2> QED BY <1>1, <2>1 DEF Stored
<1>8. Kept
  BY <1>2, <1>3, <1>4, <1>5, <1>7 DEF Kept, Stored
<1>9. ASSUME NEW u \in UserIds PROVE UserPlaced(u)'
  <2>1. Stored(users, u) => users[u].dept \in DeptIds
    BY <1>0 DEF TablesTyped, Table, Maybe, Stored, UserRow
  <2>2. UserPlaced(u)
    BY DEF Inv, RegisterInv, RegisterRows
  <2>3. Stored(users, u) =>
          /\ Stored(depts', users[u].dept)
          /\ depts'[users[u].dept].org = depts[users[u].dept].org
    BY <1>1, <1>3, <2>1, <2>2 DEF UserPlaced, Stored
  <2> QED BY <1>2, <2>2, <2>3 DEF UserPlaced, Stored
<1>10. ASSUME NEW v \in DeviceIds PROVE DevicePlaced(v)'
  BY <1>2 DEF Inv, RegisterInv, RegisterRows, DevicePlaced, Stored
<1>11. SoftwareUnique' /\ HostsUnique'
  BY <1>2 DEF Inv, RegisterInv, RegisterRows, SoftwareUnique, OnDevice, HostsUnique, Stored
<1>12. DepartmentNamesUnique'
  <2> SUFFICES ASSUME Alone(scene), NEW e \in DeptIds, NEW f \in DeptIds,
                      depts'[e] # None, depts'[f] # None,
                      depts'[f].org = depts'[e].org, depts'[f].name = depts'[e].name
               PROVE  f = e
    BY <1>1 DEF DepartmentNamesUnique, UnusedIn, Stored
  <2>1. row # None => \A g \in DeptIds :
          Stored(depts, g) /\ depts[g].org = row.org /\ depts[g].name = row.name => g = d
    BY <1>1 DEF DeptForm, UnusedIn
  <2>2. \A g, h \in DeptIds :
          /\ Stored(depts, g) /\ Stored(depts, h)
          /\ depts[h].org = depts[g].org /\ depts[h].name = depts[g].name
          => h = g
    <3>1. \A g \in DeptIds : Stored(depts, g) =>
            UnusedIn(depts, depts[g].org, "name", depts[g].name, g)
      BY DEF Inv, RegisterInv, RegisterRows, DepartmentNamesUnique
    <3> SUFFICES ASSUME NEW g \in DeptIds, NEW h \in DeptIds, Stored(depts, g), Stored(depts, h),
                        depts[h].org = depts[g].org, depts[h].name = depts[g].name
                 PROVE  h = g
      OBVIOUS
    <3>2. UnusedIn(depts, depts[g].org, "name", depts[g].name, g) /\ h \in DOMAIN depts
      BY <1>1, <3>1
    <3> QED BY <3>2 DEF UnusedIn
  <2> QED BY <1>1, <2>1, <2>2 DEF Stored
<1>13. gone' \subseteq DeptIds \cup UpdateIds
  BY <1>3 DEF Inv, RegisterInv, RegisterRows
<1> QED BY <1>8, <1>9, <1>10, <1>11, <1>12, <1>13 DEF RegisterRows

LEMMA UserKeepsRegister ==
  ASSUME Inv, NEW u \in UserIds, NEW row \in UserRow, UserForm(u, row), scene' = scene
  PROVE  Kept /\ RegisterRows'
<1>0. TablesTyped
  BY TablesOfInv
<1>1. users'[u] = row /\ row # None /\ \A t \in UserIds : t # u => users'[t] = users[t]
  BY <1>0, NoneIsApart DEF UserForm, TablesTyped, Table
<1>2. UNCHANGED <<orgs, depts, devices, software, gone>>
  BY DEF UserForm
<1>3. /\ moved' \in {moved, moved \cup {u}} /\ moved \subseteq moved'
      /\ Stored(users, u) => row.org = users[u].org \/ u \in moved'
  BY DEF UserForm
<1>4. \A t \in UserIds : Stored(users, t) =>
        Stored(users', t) /\ (users'[t].org = users[t].org \/ t \in moved')
  BY <1>1, <1>3 DEF Stored
<1>5. Kept
  BY <1>2, <1>3, <1>4 DEF Kept, RowsStay, Stored
<1>6. ASSUME NEW t \in UserIds PROVE UserPlaced(t)'
  <2>1. CASE t = u
    BY <1>1, <1>2, <2>1 DEF UserForm, UserPlaced, Stored
  <2>2. CASE t # u
    <3>1. UserPlaced(t) /\ users'[t] = users[t] /\ (t \in moved' <=> t \in moved)
      BY <1>1, <1>3, <2>2 DEF Inv, RegisterInv, RegisterRows
    <3> QED BY <1>2, <3>1 DEF UserPlaced, Stored
  <2> QED BY <2>1, <2>2
<1>7. ASSUME NEW v \in DeviceIds PROVE DevicePlaced(v)'
  <2>1. DevicePlaced(v)
    BY DEF Inv, RegisterInv, RegisterRows
  <2>2. Stored(devices, v) /\ devices[v].assignee # None => devices[v].assignee \in UserIds
    BY <1>0 DEF TablesTyped, Table, Maybe, Stored, DeviceRow
  <2> QED BY <1>2, <1>3, <1>4, <2>1, <2>2 DEF DevicePlaced, Stored
<1>8. SoftwareUnique' /\ DepartmentNamesUnique'
  BY <1>2 DEF Inv, RegisterInv, RegisterRows, SoftwareUnique, OnDevice, DepartmentNamesUnique,
     UnusedIn, Stored
<1>9. HostsUnique'
  BY <1>2, <1>3 DEF Inv, RegisterInv, RegisterRows, HostsUnique, Stored
<1> QED BY <1>2, <1>5, <1>6, <1>7, <1>8, <1>9 DEF RegisterRows, Inv, RegisterInv

LEMMA DeviceKeepsRegister ==
  ASSUME Inv, NEW d \in DeviceIds, NEW row \in DeviceRow, DeviceForm(d, row), scene' = scene
  PROVE  Kept /\ RegisterRows'
<1>0. TablesTyped
  BY TablesOfInv
<1>1. devices'[d] = row /\ row # None /\ \A e \in DeviceIds : e # d => devices'[e] = devices[e]
  BY <1>0, NoneIsApart DEF DeviceForm, TablesTyped, Table
<1>2. UNCHANGED <<orgs, depts, users, software, gone>>
  BY DEF DeviceForm
<1>3. /\ moved' \in {moved, moved \cup {d}} /\ moved \subseteq moved'
      /\ Stored(devices, d) => row.org = devices[d].org \/ d \in moved'
      /\ \A u \in UserIds : u \in moved' <=> u \in moved
  BY InventoryAssumption DEF DeviceForm
<1>4. \A e \in DeviceIds : Stored(devices, e) =>
        Stored(devices', e) /\ (devices'[e].org = devices[e].org \/ e \in moved')
  BY <1>1, <1>3 DEF Stored
<1>5. Kept
  BY <1>2, <1>3, <1>4 DEF Kept, RowsStay, Stored
<1>6. ASSUME NEW u \in UserIds PROVE UserPlaced(u)'
  BY <1>2, <1>3 DEF Inv, RegisterInv, RegisterRows, UserPlaced, Stored
<1>7. ASSUME NEW e \in DeviceIds PROVE DevicePlaced(e)'
  <2>1. CASE e = d
    BY <1>1, <1>2, <2>1 DEF DeviceForm, DevicePlaced, Stored
  <2>2. CASE e # d
    <3>1. DevicePlaced(e) /\ devices'[e] = devices[e]
      BY <1>1, <2>2 DEF Inv, RegisterInv, RegisterRows
    <3> QED BY <1>2, <1>3, <3>1 DEF DevicePlaced, Stored
  <2> QED BY <2>1, <2>2
<1>8. SoftwareUnique' /\ DepartmentNamesUnique'
  BY <1>2 DEF Inv, RegisterInv, RegisterRows, SoftwareUnique, OnDevice, DepartmentNamesUnique,
     UnusedIn, Stored
<1>9. HostsUnique'
  <2> SUFFICES ASSUME Alone(scene), NEW e \in DeviceIds, NEW f \in DeviceIds, f # e,
                      devices'[e] # None, devices'[f] # None,
                      devices'[f].org = devices'[e].org, devices'[f].host = devices'[e].host
               PROVE  {e, f} \cap moved' # {}
    BY DEF HostsUnique, Stored
  <2>1. \A g \in DeviceIds \ {d} :
          Stored(devices, g) /\ devices[g].org = row.org /\ devices[g].host = row.host
            => {d, g} \cap moved' # {}
    BY DEF DeviceForm
  <2>2. \A g \in DeviceIds, h \in DeviceIds :
          /\ g # h /\ Stored(devices, g) /\ Stored(devices, h)
          /\ devices[h].org = devices[g].org /\ devices[h].host = devices[g].host
          => {g, h} \cap moved # {}
    BY DEF Inv, RegisterInv, RegisterRows, HostsUnique
  <2>3. CASE e = d
    BY <1>1, <2>1, <2>3 DEF Stored
  <2>4. CASE f = d
    BY <1>1, <2>1, <2>4 DEF Stored
  <2>5. CASE e # d /\ f # d
    <3>1. {e, f} \cap moved # {}
      BY <1>1, <2>2, <2>5 DEF Stored
    <3> QED BY <1>3, <3>1
  <2> QED BY <2>3, <2>4, <2>5
<1> QED BY <1>2, <1>5, <1>6, <1>7, <1>8, <1>9 DEF RegisterRows, Inv, RegisterInv

LEMMA SoftwareKeepsRegister ==
  ASSUME Inv, NEW i \in SoftwareIds, NEW row \in SoftwareRow, SoftwareForm(i, row),
         scene' = scene
  PROVE  Kept /\ RegisterRows'
<1>0. TablesTyped
  BY TablesOfInv
<1>1. software'[i] = row /\ row # None /\ \A j \in SoftwareIds : j # i => software'[j] = software[j]
  BY <1>0, NoneIsApart DEF SoftwareForm, TablesTyped, Table
<1>2. UNCHANGED <<orgs, depts, users, devices, moved, gone>>
  BY DEF SoftwareForm
<1>3. \A j \in SoftwareIds : Stored(software, j) =>
        /\ Stored(software', j) /\ software'[j].org = software[j].org
        /\ software'[j].device = software[j].device
  BY <1>1 DEF SoftwareForm, Stored
<1>4. Kept
  BY <1>2, <1>3 DEF Kept, RowsStay, Stored
<1>5. SoftwareUnique'
  <2> SUFFICES ASSUME NEW j \in SoftwareIds, NEW k \in SoftwareIds,
                      software'[j] # None, software'[k] # None,
                      software'[k].device = software'[j].device,
                      software'[k].name = software'[j].name
               PROVE  k = j
    BY DEF SoftwareUnique, OnDevice, Stored
  <2>1. \A g \in SoftwareIds :
          Stored(software, g) /\ software[g].device = row.device /\ software[g].name = row.name
            => g = i
    BY DEF SoftwareForm, OnDevice
  <2>2. \A g, h \in SoftwareIds :
          /\ Stored(software, g) /\ Stored(software, h)
          /\ software[h].device = software[g].device /\ software[h].name = software[g].name
          => h = g
    BY DEF Inv, RegisterInv, RegisterRows, SoftwareUnique, OnDevice
  <2> QED BY <1>1, <2>1, <2>2 DEF Stored
<1>6. /\ \A u \in UserIds : UserPlaced(u)'
      /\ \A d \in DeviceIds : DevicePlaced(d)'
  BY <1>2 DEF Inv, RegisterInv, RegisterRows, UserPlaced, DevicePlaced, Stored
<1>7. HostsUnique' /\ DepartmentNamesUnique'
  BY <1>2 DEF Inv, RegisterInv, RegisterRows, HostsUnique, DepartmentNamesUnique, UnusedIn, Stored
<1> QED BY <1>2, <1>4, <1>5, <1>6, <1>7 DEF RegisterRows, Inv, RegisterInv

\* So do the writes of update findings and the steps that write nothing.
LEMMA RestKeepsRegister ==
  ASSUME Inv, UpdateForm, scene' = scene
  PROVE  Kept /\ RegisterRows'
<1>1. UNCHANGED <<orgs, depts, users, devices, software, moved>>
  BY DEF UpdateForm
<1>2. gone \subseteq gone' /\ gone' \subseteq DeptIds \cup UpdateIds
  BY DEF UpdateForm, Inv, RegisterInv, RegisterRows
<1>3. Kept
  BY <1>1, <1>2 DEF Kept, RowsStay, Stored
<1>4. /\ \A u \in UserIds : UserPlaced(u)'
      /\ \A d \in DeviceIds : DevicePlaced(d)'
  BY <1>1 DEF Inv, RegisterInv, RegisterRows, UserPlaced, DevicePlaced, Stored
<1>5. SoftwareUnique' /\ HostsUnique' /\ DepartmentNamesUnique'
  BY <1>1 DEF Inv, RegisterInv, RegisterRows, SoftwareUnique, OnDevice, HostsUnique,
     DepartmentNamesUnique, UnusedIn, Stored
<1> QED BY <1>2, <1>3, <1>4, <1>5 DEF RegisterRows

-----------------------------------------------------------------------------
\* The operations.
LEMMA OpKnown ==
  ASSUME NEW c \in Call
  PROVE  c.op \in {"create organization", "update organization",
                   "suspend organization", "create department",
                   "update department", "remove department", "create user",
                   "update user", "deactivate user", "create device",
                   "update device", "retire device", "create software",
                   "update software", "remove software", "create update",
                   "update update", "remove update"}
<1>1. \A op, Ids, Bodies : c \in CallOf(op, Ids, Bodies) => c.op = op
  BY DEF CallOf
<1> QED BY <1>1, CallKinds

\* A check has the same outcome while the tables are the same.
LEMMA ChecksStay ==
  ASSUME UNCHANGED tables, NEW c \in Call, NEW row, NEW k
  PROVE  (Check(c, row, k) => Check(c, row, k)') /\ Fetched(c)' = Fetched(c)
<1>0. UNCHANGED <<orgs, depts, users, devices, software, updates>>
  BY DEF tables
<1>1. Fetched(c)' = Fetched(c)
  BY <1>0 DEF Fetched
<1>2. CreateOrganization(c, row, k) => CreateOrganization(c, row, k)'
  BY <1>0 DEF CreateOrganization, Unused, Stored
<1>3. UpdateOrganization(c, row, k) => UpdateOrganization(c, row, k)'
  BY <1>0 DEF UpdateOrganization, Unused, Stored, InScope
<1>4. SuspendOrganization(c, row, k) => SuspendOrganization(c, row, k)'
  BY <1>0 DEF SuspendOrganization, Stored
<1>5. CreateDepartment(c, row, k) => CreateDepartment(c, row, k)'
  BY <1>0 DEF CreateDepartment, Stored, InScope, UnusedIn
<1>6. UpdateDepartment(c, row, k) => UpdateDepartment(c, row, k)'
  BY <1>0 DEF UpdateDepartment, Lookup, Stored, InScope, UnusedIn
<1>7. RemoveDepartment(c, row, k) => RemoveDepartment(c, row, k)'
  BY <1>0 DEF RemoveDepartment, Lookup, Stored, InScope
<1>8. CreateUser(c, row, k) => CreateUser(c, row, k)'
  BY <1>0 DEF CreateUser, InScope, Unused, Stored, Belongs
<1>9. UpdateUser(c, row, k) => UpdateUser(c, row, k)'
  BY <1>0 DEF UpdateUser, Lookup, InScope, Unused, Stored, Belongs, Home
<1>10. DeactivateUser(c, row, k) => DeactivateUser(c, row, k)'
  BY <1>0 DEF DeactivateUser, Lookup, Stored, InScope
<1>11. CreateDevice(c, row, k) => CreateDevice(c, row, k)'
  BY <1>0 DEF CreateDevice, InScope, UnusedIn, Stored, Belongs
<1>12. UpdateDevice(c, row, k) => UpdateDevice(c, row, k)'
  BY <1>0 DEF UpdateDevice, Lookup, InScope, UnusedIn, Stored, Belongs, Home
<1>13. RetireDevice(c, row, k) => RetireDevice(c, row, k)'
  BY <1>0 DEF RetireDevice, Lookup, Stored, InScope
<1>14. CreateSoftware(c, row, k) => CreateSoftware(c, row, k)'
  BY <1>0 DEF CreateSoftware, InScope, Stored, Belongs, OnDevice
<1>15. UpdateSoftware(c, row, k) => UpdateSoftware(c, row, k)'
  BY <1>0 DEF UpdateSoftware, Lookup, Stored, InScope, OnDevice
<1>16. RemoveSoftware(c, row, k) => RemoveSoftware(c, row, k)'
  BY <1>0 DEF RemoveSoftware, Lookup, Stored, InScope
<1>17. CreateUpdate(c, row, k) => CreateUpdate(c, row, k)'
  BY <1>0 DEF CreateUpdate, Lookup, Stored, InScope
<1>18. UpdateUpdate(c, row, k) => UpdateUpdate(c, row, k)'
  BY <1>0 DEF UpdateUpdate, Lookup, Stored, InScope
<1>19. RemoveUpdate(c, row, k) => RemoveUpdate(c, row, k)'
  BY <1>0 DEF RemoveUpdate, Lookup, Stored, InScope
<1>20. c.op = "create organization" => (Check(c, row, k) => Check(c, row, k)')
  BY <1>2 DEF Check
<1>21. c.op = "update organization" => (Check(c, row, k) => Check(c, row, k)')
  BY <1>3 DEF Check
<1>22. c.op = "suspend organization" => (Check(c, row, k) => Check(c, row, k)')
  BY <1>4 DEF Check
<1>23. c.op = "create department" => (Check(c, row, k) => Check(c, row, k)')
  BY <1>5 DEF Check
<1>24. c.op = "update department" => (Check(c, row, k) => Check(c, row, k)')
  BY <1>6 DEF Check
<1>25. c.op = "remove department" => (Check(c, row, k) => Check(c, row, k)')
  BY <1>7 DEF Check
<1>26. c.op = "create user" => (Check(c, row, k) => Check(c, row, k)')
  BY <1>8 DEF Check
<1>27. c.op = "update user" => (Check(c, row, k) => Check(c, row, k)')
  BY <1>9 DEF Check
<1>28. c.op = "deactivate user" => (Check(c, row, k) => Check(c, row, k)')
  BY <1>10 DEF Check
<1>29. c.op = "create device" => (Check(c, row, k) => Check(c, row, k)')
  BY <1>11 DEF Check
<1>30. c.op = "update device" => (Check(c, row, k) => Check(c, row, k)')
  BY <1>12 DEF Check
<1>31. c.op = "retire device" => (Check(c, row, k) => Check(c, row, k)')
  BY <1>13 DEF Check
<1>32. c.op = "create software" => (Check(c, row, k) => Check(c, row, k)')
  BY <1>14 DEF Check
<1>33. c.op = "update software" => (Check(c, row, k) => Check(c, row, k)')
  BY <1>15 DEF Check
<1>34. c.op = "remove software" => (Check(c, row, k) => Check(c, row, k)')
  BY <1>16 DEF Check
<1>35. c.op = "create update" => (Check(c, row, k) => Check(c, row, k)')
  BY <1>17 DEF Check
<1>36. c.op = "update update" => (Check(c, row, k) => Check(c, row, k)')
  BY <1>18 DEF Check
<1>37. c.op = "remove update" => (Check(c, row, k) => Check(c, row, k)')
  BY <1>19 DEF Check
<1> QED
  BY OpKnown, <1>1, <1>20, <1>21, <1>22, <1>23, <1>24, <1>25, <1>26, <1>27, <1>28, <1>29, <1>30, <1>31, <1>32, <1>33, <1>34, <1>35, <1>36, <1>37

LEMMA VettedStays ==
  ASSUME UNCHANGED tables, NEW c \in Call, NEW row, NEW at, Vetted(c, row, at)
  PROVE  Vetted(c, row, at)'
BY ChecksStay DEF Vetted

\* Requests that are served alone stay vetted, whoever begins, goes on or ends.
LEMMA BeginAlone ==
  ASSUME Inv, NEW r \in Requests, NEW c \in Calls(scene), Receive(r, c), Alone(scene)
  PROVE  OneAtATime'
<1>1. \A q \in Requests : requests[q] = None
  BY DEF Receive, Quiet
<1>2. /\ requests'[r] = [call |-> c, row |-> Fetched(c), at |-> 2]
      /\ \A q \in Requests : q # r => requests'[q] = None
      /\ Check(c, None, 1) /\ UNCHANGED tables
  BY <1>1 DEF Receive, Inv, AssetInv, Types
<1>3. PICK row : row = Fetched(c)
  OBVIOUS
<1>4. Vetted(c, row, 2)
  <2>1. 2 .. 2 - 1 = {}
    OBVIOUS
  <2> QED BY <1>2, <1>3, <2>1 DEF Vetted
<1>5. Vetted(c, row, 2)'
  <2>1. c \in Call
    BY InventoryAssumption DEF Inv, AssetInv, Types
  <2> QED BY <1>2, <1>4, <2>1, VettedStays
<1>6. /\ requests'[r].call = c /\ requests'[r].row = row /\ requests'[r].at = 2
  BY <1>2, <1>3
<1>7. Vetted(requests[r].call, requests[r].row, requests[r].at)'
  BY <1>5, <1>6
<1> QED BY <1>2, <1>7 DEF OneAtATime

LEMMA PassAlone ==
  ASSUME Inv, NEW r \in Requests, Pass(r), Alone(scene)
  PROVE  OneAtATime'
<1>1. requests[r] # None /\ requests[r] \in Held
  BY DEF Pass, Reading, Inv, AssetInv, Types, Maybe
<1>2. /\ \A q \in Requests : requests[q] # None => q = r
      /\ Vetted(requests[r].call, requests[r].row, requests[r].at)
  BY <1>1 DEF Inv, RegisterInv, OneAtATime
<1>3. PICK c, row, at : c = requests[r].call /\ row = requests[r].row /\ at = requests[r].at
  OBVIOUS
<1>4. /\ requests'[r].call = c /\ requests'[r].row = row /\ requests'[r].at = at + 1
      /\ at \in 2 .. 5 /\ c \in Call
  BY <1>1, <1>3 DEF Pass, Held, Inv, AssetInv, Types
<1>5. /\ \A q \in Requests : requests'[q] # None => q = r
      /\ Check(c, row, at) /\ UNCHANGED tables
  BY <1>2, <1>3 DEF Pass, Passes, Inv, AssetInv, Types
<1>6. Vetted(c, row, at + 1)
  <2>1. Vetted(c, row, at)
    BY <1>2, <1>3
  <2>2. ASSUME NEW k \in 2 .. (at + 1) - 1 PROVE Check(c, row, k)
    <3>1. k \in 2 .. at - 1 \/ k = at
      BY <1>4
    <3>2. CASE k \in 2 .. at - 1
      BY <2>1, <3>2 DEF Vetted
    <3>3. CASE k = at
      BY <1>5, <3>3
    <3> QED BY <3>1, <3>2, <3>3
  <2> QED BY <2>1, <2>2 DEF Vetted
<1>7. Vetted(c, row, at + 1)'
  BY <1>4, <1>5, <1>6, VettedStays
<1>8. Vetted(requests[r].call, requests[r].row, requests[r].at)'
  BY <1>4, <1>7
<1> QED BY <1>5, <1>8 DEF OneAtATime

LEMMA EndAlone ==
  ASSUME Inv, NEW r \in Requests, requests[r] # None, Alone(scene),
         requests' = [requests EXCEPT ![r] = None]
  PROVE  OneAtATime'
<1>1. \A q \in Requests : requests'[q] = None
  BY DEF Inv, RegisterInv, OneAtATime, AssetInv, Types
<1> QED BY <1>1 DEF OneAtATime

\* The register stays in order.
LEMMA EndKeepsRegister ==
  ASSUME Inv, NEW r \in Requests, requests[r] # None,
         requests' = [requests EXCEPT ![r] = None],
         Kept, RegisterRows', scene' = scene
  PROVE  RegisterInv'
<1>1. \A q \in Requests : requests'[q] # None => requests'[q] = requests[q] /\ requests[q] # None
  BY DEF Inv, AssetInv, Types
<1>2. ASSUME NEW q \in Requests, requests'[q] # None PROVE Looked(q)'
  <2>1. Looked(q) /\ AssetInv
    BY <1>1, <1>2 DEF Inv, RegisterInv
  <2> QED BY <1>1, <1>2, <2>1, OthersLooked
<1>3. Alone(scene) => OneAtATime'
  BY EndAlone
<1> QED BY <1>2, <1>3 DEF RegisterInv

LEMMA WritesKeepRegister ==
  ASSUME Inv, NEW r \in Requests, DirectoryWrite(r) \/ AssetWrite(r)
  PROVE  RegisterInv'
<1>1. /\ scene' = scene /\ requests' = [requests EXCEPT ![r] = None]
      /\ requests[r] # None
  <2>1. CASE DirectoryWrite(r)
    BY <2>1 DEF DirectoryWrite, InsertOrganization, ChangeOrganization, Suspend,
       InsertDepartment, ChangeDepartment, DeleteDepartment, InsertUser, ChangeUser,
       Deactivate, OrgWrite, DeptWrite, UserWrite, Write, Written
  <2>2. CASE AssetWrite(r)
    BY <2>2 DEF AssetWrite, InsertDevice, ChangeDevice, Retire, InsertSoftware,
       ChangeSoftware, MarkRemoved, InsertUpdate, ChangeUpdate, DeleteUpdate,
       DeviceWrite, SoftwareWrite, UpdateWrite, Write, Written
  <2> QED BY <2>1, <2>2
<1>2. Kept /\ RegisterRows'
  <2>1. CASE InsertOrganization(r) \/ ChangeOrganization(r) \/ Suspend(r)
    BY <1>1, <2>1, OrgForms, OrgKeepsRegister
  <2>2. CASE InsertDepartment(r) \/ ChangeDepartment(r) \/ DeleteDepartment(r)
    BY <1>1, <2>2, DeptForms, DeptKeepsRegister
  <2>3. CASE InsertUser(r) \/ ChangeUser(r) \/ Deactivate(r)
    BY <1>1, <2>3, UserForms, UserKeepsRegister
  <2>4. CASE InsertDevice(r) \/ ChangeDevice(r) \/ Retire(r)
    BY <1>1, <2>4, DeviceForms, DeviceKeepsRegister
  <2>5. CASE InsertSoftware(r) \/ ChangeSoftware(r) \/ MarkRemoved(r)
    BY <1>1, <2>5, SoftwareForms, SoftwareKeepsRegister
  <2>6. CASE InsertUpdate(r) \/ ChangeUpdate(r) \/ DeleteUpdate(r)
    BY <1>1, <2>6, UpdateForms, RestKeepsRegister
  <2> QED BY <2>1, <2>2, <2>3, <2>4, <2>5, <2>6 DEF DirectoryWrite, AssetWrite
<1> QED BY <1>1, <1>2, EndKeepsRegister

LEMMA StaysKeepRegister ==
  ASSUME Inv, UNCHANGED <<scene, tables, moved, gone>>
  PROVE  Kept /\ RegisterRows'
<1>1. UpdateForm /\ scene' = scene
  BY DEF UpdateForm, tables
<1> QED BY <1>1, RestKeepsRegister

\* A request that begins or goes on, beside others.
LEMMA StepKeepsRegister ==
  ASSUME Inv, NEW r \in Requests, UNCHANGED <<scene, tables, moved, gone>>,
         \A q \in Requests : q # r => requests'[q] = requests[q],
         Looked(r)', Alone(scene) => OneAtATime'
  PROVE  RegisterInv'
<1>1. Kept /\ RegisterRows'
  BY StaysKeepRegister
<1>2. ASSUME NEW q \in Requests, q # r, requests'[q] # None PROVE Looked(q)'
  <2>1. requests'[q] = requests[q] /\ requests[q] # None /\ Looked(q) /\ AssetInv
    BY <1>2 DEF Inv, RegisterInv
  <2> QED BY <1>1, <2>1, OthersLooked
<1>3. \A q \in Requests : requests'[q] # None => Looked(q)'
  BY <1>2
<1>4. Alone(scene') => OneAtATime'
  OBVIOUS
<1> QED BY <1>1, <1>3, <1>4 DEF RegisterInv

LEMMA NextKeepsInv == Inv /\ [Next]_vars => Inv'
<1> SUFFICES ASSUME Inv, [Next]_vars PROVE Inv'
  OBVIOUS
<1>0. AssetInv'
  BY NextKeepsAssets DEF Inv
<1> SUFFICES RegisterInv'
  BY <1>0 DEF Inv
<1>1. CASE UNCHANGED vars
  <2>1. Kept /\ RegisterRows'
    BY <1>1, StaysKeepRegister DEF vars
  <2>2. \A q \in Requests : requests'[q] # None => Looked(q)'
    BY <1>1, <2>1, OthersLooked DEF vars, Inv, RegisterInv
  <2>3. Alone(scene') => OneAtATime'
    <3> SUFFICES ASSUME Alone(scene), NEW q \in Requests, requests[q] # None
                 PROVE  Vetted(requests[q].call, requests[q].row, requests[q].at)'
      BY <1>1 DEF vars, OneAtATime, Inv, RegisterInv
    <3>1. PICK c, row, at :
            c = requests[q].call /\ row = requests[q].row /\ at = requests[q].at
      OBVIOUS
    <3>2. Vetted(c, row, at) /\ c \in Call
      BY <3>1 DEF Inv, RegisterInv, OneAtATime, AssetInv, Types, Maybe, Held
    <3>3. Vetted(c, row, at)'
      BY <1>1, <3>2, VettedStays DEF vars
    <3>4. requests'[q].call = c /\ requests'[q].row = row /\ requests'[q].at = at
      BY <1>1, <3>1 DEF vars
    <3> QED BY <3>3, <3>4
  <2> QED BY <2>1, <2>2, <2>3 DEF RegisterInv
<1>2. ASSUME NEW r \in Requests, NEW c \in Calls(scene), Receive(r, c) PROVE RegisterInv'
  <2>1. Looked(r)' /\ (Alone(scene) => OneAtATime')
    BY <1>2, NewLooked, BeginAlone
  <2>2. /\ UNCHANGED <<scene, tables, moved, gone>>
        /\ \A q \in Requests : q # r => requests'[q] = requests[q]
    BY <1>2 DEF Receive, Inv, AssetInv, Types
  <2> QED BY <2>1, <2>2, StepKeepsRegister
<1>3. ASSUME NEW r \in Requests, Pass(r) PROVE RegisterInv'
  <2>1. Looked(r)' /\ (Alone(scene) => OneAtATime')
    BY <1>3, PassedLooked, PassAlone
  <2>2. /\ UNCHANGED <<scene, tables, moved, gone>>
        /\ \A q \in Requests : q # r => requests'[q] = requests[q]
    BY <1>3 DEF Pass, Inv, AssetInv, Types
  <2> QED BY <2>1, <2>2, StepKeepsRegister
<1>4. ASSUME NEW r \in Requests, Refuse(r) \/ Reject(r) PROVE RegisterInv'
  <2>1. /\ UNCHANGED <<scene, tables, moved, gone>>
        /\ requests' = [requests EXCEPT ![r] = None] /\ requests[r] # None
    BY <1>4 DEF Refuse, Reject, Reading, Written
  <2> QED BY <2>1, StaysKeepRegister, EndKeepsRegister
<1>5. ASSUME NEW r \in Requests, DirectoryWrite(r) \/ AssetWrite(r) PROVE RegisterInv'
  BY <1>5, WritesKeepRegister
<1> QED BY <1>1, <1>2, <1>3, <1>4, <1>5 DEF Next

-----------------------------------------------------------------------------
\* Tables and requests have their types.
THEOREM InventoryTypes == Spec => []TypeOK
<1>1. Inv => TypeOK
  <2> SUFFICES ASSUME Inv PROVE TypeOK
    OBVIOUS
  <2>1. gone \subseteq DeptIds \cup UpdateIds
    BY DEF Inv, RegisterInv, RegisterRows
  <2> QED BY <2>1 DEF Inv, AssetInv, Types, TypeOK, Maybe, Held
<1>2. Init => Inv
  BY InitAssets, InitRegister DEF Inv
<1> QED BY NextKeepsInv, <1>1, <1>2, PTL DEF Spec

\* Whatever requests overlap: software is listed with its device unless the
\* device has moved, an update finding with its software, and the flag and the
\* status of an update finding agree unless a client has chosen the status.
THEOREM AssetsTogether == Spec => []AssetsStayTogether
<1>1. AssetInv => AssetsStayTogether
  <2> SUFFICES ASSUME AssetInv PROVE AssetsStayTogether
    OBVIOUS
  <2>0. TablesTyped
    BY DEF AssetInv, Types, TablesTyped
  <2>1. SoftwareFollowsDevice
    <3>1. \A i \in SoftwareIds : Stored(software, i) => software[i].device \in DeviceIds
      BY <2>0 DEF TablesTyped, Table, Maybe, Stored, SoftwareRow
    <3> QED
      BY <3>1 DEF SoftwareFollowsDevice, ListSoftware, ListDevices, AssetInv, Assets, Placed
  <2>2. UpdateFollowsSoftware
    <3>1. \A w \in UpdateIds : Stored(updates, w) => updates[w].software \in SoftwareIds
      BY <2>0 DEF TablesTyped, Table, Maybe, Stored, UpdateRow
    <3> QED
      BY <3>1 DEF UpdateFollowsSoftware, ListSoftware, ListUpdates, AssetInv, Assets, Attached
  <2>3. DerivedStatusAgrees
    BY DEF DerivedStatusAgrees, AssetInv, Assets, Agrees
  <2> QED BY <2>1, <2>2, <2>3 DEF AssetsStayTogether
<1> QED BY InitAssets, NextKeepsAssets, <1>1, PTL DEF Spec

\* Whatever requests overlap: the department of a user exists, is of the user's
\* organization unless the user has moved, and the assignee of a device is of its
\* organization unless one of them has moved.
THEOREM ScopedLists == Spec => []ListsStayInScope
<1>1. Inv => ListsStayInScope
  <2> SUFFICES ASSUME Inv PROVE ListsStayInScope
    OBVIOUS
  <2>0. TablesTyped
    BY TablesOfInv
  <2>1. ASSUME NEW u \in UserIds, Stored(users, u)
        PROVE  /\ users[u].org \in OrgIds /\ users[u].dept \in DeptIds
               /\ Stored(orgs, users[u].org) /\ Stored(depts, users[u].dept)
               /\ Alone(scene) \/ u \notin moved => depts[users[u].dept].org = users[u].org
    <3>1. UserPlaced(u)
      BY DEF Inv, RegisterInv, RegisterRows
    <3>2. users[u].org \in OrgIds /\ users[u].dept \in DeptIds
      BY <2>0, <2>1 DEF TablesTyped, Table, Maybe, Stored, UserRow
    <3> QED BY <2>1, <3>1, <3>2 DEF UserPlaced
  <2>2. DepartmentsReferenced
    BY <2>1 DEF DepartmentsReferenced
  <2>3. UserListsStayInScope
    <3> SUFFICES ASSUME NEW s \in Scopes, NEW u \in ListUsers(s)
                 PROVE  /\ users[u].org \in ListOrganizations(s)
                        /\ Alone(scene) \/ u \notin moved =>
                             users[u].dept \in ListDepartments(s)
      BY DEF UserListsStayInScope
    <3>1. u \in UserIds /\ Stored(users, u) /\ s \in {None, users[u].org}
      BY DEF ListUsers
    <3> QED BY <2>1, <3>1 DEF ListOrganizations, ListDepartments
  <2>4. AssigneesStayInScope
    <3> SUFFICES ASSUME NEW s \in Scopes, NEW d \in ListDevices(s),
                        devices[d].assignee # None,
                        {d, devices[d].assignee} \cap moved = {}
                 PROVE  devices[d].assignee \in ListUsers(s)
      BY DEF AssigneesStayInScope
    <3>1. d \in DeviceIds /\ Stored(devices, d) /\ s \in {None, devices[d].org}
      BY DEF ListDevices
    <3>2. devices[d].assignee \in UserIds
      BY <2>0, <3>1 DEF TablesTyped, Table, Maybe, Stored, DeviceRow
    <3>3. DevicePlaced(d)
      BY <3>1 DEF Inv, RegisterInv, RegisterRows
    <3> QED BY <3>1, <3>2, <3>3 DEF DevicePlaced, ListUsers
  <2> QED BY <2>2, <2>3, <2>4 DEF ListsStayInScope
<1>2. Init => Inv
  BY InitAssets, InitRegister DEF Inv
<1> QED BY NextKeepsInv, <1>1, <1>2, PTL DEF Spec

\* Whatever requests overlap, a device has a software once; host names and
\* department names occur once while requests wait for each other.
THEOREM Once == Spec => []NothingTwice
<1>1. Inv => NothingTwice
  BY DEF Inv, RegisterInv, RegisterRows, NothingTwice
<1>2. Init => Inv
  BY InitAssets, InitRegister DEF Inv
<1> QED BY NextKeepsInv, <1>1, <1>2, PTL DEF Spec

\* A request that is served alone passes the constraints of the schema.
LEMMA WriterAccepted ==
  ASSUME Inv, Alone(scene), NEW r \in Requests, Written(r)
  PROVE  Accepted(requests[r].call, requests[r].row)
<1> DEFINE c == requests[r].call
           row == requests[r].row
<1>1. c \in Call
  BY WriterLooked
<1>2. Check(c, None, 1) /\ \A k \in 2 .. Reads(c.op) : Check(c, row, k)
  BY WriterVetted
<1>3. Reads(c.op) = 2 \/ Reads(c.op) = 3 \/ Reads(c.op) = 4 => Check(c, row, 2)
  BY <1>2
<1>4. Reads(c.op) = 3 \/ Reads(c.op) = 4 => Check(c, row, 3)
  BY <1>2
<1>5. Reads(c.op) = 4 => Check(c, row, 4)
  BY <1>2
<1> HIDE DEF c, row
<1>6. OrganizationConstraints(c)
  <2>1. c.op = "create organization" => Unused(orgs, "mail", c.body.mail, c.id)
    BY <1>1, <1>2, CallTypes DEF Check, CreateOrganization
  <2>2. c.op = "update organization" =>
          (c.body.mail # None => Unused(orgs, "mail", c.body.mail, c.id))
    BY <1>3 DEF Check, UpdateOrganization, Reads
  <2> QED BY <2>1, <2>2 DEF OrganizationConstraints
<1>7. DepartmentConstraints(c)
  <2>1. c.op = "update department" => Stored(depts, c.id)
    BY <1>2 DEF Check, UpdateDepartment, Lookup
  <2>2. c.op = "remove department" => Stored(depts, c.id)
    BY <1>2 DEF Check, RemoveDepartment, Lookup
  <2>3. c.op = "remove department" =>
          \A u \in UserIds : Stored(users, u) => users[u].dept # c.id
    BY <1>3 DEF Check, RemoveDepartment, Reads
  <2> QED BY <2>1, <2>2, <2>3 DEF DepartmentConstraints
<1>8. UserConstraints(c)
  <2>1. c.op = "create user" => Unused(users, "mail", c.body.mail, c.id)
    BY <1>1, <1>2, CallTypes DEF Check, CreateUser
  <2>2. c.op = "create user" => Stored(depts, c.body.dept)
    BY <1>4 DEF Check, CreateUser, Reads, Belongs
  <2>3. c.op = "update user" =>
          (c.body.mail # None => Unused(users, "mail", c.body.mail, c.id))
    BY <1>3 DEF Check, UpdateUser, Reads
  <2>4. c.op = "update user" => (c.body.dept # None => Stored(depts, c.body.dept))
    BY <1>5 DEF Check, UpdateUser, Reads, Belongs
  <2> QED BY <2>1, <2>2, <2>3, <2>4 DEF UserConstraints
<1>9. SoftwareConstraints(c, row)
  <2>1. c.op = "create software" => OnDevice(c.body.device, c.body.name, None)
    BY <1>4 DEF Check, CreateSoftware, Reads
  <2>2. c.op = "update software" =>
          (c.body.name # None => OnDevice(row.device, c.body.name, c.id))
    BY <1>3 DEF Check, UpdateSoftware, Reads
  <2> QED BY <2>1, <2>2 DEF SoftwareConstraints
<1>10. UpdateConstraints(c)
  <2>1. c.op = "update update" => Stored(updates, c.id)
    BY <1>2 DEF Check, UpdateUpdate, Lookup
  <2>2. c.op = "remove update" => Stored(updates, c.id)
    BY <1>2 DEF Check, RemoveUpdate, Lookup
  <2> QED BY <2>1, <2>2 DEF UpdateConstraints
<1> QED BY <1>6, <1>7, <1>8, <1>9, <1>10 DEF Accepted, c, row

\* Requests that wait for each other never meet a constraint of the schema.
THEOREM SufficientChecks == Spec => []ChecksSuffice
<1>1. Inv => ChecksSuffice
  BY WriterAccepted DEF ChecksSuffice
<1>2. Init => Inv
  BY InitAssets, InitRegister DEF Inv
<1> QED BY NextKeepsInv, <1>1, <1>2, PTL DEF Spec

-----------------------------------------------------------------------------
(* Whose rows a request changes *)

LEMMA OneRowKept ==
  ASSUME NEW table, NEW changed, NEW i \in DOMAIN table, NEW row, NEW org,
         changed = [table EXCEPT ![i] = row],
         table[i] = None \/ table[i].org = org,
         row = None \/ row.org = org
  PROVE  RowsKept(table, changed, org)
BY DEF RowsKept
LEMMA NoRowChanged ==
  ASSUME NEW table, NEW org PROVE RowsKept(table, table, org)
BY DEF RowsKept

\* The first check of a request of a scope, as it still holds when the request,
\* served alone, writes.
LEMMA WriterScope ==
  ASSUME Inv, Alone(scene), NEW r \in Requests, Written(r), requests[r].call.scope # None
  PROVE  LET c == requests[r].call  s == c.scope IN
         /\ c.op \in {"create department", "create user", "create device", "create software"}
              => c.body.org = s
         /\ c.op \in {"create user", "update user"} => c.body.role # "Super Admin"
         /\ c.op \in {"update department", "remove department"} => depts[c.id].org = s
         /\ c.op \in {"update user", "deactivate user"} => users[c.id].org = s
         /\ c.op \in {"update device", "retire device"} => devices[c.id].org = s
         /\ c.op \in {"update user", "update device"} => c.body.org \in {None, s}
         /\ c.op \in {"update software", "remove software", "create update"} =>
              software[c.id].org = s
         /\ c.op \in {"update update", "remove update"} => updates[c.id].org = s
         /\ c.op = "create update" => requests[r].row = software[c.id]
<1> DEFINE c == requests[r].call
<1>1. Check(c, None, 1) /\ requests[r].row = Fetched(c)
  BY WriterVetted
<1>2. c.scope # None
  OBVIOUS
<1> SUFFICES
         /\ c.op \in {"create department", "create user", "create device", "create software"}
              => c.body.org = c.scope
         /\ c.op \in {"create user", "update user"} => c.body.role # "Super Admin"
         /\ c.op \in {"update department", "remove department"} => depts[c.id].org = c.scope
         /\ c.op \in {"update user", "deactivate user"} => users[c.id].org = c.scope
         /\ c.op \in {"update device", "retire device"} => devices[c.id].org = c.scope
         /\ c.op \in {"update user", "update device"} => c.body.org \in {None, c.scope}
         /\ c.op \in {"update software", "remove software", "create update"} =>
              software[c.id].org = c.scope
         /\ c.op \in {"update update", "remove update"} => updates[c.id].org = c.scope
         /\ c.op = "create update" => requests[r].row = software[c.id]
  OBVIOUS
<1> HIDE DEF c
<1>3. /\ c.op = "create department" => c.body.org = c.scope
      /\ c.op = "create device" => c.body.org = c.scope
      /\ c.op = "create software" => c.body.org = c.scope
  BY <1>1, <1>2 DEF Check, CreateDepartment, CreateDevice, CreateSoftware, InScope
<1>4. c.op = "create user" => c.body.org = c.scope /\ c.body.role # "Super Admin"
  BY <1>1, <1>2 DEF Check, CreateUser, InScope
<1>5. c.op = "update user" =>
        /\ users[c.id].org = c.scope /\ c.body.org \in {None, c.scope}
        /\ c.body.role # "Super Admin"
  BY <1>1, <1>2 DEF Check, UpdateUser, Lookup, InScope
<1>6. c.op = "deactivate user" => users[c.id].org = c.scope
  BY <1>1, <1>2 DEF Check, DeactivateUser, Lookup, InScope
<1>7. /\ c.op = "update department" => depts[c.id].org = c.scope
      /\ c.op = "remove department" => depts[c.id].org = c.scope
  BY <1>1, <1>2 DEF Check, UpdateDepartment, RemoveDepartment, Lookup, InScope
<1>8. c.op = "update device" => devices[c.id].org = c.scope /\ c.body.org \in {None, c.scope}
  BY <1>1, <1>2 DEF Check, UpdateDevice, Lookup, InScope
<1>9. c.op = "retire device" => devices[c.id].org = c.scope
  BY <1>1, <1>2 DEF Check, RetireDevice, Lookup, InScope
<1>10. /\ c.op = "update software" => software[c.id].org = c.scope
       /\ c.op = "remove software" => software[c.id].org = c.scope
       /\ c.op = "create update" => software[c.id].org = c.scope
  BY <1>1, <1>2 DEF Check, UpdateSoftware, RemoveSoftware, CreateUpdate, Lookup, InScope
<1>11. /\ c.op = "update update" => updates[c.id].org = c.scope
       /\ c.op = "remove update" => updates[c.id].org = c.scope
  BY <1>1, <1>2 DEF Check, UpdateUpdate, RemoveUpdate, Lookup, InScope
<1>12. c.op = "create update" => requests[r].row = software[c.id]
  BY <1>1 DEF Fetched
<1> QED
  BY <1>3, <1>4, <1>5, <1>6, <1>7, <1>8, <1>9, <1>10, <1>11, <1>12

\* What WritesStayInScope asks of a step that writes for scope s.
WithinScope(s) ==
  /\ RowsKept(depts, depts', s) /\ RowsKept(users, users', s)
  /\ RowsKept(devices, devices', s) /\ RowsKept(software, software', s)
  /\ RowsKept(updates, updates', s)
  /\ \A u \in UserIds :
       Stored(users', u) /\ users'[u].role = "Super Admin" =>
         Stored(users, u) /\ users[u].role = "Super Admin"

LEMMA SameUsers ==
  ASSUME users' = users
  PROVE  \A u \in UserIds :
           Stored(users', u) /\ users'[u].role = "Super Admin" =>
             Stored(users, u) /\ users[u].role = "Super Admin"
BY DEF Stored

LEMMA DirectoryWithinScope ==
  ASSUME Inv, Alone(scene), NEW r \in Requests, requests[r].call.scope # None,
         DirectoryWrite(r)
  PROVE  WithinScope(requests[r].call.scope)
<1> DEFINE c == requests[r].call
           s == c.scope
<1>0. TablesTyped
  BY TablesOfInv
<1>d. DOMAIN depts = DeptIds /\ DOMAIN users = UserIds
  BY <1>0 DEF TablesTyped, Table
<1>1. CASE InsertOrganization(r) \/ ChangeOrganization(r) \/ Suspend(r)
  <2>1. UNCHANGED <<depts, users, devices, software, updates>>
    BY <1>1 DEF InsertOrganization, ChangeOrganization, Suspend, OrgWrite
  <2> QED BY <2>1, NoRowChanged, SameUsers DEF WithinScope
<1>2. CASE InsertDepartment(r) \/ ChangeDepartment(r) \/ DeleteDepartment(r)
  <2>1. UNCHANGED <<users, devices, software, updates>> /\ Written(r)
    BY <1>2 DEF InsertDepartment, ChangeDepartment, DeleteDepartment, DeptWrite, Write
  <2>2. c \in Call
    BY <2>1, WriterLooked
  <2>3. RowsKept(depts, depts', s)
    <3>1. CASE InsertDepartment(r)
      <4>1. c.op = "create department"
        BY <3>1 DEF InsertDepartment, DeptWrite, Write
      <4>2. c.body.org = s
        BY <2>1, <4>1, WriterScope
      <4>3. PICK d \in DeptIds : depts[d] = None /\ depts' = [depts EXCEPT ![d] = c.body]
        BY <3>1 DEF InsertDepartment, Body
      <4> HIDE DEF c, s
      <4> QED BY <1>d, <4>2, <4>3, OneRowKept
    <3>2. CASE ChangeDepartment(r)
      <4>1. c.op = "update department"
        BY <3>2 DEF ChangeDepartment, DeptWrite, Write
      <4>2. depts[c.id].org = s /\ c.id \in DeptIds
        BY <2>1, <2>2, <4>1, WriterScope, CallTypes
      <4> DEFINE new == [org |-> depts[c.id].org, name |-> Or(c.body.name, depts[c.id].name)]
      <4>3. depts' = [depts EXCEPT ![c.id] = new] /\ new.org = depts[c.id].org
        BY <1>d, <3>2, <4>2 DEF ChangeDepartment, Body, Id
      <4> HIDE DEF c, s, new
      <4> QED BY <1>d, <4>2, <4>3, OneRowKept
    <3>3. CASE DeleteDepartment(r)
      <4>1. c.op = "remove department"
        BY <3>3 DEF DeleteDepartment, DeptWrite, Write
      <4>2. depts[c.id].org = s /\ c.id \in DeptIds
        BY <2>1, <2>2, <4>1, WriterScope, CallTypes
      <4>3. depts' = [depts EXCEPT ![c.id] = None]
        BY <3>3 DEF DeleteDepartment, Id
      <4> HIDE DEF c, s
      <4> QED BY <1>d, <4>2, <4>3, OneRowKept
    <3> QED BY <1>2, <3>1, <3>2, <3>3
  <2> QED BY <2>1, <2>3, NoRowChanged, SameUsers DEF WithinScope
<1>3. CASE InsertUser(r) \/ ChangeUser(r) \/ Deactivate(r)
  <2>1. UNCHANGED <<depts, devices, software, updates>> /\ Written(r)
    BY <1>3 DEF InsertUser, ChangeUser, Deactivate, UserWrite, Write
  <2>2. c \in Call
    BY <2>1, WriterLooked
  <2>3. \E u \in UserIds : \E row :
          /\ users' = [users EXCEPT ![u] = row]
          /\ users[u] = None \/ users[u].org = s
          /\ row.org = s
          /\ row.role = "Super Admin" => users[u] # None /\ users[u].role = "Super Admin"
    <3>1. CASE InsertUser(r)
      <4>1. c.op = "create user"
        BY <3>1 DEF InsertUser, UserWrite, Write
      <4>2. c.body.org = s /\ c.body.role # "Super Admin"
        BY <2>1, <4>1, WriterScope
      <4> DEFINE new == [org |-> c.body.org, dept |-> c.body.dept, mail |-> c.body.mail,
                         role |-> c.body.role, status |-> "ACTIVE"]
      <4>3. PICK u \in UserIds : users[u] = None /\ users' = [users EXCEPT ![u] = new]
        BY <3>1 DEF InsertUser, Body
      <4>4. new.org = c.body.org /\ new.role = c.body.role
        OBVIOUS
      <4> HIDE DEF c, s, new
      <4> QED BY <4>2, <4>3, <4>4
    <3>2. CASE ChangeUser(r)
      <4>1. c.op = "update user"
        BY <3>2 DEF ChangeUser, UserWrite, Write
      <4>2. /\ users[c.id].org = s /\ c.id \in UserIds /\ Stored(users, c.id)
            /\ c.body.org \in {None, s} /\ c.body.role # "Super Admin"
        BY <2>1, <2>2, <4>1, WriterScope, WriterLooked, CallTypes DEF Remembers
      <4> DEFINE old == users[c.id]
                 new == [org |-> Or(c.body.org, old.org), dept |-> Or(c.body.dept, old.dept),
                         mail |-> Or(c.body.mail, old.mail), role |-> Or(c.body.role, old.role),
                         status |-> Or(c.body.status, old.status)]
      <4>3. users' = [users EXCEPT ![c.id] = new]
        BY <1>d, <3>2, <4>2 DEF ChangeUser, Body, Id
      <4>4. new.org = Or(c.body.org, old.org) /\ new.role = Or(c.body.role, old.role)
        OBVIOUS
      <4>5. new.org = s /\ (new.role = "Super Admin" => old.role = "Super Admin")
        BY <4>2, <4>4 DEF Or
      <4> HIDE DEF c, s, new
      <4> QED BY <4>2, <4>3, <4>5 DEF Stored
    <3>3. CASE Deactivate(r)
      <4>1. c.op = "deactivate user"
        BY <3>3 DEF Deactivate, UserWrite, Write
      <4>2. users[c.id].org = s /\ c.id \in UserIds /\ Stored(users, c.id)
        BY <2>1, <2>2, <4>1, WriterScope, WriterLooked, CallTypes DEF Remembers
      <4> DEFINE new == [users[c.id] EXCEPT !.status = "INACTIVE"]
      <4>3. users' = [users EXCEPT ![c.id] = new]
        BY <1>d, <3>3, <4>2 DEF Deactivate, Id
      <4>4. new.org = users[c.id].org /\ new.role = users[c.id].role
        BY <1>0, <4>2 DEF TablesTyped, Table, Maybe, Stored, UserRow
      <4> HIDE DEF c, s, new
      <4> QED BY <4>2, <4>3, <4>4 DEF Stored
    <3> QED BY <1>3, <3>1, <3>2, <3>3
  <2>4. PICK u, row :
          /\ u \in UserIds
          /\ users' = [users EXCEPT ![u] = row]
          /\ users[u] = None \/ users[u].org = s
          /\ row.org = s
          /\ row.role = "Super Admin" => users[u] # None /\ users[u].role = "Super Admin"
    BY <2>3
  <2>5. RowsKept(users, users', s)
    BY <1>d, <2>4, OneRowKept
  <2>6. \A t \in UserIds :
          Stored(users', t) /\ users'[t].role = "Super Admin" =>
            Stored(users, t) /\ users[t].role = "Super Admin"
    BY <1>d, <2>4 DEF Stored
  <2> QED BY <2>1, <2>5, <2>6, NoRowChanged DEF WithinScope
<1> QED BY <1>1, <1>2, <1>3 DEF DirectoryWrite

LEMMA AssetsWithinScope ==
  ASSUME Inv, Alone(scene), NEW r \in Requests, requests[r].call.scope # None,
         AssetWrite(r)
  PROVE  WithinScope(requests[r].call.scope)
<1> DEFINE c == requests[r].call
           s == c.scope
<1>0. TablesTyped
  BY TablesOfInv
<1>d. DOMAIN devices = DeviceIds /\ DOMAIN software = SoftwareIds /\ DOMAIN updates = UpdateIds
  BY <1>0 DEF TablesTyped, Table
<1>1. CASE InsertDevice(r) \/ ChangeDevice(r) \/ Retire(r)
  <2>1. UNCHANGED <<depts, users, software, updates>> /\ Written(r)
    BY <1>1 DEF InsertDevice, ChangeDevice, Retire, DeviceWrite, Write
  <2>2. c \in Call
    BY <2>1, WriterLooked
  <2>3. RowsKept(devices, devices', s)
    <3>1. CASE InsertDevice(r)
      <4>1. c.op = "create device"
        BY <3>1 DEF InsertDevice, DeviceWrite, Write
      <4>2. c.body.org = s
        BY <2>1, <4>1, WriterScope
      <4> DEFINE new == [org |-> c.body.org, host |-> c.body.host,
                         assignee |-> c.body.assignee, status |-> "ACTIVE"]
      <4>3. PICK d \in DeviceIds : devices[d] = None /\ devices' = [devices EXCEPT ![d] = new]
        BY <3>1 DEF InsertDevice, Body
      <4>4. new.org = s
        BY <4>2
      <4> HIDE DEF c, s, new
      <4> QED BY <1>d, <4>3, <4>4, OneRowKept
    <3>2. CASE ChangeDevice(r)
      <4>1. c.op = "update device"
        BY <3>2 DEF ChangeDevice, DeviceWrite, Write
      <4>2. devices[c.id].org = s /\ c.id \in DeviceIds /\ c.body.org \in {None, s}
        BY <2>1, <2>2, <4>1, WriterScope, CallTypes
      <4> DEFINE old == devices[c.id]
                 new == [org |-> Or(c.body.org, old.org), host |-> Or(c.body.host, old.host),
                         assignee |-> Or(c.body.assignee, old.assignee),
                         status |-> Or(c.body.status, old.status)]
      <4>3. devices' = [devices EXCEPT ![c.id] = new] /\ new.org = Or(c.body.org, old.org)
        BY <1>d, <3>2, <4>2 DEF ChangeDevice, Body, Id
      <4> HIDE DEF c, s, new
      <4> QED BY <1>d, <4>2, <4>3, OneRowKept DEF Or
    <3>3. CASE Retire(r)
      <4>1. c.op = "retire device"
        BY <3>3 DEF Retire, DeviceWrite, Write
      <4>2. devices[c.id].org = s /\ c.id \in DeviceIds /\ Stored(devices, c.id)
        BY <2>1, <2>2, <4>1, WriterScope, WriterLooked, CallTypes DEF Remembers
      <4> DEFINE new == [devices[c.id] EXCEPT !.status = "RETIRED"]
      <4>3. devices' = [devices EXCEPT ![c.id] = new]
        BY <1>d, <3>3, <4>2 DEF Retire, Id
      <4>4. new.org = s
        BY <1>0, <4>2 DEF TablesTyped, Table, Maybe, Stored, DeviceRow
      <4> HIDE DEF c, s, new
      <4> QED BY <1>d, <4>2, <4>3, <4>4, OneRowKept
    <3> QED BY <1>1, <3>1, <3>2, <3>3
  <2> QED BY <2>1, <2>3, NoRowChanged, SameUsers DEF WithinScope
<1>2. CASE InsertSoftware(r) \/ ChangeSoftware(r) \/ MarkRemoved(r)
  <2>1. UNCHANGED <<depts, users, devices, updates>> /\ Written(r)
    BY <1>2 DEF InsertSoftware, ChangeSoftware, MarkRemoved, SoftwareWrite, Write
  <2>2. c \in Call
    BY <2>1, WriterLooked
  <2>3. RowsKept(software, software', s)
    <3>1. CASE InsertSoftware(r)
      <4>1. c.op = "create software"
        BY <3>1 DEF InsertSoftware, SoftwareWrite, Write
      <4>2. c.body.org = s
        BY <2>1, <4>1, WriterScope
      <4> DEFINE new == [org |-> c.body.org, device |-> c.body.device, name |-> c.body.name,
                         version |-> c.body.version,
                         status |-> Or(c.body.status, "INSTALLED")]
      <4>3. PICK i \in SoftwareIds :
              software[i] = None /\ software' = [software EXCEPT ![i] = new]
        BY <3>1 DEF InsertSoftware, Body
      <4>4. new.org = s
        BY <4>2
      <4> HIDE DEF c, s, new
      <4> QED BY <1>d, <4>3, <4>4, OneRowKept
    <3>2. CASE ChangeSoftware(r)
      <4>1. c.op = "update software"
        BY <3>2 DEF ChangeSoftware, SoftwareWrite, Write
      <4>2. software[c.id].org = s /\ c.id \in SoftwareIds
        BY <2>1, <2>2, <4>1, WriterScope, CallTypes
      <4> DEFINE old == software[c.id]
                 new == [org |-> old.org, device |-> old.device,
                         name |-> Or(c.body.name, old.name),
                         version |-> Or(c.body.version, old.version),
                         status |-> Or(c.body.status, old.status)]
      <4>3. software' = [software EXCEPT ![c.id] = new] /\ new.org = old.org
        BY <1>d, <3>2, <4>2 DEF ChangeSoftware, Body, Id
      <4> HIDE DEF c, s, new
      <4> QED BY <1>d, <4>2, <4>3, OneRowKept
    <3>3. CASE MarkRemoved(r)
      <4>1. c.op = "remove software"
        BY <3>3 DEF MarkRemoved, SoftwareWrite, Write
      <4>2. software[c.id].org = s /\ c.id \in SoftwareIds
        BY <2>1, <2>2, <4>1, WriterScope, CallTypes
      <4> DEFINE old == software[c.id]
                 new == [org |-> old.org, device |-> old.device, name |-> old.name,
                         version |-> old.version, status |-> "REMOVED"]
      <4>3. software' = [software EXCEPT ![c.id] = new] /\ new.org = old.org
        BY <1>d, <3>3, <4>2 DEF MarkRemoved, Id
      <4> HIDE DEF c, s, new
      <4> QED BY <1>d, <4>2, <4>3, OneRowKept
    <3> QED BY <1>2, <3>1, <3>2, <3>3
  <2> QED BY <2>1, <2>3, NoRowChanged, SameUsers DEF WithinScope
<1>3. CASE InsertUpdate(r) \/ ChangeUpdate(r) \/ DeleteUpdate(r)
  <2>1. UNCHANGED <<depts, users, devices, software>> /\ Written(r)
    BY <1>3 DEF InsertUpdate, ChangeUpdate, DeleteUpdate, UpdateWrite, Write
  <2>2. c \in Call
    BY <2>1, WriterLooked
  <2>3. RowsKept(updates, updates', s)
    <3>1. CASE InsertUpdate(r)
      <4>1. c.op = "create update"
        BY <3>1 DEF InsertUpdate, UpdateWrite, Write
      <4>2. requests[r].row.org = s
        BY <2>1, <4>1, WriterScope
      <4> DEFINE held == requests[r].row
                 new == Assess(c, [org |-> held.org, device |-> held.device, software |-> c.id],
                               Or(c.body.installed, held.version), c.body.latest)
      <4>3. PICK w \in UpdateIds : updates[w] = None /\ updates' = [updates EXCEPT ![w] = new]
        BY <3>1 DEF InsertUpdate
      <4>4. new.org = s
        BY <4>2 DEF Assess
      <4> HIDE DEF c, s, new
      <4> QED BY <1>d, <4>3, <4>4, OneRowKept
    <3>2. CASE ChangeUpdate(r)
      <4>1. c.op = "update update"
        BY <3>2 DEF ChangeUpdate, UpdateWrite, Write
      <4>2. updates[c.id].org = s /\ c.id \in UpdateIds
        BY <2>1, <2>2, <4>1, WriterScope, CallTypes
      <4> DEFINE held == requests[r].row
                 new == Assess(c, updates[c.id], Or(c.body.installed, held.installed),
                               Or(c.body.latest, held.latest))
      <4>3. updates' = [updates EXCEPT ![c.id] = new]
        BY <1>d, <3>2, <4>2 DEF ChangeUpdate
      <4>4. new.org = s
        BY <4>2 DEF Assess
      <4> HIDE DEF c, s, new
      <4> QED BY <1>d, <4>2, <4>3, <4>4, OneRowKept
    <3>3. CASE DeleteUpdate(r)
      <4>1. c.op = "remove update"
        BY <3>3 DEF DeleteUpdate, UpdateWrite, Write
      <4>2. updates[c.id].org = s /\ c.id \in UpdateIds
        BY <2>1, <2>2, <4>1, WriterScope, CallTypes
      <4>3. updates' = [updates EXCEPT ![c.id] = None]
        BY <3>3 DEF DeleteUpdate, Id
      <4> HIDE DEF c, s
      <4> QED BY <1>d, <4>2, <4>3, OneRowKept
    <3> QED BY <1>3, <3>1, <3>2, <3>3
  <2> QED BY <2>1, <2>3, NoRowChanged, SameUsers DEF WithinScope
<1> QED BY <1>1, <1>2, <1>3 DEF AssetWrite

\* A request of a scope, served alone, changes rows of its organization only,
\* leaves them there, and makes nobody a Super Admin.
THEOREM ScopedWrites == Spec => WritesStayInScope
<1> DEFINE A == \A r \in Requests :
       LET s == requests[r].call.scope IN
       Alone(scene) /\ requests[r] # None /\ requests'[r] = None /\ s # None =>
         /\ RowsKept(depts, depts', s) /\ RowsKept(users, users', s)
         /\ RowsKept(devices, devices', s) /\ RowsKept(software, software', s)
         /\ RowsKept(updates, updates', s)
         /\ \A u \in UserIds :
              Stored(users', u) /\ users'[u].role = "Super Admin" =>
                Stored(users, u) /\ users[u].role = "Super Admin"
<1>1. Inv /\ [Next]_vars => [A]_vars
  <2> SUFFICES ASSUME Inv, Next, NEW r \in Requests, Alone(scene), requests[r] # None,
                      requests'[r] = None, requests[r].call.scope # None
               PROVE  WithinScope(requests[r].call.scope)
    BY DEF WithinScope
  <2>1. ASSUME UNCHANGED tables PROVE WithinScope(requests[r].call.scope)
    BY <2>1, NoRowChanged, SameUsers DEF tables, WithinScope
  <2>2. ASSUME NEW q \in Requests, DirectoryWrite(q) PROVE q = r
    <3>1. requests' = [requests EXCEPT ![q] = None]
      BY <2>2 DEF DirectoryWrite, InsertOrganization, ChangeOrganization, Suspend,
         InsertDepartment, ChangeDepartment, DeleteDepartment, InsertUser, ChangeUser,
         Deactivate, OrgWrite, DeptWrite, UserWrite, Write
    <3> QED BY <3>1 DEF Inv, AssetInv, Types
  <2>3. ASSUME NEW q \in Requests, AssetWrite(q) PROVE q = r
    <3>1. requests' = [requests EXCEPT ![q] = None]
      BY <2>3 DEF AssetWrite, InsertDevice, ChangeDevice, Retire, InsertSoftware,
         ChangeSoftware, MarkRemoved, InsertUpdate, ChangeUpdate, DeleteUpdate,
         DeviceWrite, SoftwareWrite, UpdateWrite, Write
    <3> QED BY <3>1 DEF Inv, AssetInv, Types
  <2>4. ASSUME NEW q \in Requests,
               \/ \E c \in Calls(scene) : Receive(q, c)
               \/ Pass(q) \/ Refuse(q) \/ Reject(q)
        PROVE  UNCHANGED tables
    BY <2>4 DEF Receive, Pass, Refuse, Reject
  <2>5. ASSUME NEW q \in Requests, DirectoryWrite(q)
        PROVE  WithinScope(requests[r].call.scope)
    BY <2>2, <2>5, DirectoryWithinScope
  <2>6. ASSUME NEW q \in Requests, AssetWrite(q)
        PROVE  WithinScope(requests[r].call.scope)
    BY <2>3, <2>6, AssetsWithinScope
  <2> QED BY <2>1, <2>4, <2>5, <2>6 DEF Next
<1>2. Init => Inv
  BY InitAssets, InitRegister DEF Inv
<1> QED BY NextKeepsInv, <1>1, <1>2, PTL DEF Spec, WritesStayInScope
=============================================================================
