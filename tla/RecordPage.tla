----------------------------- MODULE RecordPage -----------------------------
(***************************************************************************)
(* The pages on which records are listed and edited: a table, a form and   *)
(* two selections that depend on each other.  The lists of a page are      *)
(* requested together when it is opened and arrive in any order; the table *)
(* is requested again after every change.                                  *)
(*                                                                         *)
(* Every row belongs to a parent (an organization) and, inside it, to a    *)
(* child: the department of a user (Users.tsx), the device of a software   *)
(* record (SoftwareInventory.tsx) or the user that a device is assigned to *)
(* (Devices.tsx).  Of the other fields of the form the row they were       *)
(* loaded from is kept.  Removing a row only marks it.                     *)
(***************************************************************************)
EXTENDS Naturals, Sequences, SequencesExt, Absence

CONSTANTS
  PageRows, Parents, Children, FormCalls,
  HomeOf(_),     \* the parent of a child
  ParentList,  \* the lists as the backend orders them
  ChildList,
  Tables,      \* the rows at the start: a set of [PageRows -> PageRow]
  PageKinds,   \* the pages that are looked at: users, software, devices
  MaxClicks

VARIABLES
  kind,    \* the page
  table,   \* rows in the database
  listed,  \* what the page has: rows, parents, children (None: not yet)
  form, loading, pending, clicks
pageVars == <<kind, table, listed, form, loading, pending, clicks>>

PageRow == [parent : Parents, child : Children]
\* was: the child of the edited row; own: whether it is still as loaded.
Form == [editing : PageRows \cup {None}, source : PageRows \cup {None},
         parent : Parents \cup {None}, child : Children \cup {None},
         was : Children \cup {None}, own : BOOLEAN]
EmptyForm == [editing |-> None, source |-> None, parent |-> None,
              child |-> None, was |-> None, own |-> FALSE]
CallsOfPage == [does : {"rows", "parents", "children", "save", "remove"},
                row : PageRows \cup {None}, body : Form, served : BOOLEAN,
                parents : Seq(Parents)]

\* The backend lists parents and children; a page has room for its requests.
ASSUME PageAssumption ==
  /\ ParentList \in Seq(Parents) /\ ChildList \in Seq(Children)
  /\ Tables \subseteq [PageRows -> PageRow]
  /\ PageKinds \subseteq {"users", "software", "devices"}
  /\ \E f \in [{"rows", "parents", "children"} -> FormCalls] :
       \A x, y \in DOMAIN f : f[x] = f[y] => x = y
  /\ None \notin PageRows \cup Parents \cup Children
  /\ None \notin PageRow /\ None \notin CallsOfPage

PageTypeOK ==
  /\ kind \in PageKinds /\ loading \in BOOLEAN
  /\ table \in [PageRows -> PageRow]
  /\ \A r \in PageRows : listed.rows[r] # None => listed.rows[r] \in PageRow
  /\ form \in Form
  /\ \A c \in FormCalls : pending[c] # None => pending[c] \in CallsOfPage

-----------------------------------------------------------------------------
(* The form *)

First(list) == IF list = << >> THEN None ELSE list[1]
\* The children in a list that a parent has, and the one that comes first.
Own(children, parent) == {d \in ToSet(children) : HomeOf(d) = parent}
FirstOwn(children, parent) ==
  LET own == Own(children, parent) IN
  IF own = {} THEN None
  ELSE children[CHOOSE i \in DOMAIN children :
         children[i] \in own /\ \A j \in 1 .. i - 1 : children[j] \notin own]

\* The effect that runs whenever a selection or the list of children changes:
\* on the page of software not while a row is edited, for devices never.
Dependent(f) == kind = "users" \/ (kind = "software" /\ f.editing = None)
Followed(f) == f.parent # None /\ Dependent(f)
Follow(f, children) ==
  IF Followed(f) /\ f.child \notin Own(children, f.parent)
  THEN [f EXCEPT !.child = FirstOwn(children, f.parent)] ELSE f

\* Mutant: the form is emptied, and the page goes on editing its row.
ResetForm_KeepsRow(parents) ==
  [EmptyForm EXCEPT !.parent = First(parents), !.editing = form.editing]
ResetForm(parents) == [EmptyForm EXCEPT !.parent = First(parents)]

Free(c) == pending[c] = None
\* A handler goes on with the list of parents that it saw when it began.
Started(does, row, body, parents) ==
  [does |-> does, row |-> row, body |-> body, served |-> FALSE, parents |-> parents]
Request(c, does, row, body) ==
  pending' = [pending EXCEPT ![c] = Started(does, row, body,
                IF does = "save" THEN listed.parents ELSE << >>)]
Click == clicks < MaxClicks /\ clicks' = clicks + 1

\* The page opens: three requests at once.  The order of the ids is nothing.
PageInit ==
  /\ kind \in PageKinds
  /\ table \in Tables
  /\ listed = [rows |-> [r \in PageRows |-> None], parents |-> << >>, children |-> << >>]
  /\ form = EmptyForm /\ loading = TRUE /\ clicks = 0
  /\ LET f == CHOOSE f \in [{"rows", "parents", "children"} -> FormCalls] :
                \A x, y \in DOMAIN f : f[x] = f[y] => x = y
     IN pending = [c \in FormCalls |->
          IF \E d \in DOMAIN f : f[d] = c
          THEN Started(CHOOSE d \in DOMAIN f : f[d] = c, None, EmptyForm, << >>)
          ELSE None]

-----------------------------------------------------------------------------
(* Handlers *)

HandleEdit(r) ==
  LET row == listed.rows[r] IN
  /\ row # None /\ Click
  /\ form' = Follow([editing |-> r, source |-> r, parent |-> row.parent,
                     child |-> row.child, was |-> row.child, own |-> TRUE],
                    listed.children)
  /\ UNCHANGED <<kind, table, listed, loading, pending>>
\* The selections; the page of software hides them while a row is edited.
Shown == kind # "software" \/ form.editing = None
ChangeParent(p) ==
  /\ Shown /\ p \in ToSet(listed.parents) /\ p # form.parent /\ Click
  /\ form' = Follow([form EXCEPT !.parent = p, !.own = FALSE], listed.children)
  /\ UNCHANGED <<kind, table, listed, loading, pending>>
ChangeChild(d) ==
  /\ Shown /\ d # form.child /\ Click
  /\ d \in Own(listed.children, form.parent) \/ (kind = "devices" /\ d = None)
  /\ form' = Follow([form EXCEPT !.child = d, !.own = FALSE], listed.children)
  /\ UNCHANGED <<kind, table, listed, loading, pending>>

CancelEdit ==
  /\ form.editing # None /\ Click
  /\ form' = Follow(ResetForm(listed.parents), listed.children)
  /\ UNCHANGED <<kind, table, listed, loading, pending>>

\* The button is disabled while the page is loading, and the browser refuses a
\* form in which a required selection shows none of its options.
Complete == Shown =>
  /\ form.parent \in ToSet(listed.parents)
  /\ kind = "devices" \/ form.child \in Own(listed.children, form.parent)
HandleSubmit(c) ==
  /\ ~loading /\ Complete /\ Free(c) /\ Click
  /\ Request(c, "save", form.editing, form) /\ loading' = TRUE
  /\ UNCHANGED <<kind, table, listed, form>>
HandleRemove(c, r) ==
  /\ listed.rows[r] # None /\ Free(c) /\ Click
  /\ Request(c, "remove", r, EmptyForm) /\ loading' = TRUE
  /\ UNCHANGED <<kind, table, listed, form>>
FetchRows(c) ==
  /\ Free(c) /\ Click /\ Request(c, "rows", None, EmptyForm) /\ loading' = TRUE
  /\ UNCHANGED <<kind, table, listed, form>>

\* The backend: it refuses a child outside its parent.  Only users and devices
\* move, and a device keeps its user when none is sent; a new row is not
\* followed.
Moves(call) == call.does = "save" /\ call.row # None /\ kind # "software"
Moved(row, body) ==
  [parent |-> body.parent, child |-> IF body.child = None THEN row.child ELSE body.child]
Admissible(call) ==
  Moves(call) /\ call.body.child # None => HomeOf(call.body.child) = call.body.parent
ServeChange(c) ==
  /\ ~Free(c) /\ pending[c].does \in {"save", "remove"} /\ ~pending[c].served
  /\ Admissible(pending[c])
  /\ pending' = [pending EXCEPT ![c].served = TRUE]
  /\ table' = IF Moves(pending[c])
              THEN [table EXCEPT ![pending[c].row] = Moved(@, pending[c].body)]
              ELSE table
  /\ UNCHANGED <<kind, listed, form, loading, clicks>>

\* A change has succeeded: a save empties whatever form is open now; the
\* table is requested again, and the end of the handler clears the flag that
\* this request has set.
Succeed(c) ==
  /\ ~Free(c) /\ pending[c].served
  /\ form' = IF pending[c].does = "save"
             THEN Follow(ResetForm(pending[c].parents), listed.children)
             ELSE form
  /\ pending' = [pending EXCEPT ![c] = Started("rows", None, EmptyForm, << >>)]
  /\ loading' = FALSE
  /\ UNCHANGED <<kind, table, listed, clicks>>

ShowRows(c) ==
  /\ ~Free(c) /\ pending[c].does = "rows"
  /\ pending' = [pending EXCEPT ![c] = None]
  /\ listed' = [listed EXCEPT !.rows = table] /\ loading' = FALSE
  /\ UNCHANGED <<kind, table, form, clicks>>
\* The first parent is selected, unless one is selected already.
ShowParents(c) ==
  /\ ~Free(c) /\ pending[c].does = "parents"
  /\ pending' = [pending EXCEPT ![c] = None]
  /\ listed' = [listed EXCEPT !.parents = ParentList]
  /\ form' = IF form.parent # None THEN form
             ELSE Follow([form EXCEPT !.parent = First(ParentList)], listed.children)
  /\ UNCHANGED <<kind, table, loading, clicks>>
ShowChildren(c) ==
  /\ ~Free(c) /\ pending[c].does = "children"
  /\ pending' = [pending EXCEPT ![c] = None]
  /\ listed' = [listed EXCEPT !.children = ChildList]
  /\ form' = Follow(form, ChildList)
  /\ UNCHANGED <<kind, table, loading, clicks>>
\* A call fails: nothing but a message, and the page is not loading.
Fails(c) ==
  /\ ~Free(c) /\ pending' = [pending EXCEPT ![c] = None]
  /\ loading' = IF pending[c].does \in {"parents", "children"} THEN loading ELSE FALSE
  /\ UNCHANGED <<kind, table, listed, form, clicks>>

PageNext ==
  \/ \E r \in PageRows : HandleEdit(r)
  \/ \E p \in Parents : ChangeParent(p)
  \/ CancelEdit
  \/ \E d \in Children \cup {None} : ChangeChild(d)
  \/ \E c \in FormCalls :
       \/ HandleSubmit(c) \/ FetchRows(c) \/ \E r \in PageRows : HandleRemove(c, r)
       \/ ServeChange(c) \/ Succeed(c) \/ Fails(c)
       \/ ShowRows(c) \/ ShowParents(c) \/ ShowChildren(c)
PageSpec == PageInit /\ [][PageNext]_pageVars

-----------------------------------------------------------------------------
(* Properties *)

IsSave(c) == ~Free(c) /\ pending[c].does = "save"

\* A PATCH carries the values of the row it is sent to, whatever answers have
\* changed the form meanwhile; and in whatever order lists, answers and clicks
\* come, a selection that depends on another one is valid or empty.
SavesReachTheirRow ==
  /\ \A c \in FormCalls : IsSave(c) => pending[c].row = pending[c].body.source
  /\ LET own == Own(listed.children, form.parent) IN
     Followed(form) => form.child \in (IF own = {} THEN {None} ELSE own)

\* The effect of the page of users "keeps the dependent selection valid": an
\* edit in which nobody touches the selections keeps the department.
UntouchedEditKeepsChild ==
  \A c \in FormCalls : IsSave(c) /\ pending[c].row # None /\ pending[c].body.own =>
    pending[c].body.child = pending[c].body.was
=============================================================================
