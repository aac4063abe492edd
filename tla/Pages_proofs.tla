---------------------------- MODULE Pages_proofs ----------------------------
(***************************************************************************)
(* Two kinds of pages.  The dialog of recommendations shows what belongs   *)
(* to its finding, and a page of records sends every change to the row it  *)
(* was made for and keeps its selections valid, for any lists and any      *)
(* order of clicks and answers.                                            *)
(***************************************************************************)
EXTENDS RecommendationDialog, RecordPage, TLAPS, WellFoundedInduction

-----------------------------------------------------------------------------
(* The dialog *)

Generating(c) == Is(c, "recommend") \/ Is(c, "users")
Creating(c) == Is(c, "create") \/ Is(c, "created") \/ Is(c, "exists")

\* At most one recommendation is being generated, for the finding that the page
\* remembers; a dialog that is open meanwhile is about that finding.  What is
\* sent to be stored is a finding with its own recommendation.
CallsSound ==
  /\ traffic \in [DialogCalls -> Traffic \cup {None}]
  /\ \A c \in DialogCalls : Generating(c) => traffic[c].about = dialog.loadingId
  /\ \A c, d \in DialogCalls : Generating(c) /\ Generating(d) => c = d
  /\ \A c \in DialogCalls : Creating(c) => traffic[c].text = traffic[c].about
DialogSound ==
  /\ dialog \in [finding : MaybeFinding, recommendation : MaybeFinding,
                 assignable : DialogOrgs \cup {None}, created : BOOLEAN,
                 conflict : BOOLEAN, loadingId : MaybeFinding, creating : BOOLEAN]
  /\ dialog.finding # None /\ dialog.loadingId # None =>
       dialog.finding = dialog.loadingId
  /\ dialog.finding # None =>
       /\ dialog.recommendation \in {dialog.finding, None}
       /\ dialog.assignable \in {OrgOf(dialog.finding), None}
StoredSound ==
  /\ stored \in Seq([finding : DialogFindings, text : DialogFindings])
  /\ \A i \in DOMAIN stored : stored[i].text = stored[i].finding
DialogInv == CallsSound /\ DialogSound /\ StoredSound

LEMMA InitDialog == DialogInit => DialogInv
<1> SUFFICES ASSUME DialogInit PROVE DialogInv
  OBVIOUS
<1>1. CallsSound
  BY DEF DialogInit, CallsSound, Generating, Creating, Is
<1>2. DialogSound
  BY DEF DialogInit, DialogSound, Closed, MaybeFinding
<1>3. StoredSound
  BY DEF DialogInit, StoredSound
<1> QED BY <1>1, <1>2, <1>3 DEF DialogInv

LEMMA DialogStep ==
  ASSUME DialogInv, [DialogNext]_dialogVars
  PROVE  DialogInv'
<1> USE DEF DialogInv
<1>0. \A f \in DialogFindings : f # None /\ OrgOf(f) \in DialogOrgs
  BY DialogAssumption DEF DialogOrgs
<1>1. CASE UNCHANGED dialogVars
  BY <1>1 DEF dialogVars, CallsSound, DialogSound, StoredSound, Generating, Creating, Is
<1>2. ASSUME NEW c \in DialogCalls, NEW f \in DialogFindings,
             HandleGenerateRecommendation(c, f)
      PROVE  DialogInv'
  <2>1. dialog' = [finding |-> f, recommendation |-> None, assignable |-> None,
                   created |-> FALSE, conflict |-> FALSE, loadingId |-> f,
                   creating |-> dialog.creating]
    BY <1>2 DEF HandleGenerateRecommendation, Closed
  <2>2. traffic' = [traffic EXCEPT ![c] = [kind |-> "recommend", about |-> f, text |-> None]]
    BY <1>2 DEF HandleGenerateRecommendation, Send
  <2>3. \A d \in DialogCalls : ~Generating(d)
    <3> SUFFICES ASSUME NEW d \in DialogCalls, Generating(d) PROVE FALSE
      OBVIOUS
    <3>1. traffic[d] \in Traffic
      BY DEF CallsSound, Generating, Is
    <3> QED
      BY <1>0, <1>2, <3>1 DEF CallsSound, HandleGenerateRecommendation, Traffic
  <2>4. CallsSound'
    BY <2>1, <2>2, <2>3 DEF CallsSound, Generating, Creating, Is, Traffic, MaybeFinding
  <2>5. DialogSound'
    BY <2>1 DEF DialogSound, MaybeFinding
  <2>6. StoredSound'
    BY <1>2 DEF HandleGenerateRecommendation, StoredSound
  <2> QED BY <2>4, <2>5, <2>6
<1>3. ASSUME NEW c \in DialogCalls, ShowRecommendation(c) PROVE DialogInv'
  <2>1. traffic[c] \in Traffic /\ traffic[c].about = dialog.loadingId /\ Generating(c)
    BY <1>3 DEF ShowRecommendation, CallsSound, Generating, Is
  <2>2. dialog' = [dialog EXCEPT !.recommendation = traffic[c].about]
    BY <1>3 DEF ShowRecommendation
  <2>3. /\ traffic' = [traffic EXCEPT ![c] = [kind |-> "users", about |-> traffic[c].about,
                                             text |-> traffic[c].text]]
    <3>1. [traffic[c] EXCEPT !.kind = "users"] =
            [kind |-> "users", about |-> traffic[c].about, text |-> traffic[c].text]
      BY <2>1 DEF Traffic
    <3> QED BY <1>3, <3>1 DEF ShowRecommendation
  <2>4. CallsSound'
    BY <2>1, <2>2, <2>3 DEF CallsSound, DialogSound, Generating, Creating, Is, Traffic
  <2>5. DialogSound'
    BY <1>0, <2>1, <2>2 DEF DialogSound, MaybeFinding, Traffic
  <2>6. StoredSound'
    BY <1>3 DEF ShowRecommendation, StoredSound
  <2> QED BY <2>4, <2>5, <2>6
<1>4. ASSUME NEW c \in DialogCalls, RecommendationFails(c) PROVE DialogInv'
  <2>1. Generating(c) /\ traffic' = [traffic EXCEPT ![c] = None]
    BY <1>4 DEF RecommendationFails, Generating, End
  <2>2. dialog' = [dialog EXCEPT !.loadingId = None]
    BY <1>4 DEF RecommendationFails
  <2>3. CallsSound'
    BY <2>1, <2>2 DEF CallsSound, Generating, Creating, Is
  <2>4. DialogSound'
    BY <2>2 DEF DialogSound, MaybeFinding
  <2>5. StoredSound'
    BY <1>4 DEF RecommendationFails, StoredSound
  <2> QED BY <2>3, <2>4, <2>5
<1>5. ASSUME NEW c \in DialogCalls, ShowUsers(c) PROVE DialogInv'
  <2>1. Generating(c) /\ traffic' = [traffic EXCEPT ![c] = None]
    BY <1>5 DEF ShowUsers, Generating, End
  <2>2. traffic[c] \in Traffic /\ traffic[c].about = dialog.loadingId
    BY <2>1 DEF CallsSound, Generating, Is
  <2>3. PICK offered \in {OrgOf(traffic[c].about), None} :
          dialog' = [dialog EXCEPT !.assignable = offered, !.loadingId = None]
    BY <1>5 DEF ShowUsers
  <2>4. /\ dialog'.finding = dialog.finding /\ dialog'.recommendation = dialog.recommendation
        /\ dialog'.assignable = offered /\ dialog'.loadingId = None
    BY <2>3 DEF DialogSound
  <2>5. CallsSound'
    BY <2>1, <2>4 DEF CallsSound, Generating, Creating, Is
  <2>6. DialogSound'
    <3>1. traffic[c].about \in DialogFindings
      BY <2>2 DEF Traffic
    <3>2. offered \in DialogOrgs \cup {None}
      BY <1>0, <2>3, <3>1
    <3>3. dialog' \in [finding : MaybeFinding, recommendation : MaybeFinding,
                      assignable : DialogOrgs \cup {None}, created : BOOLEAN,
                      conflict : BOOLEAN, loadingId : MaybeFinding, creating : BOOLEAN]
      BY <2>3, <3>2 DEF DialogSound, MaybeFinding
    <3>4. dialog.finding # None => dialog.finding = traffic[c].about
      BY <1>0, <2>2, <3>1 DEF DialogSound
    <3> QED BY <2>3, <2>4, <3>3, <3>4 DEF DialogSound
  <2>7. StoredSound'
    BY <1>5 DEF ShowUsers, StoredSound
  <2> QED BY <2>5, <2>6, <2>7
<1>6. ASSUME CloseRecommendation PROVE DialogInv'
  <2>1. dialog' = [finding |-> None, recommendation |-> None, assignable |-> None,
                   created |-> FALSE, conflict |-> FALSE, loadingId |-> dialog.loadingId,
                   creating |-> dialog.creating]
    BY <1>6 DEF CloseRecommendation, Closed
  <2>2. CallsSound'
    BY <1>6, <2>1 DEF CloseRecommendation, CallsSound, Generating, Creating, Is
  <2>3. DialogSound'
    BY <2>1 DEF DialogSound, MaybeFinding
  <2>4. StoredSound'
    BY <1>6 DEF CloseRecommendation, StoredSound
  <2> QED BY <2>2, <2>3, <2>4
<1>7. ASSUME NEW c \in DialogCalls, HandleCreateRemediation(c) PROVE DialogInv'
  <2>1. dialog' = [dialog EXCEPT !.creating = TRUE, !.conflict = FALSE]
    BY <1>7 DEF HandleCreateRemediation
  <2>2. traffic' = [traffic EXCEPT ![c] = [kind |-> "create", about |-> dialog.finding,
                                           text |-> dialog.recommendation]]
    BY <1>7 DEF HandleCreateRemediation, Send
  <2>3. dialog.recommendation = dialog.finding /\ dialog.finding \in DialogFindings
    BY <1>7 DEF HandleCreateRemediation, DialogSound, MaybeFinding
  <2>4. CallsSound'
    BY <2>1, <2>2, <2>3
    DEF CallsSound, DialogSound, Generating, Creating, Is, Traffic, MaybeFinding
  <2>5. DialogSound'
    BY <2>1 DEF DialogSound
  <2>6. StoredSound'
    BY <1>7 DEF HandleCreateRemediation, StoredSound
  <2> QED BY <2>4, <2>5, <2>6
<1>8. ASSUME NEW c \in DialogCalls, ServeCreate(c) PROVE DialogInv'
  <2> DEFINE new == [finding |-> traffic[c].about, text |-> traffic[c].text]
  <2>1. /\ traffic[c] \in Traffic /\ Creating(c)
        /\ traffic[c].text = traffic[c].about
    BY <1>8 DEF ServeCreate, CallsSound, Creating, Is
  <2>2. PICK told \in {"created", "exists"} :
          traffic' = [traffic EXCEPT ![c] = [kind |-> told, about |-> traffic[c].about,
                                             text |-> traffic[c].text]]
    <3>1. PICK told \in {"created", "exists"} : traffic' = [traffic EXCEPT ![c].kind = told]
      BY <1>8 DEF ServeCreate
    <3>2. [traffic[c] EXCEPT !.kind = told] =
            [kind |-> told, about |-> traffic[c].about, text |-> traffic[c].text]
      BY <2>1 DEF Traffic
    <3> QED BY <3>1, <3>2
  <2>3. CallsSound'
    BY <1>8, <2>1, <2>2 DEF ServeCreate, CallsSound, Generating, Creating, Is, Traffic
  <2>4. DialogSound'
    BY <1>8 DEF ServeCreate, DialogSound
  <2>5. new \in [finding : DialogFindings, text : DialogFindings] /\ new.text = new.finding
    BY <2>1 DEF Traffic
  <2>6. stored' \in {stored, Append(stored, new)}
    BY <1>8 DEF ServeCreate
  <2> HIDE DEF new
  <2>7. StoredSound'
    <3>1. CASE stored' = stored
      BY <3>1 DEF StoredSound
    <3>2. CASE stored' = Append(stored, new)
      <4>1. stored' \in Seq([finding : DialogFindings, text : DialogFindings])
        BY <2>5, <3>2 DEF StoredSound
      <4>2. ASSUME NEW i \in DOMAIN stored' PROVE stored'[i].text = stored'[i].finding
        BY <2>5, <3>2, <4>2 DEF StoredSound
      <4> QED BY <4>1, <4>2 DEF StoredSound
    <3> QED BY <2>6, <3>1, <3>2
  <2> QED BY <2>3, <2>4, <2>7
<1>9. ASSUME NEW c \in DialogCalls, EndCreate(c) \/ CreateFails(c) PROVE DialogInv'
  <2>1. Creating(c) /\ traffic' = [traffic EXCEPT ![c] = None] /\ stored' = stored
    BY <1>9 DEF EndCreate, CreateFails, Creating, End
  <2>2. PICK created \in BOOLEAN, conflict \in BOOLEAN :
          dialog' = [dialog EXCEPT !.creating = FALSE, !.created = created,
                                   !.conflict = conflict]
    <3>1. CASE EndCreate(c)
      <4>1. (dialog.created \/ Is(c, "created")) \in BOOLEAN
            /\ (dialog.conflict \/ Is(c, "exists")) \in BOOLEAN
        BY Zenon
      <4> QED BY <3>1, <4>1 DEF EndCreate
    <3>2. CASE CreateFails(c)
      BY <3>2 DEF CreateFails, DialogSound
    <3> QED BY <1>9, <3>1, <3>2
  <2>3. CallsSound'
    BY <2>1, <2>2 DEF CallsSound, DialogSound, Generating, Creating, Is
  <2>4. DialogSound'
    BY <2>2 DEF DialogSound
  <2>5. StoredSound'
    BY <2>1 DEF StoredSound
  <2> QED BY <2>3, <2>4, <2>5
<1> QED
  BY <1>1, <1>2, <1>3, <1>4, <1>5, <1>6, <1>7, <1>8, <1>9 DEF DialogNext

\* However often the dialog is closed and opened while answers are on their way,
\* it shows the recommendation and the users of its finding, and an action is
\* stored with the recommendation for its own finding.
THEOREM DialogKeepsToItsFinding ==
  DialogSpec => []DialogIsAboutItsFinding
<1>1. DialogInv /\ [DialogNext]_dialogVars => DialogInv'
  BY DialogStep
<1>2. DialogInv => DialogIsAboutItsFinding
  BY DEF DialogInv, DialogSound, StoredSound, DialogIsAboutItsFinding
<1> QED BY InitDialog, <1>1, <1>2, PTL DEF DialogSpec

\* Every call under way and every stored action is about findings of the page.
THEOREM DialogTypes == DialogSpec => []DialogTypeOK
<1>1. DialogInv /\ [DialogNext]_dialogVars => DialogInv'
  BY DialogStep
<1>2. DialogInv => DialogTypeOK
  <2> SUFFICES ASSUME DialogInv PROVE DialogTypeOK
    OBVIOUS
  <2> DEFINE Action == [finding : DialogFindings, text : DialogFindings]
  <2>1. \A i \in DOMAIN stored : stored[i] \in Action
    <3>1. stored \in Seq(Action)
      BY DEF DialogInv, StoredSound
    <3> HIDE DEF Action
    <3> QED BY <3>1
  <2>2. \A c \in DialogCalls : traffic[c] # None => traffic[c] \in Traffic
    BY DEF DialogInv, CallsSound
  <2> QED BY <2>1, <2>2 DEF DialogInv, DialogSound, DialogTypeOK
<1> QED BY InitDialog, <1>1, <1>2, PTL DEF DialogSpec

-----------------------------------------------------------------------------
(* A page of records *)

\* A selection that depends on another one is valid, or empty.
ChildValid(f, children) ==
  Followed(f) => f.child \in (IF Own(children, f.parent) = {} THEN {None}
                              ELSE Own(children, f.parent))
FormSound(f, children) ==
  f \in Form /\ f.editing = f.source /\ ChildValid(f, children)

\* A save carries the row its values come from, and a parent if rows may move.
SaveSound(call) ==
  call.does = "save" => /\ call.row = call.body.source
                        /\ kind # "software" => call.body.parent \in Parents

Lists == [rows : [PageRows -> PageRow \cup {None}], parents : Seq(Parents),
          children : Seq(Children)]
PageInv ==
  /\ kind \in PageKinds /\ loading \in BOOLEAN
  /\ table \in [PageRows -> PageRow] /\ listed \in Lists
  /\ FormSound(form, listed.children)
  /\ pending \in [FormCalls -> CallsOfPage \cup {None}]
  /\ \A c \in FormCalls : pending[c] # None => SaveSound(pending[c])

\* A nonempty set of numbers has a least one.
LEMMA Least ==
  ASSUME NEW S \in SUBSET Nat, S # {}
  PROVE  \E x \in S : \A y \in S : x <= y
<1>1. PICK x \in S : \A y \in S : <<y, x>> \notin OpToRel(<, Nat)
  BY NatLessThanWellFounded, WFMin, Zenon
<1>2. ASSUME NEW y \in S PROVE x <= y
  <2>1. ~(y < x)
    BY <1>1 DEF OpToRel
  <2> QED BY <2>1
<1> QED BY <1>2

LEMMA FirstOfList ==
  ASSUME NEW S, NEW list \in Seq(S) PROVE First(list) \in S \cup {None}
BY DEF First

\* The first child that a parent has in a list is one that it has.
LEMMA FirstOwnIsOwn ==
  ASSUME NEW children \in Seq(Children), NEW parent
  PROVE  /\ Own(children, parent) \in SUBSET Children
         /\ Own(children, parent) = {} => FirstOwn(children, parent) = None
         /\ Own(children, parent) # {} =>
              FirstOwn(children, parent) \in Own(children, parent)
<1> DEFINE own == Own(children, parent)
           Good(i) == children[i] \in own /\ \A j \in 1 .. i - 1 : children[j] \notin own
<1>1. own \in SUBSET Children
  BY DEF Own, ToSet
<1>2. ASSUME own # {} PROVE FirstOwn(children, parent) \in own
  <2> DEFINE places == {i \in DOMAIN children : children[i] \in own}
  <2>1. places # {} /\ places \in SUBSET Nat
    BY <1>2 DEF Own, ToSet
  <2>2. PICK i \in places : \A j \in places : i <= j
    BY <2>1, Least
  <2>3. i \in DOMAIN children /\ Good(i)
    <3>1. ASSUME NEW j \in 1 .. i - 1, children[j] \in own PROVE FALSE
      <4>1. j \in DOMAIN children /\ j < i
        BY <2>2
      <4>2. i <= j
        BY <2>2, <3>1, <4>1
      <4> QED BY <4>1, <4>2, <2>1, <2>2
    <3> QED BY <2>2, <3>1
  <2> HIDE DEF own
  <2>4. Good(CHOOSE n \in DOMAIN children : Good(n))
    <3> HIDE DEF Good
    <3> QED BY <2>3
  <2>5. FirstOwn(children, parent) = children[CHOOSE n \in DOMAIN children : Good(n)]
    BY <1>2 DEF FirstOwn, own
  <2> QED BY <2>4, <2>5
<1>3. own = {} => FirstOwn(children, parent) = None
  BY DEF FirstOwn
<1> QED BY <1>1, <1>2, <1>3

\* What the effect leaves of a form is sound, if it came from one row.
LEMMA FollowIsSound ==
  ASSUME NEW f \in Form, f.editing = f.source, NEW children \in Seq(Children)
  PROVE  FormSound(Follow(f, children), children)
<1> DEFINE first == FirstOwn(children, f.parent)
           g == [f EXCEPT !.child = first]
<1>1. CASE Followed(f) /\ f.child \notin Own(children, f.parent)
  <2>1. first \in Children \cup {None}
    BY FirstOwnIsOwn
  <2>2. g \in Form
    BY <2>1 DEF Form
  <2>3. g.parent = f.parent /\ g.child = first /\ g.editing = f.editing /\ g.source = f.source
    BY DEF Form
  <2> HIDE DEF first, g
  <2>4. ChildValid(g, children)
    BY <2>3, FirstOwnIsOwn DEF ChildValid, first
  <2>5. Follow(f, children) = g
    BY <1>1 DEF Follow, g, first
  <2> QED BY <2>2, <2>3, <2>4, <2>5 DEF FormSound
<1>2. CASE ~(Followed(f) /\ f.child \notin Own(children, f.parent))
  <2>1. Follow(f, children) = f
    BY <1>2 DEF Follow
  <2> QED BY <1>2, <2>1 DEF FormSound, ChildValid
<1> QED BY <1>1, <1>2

\* The form that replaces another one is sound after the effect has run.
LEMMA FormMoves ==
  ASSUME NEW f \in Form, f.editing = f.source, NEW children \in Seq(Children),
         form' = Follow(f, children), listed'.children = children, kind' = kind
  PROVE  FormSound(form, listed.children)'
<1>1. PICK g : g = Follow(f, children)
  OBVIOUS
<1>2. FormSound(g, children)
  BY <1>1, FollowIsSound
<1> QED BY <1>1, <1>2 DEF FormSound, ChildValid, Followed, Dependent

LEMMA FormStays ==
  ASSUME PageInv, form' = form, listed'.children = listed.children, kind' = kind
  PROVE  FormSound(form, listed.children)'
<1>1. PICK f, children : f = form /\ children = listed.children
  OBVIOUS
<1>2. FormSound(f, children)
  BY <1>1 DEF PageInv
<1> QED BY <1>1, <1>2 DEF FormSound, ChildValid, Followed, Dependent

\* One request begins, goes on or ends.
LEMMA PendingMoves ==
  ASSUME PageInv, NEW c \in FormCalls, NEW call \in CallsOfPage \cup {None},
         call # None => SaveSound(call), pending' = [pending EXCEPT ![c] = call],
         kind' = kind
  PROVE  /\ pending' \in [FormCalls -> CallsOfPage \cup {None}]
         /\ \A d \in FormCalls : pending'[d] # None => SaveSound(pending[d])'
<1>1. pending' \in [FormCalls -> CallsOfPage \cup {None}]
  BY DEF PageInv
<1>2. ASSUME NEW d \in FormCalls, pending'[d] # None PROVE SaveSound(pending[d])'
  <2>1. PICK x : x = pending'[d]
    OBVIOUS
  <2>2. SaveSound(x)
    BY <1>2, <2>1 DEF PageInv
  <2> QED BY <2>1, <2>2 DEF SaveSound
<1> QED BY <1>1, <1>2

LEMMA PendingStays ==
  ASSUME PageInv, pending' = pending, kind' = kind
  PROVE  /\ pending' \in [FormCalls -> CallsOfPage \cup {None}]
         /\ \A d \in FormCalls : pending'[d] # None => SaveSound(pending[d])'
BY DEF PageInv, SaveSound

LEMMA EmptyIsForm ==
  EmptyForm \in Form /\ EmptyForm.editing = EmptyForm.source
BY DEF EmptyForm, Form

LEMMA ResetIsForm ==
  ASSUME NEW parents \in Seq(Parents)
  PROVE  ResetForm(parents) \in Form /\ ResetForm(parents).editing = ResetForm(parents).source
<1>1. First(parents) \in Parents \cup {None}
  BY FirstOfList
<1> QED BY <1>1 DEF ResetForm, EmptyForm, Form

\* The page opens with an empty form and three requests.
LEMMA InitPage == PageInit => PageInv
<1> SUFFICES ASSUME PageInit PROVE PageInv
  OBVIOUS
<1>1. kind \in PageKinds /\ loading \in BOOLEAN /\ table \in [PageRows -> PageRow]
  BY PageAssumption DEF PageInit
<1>2. listed \in Lists /\ listed.children = << >>
  BY DEF PageInit, Lists
<1>3. FormSound(form, listed.children)
  <2>1. form = EmptyForm
    BY DEF PageInit
  <2> QED BY <2>1, <1>2, EmptyIsForm DEF FormSound, ChildValid, Followed, EmptyForm
<1>4. pending \in [FormCalls -> CallsOfPage \cup {None}]
      /\ \A c \in FormCalls : pending[c] # None => pending[c].does # "save"
  <2> DEFINE Kinds == {"rows", "parents", "children"}
             Apart(f) == \A x, y \in DOMAIN f : f[x] = f[y] => x = y
             f == CHOOSE f \in [Kinds -> FormCalls] : Apart(f)
             Opened(c) == Started(CHOOSE d \in DOMAIN f : f[d] = c, None, EmptyForm, << >>)
  <2>1. pending = [c \in FormCalls |-> IF \E d \in DOMAIN f : f[d] = c THEN Opened(c) ELSE None]
    BY DEF PageInit
  <2>2. DOMAIN f = Kinds
    <3>1. \E g \in [Kinds -> FormCalls] : Apart(g)
      BY PageAssumption
    <3> HIDE DEF Apart
    <3>2. f \in [Kinds -> FormCalls]
      BY <3>1
    <3> HIDE DEF f
    <3> QED BY <3>2
  <2> HIDE DEF f
  <2>3. ASSUME NEW c \in FormCalls, \E d \in DOMAIN f : f[d] = c
        PROVE  Opened(c) \in CallsOfPage /\ Opened(c).does # "save"
    <3>1. (CHOOSE d \in DOMAIN f : f[d] = c) \in Kinds
      BY <2>2, <2>3
    <3>2. ASSUME NEW does \in Kinds
          PROVE  /\ Started(does, None, EmptyForm, << >>) \in CallsOfPage
                 /\ Started(does, None, EmptyForm, << >>).does # "save"
      BY EmptyIsForm DEF Started, CallsOfPage
    <3> QED BY <3>1, <3>2
  <2> HIDE DEF Opened
  <2> QED BY <2>1, <2>3
<1> QED BY <1>1, <1>2, <1>3, <1>4 DEF PageInv, SaveSound

-----------------------------------------------------------------------------
(* Steps of the page *)

LEMMA FormStep ==
  ASSUME PageInv, NEW f \in Form, f.editing = f.source,
         form' = Follow(f, listed.children),
         UNCHANGED <<kind, table, listed, loading, pending>>
  PROVE  PageInv'
<1>1. listed.children \in Seq(Children)
  BY DEF PageInv, Lists
<1>2. FormSound(form, listed.children)'
  BY <1>1, FormMoves
<1>3. /\ pending' \in [FormCalls -> CallsOfPage \cup {None}]
      /\ \A d \in FormCalls : pending'[d] # None => SaveSound(pending[d])'
  BY PendingStays
<1> QED BY <1>2, <1>3 DEF PageInv

LEMMA EditStep ==
  ASSUME PageInv, NEW r \in PageRows, HandleEdit(r) PROVE PageInv'
<1> DEFINE row == listed.rows[r]
           f == [editing |-> r, source |-> r, parent |-> row.parent,
                 child |-> row.child, was |-> row.child, own |-> TRUE]
<1>1. row \in PageRow
  BY DEF HandleEdit, PageInv, Lists
<1>2. f \in Form /\ f.editing = f.source
  BY <1>1 DEF Form, PageRow
<1>3. /\ form' = Follow(f, listed.children)
      /\ UNCHANGED <<kind, table, listed, loading, pending>>
  BY DEF HandleEdit
<1> HIDE DEF f
<1> QED BY <1>2, <1>3, FormStep

LEMMA ChooseStep ==
  ASSUME PageInv, \/ \E p \in Parents : ChangeParent(p)
                  \/ \E d \in Children \cup {None} : ChangeChild(d)
  PROVE  PageInv'
<1>1. form \in Form /\ form.editing = form.source
  BY DEF PageInv, FormSound
<1>2. ASSUME NEW p \in Parents, ChangeParent(p) PROVE PageInv'
  <2> DEFINE f == [form EXCEPT !.parent = p, !.own = FALSE]
  <2>1. f \in Form /\ f.editing = f.source
    BY <1>1 DEF Form
  <2>2. /\ form' = Follow(f, listed.children)
        /\ UNCHANGED <<kind, table, listed, loading, pending>>
    BY <1>2 DEF ChangeParent
  <2> HIDE DEF f
  <2> QED BY <2>1, <2>2, FormStep
<1>3. ASSUME NEW d \in Children \cup {None}, ChangeChild(d) PROVE PageInv'
  <2> DEFINE f == [form EXCEPT !.child = d, !.own = FALSE]
  <2>1. f \in Form /\ f.editing = f.source
    BY <1>1 DEF Form
  <2>2. /\ form' = Follow(f, listed.children)
        /\ UNCHANGED <<kind, table, listed, loading, pending>>
    BY <1>3 DEF ChangeChild
  <2> HIDE DEF f
  <2> QED BY <2>1, <2>2, FormStep
<1> QED BY <1>2, <1>3

LEMMA CancelStep ==
  ASSUME PageInv, CancelEdit PROVE PageInv'
<1>1. listed.parents \in Seq(Parents)
  BY DEF PageInv, Lists
<1> QED BY <1>1, ResetIsForm, FormStep DEF CancelEdit

\* A request is made: of the changes, a save takes the form as it is.
LEMMA RequestStep ==
  ASSUME PageInv, NEW c \in FormCalls,
         HandleSubmit(c) \/ FetchRows(c) \/ \E r \in PageRows : HandleRemove(c, r)
  PROVE  PageInv'
<1>1. /\ UNCHANGED <<kind, table, listed, form>> /\ loading' = TRUE
  BY DEF HandleSubmit, FetchRows, HandleRemove
<1>2. PICK call \in CallsOfPage : SaveSound(call) /\ pending' = [pending EXCEPT ![c] = call]
  <2>1. ASSUME HandleSubmit(c)
        PROVE  \E call \in CallsOfPage :
                 SaveSound(call) /\ pending' = [pending EXCEPT ![c] = call]
    <3> DEFINE call == Started("save", form.editing, form, listed.parents)
    <3>1. form \in Form /\ form.editing = form.source /\ listed.parents \in Seq(Parents)
      BY DEF PageInv, FormSound, Lists
    <3>2. call \in CallsOfPage
      BY <3>1 DEF Started, CallsOfPage, Form
    <3>3. kind # "software" => form.parent \in Parents
      BY <2>1, <3>1 DEF HandleSubmit, Complete, Shown, ToSet
    <3>4. SaveSound(call)
      BY <3>1, <3>3 DEF SaveSound, Started
    <3>5. pending' = [pending EXCEPT ![c] = call]
      BY <2>1 DEF HandleSubmit, Request
    <3> QED BY <3>2, <3>4, <3>5
  <2>2. ASSUME NEW does \in {"rows", "remove"}, NEW row \in PageRows \cup {None},
               Request(c, does, row, EmptyForm)
        PROVE  \E call \in CallsOfPage :
                 SaveSound(call) /\ pending' = [pending EXCEPT ![c] = call]
    <3> DEFINE call == Started(does, row, EmptyForm, << >>)
    <3>1. call \in CallsOfPage /\ SaveSound(call)
      BY EmptyIsForm DEF Started, CallsOfPage, SaveSound
    <3>2. pending' = [pending EXCEPT ![c] = call]
      BY <2>2 DEF Request
    <3> QED BY <3>1, <3>2
  <2> QED BY <2>1, <2>2 DEF FetchRows, HandleRemove
<1>3. FormSound(form, listed.children)'
  BY <1>1, FormStays
<1> QED BY <1>1, <1>2, <1>3, PendingMoves DEF PageInv

\* The backend changes the row that the save names, and leaves it a row.
LEMMA ServeStep ==
  ASSUME PageInv, NEW c \in FormCalls, ServeChange(c) PROVE PageInv'
<1> DEFINE call == pending[c]
           new == [call EXCEPT !.served = TRUE]
<1>1. call \in CallsOfPage /\ SaveSound(call)
  BY DEF ServeChange, Free, PageInv
<1>2. /\ UNCHANGED <<kind, listed, form, loading>>
      /\ pending' = [pending EXCEPT ![c] = new]
  BY DEF ServeChange
<1>3. new \in CallsOfPage /\ SaveSound(new)
  BY <1>1 DEF CallsOfPage, SaveSound
<1>4. table' \in [PageRows -> PageRow]
  <2>1. table \in [PageRows -> PageRow]
    BY DEF PageInv
  <2>2. ASSUME Moves(call)
        PROVE  call.row \in PageRows /\ Moved(table[call.row], call.body) \in PageRow
    <3>1. call.row \in PageRows /\ call.body.parent \in Parents
          /\ call.body.child \in Children \cup {None}
      BY <1>1, <2>2 DEF Moves, SaveSound, CallsOfPage, Form
    <3> QED BY <2>1, <3>1 DEF Moved, PageRow
  <2>3. table' = IF Moves(call)
                 THEN [table EXCEPT ![call.row] = Moved(table[call.row], call.body)]
                 ELSE table
    BY DEF ServeChange
  <2> QED BY <2>1, <2>2, <2>3
<1>5. FormSound(form, listed.children)'
  BY <1>2, FormStays
<1> HIDE DEF new
<1> QED BY <1>2, <1>3, <1>4, <1>5, PendingMoves DEF PageInv

\* After a save whatever form is open is emptied; the table is asked for again.
LEMMA SucceedStep ==
  ASSUME PageInv, NEW c \in FormCalls, Succeed(c) PROVE PageInv'
<1> DEFINE new == Started("rows", None, EmptyForm, << >>)
<1>1. /\ UNCHANGED <<kind, table, listed>> /\ loading' = FALSE
      /\ pending' = [pending EXCEPT ![c] = new]
  BY DEF Succeed
<1>2. new \in CallsOfPage /\ SaveSound(new)
  BY EmptyIsForm DEF Started, CallsOfPage, SaveSound
<1>3. FormSound(form, listed.children)'
  <2>1. pending[c].parents \in Seq(Parents) /\ listed.children \in Seq(Children)
    BY DEF Succeed, Free, PageInv, CallsOfPage, Lists
  <2>2. ASSUME form' = form PROVE FormSound(form, listed.children)'
    BY <1>1, <2>2, FormStays
  <2>3. ASSUME form' = Follow(ResetForm(pending[c].parents), listed.children)
        PROVE  FormSound(form, listed.children)'
    BY <1>1, <2>1, <2>3, ResetIsForm, FormMoves
  <2> QED BY <2>2, <2>3 DEF Succeed
<1> HIDE DEF new
<1> QED BY <1>1, <1>2, <1>3, PendingMoves DEF PageInv

\* An answer is shown; the lists come as the backend orders them.
LEMMA ShowStep ==
  ASSUME PageInv, NEW c \in FormCalls, ShowRows(c) \/ ShowParents(c) \/ ShowChildren(c)
  PROVE  PageInv'
<1>1. /\ UNCHANGED <<kind, table>> /\ loading' \in BOOLEAN
      /\ pending' = [pending EXCEPT ![c] = None]
  BY DEF ShowRows, ShowParents, ShowChildren, PageInv
<1>2. /\ form \in Form /\ form.editing = form.source /\ listed \in Lists
      /\ listed.children \in Seq(Children) /\ table \in [PageRows -> PageRow]
  BY DEF PageInv, FormSound, Lists
<1>3. listed' \in Lists
  BY <1>2, PageAssumption DEF ShowRows, ShowParents, ShowChildren, Lists
<1>4. FormSound(form, listed.children)'
  <2>1. CASE ShowRows(c)
    <3>1. listed'.children = listed.children /\ form' = form
      BY <1>2, <2>1 DEF ShowRows, Lists
    <3> QED BY <1>1, <3>1, FormStays
  <2>2. CASE ShowParents(c)
    <3> DEFINE f == [form EXCEPT !.parent = First(ParentList)]
    <3>1. listed'.children = listed.children
      BY <1>2, <2>2 DEF ShowParents, Lists
    <3>2. f \in Form /\ f.editing = f.source
      BY <1>2, FirstOfList, PageAssumption DEF Form
    <3>3. form' = form \/ form' = Follow(f, listed.children)
      BY <2>2 DEF ShowParents
    <3> HIDE DEF f
    <3> QED BY <1>1, <1>2, <3>1, <3>2, <3>3, FormStays, FormMoves
  <2>3. CASE ShowChildren(c)
    <3>1. listed'.children = ChildList /\ form' = Follow(form, ChildList)
      BY <1>2, <2>3 DEF ShowChildren, Lists
    <3> QED BY <1>1, <1>2, <3>1, FormMoves, PageAssumption
  <2> QED BY <2>1, <2>2, <2>3
<1> QED BY <1>1, <1>2, <1>3, <1>4, PendingMoves DEF PageInv

LEMMA FailsStep ==
  ASSUME PageInv, NEW c \in FormCalls, Fails(c) PROVE PageInv'
<1>1. /\ UNCHANGED <<kind, table, listed, form>> /\ loading' \in BOOLEAN
      /\ pending' = [pending EXCEPT ![c] = None]
  BY DEF Fails, PageInv
<1>2. FormSound(form, listed.children)'
  BY <1>1, FormStays
<1> QED BY <1>1, <1>2, PendingMoves DEF PageInv

LEMMA PageStep == PageInv /\ [PageNext]_pageVars => PageInv'
<1> SUFFICES ASSUME PageInv, [PageNext]_pageVars PROVE PageInv'
  OBVIOUS
<1>1. ASSUME UNCHANGED pageVars PROVE PageInv'
  <2>1. UNCHANGED <<kind, table, listed, form, loading, pending>>
    BY <1>1 DEF pageVars
  <2>2. FormSound(form, listed.children)'
    BY <2>1, FormStays
  <2> QED BY <2>1, <2>2, PendingStays DEF PageInv
<1>2. ASSUME NEW c \in FormCalls,
             \/ HandleSubmit(c) \/ FetchRows(c) \/ \E r \in PageRows : HandleRemove(c, r)
             \/ ServeChange(c) \/ Succeed(c) \/ Fails(c)
             \/ ShowRows(c) \/ ShowParents(c) \/ ShowChildren(c)
      PROVE  PageInv'
  BY <1>2, RequestStep, ServeStep, SucceedStep, FailsStep, ShowStep
<1> QED BY <1>1, <1>2, EditStep, ChooseStep, CancelStep DEF PageNext

\* Tables, lists, the form and the requests of a page keep their types.
THEOREM PageTypes == PageSpec => []PageTypeOK
<1>1. PageInit => PageInv
  BY InitPage
<1>2. PageInv /\ [PageNext]_pageVars => PageInv'
  BY PageStep
<1>3. PageInv => PageTypeOK
  BY DEF PageInv, PageTypeOK, Lists, FormSound
<1> QED BY <1>1, <1>2, <1>3, PTL DEF PageSpec

\* In whatever order lists, answers and clicks come, a save carries the values of
\* the row it is sent to, and a selection that depends on another one is valid
\* or empty.
THEOREM SavesReachTheirRows == PageSpec => []SavesReachTheirRow
<1>1. PageInit => PageInv
  BY InitPage
<1>2. PageInv /\ [PageNext]_pageVars => PageInv'
  BY PageStep
<1>3. PageInv => SavesReachTheirRow
  BY DEF PageInv, SavesReachTheirRow, IsSave, Free, SaveSound, FormSound, ChildValid
<1> QED BY <1>1, <1>2, <1>3, PTL DEF PageSpec

-----------------------------------------------------------------------------
(* When a form keeps its child: what DepartmentDrift violates *)

\* Rows of the backend are at home: their child is listed, and is of their parent.
AtHome(row) == row.child \in ToSet(ChildList) /\ HomeOf(row.child) = row.parent
TablesFit == \A t \in Tables : \A r \in PageRows : AtHome(t[r])

\* On the page of users nobody edits a row before the departments are listed.
EditsWait ==
  kind = "users" => \A r \in PageRows : HandleEdit(r) => listed.children = ChildList

\* A form that nobody has touched since it was loaded has the child it was loaded
\* with; on the page of users the effect has no reason to change it.
Kept(f) ==
  f.own => /\ f.child = f.was /\ f.editing # None /\ f.parent # None
           /\ kind = "users" => f.child \in Own(ChildList, f.parent)
\* Saves of users take a listed department.
KeptCall(call) ==
  /\ Kept(call.body)
  /\ kind = "users" /\ call.does = "save" => call.body.child \in ToSet(ChildList)
KeptInv ==
  /\ PageInv
  /\ Kept(form)
  /\ \A c \in FormCalls : pending[c] # None => KeptCall(pending[c])
  /\ listed.children \in {<< >>, ChildList}
  /\ kind = "users" => \A r \in PageRows :
       AtHome(table[r]) /\ (listed.rows[r] # None => AtHome(listed.rows[r]))

LEMMA InitKept == TablesFit /\ PageInit => KeptInv
<1> SUFFICES ASSUME TablesFit, PageInit PROVE KeptInv
  OBVIOUS
<1>1. form = EmptyForm /\ listed.children = << >>
      /\ \A r \in PageRows : AtHome(table[r]) /\ listed.rows[r] = None
  BY DEF PageInit, TablesFit
<1>2. ASSUME NEW c \in FormCalls, pending[c] # None PROVE KeptCall(pending[c])
  <2>1. PICK d : pending[c] = Started(d, None, EmptyForm, << >>) /\ d # "save"
    <3> DEFINE Kinds == {"rows", "parents", "children"}
               Apart(f) == \A x, y \in DOMAIN f : f[x] = f[y] => x = y
               f == CHOOSE f \in [Kinds -> FormCalls] : Apart(f)
               Opened(x) == Started(CHOOSE d \in DOMAIN f : f[d] = x, None, EmptyForm, << >>)
    <3>1. pending = [x \in FormCalls |-> IF \E d \in DOMAIN f : f[d] = x THEN Opened(x) ELSE None]
      BY DEF PageInit
    <3>2. DOMAIN f = Kinds
      <4>1. \E g \in [Kinds -> FormCalls] : Apart(g)
        BY PageAssumption
      <4> HIDE DEF Apart
      <4>2. f \in [Kinds -> FormCalls]
        BY <4>1
      <4> HIDE DEF f
      <4> QED BY <4>2
    <3> HIDE DEF f
    <3>3. \E d \in DOMAIN f : f[d] = c
      <4> HIDE DEF Opened
      <4> QED BY <1>2, <3>1
    <3>4. (CHOOSE d \in DOMAIN f : f[d] = c) \in Kinds
      BY <3>2, <3>3
    <3>5. pending[c] = Opened(c)
      <4> HIDE DEF Opened
      <4> QED BY <3>1, <3>3
    <3> QED BY <3>4, <3>5
  <2> QED BY <2>1 DEF KeptCall, Kept, Started, EmptyForm
<1> QED BY <1>1, <1>2, InitPage DEF KeptInv, Kept, EmptyForm

\* The effect leaves an untouched form alone, once the children are listed.
LEMMA FollowKeeps ==
  ASSUME NEW f \in Form, Kept(f), NEW children \in Seq(Children), f.own,
         kind = "users" => children = ChildList
  PROVE  Follow(f, children) = f
BY DEF Follow, Followed, Dependent, Kept

\* A form that has been touched, or emptied, is not untouched after the effect.
LEMMA FollowTouched ==
  ASSUME NEW f \in Form, ~f.own, NEW children \in Seq(Children)
  PROVE  ~Follow(f, children).own
<1>1. ASSUME NEW d PROVE [f EXCEPT !.child = d].own = f.own
  BY DEF Form
<1> QED BY <1>1 DEF Follow

\* Each handler leaves the form as it is, or untouched, or touched.
LEMMA KeptForm ==
  ASSUME KeptInv, PageNext, EditsWait PROVE Kept(form)'
<1>1. /\ form \in Form /\ Kept(form) /\ kind' = kind
      /\ listed.children \in Seq(Children) /\ listed.parents \in Seq(Parents)
  BY DEF KeptInv, PageInv, FormSound, Lists, PageNext, HandleEdit, ChangeParent,
         CancelEdit, ChangeChild, HandleSubmit, FetchRows, HandleRemove, ServeChange,
         Succeed, Fails, ShowRows, ShowParents, ShowChildren
<1>2. ASSUME form' = form PROVE Kept(form)'
  BY <1>1, <1>2 DEF Kept
<1>3. ASSUME ~form'.own PROVE Kept(form)'
  BY <1>3 DEF Kept
<1>4. ASSUME NEW r \in PageRows, HandleEdit(r) PROVE Kept(form)'
  <2> DEFINE row == listed.rows[r]
             f == [editing |-> r, source |-> r, parent |-> row.parent,
                   child |-> row.child, was |-> row.child, own |-> TRUE]
  <2>1. row \in PageRow /\ form' = Follow(f, listed.children)
    BY <1>4 DEF HandleEdit, KeptInv, PageInv, Lists
  <2>2. f \in Form /\ f.own
    BY <2>1 DEF Form, PageRow
  <2>3. kind = "users" => AtHome(row) /\ listed.children = ChildList
    BY <1>4 DEF KeptInv, EditsWait, HandleEdit
  <2>4. Kept(f)
    <3>1. r # None /\ row.parent # None
      BY <2>1, PageAssumption DEF PageRow
    <3> QED BY <2>3, <3>1 DEF Kept, AtHome, Own
  <2> HIDE DEF f
  <2>5. form' = f
    BY <1>1, <2>1, <2>2, <2>3, <2>4, FollowKeeps
  <2> QED BY <1>1, <2>4, <2>5 DEF Kept
<1>5. ASSUME NEW p \in Parents, ChangeParent(p) PROVE Kept(form)'
  <2> DEFINE f == [form EXCEPT !.parent = p, !.own = FALSE]
  <2>1. f \in Form /\ ~f.own /\ form' = Follow(f, listed.children)
    BY <1>1, <1>5 DEF Form, ChangeParent
  <2> HIDE DEF f
  <2> QED BY <1>1, <1>3, <2>1, FollowTouched
<1>6. ASSUME NEW d \in Children \cup {None}, ChangeChild(d) PROVE Kept(form)'
  <2> DEFINE f == [form EXCEPT !.child = d, !.own = FALSE]
  <2>1. f \in Form /\ ~f.own /\ form' = Follow(f, listed.children)
    BY <1>1, <1>6 DEF Form, ChangeChild
  <2> HIDE DEF f
  <2> QED BY <1>1, <1>3, <2>1, FollowTouched
<1>7. ASSUME NEW parents \in Seq(Parents),
             form' = Follow(ResetForm(parents), listed.children)
      PROVE  Kept(form)'
  <2>1. ResetForm(parents) \in Form /\ ~ResetForm(parents).own
    BY ResetIsForm DEF ResetForm, EmptyForm
  <2> QED BY <1>1, <1>3, <1>7, <2>1, FollowTouched
<1>8. ASSUME NEW c \in FormCalls, Succeed(c) PROVE Kept(form)'
  <2>1. pending[c].parents \in Seq(Parents)
    BY <1>8 DEF Succeed, Free, KeptInv, PageInv, CallsOfPage
  <2> QED BY <1>2, <1>7, <1>8, <2>1 DEF Succeed
<1>9. ASSUME NEW c \in FormCalls, ShowParents(c) PROVE Kept(form)'
  <2> DEFINE f == [form EXCEPT !.parent = First(ParentList)]
  <2>1. CASE form.parent # None
    BY <1>2, <1>9, <2>1 DEF ShowParents
  <2>2. CASE form.parent = None
    <3>1. ~form.own
      BY <1>1, <2>2 DEF Kept
    <3>2. f \in Form /\ ~f.own
      BY <1>1, <3>1, FirstOfList, PageAssumption DEF Form
    <3>3. form' = Follow(f, listed.children)
      BY <1>9, <2>2 DEF ShowParents
    <3> HIDE DEF f
    <3> QED BY <1>1, <1>3, <3>2, <3>3, FollowTouched
  <2> QED BY <2>1, <2>2
<1>10. ASSUME NEW c \in FormCalls, ShowChildren(c) PROVE Kept(form)'
  <2>1. form' = Follow(form, ChildList) /\ ChildList \in Seq(Children)
    BY <1>10, PageAssumption DEF ShowChildren
  <2>2. CASE form.own
    BY <1>1, <1>2, <2>1, <2>2, FollowKeeps
  <2>3. CASE ~form.own
    BY <1>1, <1>3, <2>1, <2>3, FollowTouched
  <2> QED BY <2>2, <2>3
<1>11. ASSUME NEW c \in FormCalls,
              \/ HandleSubmit(c) \/ FetchRows(c) \/ \E r \in PageRows : HandleRemove(c, r)
              \/ ServeChange(c) \/ Fails(c) \/ ShowRows(c)
       PROVE  Kept(form)'
  BY <1>2, <1>11 DEF HandleSubmit, FetchRows, HandleRemove, ServeChange, Fails, ShowRows
<1>12. ASSUME CancelEdit PROVE Kept(form)'
  BY <1>1, <1>7, <1>12 DEF CancelEdit
<1> QED
  BY <1>4, <1>5, <1>6, <1>8, <1>9, <1>10, <1>11, <1>12 DEF PageNext

\* A request that begins takes the form as it is; the others stay as they are.
LEMMA KeptCalls ==
  ASSUME KeptInv, PageNext, NEW c \in FormCalls, pending'[c] # None
  PROVE  KeptCall(pending[c])'
<1>1. kind' = kind /\ pending \in [FormCalls -> CallsOfPage \cup {None}]
  BY DEF KeptInv, PageInv, PageNext, HandleEdit, ChangeParent,
         CancelEdit, ChangeChild, HandleSubmit, FetchRows, HandleRemove, ServeChange,
         Succeed, Fails, ShowRows, ShowParents, ShowChildren
<1>2. PICK x : x = pending'[c]
  OBVIOUS
<1>3. ASSUME pending[c] # None, x.body = pending[c].body, x.does = pending[c].does
      PROVE  KeptCall(x)
  BY <1>3 DEF KeptInv, KeptCall
<1>4. ASSUME NEW does \in {"rows", "remove"}, NEW row, x = Started(does, row, EmptyForm, << >>)
      PROVE  KeptCall(x)
  BY <1>4 DEF KeptCall, Kept, Started, EmptyForm
<1>5. ASSUME pending'[c] = pending[c] PROVE KeptCall(x)
  BY <1>2, <1>3, <1>5
<1>6. ASSUME NEW d \in FormCalls, HandleSubmit(d) PROVE KeptCall(x)
  <2> DEFINE call == Started("save", form.editing, form, listed.parents)
  <2>1. pending' = [pending EXCEPT ![d] = call]
    BY <1>6 DEF HandleSubmit, Request
  <2>2. KeptCall(call)
    <3>1. kind = "users" => form.child \in ToSet(ChildList)
      <4>1. kind = "users" => form.child \in ToSet(listed.children)
        BY <1>6 DEF HandleSubmit, Complete, Shown, Own
      <4>2. listed.children \in {<< >>, ChildList} /\ ToSet(<< >>) = {}
        BY DEF KeptInv, ToSet
      <4> QED BY <4>1, <4>2
    <3> QED BY <3>1 DEF KeptCall, Started, KeptInv
  <2>3. x = call \/ pending'[c] = pending[c]
    BY <1>1, <1>2, <2>1
  <2> QED BY <1>5, <2>2, <2>3
<1>7. ASSUME NEW d \in FormCalls, FetchRows(d) \/ \E r \in PageRows : HandleRemove(d, r)
      PROVE  KeptCall(x)
  <2>1. PICK does \in {"rows", "remove"}, row \in PageRows \cup {None} :
          pending' = [pending EXCEPT ![d] = Started(does, row, EmptyForm, << >>)]
    BY <1>7 DEF FetchRows, HandleRemove, Request
  <2>2. x = Started(does, row, EmptyForm, << >>) \/ pending'[c] = pending[c]
    BY <1>1, <1>2, <2>1
  <2> QED BY <1>4, <1>5, <2>2
<1>8. ASSUME NEW d \in FormCalls, ServeChange(d) PROVE KeptCall(x)
  <2>1. pending' = [pending EXCEPT ![d] = [pending[d] EXCEPT !.served = TRUE]]
        /\ pending[d] # None
    BY <1>8 DEF ServeChange, Free
  <2>2. CASE c = d
    <3>1. pending[c] \in CallsOfPage
      BY <1>1, <2>1, <2>2
    <3>2. x = [pending[c] EXCEPT !.served = TRUE]
      BY <1>1, <1>2, <2>1, <2>2
    <3>3. x.body = pending[c].body /\ x.does = pending[c].does
      BY <3>1, <3>2 DEF CallsOfPage
    <3> QED BY <1>3, <2>1, <2>2, <3>3
  <2>3. CASE c # d
    BY <1>1, <1>5, <2>1, <2>3
  <2> QED BY <2>2, <2>3
<1>9. ASSUME NEW d \in FormCalls, Succeed(d) PROVE KeptCall(x)
  <2>1. pending' = [pending EXCEPT ![d] = Started("rows", None, EmptyForm, << >>)]
    BY <1>9 DEF Succeed
  <2>2. x = Started("rows", None, EmptyForm, << >>) \/ pending'[c] = pending[c]
    BY <1>1, <1>2, <2>1
  <2> QED BY <1>4, <1>5, <2>2
<1>10. ASSUME NEW d \in FormCalls,
              ShowRows(d) \/ ShowParents(d) \/ ShowChildren(d) \/ Fails(d)
       PROVE  KeptCall(x)
  <2>1. pending' = [pending EXCEPT ![d] = None]
    BY <1>10 DEF ShowRows, ShowParents, ShowChildren, Fails
  <2>2. pending'[c] = pending[c]
    BY <1>1, <2>1
  <2> QED BY <1>5, <2>2
<1>11. ASSUME UNCHANGED pending PROVE KeptCall(x)
  BY <1>5, <1>11
<1>12. KeptCall(x)
  BY <1>6, <1>7, <1>8, <1>9, <1>10, <1>11
     DEF PageNext, HandleEdit, ChangeParent, CancelEdit, ChangeChild
<1> QED BY <1>1, <1>2, <1>12 DEF KeptCall, Kept

\* Users stay in departments of their organizations, in the table and on the page.
LEMMA KeptRows ==
  ASSUME KeptInv, PageNext
  PROVE  /\ listed'.children \in {<< >>, ChildList}
         /\ kind' = "users" => \A r \in PageRows :
              AtHome(table'[r]) /\ (listed'.rows[r] # None => AtHome(listed'.rows[r]))
<1>1. /\ listed \in Lists /\ table \in [PageRows -> PageRow]
      /\ pending \in [FormCalls -> CallsOfPage \cup {None}]
      /\ listed.children \in {<< >>, ChildList}
  BY DEF KeptInv, PageInv
<1>2. CASE UNCHANGED <<kind, table, listed>>
  BY <1>2 DEF KeptInv
<1>3. ASSUME NEW c \in FormCalls, ServeChange(c)
      PROVE  UNCHANGED <<kind, listed>> /\ (kind = "users" => \A r \in PageRows : AtHome(table'[r]))
  <2> DEFINE call == pending[c]
  <2>1. UNCHANGED <<kind, listed>> /\ call \in CallsOfPage
    BY <1>1, <1>3 DEF ServeChange, Free
  <2>2. ASSUME kind = "users", Moves(call), call.row \in PageRows
        PROVE  AtHome(Moved(table[call.row], call.body))
    <3>1. call.body.child \in ToSet(ChildList)
      BY <1>3, <2>2 DEF Moves, KeptInv, KeptCall, ServeChange, Free
    <3>2. call.body.child # None
      <4>1. ToSet(ChildList) \subseteq Children
        BY PageAssumption DEF ToSet
      <4> QED BY <3>1, <4>1, PageAssumption
    <3>3. HomeOf(call.body.child) = call.body.parent
      BY <1>3, <2>2, <3>2 DEF ServeChange, Admissible
    <3> QED BY <3>1, <3>2, <3>3 DEF Moved, AtHome
  <2>3. table' = IF Moves(call)
                 THEN [table EXCEPT ![call.row] = Moved(table[call.row], call.body)]
                 ELSE table
    BY <1>3 DEF ServeChange
  <2>4. call.row \in PageRows \cup {None}
    BY <2>1 DEF CallsOfPage
  <2>5. kind = "users" => \A r \in PageRows : AtHome(table[r])
    BY DEF KeptInv
  <2>6. ASSUME NEW r \in PageRows, kind = "users" PROVE AtHome(table'[r])
    <3>1. table'[r] = table[r] \/ (Moves(call) /\ call.row = r
                                   /\ table'[r] = Moved(table[call.row], call.body))
      BY <1>1, <2>3
    <3> QED BY <2>2, <2>5, <2>6, <3>1
  <2> QED BY <2>1, <2>6
<1>4. ASSUME NEW c \in FormCalls, ShowRows(c)
      PROVE  UNCHANGED <<kind, table>> /\ listed'.children = listed.children
             /\ listed'.rows = table
  BY <1>1, <1>4 DEF ShowRows, Lists
<1>5. ASSUME NEW c \in FormCalls, ShowParents(c)
      PROVE  UNCHANGED <<kind, table>> /\ listed'.children = listed.children
             /\ listed'.rows = listed.rows
  BY <1>1, <1>5 DEF ShowParents, Lists
<1>6. ASSUME NEW c \in FormCalls, ShowChildren(c)
      PROVE  UNCHANGED <<kind, table>> /\ listed'.children = ChildList
             /\ listed'.rows = listed.rows
  BY <1>1, <1>6 DEF ShowChildren, Lists
<1>7. \/ UNCHANGED <<kind, table, listed>>
      \/ \E c \in FormCalls : ServeChange(c) \/ ShowRows(c) \/ ShowParents(c) \/ ShowChildren(c)
  BY DEF PageNext, HandleEdit, ChangeParent, CancelEdit, ChangeChild, HandleSubmit,
         FetchRows, HandleRemove, Succeed, Fails
<1> QED BY <1>1, <1>2, <1>3, <1>4, <1>5, <1>6, <1>7 DEF KeptInv

\* An edit that waits for the list of departments keeps the department of the
\* user if nobody touches the selections; on the pages of software and devices
\* every untouched edit keeps its child.  So the run DepartmentDrift shows the
\* only way in which a row moves unasked: an edit before the list has arrived.
THEOREM WaitingEditsKeepTheirChild ==
  TablesFit /\ PageInit /\ [][PageNext /\ EditsWait]_pageVars => []UntouchedEditKeepsChild
<1>1. ASSUME KeptInv, [PageNext /\ EditsWait]_pageVars PROVE KeptInv'
  <2>1. CASE PageNext /\ EditsWait
    BY <1>1, <2>1, PageStep, KeptForm, KeptCalls, KeptRows DEF KeptInv
  <2>2. CASE UNCHANGED pageVars
    <3>1. PageInv'
      BY <1>1, <2>2, PageStep DEF KeptInv
    <3>2. UNCHANGED <<kind, table, listed, form, pending>>
      BY <2>2 DEF pageVars
    <3> QED BY <1>1, <3>1, <3>2 DEF KeptInv, Kept, KeptCall
  <2> QED BY <1>1, <2>1, <2>2
<1>2. KeptInv => UntouchedEditKeepsChild
  BY DEF KeptInv, KeptCall, Kept, UntouchedEditKeepsChild, IsSave, Free
<1> QED BY InitKept, <1>1, <1>2, PTL
=============================================================================
