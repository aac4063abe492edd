------------------------ MODULE RecommendationDialog ------------------------
(***************************************************************************)
(* The dialog of the page of findings (VulnerabilityFindings.tsx) in which *)
(* a recommendation is shown and made into a remediation action.           *)
(*                                                                         *)
(* The handlers are asynchronous: what they remember of the finding is     *)
(* what it was at the click, what they set is the dialog of the moment.    *)
(* The dialog can be closed, and opened for another finding, while a call  *)
(* is under way.  Of a recommendation the finding it is about is kept, of  *)
(* the users that are offered their organization.                          *)
(***************************************************************************)
EXTENDS Naturals, Sequences, Absence

CONSTANTS DialogFindings, DialogCalls,
          OrgOf(_),   \* the organization of a finding
          MaxActions  \* how many actions a behaviour may store

VARIABLES
  dialog,   \* the state of the page that belongs to the dialog
  traffic,  \* calls under way
  stored    \* the remediation actions in the database, in order
dialogVars == <<dialog, traffic, stored>>

\* finding, recommendation: what is shown; loadingId: the finding whose
\* recommendation is being generated; assignable: organization of the users
\* offered; created, conflict: what is said of the action.
Closed == [finding |-> None, recommendation |-> None, assignable |-> None,
           created |-> FALSE, conflict |-> FALSE, loadingId |-> None,
           creating |-> FALSE]
MaybeFinding == DialogFindings \cup {None}
DialogOrgs == {OrgOf(f) : f \in DialogFindings}
Traffic == [kind : {"recommend", "users", "create", "created", "exists"},
            about : DialogFindings, text : MaybeFinding]
\* None is neither a finding nor a call.
ASSUME DialogAssumption == None \notin DialogFindings /\ None \notin Traffic

DialogTypeOK ==
  /\ dialog \in [finding : MaybeFinding, recommendation : MaybeFinding,
                 assignable : DialogOrgs \cup {None}, created : BOOLEAN,
                 conflict : BOOLEAN, loadingId : MaybeFinding,
                 creating : BOOLEAN]
  /\ \A c \in DialogCalls : traffic[c] # None => traffic[c] \in Traffic
  /\ \A i \in DOMAIN stored : stored[i] \in [finding : DialogFindings, text : DialogFindings]

DialogInit ==
  /\ dialog = Closed /\ traffic = [c \in DialogCalls |-> None]
  /\ stored = << >>

Send(c, kind, about, text) ==
  /\ traffic[c] = None
  /\ traffic' = [traffic EXCEPT ![c] = [kind |-> kind, about |-> about, text |-> text]]
Is(c, kind) == traffic[c] # None /\ traffic[c].kind = kind
End(c) == traffic' = [traffic EXCEPT ![c] = None]

-----------------------------------------------------------------------------
(* Handlers *)

\* The buttons of all findings are disabled while one is being generated.
HandleGenerateRecommendation(c, f) ==
  /\ dialog.loadingId = None
  /\ Send(c, "recommend", f, None)
  /\ dialog' = [Closed EXCEPT !.finding = f, !.loadingId = f,
                              !.creating = dialog.creating]
  /\ UNCHANGED stored

\* The answer is shown, then the users are asked for.
ShowRecommendation(c) ==
  /\ Is(c, "recommend")
  /\ dialog' = [dialog EXCEPT !.recommendation = traffic[c].about]
  /\ traffic' = [traffic EXCEPT ![c].kind = "users"]
  /\ UNCHANGED stored
RecommendationFails(c) ==
  /\ Is(c, "recommend") /\ End(c)
  /\ dialog' = [dialog EXCEPT !.loadingId = None]
  /\ UNCHANGED stored
\* Without an answer nobody is offered; either way the handler is over.
ShowUsers(c) ==
  /\ Is(c, "users") /\ End(c)
  /\ \E offered \in {OrgOf(traffic[c].about), None} :
       dialog' = [dialog EXCEPT !.assignable = offered, !.loadingId = None]
  /\ UNCHANGED stored

\* The handler that generates and the one that creates go on.
\* Mutant: closing the dialog enables the buttons of the table again.
CloseRecommendation_Resets ==
  /\ dialog.finding # None
  /\ dialog' = [Closed EXCEPT !.creating = dialog.creating]
  /\ UNCHANGED <<traffic, stored>>
CloseRecommendation ==
  /\ dialog.finding # None
  /\ dialog' = [Closed EXCEPT !.loadingId = dialog.loadingId,
                              !.creating = dialog.creating]
  /\ UNCHANGED <<traffic, stored>>

HandleCreateRemediation(c) ==
  /\ dialog.finding # None /\ dialog.recommendation # None
  /\ ~dialog.creating /\ ~dialog.created
  /\ Send(c, "create", dialog.finding, dialog.recommendation)
  /\ dialog' = [dialog EXCEPT !.creating = TRUE, !.conflict = FALSE]
  /\ UNCHANGED stored

\* The backend: one action for a finding.
ServeCreate(c) ==
  LET f == traffic[c].about
      exists == \E i \in DOMAIN stored : stored[i].finding = f IN
  /\ Is(c, "create") /\ Len(stored) < MaxActions
  /\ stored' = IF exists THEN stored
               ELSE Append(stored, [finding |-> f, text |-> traffic[c].text])
  /\ traffic' = [traffic EXCEPT ![c].kind = IF exists THEN "exists" ELSE "created"]
  /\ UNCHANGED dialog

\* What is said of the action is said in the dialog of the moment.
EndCreate(c) ==
  /\ Is(c, "created") \/ Is(c, "exists")
  /\ End(c)
  /\ dialog' = [dialog EXCEPT !.creating = FALSE,
                  !.created = @ \/ Is(c, "created"), !.conflict = @ \/ Is(c, "exists")]
  /\ UNCHANGED stored
\* The request or its answer is lost, or the backend fails.
CreateFails(c) ==
  /\ \E kind \in {"create", "created", "exists"} : Is(c, kind)
  /\ End(c)
  /\ dialog' = [dialog EXCEPT !.creating = FALSE, !.conflict = FALSE]
  /\ UNCHANGED stored

DialogNext ==
  \/ \E c \in DialogCalls :
       \/ \E f \in DialogFindings : HandleGenerateRecommendation(c, f)
       \/ ShowRecommendation(c) \/ RecommendationFails(c) \/ ShowUsers(c)
       \/ HandleCreateRemediation(c) \/ ServeCreate(c) \/ EndCreate(c)
       \/ CreateFails(c)
  \/ CloseRecommendation
DialogSpec == DialogInit /\ [][DialogNext]_dialogVars

-----------------------------------------------------------------------------
(* Properties *)

\* The recommendation that is shown, and the users that are offered, are
\* those of the finding that is shown, however often the dialog is closed and
\* opened while answers are on their way; so an action is stored with the
\* recommendation for its own finding.
DialogIsAboutItsFinding ==
  /\ dialog.finding # None =>
       /\ dialog.recommendation \in {dialog.finding, None}
       /\ dialog.assignable \in {OrgOf(dialog.finding), None}
  /\ \A i \in DOMAIN stored : stored[i].text = stored[i].finding
=============================================================================
