------------------------ MODULE VulnerabilityFindings ------------------------
(***************************************************************************)
(* The vulnerability findings of the backend                               *)
(* (vulnerability-findings.service.ts).  A request is a NestJS handler     *)
(* that runs concurrently with every other one: each of its database       *)
(* statements is one atomic step, and other requests run between two of    *)
(* its steps.  A request reads its row inside the caller's organization    *)
(* scope and later writes that row by id alone.                            *)
(*                                                                         *)
(* Ids are UUIDs and never come back: a row is unborn, then live, then     *)
(* deleted.                                                                *)
(***************************************************************************)
EXTENDS Naturals

CONSTANTS
  FindingIds,       \* primary keys of the VulnerabilityFinding table
  Orgs,             \* organizations (tenants)
  FindingRequests,  \* finding requests that may be in flight together
  FindingInputs,    \* request bodies that callers send
  None,             \* no value: undefined scope, no row, no user
  MaxAlerts,        \* bound: alert mails of one finding waiting to be sent
  DbFaults          \* TRUE: a database call of a request may reject

FindingStatuses ==
  {"OPEN", "IN_PROGRESS", "RESOLVED", "ACCEPTED_RISK", "FALSE_POSITIVE"}
Exploits == {"UNKNOWN", "NO_KNOWN_EXPLOIT", "PUBLIC_EXPLOIT_AVAILABLE"}
Lives == {"unborn", "live", "deleted"}

\* A body may leave a column out: Prisma does not touch an undefined column.
Unset == "unset"
FindingDto == [status : FindingStatuses \cup {Unset},
               exploit : Exploits \cup {Unset}]

ASSUME FindingAssumption ==
  /\ None \notin FindingIds /\ None \notin Orgs
  /\ FindingInputs \subseteq FindingDto
  /\ MaxAlerts \in Nat \ {0}
  /\ DbFaults \in BOOLEAN

VARIABLES
  findings,  \* the VulnerabilityFinding table
  freq,      \* local state of each finding request
  alerts     \* alert mails queued for each finding and not yet sent

findingVars == <<findings, freq, alerts>>

FindingRow == [life : Lives, org : Orgs \cup {None},
               status : FindingStatuses, exploit : Exploits]
NoFinding(life) == [life |-> life, org |-> None,
                    status |-> "OPEN", exploit |-> "UNKNOWN"]

\* Local state of a request between two database statements: the step it is
\* about to take, the row it found, the body, the exploit column it read.
FindingRequest == [at : {"idle", "update", "delete"},
                   scope : Orgs \cup {None}, id : FindingIds \cup {None},
                   dto : FindingDto, seen : Exploits]
NoEdit == [status |-> Unset, exploit |-> Unset]
IdleFinding == [at |-> "idle", scope |-> None, id |-> None,
                dto |-> NoEdit, seen |-> "UNKNOWN"]

Scopes == Orgs \cup {None}
\* A Super Admin has no scope; everyone else has the organization of the token.
InScope(org, scope) == scope = None \/ org = scope

Live(f) == findings[f].life = "live"
Public(row) == row.exploit = "PUBLIC_EXPLOIT_AVAILABLE"
\* Mutant: an undefined column is written all the same.
Put_Undefined(old, new) == new
\* The column after a write whose body holds new.
Put(old, new) == IF new = Unset THEN old ELSE new

FindingTypeOK ==
  /\ findings \in [FindingIds -> FindingRow]
  /\ freq \in [FindingRequests -> FindingRequest]
  /\ alerts \in [FindingIds -> 0 .. MaxAlerts]

FindingInit ==
  /\ findings = [f \in FindingIds |-> NoFinding("unborn")]
  /\ freq = [r \in FindingRequests |-> IdleFinding]
  /\ alerts = [f \in FindingIds |-> 0]

-----------------------------------------------------------------------------
(* Steps *)

QueueAlert(f) ==
  /\ alerts[f] < MaxAlerts
  /\ alerts' = [alerts EXCEPT ![f] = @ + 1]

FinishFinding(r) == freq' = [freq EXCEPT ![r] = IdleFinding]

\* create: the software row it reads keeps its organization for ever and is
\* never deleted, so the read and the insert are one step.
CreateFinding(f, org, scope, dto) ==
  LET row == [life |-> "live", org |-> org, status |-> Put("OPEN", dto.status),
              exploit |-> Put("UNKNOWN", dto.exploit)]
  IN /\ findings[f].life = "unborn"
     /\ InScope(org, scope)
     /\ findings' = [findings EXCEPT ![f] = row]
     /\ IF Public(row) THEN QueueAlert(f) ELSE UNCHANGED alerts
     /\ UNCHANGED freq

\* Mutant: the read forgets the organization scope.
ReadFinding_Unscoped(r, f, scope, dto, at) ==
  /\ freq[r].at = "idle"
  /\ Live(f)
  /\ freq' = [freq EXCEPT ![r] = [at |-> at, scope |-> scope, id |-> f,
                                  dto |-> dto, seen |-> findings[f].exploit]]
  /\ UNCHANGED <<findings, alerts>>

\* update and remove, first statement: read the row inside the scope.
ReadFinding(r, f, scope, dto, at) ==
  /\ freq[r].at = "idle"
  /\ Live(f) /\ InScope(findings[f].org, scope)
  /\ freq' = [freq EXCEPT ![r] = [at |-> at, scope |-> scope, id |-> f,
                                  dto |-> dto, seen |-> findings[f].exploit]]
  /\ UNCHANGED <<findings, alerts>>

BeginFindingUpdate(r, f, scope, dto) == ReadFinding(r, f, scope, dto, "update")
BeginFindingRemoval(r, f, scope) == ReadFinding(r, f, scope, NoEdit, "delete")

Edited(row, dto) == [life |-> row.life, org |-> row.org,
                     status |-> Put(row.status, dto.status),
                     exploit |-> Put(row.exploit, dto.exploit)]

\* Mutant: the alert looks at the written row only.
AlertDue_Always(seen, row) == Public(row)

\* The alert compares the row that the write returned with the row read before.
AlertDue(seen, row) == seen # "PUBLIC_EXPLOIT_AVAILABLE" /\ Public(row)

\* Mutant: an upsert, which writes the row even if it is gone.
CommitFindingUpdate_Upsert(r) ==
  /\ freq[r].at = "update"
  /\ FinishFinding(r)
  /\ findings' = [findings EXCEPT ![freq[r].id] =
                    [Edited(@, freq[r].dto) EXCEPT !.life = "live"]]
  /\ UNCHANGED alerts

\* update, second statement; on a row that is gone Prisma throws.
CommitFindingUpdate(r) ==
  LET f == freq[r].id
      row == Edited(findings[f], freq[r].dto)
  IN /\ freq[r].at = "update"
     /\ FinishFinding(r)
     /\ IF Live(f)
        THEN /\ findings' = [findings EXCEPT ![f] = row]
             /\ IF AlertDue(freq[r].seen, row) THEN QueueAlert(f)
                                              ELSE UNCHANGED alerts
        ELSE UNCHANGED <<findings, alerts>>

\* remove, second statement.
CommitFindingRemoval(r) ==
  LET f == freq[r].id
  IN /\ freq[r].at = "delete"
     /\ FinishFinding(r)
     /\ findings' = IF Live(f)
                    THEN [findings EXCEPT ![f] = NoFinding("deleted")]
                    ELSE findings
     /\ UNCHANGED alerts

\* The pending database call rejects: the handler ends with an error.
FailFindingRequest(r) ==
  /\ DbFaults
  /\ freq[r].at # "idle"
  /\ FinishFinding(r)
  /\ UNCHANGED <<findings, alerts>>

\* The background task of NotificationsService takes an alert off the queue.
SendAlert(f) ==
  /\ alerts[f] > 0
  /\ alerts' = [alerts EXCEPT ![f] = @ - 1]
  /\ UNCHANGED <<findings, freq>>

FindingNext ==
  \/ \E f \in FindingIds, org \in Orgs, scope \in Scopes, dto \in FindingInputs :
        CreateFinding(f, org, scope, dto)
  \/ \E r \in FindingRequests, f \in FindingIds, scope \in Scopes :
        \/ \E dto \in FindingInputs : BeginFindingUpdate(r, f, scope, dto)
        \/ BeginFindingRemoval(r, f, scope)
  \/ \E r \in FindingRequests : CommitFindingUpdate(r)
  \/ \E r \in FindingRequests : CommitFindingRemoval(r)
  \/ \E r \in FindingRequests : FailFindingRequest(r)
  \/ \E f \in FindingIds : SendAlert(f)

FindingSpec == FindingInit /\ [][FindingNext]_findingVars

-----------------------------------------------------------------------------
(* Properties *)

\* A write whose request still knows the current exploit column alerts exactly
\* on a publication, whatever ran between its read and its write.
AlertOnPublicationWhenReadIsFresh ==
  [][\A f \in FindingIds :
       \/ (alerts'[f] > alerts[f]) <=> (~Public(findings[f]) /\ Public(findings'[f]))
       \/ \E r \in FindingRequests :
            /\ freq[r].at = "update" /\ freq[r].id = f /\ freq'[r].at = "idle"
            /\ freq[r].seen # findings[f].exploit
    ]_findingVars

\* A row that exists changes only by a request of its own organization or by a
\* Super Admin's: the second statement, which names the row by id alone, never
\* leaves the scope that the first one was read in.
FindingWritesInScope ==
  [][\A f \in FindingIds :
       Live(f) /\ findings'[f] # findings[f] =>
         \E r \in FindingRequests :
            /\ freq[r].id = f /\ freq'[r] # freq[r]
            /\ InScope(findings[f].org, freq[r].scope)
    ]_findingVars

\* A finding that was deleted never comes back, whatever updates were in flight
\* when it went.
DeletedFindingsStayDeleted ==
  [][\A f \in FindingIds :
       findings[f].life = "deleted" => findings'[f] = findings[f]]_findingVars
=============================================================================
