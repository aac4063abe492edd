------------------------------ MODULE Dashboard ------------------------------
(***************************************************************************)
(* The dashboard (dashboard.service.ts and Dashboard.tsx).  A summary is   *)
(* some thirty counts, each a statement of its own, run concurrently and   *)
(* outside a transaction: every count may see the tables of another        *)
(* moment.  The list of deadlines is read by a second request.             *)
(*                                                                         *)
(* The tables are one set of rows; of the columns those that are counted   *)
(* are kept.  A day of the deadline is a number.  A summary is followed    *)
(* for the counts of one panel of the page; the others do not touch them.  *)
(***************************************************************************)
EXTENDS Integers, FiniteSets, FiniteSetsExt, Absence

CONSTANTS BoardRows, Tenants,
          TenantOf(_), \* the organization of a row, which never changes
          BoardScopes,     \* of the callers: Tenants \cup {None} or a part of it
          Panels,     \* what a behaviour may look at: a table, the names of
                      \* counts, the statuses and deadlines of its rows
          LastDay, MaxWrites, MaxListed

VARIABLES
  day, store,  \* the clock and the rows: an id or None
  panel,       \* the table and the counts that are looked at
  summary,     \* the request for the summary: the counts it has so far, and
               \* (history) whether nothing was written since it was made
  deadlines,   \* the answer of the last request for the deadlines, None when
               \* something has changed since
  written      \* history: writes while the summary was computed; in all
boardVars == <<day, store, panel, summary, deadlines, written>>

Statuses == [
  organizations |-> {"ACTIVE", "SUSPENDED"},
  users     |-> {"ACTIVE", "INACTIVE"},
  devices   |-> {"ACTIVE", "INACTIVE", "RETIRED"},
  software  |-> {"INSTALLED", "REMOVED", "UNKNOWN"},
  updates   |-> {"OUTDATED", "UP_TO_DATE", "UNKNOWN"},
  vulnerabilities |-> {"OPEN", "IN_PROGRESS", "RESOLVED", "ACCEPTED_RISK", "FALSE_POSITIVE"},
  actions   |-> {"PENDING", "IN_PROGRESS", "COMPLETED", "CANCELLED"}]
\* Statuses that have a count of their own, as the page shows them.
PartsShown == [
  organizations |-> <<"ACTIVE", "SUSPENDED">>,
  users     |-> <<"ACTIVE", "INACTIVE">>,
  devices   |-> <<"ACTIVE", "RETIRED">>,
  software  |-> <<"INSTALLED", "REMOVED">>,
  updates   |-> <<"OUTDATED", "UP_TO_DATE">>,
  vulnerabilities |-> <<"OPEN", "IN_PROGRESS", "RESOLVED">>,
  actions   |-> <<"PENDING", "IN_PROGRESS", "COMPLETED", "CANCELLED">>]
Counted(t) == {PartsShown[t][i] : i \in DOMAIN PartsShown[t]}
Days == 0 .. LastDay

\* Deadlines are left out where no count looks at them.
Row(table) == [tenant : Tenants, status : panel.statuses \cap Statuses[table],
               due : panel.dues]

\* The counts that a panel may show.
CountNames(t) == {"total"} \cup Counted(t)
                   \cup (IF t = "actions" THEN {"overdue", "due soon"} ELSE {})

\* Panels show what their table counts; deadlines are counted against the two
\* statuses that are unfinished.
ASSUME BoardAssumption ==
  /\ IsFiniteSet(BoardRows) /\ \A i \in BoardRows : TenantOf(i) \in Tenants
  /\ LastDay \in Nat /\ MaxListed \in Nat /\ None \notin Int
  /\ \A p \in Panels :
       /\ p.table \in DOMAIN Statuses /\ p.names \subseteq CountNames(p.table)
       /\ p.dues \subseteq Int \cup {None}
       /\ "overdue" \in p.names => {"due soon", "PENDING", "IN_PROGRESS"} \subseteq p.names

BoardTypeOK ==
  /\ day \in Days /\ panel \in Panels
  /\ panel.names \subseteq CountNames(panel.table)
  /\ \A i \in BoardRows : store[i] # None => store[i] \in Row(panel.table)
  /\ summary # None => /\ summary.scope \in BoardScopes
                       /\ DOMAIN summary.counts \subseteq panel.names
                       /\ \A n \in DOMAIN summary.counts :
                            summary.counts[n] \in 0 .. Cardinality(BoardRows)
  /\ deadlines # None => Cardinality(deadlines.listed) <= MaxListed

BoardInit ==
  /\ day = 0 /\ panel \in Panels
  /\ store = [i \in BoardRows |-> None]
  /\ summary = None /\ deadlines = None /\ written = [during |-> 0, all |-> 0]

-----------------------------------------------------------------------------
(* Summary *)

RowInScope(row, scope) == scope \in {None, row.tenant}
Unfinished(row) == row.status \in {"PENDING", "IN_PROGRESS"}
Soon == 3

\* Mutant: inactive rows are counted over all organizations.
Where_AllTenants(name, row, scope, now) ==
  /\ RowInScope(row, scope) \/ name = "INACTIVE"
  /\ CASE name = "total" -> TRUE
       [] name = "overdue" -> Unfinished(row) /\ row.due # None /\ row.due < now
       [] name = "due soon" ->
            Unfinished(row) /\ row.due # None /\ row.due \in now .. now + Soon
       [] OTHER -> row.status = name
Where(name, row, scope, now) ==
  /\ RowInScope(row, scope)
  /\ CASE name = "total" -> TRUE
       [] name = "overdue" -> Unfinished(row) /\ row.due # None /\ row.due < now
       [] name = "due soon" ->
            Unfinished(row) /\ row.due # None /\ row.due \in now .. now + Soon
       [] OTHER -> row.status = name
Count(name, scope, now) ==
  Cardinality({i \in BoardRows : store[i] # None /\ Where(name, store[i], scope, now)})

AskSummary(scope) ==
  /\ summary = None
  /\ summary' = [scope |-> scope, now |-> day, counts |-> << >>,
                 quiet |-> TRUE]
  /\ UNCHANGED <<day, store, panel, deadlines, written>>

\* One of the statements is executed.
ExecuteCount(n) ==
  /\ summary # None /\ n \in panel.names \ DOMAIN summary.counts
  /\ summary' = [summary EXCEPT !.counts =
       [m \in DOMAIN @ \cup {n} |->
          IF m = n THEN Count(n, summary.scope, summary.now) ELSE @[m]]]
  /\ UNCHANGED <<day, store, panel, deadlines, written>>

SummaryComplete == summary # None /\ DOMAIN summary.counts = panel.names

\* The page reloads: the answer is replaced by the next one.
Refresh ==
  /\ SummaryComplete /\ written.all < MaxWrites
  /\ summary' = None /\ written' = [written EXCEPT !.during = 0]
  /\ UNCHANGED <<day, store, panel, deadlines>>

-----------------------------------------------------------------------------
(* Deadlines *)

Urgent(row, scope) ==
  /\ RowInScope(row, scope) /\ Unfinished(row)
  /\ row.due # None /\ row.due <= day + Soon

\* The most urgent rows; which of two rows of one day comes first is open.
GetRecentActivity(scope) ==
  LET found == {i \in BoardRows : store[i] # None /\ Urgent(store[i], scope)} IN
  /\ "overdue" \in panel.names
  /\ \E some \in SUBSET found :
       /\ Cardinality(some) = Min({Cardinality(found), MaxListed})
       /\ \A i \in some, j \in found \ some : store[i].due <= store[j].due
       /\ deadlines' = [scope |-> scope, listed |-> some,
            state |-> [i \in some |->
              IF store[i].due < day THEN "OVERDUE" ELSE "DUE_SOON"]]
  /\ UNCHANGED <<day, store, panel, summary, written>>

\* The badge that the page of actions computes by itself.
GetDeadlineState(row) ==
  IF row.due = None \/ ~Unfinished(row) THEN "NONE"
  ELSE IF row.due < day THEN "OVERDUE"
  ELSE IF row.due <= day + Soon THEN "DUE_SOON" ELSE "UPCOMING"

-----------------------------------------------------------------------------
(* The rest of the system *)

Stale == deadlines' = None
Noted == written' = [all |-> written.all + 1,
  during |-> IF summary = None \/ SummaryComplete THEN written.during ELSE written.during + 1]

\* A row is inserted, changed or deleted by one of the services.
WriteRow ==
  /\ written.all < MaxWrites
  /\ \E i \in BoardRows : \E row \in Row(panel.table) \cup {None} :
       /\ row # store[i]
       /\ row # None => row.tenant = TenantOf(i)
       /\ store' = [store EXCEPT ![i] = row]
  /\ summary' = IF summary = None THEN None ELSE [summary EXCEPT !.quiet = FALSE]
  /\ Noted /\ Stale /\ UNCHANGED <<day, panel>>
Midnight ==
  /\ day < LastDay /\ day' = day + 1
  /\ Stale /\ UNCHANGED <<store, panel, summary, written>>

BoardNext ==
  \/ \E s \in BoardScopes : AskSummary(s) \/ GetRecentActivity(s)
  \/ \E n \in panel.names : ExecuteCount(n)
  \/ Refresh \/ WriteRow \/ Midnight
BoardSpec == BoardInit /\ [][BoardNext]_boardVars

-----------------------------------------------------------------------------
(* Properties *)

\* The parts of a panel add up to its total, but for one row for every write
\* that was made while the summary was computed.  (Where a status has no
\* count of its own the parts may stay below the total.)
Off(x, y) == IF x > y THEN x - y ELSE y - x
\* No panel has more than four parts.
Part(i) == IF i \in DOMAIN PartsShown[panel.table]
           THEN summary.counts[PartsShown[panel.table][i]] ELSE 0
PartsAddUp ==
  SummaryComplete /\ {"total"} \cup Counted(panel.table) \subseteq panel.names =>
    LET parts == Part(1) + Part(2) + Part(3) + Part(4) IN
    /\ parts <= summary.counts["total"] + written.during
    /\ Counted(panel.table) = Statuses[panel.table] =>
         Off(parts, summary.counts["total"]) <= written.during

\* Overdue actions and those that are due soon are different ones, and all of
\* them unfinished, but for two for every write that was made while the summary
\* was computed: an action that was counted as overdue may get another status
\* and another deadline before the other counts reach it.
DeadlinesAmongUnfinished ==
  SummaryComplete /\ "overdue" \in panel.names =>
    summary.counts["overdue"] + summary.counts["due soon"]
      <= summary.counts["PENDING"] + summary.counts["IN_PROGRESS"]
           + 2 * written.during

\* The list shows the deadlines that the summary counts, or as many as fit,
\* and the page of actions shows each with the same badge.
ListMatchesSummary ==
  deadlines # None =>
    /\ \A i \in deadlines.listed :
         deadlines.state[i] = GetDeadlineState(store[i])
    /\ /\ SummaryComplete /\ summary.quiet /\ "overdue" \in panel.names
       /\ summary.scope = deadlines.scope /\ summary.now = day
       => Cardinality(deadlines.listed) =
            Min({MaxListed, summary.counts["overdue"] + summary.counts["due soon"]})

\* The numbers of the page fit together.
DashboardAgrees == PartsAddUp /\ DeadlinesAmongUnfinished /\ ListMatchesSummary
=============================================================================
