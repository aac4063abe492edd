--------------------------- MODULE RepositoryScan ---------------------------
(***************************************************************************)
(* Scans of public repositories (repository-scans.service.ts): metadata,   *)
(* list of manifests, all manifests read at the same time, one query to    *)
(* OSV.  Nothing is stored.  The calls name a branch, not a commit, and    *)
(* somebody may push to it between them.                                   *)
(*                                                                         *)
(* A manifest is the sequence of the dependencies its parser returns, or   *)
(* Broken (invalid JSON, more than 5 MB).  Any external call may fail.     *)
(***************************************************************************)
EXTENDS Naturals, Sequences, SequencesExt, Absence

CONSTANTS
  Scans, Commits, Paths, Dependencies, Broken,
  Tree(_),         \* paths of the manifests of a commit, in the order listed
  Content(_, _),   \* what the parser makes of a file of a commit
  Vulnerable,      \* dependencies that OSV has entries about
  MaxManifests, MaxDependencies

VARIABLES head, scans
scanVars == <<head, scans>>

\* A dependency has an ecosystem, a name and a version, and is found in some
\* manifest.
Found(d, path, place) == [dependency |-> d, manifest |-> path, place |-> place]
Entries == [dependency : Dependencies, manifest : Paths, place : Nat \X Nat]

\* texts: what is read so far; heads (history): the commits that were head while
\* the scan ran.
NewScan == [at |-> "metadata", paths |-> << >>, texts |-> [p \in Paths |-> None],
            report |-> None, heads |-> {head}]
Read(scan) == {p \in Paths : scan.texts[p] # None}
ScanStages == {"metadata", "tree", "files", "osv", "done", "failed"}
Texts == {Broken} \cup Seq(Dependencies)
Reports == [manifests : Seq(Paths), dependencies : 1 .. MaxDependencies,
            findings : SUBSET Entries]
ScanRow == [at : ScanStages, paths : Seq(Paths),
            texts : [Paths -> Texts \cup {None}],
            report : Reports \cup {None}, heads : SUBSET Commits]

\* Trees and contents have their types, no dependency is more than its three
\* parts, and None is no text, no report and no scan.
ASSUME ScanAssumption ==
  /\ MaxManifests \in Nat \ {0} /\ MaxDependencies \in Nat \ {0}
  /\ \A c \in Commits :
       /\ Tree(c) \in Seq(Paths)
       /\ \A p \in ToSet(Tree(c)) : Content(c, p) \in Texts
  /\ \A d, e \in Dependencies :
       d.ecosystem = e.ecosystem /\ d.name = e.name /\ d.version = e.version => d = e
  /\ None \notin Texts /\ None \notin Reports /\ None \notin ScanRow

ScanTypeOK ==
  /\ head \in Commits
  /\ scans \in [Scans -> ScanRow \cup {None}]
  /\ \A r \in Scans : scans[r] # None =>
       /\ Len(scans[r].paths) <= MaxManifests
       /\ Read(scans[r]) \subseteq ToSet(scans[r].paths)

ScanInit == head \in Commits /\ scans = [r \in Scans |-> None]

-----------------------------------------------------------------------------
(* From manifests to findings.  A list is the set of its entries; each keeps   *)
(* the place that puts it in order: the number of its manifest and of its line *)
(* in it.                                                                      *)

Slice(s, n) == SubSeq(s, 1, IF Len(s) < n THEN Len(s) ELSE n)  \* s.slice(0, n)
Before(e, f) ==
  \/ e.place[1] < f.place[1]
  \/ e.place[1] = f.place[1] /\ e.place[2] < f.place[2]
Leading(list, n) == {e \in list : Cardinality({f \in list : Before(f, e)}) < n}

\* Mutant: two versions of one package are one dependency.
DependencyKey_Name(entry) ==
  <<entry.dependency.ecosystem, entry.dependency.name>>
DependencyKey(entry) ==
  <<entry.dependency.ecosystem, entry.dependency.name, entry.dependency.version>>

\* A Map keeps the place of the first entry of a key and the last value.
Like(list, e) == {f \in list : DependencyKey(f) = DependencyKey(e)}
Firsts(list) == {e \in list : \A f \in Like(list, e) : ~Before(f, e)}
LastLike(list, e) ==
  CHOOSE f \in Like(list, e) : \A g \in Like(list, e) : ~Before(f, g)
DeduplicateDependencies(list) ==
  {[LastLike(list, e) EXCEPT !.place = e.place] : e \in Firsts(list)}

Parse(scan, i) ==
  LET path == scan.paths[i]
  IN {Found(scan.texts[path][line], path, <<i, line>>) : line \in DOMAIN scan.texts[path]}
Parsed(scan) == UNION {Parse(scan, i) : i \in DOMAIN scan.paths}
Collected(scan) == Leading(DeduplicateDependencies(Parsed(scan)), MaxDependencies)

\* OSV answers the queries of a batch in their order.
QueryBatch(list) == [e \in list |-> e.dependency \in Vulnerable]
Vulnerabilities(list) == {e \in list : QueryBatch(list)[e]}

-----------------------------------------------------------------------------
(* The handler *)

InScan(r, at) == scans[r] # None /\ scans[r].at = at
Continue(r, state) == scans' = [scans EXCEPT ![r] = state] /\ UNCHANGED head
Fail(r) == Continue(r, [scans[r] EXCEPT !.at = "failed"])

StartScan(r) == scans[r] = None /\ Continue(r, NewScan)
ReadMetadata(r) == InScan(r, "metadata") /\ Continue(r, [scans[r] EXCEPT !.at = "tree"])

ListManifests(r) ==
  /\ InScan(r, "tree")
  /\ IF Tree(head) = << >> THEN Fail(r)
     ELSE Continue(r, [scans[r] EXCEPT !.at = "files",
                                       !.paths = Slice(Tree(head), MaxManifests)])

\* One of the concurrent reads succeeds; a file that is gone fails it.
Missing(r) == ToSet(scans[r].paths) \ Read(scans[r])
ReadFile(r) ==
  /\ InScan(r, "files")
  /\ \E p \in Missing(r) :
       /\ p \in ToSet(Tree(head))
       /\ Continue(r, [scans[r] EXCEPT !.texts[p] = Content(head, p)])

\* All are read: parse them.
ParseManifests(r) ==
  /\ InScan(r, "files") /\ Missing(r) = {}
  /\ IF Broken \in {scans[r].texts[p] : p \in Paths} THEN Fail(r)
     ELSE IF Collected(scans[r]) = {} THEN Fail(r)
     ELSE Continue(r, [scans[r] EXCEPT !.at = "osv"])

QueryOsv(r) ==
  LET list == Collected(scans[r]) IN
  /\ InScan(r, "osv")
  /\ Continue(r, [scans[r] EXCEPT !.at = "done",
       !.report = [manifests |-> scans[r].paths, dependencies |-> Cardinality(list),
                   findings |-> Vulnerabilities(list)]])

Running(r) == scans[r] # None /\ scans[r].at \notin {"done", "failed"}

\* A call is refused, is cut off after 20 seconds, or names a file that is
\* gone: the whole scan fails, whatever the other reads bring.
ExternalFails(r) ==
  /\ Running(r) /\ (scans[r].at = "files" => Missing(r) # {})
  /\ Fail(r)

\* Somebody pushes: the branch has another head.
Push(c) ==
  /\ c # head /\ head' = c
  /\ scans' = [r \in Scans |-> IF scans[r] = None \/ ~Running(r) THEN scans[r]
                ELSE [scans[r] EXCEPT !.heads = @ \cup {c}]]

Work(r) ==
  \/ ReadMetadata(r) \/ ListManifests(r) \/ ReadFile(r) \/ ParseManifests(r)
  \/ QueryOsv(r) \/ ExternalFails(r)
ScanNext ==
  \/ \E r \in Scans : StartScan(r) \/ Work(r)
  \/ \E c \in Commits : Push(c)

\* Every call has a timeout, so every stage of a scan ends.
ScanSpec == ScanInit /\ [][ScanNext]_scanVars /\ \A r \in Scans : WF_scanVars(Work(r))

-----------------------------------------------------------------------------
(* Properties *)

Reported(r) == InScan(r, "done")
ListedIn(c, p) ==
  IF p \notin ToSet(Tree(c)) \/ Content(c, p) = Broken THEN {}
  ELSE ToSet(Content(c, p))
FirstManifests(c) == {Tree(c)[i] : i \in {j \in DOMAIN Tree(c) : j <= MaxManifests}}
DependenciesOf(c) == UNION {ListedIn(c, p) : p \in FirstManifests(c)}
FindingsOf(r) == {f.dependency : f \in scans[r].report.findings}

\* A scan during which nobody pushes is about the first manifests of its commit:
\* it reports exactly their vulnerable dependencies.  If they have more than the
\* limit it reports on as many different ones as the limit allows.
ReportMatchesRepository ==
  \A r \in Scans : \A c \in Commits : Reported(r) /\ scans[r].heads = {c} =>
    IF Cardinality(DependenciesOf(c)) <= MaxDependencies
    THEN /\ FindingsOf(r) = DependenciesOf(c) \cap Vulnerable
         /\ scans[r].report.dependencies = Cardinality(DependenciesOf(c))
    ELSE /\ FindingsOf(r) \subseteq DependenciesOf(c) \cap Vulnerable
         /\ scans[r].report.dependencies = MaxDependencies

\* A finding names a manifest that was scanned and has the dependency in some commit that was
\* head while the scan ran, also if pushes have mixed several commits.
FindingsNameTheirManifest ==
  \A r \in Scans : Reported(r) =>
    \A f \in scans[r].report.findings :
      /\ f.manifest \in ToSet(scans[r].report.manifests)
      /\ \E c \in scans[r].heads : f.dependency \in ListedIn(c, f.manifest)

\* No dependency is reported twice, whatever manifests it is in.
NothingReportedTwice ==
  \A r \in Scans : Reported(r) =>
    Cardinality(scans[r].report.findings) = Cardinality(FindingsOf(r))

\* A report is about the repository.
ScansReportTheRepository ==
  ReportMatchesRepository /\ FindingsNameTheirManifest /\ NothingReportedTwice

\* Every scan ends with a report or an error.
EveryScanEnds == \A r \in Scans : scans[r] # None ~> scans[r] # None /\ ~Running(r)
=============================================================================
