# VulnGuard AI: verification models

TLA+ models of the backend (`backend/src/modules`, NestJS with Prisma on
PostgreSQL), of the NVIDIA service (`ai-service/app`), of the browser client
(`frontend/src/api`) and of pages that keep state (`frontend/src/pages`), the TLC
configurations that check them, and theorems about them checked by TLAPS. Paths
below are relative to the repository; `RA` is `remediation-actions.service.ts`
and `AU` is `auth.service.ts`.

Run a model with `tlc -workers 2 -config X.cfg M`, the proofs of a module with
`tlapm M.tla`.

## 1. The system

### Execution model

Node runs one handler at a time between two `await`s. Every Prisma call is one
SQL statement in a transaction of its own (PostgreSQL, READ COMMITTED); only the
arrays given to `$transaction([...])` are atomic together. So a handler is a
sequence of atomic steps, one per database call, and handlers interleave at every
`await`. What a handler has read may be stale when it uses it. `update` and
`delete` of a row that is gone reject (P2025); unique constraints, foreign keys
and cascades are those of `backend/prisma/schema.prisma`. Nothing recovers
half-done work after a crash: a request whose process dies simply ends, like one
whose database call rejects.

### Components

| Component | State | Operations | Hard behaviour | What makes it correct |
|---|---|---|---|---|
| Vulnerability findings (`vulnerability-findings.service.ts`) | table VulnerabilityFinding | create, update, remove | read and write are two statements; alert decided from the row read earlier | writes stay in the scope of the caller; deleted rows stay deleted; an alert for each publication of an exploit |
| Remediation actions (`remediation-actions.service.ts`) | tables RemediationAction, RemediationEvidence | create, update, remove, addEvidence, removeEvidence | duplicate check and insert, gate and write, action and finding are separate statements | one action per finding; verified only when completed; finding follows the action; organization copies agree; cascades leave no orphan |
| Alert queue (`notifications.service.ts`) | background sends | queue and send | runs after the response, fails silently | mails go to the right people, once |
| Accounts (`auth.service.ts`, `users.service.ts`, `email-verification.service.ts`) | tables User, PasswordResetToken, EmailVerificationToken | register, create, update, deactivate, forgot, reset, verify, resend | count and insert are apart by a bcrypt hash; links are checked before a hash and not again | registration locks; only a link verifies; a replaced link is dead; links do not pile up |
| Sessions (`auth.service.ts`) | table RefreshToken | login, refresh, logout | refresh is read, revoke, insert | a rotated token is spent; a closed session stays closed; the deactivated get no token |
| Browser client (`frontend/src/api/api.ts`, `MainLayout.tsx`, `Login.tsx`) | localStorage, one renewal per tab, calls in flight | call, renew, repeat, login, logout | several calls fail together; tabs share localStorage but not the renewal | one renewal per tab; the work of the tabs keeps no spent pair; every call ends |
| Organizations, departments, users, devices, software inventory (`organizations.service.ts` ... `software-inventory.service.ts`) | a table each | create, update, suspend / remove / deactivate / retire | references and duplicates are looked up in statements that precede the write | references stay inside one organization unless a row moves; nothing is stored twice; lists lead to nothing outside the scope |
| Software update findings (`software-update-findings.service.ts`) | table SoftwareUpdateFinding | create, update, remove | status and flag are derived one by one from three inputs, merged with a copy of the row | a finding stays with its software; flag and status agree unless a client chose the status |
| Access rules and audit log (`roles.guard.ts`, `jwt.strategy.ts`, the decorators, `audit.interceptor.ts`) | table AuditLog, access tokens | admit, answer, record | claims are up to 15 minutes old; the record is written after the answer and its failure swallowed | a role that was taken away is of use for one token life only, and the time a login takes; records are earned; every change is recorded unless something failed |
| AI recommendations (`ai-recommendations.service.ts`, `ai-service/app`) | none | collect history, ask a provider, fall back | external model, a gateway between the services that may answer for them, one retry | always an answer, labelled with where it comes from; a retry after a 502 only |
| Repository scans (`repository-scans.service.ts`) | none | metadata, tree, files, advisories | the repository is pushed to meanwhile; caps on manifests and dependencies | reports what the manifests say, each finding once and with a manifest it is in |
| Dashboard (`dashboard.service.ts`, `Dashboard.tsx`) | none | summary, deadlines | some thirty counts, each of another moment | counts that belong together differ by the writes in between at most |
| Pages of the frontend (`pages/*.tsx`) | component state | load, edit, save, generate, close | lists and answers out of order, handlers that remember an older state | a form is saved to the row it was loaded from; a dialog is about its finding |
| NVD lookup, schema and seed | none or constant | - | - | - |

Interactions: remediation writes findings; removing a finding cascades to actions
and evidence; findings queue alerts; registration, creation and `forgotPassword`
queue mails; login and refresh read users that `users.service.ts` edits; moving a
user to another organization touches the departments, devices and assignments
that others have checked against it; moving a device leaves its software behind;
recommendations read verified actions; the dashboard counts all tables; the
browser client drives login, refresh and logout, and the pages call the rest.

## 2. Modules

| Module | What it is |
|---|---|
| `VulnerabilityFindings` | findings and the alert queue |
| `RemediationActions` | extends it: actions, evidence, the write of the finding, cascades, users that move |
| `AtomicRemediation` | abstract specification: plan and status of a finding change in one step |
| `SerialRemediation` | refinement mapping from `RemediationActions` to `AtomicRemediation`; history variables and the properties of an action and its finding that need them |
| `Accounts` | users, reset and verification links |
| `Sessions` | extends it: refresh tokens |
| `ApiClient` | the tabs of one browser against the refresh and logout of the server |
| `Inventory` | the directory and the asset register: six tables, requests of several statements, the constraints of the schema, the scoped lists |
| `AiRecommendation` | requests for recommendations in the backend and in the NVIDIA service |
| `RepositoryScan` | scans of a repository that changes |
| `Dashboard` | counts of a summary, list and badge of deadlines |
| `AuditTrail` | access tokens and their claims, role guard, interceptor, records, menu |
| `RecommendationDialog` | the dialog in which a recommendation becomes an action |
| `RecordPage` | the pages of users, software and devices: lists, form, dependent selections |
| `MCFindings`, `MCRemediation`, `MCLedger`, `MCAccounts`, `MCSessions`, `MCApiClient`, `MCInventory` | values of the constants for TLC |
| `Absence` | the value `None` that the parts of `MCServices` share |
| `MCServices` | extends `MCInventory` and the six modules above; the parts that share no state, side by side |
| `RemediationActions_proofs` | theorems about findings, actions and evidence, and the refinement of `SerialRemediation` |
| `Sessions_proofs` | theorems about `Accounts` and `Sessions` |
| `Pages_proofs` | theorems about `RecommendationDialog` and `RecordPage` |
| `Services_proofs` | theorems about `AiRecommendation` and `RepositoryScan` |
| `ApiClient_proofs`, `Inventory_proofs`, `Dashboard_proofs`, `AuditTrail_proofs` | theorems about the module of that name |

### Correspondence with the code

A table is a function from primary keys to rows. `life` (or `exists`, `issued`)
says whether the row is there; a deleted key is never used again. A handler that
needs more than one statement is a request with local state (`freq`, `areq`,
`creq`, `sreq`): `at` names the statement that comes next, the other fields hold
what the handler remembers. There is one action per statement, and it includes
all the code between the previous await and the next: `UpdateAction`, for
instance, fills in dates, validates, writes the row and decides whether the
finding must follow (`RA` 208-286). A handler that ends early returns to `idle`.

Bodies of requests are records over the columns the properties look at; `Unset`
is a missing field. Names, texts, dates (only whether one is set), severities,
hashes and secrets are left out; an id stands for the secret that names the row.

Abstractions that a reader should know:

* A database call that rejects has no effect (`Fail...` actions). A lost answer
  of a committed statement is not modelled on the server; in `ApiClient` it is.
* `CreateFinding` is one step: the software row it reads keeps its organization
  and is never deleted (`software-inventory.service.ts` only marks it removed).
* EMAIL_NOTIFICATIONS_ENABLED is taken to be true; whom a mail goes to and the
  retries of the mail server are left out. A mailed link may be used by anybody
  at any time, so mailing is no step of `Accounts`.
* The two link tables have the same life cycle and are one table with a kind.
* An issue of a link is a transaction [deleteMany, create] at READ COMMITTED:
  `ClearLinks` fixes the rows that the delete has seen, `PutLink` deletes those
  and inserts the new one at the commit.
* In `Accounts` the addresses of different users never coincide; the unique column
  and its checks are in `Inventory`. An administrator's change of the address keeps
  `emailVerifiedAt` (`users.service.ts` 281) and a link sent to the old address still verifies;
  `edited` records the change, and `SessionsNeedVerifiedUser` speaks of the address
  only of users without it. Users that are older than the migration 20260828090000,
  which declared all of them verified without a link, are not in the model.
* `SerialRemediation` adds two history variables to `RemediationActions`:
  `asCreated`, the actions whose states come from the body of `create` and were not
  updated since, and `byHand`, the findings whose status was last written by an edit
  of the finding. `create` validates neither state and does not write the finding
  (`RA` 159-182), and `PATCH /vulnerability-findings/:id` writes any status, so what
  `LedgerInvariant` says of the gate and of the finding's status excepts these.
* The columns `edited` of users and `mail` of links in `Accounts`, `session` and
  `parent` of `Sessions`, `by` and `abandoned` of `ApiClient`, `moved`
  and `told` of `RemediationActions` and `Inventory`, `lost`, `held` and `slow` of
  `AuditTrail`, `heads` of `RepositoryScan`, `quiet` and `written` of `Dashboard`,
  `was` and `own` of `RecordPage` record history for the properties; no guard of
  the code reads them.
  So does `gone` of `Inventory`, which also keeps ids apart.
* In `ApiClient` what a tab does in answer to one event, its promise callbacks
  included, is one step; the two writes to localStorage are one. A page ends when
  it loads the start page (`SettleFailed`) or when the user closes or reloads it
  (`CloseTab`), at any moment, and its calls end with it. What it had posted goes on
  without it: a renewal without a tab (`Orphan`) or a logout that was `left` may
  still reach the server, at any later time, or be lost (`DropRenewal`,
  `DropLogout`); nobody hears the answer, so the pair such a renewal gets is left
  out. After `SettleFailed` nothing is posted any more: the store is empty, so what
  reaches the server then may as well have reached it before. A refresh token expires after
  its access token (seven days against 15 minutes).
* In `Inventory` a request is `[call, row, at]`: the call, the copy of the row
  that its first read returned, and the number of its next read. `Check` says
  what that read requires; a request that passes all of them makes its write, or
  the database rejects it (`Accepted`). A call that its first statement refuses
  leaves no trace and is no step. `gone` has the ids of removed departments and
  update findings: the code draws UUIDs, so they never come back. Without it a
  user could be put, by a request that had looked the department up before it was
  removed, into a new department of another organization.
* In `AiRecommendation` a recommendation is a priority and an action type; of the
  texts only whether the prompt is too long for the service is kept. The
  deadlines of the fallback (`?? 168` hours included) are those of the code.
* In `RepositoryScan` a manifest is the list its parser returns, or broken; a list
  is the set of its entries, each with its place. Other
  bounds of the code (100 entries of a GitLab tree, 5 MB of a file) only decide
  which files are there and which are broken.
* In `Dashboard` a behaviour looks at the counts of one panel of the page, since
  those of different tables are not related by any property. A summary and a list
  are each a request; the page asks for both on loading. A sum of
  parts is written out (no panel has more than four), as is the first child of a
  parent in `RecordPage`, so that the provers can reason about them.
* In `AuditTrail` a handler commits or does not, then answers or throws; what it
  does is in the other modules. A login or renewal reads the user in one step and
  signs in a later one; others may sign, assign and call in between. One that fails
  is one that never signs. Signing and storing the token in the browser are one
  step: a browser that stores it later has less time to use it. The ticks between
  read and signature are kept with the token (`slow`) for `StaleRolesEnd`.
* The modules of pages keep ids, selections and lists. A handler is one step from
  one `await` to the next. It works on the state it closed over (`Started` in
  `RecordPage` keeps the list of organizations of the click) and sets the state of
  the moment. A required selection that is empty stops the browser from
  submitting (`Complete`). That creating a user without a password only shows a
  message is left out.

## 3. Runs

The runs that pass use TLC's deadlock check except where the cfg turns it off:
ids are never reused, so a bounded instance stops when they are used up.

| Run | Question | Bounds | 
|---|---|---|
| `FindingRequests` | do finding requests alert on publication, stay in scope and leave deleted rows deleted? | 2 findings, 2 organizations, 2 requests, failing calls |
| `SerialLedger` | without overlapping remediation requests and faults, do the statements act as one atomic change, how far do action and finding agree, and does an accepted change reach the finding? | 1 finding, 2 actions, 1 remediation and 1 finding request; bodies of create with 3 of the statuses (and none) times verified or not, of update with 3 statuses and none times 3 verifications, edits of the finding to 3 statuses and none |
| `Tenants` | do references, organization copies, scopes and assignments survive any overlap? | 1 finding, 2 actions, 1 piece of evidence, 2 remediation and 1 finding request, 2 organizations, a user who moves, failing calls |
| `Gate` | does an update whose row is still the one it read keep the gate? | 1 finding, 2 actions, 2 remediation requests, all pairs of states |
| `Accounts` | does registration stay closed, do only links verify, are replaced links dead, do links pile up? | 2 users, 3 links, 2 requests, 2 passwords, failing calls |
| `Sessions` | is rotation sound, is a closed session closed, are the deactivated shut out, does logout end a session? | 1 user with 2 addresses, 1 link, 3 tokens, 2 session requests and 1 account request, failing calls |
| `ApiClient` | does a tab share its renewal, is a spent pair kept only when a page was closed, does every call end? | 2 tabs, 2 calls, 1 login, 2 renewals granted, one tab that signs out with the pair of the login, one that is closed or reloaded at any time, lost requests |
| `Services` | do the register, recommendations, scans, dashboard, access and audit trail, dialog and pages keep their promises? | see below |
| `DuplicateRace` | violated: one action per finding under overlapping creates | as `Gate` |
| `VerifiedCreate` | violated: create keeps the rule that update enforces | one request |
| `UnavailableModel` | violated: a model that fails is reported with status 503 | the part `ai` of `Services` |
| `DepartmentDrift` | violated: a form in which nobody touched the selection saves the child it was loaded with | the part `page` of `Services` |

Why the bounds suffice for what the runs ask: each hazard involves at most two
requests on one row, plus a third party (a removal, a move, a deactivation).
`Accounts` needs three links for two overlapping issues after a first one;
`Sessions` three tokens for a session that is refreshed by two requests at once; `ApiClient` three pairs so that both tabs can renew one pair before either
answer arrives. `MaxAlerts` bounds the alerts that wait for one finding,
`CallTabs` the tabs in which calls start (calls are interchangeable, so the second
call need not start in tab b), `SignOuts` the tabs and pairs of logouts,
`ClosedTabs` the tabs that are closed or reloaded, `LoginPairs` and
`RenewalPairs` how often the server issues tokens.

`Services` puts parts that share no state side by side: a behaviour is one of a
part, the variables of the others keep an initial value, and every property looks
at one part. The parts and their bounds:

| Part | Bounds | Properties |
|---|---|---|
| `register` | twelve scenes: the calls of one administrator's page, made one after the other (three calls; two for update findings) or two at a time; 2 organizations, 3 departments, 2 users, 2 devices, 2 software rows, 2 update findings, an administrator of one organization and a Super Admin | `ListsStayInScope`, `AssetsStayTogether`, `NothingTwice`, `ChecksSuffice`, `WritesStayInScope` |
| `ai` | 2 requests, 3 questions, 4 past actions (one more than are used), 6 deployments, a gateway that answers 502 | `RecommendationsAreHonest`, `EverythingEnds` |
| `scan` | 1 scan, 4 commits (one with a manifest more than are read and just as many dependencies as are kept, one with a dependency more than are kept, one without and one with a broken manifest); 2 manifests and 3 dependencies stand for the limits 10 and 500 | `ScansReportTheRepository`, `EverythingEnds` |
| `board` | 2 rows in 2 organizations, 4 panels (one with two deadlines and both unfinished states), 2 writes, one midnight | `DashboardAgrees` |
| `access` | 1 user whose role changes once, 2 logins or renewals, tokens of 1 tick, 2 ticks, 2 calls, crash of the server | `AccessIsCurrent`, `EverythingEnds` |
| `dialog` | 2 findings in 2 organizations, 2 calls, 2 actions | `DialogIsAboutItsFinding` |
| `page` | 3 kinds of pages, 2 rows, 2 organizations, 3 children, 3 calls, 3 clicks | `SavesReachTheirRow` |

Two requests suffice in the register because a hazard there is one request between
a check and the write of another; three calls in a row move a row, use it and
remove what it referred to. A scan of a commit with one manifest too many, and of
one with one dependency too many, both of which end with a report, is what a cap can
be asked; a dependency that is in both manifests tells whether duplicates are removed
before or after the cut.

What the runs of kind violation show:

* `DuplicateRace`: `create` looks for an action and inserts in two statements
  (`RA` 126-182) and no constraint backs it.
* `VerifiedCreate`: `create` takes `verificationStatus` from the body (`RA` 166).
* `UnavailableModel`: the handler of model failures in the NVIDIA service names
  `httpx.HTTPError` (`ai-service/app/main.py` 47), but the module is not imported,
  so the client gets 500 instead of 503. The backend falls back to the rules either
  way, which `Services` shows.
* `DepartmentDrift`: if a user is edited before the list of departments has
  arrived, the effect of `Users.tsx` 138 clears the department and then selects
  the first one of the organization; Save moves the user.

Known and without a run of their own, all of them behaviours of the models:

* an update that verifies and one that reopens both pass, since `update` decides
  from the row it read first (`RA` 233), and the finding is resolved for an action
  in progress (`Gate` shows what holds instead: `FreshUpdateKeepsGate`);
* action and finding are written without a transaction (`RA` 287), so a failing
  second write leaves the finding behind; two overlapping updates can write them in
  opposite orders;
* an action that is created completed and verified, or in progress, leaves its
  finding as it is, for good if it is never updated; an edit of the finding to `OPEN`
  leaves it open behind a verified action until that is updated again;
* `refresh` reads and revokes in two statements (`AU` 268-278), so one token can
  get two successors and the session forks; `Sessions` shows what is left of
  logout then: it ends a session that was never forked;
* after an administrator has changed the address of a user, that user logs in without
  ever having proved the new mailbox, and the link that was sent to the old one
  verifies the user;
* two registrations that overlap both succeed; a link used twice at once takes
  effect twice; two overlapping finding updates may both alert; a body with
  `completedAt` alone gives a pending action a completion time;
* a refused renewal in one tab clears a pair another tab has just stored; a
  renewal in flight during a logout signs the browser in again;
* a page that is closed or reloaded while its renewal is in flight (`api.ts` 31) leaves
  the spent pair in localStorage; the next call that fails is refused its renewal
  and the user has to sign in again (`abandoned` marks exactly these states in
  `StoredPairIsGood`, which a run without that disjunct violates);
* overlapping creations give two devices of an organization one host name, or two
  departments one name: only software has a constraint in the schema;
* a user or device that moves while something is checked against it leaves
  references across organizations; software stays behind when its device moves;
* a message about an action that was created, or exists, is shown in the dialog of
  whichever finding is open then.

### Fairness

`SerialLedger` assumes weak fairness of `ContinueStep` for each request: Node
resumes a handler when its call settles, and nobody abandons a request. Nothing
is assumed of clients. `ApiClient` assumes that each call and each renewal is
answered or fails (the network stack ends a request one way or the other).
`Services` assumes weak fairness of one action, `SomeCallGoesOn`: some request
for a recommendation, some scan or some audited call goes on. Calls to providers
and to repositories have timeouts (90 s and 20 s), Node resumes a handler when
its call settles, and a record is written or fails. That *some* call goes on is
weaker than what the modules state (each does); since a behaviour makes a
bounded number of calls it is enough. All other properties are safety and need
none.

## 4. Theorems

All are proved for every value of the constants and without fairness. What is
assumed of the constants are the named `ASSUME`s of the modules, and TLC evaluates
them in the runs: `None` is not an id nor a row; bodies are in their types; sets of
requests that are counted (`AccountRequests`) and rows of a panel are finite; the
tables of `Inventory` fit together at the start (`SeedAssumption`: references are
stored rows of one organization, nothing occurs twice); a panel of the dashboard
shows counts that its table has, and the deadlines together with the two
unfinished states; commits of a repository list paths and hold texts, the limits
of a scan are positive, and a dependency is its ecosystem, name and version
(`ScanAssumption`). A few theorems have a hypothesis on constants: `Serial` says that
there is one remediation request, and `~DbFaults` that no call fails; they are those
of the run `SerialLedger`, and nothing is assumed of the bodies. Two theorems narrow the steps of the specification to those
with a condition (`WrittenAsRead`, `EditsWait`), to show that it is what the code lacks.

### Findings, actions, evidence (`RemediationActions_proofs`)

* `TypeCorrect`, `TenantSafety`, `RequestsSafety`, `ScopeSafety`. The invariant
  `IInv` is the types, the foreign keys, the agreement of organizations and
  `RequestsKnowRows`: what a request remembers of a row's organization stays true
  while the row exists. The last part is what makes the others inductive, since an
  insert uses the remembered values; it rests on `RowsEvolve`, which says that no
  step changes the organization of a row or revives it.
* `AssigneeSafety`, `Tenancy`: a request past the check of its assignee remembers
  one of the right organization, or one who has moved since (`AssigneeInv`).
  `Tenancy` puts it together with the theorems above into the `TenantInvariant` of
  the run.
* `RemediationAdvances`: a request has three statements at most after its read, none
  but its own move it, and a status that an update leaves owing to the finding stays
  owed until it is written, its row is gone or the statement fails. It is the safety
  half of `ProgressReachesFinding` (see "Progress" below).
* `GateKept`: an update whose row is still the one it read never leaves the row
  verified and not completed, with any overlap.
* `GateUnderOverlap`: with any overlap and failing calls, `VerifiedOnlyWhenCompleted`
  holds if creations pass the gate themselves (`CreatesPassGate`) and no update is
  written over a row that has changed since it was read (`WrittenAsRead`, which a
  condition in the update statement would ensure). The code does neither; the first
  is what `VerifiedCreate` shows, and without the second two overlapping updates, each
  acceptable on the row it has read, may leave a row verified and not completed. The
  theorem says that nothing else can break the gate.
* `FindingScope`, `DeletionIsFinal`, `AlertsOnPublication`: the action properties of
  `FindingRequests`, from an invariant (`FindingsInv`) that says what a finding
  request knows of its row and that only live findings are public.
* `SerialUniqueness`, `EarnedResolution`, `LedgerSafety` (for `Serial`). The
  invariant `SerialInv` adds to `IInv` that a request about to insert has no action
  for its finding (`UniqueInv`), that a request about to update or to write the
  finding remembers the action as it is (`LedgerRequests`). `LedgerSafety` also
  assumes that no database call fails: a write of the finding that fails leaves it
  behind its action. Its invariant (`Follows`) says of every action that was updated
  what `SynchronizedAtRest` says, with the write that is still to come counted as
  made; an update is the only step by which the states of an action come to count
  (`ValidatedByUpdate`) and by which a status comes to be owed (`OwedByUpdate`), and
  any other change of the status that is seen is by hand (`StatusKept`).
* `Refinement`: for `Serial` requests, whatever their bodies, `RemediationActions`
  implements `AtomicRemediation`. There a new plan may have any states, since `create`
  does not check them; only progress of a plan passes the gate and moves the finding. `PlanRule` and `SeenRule` say what the mapping
  shows, `StepSeen` which of six changes of one finding each step makes, and
  `MappedStep` which abstract action that is. It does not need calls that succeed: a
  write of the finding that fails takes back the status that was announced, which
  the ledger sees as an edit of the finding.

### Accounts and sessions (`Sessions_proofs`)

* `AccountTypes`, `Verification`, `RegistrationLock`, `Replacement`. The invariant
  `AccountInv` says which link every verified user has used and that a redemption
  knows user and kind of its link; links never change their user or kind
  (`LinksGrow`), and the address of a user that was never edited is the one each of
  the user's links was sent to (`MailSound`).
* `LinkBound`: the links of a user and a kind are no more than requests can overlap.
  The invariant gives every live link a request that issued it (`IssuedApart`, an
  owner function that exists in every state); a request about to commit has seen
  all older links of its own.
* `SessionTypes`, `Rotation`, `SessionOwners`, `ClosedForGood`,
  `NoTokensWhenShutOut`, `LogoutCloses`. `Inv` adds that a request which is about to
  insert a successor holds a revoked token of the same user; `TokensGrow` says that
  revocation and expiry are final. For `LogoutCloses` the tokens of a session that
  was never forked form a chain that ends in the one usable token; that a chain ends
  needs `FinitelyIssued`.

### Browser client (`ApiClient_proofs`)

* `ClientTypes`, `StoredPair`, `SharedRenewal`. `Inv` says that a renewal under way
  is the one its tab waits for unless its page is gone, that nobody else holds the
  pair granted to it, that if a tab has spent the stored pair, an answer with a newer
  one is on its way to that tab, and that what a closed page has left behind carries
  a stored pair only if that pair is known to be abandoned (`OrphansSound`).
* `RepeatedOnce`: no call has ever carried the token of a pair that is still on its
  way to a tab (`HeadersSound`), so the repetition carries another token.
* `WaitersServed`: a call that waits, waits for a renewal of its own tab that is under
  way, so nobody waits for an answer that has been given already: whatever ends a
  renewal, a page that is left included, takes its calls along. `ClientAdvances`: a
  call is sent, waits and is sent again at most, and a renewal that loses its page
  has less before it than one that is heard.

### Register (`Inventory_proofs`)

* `InventoryTypes`, `AssetsTogether`. `AssetInv` adds to the types what a request in
  flight remembers (`Remembers`): the row it is about is still there, the copy of a
  software row still has its organization and device, and the device that a creation
  of software has looked up is in the same organization or has moved. It rests on
  `RowsStay`: organizations, users, devices and software are never deleted, and
  software never changes its device. That flag and status agree is a lemma about the
  two functions (`DerivedAgree`).
* `ScopedLists`, `Once`. `RegisterInv` says that users and devices are where their
  references are, up to moves (`UserPlaced`, `DevicePlaced`), and what a request has
  looked up and may still rely on (`Looked`): an organization is there; a department
  is in it or was removed, and then its id never comes back (`gone`) and the database
  refuses the write; an assignee is in the organization or has moved.
* `SufficientChecks`, `ScopedWrites`: for requests that wait for each other. Then all
  checks that a request has passed still hold when it writes (`OneAtATime`, `Vetted`),
  since nobody else has written.

### The other services

* `AiTypes`, `HonestRecommendations` (`Services_proofs`). `AskSound` says, of
  a request alone, which provider each stage stands for, that a second question
  follows a 502 only, and what an answer may be. No more than three sources are taken
  because the newest ones can be counted (`NewestAreFew`), and none is left out for an
  older one: of those left out, one with the fewest newer ones has only retrieved ones
  above it, hence three (`LeftOutOnlyByNewer`). That they are verified, of the
  organization and about the same vulnerability or software is `Citable`.
* `ScanTypes`, `ScansReport` (`Services_proofs`). `ScanInv` says that a scan knows
  its repository from heads of its own time (`ReadOfHeads`), that it has read all its
  manifests when it goes on (`AllRead`), and that a finished report is `Report(scan)`.
  What a report holds follows from lemmas about the lists: the first and the last
  entry of a kind exist because a list is finite (`FirstExists`, `LastExists`), what
  is left after removing duplicates (`Deduplicated`), cutting off
  (`LeadingEntries`), parsing one manifest (`ParsedList`) and joining several
  (`CollectedList`). Nothing is proved by induction over lists: a list is the set of
  its entries, and all these operators are stated by quantifiers over it.
* `DashboardTypes`, `NumbersAgree` (`Dashboard_proofs`). A count that is still to come
  is taken to be what it would be now (`Reach`). Then a statement that is executed
  changes nothing, and a write moves one row: at most one part gains it and at most
  one loses it, and the total moves with them unless it is counted already
  (`WriteKeepsParts`). At the start all counts are of one moment, and there the parts
  are disjoint sets of rows (`PartsOfNow`, `UrgentOfNow`).
* `AuditTypes`, `AccessCurrent` (`AuditTrail_proofs`): the three parts of
  `AccessIsCurrent`. The invariant says that what a login or renewal has read, and the
  token signed for it later, was read no later than the last moment the user had the
  role, and that this moment only grows (`HeldGrows`); that the menu fits the rules is a lemma about the decorators
  (`MenuIsUsable`).
* `DialogTypes`, `DialogKeepsToItsFinding` (`Pages_proofs`). `DialogInv` says that one
  recommendation at most is being generated, for the finding the page remembers, and
  that a dialog which is open meanwhile is about that finding.
* `PageTypes`, `SavesReachTheirRows` (`Pages_proofs`). `PageInv` says that the form
  keeps the row it was opened for, that a save carries the row its values come from,
  and that a dependent selection is one of the children in the list, or none if there
  is none; the effect finds the first one (`FirstOwn`), whatever the order of the
  lists.

* `WaitingEditsKeepTheirChild` (`Pages_proofs`) isolates the cause of the violation
  that the run `DepartmentDrift` shows. If rows are at home at the start
  (`TablesFit`) and no user is edited before the departments have arrived
  (`EditsWait`), then `UntouchedEditKeepsChild` holds, with any order of everything
  else; of the other two pages nothing is asked. `KeptInv` says that an untouched form
  has the child it was loaded with, which is one of its parent's, so that the effect
  leaves it alone.

### Progress

Liveness is not proved, but what it needs of the steps is. A measure is bounded,
every step of a request lowers it, and no other step moves the request at all. What
is left to TLC is that a step is always possible and, under the fairness of section
3, taken.

* `RemediationAdvances` (statements of a request), `ClientAdvances` (stages of calls
  and renewals);
* `RecommendationsAdvance` (ten steps at most, the second question included),
  `ScansAdvanceAlways` (four steps more than manifests may be read, whatever is pushed
  meanwhile; a finished scan stays as it is);
* `ChangesAdvance` (`AuditTrail_proofs`): a committed change is owed to the trail until
  it is recorded or its insert fails, and nothing else ends it. `ChangesInv` and the
  lemma `ChangesAreWatched` exclude that a change is committed which the interceptor
  does not watch.

What the proofs found in the model: `DeadlinesAmongUnfinished` first allowed one row
for every write. That is not enough, since a row that was counted as overdue may get
another deadline and another state before the other three counts reach it, and then
it is counted twice on one side and not at all on the other. The bounds of the run
hid it (it takes two deadlines and both unfinished states); the property now allows
two, and the run has a panel where the case occurs.

Only model-checked: liveness under fairness (`ProgressReachesFinding`,
`EveryCallSettles` of the client, `EverythingEnds`), which is out of the reach of
TLAPS, and `ServicesTypeOK`, which does no more than put the type theorems of the
seven parts of `MCServices` side by side. Every other property of a passing run is
stated by a theorem. The four violations are what TLC found.

## 5. What is left

Not modelled, and why:

* the NVD lookup: a stateless mapping of an external answer;
* the recipients, texts and retries of mails: no state of the system depends on
  them;
* the seed script, exports, filters and rendering;
* the forms of the pages of findings, remediation, software updates,
  organizations and departments. They are of the kind of `RecordPage` without
  dependent selections, or with several. Known of them and without a property: the
  answer of the NVD lookup fills whichever form is open when it arrives; on the
  page of software updates a list that arrives late fills in the installed version
  again; on the page of devices "Not assigned" never takes an assignment back,
  since the field is then left out of the body.

Worth doing next: a fair version of the refinement, which asks the abstract ledger
for progress too; the recipients of alerts, once a property about them is stated.
