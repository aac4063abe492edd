------------------------------ MODULE ApiClient ------------------------------
(***************************************************************************)
(* The browser side of a session (frontend/src/api/api.ts, the logout of   *)
(* MainLayout.tsx and the login of Login.tsx): the tabs of one browser     *)
(* share the access and refresh token in localStorage, and each tab        *)
(* renews them when a call is answered with 401.                           *)
(*                                                                         *)
(* A pair is an access token with the refresh token issued together with   *)
(* it.  What runs between two awaits of a tab, the microtasks of an        *)
(* answer included, is one step; writes of the two keys of localStorage    *)
(* belong to one step.                                                     *)
(***************************************************************************)
EXTENDS Naturals, FiniteSets

CONSTANTS
  Tabs,
  CallTabs,    \* bound: per call, the tabs that make it
  SignOuts,    \* bound: the tabs and pairs with which the user signs out
  ClosedTabs,  \* bound: the tabs that the user closes or reloads
  Calls,     \* calls of the pages that may be under way together
  LoginPairs,    \* identities of the pairs that logins issue
  RenewalPairs,  \* and of those that renewals issue
  Renewals,  \* identities of posts to /auth/refresh that may overlap
  None

Pairs == LoginPairs \cup RenewalPairs

ASSUME ClientAssumption ==
  /\ SignOuts \subseteq Tabs \X Pairs /\ ClosedTabs \subseteq Tabs
  /\ CallTabs \in [Calls -> SUBSET Tabs]
  /\ None \notin Tabs /\ None \notin Pairs /\ None \notin Renewals

VARIABLES
  store,      \* the pair in localStorage
  pairs,      \* what the server knows of each pair
  calls,      \* the calls of the pages
  refreshRequest,  \* per tab: the renewal that its calls wait for
  renewals,   \* the posts to /auth/refresh
  logouts,    \* per tab: the logout under way
  abandoned   \* of the model only: a renewal or a logout carried the stored pair
              \* when its page was closed or reloaded

vars == <<store, pairs, calls, refreshRequest, renewals, logouts, abandoned>>

\* access: the access token is accepted; refresh: state of the refresh token;
\* by: the tab whose page has spent the refresh token by a renewal.
PairRow == [issued : BOOLEAN, access : BOOLEAN,
            refresh : {"good", "revoked", "expired"}, by : Tabs \cup {None}]
NoPair == [issued |-> FALSE, access |-> FALSE, refresh |-> "revoked", by |-> None]
\* Mutant: a refresh token starts in a state that is no state of a token.
NewPair_Active == [issued |-> TRUE, access |-> TRUE, refresh |-> "active", by |-> None]
NewPair == [issued |-> TRUE, access |-> TRUE, refresh |-> "good", by |-> None]

\* header: the pair of the Authorization header; on: the renewal it waits for.
CallState == [at : {"idle", "sent", "waiting"}, tab : Tabs \cup {None},
              header : Pairs \cup {None}, retried : BOOLEAN,
              on : Renewals \cup {None}]
IdleCall == [at |-> "idle", tab |-> None, header |-> None, retried |-> FALSE,
             on |-> None]
Sent(t, g, retried) == [at |-> "sent", tab |-> t, header |-> g,
                        retried |-> retried, on |-> None]

\* pair: the one to renew; new: the one the server has issued for it; tab is None
\* when the page that posted it is gone, so that nobody hears the answer.
RenewalState == [at : {"idle", "posted", "checked", "granted", "refused"},
                 tab : Tabs \cup {None}, pair : Pairs \cup {None},
                 new : Pairs \cup {None}]
Renewal(at, t, g, new) == [at |-> at, tab |-> t, pair |-> g, new |-> new]
IdleRenewal == Renewal("idle", None, None, None)

\* left: the page is gone before the answer.
LogoutState == [at : {"idle", "posted", "answered", "left"}, pair : Pairs \cup {None}]
IdleLogout == [at |-> "idle", pair |-> None]

TypeOK ==
  /\ store \in Pairs \cup {None}
  /\ pairs \in [Pairs -> PairRow]
  /\ calls \in [Calls -> CallState]
  /\ refreshRequest \in [Tabs -> Renewals \cup {None}]
  /\ renewals \in [Renewals -> RenewalState]
  /\ logouts \in [Tabs -> LogoutState]
  /\ abandoned \in BOOLEAN

Init ==
  /\ store = None
  /\ pairs = [g \in Pairs |-> NoPair]
  /\ calls = [c \in Calls |-> IdleCall]
  /\ refreshRequest = [t \in Tabs |-> None]
  /\ renewals = [n \in Renewals |-> IdleRenewal]
  /\ logouts = [t \in Tabs |-> IdleLogout]
  /\ abandoned = FALSE

Good(g) == pairs[g].refresh = "good"
\* Identities mean nothing: an issue takes any pair that was not issued yet, a
\* post any renewal that is not under way.
Fresh(g, ids) == g = CHOOSE h \in ids : ~pairs[h].issued
Free(n) == n = CHOOSE m \in Renewals : renewals[m].at = "idle"
Waiting(c, n) == calls[c].at = "waiting" /\ calls[c].on = n
Revoke(g, t) ==
  pairs' = [pairs EXCEPT ![g] = [issued |-> TRUE, access |-> @.access,
                                 refresh |-> "revoked", by |-> t]]

-----------------------------------------------------------------------------
(* Pages *)

\* Login.tsx: a granted login is stored.
Login(g) ==
  /\ ~pairs[g].issued /\ Fresh(g, LoginPairs)
  /\ pairs' = [pairs EXCEPT ![g] = NewPair]
  /\ store' = g /\ abandoned' = FALSE
  /\ UNCHANGED <<calls, refreshRequest, renewals, logouts>>

\* The request interceptor puts the stored access token in the header.
Call(c, t) ==
  /\ calls[c].at = "idle" /\ t \in CallTabs[c]
  /\ calls' = [calls EXCEPT ![c] = Sent(t, store, FALSE)]
  /\ UNCHANGED <<store, pairs, refreshRequest, renewals, logouts, abandoned>>

\* An answer other than 401, or none.
Answer(c) ==
  /\ calls[c].at = "sent"
  /\ calls' = [calls EXCEPT ![c] = IdleCall]
  /\ UNCHANGED <<store, pairs, refreshRequest, renewals, logouts, abandoned>>

\* handleLogout: with a stored refresh token it posts first.
BeginLogout(t) ==
  /\ <<t, store>> \in SignOuts /\ logouts[t].at = "idle" /\ store # None
  /\ logouts' = [logouts EXCEPT ![t] = [at |-> "posted", pair |-> store]]
  /\ UNCHANGED <<store, pairs, calls, refreshRequest, renewals, abandoned>>

\* handleLogout, when the post is answered or has failed.
EndLogout(t) ==
  /\ logouts[t].at \in {"posted", "answered"}
  /\ store' = None
  /\ abandoned' = FALSE
  /\ logouts' = [logouts EXCEPT ![t] = IdleLogout]
  /\ UNCHANGED <<pairs, calls, refreshRequest, renewals>>

-----------------------------------------------------------------------------
(* The response interceptor *)

Accepted(g) == g # None /\ pairs[g].access
Refused(c) == calls[c].at = "sent" /\ ~Accepted(calls[c].header)

\* 401 for a call that is not to be repeated.
GiveUp(c) ==
  /\ Refused(c)
  /\ calls[c].retried \/ store = None
  /\ calls' = [calls EXCEPT ![c] = IdleCall]
  /\ UNCHANGED <<store, pairs, refreshRequest, renewals, logouts, abandoned>>

Wait(c, n) ==
  calls' = [calls EXCEPT ![c] = [at |-> "waiting", tab |-> calls[c].tab,
                                 header |-> calls[c].header, retried |-> TRUE,
                                 on |-> n]]

\* 401: join the renewal of the tab.
JoinRenewal(c) ==
  LET n == refreshRequest[calls[c].tab]
  IN /\ Refused(c) /\ ~calls[c].retried /\ store # None
     /\ n # None
     /\ Wait(c, n)
     /\ UNCHANGED <<store, pairs, refreshRequest, renewals, logouts, abandoned>>

PostRenewal(c, n) ==
  LET t == calls[c].tab
  IN /\ Refused(c) /\ ~calls[c].retried /\ store # None
     /\ renewals[n].at = "idle" /\ Free(n)
     /\ renewals' = [renewals EXCEPT ![n] = Renewal("posted", t, store, None)]
     /\ refreshRequest' = [refreshRequest EXCEPT ![t] = n]
     /\ Wait(c, n)
     /\ UNCHANGED <<store, pairs, logouts, abandoned>>

\* Mutant: a call does not look for a renewal that is under way.
StartRenewal_Always(c, n) == PostRenewal(c, n)

\* 401: start one.
StartRenewal(c, n) == PostRenewal(c, n) /\ refreshRequest[calls[c].tab] = None

\* Mutants: the calls are repeated before the new pair is stored, so that the
\* request interceptor puts the old one in their headers; only one call is
\* woken.
Resent_BeforeStoring(c, n) == Sent(calls[c].tab, store, TRUE)
Resent(c, n) == Sent(calls[c].tab, renewals[n].new, TRUE)
Settled_First(n) ==
  [c \in Calls |-> IF Waiting(c, n) /\ c = CHOOSE d \in Calls : Waiting(d, n)
                   THEN Resent(c, n) ELSE calls[c]]

\* The renewal was granted: store the pair, forget the renewal, repeat the calls.
Settled(n) ==
  [c \in Calls |-> IF Waiting(c, n) THEN Resent(c, n) ELSE calls[c]]
SettleGranted(n) ==
  /\ renewals[n].at = "granted"
  /\ store' = renewals[n].new /\ abandoned' = FALSE
  /\ refreshRequest' = [refreshRequest EXCEPT ![renewals[n].tab] = None]
  /\ calls' = Settled(n)
  /\ renewals' = [renewals EXCEPT ![n] = IdleRenewal]
  /\ UNCHANGED <<pairs, logouts>>

\* The end of a page ends its calls; what a later page in the tab renews is not
\* renewed by this one.
LeavePage(t) ==
  /\ calls' = [c \in Calls |-> IF calls[c].tab = t THEN IdleCall ELSE calls[c]]
  /\ refreshRequest' = [refreshRequest EXCEPT ![t] = None]
  /\ pairs' = [g \in Pairs |->
                [issued |-> pairs[g].issued, access |-> pairs[g].access,
                 refresh |-> pairs[g].refresh,
                 by |-> IF pairs[g].by = t THEN None ELSE pairs[g].by]]
RenewalsOf(t) == {m \in Renewals : renewals[m].tab = t}

\* Mutant: a renewal that fails leaves the pair in localStorage.
SettleFailed_KeepsPair(n) ==
  LET t == renewals[n].tab
  IN /\ t # None
     /\ LeavePage(t)
     /\ renewals' = [m \in Renewals |->
                       IF m \in RenewalsOf(t) THEN IdleRenewal ELSE renewals[m]]
     /\ logouts' = [logouts EXCEPT ![t] = IdleLogout]
     /\ UNCHANGED <<store, abandoned>>

\* The renewal was refused or its answer is lost: clear localStorage and load the
\* start page, which ends whatever else the tab was doing.
SettleFailed(n) ==
  LET t == renewals[n].tab
  IN /\ t # None
     /\ store' = None /\ abandoned' = FALSE
     /\ LeavePage(t)
     /\ renewals' = [m \in Renewals |->
                       IF m \in RenewalsOf(t) THEN IdleRenewal ELSE renewals[m]]
     /\ logouts' = [logouts EXCEPT ![t] = IdleLogout]

\* What a page has posted may reach the server when the page is gone.
Orphan(q) == IF q.at \in {"posted", "checked"} THEN Renewal(q.at, None, q.pair, None)
             ELSE IdleRenewal
Unheard(q) == IF q.at \in {"posted", "left"} THEN [at |-> "left", pair |-> q.pair]
              ELSE IdleLogout
Carries(t, g) == \/ \E m \in RenewalsOf(t) : renewals[m].pair = g
                 \/ logouts[t].at # "idle" /\ logouts[t].pair = g

\* The user closes or reloads the page: localStorage stays, and so does a pair that
\* the page was renewing, although its successor is never stored.
CloseTab(t) ==
  /\ t \in ClosedTabs
  /\ LeavePage(t)
  /\ renewals' = [m \in Renewals |->
                    IF m \in RenewalsOf(t) THEN Orphan(renewals[m]) ELSE renewals[m]]
  /\ logouts' = [logouts EXCEPT ![t] = Unheard(@)]
  /\ abandoned' = (abandoned \/ (store # None /\ Carries(t, store)))
  /\ UNCHANGED store

-----------------------------------------------------------------------------
(* The server: refresh and logout of auth.service.ts, and the clock *)

\* The answer, if anybody still waits for it.
Replied(at, q, new) ==
  IF q.tab = None THEN IdleRenewal ELSE Renewal(at, q.tab, q.pair, new)

\* refresh: the read and the check.
CheckRenewal(n) ==
  LET q == renewals[n]
  IN /\ q.at = "posted"
     /\ renewals' = [renewals EXCEPT ![n] =
          IF Good(q.pair) THEN Renewal("checked", q.tab, q.pair, None)
          ELSE Replied("refused", q, None)]
     /\ UNCHANGED <<store, pairs, calls, refreshRequest, logouts, abandoned>>

\* refresh: the revocation and the insert, which does not matter when nobody waits
\* for the new pair.
GrantRenewal(n, g) ==
  LET q == renewals[n]
  IN /\ q.at = "checked" /\ ~pairs[g].issued /\ Fresh(g, RenewalPairs)
     /\ pairs' = [h \in Pairs |->
          IF h = q.pair THEN [issued |-> TRUE, access |-> pairs[h].access,
                              refresh |-> "revoked", by |-> q.tab]
          ELSE IF h = g /\ q.tab # None THEN NewPair ELSE pairs[h]]
     /\ renewals' = [renewals EXCEPT ![n] = Replied("granted", q, g)]
     /\ UNCHANGED <<store, calls, refreshRequest, logouts, abandoned>>

\* A request of a page that is gone never reaches the server, or fails there.
DropRenewal(n) ==
  /\ renewals[n].at # "idle" /\ renewals[n].tab = None
  /\ renewals' = [renewals EXCEPT ![n] = IdleRenewal]
  /\ UNCHANGED <<store, pairs, calls, refreshRequest, logouts, abandoned>>
DropLogout(t) ==
  /\ logouts[t].at = "left"
  /\ logouts' = [logouts EXCEPT ![t] = IdleLogout]
  /\ UNCHANGED <<store, pairs, calls, refreshRequest, renewals, abandoned>>

ServeLogout(t) ==
  LET g == logouts[t].pair
  IN /\ logouts[t].at \in {"posted", "left"}
     /\ IF Good(g) THEN Revoke(g, None) ELSE UNCHANGED pairs
     /\ logouts' = [logouts EXCEPT ![t] = IF @.at = "posted"
                                          THEN [at |-> "answered", pair |-> g]
                                          ELSE IdleLogout]
     /\ UNCHANGED <<store, calls, refreshRequest, renewals, abandoned>>

ExpireAccess(g) ==
  /\ pairs[g].access
  /\ pairs' = [pairs EXCEPT ![g] = [issued |-> @.issued, access |-> FALSE,
                                    refresh |-> @.refresh, by |-> @.by]]
  /\ UNCHANGED <<store, calls, refreshRequest, renewals, logouts, abandoned>>

\* Seven days, against the 15 minutes of the access token.
ExpireRefresh(g) ==
  /\ Good(g) /\ ~pairs[g].access
  /\ pairs' = [pairs EXCEPT ![g] = [issued |-> @.issued, access |-> FALSE,
                                    refresh |-> "expired", by |-> @.by]]
  /\ UNCHANGED <<store, calls, refreshRequest, renewals, logouts, abandoned>>

-----------------------------------------------------------------------------

ServeCall(c) ==
  \/ Answer(c) \/ GiveUp(c) \/ JoinRenewal(c)
  \/ \E n \in Renewals : StartRenewal(c, n)
ServeRenewal(n) ==
  \/ CheckRenewal(n) \/ SettleGranted(n) \/ SettleFailed(n) \/ DropRenewal(n)
  \/ \E g \in RenewalPairs : GrantRenewal(n, g)

Next ==
  \/ \E t \in Tabs :
        \/ \E c \in Calls : Call(c, t)
        \/ BeginLogout(t) \/ ServeLogout(t) \/ EndLogout(t) \/ DropLogout(t)
        \/ CloseTab(t)
  \/ \E c \in Calls : ServeCall(c)
  \/ \E n \in Renewals : ServeRenewal(n)
  \/ \E g \in LoginPairs : Login(g)
  \/ \E g \in Pairs : ExpireAccess(g) \/ ExpireRefresh(g)

Spec == Init /\ [][Next]_vars

\* Every request ends: it is answered, or the connection fails.
Fairness == /\ \A c \in Calls : WF_vars(ServeCall(c))
            /\ \A n \in Renewals : WF_vars(ServeRenewal(n))
FairSpec == Spec /\ Fairness

-----------------------------------------------------------------------------
(* Properties *)

\* A pair in localStorage is good, or has simply expired, unless a renewal or a
\* logout that carries it is under way, or was when its page was closed or reloaded:
\* the work of the tabs never leaves a spent pair behind, only its interruption does.
StoredPairIsGood ==
  store # None =>
    \/ pairs[store].refresh # "revoked"
    \/ \E n \in Renewals : renewals[n].at # "idle" /\ renewals[n].pair = store
    \/ \E t \in Tabs : logouts[t].at # "idle" /\ logouts[t].pair = store
    \/ abandoned

\* A renewal is never refused because the same tab has already renewed the pair:
\* calls that fail together share one renewal, and calls that fail later find
\* the new pair.  (Another tab may well have renewed it, and a page that was
\* reloaded has forgotten what it renewed before.)
OwnRenewalsNeverClash ==
  \A n \in Renewals :
    renewals[n].at = "refused" => pairs[renewals[n].pair].by # renewals[n].tab

\* A call is repeated at most once, and not with the token that was refused.
RepeatedOnceWithNewToken ==
  [][\A c \in Calls :
       calls[c].at # "idle" /\ calls'[c].at = "sent" /\ calls'[c] # calls[c] =>
         /\ calls[c].at = "waiting" /\ calls'[c].retried
         /\ calls'[c].header # calls[c].header
    ]_vars

\* Every call of a page comes to an end.
EveryCallSettles == \A c \in Calls : calls[c].at # "idle" ~> calls[c].at = "idle"
=============================================================================
