------------------------------ MODULE Sessions ------------------------------
(***************************************************************************)
(* Sessions: login, refresh and logout (auth.service.ts) on top of the     *)
(* accounts.  A session is a chain of refresh tokens: login inserts the    *)
(* first, refresh revokes one and inserts its successor, logout revokes    *)
(* the one it is given.  The table does not record the chain; the columns  *)
(* session (the first token) and parent belong to the model only.          *)
(***************************************************************************)
EXTENDS Accounts

CONSTANTS
  TokenIds,        \* primary keys of RefreshToken; an id stands for its secret
  SessionRequests  \* logins and refreshes that may be in flight together

ASSUME SessionAssumption == None \notin TokenIds

VARIABLES
  tokens,  \* the RefreshToken table
  sreq     \* local state of each login or refresh

sessionVars == <<tokens, sreq>>
vars == <<users, links, creq, tokens, sreq>>

TokenRow == [issued : BOOLEAN, user : UserIds \cup {None},
             session : TokenIds \cup {None}, parent : TokenIds \cup {None},
             revoked : BOOLEAN, expired : BOOLEAN]
NoToken == [issued |-> FALSE, user |-> None, session |-> None, parent |-> None,
            revoked |-> FALSE, expired |-> FALSE]
NewToken(u, session, parent) ==
  [issued |-> TRUE, user |-> u, session |-> session, parent |-> parent,
   revoked |-> FALSE, expired |-> FALSE]

\* token is the one that a refresh was given.
SessionRequest == [at : {"idle", "open", "rotate", "reissue"},
                   user : UserIds \cup {None}, token : TokenIds \cup {None}]
IdleSession == [at |-> "idle", user |-> None, token |-> None]

SessionTypeOK ==
  /\ tokens \in [TokenIds -> TokenRow]
  /\ sreq \in [SessionRequests -> SessionRequest]
TypeOK == AccountTypeOK /\ SessionTypeOK

Init ==
  /\ AccountInit
  /\ tokens = [t \in TokenIds |-> NoToken]
  /\ sreq = [r \in SessionRequests |-> IdleSession]

-----------------------------------------------------------------------------

GoSession(r, state) == sreq' = [sreq EXCEPT ![r] = state]
FinishSession(r) == GoSession(r, IdleSession)
AccountsUnchanged == UNCHANGED <<users, links, creq>>

Usable(t) == tokens[t].issued /\ ~tokens[t].revoked /\ ~tokens[t].expired
Admissible(u) == Active(u) /\ users[u].verified

Revoked(row) == [issued |-> row.issued, user |-> row.user,
                 session |-> row.session, parent |-> row.parent,
                 revoked |-> TRUE, expired |-> row.expired]

\* Mutant: login does not ask for a verified email.
BeginLogin_Unverified(r, u, p) ==
  /\ sreq[r].at = "idle"
  /\ Active(u) /\ users[u].password = p
  /\ GoSession(r, [at |-> "open", user |-> u, token |-> None])
  /\ UNCHANGED tokens /\ AccountsUnchanged

\* login: one read of the user, on which everything is decided.
BeginLogin(r, u, p) ==
  /\ sreq[r].at = "idle"
  /\ Admissible(u) /\ users[u].password = p
  /\ GoSession(r, [at |-> "open", user |-> u, token |-> None])
  /\ UNCHANGED tokens /\ AccountsUnchanged

\* createRefreshToken of login.
OpenSession(r, t) ==
  /\ sreq[r].at = "open"
  /\ ~tokens[t].issued
  /\ tokens' = [tokens EXCEPT ![t] = NewToken(sreq[r].user, t, None)]
  /\ FinishSession(r)
  /\ AccountsUnchanged

\* Mutants: refresh forgets that tokens are revoked, or that users are
\* deactivated.
BeginRefresh_AnyToken(r, t) ==
  /\ sreq[r].at = "idle"
  /\ tokens[t].issued /\ ~tokens[t].expired /\ Admissible(tokens[t].user)
  /\ GoSession(r, [at |-> "rotate", user |-> tokens[t].user, token |-> t])
  /\ UNCHANGED tokens /\ AccountsUnchanged
BeginRefresh_AnyUser(r, t) ==
  /\ sreq[r].at = "idle"
  /\ Usable(t)
  /\ GoSession(r, [at |-> "rotate", user |-> tokens[t].user, token |-> t])
  /\ UNCHANGED tokens /\ AccountsUnchanged

\* refresh, first statement: the token and its user.
BeginRefresh(r, t) ==
  /\ sreq[r].at = "idle"
  /\ Usable(t) /\ Admissible(tokens[t].user)
  /\ GoSession(r, [at |-> "rotate", user |-> tokens[t].user, token |-> t])
  /\ UNCHANGED tokens /\ AccountsUnchanged

\* Mutant: the used token is not revoked.
RevokeUsed_Not(r) ==
  /\ sreq[r].at = "rotate"
  /\ GoSession(r, [at |-> "reissue", user |-> sreq[r].user, token |-> sreq[r].token])
  /\ UNCHANGED tokens /\ AccountsUnchanged

\* refresh, second statement: revoke by id, whatever the token is by now.
RevokeUsed(r) ==
  /\ sreq[r].at = "rotate"
  /\ tokens' = [tokens EXCEPT ![sreq[r].token] = Revoked(@)]
  /\ GoSession(r, [at |-> "reissue", user |-> sreq[r].user, token |-> sreq[r].token])
  /\ AccountsUnchanged

\* refresh, third statement: createRefreshToken.
Reissue(r, t) ==
  LET used == sreq[r].token
  IN /\ sreq[r].at = "reissue"
     /\ ~tokens[t].issued
     /\ tokens' = [tokens EXCEPT
                     ![t] = NewToken(sreq[r].user, tokens[used].session, used)]
     /\ FinishSession(r)
     /\ AccountsUnchanged

\* logout: one updateMany of the token if it is not revoked.
Logout(t) ==
  /\ tokens[t].issued /\ ~tokens[t].revoked
  /\ tokens' = [tokens EXCEPT ![t] = Revoked(@)]
  /\ UNCHANGED sreq /\ AccountsUnchanged

\* The pending database call rejects; the token may be revoked by then.
FailSession(r) ==
  /\ Faults
  /\ sreq[r].at # "idle"
  /\ FinishSession(r)
  /\ UNCHANGED tokens /\ AccountsUnchanged

\* Seven days.
ExpireToken(t) ==
  /\ tokens[t].issued /\ ~tokens[t].expired
  /\ tokens' = [tokens EXCEPT ![t] =
                  [issued |-> @.issued, user |-> @.user, session |-> @.session,
                   parent |-> @.parent, revoked |-> @.revoked, expired |-> TRUE]]
  /\ UNCHANGED sreq /\ AccountsUnchanged

SessionStep ==
  \/ \E r \in SessionRequests, u \in UserIds, p \in Passwords : BeginLogin(r, u, p)
  \/ \E r \in SessionRequests, t \in TokenIds :
        BeginRefresh(r, t) \/ OpenSession(r, t) \/ Reissue(r, t)
  \/ \E r \in SessionRequests : RevokeUsed(r) \/ FailSession(r)
  \/ \E t \in TokenIds : Logout(t) \/ ExpireToken(t)

Next ==
  \/ SessionStep
  \/ AccountStep /\ UNCHANGED sessionVars

Spec == Init /\ [][Next]_vars

-----------------------------------------------------------------------------
(* Properties *)

Chain(s) == {t \in TokenIds : tokens[t].issued /\ tokens[t].session = s}
RefreshingOn(s) == {r \in SessionRequests :
                      sreq[r].at \in {"rotate", "reissue"} /\ sreq[r].token \in Chain(s)}

\* The session was opened, none of its tokens is usable and none is being
\* exchanged.
Closed(s) == /\ Chain(s) # {} /\ RefreshingOn(s) = {}
             /\ \A t \in Chain(s) : ~Usable(t)

\* A closed session never comes back to life, whatever requests with its old
\* tokens arrive: logout, rotation and expiry are final.
ClosedSessionsStayClosed == [][\A s \in TokenIds : Closed(s) => Closed(s)']_vars

\* A token has a successor only if it was itself revoked, and stays revoked:
\* at no moment are a token and its replacement both good.
RotatedTokensAreSpent ==
  \A t \in TokenIds : tokens[t].parent # None =>
    /\ tokens[t].parent \in TokenIds
    /\ tokens[tokens[t].parent].revoked
    /\ tokens[tokens[t].parent].session = tokens[t].session
    /\ tokens[tokens[t].parent].user = tokens[t].user

\* Every session belongs to a user who has used a verification link of their own,
\* and unless an administrator has changed the address, one that was sent to the
\* address they have: the login gate, the refresh gate and the redemption of links
\* together.  After a change the mailbox may never have been proved, for the change
\* keeps emailVerifiedAt and an older link still verifies.
SessionsNeedVerifiedUser ==
  \A t \in TokenIds : tokens[t].issued =>
    LET u == tokens[t].user
    IN /\ u \in UserIds
       /\ users[u].verified
       /\ \E l \in LinkIds :
            /\ links[l].kind = "verify" /\ links[l].used /\ links[l].user = u
            /\ users[u].edited \/ links[l].mail = users[u].mail

\* The user is deactivated and no request that read the user before is under way.
ShutOut(u) ==
  /\ users[u].exists /\ users[u].status = "INACTIVE"
  /\ \A r \in SessionRequests : sreq[r].user # u

\* While a user is shut out nothing issues a token for that user, although the
\* tokens themselves are not revoked.
ShutOutUsersGetNoTokens ==
  [][\A u \in UserIds : ShutOut(u) =>
       /\ {t \in TokenIds : tokens'[t].user = u} = {t \in TokenIds : tokens[t].user = u}
       /\ users'[u].status = "INACTIVE" => ShutOut(u)'
    ]_vars

\* Nobody used a token of the session twice.
Unforked(s) ==
  \A t, w \in Chain(s) : tokens[t].parent = tokens[w].parent => t = w

\* A logout ends its session for good, if the session was never forked by two
\* overlapping refreshes and is not being refreshed at that moment.
LogoutClosesQuietSession ==
  [][\A t \in TokenIds :
       LET s == tokens[t].session
       IN Usable(t) /\ tokens'[t].revoked /\ sreq' = sreq
            /\ Unforked(s) /\ RefreshingOn(s) = {} => Closed(s)'
    ]_vars
=============================================================================
