--------------------------- MODULE Sessions_proofs ---------------------------
(***************************************************************************)
(* Theorems about Accounts, for any users, mails, clients and requests,    *)
(* and about Sessions, for any tokens as well.                             *)
(***************************************************************************)
EXTENDS Sessions, TLAPS, FiniteSetTheorems, FunctionTheorems

-----------------------------------------------------------------------------
(* Accounts *)

\* The inductive invariant: types, the proof behind every verified email, and
\* what a request knows of its link; the address of a user and of the user's links
\* is one until an administrator changes it.
LinkKnown(r) ==
  /\ creq[r].at \in {"register", "clear", "put", "redeem"} => creq[r].user \in UserIds
  /\ creq[r].at \in {"clear", "put", "redeem"} => Member(creq[r].user)
  /\ \A l \in creq[r].victims : links[l].life # "unborn"
  /\ creq[r].at = "redeem" =>
       /\ creq[r].link \in LinkIds
       /\ links[creq[r].link].life # "unborn"
       /\ links[creq[r].link].user = creq[r].user
       /\ links[creq[r].link].kind = creq[r].kind
  /\ creq[r].at \in {"clear", "put"} =>
       users[creq[r].user].edited \/ creq[r].mail = users[creq[r].user].mail
LinkSound(l) ==
  /\ links[l].life = "unborn" => ~links[l].used
  /\ links[l].life # "unborn" => links[l].user \in UserIds
MailSound(l) ==
  links[l].life # "unborn" =>
    users[links[l].user].edited \/ links[l].mail = users[links[l].user].mail
AccountInv ==
  /\ AccountTypeOK
  /\ VerifiedByLink
  /\ \A r \in AccountRequests : LinkKnown(r)
  /\ \A l \in LinkIds : LinkSound(l) /\ MailSound(l)
  /\ \A u \in UserIds : users[u].verified => Member(u)
  /\ \A l \in LinkIds : links[l].life # "unborn" => Member(links[l].user)

\* A step that leaves the links alone, or only creates, deletes, expires and uses
\* them: what holds of a used link goes on holding.
LinksGrow ==
  \A l \in LinkIds :
    /\ links[l].used => links'[l].used
    /\ links[l].life # "unborn" =>
         /\ links'[l].life # "unborn"
         /\ links'[l].user = links[l].user
         /\ links'[l].kind = links[l].kind
         /\ links'[l].mail = links[l].mail

LEMMA AccountInitInv == AccountInit => AccountInv
  BY AccountAssumption
  DEF AccountInit, AccountInv, AccountTypeOK, VerifiedByLink, LinkKnown, LinkSound,
      MailSound, UserRow, NoUser, UserStatuses, LinkRow, NoLink, Kinds, AccountRequest,
      IdleAccount, Account, Member

LEMMA AccountStepType ==
  ASSUME AccountTypeOK, AccountStep
  PROVE AccountTypeOK'
<1> USE AccountAssumption
    DEF AccountTypeOK, GoAccount, FinishAccount, Account, IdleAccount,
        AccountRequest, Kinds
<1>0. \A p \in Passwords \cup {None}, m \in Mails \cup {None} :
        NewUser(p, m) \in UserRow
  BY DEF UserRow, NewUser, UserStatuses
<1>1. ASSUME NEW r \in AccountRequests, NEW u \in UserIds, NEW p \in Passwords,
             NEW m \in Mails, BeginRegister(r, u, p, m) \/ CreateUser(r, u, p, m)
      PROVE AccountTypeOK'
  BY <1>0, <1>1 DEF BeginRegister, CreateUser
<1>2. ASSUME NEW r \in AccountRequests, NEW u \in UserIds,
             BeginForgotPassword(r, u) \/ BeginResendVerification(r, u)
      PROVE AccountTypeOK'
  <2>1. users[u].mail \in Mails \cup {None}
    BY DEF UserRow
  <2> QED BY <1>2, <2>1 DEF BeginForgotPassword, BeginResendVerification
<1>3. ASSUME NEW r \in AccountRequests, NEW l \in LinkIds, NEW p \in Passwords,
             BeginRedeem(r, l, p)
      PROVE AccountTypeOK'
  BY <1>3 DEF BeginRedeem, LinkRow
<1>4. ASSUME NEW r \in AccountRequests, NEW l \in LinkIds, PutLink(r, l)
      PROVE AccountTypeOK'
  BY <1>4 DEF PutLink, LinkRow, NewLink
<1>5. ASSUME NEW r \in AccountRequests, Register(r) PROVE AccountTypeOK'
  BY <1>0, <1>5 DEF Register
<1>6. ASSUME NEW r \in AccountRequests, ClearLinks(r) PROVE AccountTypeOK'
  BY <1>6 DEF ClearLinks, LinksOf
<1>7. ASSUME NEW r \in AccountRequests, Redeem(r) PROVE AccountTypeOK'
  <2>1. \A u \in UserIds : Redeemed(users[u], creq[r]) \in UserRow
    BY DEF Redeemed, UserRow
  <2>2. \A l \in LinkIds : [life |-> links[l].life, kind |-> links[l].kind,
                            user |-> links[l].user, mail |-> links[l].mail,
                            used |-> TRUE, expired |-> links[l].expired] \in LinkRow
    BY DEF LinkRow
  <2> QED BY <1>7, <2>1, <2>2 DEF Redeem
<1>8. ASSUME NEW r \in AccountRequests, FailAccount(r) PROVE AccountTypeOK'
  BY <1>8 DEF FailAccount
<1>9. ASSUME NEW l \in LinkIds, ExpireLink(l) PROVE AccountTypeOK'
  BY <1>9 DEF ExpireLink, LinkRow
<1>10. ASSUME NEW u \in UserIds, NEW status \in UserStatuses, NEW p \in Passwords,
              NEW m \in Mails, EditUser(u, status, p, m)
       PROVE AccountTypeOK'
  BY <1>10 DEF EditUser, UserRow
<1> QED
  BY <1>1, <1>2, <1>3, <1>4, <1>5, <1>6, <1>7, <1>8, <1>9, <1>10 DEF AccountStep

\* What a step does to links and to verified emails.
VerificationStep ==
  /\ LinksGrow
  /\ \A l \in LinkIds : LinkSound(l)'
  /\ \A u \in UserIds : users[u].verified => users'[u].verified
  /\ \A u \in UserIds : users'[u].verified =>
       \/ users[u].verified
       \/ \E l \in LinkIds :
            links'[l].used /\ links'[l].kind = "verify" /\ links'[l].user = u
  /\ \A l \in LinkIds : links[l].life = "unborn" /\ links'[l].life # "unborn" =>
       \E r \in AccountRequests :
         /\ creq[r].at = "put" /\ UNCHANGED users
         /\ links'[l].user = creq[r].user /\ links'[l].mail = creq[r].mail

\* Emails are verified by redemptions only, and every step lets the links grow.
LEMMA AccountStepLinks ==
  ASSUME AccountInv, AccountStep
  PROVE VerificationStep
<1> USE AccountAssumption
    DEF AccountInv, AccountTypeOK, LinkSound, LinksGrow, VerificationStep
<1>1. ASSUME UNCHANGED links,
             \A u \in UserIds : users'[u].verified => users[u].verified,
             \A u \in UserIds : users[u].verified => users'[u].verified
      PROVE VerificationStep
  BY <1>1
<1>2. ASSUME NEW r \in AccountRequests, NEW l \in LinkIds, PutLink(r, l)
      PROVE VerificationStep
  <2>1. creq[r].user \in UserIds /\ UNCHANGED users /\ links[l].life = "unborn"
    BY <1>2 DEF PutLink, LinkKnown
  <2>2. \A k \in LinkIds : k # l =>
          /\ links'[k].used = links[k].used
          /\ links'[k].user = links[k].user
          /\ links'[k].kind = links[k].kind
          /\ links'[k].mail = links[k].mail
          /\ links'[k].life \in {links[k].life, "deleted"}
    BY <1>2 DEF PutLink
  <2>3. /\ links'[l].life = "live" /\ links'[l].user = creq[r].user
        /\ links'[l].mail = creq[r].mail /\ creq[r].at = "put"
    BY <1>2 DEF PutLink, NewLink
  <2>4. \A k \in LinkIds : links'[k].life = "unborn" => links[k].life = "unborn"
    BY <1>2 DEF PutLink, NewLink
  <2>5. \A k \in LinkIds : k # l /\ links[k].life = "unborn" =>
          links'[k].life = "unborn"
    BY <1>2 DEF PutLink, LinkKnown
  <2>6. \A k \in LinkIds : LinkSound(k)'
    BY <2>1, <2>2, <2>3, <2>4, <2>5 DEF LinkRow
  <2>7. LinksGrow
    BY <2>1, <2>2
  <2> QED BY <2>1, <2>3, <2>5, <2>6, <2>7
<1>3. ASSUME NEW r \in AccountRequests, Redeem(r) PROVE VerificationStep
  <2> DEFINE u == creq[r].user  l == creq[r].link
  <2>1. /\ u \in UserIds /\ l \in LinkIds
        /\ links[l].user = u /\ links[l].kind = creq[r].kind
    BY <1>3 DEF Redeem, LinkKnown
  <2>2. CASE UNCHANGED <<users, links>>
    BY <1>1, <2>2
  <2>3. CASE LiveLink(l)
    <3>1. /\ links'[l].user = u /\ links'[l].kind = creq[r].kind
          /\ links'[l].used /\ links'[l].life = links[l].life
          /\ links'[l].mail = links[l].mail
          /\ \A k \in LinkIds : k # l => links'[k] = links[k]
      BY <1>3, <2>1, <2>3 DEF Redeem, LinkRow
    <3>2. \A v \in UserIds : v # u => users'[v] = users[v]
      BY <1>3, <2>1, <2>3 DEF Redeem
    <3>3. /\ users[u].verified => users'[u].verified
          /\ users'[u].verified => users[u].verified \/ creq[r].kind = "verify"
      BY <1>3, <2>1, <2>3 DEF Redeem, Redeemed, UserRow
    <3>4. LinksGrow /\ \A k \in LinkIds : LinkSound(k)'
      BY <2>1, <2>3, <3>1 DEF LiveLink
    <3> QED BY <2>1, <3>1, <3>2, <3>3, <3>4
  <2> QED BY <1>3, <2>2, <2>3 DEF Redeem
<1>4. ASSUME NEW l \in LinkIds, ExpireLink(l) PROVE VerificationStep
  BY <1>4 DEF ExpireLink, LinkRow, LiveLink
<1>5. ASSUME NEW r \in AccountRequests, NEW u \in UserIds, NEW p \in Passwords,
             NEW m \in Mails, BeginRegister(r, u, p, m) \/ CreateUser(r, u, p, m)
      PROVE VerificationStep
  BY <1>1, <1>5 DEF BeginRegister, CreateUser, NewUser, Member
<1>6. ASSUME UNCHANGED <<users, links>> PROVE VerificationStep
  BY <1>1, <1>6
<1>7. ASSUME NEW r \in AccountRequests, Register(r) PROVE VerificationStep
  BY <1>1, <1>7 DEF Register, NewUser, Member
<1>8. ASSUME NEW u \in UserIds, NEW status \in UserStatuses, NEW p \in Passwords,
             NEW m \in Mails, EditUser(u, status, p, m)
      PROVE VerificationStep
  BY <1>1, <1>8 DEF EditUser
<1> QED
  BY <1>2, <1>3, <1>4, <1>5, <1>6, <1>7, <1>8
  DEF AccountStep, BeginForgotPassword, BeginResendVerification, BeginRedeem,
      ClearLinks, FailAccount

\* Users are never deleted, and verified emails and links belong to users.
MembersStep ==
  /\ \A u \in UserIds : Member(u) =>
       /\ Member(u)'
       /\ users'[u].edited \/ (~users[u].edited /\ users'[u].mail = users[u].mail)
  /\ \A u \in UserIds : users'[u].verified => Member(u)'
  /\ \A l \in LinkIds : links'[l].life # "unborn" => Member(links[l].user)'

LEMMA AccountStepMembers ==
  ASSUME AccountInv, AccountStep
  PROVE MembersStep
<1> USE DEF AccountInv, AccountTypeOK, Member, MembersStep, LinkSound
<1>0. VerificationStep
  BY AccountStepLinks
<1>1. ASSUME NEW r \in AccountRequests, NEW u \in UserIds, NEW p \in Passwords,
             NEW m \in Mails, CreateUser(r, u, p, m)
      PROVE MembersStep
  BY <1>1 DEF CreateUser, NewUser
<1>2. ASSUME NEW r \in AccountRequests, Register(r) PROVE MembersStep
  BY <1>2 DEF Register, NewUser
<1>3. ASSUME NEW r \in AccountRequests, NEW l \in LinkIds, PutLink(r, l)
      PROVE MembersStep
  <2>1. /\ creq[r].user \in UserIds /\ Member(creq[r].user) /\ UNCHANGED users
        /\ links'[l].user = creq[r].user
        /\ \A k \in LinkIds : k # l =>
             /\ links'[k].user = links[k].user
             /\ links'[k].life # "unborn" => links[k].life # "unborn"
    BY <1>3 DEF PutLink, LinkKnown, NewLink
  <2> QED BY <2>1
<1>4. ASSUME NEW r \in AccountRequests, Redeem(r) PROVE MembersStep
  <2>1. creq[r].user \in UserIds /\ Member(creq[r].user)
    BY <1>4 DEF Redeem, LinkKnown
  <2>2. \A u \in UserIds : Member(u) =>
          /\ Member(u)'
          /\ users'[u].edited = users[u].edited /\ users'[u].mail = users[u].mail
    BY <1>4, <2>1 DEF Redeem, Redeemed
  <2>3. \A u \in UserIds : users'[u].verified => Member(u)'
    BY <1>4, <2>1, <2>2 DEF Redeem, Redeemed
  <2>4. \A l \in LinkIds : links'[l].life = links[l].life
                            /\ links'[l].user = links[l].user
    BY <1>4 DEF Redeem
  <2> QED BY <2>2, <2>3, <2>4
<1>5. ASSUME NEW l \in LinkIds, ExpireLink(l) PROVE MembersStep
  BY <1>5 DEF ExpireLink
<1>6. ASSUME NEW u \in UserIds, NEW status \in UserStatuses, NEW p \in Passwords,
             NEW m \in Mails, EditUser(u, status, p, m)
      PROVE MembersStep
  BY <1>6 DEF EditUser
<1>7. ASSUME UNCHANGED <<users, links>> PROVE MembersStep
  BY <1>7
<1> QED
  BY <1>1, <1>2, <1>3, <1>4, <1>5, <1>6, <1>7
  DEF AccountStep, BeginRegister, BeginForgotPassword, BeginResendVerification,
      BeginRedeem, ClearLinks, FailAccount

LEMMA AccountStepKnown ==
  ASSUME AccountInv, AccountStep, NEW q \in AccountRequests
  PROVE LinkKnown(q)'
<1> USE AccountAssumption
    DEF AccountInv, AccountTypeOK, GoAccount, FinishAccount, Account, IdleAccount
<1>1. LinksGrow /\ MembersStep
  BY AccountStepLinks, AccountStepMembers DEF VerificationStep
<1>2. CASE creq'[q] = creq[q]
  BY <1>1, <1>2 DEF LinkKnown, LinksGrow, MembersStep, AccountRequest
<1>3. CASE creq'[q] # creq[q]
  <2> USE <1>3
  <2>1. ASSUME NEW r \in AccountRequests, NEW u \in UserIds, NEW p \in Passwords,
               NEW m \in Mails, BeginRegister(r, u, p, m) \/ CreateUser(r, u, p, m)
        PROVE LinkKnown(q)'
    BY <2>1 DEF BeginRegister, CreateUser, NewUser, LinkKnown, Member
  <2>2. ASSUME NEW r \in AccountRequests, NEW u \in UserIds,
               BeginForgotPassword(r, u) \/ BeginResendVerification(r, u)
        PROVE LinkKnown(q)'
    BY <2>2 DEF BeginForgotPassword, BeginResendVerification, LinkKnown, Member,
                Active
  <2>3. ASSUME NEW r \in AccountRequests, NEW l \in LinkIds, NEW p \in Passwords,
               BeginRedeem(r, l, p)
        PROVE LinkKnown(q)'
    BY <2>3 DEF BeginRedeem, Redeemable, LiveLink, LinkSound, LinkKnown, Member
  <2>4. ASSUME NEW r \in AccountRequests, Register(r) PROVE LinkKnown(q)'
    BY <2>4 DEF Register, NewUser, LinkKnown, Member
  <2>5. ASSUME NEW r \in AccountRequests, ClearLinks(r) PROVE LinkKnown(q)'
    BY <2>5 DEF ClearLinks, LinksOf, LiveLink, LinkKnown, Member
  <2>6. ASSUME creq'[q] = IdleAccount PROVE LinkKnown(q)'
    BY <2>6 DEF LinkKnown
  <2> QED
    BY <2>1, <2>2, <2>3, <2>4, <2>5, <2>6
    DEF AccountStep, PutLink, Redeem, FailAccount, ExpireLink, EditUser
<1> QED BY <1>2, <1>3

LEMMA AccountStepInv ==
  ASSUME AccountInv, AccountStep
  PROVE AccountInv'
<1>1. VerifiedByLink'
  BY AccountStepLinks DEF AccountInv, VerifiedByLink, VerificationStep, LinksGrow,
                          LinkSound
<1>2. \A r \in AccountRequests : LinkKnown(r)'
  BY AccountStepKnown
<1>3. \A l \in LinkIds : LinkSound(l)' /\ MailSound(l)'
  BY AccountStepLinks, AccountStepMembers
  DEF AccountInv, VerificationStep, LinksGrow, MembersStep, LinkSound, MailSound,
      LinkKnown
<1>4. /\ \A u \in UserIds : users'[u].verified => Member(u)'
      /\ \A l \in LinkIds : links'[l].life # "unborn" => Member(links[l].user)'
  BY AccountStepMembers DEF MembersStep
<1> QED BY <1>1, <1>2, <1>3, <1>4, AccountStepType DEF AccountInv

\* Which step moves a request.
LEMMA AccountMoves ==
  ASSUME AccountTypeOK, AccountStep, NEW r \in AccountRequests
  PROVE /\ creq'[r].at = "register" =>
             creq[r].at = "register" \/ \A v \in UserIds : ~Member(v)
        /\ creq[r].at = "redeem" /\ creq'[r] # creq[r] => Redeem(r) \/ FailAccount(r)
<1> DEFINE Goal ==
      /\ creq'[r].at = "register" =>
           creq[r].at = "register" \/ \A v \in UserIds : ~Member(v)
      /\ creq[r].at = "redeem" /\ creq'[r] # creq[r] => Redeem(r) \/ FailAccount(r)
<1> USE DEF AccountTypeOK, GoAccount, FinishAccount, Account, IdleAccount
<1>1. ASSUME NEW q \in AccountRequests, NEW u \in UserIds, NEW p \in Passwords,
             NEW m \in Mails, BeginRegister(q, u, p, m) \/ CreateUser(q, u, p, m)
      PROVE Goal
  BY <1>1 DEF BeginRegister, CreateUser
<1>2. ASSUME NEW q \in AccountRequests, NEW u \in UserIds,
             BeginForgotPassword(q, u) \/ BeginResendVerification(q, u)
      PROVE Goal
  BY <1>2 DEF BeginForgotPassword, BeginResendVerification
<1>3. ASSUME NEW q \in AccountRequests, NEW l \in LinkIds, NEW p \in Passwords,
             BeginRedeem(q, l, p)
      PROVE Goal
  BY <1>3 DEF BeginRedeem
<1>4. ASSUME NEW q \in AccountRequests, NEW l \in LinkIds, PutLink(q, l)
      PROVE Goal
  BY <1>4 DEF PutLink
<1>5. ASSUME NEW q \in AccountRequests, Register(q) \/ ClearLinks(q) PROVE Goal
  BY <1>5 DEF Register, ClearLinks
<1>6. ASSUME NEW q \in AccountRequests, Redeem(q) PROVE Goal
  <2>1. CASE q = r
    BY <1>6, <2>1 DEF Redeem
  <2>2. CASE q # r
    BY <1>6, <2>2 DEF Redeem
  <2> QED BY <2>1, <2>2
<1>7. ASSUME NEW q \in AccountRequests, FailAccount(q) PROVE Goal
  <2>1. CASE q = r
    BY <1>7, <2>1 DEF FailAccount
  <2>2. CASE q # r
    BY <1>7, <2>2 DEF FailAccount
  <2> QED BY <2>1, <2>2
<1>8. ASSUME UNCHANGED creq PROVE Goal
  BY <1>8
<1> QED
  BY <1>1, <1>2, <1>3, <1>4, <1>5, <1>6, <1>7, <1>8
  DEF AccountStep, ExpireLink, EditUser

LEMMA AccountInvariance == AccountSpec => []AccountInv
<1>1. AccountInv /\ [AccountStep]_accountVars => AccountInv'
  <2>1. CASE UNCHANGED accountVars
    BY <2>1 DEF accountVars, AccountInv, AccountTypeOK, VerifiedByLink, LinkKnown,
                LinkSound, MailSound, Member
  <2> QED BY <2>1, AccountStepInv
<1> QED BY <1>1, AccountInitInv, PTL DEF AccountSpec

-----------------------------------------------------------------------------

\* Users, links and requests always have their types.
THEOREM AccountTypes == AccountSpec => []AccountTypeOK
  BY AccountInvariance, PTL DEF AccountInv

\* Nobody's email counts as verified without a used verification link.
THEOREM Verification == AccountSpec => []VerifiedByLink
  BY AccountInvariance, PTL DEF AccountInv

\* Public registration, once closed, stays closed.
THEOREM RegistrationLock == AccountSpec => RegistrationStaysClosed
<1>1. ASSUME AccountInv, RegistrationClosed, AccountStep
      PROVE RegistrationClosed'
  BY <1>1, AccountStepMembers, AccountMoves
  DEF RegistrationClosed, AccountInv, MembersStep
<1>2. RegistrationClosed /\ UNCHANGED accountVars => RegistrationClosed'
  BY DEF RegistrationClosed, accountVars, Member
<1> QED BY <1>1, AccountInvariance, PTL DEF AccountSpec, RegistrationStaysClosed

\* A redemption has an effect only through a link that is still in the table.
THEOREM Replacement == AccountSpec => ReplacedLinksAreDead
<1> DEFINE Paired ==
      \A r \in AccountRequests :
        creq[r].at = "redeem" /\ creq'[r] # creq[r] /\ users' # users =>
          LiveLink(creq[r].link) /\ links'[creq[r].link].used
<1>1. ASSUME AccountInv, AccountStep PROVE Paired
  <2> SUFFICES ASSUME NEW r \in AccountRequests, creq[r].at = "redeem",
                      creq'[r] # creq[r], users' # users
               PROVE LiveLink(creq[r].link) /\ links'[creq[r].link].used
    OBVIOUS
  <2>1. Redeem(r)
    BY <1>1, AccountMoves DEF AccountInv, FailAccount
  <2> QED BY <1>1, <2>1 DEF Redeem, AccountInv, AccountTypeOK, LinkKnown
<1>2. UNCHANGED accountVars => Paired
  BY DEF accountVars
<1>3. AccountInv /\ [AccountStep]_accountVars => [Paired]_accountVars
  BY <1>1
<1> QED BY <1>3, AccountInvariance, PTL DEF AccountSpec, ReplacedLinksAreDead

-----------------------------------------------------------------------------
(* The number of links *)

\* A counting argument without counting: some assignment gives every link in the
\* table to the request that issued it, no request is given two links of one user
\* and kind, and an issuing transaction has seen, and will delete, the link that
\* its own request has issued before.
Issued(owner) ==
  /\ \A l \in LinkIds : LiveLink(l) => owner[l] \in AccountRequests
  /\ \A l, k \in LinkIds :
       LiveLink(l) /\ LiveLink(k) /\ owner[l] = owner[k]
         /\ links[l].user = links[k].user /\ links[l].kind = links[k].kind
       => l = k
  /\ \A r \in AccountRequests, l \in LinkIds :
       creq[r].at = "put" /\ owner[l] = r
         /\ l \in LinksOf(creq[r].user, creq[r].kind)
       => l \in creq[r].victims
IssuedApart == \E owner \in [LinkIds -> AccountRequests \cup {None}] : Issued(owner)

LEMMA IssuedInit == AccountInit => IssuedApart
<1> SUFFICES ASSUME AccountInit PROVE IssuedApart
  OBVIOUS
<1> DEFINE owner == [l \in LinkIds |-> None]
<1>1. owner \in [LinkIds -> AccountRequests \cup {None}]
  OBVIOUS
<1>2. Issued(owner)
  BY DEF AccountInit, Issued, LiveLink, NoLink, IdleAccount, Account
<1> QED BY <1>1, <1>2 DEF IssuedApart

\* An assignment is as good after a step that neither creates links nor lets a
\* request reach its insert.
LEMMA IssuedKept ==
  ASSUME NEW owner, Issued(owner),
         \A l \in LinkIds : LiveLink(l)' =>
           /\ LiveLink(l)
           /\ links'[l].user = links[l].user /\ links'[l].kind = links[l].kind,
         \A r \in AccountRequests :
           creq'[r].at = "put" =>
             \/ creq'[r] = creq[r]
             \/ creq'[r].victims = LinksOf(creq'[r].user, creq'[r].kind)
  PROVE  Issued(owner)'
<1>1. \A u, kind : LinksOf(u, kind)' \subseteq LinksOf(u, kind)
  BY DEF LinksOf
<1>2. ASSUME NEW r \in AccountRequests, NEW l \in LinkIds,
             creq'[r].at = "put", owner[l] = r,
             l \in LinksOf(creq[r].user, creq[r].kind)'
      PROVE l \in creq'[r].victims
  BY <1>1, <1>2 DEF Issued
<1> QED BY <1>2 DEF Issued

\* The insert passes the link to its request; the one that the request had issued
\* before is among the deleted.
LEMMA IssuedByPut ==
  ASSUME AccountInv, NEW r \in AccountRequests, NEW l \in LinkIds, PutLink(r, l),
         NEW owner \in [LinkIds -> AccountRequests \cup {None}], Issued(owner)
  PROVE  IssuedApart'
<1> USE DEF AccountInv, AccountTypeOK
<1> DEFINE new == [owner EXCEPT ![l] = r]
           q == creq[r]
<1>1. /\ creq[r].at = "put" /\ links[l].life = "unborn"
      /\ links'[l].life = "live"
      /\ links'[l].user = creq[r].user /\ links'[l].kind = creq[r].kind
  BY DEF PutLink, NewLink
<1>2. \A k \in LinkIds : k # l /\ LiveLink(k)' =>
        /\ LiveLink(k) /\ k \notin creq[r].victims
        /\ links'[k].user = links[k].user /\ links'[k].kind = links[k].kind
  BY DEF PutLink, LiveLink
<1>3. creq'[r].at = "idle" /\ \A p \in AccountRequests : p # r => creq'[p] = creq[p]
  BY DEF PutLink, FinishAccount, GoAccount, IdleAccount, Account
<1>4. new \in [LinkIds -> AccountRequests \cup {None}]
  OBVIOUS
<1>5. new[l] = r /\ \A k \in LinkIds : k # l => new[k] = owner[k]
  OBVIOUS
<1> HIDE DEF new
<1>6. \A k \in LinkIds : LiveLink(k)' => new[k] \in AccountRequests
  BY <1>2, <1>5 DEF Issued
<1>7. ASSUME NEW k \in LinkIds, k # l, LiveLink(k)', new[k] = r,
             links'[k].user = links'[l].user, links'[k].kind = links'[l].kind
      PROVE FALSE
  BY <1>1, <1>2, <1>5, <1>7 DEF Issued, LinksOf
<1>8. ASSUME NEW j \in LinkIds, NEW k \in LinkIds, LiveLink(j)', LiveLink(k)',
             new[j] = new[k], links'[j].user = links'[k].user,
             links'[j].kind = links'[k].kind
      PROVE j = k
  BY <1>2, <1>5, <1>7, <1>8 DEF Issued
<1>9. ASSUME NEW p \in AccountRequests, NEW k \in LinkIds, creq'[p].at = "put",
             new[k] = p, k \in LinksOf(creq[p].user, creq[p].kind)'
      PROVE k \in creq'[p].victims
  <2>1. p # r /\ creq'[p] = creq[p] /\ k # l
    BY <1>3, <1>5, <1>9
  <2> QED BY <1>2, <1>5, <1>9, <2>1 DEF Issued, LinksOf
<1>10. Issued(new)'
  BY <1>6, <1>8, <1>9 DEF Issued, new
<1> QED BY <1>4, <1>10 DEF IssuedApart

LEMMA IssuedStep ==
  ASSUME AccountInv, IssuedApart, AccountStep
  PROVE  IssuedApart'
<1> USE DEF AccountInv, AccountTypeOK
<1>1. PICK owner \in [LinkIds -> AccountRequests \cup {None}] : Issued(owner)
  BY DEF IssuedApart
<1>2. CASE \E r \in AccountRequests, l \in LinkIds : PutLink(r, l)
  BY <1>1, <1>2, IssuedByPut
<1>3. ASSUME \A r \in AccountRequests, l \in LinkIds : ~PutLink(r, l)
      PROVE IssuedApart'
  <2>1. \A l \in LinkIds : LiveLink(l)' =>
          /\ LiveLink(l)
          /\ links'[l].user = links[l].user /\ links'[l].kind = links[l].kind
    <3> DEFINE NoNewLink ==
          \A l \in LinkIds : LiveLink(l)' =>
            /\ LiveLink(l)
            /\ links'[l].user = links[l].user /\ links'[l].kind = links[l].kind
    <3>1. ASSUME UNCHANGED links PROVE NoNewLink
      BY <3>1 DEF LiveLink
    <3>2. ASSUME NEW r \in AccountRequests, Redeem(r) PROVE NoNewLink
      BY <3>2 DEF Redeem, LiveLink
    <3>3. ASSUME NEW l \in LinkIds, ExpireLink(l) PROVE NoNewLink
      BY <3>3 DEF ExpireLink, LiveLink
    <3> HIDE DEF NoNewLink
    <3>4. ASSUME NEW r \in AccountRequests, NEW u \in UserIds,
                 \/ \E p \in Passwords, m \in Mails :
                      BeginRegister(r, u, p, m) \/ CreateUser(r, u, p, m)
                 \/ BeginForgotPassword(r, u)
                 \/ BeginResendVerification(r, u)
          PROVE links' = links
      BY <3>4 DEF BeginRegister, CreateUser, BeginForgotPassword,
                  BeginResendVerification
    <3>5. ASSUME NEW r \in AccountRequests, NEW l \in LinkIds,
                 \E p \in Passwords : BeginRedeem(r, l, p)
          PROVE links' = links
      BY <3>5 DEF BeginRedeem
    <3>6. ASSUME NEW r \in AccountRequests,
                 Register(r) \/ ClearLinks(r) \/ FailAccount(r)
          PROVE links' = links
      BY <3>6 DEF Register, ClearLinks, FailAccount
    <3>7. ASSUME NEW u \in UserIds, NEW status \in UserStatuses, NEW p \in Passwords,
                 NEW m \in Mails, EditUser(u, status, p, m)
          PROVE links' = links
      BY <3>7 DEF EditUser
    <3>8. NoNewLink
      BY <1>3, <3>1, <3>2, <3>3, <3>4, <3>5, <3>6, <3>7 DEF AccountStep
    <3> QED BY <3>8 DEF NoNewLink
  <2>2. \A r \in AccountRequests : creq'[r].at = "put" =>
          \/ creq'[r] = creq[r]
          \/ creq'[r].victims = LinksOf(creq'[r].user, creq'[r].kind)
    <3> DEFINE Fresh ==
          \A r \in AccountRequests : creq'[r].at = "put" =>
            \/ creq'[r] = creq[r]
            \/ creq'[r].victims = LinksOf(creq'[r].user, creq'[r].kind)
    <3>1. ASSUME NEW r \in AccountRequests, ClearLinks(r) PROVE Fresh
      BY <3>1 DEF ClearLinks, GoAccount
    <3>2. ASSUME NEW r \in AccountRequests, NEW state, state.at # "put",
                 GoAccount(r, state)
          PROVE Fresh
      BY <3>2 DEF GoAccount
    <3>3. ASSUME UNCHANGED creq PROVE Fresh
      BY <3>3
    <3> HIDE DEF Fresh
    <3>4. ASSUME NEW r \in AccountRequests, FinishAccount(r) PROVE Fresh
      <4>1. IdleAccount.at # "put"
        BY DEF IdleAccount, Account
      <4> QED BY <3>2, <3>4, <4>1 DEF FinishAccount
    <3>5. \A at, u, kind, p, m : at # "put" => Account(at, u, kind, p, m).at # "put"
      BY DEF Account
    <3>6. ASSUME NEW r \in AccountRequests, NEW u \in UserIds,
                 \/ \E p \in Passwords, m \in Mails :
                      BeginRegister(r, u, p, m) \/ CreateUser(r, u, p, m)
                 \/ BeginForgotPassword(r, u)
                 \/ BeginResendVerification(r, u)
          PROVE Fresh
      BY <3>2, <3>5, <3>6 DEF BeginRegister, CreateUser, BeginForgotPassword,
                              BeginResendVerification
    <3>7. ASSUME NEW r \in AccountRequests, NEW l \in LinkIds,
                 \E p \in Passwords : BeginRedeem(r, l, p)
          PROVE Fresh
      BY <3>2, <3>7 DEF BeginRedeem
    <3>8. ASSUME NEW r \in AccountRequests, Register(r) PROVE Fresh
      BY <3>2, <3>4, <3>5, <3>8 DEF Register
    <3>9. ASSUME NEW r \in AccountRequests, Redeem(r) \/ FailAccount(r) PROVE Fresh
      BY <3>4, <3>9 DEF Redeem, FailAccount
    <3>10. ASSUME NEW l \in LinkIds, ExpireLink(l) PROVE Fresh
      BY <3>3, <3>10 DEF ExpireLink
    <3>11. ASSUME NEW u \in UserIds, NEW status \in UserStatuses, NEW p \in Passwords,
                  NEW m \in Mails, EditUser(u, status, p, m)
           PROVE Fresh
      BY <3>3, <3>11 DEF EditUser
    <3>12. Fresh
      BY <1>3, <3>1, <3>6, <3>7, <3>8, <3>9, <3>10, <3>11 DEF AccountStep
    <3> QED BY <3>12 DEF Fresh
  <2>3. Issued(owner)'
    BY <1>1, <2>1, <2>2, IssuedKept
  <2> QED BY <1>1, <2>3 DEF IssuedApart
<1> QED BY <1>2, <1>3

\* However issues overlap, a user has no more links of a kind than requests can
\* be under way.
THEOREM LinkBound == AccountSpec => []NoMoreLinksThanRequests
<1>1. IssuedApart => NoMoreLinksThanRequests
  <2> SUFFICES ASSUME NEW owner \in [LinkIds -> AccountRequests \cup {None}],
                      Issued(owner), NEW u \in UserIds, NEW kind \in Kinds
               PROVE Cardinality(LinksOf(u, kind)) <= Cardinality(AccountRequests)
    BY DEF IssuedApart, NoMoreLinksThanRequests
  <2> DEFINE f == [l \in LinksOf(u, kind) |-> owner[l]]
  <2>1. f \in Injection(LinksOf(u, kind), AccountRequests)
    BY DEF Issued, LinksOf, Injection, IsInjective
  <2> HIDE DEF f
  <2> QED BY <2>1, FS_Injection, AccountAssumption
<1>2. IssuedApart /\ AccountInv /\ [AccountStep]_accountVars => IssuedApart'
  <2>1. CASE UNCHANGED accountVars
    BY <2>1 DEF accountVars, IssuedApart, Issued, LiveLink, LinksOf
  <2> QED BY <2>1, IssuedStep
<1> QED BY <1>1, <1>2, IssuedInit, AccountInvariance, PTL DEF AccountSpec

-----------------------------------------------------------------------------
(* Sessions *)

\* What holds of a token and of a request that is under way.
TokenSound(t) ==
  /\ ~tokens[t].issued => tokens[t] = NoToken
  /\ tokens[t].issued =>
       /\ tokens[t].user \in UserIds /\ users[tokens[t].user].verified
       /\ tokens[t].session \in TokenIds /\ tokens[tokens[t].session].issued
       /\ tokens[t].parent # None =>
            /\ tokens[t].parent \in TokenIds
            /\ tokens[tokens[t].parent].issued
            /\ tokens[tokens[t].parent].revoked
            /\ tokens[tokens[t].parent].session = tokens[t].session
            /\ tokens[tokens[t].parent].user = tokens[t].user
SessionKnown(r) ==
  /\ sreq[r].at # "idle" => /\ sreq[r].user \in UserIds
                            /\ users[sreq[r].user].verified
  /\ sreq[r].at \in {"rotate", "reissue"} =>
       /\ sreq[r].token \in TokenIds /\ tokens[sreq[r].token].issued
       /\ tokens[sreq[r].token].user = sreq[r].user
  /\ sreq[r].at = "reissue" => tokens[sreq[r].token].revoked

SessionInv == /\ \A t \in TokenIds : TokenSound(t)
              /\ \A r \in SessionRequests : SessionKnown(r)
Inv == AccountInv /\ SessionTypeOK /\ SessionInv

LEMMA InitInv == Init => Inv
  BY AccountInitInv, AccountAssumption, SessionAssumption
  DEF Init, Inv, SessionTypeOK, SessionInv, TokenSound, SessionKnown, TokenRow,
      NoToken, SessionRequest, IdleSession

\* What a step does to tokens: an issued token keeps its columns, except that it
\* may be revoked or expire.
TokensGrow ==
  \A t \in TokenIds : tokens[t].issued =>
    /\ tokens'[t].issued
    /\ tokens'[t].user = tokens[t].user
    /\ tokens'[t].session = tokens[t].session
    /\ tokens'[t].parent = tokens[t].parent
    /\ tokens[t].revoked => tokens'[t].revoked
    /\ tokens[t].expired => tokens'[t].expired

\* The four ways in which the token table changes.
Unissued == UNCHANGED tokens
Marked(t) == /\ tokens[t].issued
             /\ \E row \in TokenRow :
                  /\ tokens' = [tokens EXCEPT ![t] = row]
                  /\ row.issued /\ row.user = tokens[t].user
                  /\ row.session = tokens[t].session
                  /\ row.parent = tokens[t].parent
                  /\ tokens[t].revoked => row.revoked
                  /\ tokens[t].expired => row.expired
Opened(r, t) == /\ sreq[r].at = "open" /\ ~tokens[t].issued
                /\ tokens' = [tokens EXCEPT ![t] = NewToken(sreq[r].user, t, None)]
Reissued(r, t) ==
  /\ sreq[r].at = "reissue" /\ ~tokens[t].issued
  /\ tokens' = [tokens EXCEPT ![t] =
                  NewToken(sreq[r].user, tokens[sreq[r].token].session, sreq[r].token)]

LEMMA TableSteps ==
  ASSUME Inv, SessionStep
  PROVE \/ Unissued
        \/ \E t \in TokenIds : Marked(t)
        \/ \E r \in SessionRequests, t \in TokenIds : Opened(r, t) \/ Reissued(r, t)
<1> USE DEF Inv, SessionTypeOK
<1>1. ASSUME NEW t \in TokenIds, Logout(t) PROVE Marked(t)
  <2>1. Revoked(tokens[t]) \in TokenRow
    BY DEF Revoked, TokenRow
  <2> QED BY <1>1, <2>1 DEF Logout, Marked, Revoked
<1>2. ASSUME NEW t \in TokenIds, ExpireToken(t) PROVE Marked(t)
  <2> DEFINE row == [issued |-> tokens[t].issued, user |-> tokens[t].user,
                     session |-> tokens[t].session, parent |-> tokens[t].parent,
                     revoked |-> tokens[t].revoked, expired |-> TRUE]
  <2>1. row \in TokenRow
    BY DEF TokenRow
  <2> QED BY <1>2, <2>1 DEF ExpireToken, Marked
<1>3. ASSUME NEW r \in SessionRequests, RevokeUsed(r)
      PROVE \E t \in TokenIds : Marked(t)
  <2>1. sreq[r].token \in TokenIds /\ tokens[sreq[r].token].issued
    BY <1>3 DEF RevokeUsed, SessionInv, SessionKnown
  <2>2. Revoked(tokens[sreq[r].token]) \in TokenRow
    BY <2>1 DEF Revoked, TokenRow
  <2>3. Marked(sreq[r].token)
    BY <1>3, <2>1, <2>2 DEF RevokeUsed, Marked, Revoked
  <2> QED BY <2>1, <2>3
<1> QED
  BY <1>1, <1>2, <1>3
  DEF SessionStep, BeginLogin, BeginRefresh, OpenSession, Reissue, FailSession,
      Unissued, Opened, Reissued

LEMMA StepTokens ==
  ASSUME Inv, SessionStep
  PROVE /\ TokensGrow
        /\ tokens' \in [TokenIds -> TokenRow]
        /\ \A t \in TokenIds : TokenSound(t)'
<1> DEFINE Goal == /\ TokensGrow
                   /\ tokens' \in [TokenIds -> TokenRow]
                   /\ \A t \in TokenIds : TokenSound(t)'
<1> USE SessionAssumption DEF Inv, SessionTypeOK, SessionInv, TokensGrow, TokenSound
<1>0. UNCHANGED users
  BY DEF SessionStep, BeginLogin, BeginRefresh, OpenSession, Reissue, FailSession,
         RevokeUsed, Logout, ExpireToken, AccountsUnchanged
<1>1. CASE Unissued
  BY <1>0, <1>1 DEF Unissued
<1>2. ASSUME NEW t \in TokenIds, Marked(t) PROVE Goal
  <2>1. TokensGrow /\ tokens' \in [TokenIds -> TokenRow]
    BY <1>2 DEF Marked
  <2>2. \A w \in TokenIds : ~tokens[w].issued => tokens'[w] = tokens[w]
    BY <1>2 DEF Marked
  <2> QED BY <1>0, <2>1, <2>2
<1>3. ASSUME NEW r \in SessionRequests, NEW t \in TokenIds,
             Opened(r, t) \/ Reissued(r, t)
      PROVE Goal
  <2> DEFINE s == IF sreq[r].at = "open" THEN t ELSE tokens[sreq[r].token].session
             p == IF sreq[r].at = "open" THEN None ELSE sreq[r].token
             u == sreq[r].user
  <2>1. /\ tokens' = [tokens EXCEPT ![t] = NewToken(u, s, p)]
        /\ ~tokens[t].issued
    BY <1>3 DEF Opened, Reissued
  <2>2. u \in UserIds /\ users[u].verified
    BY <1>3 DEF Opened, Reissued, SessionKnown
  <2>3. /\ s \in TokenIds
        /\ p # None => /\ p \in TokenIds /\ tokens[p].issued /\ tokens[p].revoked
                       /\ tokens[p].session = s /\ tokens[p].user = u
        /\ s = t \/ tokens[s].issued
    BY <1>3 DEF Opened, Reissued, SessionKnown
  <2>4. NewToken(u, s, p) \in TokenRow
    BY <2>2, <2>3 DEF NewToken, TokenRow
  <2> HIDE DEF s, p, u
  <2>5. TokensGrow /\ tokens' \in [TokenIds -> TokenRow]
    BY <2>1, <2>4
  <2>6. /\ tokens'[t].issued /\ tokens'[t].user = u /\ tokens'[t].session = s
        /\ tokens'[t].parent = p
        /\ \A w \in TokenIds : w # t => tokens'[w] = tokens[w]
    BY <2>1 DEF NewToken
  <2>7. TokenSound(t)'
    BY <1>0, <2>1, <2>2, <2>3, <2>6
  <2>8. ASSUME NEW w \in TokenIds, w # t PROVE TokenSound(w)'
    BY <1>0, <2>1, <2>5, <2>6, <2>8
  <2> QED BY <2>5, <2>7, <2>8
<1> QED BY <1>1, <1>2, <1>3, TableSteps

\* A request that moves is typed and knows its token.
LEMMA StepRequests ==
  ASSUME Inv, SessionStep
  PROVE /\ sreq' \in [SessionRequests -> SessionRequest]
        /\ \A r \in SessionRequests : SessionKnown(r)'
<1> DEFINE Goal == /\ sreq' \in [SessionRequests -> SessionRequest]
                   /\ \A r \in SessionRequests : SessionKnown(r)'
<1> USE SessionAssumption, AccountAssumption
    DEF Inv, SessionTypeOK, SessionInv, GoSession, FinishSession
<1>0. /\ UNCHANGED users /\ TokensGrow
      /\ \A r \in SessionRequests : sreq'[r] = sreq[r] => SessionKnown(r)'
  <2>1. UNCHANGED users
    BY DEF SessionStep, BeginLogin, BeginRefresh, OpenSession, Reissue, FailSession,
           RevokeUsed, Logout, ExpireToken, AccountsUnchanged
  <2>2. TokensGrow
    BY StepTokens
  <2> QED BY <2>1, <2>2 DEF SessionKnown, TokensGrow
<1>1. ASSUME NEW r \in SessionRequests, NEW u \in UserIds, NEW p \in Passwords,
             BeginLogin(r, u, p)
      PROVE Goal
  BY <1>0, <1>1 DEF BeginLogin, Admissible, Active, SessionKnown, SessionRequest
<1>2. ASSUME NEW r \in SessionRequests, NEW t \in TokenIds, BeginRefresh(r, t)
      PROVE Goal
  <2>1. tokens[t].issued /\ tokens[t].user \in UserIds
    BY <1>2 DEF BeginRefresh, Usable, TokenSound
  <2> QED BY <1>0, <1>2, <2>1 DEF BeginRefresh, Usable, Admissible, SessionKnown,
                                  SessionRequest
<1>3. ASSUME NEW r \in SessionRequests, sreq' = [sreq EXCEPT ![r] = IdleSession]
      PROVE Goal
  BY <1>0, <1>3 DEF IdleSession, SessionKnown, SessionRequest
<1>4. ASSUME NEW r \in SessionRequests, RevokeUsed(r) PROVE Goal
  <2>1. /\ sreq[r].token \in TokenIds /\ tokens[sreq[r].token].issued
        /\ tokens[sreq[r].token].user = sreq[r].user
        /\ sreq[r].user \in UserIds /\ users[sreq[r].user].verified
    BY <1>4 DEF RevokeUsed, SessionKnown
  <2>2. tokens'[sreq[r].token].revoked
    BY <1>4, <2>1 DEF RevokeUsed, Revoked
  <2> QED BY <1>0, <1>4, <2>1, <2>2 DEF RevokeUsed, SessionKnown, SessionRequest,
                                        TokensGrow
<1>5. ASSUME UNCHANGED sreq PROVE Goal
  BY <1>0, <1>5
<1> QED BY <1>1, <1>2, <1>3, <1>4, <1>5
        DEF SessionStep, OpenSession, Reissue, FailSession, Logout, ExpireToken

\* An account step leaves sessions alone and never takes a verified email back.
LEMMA AccountStepSessions ==
  ASSUME Inv, AccountStep, UNCHANGED sessionVars
  PROVE Inv'
<1>1. \A u \in UserIds : users[u].verified => users'[u].verified
  BY AccountStepLinks DEF Inv, VerificationStep
<1> QED BY <1>1, AccountStepInv
        DEF Inv, SessionTypeOK, SessionInv, TokenSound, SessionKnown, sessionVars

LEMMA NextInv == Inv /\ [Next]_vars => Inv'
<1>1. CASE UNCHANGED vars
  BY <1>1 DEF vars, Inv, AccountInv, AccountTypeOK, VerifiedByLink, LinkKnown,
              LinkSound, MailSound, Member, SessionTypeOK, SessionInv, TokenSound, SessionKnown
<1>2. ASSUME Inv, SessionStep PROVE Inv'
  <2>1. UNCHANGED accountVars
    BY <1>2 DEF SessionStep, BeginLogin, BeginRefresh, OpenSession, Reissue,
                FailSession, RevokeUsed, Logout, ExpireToken, AccountsUnchanged,
                accountVars
  <2>2. AccountInv'
    BY <1>2, <2>1 DEF Inv, accountVars, AccountInv, AccountTypeOK, VerifiedByLink,
                      LinkKnown, LinkSound, MailSound, Member
  <2> QED BY <1>2, <2>2, StepTokens, StepRequests DEF Inv, SessionTypeOK, SessionInv
<1> QED BY <1>1, <1>2, AccountStepSessions DEF Next

LEMMA Invariance == Spec => []Inv
  BY InitInv, NextInv, PTL DEF Spec

-----------------------------------------------------------------------------

\* Accounts, tokens and requests always have their types.
THEOREM SessionTypes == Spec => []TypeOK
<1>1. Inv => TypeOK
  BY DEF Inv, AccountInv, TypeOK
<1> QED BY <1>1, Invariance, PTL

\* Rotation never leaves a token and its successor usable together.
THEOREM Rotation == Spec => []RotatedTokensAreSpent
<1>1. Inv => RotatedTokensAreSpent
  BY DEF Inv, SessionInv, TokenSound, RotatedTokensAreSpent, NoToken
<1> QED BY <1>1, Invariance, PTL

\* Every session belongs to a user who has used a verification link, one that was
\* sent to the address they have unless an administrator has changed it.
THEOREM SessionOwners == Spec => []SessionsNeedVerifiedUser
<1>1. Inv => SessionsNeedVerifiedUser
  BY DEF Inv, AccountInv, VerifiedByLink, LinkSound, MailSound, SessionInv,
         TokenSound, SessionsNeedVerifiedUser
<1> QED BY <1>1, Invariance, PTL

\* How requests move: a refresh starts with a usable token of an active user, a
\* login with an active user, and nothing else gives a request a user or a token.
LEMMA RequestMoves ==
  ASSUME Inv, SessionStep, NEW r \in SessionRequests
  PROVE \/ sreq'[r] = sreq[r]
        \/ sreq'[r] = IdleSession
        \/ /\ sreq'[r].token = sreq[r].token /\ sreq'[r].user = sreq[r].user
           /\ sreq[r].at = "rotate" /\ sreq'[r].at = "reissue"
        \/ Active(sreq'[r].user) /\ sreq'[r].at = "open"
        \/ /\ Active(sreq'[r].user) /\ sreq'[r].at = "rotate"
           /\ Usable(sreq'[r].token)
<1> DEFINE Goal ==
      \/ sreq'[r] = sreq[r]
      \/ sreq'[r] = IdleSession
      \/ /\ sreq'[r].token = sreq[r].token /\ sreq'[r].user = sreq[r].user
         /\ sreq[r].at = "rotate" /\ sreq'[r].at = "reissue"
      \/ Active(sreq'[r].user) /\ sreq'[r].at = "open"
      \/ /\ Active(sreq'[r].user) /\ sreq'[r].at = "rotate"
         /\ Usable(sreq'[r].token)
<1> USE DEF Inv, SessionTypeOK, GoSession, FinishSession
<1>1. ASSUME NEW q \in SessionRequests, NEW u \in UserIds, NEW p \in Passwords,
             BeginLogin(q, u, p)
      PROVE Goal
  BY <1>1 DEF BeginLogin, Admissible
<1>2. ASSUME NEW q \in SessionRequests, NEW t \in TokenIds, BeginRefresh(q, t)
      PROVE Goal
  BY <1>2 DEF BeginRefresh, Admissible
<1>3. ASSUME NEW q \in SessionRequests, sreq' = [sreq EXCEPT ![q] = IdleSession]
      PROVE Goal
  BY <1>3
<1>4. ASSUME NEW q \in SessionRequests, RevokeUsed(q) PROVE Goal
  BY <1>4 DEF RevokeUsed
<1> HIDE DEF Goal
<1>5. ASSUME UNCHANGED sreq PROVE Goal
  BY <1>5 DEF Goal
<1> QED
  <2>1. Goal
    BY <1>1, <1>2, <1>3, <1>4, <1>5
    DEF SessionStep, OpenSession, Reissue, FailSession, Logout, ExpireToken
  <2> QED BY <2>1 DEF Goal

\* A closed session gets no new token and none of its tokens becomes usable.
LEMMA ClosedStep ==
  ASSUME Inv, SessionStep, NEW s \in TokenIds, Closed(s)
  PROVE Closed(s)'
<1> USE DEF Inv, SessionTypeOK, SessionInv
<1>1. TokensGrow
  BY StepTokens
<1>2. \A t \in TokenIds : ~tokens[t].issued /\ tokens'[t].issued =>
        tokens'[t].session # s
  <2> SUFFICES ASSUME NEW t \in TokenIds, ~tokens[t].issued, tokens'[t].issued
               PROVE tokens'[t].session # s
    OBVIOUS
  <2>1. \A w \in TokenIds : ~Marked(w) \/ w # t
    BY DEF Marked
  <2>2. ASSUME NEW r \in SessionRequests, Opened(r, t) PROVE tokens'[t].session # s
    <3>1. tokens'[t].session = t
      BY <2>2 DEF Opened, NewToken
    <3>2. tokens[s].issued
      BY DEF Closed, Chain, TokenSound
    <3> QED BY <3>1, <3>2
  <2>3. ASSUME NEW r \in SessionRequests, Reissued(r, t)
        PROVE tokens'[t].session # s
    <3>1. tokens'[t].session = tokens[sreq[r].token].session
      BY <2>3 DEF Reissued, NewToken
    <3>2. tokens[sreq[r].token].session # s
      BY <2>3 DEF Reissued, SessionKnown, Closed, RefreshingOn, Chain
    <3> QED BY <3>1, <3>2
  <2>4. \A w \in TokenIds, r \in SessionRequests :
          w # t => ~Opened(r, w) /\ ~Reissued(r, w)
    BY DEF Opened, Reissued
  <2>5. \A w \in TokenIds : w # t => ~Marked(w)
    BY DEF Marked
  <2> QED BY <2>1, <2>2, <2>3, <2>4, <2>5, TableSteps DEF Unissued
<1>3. Chain(s)' = Chain(s)
  BY <1>1, <1>2 DEF Chain, TokensGrow
<1>4. \A t \in Chain(s) : ~Usable(t)'
  BY <1>1 DEF Closed, Usable, Chain, TokensGrow
<1>5. ASSUME NEW r \in SessionRequests,
             sreq'[r].at \in {"rotate", "reissue"}, sreq'[r].token \in Chain(s)
      PROVE FALSE
  <2>1. ~(sreq[r].at \in {"rotate", "reissue"} /\ sreq[r].token \in Chain(s))
    BY DEF Closed, RefreshingOn
  <2>2. ~Usable(sreq'[r].token)
    BY <1>5 DEF Closed
  <2> QED BY <1>5, <2>1, <2>2, RequestMoves DEF IdleSession
<1>6. RefreshingOn(s)' = {}
  BY <1>3, <1>5 DEF RefreshingOn
<1> QED BY <1>3, <1>4, <1>6 DEF Closed

\* A session without a usable token and without a refresh under way is over.
THEOREM ClosedForGood == Spec => ClosedSessionsStayClosed
<1> DEFINE Stays == \A s \in TokenIds : Closed(s) => Closed(s)'
<1>1. ASSUME Inv, SessionStep PROVE Stays
  BY <1>1, ClosedStep
<1>2. ASSUME UNCHANGED sessionVars PROVE Stays
  BY <1>2 DEF sessionVars, Closed, Chain, RefreshingOn, Usable
<1>3. Inv /\ [Next]_vars => [Stays]_vars
  BY <1>1, <1>2 DEF Next
<1> QED BY <1>3, Invariance, PTL DEF Spec, ClosedSessionsStayClosed

\* A deactivated user without a request under way gets no token.
LEMMA ShutOutStep ==
  ASSUME Inv, SessionStep, NEW u \in UserIds, ShutOut(u)
  PROVE /\ {t \in TokenIds : tokens'[t].user = u} = {t \in TokenIds : tokens[t].user = u}
        /\ ShutOut(u)'
<1> USE DEF Inv, SessionTypeOK, SessionInv
<1>0. UNCHANGED users
  BY DEF SessionStep, BeginLogin, BeginRefresh, OpenSession, Reissue, FailSession,
         RevokeUsed, Logout, ExpireToken, AccountsUnchanged
<1>1. \A t \in TokenIds : tokens'[t].user = u <=> tokens[t].user = u
  <2>1. CASE Unissued
    BY <2>1 DEF Unissued
  <2>2. ASSUME NEW w \in TokenIds, Marked(w)
        PROVE \A t \in TokenIds : tokens'[t].user = tokens[t].user
    BY <2>2 DEF Marked
  <2>3. ASSUME NEW r \in SessionRequests, NEW w \in TokenIds,
               Opened(r, w) \/ Reissued(r, w)
        PROVE \A t \in TokenIds : tokens'[t].user = u <=> tokens[t].user = u
    <3>1. sreq[r].user # u
      BY DEF ShutOut
    <3>2. tokens[w].user # u
      BY <2>3, AccountAssumption DEF Opened, Reissued, TokenSound, NoToken
    <3>3. tokens'[w].user = sreq[r].user
          /\ \A t \in TokenIds : t # w => tokens'[t] = tokens[t]
      BY <2>3 DEF Opened, Reissued, NewToken
    <3> QED BY <3>1, <3>2, <3>3
  <2> QED BY <2>1, <2>2, <2>3, TableSteps
<1>2. ASSUME NEW r \in SessionRequests PROVE sreq'[r].user # u
  <2>1. sreq[r].user # u /\ ~Active(u) /\ None # u
    BY AccountAssumption DEF ShutOut, Active
  <2> QED BY <2>1, RequestMoves DEF IdleSession
<1> QED BY <1>0, <1>1, <1>2 DEF ShutOut

\* While a user is deactivated no request issues a token for that user.
THEOREM NoTokensWhenShutOut == Spec => ShutOutUsersGetNoTokens
<1> DEFINE Quiet ==
      \A u \in UserIds : ShutOut(u) =>
        /\ {t \in TokenIds : tokens'[t].user = u} = {t \in TokenIds : tokens[t].user = u}
        /\ users'[u].status = "INACTIVE" => ShutOut(u)'
<1>1. ASSUME Inv, SessionStep PROVE Quiet
  BY <1>1, ShutOutStep
<1>2. ASSUME Inv, AccountStep, UNCHANGED sessionVars PROVE Quiet
  BY <1>2, AccountStepMembers DEF Inv, sessionVars, ShutOut, MembersStep, Member
<1>3. ASSUME UNCHANGED vars PROVE Quiet
  BY <1>3 DEF vars, ShutOut
<1>4. Inv /\ [Next]_vars => [Quiet]_vars
  BY <1>1, <1>2 DEF Next
<1> QED BY <1>4, Invariance, PTL DEF Spec, ShutOutUsersGetNoTokens

-----------------------------------------------------------------------------
(* A logout in a session without forks *)

IssuedTokens == {t \in TokenIds : tokens[t].issued}
FinitelyIssued == IsFiniteSet(IssuedTokens)

\* At any time only finitely many tokens have been issued.
LEMMA IssuedFinite == Inv /\ FinitelyIssued /\ [Next]_vars => FinitelyIssued'
<1> SUFFICES ASSUME Inv, [Next]_vars, IsFiniteSet(IssuedTokens)
             PROVE IsFiniteSet(IssuedTokens')
  BY DEF FinitelyIssued
<1> USE DEF Inv, SessionTypeOK
<1>1. ASSUME IssuedTokens' = IssuedTokens PROVE IsFiniteSet(IssuedTokens')
  BY <1>1
<1>2. ASSUME NEW t \in TokenIds, Marked(t) PROVE IssuedTokens' = IssuedTokens
  BY <1>2 DEF Marked, IssuedTokens
<1>3. ASSUME NEW r \in SessionRequests, NEW t \in TokenIds,
             Opened(r, t) \/ Reissued(r, t)
      PROVE IsFiniteSet(IssuedTokens')
  <2>1. IssuedTokens' = IssuedTokens \cup {t}
    BY <1>3 DEF Opened, Reissued, NewToken, IssuedTokens
  <2> QED BY <2>1, FS_AddElement
<1>4. ASSUME UNCHANGED tokens PROVE IssuedTokens' = IssuedTokens
  BY <1>4 DEF IssuedTokens
<1> QED BY <1>1, <1>2, <1>3, <1>4, TableSteps DEF Next, vars, sessionVars, Unissued

\* Counting: every token but the first has a parent of its own, and no usable token
\* is a parent, so that a session without forks has one usable token at most.
LEMMA OneUsableToken ==
  ASSUME Inv, IsFiniteSet(IssuedTokens), NEW s \in TokenIds, Unforked(s),
         NEW t \in Chain(s), NEW w \in Chain(s), Usable(t), Usable(w)
  PROVE  t = w
<1> SUFFICES ASSUME t # w PROVE FALSE
  OBVIOUS
<1> USE DEF Inv, SessionTypeOK, SessionInv
<1> DEFINE parent == [x \in Chain(s) |-> tokens[x].parent]
           Spent == (Chain(s) \ {t}) \ {w}
<1>1. IsFiniteSet(Chain(s))
  <2>1. Chain(s) \subseteq IssuedTokens
    BY DEF Chain, IssuedTokens
  <2> QED BY <2>1, FS_Subset
<1>2. /\ IsFiniteSet(Chain(s) \ {t}) /\ Cardinality(Chain(s) \ {t}) = Cardinality(Chain(s)) - 1
      /\ Cardinality(Chain(s)) \in Nat
  BY <1>1, FS_RemoveElement, FS_CardinalityType
<1>3. /\ IsFiniteSet(Spent) /\ Cardinality(Spent) = Cardinality(Chain(s)) - 2
  <2>1. w \in Chain(s) \ {t}
    OBVIOUS
  <2>2. IsFiniteSet(Spent) /\ Cardinality(Spent) = Cardinality(Chain(s) \ {t}) - 1
    BY <1>2, <2>1, FS_RemoveElement
  <2> QED BY <1>2, <2>2
<1>4. /\ IsFiniteSet(Spent \cup {None})
      /\ Cardinality(Spent \cup {None}) = Cardinality(Chain(s)) - 1
  <2>1. None \notin Spent
    BY SessionAssumption DEF Chain
  <2>2. /\ IsFiniteSet(Spent \cup {None})
        /\ Cardinality(Spent \cup {None}) = Cardinality(Spent) + 1
    BY <1>3, <2>1, FS_AddElement
  <2> QED BY <1>2, <1>3, <2>2
<1>5. \A x \in Chain(s) : tokens[x].parent \in Spent \cup {None}
  <2> SUFFICES ASSUME NEW x \in Chain(s), tokens[x].parent # None
               PROVE tokens[x].parent \in Spent
    OBVIOUS
  <2>1. /\ tokens[x].parent \in TokenIds
        /\ tokens[tokens[x].parent].issued /\ tokens[tokens[x].parent].revoked
        /\ tokens[tokens[x].parent].session = s
    BY DEF Chain, TokenSound
  <2> QED BY <2>1 DEF Chain, Usable
<1>6. parent \in Injection(Chain(s), Spent \cup {None})
  BY <1>5 DEF Unforked, Injection, IsInjective
<1> HIDE DEF parent, Spent
<1>7. Cardinality(Chain(s)) <= Cardinality(Spent \cup {None})
  BY <1>4, <1>6, FS_Injection
<1> QED BY <1>2, <1>4, <1>7

\* A logout revokes the last usable token of a session that nobody has forked and
\* nobody is refreshing.
THEOREM LogoutCloses == Spec => LogoutClosesQuietSession
<1> DEFINE Closes ==
      \A t \in TokenIds :
        LET s == tokens[t].session
        IN Usable(t) /\ tokens'[t].revoked /\ sreq' = sreq
             /\ Unforked(s) /\ RefreshingOn(s) = {} => Closed(s)'
<1> USE DEF Inv, SessionTypeOK, SessionInv
<1>1. ASSUME Inv, FinitelyIssued, SessionStep PROVE Closes
  <2>0. \A t \in TokenIds : Usable(t) => tokens'[t].session = tokens[t].session
    BY <1>1, StepTokens DEF TokensGrow, Usable
  <2> SUFFICES ASSUME NEW t \in TokenIds, NEW s, s = tokens[t].session, Usable(t),
                      tokens'[t].revoked, sreq' = sreq, Unforked(s), RefreshingOn(s) = {}
               PROVE Closed(s)'
    BY <2>0 DEF Closed, Chain, RefreshingOn
  <2>1. s \in TokenIds /\ t \in Chain(s)
    BY <1>1 DEF Usable, Chain, TokenSound
  <2>2. PICK w \in TokenIds : Logout(w) \/ ExpireToken(w) \/ UNCHANGED tokens
    <3>1. ASSUME NEW r \in SessionRequests, NEW x \in TokenIds,
                 OpenSession(r, x) \/ Reissue(r, x) \/ RevokeUsed(r)
          PROVE FALSE
      <4>1. sreq'[r].at # sreq[r].at
        BY <1>1, <3>1 DEF OpenSession, Reissue, RevokeUsed, GoSession, FinishSession,
                          IdleSession
      <4> QED BY <4>1
    <3> QED BY <1>1, <2>1, <3>1
            DEF SessionStep, BeginLogin, BeginRefresh, FailSession
  <2>3. ~tokens[t].revoked /\ tokens' # tokens
    BY DEF Usable
  <2>4. Logout(w) /\ w = t
    <3>1. ~ExpireToken(w)
      BY <1>1, <2>3 DEF ExpireToken
    <3> QED BY <1>1, <2>2, <2>3, <3>1 DEF Logout
  <2>5. /\ tokens'[t] = Revoked(tokens[t])
        /\ \A x \in TokenIds : x # t => tokens'[x] = tokens[x]
    BY <1>1, <2>4 DEF Logout
  <2>6. Chain(s)' = Chain(s)
    BY <2>5 DEF Chain, Revoked
  <2>7. \A x \in Chain(s) : ~Usable(x)'
    <3>1. ~Usable(t)'
      BY <2>5 DEF Usable, Revoked
    <3>2. \A x \in Chain(s) : x # t => ~Usable(x) /\ tokens'[x] = tokens[x]
      BY <1>1, <2>1, <2>5, OneUsableToken DEF Chain, FinitelyIssued
    <3> QED BY <3>1, <3>2 DEF Usable
  <2>8. RefreshingOn(s)' = {}
    BY <2>6 DEF RefreshingOn
  <2> QED BY <2>1, <2>6, <2>7, <2>8 DEF Closed
<1>2. ASSUME UNCHANGED tokens PROVE Closes
  BY <1>2 DEF Usable
<1>3. Inv /\ FinitelyIssued /\ [Next]_vars => [Closes]_vars
  BY <1>1, <1>2 DEF Next, sessionVars
<1>4. Init => FinitelyIssued
  <2>1. Init => IssuedTokens = {}
    BY DEF Init, IssuedTokens, NoToken
  <2> QED BY <2>1, FS_EmptySet DEF FinitelyIssued
<1> QED BY <1>3, <1>4, IssuedFinite, Invariance, PTL
        DEF Spec, LogoutClosesQuietSession
=============================================================================
