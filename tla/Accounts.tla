------------------------------ MODULE Accounts ------------------------------
(***************************************************************************)
(* User accounts and the links that are mailed to them: registration,      *)
(* creation by an administrator, password reset and email verification     *)
(* (auth.service.ts, email-verification.service.ts, users.service.ts).     *)
(*                                                                         *)
(* The tables of PasswordResetToken and EmailVerificationToken have one    *)
(* shape and one life cycle: an issue deletes the user's links and creates *)
(* one, a redemption reads a link and later, in one transaction, writes    *)
(* the user and marks the link used.  Here they are one table with a kind. *)
(*                                                                         *)
(* A transaction of [deleteMany, create] runs at READ COMMITTED: the rows  *)
(* it deletes are those it sees at its first statement, and rows that      *)
(* another transaction inserts before it commits survive.                  *)
(***************************************************************************)
EXTENDS Naturals, FiniteSets

CONSTANTS
  UserIds,          \* primary keys of User
  Mails,            \* the addresses that one user may have in turn; those of
                    \* different users differ, for the column is unique
  Passwords,
  LinkIds,          \* primary keys of the two link tables
  AccountRequests,  \* requests of this module that may be in flight together
  None,
  Faults            \* TRUE: a database call of a request may reject

Kinds == {"reset", "verify"}
UserStatuses == {"ACTIVE", "INACTIVE"}

ASSUME AccountAssumption ==
  /\ None \notin UserIds /\ None \notin LinkIds /\ None \notin Passwords
  /\ None \notin Mails
  /\ Passwords # {} /\ Mails # {}
  /\ IsFiniteSet(AccountRequests)
  /\ Faults \in BOOLEAN

VARIABLES
  users,  \* the User table
  links,  \* the two link tables; of a deleted row the expiry is forgotten
  creq    \* local state of each request

accountVars == <<users, links, creq>>

\* edited is of the model only: an administrator has changed the address.
UserRow == [exists : BOOLEAN, status : UserStatuses, verified : BOOLEAN,
            password : Passwords \cup {None}, mail : Mails \cup {None},
            edited : BOOLEAN]
NoUser == [exists |-> FALSE, status |-> "ACTIVE", verified |-> FALSE,
           password |-> None, mail |-> None, edited |-> FALSE]
\* Mutant: an account starts with a status that the enum does not have.
NewUser_Pending(p, m) ==
  [NoUser EXCEPT !.exists = TRUE, !.status = "PENDING", !.mail = m]
NewUser(p, m) == [exists |-> TRUE, status |-> "ACTIVE", verified |-> FALSE,
                  password |-> p, mail |-> m, edited |-> FALSE]

\* mail is the address the link was sent to; no column holds it.
LinkRow == [life : {"unborn", "live", "deleted"}, kind : Kinds,
            user : UserIds \cup {None}, mail : Mails \cup {None},
            used : BOOLEAN, expired : BOOLEAN]
NoLink == [life |-> "unborn", kind |-> "reset", user |-> None, mail |-> None,
           used |-> FALSE, expired |-> FALSE]
NewLink(kind, u, m) == [life |-> "live", kind |-> kind, user |-> u, mail |-> m,
                        used |-> FALSE, expired |-> FALSE]

\* Local state of a request: the user it works for and the address it has read
\* or is given, what it issues (kind, victims: the rows its deleteMany has seen)
\* or redeems (link, password).
AccountRequest ==
  [at : {"idle", "register", "clear", "put", "redeem"},
   user : UserIds \cup {None}, mail : Mails \cup {None}, kind : Kinds,
   victims : SUBSET LinkIds, link : LinkIds \cup {None},
   password : Passwords \cup {None}]
Account(at, u, kind, password, mail) ==
  [at |-> at, user |-> u, mail |-> mail, kind |-> kind, victims |-> {},
   link |-> None, password |-> password]
IdleAccount == Account("idle", None, "reset", None, None)

Member(u) == users[u].exists
Active(u) == users[u].exists /\ users[u].status = "ACTIVE"
LiveLink(l) == links[l].life = "live"
LinksOf(u, kind) == {l \in LinkIds : LiveLink(l) /\ links[l].user = u
                                                  /\ links[l].kind = kind}

AccountTypeOK ==
  /\ users \in [UserIds -> UserRow]
  /\ links \in [LinkIds -> LinkRow]
  /\ creq \in [AccountRequests -> AccountRequest]

AccountInit ==
  /\ users = [u \in UserIds |-> NoUser]
  /\ links = [l \in LinkIds |-> NoLink]
  /\ creq = [r \in AccountRequests |-> IdleAccount]

-----------------------------------------------------------------------------
(* Registration and creation *)

GoAccount(r, state) == creq' = [creq EXCEPT ![r] = state]
FinishAccount(r) == GoAccount(r, IdleAccount)

\* Mutant: public registration does not count the users.
BeginRegister_Always(r, u, p, m) ==
  /\ creq[r].at = "idle"
  /\ GoAccount(r, Account("register", u, "verify", p, m))
  /\ UNCHANGED <<users, links>>

\* register, until the password is hashed: nobody may be registered yet.
BeginRegister(r, u, p, m) ==
  /\ creq[r].at = "idle"
  /\ \A v \in UserIds : ~Member(v)
  /\ GoAccount(r, Account("register", u, "verify", p, m))
  /\ UNCHANGED <<users, links>>

\* The insert, which the unique email refuses when the user exists by now; the
\* verification link is issued next.
Register(r) ==
  LET u == creq[r].user
  IN /\ creq[r].at = "register"
     /\ IF Member(u)
        THEN UNCHANGED users /\ FinishAccount(r)
        ELSE /\ users' = [users EXCEPT ![u] =
                             NewUser(creq[r].password, creq[r].mail)]
             /\ GoAccount(r, Account("clear", u, "verify", None, creq[r].mail))
     /\ UNCHANGED links

\* UsersService.create on behalf of an administrator.  Its email check adds
\* nothing to the unique constraint.
CreateUser(r, u, p, m) ==
  /\ creq[r].at = "idle"
  /\ \E v \in UserIds : Member(v)
  /\ ~Member(u)
  /\ users' = [users EXCEPT ![u] = NewUser(p, m)]
  /\ GoAccount(r, Account("clear", u, "verify", None, m))
  /\ UNCHANGED links

-----------------------------------------------------------------------------
(* Links *)

BeginForgotPassword(r, u) ==
  /\ creq[r].at = "idle" /\ Active(u)
  /\ GoAccount(r, Account("clear", u, "reset", None, users[u].mail))
  /\ UNCHANGED <<users, links>>

BeginResendVerification(r, u) ==
  /\ creq[r].at = "idle" /\ Active(u) /\ ~users[u].verified
  /\ GoAccount(r, Account("clear", u, "verify", None, users[u].mail))
  /\ UNCHANGED <<users, links>>

\* Mutant: only the links that were used are deleted.
ClearLinks_UsedOnly(r) ==
  LET q == creq[r]
  IN /\ q.at = "clear"
     /\ GoAccount(r, [Account("put", q.user, q.kind, None, q.mail) EXCEPT
                        !.victims = {l \in LinksOf(q.user, q.kind) : links[l].used}])
     /\ UNCHANGED <<users, links>>

\* deleteMany of the issuing transaction.
ClearLinks(r) ==
  LET q == creq[r]
  IN /\ q.at = "clear"
     /\ GoAccount(r, [at |-> "put", user |-> q.user, mail |-> q.mail,
                      kind |-> q.kind, victims |-> LinksOf(q.user, q.kind),
                      link |-> None, password |-> None])
     /\ UNCHANGED <<users, links>>

\* create, and the commit.
PutLink(r, l) ==
  LET q == creq[r]
  IN /\ q.at = "put"
     /\ links[l].life = "unborn"
     /\ links' = [k \in LinkIds |->
                    IF k = l THEN NewLink(q.kind, q.user, q.mail)
                    ELSE IF k \in q.victims
                    THEN [life |-> "deleted", kind |-> links[k].kind,
                          user |-> links[k].user, mail |-> links[k].mail,
                          used |-> links[k].used, expired |-> FALSE]
                    ELSE links[k]]
     /\ FinishAccount(r)
     /\ UNCHANGED users

Redeemable(l) == LiveLink(l) /\ ~links[l].used /\ ~links[l].expired

\* resetPassword and verify: find the link; the password is then hashed.
BeginRedeem(r, l, p) ==
  /\ creq[r].at = "idle" /\ Redeemable(l)
  /\ GoAccount(r, [at |-> "redeem", user |-> links[l].user, mail |-> None,
                   kind |-> links[l].kind, victims |-> {}, link |-> l,
                   password |-> IF links[l].kind = "reset" THEN p ELSE None])
  /\ UNCHANGED <<users, links>>

\* Mutants: a redemption of either kind verifies the email; a link that is gone
\* does not roll the transaction back.
Redeemed_AnyKind(row, q) == [row EXCEPT !.verified = TRUE]
Redeemed(row, q) ==
  [exists |-> row.exists, status |-> row.status,
   verified |-> row.verified \/ q.kind = "verify",
   password |-> IF q.kind = "reset" THEN q.password ELSE row.password,
   mail |-> row.mail, edited |-> row.edited]
Redeem_Always(r) ==
  /\ creq[r].at = "redeem"
  /\ users' = [users EXCEPT ![creq[r].user] = Redeemed(@, creq[r])]
  /\ links' = [links EXCEPT ![creq[r].link].used = TRUE]
  /\ FinishAccount(r)

\* The transaction of the redemption: both rows by id, and a link that is gone
\* rolls both back.  usedAt is not looked at again.
Redeem(r) ==
  LET q == creq[r]
      l == links[q.link]
  IN /\ q.at = "redeem"
     /\ IF LiveLink(q.link)
        THEN /\ users' = [users EXCEPT ![q.user] = Redeemed(@, q)]
             /\ links' = [links EXCEPT ![q.link] =
                            [life |-> l.life, kind |-> l.kind, user |-> l.user,
                             mail |-> l.mail, used |-> TRUE, expired |-> l.expired]]
        ELSE UNCHANGED <<users, links>>
     /\ FinishAccount(r)

\* The pending database call rejects; a transaction under way is rolled back.
FailAccount(r) ==
  /\ Faults
  /\ creq[r].at # "idle"
  /\ FinishAccount(r)
  /\ UNCHANGED <<users, links>>

\* 30 minutes for a reset, 24 hours for a verification.
ExpireLink(l) ==
  /\ LiveLink(l) /\ ~links[l].expired
  /\ links' = [links EXCEPT ![l] =
                 [life |-> @.life, kind |-> @.kind, user |-> @.user,
                  mail |-> @.mail, used |-> @.used, expired |-> TRUE]]
  /\ UNCHANGED <<users, creq>>

\* UsersService.update and deactivate, as far as they matter to an account: one
\* update statement on a row that is never deleted.  A new address is stored as
\* it is, emailVerifiedAt stays, and no link is sent to it.
EditUser(u, status, p, m) ==
  /\ Member(u)
  /\ users' = [users EXCEPT ![u] =
                 [exists |-> TRUE, status |-> status, verified |-> @.verified,
                  password |-> p, mail |-> m,
                  edited |-> @.edited \/ m # @.mail]]
  /\ UNCHANGED <<links, creq>>

AccountStep ==
  \/ \E r \in AccountRequests, u \in UserIds :
        \/ \E p \in Passwords, m \in Mails :
              BeginRegister(r, u, p, m) \/ CreateUser(r, u, p, m)
        \/ BeginForgotPassword(r, u)
        \/ BeginResendVerification(r, u)
  \/ \E r \in AccountRequests, l \in LinkIds :
        \/ \E p \in Passwords : BeginRedeem(r, l, p)
        \/ PutLink(r, l)
  \/ \E r \in AccountRequests :
        Register(r) \/ ClearLinks(r) \/ Redeem(r) \/ FailAccount(r)
  \/ \E l \in LinkIds : ExpireLink(l)
  \/ \E u \in UserIds, status \in UserStatuses, p \in Passwords, m \in Mails :
        EditUser(u, status, p, m)

AccountSpec == AccountInit /\ [][AccountStep]_accountVars

-----------------------------------------------------------------------------
(* Properties *)

\* Public registration is over: somebody is registered and no registration that
\* counted the users before that is still under way.
RegistrationClosed ==
  /\ \E u \in UserIds : Member(u)
  /\ \A r \in AccountRequests : creq[r].at # "register"

\* Once over, public registration never opens again: "Registration locks after
\* the initial account is created", apart from registrations that overlap the
\* first one.
RegistrationStaysClosed == [][RegistrationClosed => RegistrationClosed']_accountVars

\* The email of a user who was created through the API counts as verified only if
\* a verification link that was issued for that user was used, whatever other
\* links, edits and deletions happened.
VerifiedByLink ==
  \A u \in UserIds : users[u].verified =>
    \E l \in LinkIds : links[l].kind = "verify" /\ links[l].user = u /\ links[l].used

\* A redemption has an effect only while its link is still in the table: a newer
\* link, issued between its read and its transaction, takes the old one's power.
ReplacedLinksAreDead ==
  [][\A r \in AccountRequests :
       creq[r].at = "redeem" /\ creq'[r] # creq[r] /\ users' # users =>
         LiveLink(creq[r].link) /\ links'[creq[r].link].used]_accountVars

\* A user has no more links of one kind than there are requests that can overlap:
\* one when requests are served one by one, and overlapping issues, which do not
\* see each other's rows, leave at most one each.
NoMoreLinksThanRequests ==
  \A u \in UserIds, kind \in Kinds :
    Cardinality(LinksOf(u, kind)) <= Cardinality(AccountRequests)
=============================================================================
