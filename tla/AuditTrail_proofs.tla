-------------------------- MODULE AuditTrail_proofs --------------------------
(***************************************************************************)
(* Access, menu and audit trail, for any users, roles, calls and tokens.   *)
(***************************************************************************)
EXTENDS AuditTrail, TLAPS

\* The last tick at which a user had a role is known for the role of today, for the
\* one that a login or renewal has read, and for the one that the token claims,
\* which was the user's when it was read.
HeldSound ==
  /\ held \in [Staff -> [Ranks -> Nat \cup {None}]]
  /\ \A u \in Staff : held[u][member[u].role] = clock
  /\ \A u \in Staff : \A r \in Ranks : held[u][r] # None => held[u][r] <= clock
  /\ \A u \in Staff : token[u] # None =>
       LET h == held[u][token[u].claims.role] IN h # None /\ token[u].issued <= h + token[u].slow
  /\ \A a \in AuthRequests : auths[a] # None =>
       LET h == held[auths[a].user][auths[a].claims.role] IN h # None /\ auths[a].began <= h
\* A call was admitted to a role that its user had had less than the life of a
\* token before, not counting the time its login took; a record is kept of a watched call that is over.
CallSound(c) ==
  /\ calls[c] # None =>
       LET h == held[calls[c].user][calls[c].claims.role] IN
       /\ h # None /\ calls[c].when < h + calls[c].slow + Life
       /\ calls[c].claims.role \in RequiredRoles(calls[c].resource)[calls[c].method]
       /\ calls[c].at = "recording" \/ c \in recorded => Watched(calls[c])
       /\ c \in recorded \cup lost => calls[c].at = "over"
  /\ c \in recorded => calls[c] # None /\ c \notin lost
  /\ c \in lost => calls[c] # None
AuditInv == AuditTypeOK /\ HeldSound /\ \A c \in ApiCalls : CallSound(c)

LEMMA InitAudit == AuditInit => AuditInv
<1> SUFFICES ASSUME AuditInit PROVE AuditInv
  OBVIOUS
<1>1. AuditTypeOK
  BY AuditAssumption DEF AuditInit, AuditTypeOK
<1>2. HeldSound
  BY AuditAssumption DEF AuditInit, HeldSound, Claims
<1>3. \A c \in ApiCalls : CallSound(c)
  BY DEF AuditInit, CallSound
<1> QED BY <1>1, <1>2, <1>3 DEF AuditInv

\* What a step never does: forget that a user had a role, or change who made a
\* call, with which claims and to which resource.
HeldGrows == \A u \in Staff, r \in Ranks : held[u][r] # None =>
  held'[u][r] # None /\ held[u][r] <= held'[u][r]

\* A step of users and tokens keeps what is known of calls.
LEMMA UserStepsKeepCalls ==
  ASSUME AuditInv, HeldGrows, held' \in [Staff -> [Ranks -> Nat \cup {None}]],
         calls' = calls, recorded' = recorded, lost' = lost
  PROVE  \A c \in ApiCalls : CallSound(c)'
<1> SUFFICES ASSUME NEW c \in ApiCalls PROVE CallSound(c)'
  OBVIOUS
<1>1. CallSound(c)
  BY DEF AuditInv
<1>2. calls[c] # None => /\ calls[c].user \in Staff /\ calls[c].claims.role \in Ranks
                         /\ calls[c].when \in Nat /\ calls[c].slow \in Nat
  BY AuditAssumption DEF AuditInv, AuditTypeOK, CallRow, Claims
<1>3. calls[c] # None =>
        LET h == held'[calls[c].user][calls[c].claims.role] IN
        h # None /\ calls[c].when < h + calls[c].slow + Life
  <2> SUFFICES ASSUME calls[c] # None
               PROVE  LET h == held'[calls[c].user][calls[c].claims.role] IN
                      h # None /\ calls[c].when < h + calls[c].slow + Life
    OBVIOUS
  <2> DEFINE h == held[calls[c].user][calls[c].claims.role]
             k == held'[calls[c].user][calls[c].claims.role]
  <2>1. h # None /\ calls[c].when < h + calls[c].slow + Life
    BY <1>1 DEF CallSound
  <2>2. k # None /\ h <= k
    BY <1>2, <2>1 DEF HeldGrows
  <2>3. /\ h \in Nat /\ k \in Nat /\ Life \in Nat
        /\ calls[c].when \in Nat /\ calls[c].slow \in Nat
    BY <1>2, <2>1, <2>2, AuditAssumption DEF AuditInv, HeldSound
  <2> HIDE DEF h, k
  <2>4. calls[c].when < k + calls[c].slow + Life
    BY <2>1, <2>2, <2>3
  <2> QED BY <2>2, <2>4 DEF k
<1> QED BY <1>1, <1>3 DEF CallSound, Watched

\* Nor does it lose what is known of tokens, logins and renewals that it leaves alone.
LEMMA UserStepsKeepTokens ==
  ASSUME AuditInv, HeldGrows, held' \in [Staff -> [Ranks -> Nat \cup {None}]],
         token' = token, auths' = auths
  PROVE  /\ \A u \in Staff : token'[u] # None =>
              LET h == held'[u][token'[u].claims.role] IN
              h # None /\ token'[u].issued <= h + token'[u].slow
         /\ \A a \in AuthRequests : auths'[a] # None =>
              LET h == held'[auths'[a].user][auths'[a].claims.role] IN
              h # None /\ auths'[a].began <= h
<1>1. ASSUME NEW u \in Staff, token[u] # None
      PROVE  LET h == held'[u][token[u].claims.role] IN
             h # None /\ token[u].issued <= h + token[u].slow
  <2> DEFINE r == token[u].claims.role
             h == held[u][r]
             k == held'[u][r]
  <2>1. r \in Ranks /\ token[u].issued \in Nat /\ token[u].slow \in Nat
    BY <1>1, AuditAssumption DEF AuditInv, AuditTypeOK, Tokens, Claims
  <2>2. h # None /\ token[u].issued <= h + token[u].slow /\ h \in Nat
    BY <1>1, <2>1 DEF AuditInv, HeldSound
  <2>3. k # None /\ h <= k /\ k \in Nat
    BY <2>1, <2>2 DEF HeldGrows
  <2> HIDE DEF h, k
  <2>4. token[u].issued <= k + token[u].slow
    BY <2>1, <2>2, <2>3
  <2> QED BY <2>3, <2>4 DEF k
<1>2. ASSUME NEW a \in AuthRequests, auths[a] # None
      PROVE  LET h == held'[auths[a].user][auths[a].claims.role] IN
             h # None /\ auths[a].began <= h
  <2> DEFINE u == auths[a].user
             r == auths[a].claims.role
             h == held[u][r]
             k == held'[u][r]
  <2>1. u \in Staff /\ r \in Ranks /\ auths[a].began \in Nat
    BY <1>2, AuditAssumption DEF AuditInv, AuditTypeOK, AuthRow, Claims
  <2>2. h # None /\ auths[a].began <= h /\ h \in Nat
    BY <1>2, <2>1 DEF AuditInv, HeldSound
  <2>3. k # None /\ h <= k /\ k \in Nat
    BY <2>1, <2>2 DEF HeldGrows
  <2> HIDE DEF h, k
  <2>4. auths[a].began <= k
    BY <2>1, <2>2, <2>3
  <2> QED BY <2>3, <2>4 DEF k
<1> QED BY <1>1, <1>2

\* A step of calls keeps what is known of users, tokens and roles.
LEMMA CallStepsKeepUsers ==
  ASSUME AuditInv, Rest
  PROVE  HeldSound'
  BY DEF AuditInv, HeldSound, Rest

LEMMA AssignStep ==
  ASSUME AuditInv, NEW u \in Staff, NEW claims \in Claims, Assign(u, claims)
  PROVE  AuditInv'
<1>1. /\ member' = [member EXCEPT ![u] = claims] /\ calls' = calls
      /\ recorded' = recorded /\ lost' = lost /\ clock' = clock /\ token' = token
      /\ menu' = menu /\ auths' = auths
  BY DEF Assign
<1>2. claims.role \in Ranks /\ member[u].role \in Ranks /\ clock \in Nat
  BY AuditAssumption DEF AuditInv, AuditTypeOK, Claims
<1>3. /\ held' \in [Staff -> [Ranks -> Nat \cup {None}]]
      /\ \A v \in Staff, r \in Ranks :
           held'[v][r] = IF v = u /\ r \in {claims.role, member[u].role} THEN clock
                         ELSE held[v][r]
  BY <1>2 DEF Assign, AuditInv, HeldSound
<1>4. AuditTypeOK'
  BY <1>1 DEF AuditInv, AuditTypeOK
<1>5. HeldGrows
  <2> SUFFICES ASSUME NEW v \in Staff, NEW r \in Ranks, held[v][r] # None
               PROVE  held'[v][r] # None /\ held[v][r] <= held'[v][r]
    BY DEF HeldGrows
  <2>1. held[v][r] \in Nat /\ held[v][r] <= clock
    BY DEF AuditInv, HeldSound
  <2>2. held'[v][r] \in {held[v][r], clock}
    BY <1>3
  <2> QED BY <1>2, <2>1, <2>2, AuditAssumption
<1>6. HeldSound'
  <2>1. \A v \in Staff : held'[v][member'[v].role] = clock'
    BY <1>1, <1>2, <1>3 DEF AuditInv, HeldSound, AuditTypeOK, Claims
  <2>2. \A v \in Staff : \A r \in Ranks : held'[v][r] # None => held'[v][r] <= clock'
    BY <1>1, <1>2, <1>3 DEF AuditInv, HeldSound
  <2> QED BY <1>1, <1>3, <1>5, <2>1, <2>2, UserStepsKeepTokens DEF HeldSound
<1> QED BY <1>1, <1>3, <1>4, <1>5, <1>6, UserStepsKeepCalls DEF AuditInv

LEMMA TickStep ==
  ASSUME AuditInv, Tick
  PROVE  AuditInv'
<1>1. /\ clock' = clock + 1 /\ clock' \in 0 .. LastTick /\ clock \in Nat
      /\ member' = member /\ calls' = calls /\ menu' = menu
      /\ recorded' = recorded /\ lost' = lost /\ token' = token /\ auths' = auths
  BY AuditAssumption DEF Tick, AuditInv, AuditTypeOK
<1>2. \A v \in Staff : member[v].role \in Ranks
  BY DEF AuditInv, AuditTypeOK, Claims
<1>3. /\ held' \in [Staff -> [Ranks -> Nat \cup {None}]]
      /\ \A v \in Staff, r \in Ranks :
           held'[v][r] = IF r = member[v].role THEN clock + 1 ELSE held[v][r]
  BY <1>1, <1>2 DEF Tick, AuditInv, HeldSound
<1>4. AuditTypeOK'
  BY <1>1 DEF AuditInv, AuditTypeOK
<1>5. HeldGrows
  <2> SUFFICES ASSUME NEW v \in Staff, NEW r \in Ranks, held[v][r] # None
               PROVE  held'[v][r] # None /\ held[v][r] <= held'[v][r]
    BY DEF HeldGrows
  <2>1. held[v][r] \in Nat /\ held[v][r] <= clock
    BY DEF AuditInv, HeldSound
  <2>2. held'[v][r] \in {held[v][r], clock + 1}
    BY <1>3
  <2> QED BY <1>1, <2>1, <2>2, AuditAssumption
<1>6. HeldSound'
  <2>1. \A v \in Staff : held'[v][member'[v].role] = clock'
    BY <1>1, <1>2, <1>3
  <2>2. \A v \in Staff : \A r \in Ranks : held'[v][r] # None => held'[v][r] <= clock'
    BY <1>1, <1>2, <1>3 DEF AuditInv, HeldSound
  <2> QED BY <1>1, <1>3, <1>5, <2>1, <2>2, UserStepsKeepTokens DEF HeldSound
<1> QED BY <1>1, <1>3, <1>4, <1>5, <1>6, UserStepsKeepCalls DEF AuditInv

LEMMA ReadStep ==
  ASSUME AuditInv, NEW a \in AuthRequests, NEW u \in Staff,
         BeginSignIn(a, u) \/ BeginRenewal(a, u)
  PROVE  AuditInv'
<1>0. PICK login \in BOOLEAN : ReadUser(a, u, member[u], login)
  BY DEF BeginSignIn, BeginRenewal
<1> DEFINE new == [user |-> u, claims |-> member[u], login |-> login, began |-> clock,
                   at |-> "read"]
<1>1. /\ auths' = [auths EXCEPT ![a] = new] /\ member' = member /\ clock' = clock
      /\ token' = token /\ menu' = menu
      /\ calls' = calls /\ recorded' = recorded /\ lost' = lost /\ held' = held
  BY <1>0 DEF ReadUser
<1>2. new \in AuthRow /\ clock \in Nat
  BY AuditAssumption DEF AuditInv, AuditTypeOK, AuthRow
<1>3. AuditTypeOK'
  BY <1>1, <1>2 DEF AuditInv, AuditTypeOK
<1>4. held[u][new.claims.role] = clock /\ clock # None
  BY <1>2, AuditAssumption DEF AuditInv, HeldSound
<1>5. HeldSound'
  <2>1. ASSUME NEW b \in AuthRequests, auths'[b] # None
        PROVE  LET h == held[auths'[b].user][auths'[b].claims.role] IN
               h # None /\ auths'[b].began <= h
    <3>1. CASE b = a
      BY <1>1, <1>2, <1>4, <3>1 DEF AuditInv, AuditTypeOK
    <3>2. CASE b # a
      BY <1>1, <2>1, <3>2 DEF AuditInv, AuditTypeOK, HeldSound
    <3> QED BY <3>1, <3>2
  <2> QED BY <1>1, <2>1 DEF AuditInv, HeldSound
<1>6. HeldGrows /\ held' \in [Staff -> [Ranks -> Nat \cup {None}]]
  BY <1>1 DEF HeldGrows, AuditInv, HeldSound
<1> QED BY <1>1, <1>3, <1>5, <1>6, UserStepsKeepCalls DEF AuditInv

LEMMA SignStep ==
  ASSUME AuditInv, NEW a \in AuthRequests, SignToken(a)
  PROVE  AuditInv'
<1> DEFINE q == auths[a]
           u == q.user
           new == [claims |-> q.claims, issued |-> clock, slow |-> clock - q.began]
           old == [q EXCEPT !.at = "signed"]
           h == held[u][q.claims.role]
<1>1. /\ token' = [token EXCEPT ![u] = new] /\ member' = member /\ clock' = clock
      /\ auths' = [auths EXCEPT ![a] = old] /\ q # None
      /\ menu' = IF q.login THEN [menu EXCEPT ![u] = q.claims.role] ELSE menu
      /\ calls' = calls /\ recorded' = recorded /\ lost' = lost /\ held' = held
  BY DEF SignToken
<1>2. q \in AuthRow
  BY <1>1 DEF AuditInv, AuditTypeOK
<1>3. /\ u \in Staff /\ q.claims \in Claims /\ q.claims.role \in Ranks
      /\ q.began \in Nat /\ clock \in Nat /\ clock \in 0 .. LastTick
      /\ LastTick \in Nat
  BY <1>2, AuditAssumption DEF AuthRow, Claims, AuditInv, AuditTypeOK
<1>4. h # None /\ q.began <= h /\ h \in Nat /\ h <= clock
  BY <1>1, <1>3 DEF AuditInv, HeldSound
<1> HIDE DEF h
<1>5. clock - q.began \in 0 .. LastTick /\ clock <= h + (clock - q.began)
  BY <1>3, <1>4
<1>6. new \in Tokens /\ old \in AuthRow
  BY <1>2, <1>3, <1>5 DEF Tokens, AuthRow
<1>7. AuditTypeOK'
  <2>1. menu' \in [Staff -> AllRoles \cup {None}]
    BY <1>1, <1>3, AuditAssumption DEF AuditInv, AuditTypeOK
  <2>2. /\ token' \in [Staff -> Tokens \cup {None}]
        /\ auths' \in [AuthRequests -> AuthRow \cup {None}]
    BY <1>1, <1>3, <1>6 DEF AuditInv, AuditTypeOK
  <2> QED BY <1>1, <2>1, <2>2 DEF AuditInv, AuditTypeOK
<1>8. HeldSound'
  <2>1. ASSUME NEW v \in Staff, token'[v] # None
        PROVE  LET k == held[v][token'[v].claims.role] IN
               k # None /\ token'[v].issued <= k + token'[v].slow
    <3>1. CASE v = u
      BY <1>1, <1>3, <1>4, <1>5, <3>1 DEF AuditInv, AuditTypeOK, h
    <3>2. CASE v # u
      BY <1>1, <2>1, <3>2 DEF AuditInv, AuditTypeOK, HeldSound
    <3> QED BY <3>1, <3>2
  <2>2. \A b \in AuthRequests : auths'[b] # None =>
          /\ auths[b] # None /\ auths'[b].user = auths[b].user
          /\ auths'[b].claims = auths[b].claims /\ auths'[b].began = auths[b].began
    BY <1>1, <1>2 DEF AuditInv, AuditTypeOK, AuthRow
  <2> QED BY <1>1, <2>1, <2>2 DEF AuditInv, HeldSound
<1>9. HeldGrows /\ held' \in [Staff -> [Ranks -> Nat \cup {None}]]
  BY <1>1 DEF HeldGrows, AuditInv, HeldSound
<1> QED BY <1>1, <1>7, <1>8, <1>9, UserStepsKeepCalls DEF AuditInv

LEMMA AdmitStep ==
  ASSUME AuditInv, NEW c \in ApiCalls, NEW u \in Staff, NEW use \in Used,
         Admit(c, u, use[1], use[2])
  PROVE  AuditInv'
<1> DEFINE t == token[u]
           new == [user |-> u, claims |-> t.claims, resource |-> use[1],
                   method |-> use[2], at |-> "running", when |-> clock, slow |-> t.slow]
<1>1. /\ calls[c] = None /\ Valid(t) /\ CanActivate(t.claims, use[1], use[2])
      /\ calls' = [calls EXCEPT ![c] = new] /\ Rest
      /\ recorded' = recorded /\ lost' = lost
  BY DEF Admit
<1>2. t \in Tokens /\ clock \in Nat /\ clock \in 0 .. LastTick
  BY <1>1, AuditAssumption DEF Valid, AuditInv, AuditTypeOK
<1>3. use[1] \in STRING /\ use[2] \in Methods
  BY AuditAssumption
<1>4. new \in CallRow
  BY <1>2, <1>3 DEF CallRow, Tokens
<1>5. AuditTypeOK'
  BY <1>1, <1>4 DEF AuditInv, AuditTypeOK, Rest
<1>6. HeldSound'
  BY <1>1, CallStepsKeepUsers
<1>7. LET h == held[u][t.claims.role] IN h # None /\ clock < h + t.slow + Life
  <2> DEFINE h == held[u][t.claims.role]
  <2>1. h # None /\ t.issued <= h + t.slow
    BY <1>1 DEF Valid, AuditInv, HeldSound
  <2>2. /\ h \in Nat /\ t.issued \in Nat /\ t.slow \in Nat /\ Life \in Nat
        /\ clock < t.issued + Life
    BY <1>1, <1>2, <2>1, AuditAssumption DEF Valid, Tokens, Claims, AuditInv, HeldSound
  <2> HIDE DEF h
  <2>3. clock < h + t.slow + Life
    BY <1>2, <2>1, <2>2
  <2> QED BY <2>1, <2>3 DEF h
<1>8. c \notin recorded /\ c \notin lost
  BY <1>1 DEF AuditInv, CallSound
<1> HIDE DEF new
<1>9. /\ calls'[c] = new /\ new.user = u /\ new.claims = t.claims
      /\ new.resource = use[1] /\ new.method = use[2] /\ new.at = "running"
      /\ new.when = clock /\ new.slow = t.slow
  BY <1>1 DEF AuditInv, AuditTypeOK, new
<1>10. CallSound(c)'
  BY <1>1, <1>7, <1>8, <1>9 DEF CallSound, CanActivate, Rest
<1>11. ASSUME NEW d \in ApiCalls, d # c PROVE CallSound(d)'
  <2>1. calls'[d] = calls[d]
    BY <1>1, <1>11 DEF AuditInv, AuditTypeOK
  <2> QED BY <1>1, <2>1 DEF AuditInv, CallSound, Watched, Rest
<1> QED BY <1>5, <1>6, <1>10, <1>11 DEF AuditInv

\* The calls of K go on, to "recording" only if they are watched.
LEMMA CallsGoOn ==
  ASSUME AuditInv, Rest, NEW K \in SUBSET ApiCalls,
         \A c \in K : calls[c] # None /\ calls[c].at # "over",
         NEW at \in {"committed", "recording", "over"},
         at = "recording" => \A c \in K : Watched(calls[c]),
         calls' = [c \in ApiCalls |-> IF c \in K THEN [calls[c] EXCEPT !.at = at] ELSE calls[c]],
         recorded' \in SUBSET ApiCalls, lost' \in SUBSET ApiCalls,
         recorded \subseteq recorded', recorded' \subseteq recorded \cup K,
         lost \subseteq lost', lost' \subseteq lost \cup K,
         recorded' = recorded \/ lost' = lost,
         recorded' # recorded \/ lost' # lost => at = "over",
         \A c \in recorded' \ recorded : Watched(calls[c])
  PROVE  AuditInv'
<1>1. \A c \in K : c \notin recorded /\ c \notin lost /\ calls[c] \in CallRow
  BY DEF AuditInv, CallSound, AuditTypeOK
<1>2. ASSUME NEW c \in K
      PROVE  /\ calls'[c] \in CallRow /\ calls'[c].at = at
             /\ calls'[c].user = calls[c].user /\ calls'[c].claims = calls[c].claims
             /\ calls'[c].resource = calls[c].resource /\ calls'[c].method = calls[c].method
             /\ calls'[c].when = calls[c].when /\ calls'[c].slow = calls[c].slow
  BY <1>1 DEF CallRow
<1>3. AuditTypeOK'
  BY <1>2 DEF AuditInv, AuditTypeOK, Rest
<1>4. HeldSound'
  BY CallStepsKeepUsers
<1>5. ASSUME NEW c \in ApiCalls, c \notin K PROVE CallSound(c)'
  <2>1. calls'[c] = calls[c] /\ (c \in recorded' <=> c \in recorded) /\ (c \in lost' <=> c \in lost)
    BY <1>5
  <2> QED BY <2>1 DEF AuditInv, CallSound, Watched, Rest
<1>6. ASSUME NEW c \in K PROVE CallSound(c)'
  <2>1. /\ calls'[c] # None /\ held' = held
        /\ calls'[c].at = "recording" \/ c \in recorded' => Watched(calls[c])
        /\ c \in recorded' \cup lost' => at = "over"
        /\ ~(c \in recorded' /\ c \in lost')
    BY <1>1, <1>2, AuditAssumption DEF Rest
  <2>2. Watched(calls[c]) => Watched(calls[c])'
    BY <1>2 DEF Watched
  <2> QED BY <1>2, <2>1, <2>2 DEF AuditInv, CallSound
<1> QED BY <1>3, <1>4, <1>5, <1>6 DEF AuditInv

LEMMA ProceedStep ==
  ASSUME AuditInv, NEW c \in ApiCalls, Proceed(c)
  PROVE  AuditInv'
<1>1. calls[c] # None /\ calls[c].at # "over" /\ Rest
  BY DEF Proceed, Commit, Answer, Throw, Record, RecordFails, StateOf, Set
<1>2. ASSUME NEW at, Set(c, at)
      PROVE  calls' = [d \in ApiCalls |-> IF d \in {c} THEN [calls[d] EXCEPT !.at = at]
                                         ELSE calls[d]]
  BY <1>2 DEF Set, AuditInv, AuditTypeOK
<1>3. CASE Commit(c)
  <2>1. Set(c, "committed") /\ recorded' = recorded /\ lost' = lost
    BY <1>3 DEF Commit
  <2>2. recorded \in SUBSET ApiCalls /\ lost \in SUBSET ApiCalls
    BY DEF AuditInv, AuditTypeOK
  <2> QED BY <1>1, <1>2, <2>1, <2>2, CallsGoOn
<1>4. CASE Answer(c)
  <2>1. PICK at \in {"recording", "over"} :
          Set(c, at) /\ (at = "recording" => Watched(calls[c]))
    BY <1>4 DEF Answer
  <2>2. recorded' = recorded /\ lost' = lost
    BY <1>4 DEF Answer
  <2>3. recorded \in SUBSET ApiCalls /\ lost \in SUBSET ApiCalls
    BY DEF AuditInv, AuditTypeOK
  <2>4. CASE Set(c, "recording") /\ Watched(calls[c])
    BY <1>1, <1>2, <2>2, <2>3, <2>4, CallsGoOn
  <2>5. CASE Set(c, "over")
    BY <1>1, <1>2, <2>2, <2>3, <2>5, CallsGoOn
  <2> QED BY <2>1, <2>4, <2>5
<1>5. CASE Throw(c)
  BY <1>1, <1>2, <1>5, CallsGoOn DEF Throw, AuditInv, AuditTypeOK
<1>6. CASE Record(c)
  <2>1. Watched(calls[c])
    BY <1>1, <1>6 DEF Record, StateOf, AuditInv, CallSound
  <2>2. Set(c, "over") /\ recorded' = recorded \cup {c} /\ lost' = lost
    BY <1>6 DEF Record
  <2>3. recorded \in SUBSET ApiCalls /\ lost \in SUBSET ApiCalls
    BY DEF AuditInv, AuditTypeOK
  <2> QED BY <1>1, <1>2, <2>1, <2>2, <2>3, CallsGoOn
<1>7. CASE RecordFails(c)
  <2>1. Set(c, "over") /\ lost' = lost \cup {c} /\ recorded' = recorded
    BY <1>7 DEF RecordFails
  <2>2. recorded \in SUBSET ApiCalls /\ lost \in SUBSET ApiCalls
    BY DEF AuditInv, AuditTypeOK
  <2> QED BY <1>1, <1>2, <2>1, <2>2, CallsGoOn
<1> QED BY <1>3, <1>4, <1>5, <1>6, <1>7 DEF Proceed

LEMMA CrashStep ==
  ASSUME AuditInv, Crash
  PROVE  AuditInv'
<1> DEFINE K == {c \in ApiCalls : StateOf(c) \in {"running", "committed", "recording"}}
<1>1. /\ calls' = [c \in ApiCalls |-> IF c \in K THEN [calls[c] EXCEPT !.at = "over"]
                                      ELSE calls[c]]
      /\ lost' = lost \cup {c \in K : StateOf(c) # "running"} /\ recorded' = recorded /\ Rest
  BY DEF Crash
<1>2. \A c \in K : calls[c] # None /\ calls[c].at # "over"
  BY DEF StateOf
<1> HIDE DEF K
<1>3. K \in SUBSET ApiCalls
  BY DEF K
<1> QED BY <1>1, <1>2, <1>3, CallsGoOn DEF AuditInv, AuditTypeOK

LEMMA NextKeepsAudit ==
  ASSUME AuditInv, [AuditNext]_auditVars
  PROVE  AuditInv'
<1>1. CASE UNCHANGED auditVars
  BY <1>1 DEF auditVars, AuditInv, AuditTypeOK, HeldSound, CallSound, Watched
<1>2. CASE AuditNext
  BY <1>2, ReadStep, SignStep, AssignStep, AdmitStep, ProceedStep, CrashStep, TickStep DEF AuditNext
<1> QED BY <1>1, <1>2

\* Each page of the menu of a role starts with a call that the role may make.
LEMMA MenuIsUsable ==
  ASSUME NEW role \in AllRoles, NEW claims, claims.role = role, NEW page \in NavItems(role)
  PROVE  CanActivate(claims, FirstCall(page)[1], FirstCall(page)[2])
<1>1. CASE page = "/repository-scanning"
  BY <1>1 DEF FirstCall, CanActivate, RequiredRoles, RepositoryScans, Rule, Methods
<1>2. CASE page \in Everyone \ {"/repository-scanning"}
  BY <1>2 DEF FirstCall, CanActivate, RequiredRoles, Everyone, DashboardReads, Devices,
     SoftwareInventory, SoftwareUpdateFindings, VulnerabilityFindings, RemediationActions,
     Rule, Methods
<1>3. CASE page \notin Everyone
  <2>1. role \in Admins /\ page \in {"/organizations", "/departments", "/users", "/audit-logs"}
    BY <1>3 DEF NavItems
  <2> QED
    BY <2>1 DEF FirstCall, CanActivate, RequiredRoles, Organizations, Departments, Users,
       AuditLogs, Rule, Methods
<1> QED BY <1>1, <1>2, <1>3

\* Users, tokens and calls carry claims of an organization and a role, and
\* records are of calls.
THEOREM AuditTypes == AuditSpec => []AuditTypeOK
<1>1. AuditInit => AuditInv
  BY InitAudit
<1>2. AuditInv /\ [AuditNext]_auditVars => AuditInv'
  BY NextKeepsAudit
<1>3. AuditInv => AuditTypeOK
  BY DEF AuditInv
<1> QED BY <1>1, <1>2, <1>3, PTL DEF AuditSpec

\* Whatever is renewed, assigned or interrupted: a role that was taken away is of
\* use for the life of one token only and the time in which that token was signed
\* after the user had been read, the menu offers what its role may call,
\* and records are of changes that were admitted and answered.
THEOREM AccessCurrent == AuditSpec => []AccessIsCurrent
<1>1. AuditInit => AuditInv
  BY InitAudit
<1>2. AuditInv /\ [AuditNext]_auditVars => AuditInv'
  BY NextKeepsAudit
<1>3. AuditInv => AccessIsCurrent
  <2> SUFFICES ASSUME AuditInv PROVE AccessIsCurrent
    OBVIOUS
  <2>1. StaleRolesEnd
    BY DEF StaleRolesEnd, AuditInv, CallSound
  <2>2. OfferedPagesAreUsable
    <3> SUFFICES ASSUME NEW u \in Staff, token[u] # None, menu[u] = token[u].claims.role,
                        NEW page \in NavItems(menu[u])
                 PROVE  CanActivate(token[u].claims, FirstCall(page)[1], FirstCall(page)[2])
      BY DEF OfferedPagesAreUsable
    <3>1. menu[u] \in AllRoles
      BY AuditAssumption DEF AuditInv, AuditTypeOK, Tokens, Claims
    <3> QED BY <3>1, MenuIsUsable
  <2>3. RecordsAreEarned
    BY DEF RecordsAreEarned, LogsFor, AuditInv, AuditTypeOK, CallSound
  <2> QED BY <2>1, <2>2, <2>3 DEF AccessIsCurrent
<1> QED BY <1>1, <1>2, <1>3, PTL DEF AuditSpec

-----------------------------------------------------------------------------
(* No change is forgotten: the safety half of EveryChangeRecorded *)

\* What was committed is a change, not a read.
ChangesInv == AuditInv /\ \A c \in ApiCalls :
  calls[c] # None /\ calls[c].at = "committed" => calls[c].method # "GET"

\* A change whose record is still to come, and one whose record is written or
\* cannot be expected any more.
Owed(c) == StateOf(c) \in {"committed", "recording"}
Settled == recorded \cup lost

\* The statements that a call still has before it, at most.
StepsLeft(c) ==
  CASE StateOf(c) = "running"   -> 3 [] StateOf(c) = "committed" -> 2
    [] StateOf(c) = "recording" -> 1 [] OTHER                    -> 0

NothingForgotten ==
  /\ \A c \in ApiCalls : Owed(c) => Owed(c)' \/ c \in Settled'
  /\ Settled \subseteq Settled'
CallsAdvance == \A c \in ApiCalls :
  /\ calls[c] # None => calls'[c] # None /\ StepsLeft(c)' <= StepsLeft(c)
  /\ Proceed(c) => StepsLeft(c)' < StepsLeft(c)

\* Changes to the audit log itself, which is not watched, are admitted to nobody.
LEMMA ChangesAreWatched ==
  ASSUME ChangesInv, NEW c \in ApiCalls, StateOf(c) = "committed"
  PROVE  Watched(calls[c])
<1>1. /\ calls[c] \in CallRow /\ calls[c].method # "GET"
      /\ calls[c].claims.role \in RequiredRoles(calls[c].resource)[calls[c].method]
  BY DEF ChangesInv, AuditInv, AuditTypeOK, CallSound, StateOf
<1>2. calls[c].method \in {"POST", "PATCH", "DELETE"}
  BY <1>1 DEF CallRow, Methods
<1>3. calls[c].resource # "/audit-logs"
  <2> SUFFICES ASSUME calls[c].resource = "/audit-logs" PROVE FALSE
    OBVIOUS
  <2>1. RequiredRoles("/audit-logs")[calls[c].method] = {}
    BY <1>2 DEF RequiredRoles, AuditLogs, Rule, Methods
  <2> QED BY <1>1, <2>1
<1> QED BY <1>2, <1>3 DEF Watched

\* A call that goes from one stage to another keeps its method.
LEMMA StageMoves ==
  ASSUME AuditInv, NEW c \in ApiCalls, StateOf(c) # "unused",
         NEW at \in {"committed", "recording", "over"}, Set(c, at)
  PROVE  /\ StateOf(c)' = at
         /\ calls'[c] # None
         /\ calls'[c].method = calls[c].method
         /\ \A d \in ApiCalls : d # c => calls'[d] = calls[d]
<1>1. calls[c] \in CallRow /\ calls' = [calls EXCEPT ![c] = [calls[c] EXCEPT !.at = at]]
  BY DEF AuditInv, AuditTypeOK, StateOf, Set
<1>2. /\ calls'[c] = [calls[c] EXCEPT !.at = at] /\ calls'[c].at = at
      /\ calls'[c].method = calls[c].method /\ calls'[c] \in CallRow
  BY <1>1 DEF AuditInv, AuditTypeOK, CallRow
<1>3. \A d \in ApiCalls : d # c => calls'[d] = calls[d]
  BY <1>1 DEF AuditInv, AuditTypeOK
<1>4. calls'[c] # None
  BY <1>2, AuditAssumption
<1> QED BY <1>2, <1>3, <1>4 DEF StateOf

\* Where each step of a call leads, and what it settles.
LEMMA WayOfCall ==
  ASSUME ChangesInv, NEW c \in ApiCalls, Proceed(c)
  PROVE  /\ calls'[c] # None
         /\ calls'[c].method = calls[c].method
         /\ \A d \in ApiCalls : d # c => calls'[d] = calls[d]
         /\ Settled \subseteq Settled'
         /\ \/ StateOf(c) = "running" /\ StateOf(c)' = "committed" /\ calls[c].method # "GET"
            \/ StateOf(c) = "running" /\ StateOf(c)' \in {"recording", "over"}
            \/ StateOf(c) = "committed" /\ StateOf(c)' = "recording"
            \/ Owed(c) /\ StateOf(c)' = "over" /\ c \in Settled'
<1>1. AuditInv /\ StateOf(c) # "unused"
  BY DEF ChangesInv, Proceed, Commit, Answer, Throw, Record, RecordFails
<1>2. CASE Commit(c)
  BY <1>1, <1>2, StageMoves DEF Commit, Settled
<1>3. CASE Answer(c)
  <2>1. PICK at \in {"recording", "over"} :
          Set(c, at) /\ at = (IF Watched(calls[c]) THEN "recording" ELSE "over")
    BY <1>3 DEF Answer
  <2>2. StateOf(c) = "committed" => at = "recording"
    BY <2>1, ChangesAreWatched
  <2>3. /\ recorded' = recorded /\ lost' = lost
        /\ StateOf(c) = "committed" \/ StateOf(c) = "running"
    BY <1>3 DEF Answer
  <2> QED BY <1>1, <2>1, <2>2, <2>3, StageMoves DEF Settled
<1>4. CASE Throw(c)
  BY <1>1, <1>4, StageMoves DEF Throw, Settled, Owed
<1>5. CASE Record(c)
  BY <1>1, <1>5, StageMoves DEF Record, Settled, Owed
<1>6. CASE RecordFails(c)
  BY <1>1, <1>6, StageMoves DEF RecordFails, Settled, Owed
<1> QED BY <1>2, <1>3, <1>4, <1>5, <1>6 DEF Proceed

\* Where the other steps lead.
LEMMA OtherSteps ==
  ASSUME ChangesInv, [AuditNext]_auditVars, \A c \in ApiCalls : ~Proceed(c),
         NEW c \in ApiCalls
  PROVE  /\ \/ calls'[c] = calls[c]
            \/ calls[c] = None /\ calls'[c] # None /\ StateOf(c)' = "running"
            \/ /\ calls[c] # None /\ calls'[c] # None /\ StateOf(c)' = "over"
               /\ StateOf(c) \in {"running", "committed", "recording"}
               /\ Owed(c) => c \in Settled'
         /\ Settled \subseteq Settled'
<1>1. calls \in [ApiCalls -> CallRow \cup {None}]
  BY DEF ChangesInv, AuditInv, AuditTypeOK
<1>2. CASE UNCHANGED <<calls, recorded, lost>>
  BY <1>2 DEF Settled
<1>3. ASSUME NEW d \in ApiCalls, NEW u \in Staff, NEW use \in Used, Admit(d, u, use[1], use[2])
      PROVE  /\ calls'[c] = calls[c] \/
                (calls[c] = None /\ calls'[c] # None /\ StateOf(c)' = "running")
             /\ Settled \subseteq Settled'
  <2> DEFINE new == [user |-> u, claims |-> token[u].claims, resource |-> use[1],
                     method |-> use[2], at |-> "running", when |-> clock,
                     slow |-> token[u].slow]
  <2>1. /\ calls[d] = None /\ calls' = [calls EXCEPT ![d] = new]
        /\ recorded' = recorded /\ lost' = lost
    BY <1>3 DEF Admit
  <2>2. new \in CallRow
    <3>1. token[u] \in Tokens
      BY <1>3 DEF Admit, Valid, ChangesInv, AuditInv, AuditTypeOK
    <3> QED BY <3>1, AuditAssumption DEF CallRow, Tokens, ChangesInv, AuditInv, AuditTypeOK
  <2>3. new.at = "running" /\ new # None
    BY <2>2, AuditAssumption
  <2> HIDE DEF new
  <2>4. calls'[c] = IF c = d THEN new ELSE calls[c]
    BY <1>1, <2>1
  <2> QED BY <2>1, <2>3, <2>4 DEF StateOf, Settled
<1>4. CASE Crash
  <2> DEFINE K == {d \in ApiCalls : StateOf(d) \in {"running", "committed", "recording"}}
  <2>1. /\ calls' = [d \in ApiCalls |-> IF d \in K THEN [calls[d] EXCEPT !.at = "over"]
                                        ELSE calls[d]]
        /\ lost' = lost \cup {d \in K : StateOf(d) # "running"} /\ recorded' = recorded
    BY <1>4 DEF Crash
  <2>2. CASE c \in K
    <3>1. StateOf(c) \in {"running", "committed", "recording"}
      BY <2>2
    <3>2. calls[c] \in CallRow /\ calls[c] # None
      BY <1>1, <3>1 DEF StateOf
    <3>3. calls'[c] = [calls[c] EXCEPT !.at = "over"]
      BY <2>1, <2>2
    <3>4. calls'[c] \in CallRow /\ calls'[c].at = "over"
      BY <3>2, <3>3 DEF CallRow
    <3>5. calls'[c] # None
      BY <3>4, AuditAssumption
    <3>6. StateOf(c)' = "over"
      BY <3>4, <3>5 DEF StateOf
    <3>7. Settled \subseteq Settled' /\ (Owed(c) => c \in Settled')
      BY <2>1, <2>2 DEF Owed, Settled
    <3> QED BY <3>1, <3>2, <3>5, <3>6, <3>7
  <2>3. CASE c \notin K
    <3>1. calls'[c] = calls[c]
      BY <2>1, <2>3
    <3> QED BY <2>1, <3>1 DEF Settled
  <2> QED BY <2>2, <2>3
<1>5. \/ UNCHANGED <<calls, recorded, lost>> \/ Crash
      \/ \E d \in ApiCalls, u \in Staff, use \in Used : Admit(d, u, use[1], use[2])
  BY DEF AuditNext, auditVars, BeginSignIn, BeginRenewal, ReadUser, SignToken, Assign, Tick
<1> QED BY <1>2, <1>3, <1>4, <1>5

LEMMA NextKeepsChanges ==
  ASSUME ChangesInv, [AuditNext]_auditVars PROVE ChangesInv'
<1>1. AuditInv'
  BY NextKeepsAudit DEF ChangesInv
<1>2. ASSUME NEW c \in ApiCalls, (calls[c] # None /\ calls[c].at = "committed")'
      PROVE  (calls[c].method # "GET")'
  <2>1. StateOf(c)' = "committed"
    BY <1>2 DEF StateOf
  <2>2. CASE calls'[c] = calls[c]
    BY <1>2, <2>2 DEF ChangesInv
  <2>3. CASE Proceed(c)
    BY <2>1, <2>3, WayOfCall DEF Owed
  <2>4. CASE calls'[c] # calls[c] /\ ~Proceed(c)
    <3>1. ASSUME NEW d \in ApiCalls, Proceed(d) PROVE FALSE
      BY <2>4, <3>1, WayOfCall
    <3> QED BY <2>1, <2>4, <3>1, OtherSteps
  <2> QED BY <2>2, <2>3, <2>4
<1> QED BY <1>1, <1>2 DEF ChangesInv

\* A step of another call, or of none, leaves a call where it is or ends it.
LEMMA CallsGoForward ==
  ASSUME ChangesInv, [AuditNext]_auditVars PROVE NothingForgotten /\ CallsAdvance
<1>1. ASSUME NEW c \in ApiCalls
      PROVE  /\ Owed(c) => Owed(c)' \/ c \in Settled'
             /\ Settled \subseteq Settled'
             /\ calls[c] # None => calls'[c] # None /\ StepsLeft(c)' <= StepsLeft(c)
             /\ Proceed(c) => StepsLeft(c)' < StepsLeft(c)
  <2>1. StepsLeft(c) \in Nat
    BY DEF StepsLeft
  <2>2. CASE Proceed(c)
    BY <2>2, WayOfCall DEF Owed, StepsLeft
  <2>3. ASSUME ~Proceed(c), calls'[c] = calls[c], Settled \subseteq Settled'
        PROVE  /\ Owed(c) => Owed(c)' /\ StepsLeft(c)' <= StepsLeft(c)
               /\ calls[c] # None => calls'[c] # None
    BY <2>1, <2>3 DEF Owed, StepsLeft, StateOf
  <2>4. CASE \E d \in ApiCalls : Proceed(d) /\ d # c /\ ~Proceed(c)
    BY <2>3, <2>4, <2>1, WayOfCall DEF StepsLeft, Owed, StateOf
  <2>5. CASE \A d \in ApiCalls : ~Proceed(d)
    <3>1. \/ calls'[c] = calls[c]
          \/ calls[c] = None /\ StateOf(c)' = "running"
          \/ /\ calls[c] # None /\ calls'[c] # None /\ StateOf(c)' = "over"
             /\ StateOf(c) \in {"running", "committed", "recording"}
             /\ Owed(c) => c \in Settled'
      BY <2>5, OtherSteps
    <3>2. Settled \subseteq Settled'
      BY <2>5, OtherSteps
    <3>3. CASE calls'[c] = calls[c]
      BY <2>1, <2>3, <2>5, <3>2, <3>3 DEF StepsLeft, Owed, StateOf
    <3>4. CASE calls[c] = None
      BY <2>5, <3>2, <3>4 DEF Owed, StateOf
    <3>5. CASE calls[c] # None /\ StateOf(c)' = "over" /\ StateOf(c) # "over"
      <4>1. StepsLeft(c)' = 0
        BY <3>5 DEF StepsLeft
      <4> QED BY <2>1, <2>5, <3>1, <3>2, <3>5, <4>1 DEF StateOf
    <3> QED BY <3>1, <3>3, <3>4, <3>5
  <2> QED BY <2>2, <2>4, <2>5
<1> HIDE DEF StepsLeft
<1>2. ASSUME ApiCalls = {} PROVE Settled \subseteq Settled'
  BY <1>2, NextKeepsAudit DEF ChangesInv, AuditInv, AuditTypeOK, Settled
<1> QED BY <1>1, <1>2 DEF NothingForgotten, CallsAdvance

\* Once its change is committed a call is on its way to its record until that is
\* written, or until the handler has thrown, the insert has failed or the server
\* has stopped; whatever else happens, it has three statements at most before it
\* and each of its steps leaves fewer.
THEOREM ChangesAdvance == AuditSpec => [][NothingForgotten /\ CallsAdvance]_auditVars
<1>1. AuditInit => ChangesInv
  BY InitAudit DEF ChangesInv, AuditInit
<1>2. ChangesInv /\ [AuditNext]_auditVars => ChangesInv'
  BY NextKeepsChanges
<1>3. ChangesInv /\ [AuditNext]_auditVars => NothingForgotten /\ CallsAdvance
  BY CallsGoForward
<1> QED BY <1>1, <1>2, <1>3, PTL DEF AuditSpec
=============================================================================
