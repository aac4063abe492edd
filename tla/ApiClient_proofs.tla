--------------------------- MODULE ApiClient_proofs ---------------------------
(***************************************************************************)
(* Theorems about ApiClient, for any numbers of tabs, calls, pairs and     *)
(* renewals, and without fairness.                                         *)
(***************************************************************************)
EXTENDS ApiClient, TLAPS

Live(n) == renewals[n].at # "idle"
Granted(n) == renewals[n].at = "granted"
SigningOut(t) == logouts[t].at # "idle"
Heard(n) == renewals[n].tab # None

\* The stored pair and the pairs that logouts carry were issued; a call has a tab.
Known ==
  /\ store # None => pairs[store].issued
  /\ \A t \in Tabs : SigningOut(t) =>
        logouts[t].pair \in Pairs /\ pairs[logouts[t].pair].issued
  /\ \A c \in Calls : calls[c].at # "idle" => calls[c].tab \in Tabs

\* A renewal that is under way is the one of its tab, unless its page is gone, and
\* until it is granted its tab has not spent the pair; answers are for pages.
RenewalSound(n) ==
  /\ Live(n) => renewals[n].pair \in Pairs /\ pairs[renewals[n].pair].issued
  /\ Heard(n) => /\ Live(n)
                 /\ renewals[n].tab \in Tabs /\ refreshRequest[renewals[n].tab] = n
  /\ renewals[n].at \in {"granted", "refused"} => Heard(n)
  /\ Heard(n) /\ ~Granted(n) => pairs[renewals[n].pair].by # renewals[n].tab

\* What a page that is gone has left behind may only spend a stored pair that is
\* known to be abandoned.
LeftBehind(g) == \/ \E n \in Renewals : Live(n) /\ ~Heard(n) /\ renewals[n].pair = g
                 \/ \E t \in Tabs : logouts[t].at = "left" /\ logouts[t].pair = g
OrphansSound == store # None /\ LeftBehind(store) => abandoned

\* Nobody but the renewal itself holds the pair that was granted to it.
GrantSound(n) ==
  Granted(n) =>
    /\ renewals[n].new \in Pairs /\ pairs[renewals[n].new].issued
    /\ pairs[renewals[n].new].refresh # "revoked"
    /\ pairs[renewals[n].new].by = None
    /\ store # renewals[n].new
    /\ \A t \in Tabs : SigningOut(t) => logouts[t].pair # renewals[n].new
    /\ \A m \in Renewals : Live(m) => renewals[m].pair # renewals[n].new
    /\ \A m \in Renewals : Granted(m) /\ m # n => renewals[m].new # renewals[n].new

RequestSound(t) ==
  refreshRequest[t] # None =>
    Live(refreshRequest[t]) /\ renewals[refreshRequest[t]].tab = t

\* Only a tab that is about to store a newer pair has spent the stored one.
SpentByRenewal ==
  store # None =>
    \A t \in Tabs : pairs[store].by = t =>
      \E n \in Renewals : Granted(n) /\ renewals[n].tab = t /\ renewals[n].pair = store

Inv ==
  /\ TypeOK /\ Known
  /\ \A n \in Renewals : RenewalSound(n)
  /\ \A n \in Renewals : GrantSound(n)
  /\ \A t \in Tabs : RequestSound(t)
  /\ SpentByRenewal /\ OrphansSound /\ StoredPairIsGood

LEMMA InitInv == Init => Inv
<1> SUFFICES ASSUME Init PROVE Inv
  OBVIOUS
<1> USE ClientAssumption
<1>1. TypeOK
  BY DEF Init, TypeOK, PairRow, NoPair, CallState, IdleCall, RenewalState, Renewal,
         IdleRenewal, LogoutState, IdleLogout
<1>2. /\ \A n \in Renewals : renewals[n].at = "idle" /\ renewals[n].tab = None
      /\ \A t \in Tabs : logouts[t].at = "idle" /\ refreshRequest[t] = None
      /\ \A c \in Calls : calls[c].at = "idle"
      /\ store = None
  BY DEF Init, IdleCall, Renewal, IdleRenewal, IdleLogout
<1> QED
  BY <1>1, <1>2
  DEF Inv, Known, RenewalSound, GrantSound, RequestSound, SpentByRenewal,
      OrphansSound, StoredPairIsGood, Heard, Live, Granted, SigningOut

-----------------------------------------------------------------------------
(* Steps that change only the calls *)

CallsOnly == UNCHANGED <<store, pairs, refreshRequest, renewals, logouts, abandoned>>

LEMMA CallSteps ==
  ASSUME Inv, CallsOnly, calls' \in [Calls -> CallState],
         \A c \in Calls : calls'[c].at # "idle" => calls'[c].tab \in Tabs
  PROVE Inv'
  BY DEF Inv, CallsOnly, TypeOK, Known, RenewalSound, GrantSound, RequestSound,
         SpentByRenewal, OrphansSound, LeftBehind, StoredPairIsGood,
         Heard, Live, Granted, SigningOut

LEMMA WaitTyped ==
  ASSUME Inv, NEW c \in Calls, NEW n \in Renewals, Refused(c), Wait(c, n)
  PROVE /\ calls' \in [Calls -> CallState]
        /\ \A d \in Calls : calls'[d].at # "idle" => calls'[d].tab \in Tabs
  BY DEF Inv, TypeOK, Known, Refused, Wait, CallState

LEMMA CallMoves ==
  ASSUME Inv, NEW c \in Calls,
         (\E t \in Tabs : Call(c, t)) \/ Answer(c) \/ GiveUp(c) \/ JoinRenewal(c)
  PROVE Inv'
<1>1. ASSUME NEW t \in Tabs, Call(c, t) PROVE Inv'
  <2>1. Sent(t, store, FALSE) \in CallState
    BY DEF Inv, TypeOK, Sent, CallState
  <2> QED BY <1>1, <2>1, CallSteps DEF Call, CallsOnly, Inv, TypeOK, Known, Sent
<1>2. CASE Answer(c) \/ GiveUp(c)
  <2>1. IdleCall \in CallState
    BY DEF IdleCall, CallState
  <2>2. calls' = [calls EXCEPT ![c] = IdleCall] /\ CallsOnly
    BY <1>2 DEF Answer, GiveUp, CallsOnly
  <2>3. calls' \in [Calls -> CallState]
    BY <2>1, <2>2 DEF Inv, TypeOK
  <2>4. \A d \in Calls : calls'[d].at # "idle" => calls'[d].tab \in Tabs
    BY <2>2 DEF Inv, TypeOK, Known, IdleCall
  <2> QED BY <2>2, <2>3, <2>4, CallSteps
<1>3. CASE JoinRenewal(c)
  <2>1. refreshRequest[calls[c].tab] \in Renewals
    BY <1>3 DEF JoinRenewal, Refused, Inv, TypeOK, Known
  <2> QED BY <1>3, <2>1, CallSteps, WaitTyped DEF JoinRenewal, CallsOnly
<1> QED BY <1>1, <1>2, <1>3

-----------------------------------------------------------------------------
(* Steps of renewals *)

LEMMA StartInv ==
  ASSUME Inv, NEW c \in Calls, NEW n \in Renewals, StartRenewal(c, n)
  PROVE Inv'
<1> DEFINE t == calls[c].tab
<1> USE ClientAssumption DEF Inv
<1>1. /\ t \in Tabs /\ refreshRequest[t] = None /\ renewals[n].at = "idle"
      /\ store \in Pairs /\ store # None /\ pairs[store].issued
  BY DEF StartRenewal, PostRenewal, Refused, TypeOK, Known
<1>2. Renewal("posted", t, store, None) \in RenewalState
  BY <1>1 DEF Renewal, RenewalState
<1>3. /\ renewals' = [renewals EXCEPT ![n] = Renewal("posted", t, store, None)]
      /\ refreshRequest' = [refreshRequest EXCEPT ![t] = n]
      /\ UNCHANGED <<store, pairs, logouts, abandoned>>
  BY DEF StartRenewal, PostRenewal
<1>4. TypeOK' /\ Known'
  <2>1. /\ calls' \in [Calls -> CallState]
        /\ \A d \in Calls : calls'[d].at # "idle" => calls'[d].tab \in Tabs
    BY WaitTyped DEF StartRenewal, PostRenewal
  <2> QED BY <1>1, <1>2, <1>3, <2>1 DEF TypeOK, Known, SigningOut
<1> HIDE DEF t
<1>5. /\ renewals'[n].at = "posted" /\ renewals'[n].tab = t
      /\ renewals'[n].pair = store
      /\ \A m \in Renewals : m # n => renewals'[m] = renewals[m]
  BY <1>3 DEF TypeOK, Renewal
<1>6. \A m \in Renewals : Granted(m)' <=> Granted(m)
  BY <1>1, <1>5 DEF Granted
<1>7. \A m \in Renewals : RenewalSound(m)'
  <2>1. pairs[store].by # t
    BY <1>1 DEF SpentByRenewal, RenewalSound, Granted, Live, Heard
  <2>2. RenewalSound(n)'
    BY <1>1, <1>3, <1>5, <2>1 DEF RenewalSound, Live, Granted, Heard, TypeOK
  <2>3. ASSUME NEW m \in Renewals, m # n PROVE RenewalSound(m)'
    BY <1>1, <1>3, <1>5, <2>3 DEF RenewalSound, Live, Granted, Heard, TypeOK
  <2> QED BY <2>2, <2>3
<1>8. \A m \in Renewals : GrantSound(m)'
  BY <1>1, <1>3, <1>5, <1>6 DEF GrantSound, Live, Granted, SigningOut
<1>9. \A w \in Tabs : RequestSound(w)'
  BY <1>1, <1>3, <1>5 DEF RequestSound, Live, TypeOK
<1>10. SpentByRenewal' /\ StoredPairIsGood'
  BY <1>1, <1>3, <1>5 DEF SpentByRenewal, StoredPairIsGood, Live, Granted
<1>11. OrphansSound'
  BY <1>1, <1>3, <1>5 DEF OrphansSound, LeftBehind, Live, Heard
<1> QED BY <1>4, <1>7, <1>8, <1>9, <1>10, <1>11

\* A renewal of a page that is gone ends and spends its pair or not.
LEMMA OrphanInv ==
  ASSUME Inv, NEW n \in Renewals, Live(n), ~Heard(n),
         renewals' = [renewals EXCEPT ![n] = IdleRenewal],
         UNCHANGED <<store, calls, refreshRequest, logouts, abandoned>>,
         \/ UNCHANGED pairs
         \/ \E row \in PairRow :
              /\ pairs' = [pairs EXCEPT ![renewals[n].pair] = row]
              /\ row.issued /\ row.by = None
  PROVE Inv'
<1> USE ClientAssumption DEF Inv
<1> DEFINE old == renewals[n].pair
<1>1. /\ old \in Pairs /\ pairs[old].issued /\ ~Granted(n)
      /\ store # None /\ store = old => abandoned
  BY DEF RenewalSound, OrphansSound, LeftBehind, Granted
<1>2. /\ ~Live(n)' /\ ~Granted(n)' /\ ~Heard(n)'
      /\ renewals' \in [Renewals -> RenewalState]
      /\ \A m \in Renewals : m # n => renewals'[m] = renewals[m]
  BY DEF TypeOK, IdleRenewal, Renewal, RenewalState, Live, Granted, Heard
<1>3. \A m \in Renewals : m # n => /\ Live(m)' <=> Live(m)
                                   /\ Granted(m)' <=> Granted(m)
                                   /\ Heard(m)' <=> Heard(m)
  BY <1>2 DEF Live, Granted, Heard
<1>4. /\ pairs' \in [Pairs -> PairRow]
      /\ \A h \in Pairs : h # old => pairs'[h] = pairs[h]
      /\ pairs'[old] = pairs[old] \/ (pairs'[old].issued /\ pairs'[old].by = None)
  BY <1>1 DEF TypeOK
<1> HIDE DEF old
<1>5. TypeOK' /\ Known'
  BY <1>1, <1>2, <1>4 DEF TypeOK, Known, SigningOut
<1>6. \A m \in Renewals : RenewalSound(m)'
  <2>1. RenewalSound(n)'
    BY <1>2 DEF RenewalSound, Live
  <2>2. ASSUME NEW m \in Renewals, m # n PROVE RenewalSound(m)'
    BY <1>1, <1>2, <1>3, <1>4, <2>2 DEF RenewalSound
  <2> QED BY <2>1, <2>2
<1>7. \A m \in Renewals : GrantSound(m)'
  <2>1. \A m \in Renewals : Granted(m) => renewals[m].new # old
    BY DEF GrantSound, old
  <2>2. \A m \in Renewals : Granted(m)' => Granted(m) /\ m # n
    BY <1>2, <1>3
  <2>3. \A m \in Renewals : Granted(m) => pairs'[renewals[m].new] = pairs[renewals[m].new]
    BY <1>4, <2>1 DEF GrantSound
  <2> QED BY <1>2, <1>3, <2>2, <2>3 DEF GrantSound, SigningOut
<1>8. \A t \in Tabs : RequestSound(t)'
  <2>1. \A t \in Tabs : refreshRequest[t] # None => refreshRequest[t] # n
    BY DEF RequestSound, Heard, TypeOK
  <2> QED BY <1>2, <1>3, <2>1 DEF RequestSound, TypeOK
<1>9. SpentByRenewal'
  BY <1>1, <1>2, <1>3, <1>4 DEF SpentByRenewal, TypeOK
<1>10. OrphansSound'
  BY <1>2, <1>3 DEF OrphansSound, LeftBehind
<1>11. StoredPairIsGood'
  BY <1>1, <1>2, <1>4 DEF StoredPairIsGood, TypeOK, old
<1> QED BY <1>5, <1>6, <1>7, <1>8, <1>9, <1>10, <1>11

LEMMA DropInv ==
  ASSUME Inv, NEW n \in Renewals, DropRenewal(n)
  PROVE Inv'
  BY OrphanInv DEF DropRenewal, Live, Heard

LEMMA CheckInv ==
  ASSUME Inv, NEW n \in Renewals, CheckRenewal(n)
  PROVE Inv'
<1> USE ClientAssumption DEF Inv
<1> DEFINE q == renewals[n]
           at == IF Good(q.pair) THEN "checked" ELSE "refused"
<1>0. CASE ~Heard(n) /\ ~Good(q.pair)
  BY <1>0, OrphanInv DEF CheckRenewal, Replied, Heard, Live
<1> SUFFICES ASSUME Heard(n) \/ Good(q.pair) PROVE Inv'
  BY <1>0
<1>1. /\ q.at = "posted"
      /\ renewals' = [renewals EXCEPT ![n] = Renewal(at, q.tab, q.pair, None)]
      /\ UNCHANGED <<store, pairs, calls, refreshRequest, logouts, abandoned>>
  BY DEF CheckRenewal, Replied, Heard
<1>2. Renewal(at, q.tab, q.pair, None) \in RenewalState
  BY DEF TypeOK, Renewal, RenewalState
<1>3. /\ renewals'[n].at \in {"checked", "refused"}
      /\ renewals'[n].tab = renewals[n].tab /\ renewals'[n].pair = renewals[n].pair
      /\ \A m \in Renewals : m # n => renewals'[m] = renewals[m]
  BY <1>1 DEF TypeOK, Renewal
<1>4. \A m \in Renewals : /\ Granted(m)' <=> Granted(m)
                          /\ Live(m)' <=> Live(m)
                          /\ renewals'[m].tab = renewals[m].tab
                          /\ renewals'[m].pair = renewals[m].pair
                          /\ Granted(m) => renewals'[m] = renewals[m]
                          /\ Heard(m)' <=> Heard(m)
  BY <1>1, <1>3 DEF Granted, Live, Heard
<1>5. TypeOK' /\ Known'
  BY <1>1, <1>2 DEF TypeOK, Known, SigningOut
<1>6. \A m \in Renewals : RenewalSound(m)'
  <2>1. renewals'[n].at = "refused" => Heard(n)
    BY <1>1 DEF TypeOK, Renewal
  <2>2. RenewalSound(n)'
    BY <1>1, <1>3, <1>4, <2>1 DEF RenewalSound
  <2>3. ASSUME NEW m \in Renewals, m # n PROVE RenewalSound(m)'
    BY <1>1, <1>3, <1>4, <2>3 DEF RenewalSound
  <2> QED BY <2>2, <2>3
<1>7. \A m \in Renewals : GrantSound(m)'
  BY <1>1, <1>4 DEF GrantSound, SigningOut
<1>8. \A t \in Tabs : RequestSound(t)'
  BY <1>1, <1>4 DEF RequestSound, TypeOK
<1>9. SpentByRenewal' /\ StoredPairIsGood'
  BY <1>1, <1>4 DEF SpentByRenewal, StoredPairIsGood, Live
<1>10. OrphansSound'
  BY <1>1, <1>4 DEF OrphansSound, LeftBehind
<1> QED BY <1>5, <1>6, <1>7, <1>8, <1>9, <1>10

LEMMA SettleGrantedInv ==
  ASSUME Inv, NEW n \in Renewals, SettleGranted(n)
  PROVE Inv'
<1> USE ClientAssumption DEF Inv
<1> DEFINE t == renewals[n].tab
           g == renewals[n].new
<1>1. /\ Granted(n) /\ store' = g /\ abandoned' = FALSE
      /\ refreshRequest' = [refreshRequest EXCEPT ![t] = None]
      /\ calls' = Settled(n)
      /\ renewals' = [renewals EXCEPT ![n] = IdleRenewal]
      /\ UNCHANGED <<pairs, logouts>>
  BY DEF SettleGranted, Granted
<1>2. /\ t \in Tabs /\ refreshRequest[t] = n /\ g \in Pairs /\ pairs[g].issued
      /\ pairs[g].refresh # "revoked" /\ pairs[g].by = None
      /\ \A w \in Tabs : SigningOut(w) => logouts[w].pair # g
      /\ \A m \in Renewals : Live(m) => renewals[m].pair # g
      /\ \A m \in Renewals : Granted(m) /\ m # n => renewals[m].new # g
  BY <1>1 DEF RenewalSound, GrantSound, Live, Granted, Heard
<1>3. /\ calls' \in [Calls -> CallState]
      /\ \A c \in Calls : calls'[c].at # "idle" => calls'[c].tab \in Tabs
  <2>1. ASSUME NEW c \in Calls
        PROVE /\ calls'[c] \in CallState
              /\ calls'[c].at # "idle" => calls'[c].tab \in Tabs
    <3>1. CASE Waiting(c, n)
      <4>1. calls[c].tab \in Tabs
        BY <3>1 DEF Waiting, Known
      <4>2. Resent(c, n) \in CallState
        BY <1>2, <4>1 DEF Resent, Sent, CallState
      <4> QED BY <1>1, <3>1, <4>1, <4>2 DEF Settled, Resent, Sent
    <3>2. CASE ~Waiting(c, n)
      BY <1>1, <3>2 DEF Settled, TypeOK, Known
    <3> QED BY <3>1, <3>2
  <2> QED BY <1>1, <2>1 DEF Settled
<1> HIDE DEF t, g
<1>4. IdleRenewal \in RenewalState
  BY DEF IdleRenewal, Renewal, RenewalState
<1>5. TypeOK' /\ Known'
  BY <1>1, <1>2, <1>3, <1>4 DEF TypeOK, Known, SigningOut
<1>6. /\ ~Live(n)' /\ ~Granted(n)' /\ ~Heard(n)'
      /\ \A m \in Renewals : m # n => renewals'[m] = renewals[m]
  BY <1>1 DEF TypeOK, IdleRenewal, Renewal, Live, Granted, Heard
<1>7. \A m \in Renewals : m # n => /\ Live(m)' <=> Live(m)
                                   /\ Granted(m)' <=> Granted(m)
                                   /\ Heard(m)' <=> Heard(m)
  BY <1>6 DEF Live, Granted, Heard
<1>8. \A m \in Renewals : RenewalSound(m)'
  <2>1. RenewalSound(n)'
    BY <1>6 DEF RenewalSound, Live
  <2>2. ASSUME NEW m \in Renewals, m # n PROVE RenewalSound(m)'
    BY <1>1, <1>2, <1>6, <1>7, <2>2 DEF RenewalSound, TypeOK
  <2> QED BY <2>1, <2>2
<1>9. \A m \in Renewals : GrantSound(m)'
  <2>1. GrantSound(n)'
    BY <1>6 DEF GrantSound
  <2>2. ASSUME NEW m \in Renewals, m # n, Granted(m) PROVE GrantSound(m)'
    <3>1. store' # renewals[m].new
      BY <1>1, <1>2, <2>2
    <3> QED BY <1>1, <1>6, <1>7, <2>2, <3>1 DEF GrantSound, SigningOut
  <2> QED BY <1>7, <2>1, <2>2 DEF GrantSound
<1>10. \A w \in Tabs : RequestSound(w)'
  <2> SUFFICES ASSUME NEW w \in Tabs PROVE RequestSound(w)'
    OBVIOUS
  <2>1. CASE w = t
    BY <1>1, <1>2, <2>1 DEF RequestSound, TypeOK
  <2>2. CASE w # t
    <3>1. refreshRequest'[w] = refreshRequest[w]
      BY <1>1, <2>2 DEF TypeOK
    <3>2. refreshRequest[w] # n \/ renewals[n].tab # w
      BY <2>2 DEF t
    <3> QED BY <1>6, <1>7, <3>1, <3>2 DEF RequestSound, TypeOK
  <2> QED BY <2>1, <2>2
<1>11. SpentByRenewal' /\ StoredPairIsGood'
  BY <1>1, <1>2 DEF SpentByRenewal, StoredPairIsGood
<1>12. OrphansSound'
  BY <1>1, <1>2, <1>6, <1>7 DEF OrphansSound, LeftBehind, SigningOut
<1> QED BY <1>5, <1>8, <1>9, <1>10, <1>11, <1>12

\* The end of a page: its renewals and its logout are over or go on unheard, and a
\* stored pair that stays although the page carried it is known to be abandoned.
LEMMA LeaveInv ==
  ASSUME Inv, NEW t \in Tabs, LeavePage(t),
         renewals' \in [Renewals -> RenewalState], logouts' \in [Tabs -> LogoutState],
         \A m \in Renewals :
           /\ renewals[m].tab # t => renewals'[m] = renewals[m]
           /\ renewals[m].tab = t =>
                \/ renewals'[m] = IdleRenewal
                \/ /\ Live(m) /\ renewals'[m].at \in {"posted", "checked"}
                   /\ renewals'[m].tab = None /\ renewals'[m].pair = renewals[m].pair,
         \A w \in Tabs : w # t => logouts'[w] = logouts[w],
         \/ logouts'[t] = IdleLogout
         \/ /\ SigningOut(t) /\ logouts'[t].at = "left"
            /\ logouts'[t].pair = logouts[t].pair,
         store' \in {store, None}, abandoned' \in BOOLEAN,
         store' # None /\ (abandoned \/ Carries(t, store)) => abandoned'
  PROVE Inv'
<1> USE ClientAssumption DEF Inv
<1>1. /\ calls' = [c \in Calls |-> IF calls[c].tab = t THEN IdleCall ELSE calls[c]]
      /\ refreshRequest' = [refreshRequest EXCEPT ![t] = None]
      /\ IdleCall \in CallState
  BY DEF LeavePage, IdleCall, CallState
<1>2. \A g \in Pairs : /\ pairs'[g] \in PairRow
                       /\ pairs'[g].issued = pairs[g].issued
                       /\ pairs'[g].refresh = pairs[g].refresh
                       /\ pairs'[g].by = IF pairs[g].by = t THEN None ELSE pairs[g].by
  BY DEF LeavePage, TypeOK, PairRow
<1>3. TypeOK'
  <2>1. pairs' \in [Pairs -> PairRow]
    BY <1>2 DEF LeavePage
  <2> QED BY <1>1, <2>1 DEF TypeOK
<1>4. \A m \in Renewals :
        /\ Live(m)' => Live(m) /\ renewals'[m].pair = renewals[m].pair
        /\ Heard(m)' => Heard(m) /\ renewals'[m] = renewals[m] /\ renewals[m].tab # t
        /\ Granted(m)' => Granted(m) /\ renewals'[m] = renewals[m]
        /\ Heard(m) /\ renewals[m].tab # t => Heard(m)' /\ renewals'[m] = renewals[m]
        /\ Live(m) /\ ~Live(m)' => renewals[m].tab = t
        /\ Live(m)' /\ ~Heard(m)' /\ Heard(m) => renewals[m].tab = t
  BY DEF Live, Heard, Granted, IdleRenewal, Renewal
<1>5. \A w \in Tabs :
        /\ SigningOut(w)' => SigningOut(w) /\ logouts'[w].pair = logouts[w].pair
        /\ SigningOut(w) /\ ~SigningOut(w)' => w = t
        /\ logouts'[w].at = "left" => logouts[w].at = "left" \/ (w = t /\ SigningOut(t))
  BY DEF SigningOut, IdleLogout
<1>6. Known'
  <2>1. \A c \in Calls : calls'[c].at # "idle" => calls'[c] = calls[c]
    BY <1>1 DEF IdleCall
  <2> QED BY <1>2, <1>5, <2>1 DEF Known, TypeOK
<1>7. \A m \in Renewals : RenewalSound(m)'
  <2> SUFFICES ASSUME NEW m \in Renewals PROVE RenewalSound(m)'
    OBVIOUS
  <2>1. Live(m)' => renewals'[m].pair \in Pairs /\ pairs'[renewals'[m].pair].issued
    BY <1>2, <1>4 DEF RenewalSound
  <2>2. Heard(m)' => /\ Live(m)' /\ renewals'[m].tab \in Tabs
                     /\ refreshRequest'[renewals'[m].tab] = m
    BY <1>1, <1>4 DEF RenewalSound, TypeOK, Live
  <2>3. renewals'[m].at \in {"granted", "refused"} => Heard(m)'
    BY DEF RenewalSound, Heard, IdleRenewal, Renewal
  <2>4. Heard(m)' /\ ~Granted(m)' => pairs'[renewals'[m].pair].by # renewals'[m].tab
    BY <1>2, <1>4 DEF RenewalSound, Granted, Heard
  <2> QED BY <2>1, <2>2, <2>3, <2>4 DEF RenewalSound
<1>8. \A m \in Renewals : GrantSound(m)'
  <2> SUFFICES ASSUME NEW m \in Renewals, Granted(m)' PROVE GrantSound(m)'
    BY DEF GrantSound
  <2>1. Granted(m) /\ renewals'[m].new = renewals[m].new /\ renewals[m].new \in Pairs
    BY <1>4 DEF GrantSound
  <2>2. /\ pairs'[renewals[m].new].issued /\ pairs'[renewals[m].new].refresh # "revoked"
        /\ pairs'[renewals[m].new].by = None
    BY <1>2, <2>1 DEF GrantSound
  <2>3. /\ store' # renewals[m].new
        /\ \A w \in Tabs : SigningOut(w)' => logouts'[w].pair # renewals[m].new
    BY <1>5, <2>1 DEF GrantSound
  <2>4. /\ \A k \in Renewals : Live(k)' => renewals'[k].pair # renewals[m].new
        /\ \A k \in Renewals : Granted(k)' /\ k # m => renewals'[k].new # renewals[m].new
    BY <1>4, <2>1 DEF GrantSound
  <2> QED BY <2>1, <2>2, <2>3, <2>4 DEF GrantSound
<1>9. \A w \in Tabs : RequestSound(w)'
  <2> SUFFICES ASSUME NEW w \in Tabs, refreshRequest'[w] # None
               PROVE  Live(refreshRequest[w])' /\ renewals'[refreshRequest[w]].tab = w
                      /\ refreshRequest'[w] = refreshRequest[w]
    BY DEF RequestSound
  <2>1. w # t /\ refreshRequest'[w] = refreshRequest[w]
    BY <1>1 DEF TypeOK
  <2>2. /\ refreshRequest[w] \in Renewals /\ Live(refreshRequest[w])
        /\ renewals[refreshRequest[w]].tab = w
    BY <2>1 DEF RequestSound, TypeOK
  <2>3. renewals'[refreshRequest[w]] = renewals[refreshRequest[w]]
    BY <2>1, <2>2
  <2> QED BY <2>1, <2>2, <2>3 DEF Live
<1>10. SpentByRenewal'
  <2> SUFFICES ASSUME store' # None, NEW w \in Tabs, pairs'[store'].by = w
               PROVE  \E m \in Renewals : /\ Granted(m)' /\ renewals'[m].tab = w
                                          /\ renewals'[m].pair = store'
    BY DEF SpentByRenewal
  <2>1. store' = store /\ store \in Pairs /\ w # t /\ pairs[store].by = w
    BY <1>2 DEF TypeOK
  <2>2. PICK m \in Renewals : Granted(m) /\ renewals[m].tab = w /\ renewals[m].pair = store
    BY <2>1 DEF SpentByRenewal
  <2>3. renewals'[m] = renewals[m]
    BY <2>1, <2>2
  <2> QED BY <2>1, <2>2, <2>3 DEF Granted
<1>11. OrphansSound' /\ StoredPairIsGood'
  <2> SUFFICES ASSUME store' # None, ~abandoned'
               PROVE  /\ ~LeftBehind(store)'
                      /\ \/ pairs'[store].refresh # "revoked"
                         \/ \E m \in Renewals : Live(m)' /\ renewals'[m].pair = store
                         \/ \E w \in Tabs : SigningOut(w)' /\ logouts'[w].pair = store
    BY DEF OrphansSound, LeftBehind, StoredPairIsGood, Live, SigningOut
  <2>1. store' = store /\ store \in Pairs /\ ~abandoned /\ ~Carries(t, store)
    BY DEF TypeOK
  <2>2. /\ \A m \in Renewals : renewals[m].tab = t => renewals[m].pair # store
        /\ SigningOut(t) => logouts[t].pair # store
    BY <2>1 DEF Carries, RenewalsOf, SigningOut
  <2>3. ~LeftBehind(store)'
    BY <1>4, <1>5, <2>1, <2>2 DEF OrphansSound, LeftBehind, SigningOut
  <2>4. \A m \in Renewals : Live(m) /\ renewals[m].pair = store =>
          Live(m)' /\ renewals'[m].pair = store
    BY <1>4, <2>2
  <2>5. \A w \in Tabs : SigningOut(w) /\ logouts[w].pair = store =>
          SigningOut(w)' /\ logouts'[w].pair = store
    BY <1>5, <2>2
  <2> QED BY <1>2, <2>1, <2>3, <2>4, <2>5 DEF StoredPairIsGood, Live, SigningOut
<1> QED BY <1>3, <1>6, <1>7, <1>8, <1>9, <1>10, <1>11

LEMMA SettleFailedInv ==
  ASSUME Inv, NEW n \in Renewals, SettleFailed(n)
  PROVE Inv'
<1> DEFINE t == renewals[n].tab
<1>1. /\ t \in Tabs /\ LeavePage(t) /\ store' = None /\ abandoned' = FALSE
      /\ renewals' = [m \in Renewals |->
                        IF m \in RenewalsOf(t) THEN IdleRenewal ELSE renewals[m]]
      /\ logouts' = [logouts EXCEPT ![t] = IdleLogout]
  BY DEF SettleFailed, Inv, RenewalSound, Heard
<1>2. IdleRenewal \in RenewalState /\ IdleLogout \in LogoutState
  BY DEF IdleRenewal, Renewal, RenewalState, IdleLogout, LogoutState
<1> HIDE DEF t
<1>3. /\ renewals' \in [Renewals -> RenewalState] /\ logouts' \in [Tabs -> LogoutState]
      /\ logouts'[t] = IdleLogout /\ \A w \in Tabs : w # t => logouts'[w] = logouts[w]
      /\ \A m \in Renewals : IF renewals[m].tab = t THEN renewals'[m] = IdleRenewal
                              ELSE renewals'[m] = renewals[m]
  BY <1>1, <1>2 DEF Inv, TypeOK, RenewalsOf
<1> QED BY <1>1, <1>3, LeaveInv

LEMMA CloseInv ==
  ASSUME Inv, NEW t \in Tabs, CloseTab(t)
  PROVE Inv'
<1>1. /\ LeavePage(t) /\ store' = store
      /\ abandoned' = (abandoned \/ (store # None /\ Carries(t, store)))
      /\ renewals' = [m \in Renewals |->
                        IF m \in RenewalsOf(t) THEN Orphan(renewals[m]) ELSE renewals[m]]
      /\ logouts' = [logouts EXCEPT ![t] = Unheard(@)]
  BY DEF CloseTab
<1>2. \A m \in Renewals :
        /\ Orphan(renewals[m]) \in RenewalState
        /\ \/ Orphan(renewals[m]) = IdleRenewal
           \/ /\ Live(m) /\ Orphan(renewals[m]).at \in {"posted", "checked"}
              /\ Orphan(renewals[m]).tab = None
              /\ Orphan(renewals[m]).pair = renewals[m].pair
  BY DEF Orphan, Inv, TypeOK, Live, IdleRenewal, Renewal, RenewalState
<1>3. /\ Unheard(logouts[t]) \in LogoutState
      /\ \/ Unheard(logouts[t]) = IdleLogout
         \/ /\ SigningOut(t) /\ Unheard(logouts[t]).at = "left"
            /\ Unheard(logouts[t]).pair = logouts[t].pair
  BY DEF Unheard, Inv, TypeOK, SigningOut, IdleLogout, LogoutState
<1>4. /\ renewals' \in [Renewals -> RenewalState]
      /\ \A m \in Renewals :
           IF renewals[m].tab = t THEN renewals'[m] = Orphan(renewals[m])
           ELSE renewals'[m] = renewals[m]
  BY <1>1, <1>2 DEF Inv, TypeOK, RenewalsOf
<1>5. /\ logouts' \in [Tabs -> LogoutState] /\ logouts'[t] = Unheard(logouts[t])
      /\ \A w \in Tabs : w # t => logouts'[w] = logouts[w]
  BY <1>1, <1>3 DEF Inv, TypeOK
<1>6. /\ abandoned' \in BOOLEAN /\ store' \in {store, None}
      /\ store' # None /\ (abandoned \/ Carries(t, store)) => abandoned'
  BY <1>1 DEF Inv, TypeOK
<1>7. \A m \in Renewals :
        /\ renewals[m].tab # t => renewals'[m] = renewals[m]
        /\ renewals[m].tab = t =>
             \/ renewals'[m] = IdleRenewal
             \/ /\ Live(m) /\ renewals'[m].at \in {"posted", "checked"}
                /\ renewals'[m].tab = None /\ renewals'[m].pair = renewals[m].pair
  BY <1>2, <1>4
<1>8. \/ logouts'[t] = IdleLogout
      \/ /\ SigningOut(t) /\ logouts'[t].at = "left"
         /\ logouts'[t].pair = logouts[t].pair
  BY <1>3, <1>5
<1> QED BY <1>1, <1>4, <1>5, <1>6, <1>7, <1>8, LeaveInv

LEMMA GrantInv ==
  ASSUME Inv, NEW n \in Renewals, NEW g \in Pairs, GrantRenewal(n, g)
  PROVE Inv'
<1> USE ClientAssumption DEF Inv
<1> DEFINE t == renewals[n].tab
           old == renewals[n].pair
           spent == [issued |-> TRUE, access |-> pairs[old].access,
                     refresh |-> "revoked", by |-> t]
<1>0. CASE ~Heard(n)
  <2>1. /\ Live(n) /\ old \in Pairs /\ pairs[old].issued /\ ~pairs[g].issued
        /\ t = None
    BY <1>0 DEF GrantRenewal, Live, Heard, RenewalSound
  <2>2. spent \in PairRow
    BY <2>1 DEF TypeOK, PairRow
  <2>3. pairs' = [pairs EXCEPT ![old] = spent]
    BY <2>1 DEF GrantRenewal, TypeOK
  <2>4. renewals' = [renewals EXCEPT ![n] = IdleRenewal]
    BY <2>1 DEF GrantRenewal, Replied
  <2> QED BY <1>0, <2>1, <2>2, <2>3, <2>4, OrphanInv DEF GrantRenewal
<1> SUFFICES ASSUME Heard(n) PROVE Inv'
  BY <1>0
<1>1. /\ renewals[n].at = "checked" /\ Live(n) /\ ~Granted(n)
      /\ ~pairs[g].issued
      /\ renewals' = [renewals EXCEPT ![n] = Renewal("granted", t, old, g)]
      /\ UNCHANGED <<store, calls, refreshRequest, logouts, abandoned>>
  BY DEF GrantRenewal, Replied, Live, Granted, Heard
<1>2. /\ t \in Tabs /\ refreshRequest[t] = n /\ old \in Pairs /\ pairs[old].issued
      /\ old # g
  BY <1>1 DEF RenewalSound, Heard
<1>3. /\ pairs' \in [Pairs -> PairRow]
      /\ pairs'[old].issued /\ pairs'[old].by = t /\ pairs'[g] = NewPair
      /\ \A h \in Pairs : h # old /\ h # g => pairs'[h] = pairs[h]
  <2>1. spent \in PairRow /\ NewPair \in PairRow
    BY <1>2 DEF TypeOK, PairRow, NewPair
  <2>2. pairs' = [h \in Pairs |-> IF h = old THEN spent
                                  ELSE IF h = g THEN NewPair ELSE pairs[h]]
    BY DEF GrantRenewal, Heard
  <2> QED BY <1>2, <2>1, <2>2 DEF TypeOK
<1>4. Renewal("granted", t, old, g) \in RenewalState
  BY <1>2 DEF Renewal, RenewalState
<1>5. /\ Granted(n)' /\ Live(n)' /\ renewals'[n].tab = t /\ renewals'[n].pair = old
      /\ renewals'[n].new = g
      /\ \A m \in Renewals : m # n => renewals'[m] = renewals[m]
  BY <1>1 DEF TypeOK, Renewal, Granted, Live
<1> HIDE DEF t, old, spent
<1>6. \A m \in Renewals : m # n => /\ Live(m)' <=> Live(m)
                                   /\ Granted(m)' <=> Granted(m)
                                   /\ Heard(m)' <=> Heard(m)
  BY <1>5 DEF Live, Granted, Heard
<1>7. \A h \in Pairs : pairs[h].issued => pairs'[h].issued /\ h # g
  BY <1>1, <1>3
<1>8. TypeOK' /\ Known'
  BY <1>1, <1>3, <1>4, <1>7 DEF TypeOK, Known, SigningOut
<1>9. \A m \in Renewals : RenewalSound(m)'
  <2>1. RenewalSound(n)'
    BY <1>1, <1>2, <1>3, <1>5 DEF RenewalSound, Heard
  <2>2. ASSUME NEW m \in Renewals, m # n, Live(m) PROVE RenewalSound(m)'
    <3>1. renewals[m].tab # t
      BY <1>2, <2>2 DEF RenewalSound, Heard
    <3>2. renewals[m].pair \in Pairs /\ pairs[renewals[m].pair].issued
      BY <2>2 DEF RenewalSound
    <3>3. pairs'[renewals[m].pair].by = pairs[renewals[m].pair].by
            \/ pairs'[renewals[m].pair].by = t
      BY <1>3, <1>7, <3>2
    <3> QED BY <1>1, <1>5, <1>6, <1>7, <2>2, <3>1, <3>2, <3>3 DEF RenewalSound
  <2>3. ASSUME NEW m \in Renewals, m # n, ~Live(m) PROVE RenewalSound(m)'
    BY <1>6, <2>3 DEF RenewalSound, Live, Granted
  <2> QED BY <2>1, <2>2, <2>3
<1>10. \A m \in Renewals : GrantSound(m)'
  <2>1. GrantSound(n)'
    <3>1. pairs'[g].issued /\ pairs'[g].refresh # "revoked" /\ pairs'[g].by = None
      BY <1>3 DEF NewPair
    <3>2. /\ store' # g
          /\ \A w \in Tabs : SigningOut(w)' => logouts'[w].pair # g
      BY <1>1, <1>7, ClientAssumption DEF Known, SigningOut, TypeOK
    <3>3. \A m \in Renewals : Live(m)' => renewals'[m].pair # g
      BY <1>2, <1>5, <1>6, <1>7 DEF RenewalSound
    <3>4. \A m \in Renewals : Granted(m)' /\ m # n => renewals'[m].new # g
      BY <1>5, <1>6, <1>7 DEF GrantSound
    <3> QED BY <1>5, <3>1, <3>2, <3>3, <3>4 DEF GrantSound
  <2>2. ASSUME NEW m \in Renewals, m # n, Granted(m) PROVE GrantSound(m)'
    <3>1. /\ renewals[m].new \in Pairs /\ pairs[renewals[m].new].issued
          /\ renewals[m].new # old /\ renewals[m].new # g
      BY <1>1, <1>7, <2>2 DEF GrantSound, old
    <3>2. pairs'[renewals[m].new] = pairs[renewals[m].new]
      BY <1>3, <3>1
    <3>3. /\ \A k \in Renewals : Live(k)' => renewals'[k].pair # renewals[m].new
          /\ \A k \in Renewals : Granted(k)' /\ k # m =>
                renewals'[k].new # renewals[m].new
      BY <1>5, <1>6, <2>2, <3>1 DEF GrantSound
    <3> QED BY <1>1, <1>5, <2>2, <3>1, <3>2, <3>3 DEF GrantSound, SigningOut
  <2> QED BY <1>6, <2>1, <2>2 DEF GrantSound
<1>11. \A w \in Tabs : RequestSound(w)'
  BY <1>1, <1>2, <1>5, <1>6 DEF RequestSound, TypeOK
<1>12. SpentByRenewal'
  <2> SUFFICES ASSUME store # None, NEW w \in Tabs, pairs'[store].by = w
               PROVE \E m \in Renewals : Granted(m)' /\ renewals'[m].tab = w
                                           /\ renewals'[m].pair = store
    BY <1>1 DEF SpentByRenewal
  <2>1. store \in Pairs /\ store # g
    BY <1>7 DEF TypeOK, Known
  <2>2. CASE store = old
    BY <1>3, <1>5, <2>2
  <2>3. CASE store # old
    <3>1. pairs[store].by = w
      BY <1>3, <2>1, <2>3
    <3>2. PICK m \in Renewals : Granted(m) /\ renewals[m].tab = w
                                  /\ renewals[m].pair = store
      BY <3>1 DEF SpentByRenewal
    <3> QED BY <1>1, <1>5, <1>6, <3>2
  <2> QED BY <2>2, <2>3
<1>13. StoredPairIsGood'
  <2>1. \A m \in Renewals : Live(m) => Live(m)' /\ renewals'[m].pair = renewals[m].pair
    BY <1>5, <1>6 DEF old
  <2> SUFFICES ASSUME store # None, pairs'[store].refresh = "revoked", store # old,
                      ~abandoned
               PROVE \/ \E m \in Renewals : Live(m)' /\ renewals'[m].pair = store
                     \/ \E w \in Tabs : logouts'[w].at # "idle" /\ logouts'[w].pair = store
    BY <1>1, <1>5 DEF StoredPairIsGood, Live
  <2>2. pairs'[store] = pairs[store]
    BY <1>3, <1>7 DEF TypeOK, Known
  <2> QED BY <1>1, <2>1, <2>2 DEF StoredPairIsGood, Live
<1>14. OrphansSound'
  <2>1. Heard(n)' /\ renewals'[n].tab = t /\ t # None
    BY <1>2, <1>5 DEF Heard
  <2> QED BY <1>1, <1>5, <1>6, <2>1 DEF OrphansSound, LeftBehind
<1> QED BY <1>8, <1>9, <1>10, <1>11, <1>12, <1>13, <1>14

-----------------------------------------------------------------------------
(* Login, logout and the clock: no renewal moves *)

LEMMA LoginInv ==
  ASSUME Inv, NEW g \in LoginPairs, Login(g)
  PROVE Inv'
<1> USE ClientAssumption DEF Inv
<1>1. /\ g \in Pairs /\ ~pairs[g].issued /\ store' = g /\ abandoned' = FALSE
      /\ pairs' = [pairs EXCEPT ![g] = NewPair]
      /\ UNCHANGED <<calls, refreshRequest, renewals, logouts>>
  BY DEF Login, Pairs
<1>2. NewPair \in PairRow
  BY DEF NewPair, PairRow
<1>3. /\ pairs'[g] = NewPair
      /\ \A h \in Pairs : h # g => pairs'[h] = pairs[h]
      /\ \A h \in Pairs : pairs[h].issued => h # g
  BY <1>1 DEF TypeOK
<1>4. TypeOK' /\ Known'
  BY <1>1, <1>2, <1>3 DEF TypeOK, Known, SigningOut, NewPair
<1>5. \A m \in Renewals : RenewalSound(m)'
  BY <1>1, <1>3 DEF RenewalSound, Live, Granted, Heard
<1>6. \A m \in Renewals : GrantSound(m)'
  BY <1>1, <1>3 DEF GrantSound, Live, Granted, SigningOut
<1>7. \A t \in Tabs : RequestSound(t)'
  BY <1>1 DEF RequestSound, Live
<1>8. SpentByRenewal' /\ StoredPairIsGood'
  BY <1>1, <1>3 DEF SpentByRenewal, StoredPairIsGood, NewPair
<1>9. OrphansSound'
  BY <1>1, <1>3 DEF OrphansSound, LeftBehind, RenewalSound, Known, SigningOut, Live, Heard
<1> QED BY <1>4, <1>5, <1>6, <1>7, <1>8, <1>9

\* A pair may lose its power, but the tab that has spent it stays the same or is
\* forgotten, and nobody revokes a pair that waits in the answer of a renewal.
Weakened(g) ==
  \E row \in PairRow :
    /\ pairs' = [pairs EXCEPT ![g] = row]
    /\ row.issued = pairs[g].issued
    /\ row.by \in {None, pairs[g].by}
    /\ \/ row.refresh = "revoked" => pairs[g].refresh = "revoked"
       \/ \E t \in Tabs : SigningOut(t) /\ logouts[t].pair = g

LEMMA WeakenedInv ==
  ASSUME Inv, NEW g \in Pairs, Weakened(g),
         UNCHANGED <<store, calls, refreshRequest, renewals, abandoned>>,
         logouts' \in [Tabs -> LogoutState],
         \A t \in Tabs :
           /\ SigningOut(t)' => SigningOut(t) /\ logouts'[t].pair = logouts[t].pair
           /\ logouts'[t].at = "left" => logouts[t].at = "left"
           /\ SigningOut(t) /\ ~SigningOut(t)' => logouts[t].at = "left"
  PROVE Inv'
<1> USE ClientAssumption DEF Inv
<1>1. /\ pairs' \in [Pairs -> PairRow]
      /\ \A h \in Pairs : /\ pairs'[h].issued = pairs[h].issued
                          /\ pairs'[h].by \in {None, pairs[h].by}
                          /\ \/ pairs'[h].refresh = "revoked" => pairs[h].refresh = "revoked"
                             \/ \E t \in Tabs : SigningOut(t) /\ logouts[t].pair = h
  BY DEF Weakened, TypeOK
<1>2. TypeOK' /\ Known'
  BY <1>1 DEF TypeOK, Known
<1>3. \A m \in Renewals : RenewalSound(m)'
  BY <1>1 DEF RenewalSound, Live, Granted, Heard
<1>4. \A m \in Renewals : GrantSound(m)'
  BY <1>1 DEF GrantSound, Live, Granted
<1>5. \A t \in Tabs : RequestSound(t)'
  BY DEF RequestSound, Live
<1>6. SpentByRenewal'
  BY <1>1 DEF SpentByRenewal, Granted, TypeOK
<1>7. OrphansSound'
  BY DEF OrphansSound, LeftBehind, Live, Heard, SigningOut
<1>8. StoredPairIsGood'
  <2>1. \A t \in Tabs : SigningOut(t) /\ logouts[t].pair = store /\ store # None =>
          abandoned \/ (SigningOut(t)' /\ logouts'[t].pair = store)
    BY DEF OrphansSound, LeftBehind
  <2> QED BY <1>1, <2>1 DEF StoredPairIsGood, SigningOut, TypeOK
<1> QED BY <1>2, <1>3, <1>4, <1>5, <1>6, <1>7, <1>8

LEMMA ServerInv ==
  ASSUME Inv,
         \/ \E t \in Tabs : ServeLogout(t) \/ DropLogout(t)
         \/ \E g \in Pairs : ExpireAccess(g) \/ ExpireRefresh(g)
  PROVE Inv'
<1> USE DEF Inv
<1>1. ASSUME NEW t \in Tabs, ServeLogout(t) PROVE Inv'
  <2> DEFINE g == logouts[t].pair
  <2>1. /\ SigningOut(t) /\ g \in Pairs /\ pairs[g].issued
        /\ UNCHANGED <<store, calls, refreshRequest, renewals, abandoned>>
        /\ logouts' = [logouts EXCEPT ![t] = IF @.at = "posted"
                                             THEN [at |-> "answered", pair |-> g]
                                             ELSE IdleLogout]
        /\ logouts[t].at \in {"posted", "left"}
    BY <1>1 DEF ServeLogout, SigningOut, Known
  <2>2. /\ logouts' \in [Tabs -> LogoutState]
        /\ \A w \in Tabs :
             /\ SigningOut(w)' => SigningOut(w) /\ logouts'[w].pair = logouts[w].pair
             /\ logouts'[w].at = "left" => logouts[w].at = "left"
             /\ SigningOut(w) /\ ~SigningOut(w)' => logouts[w].at = "left"
    BY <2>1 DEF TypeOK, LogoutState, SigningOut, IdleLogout
  <2>3. Weakened(g)
    <3>1. CASE Good(g)
      <4> DEFINE row == [issued |-> TRUE, access |-> pairs[g].access,
                         refresh |-> "revoked", by |-> None]
      <4>1. row \in PairRow
        BY <2>1 DEF TypeOK, PairRow
      <4>2. pairs' = [pairs EXCEPT ![g] = row]
        BY <1>1, <3>1 DEF ServeLogout, Revoke
      <4>3. row.issued = pairs[g].issued
        BY <2>1 DEF TypeOK, PairRow
      <4> QED BY <2>1, <4>1, <4>2, <4>3 DEF Weakened
    <3>2. CASE ~Good(g)
      <4>1. pairs[g] \in PairRow /\ pairs' = [pairs EXCEPT ![g] = pairs[g]]
        BY <1>1, <2>1, <3>2 DEF ServeLogout, TypeOK
      <4> QED BY <4>1 DEF Weakened
    <3> QED BY <3>1, <3>2
  <2> QED BY <2>1, <2>2, <2>3, WeakenedInv
<1>2. ASSUME NEW g \in Pairs, NEW row \in PairRow,
             pairs' = [pairs EXCEPT ![g] = row],
             row.issued = pairs[g].issued, row.by = pairs[g].by,
             row.refresh = "revoked" => pairs[g].refresh = "revoked",
             UNCHANGED <<store, calls, refreshRequest, renewals, logouts, abandoned>>
      PROVE Inv'
  <2>1. Weakened(g)
    BY <1>2 DEF Weakened
  <2> QED BY <1>2, <2>1, WeakenedInv DEF SigningOut, TypeOK
<1>3. ASSUME NEW g \in Pairs, ExpireAccess(g) PROVE Inv'
  <2> DEFINE row == [issued |-> pairs[g].issued, access |-> FALSE,
                     refresh |-> pairs[g].refresh, by |-> pairs[g].by]
  <2>1. row \in PairRow
    BY DEF TypeOK, PairRow
  <2>2. pairs' = [pairs EXCEPT ![g] = row]
    BY <1>3 DEF ExpireAccess
  <2> QED BY <1>2, <1>3, <2>1, <2>2 DEF ExpireAccess
<1>4. ASSUME NEW g \in Pairs, ExpireRefresh(g) PROVE Inv'
  <2> DEFINE row == [issued |-> pairs[g].issued, access |-> FALSE,
                     refresh |-> "expired", by |-> pairs[g].by]
  <2>1. row \in PairRow
    BY DEF TypeOK, PairRow
  <2>2. pairs' = [pairs EXCEPT ![g] = row]
    BY <1>4 DEF ExpireRefresh
  <2> QED BY <1>2, <1>4, <2>1, <2>2 DEF ExpireRefresh
<1>5. ASSUME NEW t \in Tabs, DropLogout(t) PROVE Inv'
  <2> DEFINE g == logouts[t].pair
  <2>1. /\ g \in Pairs /\ logouts[t].at = "left"
        /\ logouts' = [logouts EXCEPT ![t] = IdleLogout]
        /\ UNCHANGED <<store, pairs, calls, refreshRequest, renewals, abandoned>>
    BY <1>5 DEF DropLogout, SigningOut, Known
  <2>2. Weakened(g)
    BY <2>1 DEF Weakened, TypeOK
  <2>3. /\ logouts' \in [Tabs -> LogoutState]
        /\ \A w \in Tabs :
             /\ SigningOut(w)' => SigningOut(w) /\ logouts'[w].pair = logouts[w].pair
             /\ logouts'[w].at = "left" => logouts[w].at = "left"
             /\ SigningOut(w) /\ ~SigningOut(w)' => logouts[w].at = "left"
    BY <2>1 DEF TypeOK, LogoutState, SigningOut, IdleLogout
  <2> QED BY <2>1, <2>2, <2>3, WeakenedInv
<1> QED BY <1>1, <1>3, <1>4, <1>5

LEMMA LogoutInv ==
  ASSUME Inv, NEW t \in Tabs, BeginLogout(t) \/ EndLogout(t)
  PROVE Inv'
<1> USE ClientAssumption DEF Inv
<1>1. CASE BeginLogout(t)
  <2>1. /\ store \in Pairs /\ pairs[store].issued /\ ~SigningOut(t)
        /\ logouts' = [logouts EXCEPT ![t] = [at |-> "posted", pair |-> store]]
        /\ UNCHANGED <<store, pairs, calls, refreshRequest, renewals, abandoned>>
    BY <1>1 DEF BeginLogout, TypeOK, Known, SigningOut
  <2>2. TypeOK' /\ Known'
    BY <2>1 DEF TypeOK, Known, SigningOut, LogoutState
  <2>3. \A w \in Tabs : w # t => logouts'[w] = logouts[w]
    BY <2>1 DEF TypeOK
  <2>4. logouts'[t].pair = store
    BY <2>1 DEF TypeOK
  <2>5. \A m \in Renewals : RenewalSound(m)' /\ GrantSound(m)'
    BY <2>1, <2>3, <2>4 DEF RenewalSound, GrantSound, Live, Granted, Heard, SigningOut
  <2>6. StoredPairIsGood'
    BY <2>1, <2>3, <2>4 DEF StoredPairIsGood, SigningOut
  <2>7. OrphansSound'
    BY <2>1, <2>3 DEF OrphansSound, LeftBehind, Live, Heard, TypeOK
  <2> QED BY <2>1, <2>2, <2>5, <2>6, <2>7 DEF RequestSound, SpentByRenewal, Live, Granted
<1>2. CASE EndLogout(t)
  <2>1. /\ store' = None /\ abandoned' = FALSE
        /\ logouts' = [logouts EXCEPT ![t] = IdleLogout]
        /\ UNCHANGED <<pairs, calls, refreshRequest, renewals>>
    BY <1>2 DEF EndLogout
  <2>2. \A w \in Tabs : SigningOut(w)' => SigningOut(w) /\ logouts'[w] = logouts[w]
    BY <2>1 DEF TypeOK, SigningOut, IdleLogout
  <2>3. TypeOK' /\ Known'
    BY <2>1, <2>2 DEF TypeOK, Known, LogoutState, IdleLogout
  <2>4. \A m \in Renewals : RenewalSound(m)' /\ GrantSound(m)'
    BY <2>1, <2>2 DEF RenewalSound, GrantSound, Live, Granted, Heard
  <2> QED BY <2>1, <2>3, <2>4 DEF RequestSound, SpentByRenewal, StoredPairIsGood,
                                  OrphansSound, Live, Granted
<1> QED BY <1>1, <1>2

-----------------------------------------------------------------------------

LEMMA NextInv == Inv /\ [Next]_vars => Inv'
<1>1. CASE UNCHANGED vars
  BY <1>1 DEF vars, Inv, TypeOK, Known, RenewalSound, GrantSound, RequestSound,
              SpentByRenewal, OrphansSound, LeftBehind, StoredPairIsGood,
              Heard, Live, Granted, SigningOut
<1> QED
  BY <1>1, CallMoves, StartInv, CheckInv, SettleGrantedInv, SettleFailedInv, GrantInv,
     DropInv, CloseInv, LoginInv, ServerInv, LogoutInv
  DEF Next, ServeCall, ServeRenewal, Pairs

LEMMA Invariance == Spec => []Inv
  BY InitInv, NextInv, PTL DEF Spec

\* The browser, the server and the requests between them keep their types.
THEOREM ClientTypes == Spec => []TypeOK
<1>1. Inv => TypeOK
  BY DEF Inv
<1> QED BY <1>1, Invariance, PTL

\* No tab is left with a spent pair, however many tabs renew, log in and log out,
\* unless a page that carried the pair was closed or reloaded.
THEOREM StoredPair == Spec => []StoredPairIsGood
<1>1. Inv => StoredPairIsGood
  BY DEF Inv
<1> QED BY <1>1, Invariance, PTL

\* A page is never refused a renewal because of a renewal of its own.
THEOREM SharedRenewal == Spec => []OwnRenewalsNeverClash
<1>1. Inv => OwnRenewalsNeverClash
  BY ClientAssumption
  DEF Inv, RenewalSound, OwnRenewalsNeverClash, Live, Granted, Heard
<1> QED BY <1>1, Invariance, PTL

-----------------------------------------------------------------------------
(* Repeated calls *)

\* The pair in the header of a call was issued, and is not one that the server has
\* granted to a renewal and no tab has stored yet.
HeaderSound(c) ==
  calls[c].at # "idle" /\ calls[c].header # None =>
    /\ calls[c].header \in Pairs /\ pairs[calls[c].header].issued
    /\ \A n \in Renewals : Granted(n) => renewals[n].new # calls[c].header
HeadersSound == \A c \in Calls : HeaderSound(c)

\* A call that keeps its header is as sound after a step that un-issues no pair and
\* grants none that was issued.
LEMMA HeaderKept ==
  ASSUME NEW c \in Calls, HeaderSound(c),
         calls'[c].at # "idle" => calls[c].at # "idle" /\ calls'[c].header = calls[c].header,
         \A g \in Pairs : pairs[g].issued => pairs'[g].issued,
         \A n \in Renewals : Granted(n)' =>
           \/ Granted(n) /\ renewals'[n].new = renewals[n].new
           \/ ~pairs[renewals'[n].new].issued
  PROVE  HeaderSound(c)'
  BY DEF HeaderSound

LEMMA PairsStayIssued ==
  ASSUME Inv, Next
  PROVE  \A g \in Pairs : pairs[g].issued => pairs'[g].issued
<1> DEFINE Stay == \A g \in Pairs : pairs[g].issued => pairs'[g].issued
<1> USE DEF Inv, TypeOK
<1>1. ASSUME UNCHANGED pairs PROVE Stay
  BY <1>1
<1>2. ASSUME NEW g \in LoginPairs, Login(g) PROVE Stay
  BY <1>2 DEF Login, NewPair
<1>3. ASSUME NEW t \in Tabs, ServeLogout(t) PROVE Stay
  BY <1>3 DEF ServeLogout, Revoke
<1>4. ASSUME NEW g \in Pairs, ExpireAccess(g) \/ ExpireRefresh(g) PROVE Stay
  BY <1>4 DEF ExpireAccess, ExpireRefresh
<1>5. ASSUME NEW n \in Renewals, NEW g \in RenewalPairs, GrantRenewal(n, g) PROVE Stay
  BY <1>5 DEF GrantRenewal, NewPair
<1>6. ASSUME NEW t \in Tabs, LeavePage(t) PROVE Stay
  BY <1>6 DEF LeavePage
<1>7. ASSUME NEW n \in Renewals, SettleFailed(n) PROVE Stay
  BY <1>6, <1>7 DEF SettleFailed, RenewalSound, Heard
<1> HIDE DEF Stay
<1>8. Stay
  BY <1>1, <1>2, <1>3, <1>4, <1>5, <1>6, <1>7
  DEF Next, ServeCall, ServeRenewal, Call, BeginLogout, EndLogout, Answer, GiveUp,
      JoinRenewal, StartRenewal, PostRenewal, CheckRenewal, SettleGranted,
      DropRenewal, DropLogout, CloseTab
<1> QED BY <1>8 DEF Stay

\* Only the grant itself puts a new pair in the answer of a renewal.
LEMMA GrantsAreNew ==
  ASSUME Inv, Next
  PROVE  \A n \in Renewals : Granted(n)' =>
           \/ Granted(n) /\ renewals'[n].new = renewals[n].new
           \/ ~pairs[renewals'[n].new].issued
<1> DEFINE New ==
      \A n \in Renewals : Granted(n)' =>
        \/ Granted(n) /\ renewals'[n].new = renewals[n].new
        \/ ~pairs[renewals'[n].new].issued
<1> USE DEF Inv, TypeOK, Granted
<1>1. ASSUME UNCHANGED renewals PROVE New
  BY <1>1
<1>2. ASSUME NEW n \in Renewals, NEW g \in RenewalPairs, GrantRenewal(n, g) PROVE New
  BY <1>2 DEF GrantRenewal, Replied, IdleRenewal, Renewal
<1>3. ASSUME NEW c \in Calls, NEW n \in Renewals, PostRenewal(c, n) PROVE New
  BY <1>3 DEF PostRenewal, Renewal
<1>4. ASSUME NEW n \in Renewals, CheckRenewal(n) PROVE New
  BY <1>4 DEF CheckRenewal, Replied, IdleRenewal, Renewal
<1>5. ASSUME NEW n \in Renewals, SettleGranted(n) \/ DropRenewal(n) PROVE New
  BY <1>5 DEF SettleGranted, DropRenewal, IdleRenewal, Renewal
<1>6. ASSUME NEW n \in Renewals, SettleFailed(n) PROVE New
  BY <1>6 DEF SettleFailed, IdleRenewal, Renewal
<1>7. ASSUME NEW t \in Tabs, CloseTab(t) PROVE New
  BY <1>7 DEF CloseTab, Orphan, IdleRenewal, Renewal
<1> HIDE DEF New
<1>8. New
  BY <1>1, <1>2, <1>3, <1>4, <1>5, <1>6, <1>7
  DEF Next, ServeCall, ServeRenewal, Call, Login, ServeLogout, ExpireAccess,
      ExpireRefresh, BeginLogout, EndLogout, DropLogout, Answer, GiveUp, JoinRenewal,
      StartRenewal
<1> QED BY <1>8 DEF New

\* What a step does with a call: it goes on with its header, it starts with the
\* stored pair, or its renewal was granted and it goes on with the new pair.
Continues(c) == calls'[c].at # "idle" =>
  /\ calls[c].at # "idle" /\ calls'[c].header = calls[c].header
  /\ calls'[c].at = "sent" => calls'[c] = calls[c]
Starts(c) == calls[c].at = "idle" /\ calls'[c].header = store
Resumes(c) == \E n \in Renewals :
  /\ Granted(n) /\ ~Granted(n)'
  /\ calls[c].at = "waiting" /\ calls'[c].retried
  /\ calls'[c].header = renewals[n].new

LEMMA StepOfCall ==
  ASSUME Inv, Next, NEW c \in Calls
  PROVE  Continues(c) \/ Resumes(c) \/ (Starts(c) /\ UNCHANGED <<pairs, renewals>>)
<1> DEFINE Goal ==
      Continues(c) \/ Resumes(c) \/ (Starts(c) /\ UNCHANGED <<pairs, renewals>>)
<1> USE DEF Inv, TypeOK
<1>1. ASSUME UNCHANGED calls PROVE Goal
  BY <1>1 DEF Continues
<1>2. ASSUME NEW d \in Calls, NEW t \in Tabs, Call(d, t) PROVE Goal
  BY <1>2 DEF Call, Sent, Continues, Starts
<1>3. ASSUME NEW d \in Calls, Answer(d) \/ GiveUp(d) PROVE Goal
  BY <1>3 DEF Answer, GiveUp, IdleCall, Continues
<1>4. ASSUME NEW d \in Calls, NEW n \in Renewals, Refused(d), Wait(d, n) PROVE Goal
  BY <1>4 DEF Refused, Wait, Continues
<1>5. ASSUME NEW d \in Calls, ServeCall(d) PROVE Goal
  <2>1. JoinRenewal(d) => refreshRequest[calls[d].tab] \in Renewals
    BY DEF JoinRenewal, Refused, Known
  <2> HIDE DEF Goal
  <2> QED BY <1>3, <1>4, <1>5, <2>1
          DEF ServeCall, JoinRenewal, StartRenewal, PostRenewal
<1>6. ASSUME NEW n \in Renewals, SettleGranted(n) PROVE Goal
  <2>1. CASE Waiting(c, n)
    <3>1. calls'[c] = Sent(calls[c].tab, renewals[n].new, TRUE)
      BY <1>6, <2>1 DEF SettleGranted, Settled, Resent
    <3>2. Granted(n) /\ ~Granted(n)'
      BY <1>6 DEF SettleGranted, Granted, IdleRenewal, Renewal
    <3> QED BY <2>1, <3>1, <3>2 DEF Resumes, Waiting, Sent
  <2>2. CASE ~Waiting(c, n)
    BY <1>6, <2>2 DEF SettleGranted, Settled, Continues
  <2> QED BY <2>1, <2>2
<1>7. ASSUME NEW t \in Tabs \cup {None}, LeavePage(t) PROVE Goal
  BY <1>7 DEF LeavePage, IdleCall, Continues
<1>8. ASSUME NEW n \in Renewals, SettleFailed(n) PROVE Goal
  BY <1>7, <1>8 DEF SettleFailed, RenewalSound, Heard
<1> HIDE DEF Goal
<1>9. Goal
  BY <1>1, <1>2, <1>5, <1>6, <1>7, <1>8
  DEF Next, ServeRenewal, Login, ServeLogout, ExpireAccess, ExpireRefresh,
      BeginLogout, EndLogout, CheckRenewal, GrantRenewal, DropRenewal, DropLogout,
      CloseTab
<1> QED BY <1>9 DEF Goal

LEMMA HeadersStep ==
  ASSUME Inv, HeadersSound, Next, NEW c \in Calls
  PROVE  HeaderSound(c)'
<1> USE DEF Inv
<1>1. CASE Continues(c)
  BY <1>1, HeaderKept, PairsStayIssued, GrantsAreNew DEF Continues, HeadersSound
<1>2. ASSUME NEW n \in Renewals, Granted(n), ~Granted(n)',
             calls'[c].header = renewals[n].new
      PROVE HeaderSound(c)'
  <2> DEFINE g == renewals[n].new
  <2>1. g \in Pairs /\ pairs[g].issued /\ pairs'[g].issued
    BY <1>2, PairsStayIssued DEF GrantSound
  <2>2. ASSUME NEW m \in Renewals, Granted(m)' PROVE renewals'[m].new # g
    <3>1. CASE Granted(m) /\ renewals'[m].new = renewals[m].new
      BY <1>2, <2>2, <3>1 DEF GrantSound
    <3>2. CASE ~pairs[renewals'[m].new].issued
      BY <2>1, <3>2
    <3> QED BY <2>2, <3>1, <3>2, GrantsAreNew
  <2> QED BY <1>2, <2>1, <2>2 DEF HeaderSound
<1>3. CASE Starts(c) /\ UNCHANGED <<pairs, renewals>>
  BY <1>3 DEF Starts, HeaderSound, Known, TypeOK, GrantSound, Granted
<1> QED BY <1>1, <1>2, <1>3, StepOfCall DEF Resumes

LEMMA HeadersInvariance == Spec => []HeadersSound
<1>1. Init => HeadersSound
  BY DEF Init, HeadersSound, HeaderSound, IdleCall
<1>2. Inv /\ HeadersSound /\ [Next]_vars => HeadersSound'
  <2>1. ASSUME HeadersSound, UNCHANGED vars PROVE HeadersSound'
    BY <2>1 DEF vars, HeadersSound, HeaderSound, Granted
  <2> QED BY <2>1, HeadersStep DEF HeadersSound
<1> QED BY <1>1, <1>2, Invariance, PTL DEF Spec

\* A call is repeated once, when its renewal is granted, and with another token
\* than the one that was refused.
THEOREM RepeatedOnce == Spec => RepeatedOnceWithNewToken
<1> DEFINE Once ==
      \A c \in Calls :
        calls[c].at # "idle" /\ calls'[c].at = "sent" /\ calls'[c] # calls[c] =>
          /\ calls[c].at = "waiting" /\ calls'[c].retried
          /\ calls'[c].header # calls[c].header
<1>1. ASSUME Inv, HeadersSound, Next PROVE Once
  <2> SUFFICES ASSUME NEW c \in Calls, calls[c].at # "idle", calls'[c].at = "sent",
                      calls'[c] # calls[c]
               PROVE /\ calls[c].at = "waiting" /\ calls'[c].retried
                     /\ calls'[c].header # calls[c].header
    OBVIOUS
  <2>1. Resumes(c)
    BY <1>1, StepOfCall DEF Continues, Starts
  <2>2. PICK n \in Renewals : /\ Granted(n)
                              /\ calls[c].at = "waiting" /\ calls'[c].retried
                              /\ calls'[c].header = renewals[n].new
    BY <2>1 DEF Resumes
  <2>3. renewals[n].new # None
    BY <1>1, <2>2, ClientAssumption DEF Inv, GrantSound
  <2> QED BY <1>1, <2>2, <2>3 DEF HeadersSound, HeaderSound
<1>2. Inv /\ HeadersSound /\ [Next]_vars => [Once]_vars
  BY <1>1
<1> QED BY <1>2, Invariance, HeadersInvariance, PTL DEF Spec, RepeatedOnceWithNewToken

-----------------------------------------------------------------------------
(* Progress: the safety half of EveryCallSettles *)

\* A call that waits, waits for a renewal of its own tab that is under way.
WaiterSound(c) ==
  calls[c].at = "waiting" =>
    /\ calls[c].on \in Renewals /\ Live(calls[c].on)
    /\ renewals[calls[c].on].tab = calls[c].tab
WaitersAreServed == \A c \in Calls : WaiterSound(c)

\* What a call and a renewal still have before them, at most: a renewal is checked,
\* granted and settled, or loses its page on the way, and a call is sent, waits and
\* is sent again.
CallLeft(c) == CASE calls[c].at = "sent" /\ ~calls[c].retried -> 3
                 [] calls[c].at = "waiting"                   -> 2
                 [] calls[c].at = "sent" /\ calls[c].retried  -> 1
                 [] OTHER                                     -> 0
RenewalLeft(n) == CASE renewals[n].at = "posted" /\ Heard(n)     -> 5
                    [] renewals[n].at = "checked" /\ Heard(n)    -> 4
                    [] renewals[n].at \in {"granted", "refused"} -> 3
                    [] renewals[n].at = "posted" /\ ~Heard(n)    -> 2
                    [] renewals[n].at = "checked" /\ ~Heard(n)   -> 1
                    [] OTHER                                     -> 0

CallsAdvance == \A c \in Calls :
  /\ ServeCall(c) => CallLeft(c)' < CallLeft(c)
  /\ calls[c].at # "idle" => calls'[c] = calls[c] \/ CallLeft(c)' < CallLeft(c)
RenewalsAdvance == \A n \in Renewals :
  /\ ServeRenewal(n) => RenewalLeft(n)' < RenewalLeft(n)
  /\ Live(n) => renewals'[n] = renewals[n] \/ RenewalLeft(n)' < RenewalLeft(n)

\* The ways in which a step leaves a call or moves it.
Ended(c) == calls'[c] = IdleCall
Waits(c) ==
  /\ Refused(c) /\ ~calls[c].retried
  /\ calls'[c].at = "waiting" /\ calls'[c].on \in Renewals
  /\ renewals'[calls'[c].on].at # "idle" /\ calls'[c].tab = calls[c].tab
  /\ renewals'[calls'[c].on].tab = calls[c].tab
SentAgain(c) == calls[c].at = "waiting" /\ calls'[c].at = "sent" /\ calls'[c].retried

\* A renewal is as it was, further on, over, or without its page; when it is over or
\* its page is gone, so are the calls that waited for it, or they were sent again.
Moved(n) ==
  /\ renewals'[n].tab = renewals[n].tab
  /\ \/ renewals[n].at = "posted" /\ renewals'[n].at = "checked"
     \/ renewals[n].at = "posted" /\ renewals'[n].at = "refused" /\ Heard(n)
     \/ renewals[n].at = "checked" /\ renewals'[n].at = "granted" /\ Heard(n)
Over(n) ==
  /\ \/ renewals'[n].at = "idle"
     \/ Heard(n) /\ ~Heard(n)' /\ renewals'[n].at = renewals[n].at
          /\ renewals[n].at \in {"posted", "checked"}
  /\ \A c \in Calls : Waiting(c, n) /\ calls[c].tab = renewals[n].tab =>
       Ended(c) \/ SentAgain(c)
RenewalStep(n) == renewals'[n] = renewals[n] \/ Moved(n) \/ Over(n)
CallStep(c) == calls'[c] = calls[c] \/ Ended(c) \/ Waits(c) \/ SentAgain(c)

LEMMA CallCounts ==
  ASSUME TypeOK, NEW c \in Calls, calls[c].at # "idle"
  PROVE  /\ Ended(c) => CallLeft(c)' < CallLeft(c)
         /\ Waits(c) => CallLeft(c)' < CallLeft(c)
         /\ SentAgain(c) => CallLeft(c)' < CallLeft(c)
<1>1. calls[c].at \in {"sent", "waiting"} /\ calls[c].retried \in BOOLEAN
  BY DEF TypeOK, CallState
<1>2. CallLeft(c) \in 1 .. 3
  BY <1>1 DEF CallLeft
<1>3. Ended(c) => CallLeft(c)' = 0
  BY DEF Ended, IdleCall, CallLeft
<1>4. Waits(c) => CallLeft(c) = 3 /\ CallLeft(c)' = 2
  BY DEF Waits, Refused, CallLeft
<1>5. SentAgain(c) => CallLeft(c) = 2 /\ CallLeft(c)' = 1
  BY DEF SentAgain, CallLeft
<1> QED BY <1>2, <1>3, <1>4, <1>5

LEMMA RenewalCounts ==
  ASSUME TypeOK, NEW n \in Renewals, Live(n), Moved(n) \/ Over(n)
  PROVE  RenewalLeft(n)' < RenewalLeft(n)
<1>1. renewals[n].at \in {"posted", "checked", "granted", "refused"}
  BY DEF TypeOK, RenewalState, Live
<1>2. RenewalLeft(n) \in 1 .. 5
  BY <1>1 DEF RenewalLeft
<1>3. CASE renewals'[n].at = "idle"
  <2>1. RenewalLeft(n)' = 0
    BY <1>3 DEF RenewalLeft
  <2> QED BY <1>2, <2>1
<1>4. CASE Heard(n) /\ ~Heard(n)' /\ renewals'[n].at = renewals[n].at
             /\ renewals[n].at \in {"posted", "checked"}
  <2>1. RenewalLeft(n) \in {4, 5} /\ RenewalLeft(n)' \in {1, 2}
    BY <1>4 DEF RenewalLeft
  <2> QED BY <2>1
<1>5. CASE Moved(n)
  <2>1. Heard(n)' <=> Heard(n)
    BY <1>5 DEF Moved, Heard
  <2> QED BY <1>5, <2>1 DEF Moved, RenewalLeft
<1> QED BY <1>3, <1>4, <1>5 DEF Over

\* What the answer to a call does to it.
LEMMA ServedCall ==
  ASSUME Inv, NEW c \in Calls, ServeCall(c)
  PROVE  calls[c].at # "idle" /\ (Ended(c) \/ Waits(c))
<1> USE DEF Inv, TypeOK
<1>1. CASE Answer(c) \/ GiveUp(c)
  BY <1>1 DEF Answer, GiveUp, Refused, Ended
<1>2. CASE JoinRenewal(c)
  <2> DEFINE n == refreshRequest[calls[c].tab]
  <2>1. calls[c].tab \in Tabs
    BY <1>2 DEF JoinRenewal, Refused, Known
  <2>2. n \in Renewals /\ Live(n) /\ renewals[n].tab = calls[c].tab
    BY <1>2, <2>1 DEF JoinRenewal, RequestSound
  <2>3. /\ calls'[c].at = "waiting" /\ calls'[c].on = n /\ calls'[c].tab = calls[c].tab
        /\ Refused(c) /\ ~calls[c].retried /\ UNCHANGED renewals
    BY <1>2 DEF JoinRenewal, Wait
  <2> HIDE DEF n
  <2> QED BY <2>2, <2>3 DEF Waits, Live, Refused
<1>3. ASSUME NEW n \in Renewals, StartRenewal(c, n)
      PROVE  calls[c].at # "idle" /\ Waits(c)
  <2>1. /\ renewals'[n] = Renewal("posted", calls[c].tab, store, None)
        /\ calls'[c].at = "waiting" /\ calls'[c].on = n /\ calls'[c].tab = calls[c].tab
        /\ Refused(c) /\ ~calls[c].retried
    BY <1>3 DEF StartRenewal, PostRenewal, Wait
  <2> QED BY <2>1 DEF Waits, Live, Renewal, Refused
<1> QED BY <1>1, <1>2, <1>3 DEF ServeCall

\* A page that ends takes its calls along.
LEMMA LeftPage ==
  ASSUME Inv, NEW t \in Tabs, LeavePage(t),
         \A m \in Renewals :
           /\ renewals[m].tab # t => renewals'[m] = renewals[m]
           /\ renewals[m].tab = t => renewals'[m].at \in {"idle", renewals[m].at}
           /\ renewals[m].tab = t /\ renewals'[m].at # "idle" =>
                renewals'[m].tab = None /\ renewals[m].at \in {"posted", "checked"}
  PROVE  /\ \A m \in Renewals : renewals'[m] = renewals[m] \/ Over(m)
         /\ \A m \in Renewals : renewals[m].tab = t => Over(m)
         /\ \A c \in Calls : calls'[c] = calls[c] \/ Ended(c)
<1>1. \A c \in Calls : IF calls[c].tab = t THEN Ended(c) ELSE calls'[c] = calls[c]
  BY DEF LeavePage, Ended
<1>2. ASSUME NEW m \in Renewals, renewals[m].tab = t PROVE Over(m)
  BY <1>1, <1>2, ClientAssumption DEF Over, Heard
<1> QED BY <1>1, <1>2

LEMMA ServedRenewal ==
  ASSUME Inv, NEW n \in Renewals, ServeRenewal(n)
  PROVE  /\ Live(n)
         /\ Moved(n) \/ Over(n)
         /\ \A m \in Renewals : RenewalStep(m)
         /\ \A c \in Calls : calls'[c] = calls[c] \/ Ended(c) \/ SentAgain(c)
<1> USE ClientAssumption DEF Inv, TypeOK
<1>1. CASE \/ CheckRenewal(n) \/ DropRenewal(n)
           \/ \E g \in RenewalPairs : GrantRenewal(n, g)
  <2>1. /\ UNCHANGED calls /\ Live(n)
        /\ \A m \in Renewals : m # n => renewals'[m] = renewals[m]
    BY <1>1 DEF CheckRenewal, DropRenewal, GrantRenewal, Live
  <2>2. Moved(n) \/ (renewals'[n].at = "idle" /\ ~Heard(n))
    BY <1>1 DEF CheckRenewal, DropRenewal, GrantRenewal, Replied, Renewal, IdleRenewal,
                Moved, Heard
  <2>3. renewals'[n].at = "idle" /\ ~Heard(n) => Over(n)
    BY DEF Over, Heard, Waiting, Known
  <2> QED BY <2>1, <2>2, <2>3 DEF RenewalStep
<1>2. CASE SettleGranted(n)
  <2>1. renewals'[n] = IdleRenewal /\ Live(n)
    BY <1>2 DEF SettleGranted, Live
  <2>2. \A m \in Renewals : m # n => renewals'[m] = renewals[m]
    BY <1>2 DEF SettleGranted
  <2>3. \A c \in Calls : /\ Waiting(c, n) => SentAgain(c)
                         /\ ~Waiting(c, n) => calls'[c] = calls[c]
    BY <1>2 DEF SettleGranted, Settled, Resent, Sent, SentAgain, Waiting
  <2>4. Over(n)
    BY <2>1, <2>3 DEF Over, IdleRenewal, Renewal
  <2> QED BY <2>1, <2>2, <2>3, <2>4 DEF RenewalStep
<1>3. CASE SettleFailed(n)
  <2> DEFINE t == renewals[n].tab
  <2>1. Live(n) /\ t \in Tabs /\ LeavePage(t)
    BY <1>3 DEF SettleFailed, RenewalSound, Heard
  <2>2. \A m \in Renewals : IF renewals[m].tab = t THEN renewals'[m] = IdleRenewal
                            ELSE renewals'[m] = renewals[m]
    BY <1>3 DEF SettleFailed, RenewalsOf
  <2>3. \A m \in Renewals :
          /\ renewals[m].tab # t => renewals'[m] = renewals[m]
          /\ renewals[m].tab = t => renewals'[m].at = "idle"
    BY <2>2 DEF IdleRenewal, Renewal
  <2>4. /\ Over(n)
        /\ \A m \in Renewals : renewals'[m] = renewals[m] \/ Over(m)
        /\ \A c \in Calls : calls'[c] = calls[c] \/ Ended(c)
    BY <2>1, <2>3, LeftPage
  <2> QED BY <2>1, <2>4 DEF RenewalStep
<1> QED BY <1>1, <1>2, <1>3 DEF ServeRenewal

LEMMA EveryStep ==
  ASSUME Inv, [Next]_vars
  PROVE  /\ \A c \in Calls : calls[c].at # "idle" => CallStep(c)
         /\ \A c \in Calls : calls[c].at = "idle" => calls'[c].at \in {"idle", "sent"}
         /\ \A n \in Renewals : Live(n) => RenewalStep(n)
<1> USE ClientAssumption DEF Inv, TypeOK
<1> DEFINE Goal ==
      /\ \A c \in Calls : calls[c].at # "idle" => CallStep(c)
      /\ \A c \in Calls : calls[c].at = "idle" => calls'[c].at \in {"idle", "sent"}
      /\ \A n \in Renewals : Live(n) => RenewalStep(n)
<1>1. ASSUME UNCHANGED <<calls, renewals>> PROVE Goal
  BY <1>1 DEF CallStep, RenewalStep
<1>2. ASSUME NEW d \in Calls, NEW t \in Tabs, Call(d, t) PROVE Goal
  BY <1>2 DEF Call, Sent, CallStep, RenewalStep
<1>3. ASSUME NEW d \in Calls, ServeCall(d) PROVE Goal
  <2>1. \A c \in Calls : c # d => calls'[c] = calls[c]
    BY <1>3 DEF ServeCall, Answer, GiveUp, JoinRenewal, StartRenewal, PostRenewal, Wait
  <2>2. calls[d].at # "idle" /\ CallStep(d)
    BY <1>3, ServedCall DEF CallStep
  <2>3. \A n \in Renewals : Live(n) => renewals'[n] = renewals[n]
    BY <1>3 DEF ServeCall, Answer, GiveUp, JoinRenewal, StartRenewal, PostRenewal, Live
  <2> QED BY <2>1, <2>2, <2>3 DEF CallStep, RenewalStep
<1>4. ASSUME NEW n \in Renewals, ServeRenewal(n) PROVE Goal
  <2>1. /\ \A m \in Renewals : RenewalStep(m)
        /\ \A c \in Calls : calls'[c] = calls[c] \/ Ended(c) \/ SentAgain(c)
    BY <1>4, ServedRenewal
  <2>2. \A c \in Calls : calls[c].at = "idle" => calls'[c].at \in {"idle", "sent"}
    BY <2>1 DEF SentAgain, Ended, IdleCall
  <2>3. \A c \in Calls : CallStep(c)
    BY <2>1 DEF CallStep
  <2> QED BY <2>1, <2>2, <2>3
<1>5. ASSUME NEW t \in Tabs, CloseTab(t) PROVE Goal
  <2>1. \A m \in Renewals : IF renewals[m].tab = t THEN renewals'[m] = Orphan(renewals[m])
                            ELSE renewals'[m] = renewals[m]
    BY <1>5 DEF CloseTab, RenewalsOf
  <2>2. \A m \in Renewals :
          /\ renewals[m].tab # t => renewals'[m] = renewals[m]
          /\ renewals[m].tab = t => renewals'[m].at \in {"idle", renewals[m].at}
          /\ renewals[m].tab = t /\ renewals'[m].at # "idle" =>
               renewals'[m].tab = None /\ renewals[m].at \in {"posted", "checked"}
    <3>1. \A m \in Renewals :
            \/ Orphan(renewals[m]) = IdleRenewal
            \/ /\ renewals[m].at \in {"posted", "checked"}
               /\ Orphan(renewals[m]) = Renewal(renewals[m].at, None, renewals[m].pair, None)
      BY DEF Orphan
    <3> QED BY <2>1, <3>1 DEF IdleRenewal, Renewal
  <2>3. /\ \A m \in Renewals : renewals'[m] = renewals[m] \/ Over(m)
        /\ \A c \in Calls : calls'[c] = calls[c] \/ Ended(c)
    BY <1>5, <2>2, LeftPage DEF CloseTab
  <2>4. \A c \in Calls : calls[c].at = "idle" => calls'[c].at \in {"idle", "sent"}
    BY <2>3 DEF Ended, IdleCall
  <2> QED BY <2>3, <2>4 DEF CallStep, RenewalStep
<1> HIDE DEF Goal
<1>6. Goal
  BY <1>1, <1>2, <1>3, <1>4, <1>5
  DEF Next, vars, Login, ServeLogout, ExpireAccess, ExpireRefresh, BeginLogout,
      EndLogout, DropLogout
<1> QED BY <1>6 DEF Goal

\* No call waits for a renewal that is over: whoever ends a renewal, by settling it
\* or by leaving the page, takes its calls along.
LEMMA WaitersStep == Inv /\ WaitersAreServed /\ [Next]_vars => WaitersAreServed'
<1> SUFFICES ASSUME Inv, WaitersAreServed, [Next]_vars,
                    NEW c \in Calls, calls'[c].at = "waiting"
             PROVE  /\ calls'[c].on \in Renewals /\ renewals'[calls'[c].on].at # "idle"
                    /\ renewals'[calls'[c].on].tab = calls'[c].tab
  BY DEF WaitersAreServed, WaiterSound, Live
<1>1. CASE Waits(c)
  BY <1>1 DEF Waits
<1>2. CASE calls'[c] = calls[c]
  <2>1. PICK n \in Renewals : n = calls[c].on
    BY <1>2 DEF WaitersAreServed, WaiterSound
  <2>2. Live(n) /\ renewals[n].tab = calls[c].tab /\ Waiting(c, n)
    BY <1>2, <2>1 DEF WaitersAreServed, WaiterSound, Waiting
  <2>3. ~Over(n)
    BY <1>2, <2>2 DEF Over, Ended, IdleCall, SentAgain, Waiting
  <2>4. renewals'[n].at # "idle" /\ renewals'[n].tab = renewals[n].tab
    BY <2>2, <2>3, EveryStep DEF RenewalStep, Moved, Live
  <2> QED BY <1>2, <2>1, <2>2, <2>4
<1> QED BY <1>1, <1>2, EveryStep DEF CallStep, Ended, IdleCall, SentAgain

\* Every call that waits is served by a renewal that is under way, however calls,
\* tabs, logouts and failures interleave.
THEOREM WaitersServed == Spec => []WaitersAreServed
<1>1. Init => WaitersAreServed
  BY DEF Init, IdleCall, WaitersAreServed, WaiterSound
<1> QED BY <1>1, WaitersStep, Invariance, PTL DEF Spec

\* A call is sent, waits and is sent again at most, a renewal takes five steps at
\* most, and no step of another call, tab or renewal, nor the end of a page, sets
\* either back: no call can go round between 401 and renewal for ever.
THEOREM ClientAdvances == Spec => [][CallsAdvance /\ RenewalsAdvance]_vars
<1>1. Inv /\ [Next]_vars => CallsAdvance
  BY CallCounts, ServedCall, EveryStep DEF CallsAdvance, CallStep, Inv
<1>2. Inv /\ [Next]_vars => RenewalsAdvance
  BY RenewalCounts, ServedRenewal, EveryStep DEF RenewalsAdvance, RenewalStep, Inv
<1> QED BY <1>1, <1>2, Invariance, PTL DEF Spec
=============================================================================
