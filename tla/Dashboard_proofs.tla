-------------------------- MODULE Dashboard_proofs --------------------------
(***************************************************************************)
(* The numbers of the dashboard fit together, for any rows, organizations, *)
(* deadlines and panels, although every count may see another moment.      *)
(*                                                                         *)
(* While a summary is computed a count that is still to come is taken to   *)
(* be what it would be now.  Then a statement that is executed changes     *)
(* nothing, and a write moves one row: at most one part gains it and at    *)
(* most one loses it.                                                      *)
(***************************************************************************)
EXTENDS Dashboard, TLAPS, FiniteSetTheorems

Unit(b) == IF b THEN 1 ELSE 0
Hit(n, row, scope, now) == row # None /\ Where(n, row, scope, now)
Held(n, scope, now) == {i \in BoardRows : Hit(n, store[i], scope, now)}

\* What the summary has for a count, or would get for it now.
Reach(n) == IF n \in DOMAIN summary.counts THEN summary.counts[n]
            ELSE Count(n, summary.scope, summary.now)
PartReach(i) == IF i \in DOMAIN PartsShown[panel.table]
                THEN Reach(PartsShown[panel.table][i]) ELSE 0

PartsFit ==
  {"total"} \cup Counted(panel.table) \subseteq panel.names =>
    LET parts == PartReach(1) + PartReach(2) + PartReach(3) + PartReach(4) IN
    /\ parts <= Reach("total") + written.during
    /\ Counted(panel.table) = Statuses[panel.table] =>
         Reach("total") <= parts + written.during
UrgentFit ==
  "overdue" \in panel.names =>
    Reach("overdue") + Reach("due soon")
      <= Reach("PENDING") + Reach("IN_PROGRESS") + 2 * written.during

SummaryType(names) ==
  [scope : BoardScopes, now : Int, quiet : BOOLEAN,
   counts : UNION {[D -> 0 .. Cardinality(BoardRows)] : D \in SUBSET names}]
SummarySound ==
  /\ summary \in SummaryType(panel.names)
  /\ summary.quiet => \A n \in DOMAIN summary.counts :
                        summary.counts[n] = Count(n, summary.scope, summary.now)
  /\ PartsFit /\ UrgentFit

\* The list is of today's tables; any change makes it a thing of the past.
UrgentRows(scope) == {i \in BoardRows : store[i] # None /\ Urgent(store[i], scope)}
DeadlinesSound ==
  /\ deadlines.listed \in SUBSET UrgentRows(deadlines.scope)
  /\ Cardinality(deadlines.listed) =
       Min({Cardinality(UrgentRows(deadlines.scope)), MaxListed})
  /\ \A i \in deadlines.listed :
       deadlines.state[i] = IF store[i].due < day THEN "OVERDUE" ELSE "DUE_SOON"
  /\ "overdue" \in panel.names

BoardTypes ==
  /\ day \in Days /\ panel \in Panels /\ written \in [during : Nat, all : Nat]
  /\ store \in [BoardRows -> Row(panel.table) \cup {None}]
BoardInv ==
  /\ BoardTypes
  /\ summary # None => SummarySound
  /\ deadlines # None => DeadlinesSound

-----------------------------------------------------------------------------
(* Counting *)

LEMMA HeldCounted ==
  ASSUME NEW n, NEW scope, NEW now
  PROVE  /\ Held(n, scope, now) \in SUBSET BoardRows /\ IsFiniteSet(Held(n, scope, now))
         /\ Count(n, scope, now) = Cardinality(Held(n, scope, now))
         /\ Count(n, scope, now) \in 0 .. Cardinality(BoardRows)
<1> DEFINE held == Held(n, scope, now)
<1>1. held \in SUBSET BoardRows
  BY DEF Held
<1>2. IsFiniteSet(held) /\ Cardinality(held) <= Cardinality(BoardRows)
  BY <1>1, FS_Subset, BoardAssumption
<1>3. Cardinality(held) \in Nat /\ Cardinality(BoardRows) \in Nat
  BY <1>2, FS_CardinalityType, BoardAssumption
<1>4. Count(n, scope, now) = Cardinality(held)
  BY DEF Count, Held, Hit
<1> HIDE DEF held
<1>5. Cardinality(held) \in 0 .. Cardinality(BoardRows)
  BY <1>2, <1>3
<1> QED BY <1>1, <1>2, <1>4, <1>5 DEF held

\* A set that differs from another one in one element at most.
LEMMA OneElementMoves ==
  ASSUME NEW S, IsFiniteSet(S), NEW T, NEW x, S \ {x} = T \ {x}
  PROVE  /\ IsFiniteSet(T)
         /\ Cardinality(T) = Cardinality(S) + Unit(x \in T) - Unit(x \in S)
<1> DEFINE R == S \ {x}
<1>1. IsFiniteSet(R) /\ Cardinality(R) = IF x \in S THEN Cardinality(S) - 1 ELSE Cardinality(S)
  BY FS_RemoveElement
<1>2. Cardinality(S) \in Nat /\ Cardinality(R) \in Nat
  BY <1>1, FS_CardinalityType
<1>3. CASE x \in T
  <2>1. T = R \cup {x}
    BY <1>3
  <2>2. IsFiniteSet(T) /\ Cardinality(T) = Cardinality(R) + 1
    BY <1>1, <2>1, FS_AddElement
  <2> QED BY <1>1, <1>2, <1>3, <2>2 DEF Unit
<1>4. CASE x \notin T
  <2>1. T = R
    BY <1>4
  <2> QED BY <1>1, <1>2, <1>4, <2>1 DEF Unit
<1> QED BY <1>3, <1>4

\* Parts of a set that do not overlap have no more elements than the set.
LEMMA TwoParts ==
  ASSUME NEW A, NEW B, IsFiniteSet(A), IsFiniteSet(B), A \cap B = {}
  PROVE  /\ IsFiniteSet(A \cup B)
         /\ Cardinality(A \cup B) = Cardinality(A) + Cardinality(B)
<1>1. Cardinality(A) \in Nat /\ Cardinality(B) \in Nat /\ Cardinality(A \cap B) = 0
  BY FS_CardinalityType, FS_EmptySet
<1>2. /\ IsFiniteSet(A \cup B)
      /\ Cardinality(A \cup B) = Cardinality(A) + Cardinality(B) - Cardinality(A \cap B)
  BY FS_Union
<1> QED BY <1>1, <1>2

LEMMA FourParts ==
  ASSUME NEW T, IsFiniteSet(T), NEW A \in SUBSET T, NEW B \in SUBSET T,
         NEW C \in SUBSET T, NEW D \in SUBSET T,
         A \cap B = {}, A \cap C = {}, A \cap D = {}, B \cap C = {}, B \cap D = {},
         C \cap D = {}
  PROVE  LET sum == Cardinality(A) + Cardinality(B) + Cardinality(C) + Cardinality(D) IN
         /\ sum <= Cardinality(T)
         /\ T = A \cup B \cup C \cup D => sum = Cardinality(T)
<1>1. IsFiniteSet(A) /\ IsFiniteSet(B) /\ IsFiniteSet(C) /\ IsFiniteSet(D)
  BY FS_Subset
<1>2. /\ IsFiniteSet(A \cup B) /\ Cardinality(A \cup B) = Cardinality(A) + Cardinality(B)
      /\ IsFiniteSet(C \cup D) /\ Cardinality(C \cup D) = Cardinality(C) + Cardinality(D)
  BY <1>1, TwoParts
<1>3. (A \cup B) \cap (C \cup D) = {}
  OBVIOUS
<1> DEFINE all == (A \cup B) \cup (C \cup D)
<1>4. IsFiniteSet(all) /\ Cardinality(all) = Cardinality(A \cup B) + Cardinality(C \cup D)
  BY <1>2, <1>3, TwoParts
<1>5. all \in SUBSET T
  OBVIOUS
<1>6. Cardinality(all) <= Cardinality(T)
  BY <1>5, FS_Subset
<1>7. /\ Cardinality(A) \in Nat /\ Cardinality(B) \in Nat /\ Cardinality(C) \in Nat
      /\ Cardinality(D) \in Nat
  BY <1>1, FS_CardinalityType
<1>8. T = A \cup B \cup C \cup D => all = T
  OBVIOUS
<1> HIDE DEF all
<1> QED BY <1>2, <1>4, <1>6, <1>7, <1>8

-----------------------------------------------------------------------------
(* The parts of a panel *)

\* Up to four different statuses, none of which is the name of another count.
ApartUpToFour(s) ==
  /\ DOMAIN s \subseteq 1 .. 4
  /\ \A k \in DOMAIN s : s[k] \notin {"total", "overdue", "due soon"}
  /\ \A k, j \in DOMAIN s : s[k] = s[j] => k = j

LEMMA ShownApart ==
  ASSUME NEW t \in DOMAIN Statuses
  PROVE  ApartUpToFour(PartsShown[t])
<1> DEFINE s == PartsShown[t]
<1>1. CASE t = "organizations"
  <2>1. s = <<"ACTIVE", "SUSPENDED">>
    BY <1>1 DEF PartsShown
  <2> HIDE DEF s
  <2>2. DOMAIN s = {1, 2} /\ s[1] = "ACTIVE" /\ s[2] = "SUSPENDED"
    BY <2>1
  <2>3. DOMAIN s \subseteq 1 .. 4
    BY <2>2
  <2>4. \A k \in DOMAIN s : s[k] \notin {"total", "overdue", "due soon"}
    BY <2>2
  <2>5. \A k, j \in DOMAIN s : s[k] = s[j] => k = j
    BY <2>2
  <2> QED BY <2>3, <2>4, <2>5 DEF ApartUpToFour, s
<1>2. CASE t = "users"
  <2>1. s = <<"ACTIVE", "INACTIVE">>
    BY <1>2 DEF PartsShown
  <2> HIDE DEF s
  <2>2. DOMAIN s = {1, 2} /\ s[1] = "ACTIVE" /\ s[2] = "INACTIVE"
    BY <2>1
  <2>3. DOMAIN s \subseteq 1 .. 4
    BY <2>2
  <2>4. \A k \in DOMAIN s : s[k] \notin {"total", "overdue", "due soon"}
    BY <2>2
  <2>5. \A k, j \in DOMAIN s : s[k] = s[j] => k = j
    BY <2>2
  <2> QED BY <2>3, <2>4, <2>5 DEF ApartUpToFour, s
<1>3. CASE t = "devices"
  <2>1. s = <<"ACTIVE", "RETIRED">>
    BY <1>3 DEF PartsShown
  <2> HIDE DEF s
  <2>2. DOMAIN s = {1, 2} /\ s[1] = "ACTIVE" /\ s[2] = "RETIRED"
    BY <2>1
  <2>3. DOMAIN s \subseteq 1 .. 4
    BY <2>2
  <2>4. \A k \in DOMAIN s : s[k] \notin {"total", "overdue", "due soon"}
    BY <2>2
  <2>5. \A k, j \in DOMAIN s : s[k] = s[j] => k = j
    BY <2>2
  <2> QED BY <2>3, <2>4, <2>5 DEF ApartUpToFour, s
<1>4. CASE t = "software"
  <2>1. s = <<"INSTALLED", "REMOVED">>
    BY <1>4 DEF PartsShown
  <2> HIDE DEF s
  <2>2. DOMAIN s = {1, 2} /\ s[1] = "INSTALLED" /\ s[2] = "REMOVED"
    BY <2>1
  <2>3. DOMAIN s \subseteq 1 .. 4
    BY <2>2
  <2>4. \A k \in DOMAIN s : s[k] \notin {"total", "overdue", "due soon"}
    BY <2>2
  <2>5. \A k, j \in DOMAIN s : s[k] = s[j] => k = j
    BY <2>2
  <2> QED BY <2>3, <2>4, <2>5 DEF ApartUpToFour, s
<1>5. CASE t = "updates"
  <2>1. s = <<"OUTDATED", "UP_TO_DATE">>
    BY <1>5 DEF PartsShown
  <2> HIDE DEF s
  <2>2. DOMAIN s = {1, 2} /\ s[1] = "OUTDATED" /\ s[2] = "UP_TO_DATE"
    BY <2>1
  <2>3. DOMAIN s \subseteq 1 .. 4
    BY <2>2
  <2>4. \A k \in DOMAIN s : s[k] \notin {"total", "overdue", "due soon"}
    BY <2>2
  <2>5. \A k, j \in DOMAIN s : s[k] = s[j] => k = j
    BY <2>2
  <2> QED BY <2>3, <2>4, <2>5 DEF ApartUpToFour, s
<1>6. CASE t = "vulnerabilities"
  <2>1. s = <<"OPEN", "IN_PROGRESS", "RESOLVED">>
    BY <1>6 DEF PartsShown
  <2> HIDE DEF s
  <2>2. DOMAIN s = {1, 2, 3} /\ s[1] = "OPEN" /\ s[2] = "IN_PROGRESS" /\ s[3] = "RESOLVED"
    BY <2>1
  <2>3. DOMAIN s \subseteq 1 .. 4
    BY <2>2
  <2>4. \A k \in DOMAIN s : s[k] \notin {"total", "overdue", "due soon"}
    BY <2>2
  <2>5. \A k, j \in DOMAIN s : s[k] = s[j] => k = j
    BY <2>2
  <2> QED BY <2>3, <2>4, <2>5 DEF ApartUpToFour, s
<1>7. CASE t = "actions"
  <2>1. s = <<"PENDING", "IN_PROGRESS", "COMPLETED", "CANCELLED">>
    BY <1>7 DEF PartsShown
  <2> HIDE DEF s
  <2>2. DOMAIN s = {1, 2, 3, 4} /\ s[1] = "PENDING" /\ s[2] = "IN_PROGRESS" /\ s[3] = "COMPLETED" /\ s[4] = "CANCELLED"
    BY <2>1
  <2>3. DOMAIN s \subseteq 1 .. 4
    BY <2>2
  <2>4. \A k \in DOMAIN s : s[k] \notin {"total", "overdue", "due soon"}
    BY <2>2
  <2>5. \A k, j \in DOMAIN s : s[k] = s[j] => k = j
    BY <2>2
  <2> QED BY <2>3, <2>4, <2>5 DEF ApartUpToFour, s
<1> QED BY <1>1, <1>2, <1>3, <1>4, <1>5, <1>6, <1>7 DEF Statuses

\* The count at a place of the panel looks for one status.
LEMMA PartHits ==
  ASSUME panel \in Panels, NEW k \in DOMAIN PartsShown[panel.table],
         NEW row, NEW scope, NEW now
  PROVE  Hit(PartsShown[panel.table][k], row, scope, now) <=>
           Hit("total", row, scope, now) /\ row.status = PartsShown[panel.table][k]
<1>1. panel.table \in DOMAIN Statuses
  BY BoardAssumption
<1>2. PartsShown[panel.table][k] \notin {"total", "overdue", "due soon"}
  BY <1>1, ShownApart DEF ApartUpToFour
<1> QED BY <1>2 DEF Hit, Where

\* Whether a part counts a row.
PartHit(k, row, scope, now) ==
  k \in DOMAIN PartsShown[panel.table] /\ Hit(PartsShown[panel.table][k], row, scope, now)

LEMMA OnePartHits ==
  ASSUME panel \in Panels, NEW row, NEW scope, NEW now
  PROVE  Unit(PartHit(1, row, scope, now)) + Unit(PartHit(2, row, scope, now))
           + Unit(PartHit(3, row, scope, now)) + Unit(PartHit(4, row, scope, now))
           <= Unit(Hit("total", row, scope, now))
<1> DEFINE H(k) == PartHit(k, row, scope, now)
           G == Hit("total", row, scope, now)
<1>1. panel.table \in DOMAIN Statuses
  BY BoardAssumption
<1>2. \A k \in 1 .. 4 : H(k) => G
  BY PartHits DEF PartHit
<1>3. \A k, j \in 1 .. 4 : H(k) /\ H(j) => k = j
  <2> SUFFICES ASSUME NEW k \in 1 .. 4, NEW j \in 1 .. 4, H(k), H(j)
               PROVE  k = j
    OBVIOUS
  <2> DEFINE shown == PartsShown[panel.table]
  <2>1. k \in DOMAIN shown /\ j \in DOMAIN shown
    BY DEF PartHit
  <2>2. row.status = shown[k] /\ row.status = shown[j]
    BY <2>1, PartHits DEF PartHit
  <2>3. ApartUpToFour(shown)
    BY <1>1, ShownApart
  <2> QED BY <2>1, <2>2, <2>3 DEF ApartUpToFour
<1>4. /\ H(1) => G
      /\ H(2) => G /\ ~H(1)
      /\ H(3) => G /\ ~H(1) /\ ~H(2)
      /\ H(4) => G /\ ~H(1) /\ ~H(2) /\ ~H(3)
  <2>1. 1 \in 1 .. 4 /\ 2 \in 1 .. 4 /\ 3 \in 1 .. 4 /\ 4 \in 1 .. 4
    OBVIOUS
  <2> HIDE DEF H, G
  <2> QED BY <1>2, <1>3, <2>1
<1> HIDE DEF H, G
<1>5. Unit(H(1)) + Unit(H(2)) + Unit(H(3)) + Unit(H(4)) <= Unit(G)
  BY <1>4 DEF Unit
<1> QED BY <1>5 DEF H, G

\* Overdue actions and those due soon are different ones and unfinished.
LEMMA UrgentHits ==
  ASSUME panel \in Panels, "overdue" \in panel.names, NEW row \in Row(panel.table) \cup {None},
         NEW scope, NEW now \in Int
  PROVE  /\ ~(Hit("overdue", row, scope, now) /\ Hit("due soon", row, scope, now))
         /\ ~(Hit("PENDING", row, scope, now) /\ Hit("IN_PROGRESS", row, scope, now))
         /\ Hit("overdue", row, scope, now) \/ Hit("due soon", row, scope, now) <=>
              /\ row # None /\ RowInScope(row, scope) /\ Unfinished(row)
              /\ row.due # None /\ row.due <= now + Soon
         /\ Hit("PENDING", row, scope, now) \/ Hit("IN_PROGRESS", row, scope, now) <=>
              row # None /\ RowInScope(row, scope) /\ Unfinished(row)
<1>1. row # None => row.due \in Int \cup {None}
  BY BoardAssumption DEF Row
<1>2. ASSUME row # None, row.due # None
      PROVE  row.due < now \/ row.due \in now .. now + Soon <=> row.due <= now + Soon
  BY <1>1, <1>2 DEF Soon
<1>3. ASSUME row # None, row.due # None
      PROVE  ~(row.due < now /\ row.due \in now .. now + Soon)
  BY <1>1, <1>3 DEF Soon
<1>4. /\ Hit("overdue", row, scope, now) <=>
           /\ row # None /\ RowInScope(row, scope) /\ Unfinished(row)
           /\ row.due # None /\ row.due < now
      /\ Hit("due soon", row, scope, now) <=>
           /\ row # None /\ RowInScope(row, scope) /\ Unfinished(row)
           /\ row.due # None /\ row.due \in now .. now + Soon
  BY DEF Hit, Where
<1>5. \A s \in {"PENDING", "IN_PROGRESS"} :
        Hit(s, row, scope, now) <=> row # None /\ RowInScope(row, scope) /\ row.status = s
  BY DEF Hit, Where
<1>6. ~(Hit("PENDING", row, scope, now) /\ Hit("IN_PROGRESS", row, scope, now))
  BY <1>5
<1>7. Hit("PENDING", row, scope, now) \/ Hit("IN_PROGRESS", row, scope, now) <=>
        row # None /\ RowInScope(row, scope) /\ Unfinished(row)
  BY <1>5 DEF Unfinished
<1> QED BY <1>2, <1>3, <1>4, <1>6, <1>7

-----------------------------------------------------------------------------
(* Counts that all see one moment *)

\* Whatever the scope, the parts add up to the total if they all count now.
LEMMA PartsOfNow ==
  ASSUME panel \in Panels, store \in [BoardRows -> Row(panel.table) \cup {None}],
         NEW scope, NEW now
  PROVE  LET part(k) == IF k \in DOMAIN PartsShown[panel.table]
                        THEN Count(PartsShown[panel.table][k], scope, now) ELSE 0
             parts == part(1) + part(2) + part(3) + part(4) IN
         /\ parts <= Count("total", scope, now)
         /\ Counted(panel.table) = Statuses[panel.table] => parts = Count("total", scope, now)
<1> DEFINE shown == PartsShown[panel.table]
           A(k) == IF k \in DOMAIN shown THEN Held(shown[k], scope, now) ELSE {}
           T == Held("total", scope, now)
           part(k) == IF k \in DOMAIN shown THEN Count(shown[k], scope, now) ELSE 0
<1>1. panel.table \in DOMAIN Statuses
  BY BoardAssumption
<1>2. \A k : part(k) = Cardinality(A(k))
  BY HeldCounted, FS_EmptySet
<1>3. \A k : A(k) = {i \in BoardRows : PartHit(k, store[i], scope, now)}
  BY DEF PartHit, Held
<1>4. \A k \in 1 .. 4 : A(k) \in SUBSET T
  BY <1>3, PartHits DEF PartHit, Held
<1>5. \A k, j \in 1 .. 4 : k # j => A(k) \cap A(j) = {}
  <2> SUFFICES ASSUME NEW k \in 1 .. 4, NEW j \in 1 .. 4, NEW i \in A(k), i \in A(j)
               PROVE  k = j
    OBVIOUS
  <2>1. PartHit(k, store[i], scope, now) /\ PartHit(j, store[i], scope, now)
    BY <1>3
  <2>2. k \in DOMAIN shown /\ j \in DOMAIN shown
    BY <2>1 DEF PartHit
  <2>3. store[i].status = shown[k] /\ store[i].status = shown[j]
    BY <2>1, <2>2, PartHits DEF PartHit
  <2>4. ApartUpToFour(shown)
    BY <1>1, ShownApart
  <2> QED BY <2>2, <2>3, <2>4 DEF ApartUpToFour
<1>6. Counted(panel.table) = Statuses[panel.table] => T = A(1) \cup A(2) \cup A(3) \cup A(4)
  <2> SUFFICES ASSUME Counted(panel.table) = Statuses[panel.table], NEW i \in T
               PROVE  i \in A(1) \cup A(2) \cup A(3) \cup A(4)
    BY <1>4
  <2>1. i \in BoardRows /\ Hit("total", store[i], scope, now)
    BY DEF Held
  <2>2. store[i].status \in Counted(panel.table)
    BY <2>1 DEF Hit, Row
  <2>3. PICK k \in DOMAIN shown : store[i].status = shown[k]
    BY <2>2 DEF Counted
  <2>4. k \in 1 .. 4 /\ i \in A(k)
    BY <1>1, <1>3, <2>1, <2>3, PartHits, ShownApart DEF PartHit, ApartUpToFour
  <2> HIDE DEF A
  <2> QED BY <2>4
<1>7. IsFiniteSet(T) /\ Count("total", scope, now) = Cardinality(T)
  BY HeldCounted
<1>8. /\ A(1) \in SUBSET T /\ A(2) \in SUBSET T /\ A(3) \in SUBSET T /\ A(4) \in SUBSET T
      /\ A(1) \cap A(2) = {} /\ A(1) \cap A(3) = {} /\ A(1) \cap A(4) = {}
      /\ A(2) \cap A(3) = {} /\ A(2) \cap A(4) = {} /\ A(3) \cap A(4) = {}
  <2>1. 1 \in 1 .. 4 /\ 2 \in 1 .. 4 /\ 3 \in 1 .. 4 /\ 4 \in 1 .. 4
    OBVIOUS
  <2> HIDE DEF A, T
  <2> QED BY <1>4, <1>5, <2>1
<1> HIDE DEF A, T
<1>9. LET sum == Cardinality(A(1)) + Cardinality(A(2)) + Cardinality(A(3)) + Cardinality(A(4)) IN
      /\ sum <= Cardinality(T)
      /\ T = A(1) \cup A(2) \cup A(3) \cup A(4) => sum = Cardinality(T)
  BY <1>7, <1>8, FourParts
<1>10. /\ part(1) = Cardinality(A(1)) /\ part(2) = Cardinality(A(2))
       /\ part(3) = Cardinality(A(3)) /\ part(4) = Cardinality(A(4))
  BY <1>2
<1> HIDE DEF part
<1>11. LET parts == part(1) + part(2) + part(3) + part(4) IN
       /\ parts <= Count("total", scope, now)
       /\ Counted(panel.table) = Statuses[panel.table] => parts = Count("total", scope, now)
  BY <1>6, <1>7, <1>9, <1>10
<1> QED BY <1>11 DEF part

LEMMA UrgentOfNow ==
  ASSUME panel \in Panels, "overdue" \in panel.names,
         store \in [BoardRows -> Row(panel.table) \cup {None}],
         NEW scope, NEW now \in Int
  PROVE  /\ Count("overdue", scope, now) + Count("due soon", scope, now)
              <= Count("PENDING", scope, now) + Count("IN_PROGRESS", scope, now)
         /\ now = day => Count("overdue", scope, now) + Count("due soon", scope, now)
                           = Cardinality(UrgentRows(scope))
<1> DEFINE H(n) == Held(n, scope, now)
<1>1. \A n : IsFiniteSet(H(n)) /\ Count(n, scope, now) = Cardinality(H(n))
  BY HeldCounted
<1>2. /\ H("overdue") \cap H("due soon") = {} /\ H("PENDING") \cap H("IN_PROGRESS") = {}
      /\ H("overdue") \cup H("due soon") \subseteq H("PENDING") \cup H("IN_PROGRESS")
  BY UrgentHits DEF Held
<1>3. now = day => H("overdue") \cup H("due soon") = UrgentRows(scope)
  BY UrgentHits DEF Held, UrgentRows, Urgent
<1> HIDE DEF H
<1>4. /\ Cardinality(H("overdue") \cup H("due soon"))
           = Cardinality(H("overdue")) + Cardinality(H("due soon"))
      /\ IsFiniteSet(H("PENDING") \cup H("IN_PROGRESS"))
      /\ Cardinality(H("PENDING") \cup H("IN_PROGRESS"))
           = Cardinality(H("PENDING")) + Cardinality(H("IN_PROGRESS"))
  BY <1>1, <1>2, TwoParts
<1>5. Cardinality(H("overdue") \cup H("due soon")) <= Cardinality(H("PENDING") \cup H("IN_PROGRESS"))
  BY <1>2, <1>4, FS_Subset
<1> QED BY <1>1, <1>3, <1>4, <1>5

-----------------------------------------------------------------------------
(* What a write does to a summary that is being computed *)

\* A count gains the row that is written and loses the one that was there.
Gain(n, row) ==
  Unit(n \notin DOMAIN summary.counts /\ Hit(n, row, summary.scope, summary.now))

LEMMA CountMoves ==
  ASSUME NEW i \in BoardRows, NEW row, store \in [BoardRows -> Row(panel.table) \cup {None}],
         store' = [store EXCEPT ![i] = row], panel' = panel,
         summary'.counts = summary.counts, summary'.scope = summary.scope,
         summary'.now = summary.now, NEW n
  PROVE  Reach(n)' = IF n \in DOMAIN summary.counts THEN Reach(n)
                     ELSE Reach(n) + Unit(Hit(n, row, summary.scope, summary.now))
                                   - Unit(Hit(n, store[i], summary.scope, summary.now))
<1> PICK sc, nw, co : sc = summary.scope /\ nw = summary.now /\ co = summary.counts
  OBVIOUS
<1>1. Count(n, sc, nw)' = Count(n, sc, nw) + Unit(Hit(n, row, sc, nw))
                                           - Unit(Hit(n, store[i], sc, nw))
  <2> DEFINE S == Held(n, sc, nw)
             T == {j \in BoardRows : Hit(n, store'[j], sc, nw)}
  <2>1. S \ {i} = T \ {i}
    BY DEF Held
  <2>2. IsFiniteSet(S) /\ Count(n, sc, nw) = Cardinality(S)
    BY HeldCounted
  <2>3. Cardinality(T) = Cardinality(S) + Unit(i \in T) - Unit(i \in S)
    BY <2>1, <2>2, OneElementMoves DEF Unit
  <2>4. Count(n, sc, nw)' = Cardinality(T)
    BY DEF Count, Hit, Where, RowInScope, Unfinished
  <2>5. (i \in T <=> Hit(n, row, sc, nw)) /\ (i \in S <=> Hit(n, store[i], sc, nw))
    BY DEF Held
  <2> HIDE DEF S, T
  <2> QED BY <2>2, <2>3, <2>4, <2>5 DEF Unit
<1>2. Reach(n) = IF n \in DOMAIN co THEN co[n] ELSE Count(n, sc, nw)
  BY DEF Reach
<1>3. Reach(n)' = IF n \in DOMAIN co THEN co[n] ELSE Count(n, sc, nw)'
  BY DEF Reach, Count, Where, RowInScope, Unfinished
<1> QED BY <1>1, <1>2, <1>3

LEMMA ReachIsNumber ==
  ASSUME summary \in SummaryType(panel.names), NEW n
  PROVE  Reach(n) \in Int
<1>1. Count(n, summary.scope, summary.now) \in 0 .. Cardinality(BoardRows)
  BY HeldCounted
<1>2. PICK D \in SUBSET panel.names : summary.counts \in [D -> 0 .. Cardinality(BoardRows)]
  BY DEF SummaryType
<1> QED BY <1>1, <1>2 DEF Reach

\* At most one part moves each way, and the total moves with it unless one of
\* the two is already counted.
LEMMA WriteKeepsParts ==
  ASSUME NEW i \in BoardRows, NEW row \in Row(panel.table) \cup {None}, BoardInv,
         summary # None, ~SummaryComplete, WriteRow, 
         store' = [store EXCEPT ![i] = row]
  PROVE  PartsFit'
<1> DEFINE sc == summary.scope
           nw == summary.now
           e(k) == Unit(PartHit(k, row, sc, nw))
           l(k) == Unit(PartHit(k, store[i], sc, nw))
           G == Unit(Hit("total", row, sc, nw))
           L == Unit(Hit("total", store[i], sc, nw))
<1>1. /\ summary'.counts = summary.counts /\ summary'.scope = sc /\ summary'.now = nw
      /\ panel' = panel /\ written'.during = written.during + 1
      /\ written.during \in Nat /\ panel \in Panels /\ SummarySound
      /\ summary \in SummaryType(panel.names)
      /\ store \in [BoardRows -> Row(panel.table) \cup {None}]
  BY DEF WriteRow, Noted, BoardInv, BoardTypes, SummarySound, SummaryType
<1>2. \A k : /\ PartReach(k)' <= PartReach(k) + e(k) /\ PartReach(k)' >= PartReach(k) - l(k)
             /\ PartReach(k) \in Int /\ PartReach(k)' \in Int
  <2> SUFFICES ASSUME NEW k
               PROVE  /\ PartReach(k)' <= PartReach(k) + e(k)
                      /\ PartReach(k)' >= PartReach(k) - l(k)
                      /\ PartReach(k) \in Int /\ PartReach(k)' \in Int
    OBVIOUS
  <2> PICK n : n = PartsShown[panel.table][k]
    OBVIOUS
  <2>1. Reach(n)' = IF n \in DOMAIN summary.counts THEN Reach(n)
                    ELSE Reach(n) + Unit(Hit(n, row, sc, nw)) - Unit(Hit(n, store[i], sc, nw))
    BY <1>1, CountMoves
  <2>2. Reach(n) \in Int
    BY <1>1, ReachIsNumber
  <2>3. CASE k \in DOMAIN PartsShown[panel.table]
    <3>1. PartReach(k) = Reach(n) /\ PartReach(k)' = Reach(n)'
      BY <1>1, <2>3 DEF PartReach, Reach, Count, Where, RowInScope, Unfinished
    <3>2. e(k) = Unit(Hit(n, row, sc, nw)) /\ l(k) = Unit(Hit(n, store[i], sc, nw))
      <4>1. /\ PartHit(k, row, sc, nw) <=> Hit(n, row, sc, nw)
            /\ PartHit(k, store[i], sc, nw) <=> Hit(n, store[i], sc, nw)
        BY <2>3 DEF PartHit
      <4> QED BY <4>1 DEF Unit
    <3> HIDE DEF e, l
    <3> QED BY <2>1, <2>2, <3>1, <3>2 DEF Unit
  <2>4. CASE k \notin DOMAIN PartsShown[panel.table]
    BY <1>1, <2>4 DEF PartReach, Unit
  <2> QED BY <2>3, <2>4
<1>3. e(1) + e(2) + e(3) + e(4) <= G /\ l(1) + l(2) + l(3) + l(4) <= L
  BY <1>1, OnePartHits
<1>4. /\ Reach("total")' >= Reach("total") + G - 1
      /\ Reach("total")' <= Reach("total") + 1 - L
      /\ Reach("total") \in Int /\ Reach("total")' \in Int
  <2>1. Reach("total")' = IF "total" \in DOMAIN summary.counts THEN Reach("total")
                          ELSE Reach("total") + G - L
    BY <1>1, CountMoves
  <2>2. Reach("total") \in Int
    BY <1>1, ReachIsNumber
  <2>3. G \in 0 .. 1 /\ L \in 0 .. 1
    BY DEF Unit
  <2> HIDE DEF G, L
  <2> QED BY <2>1, <2>2, <2>3
<1> DEFINE P == PartReach(1) + PartReach(2) + PartReach(3) + PartReach(4)
           Q == PartReach(1)' + PartReach(2)' + PartReach(3)' + PartReach(4)'
<1>5. Q <= P + G /\ Q >= P - L /\ P \in Int /\ Q \in Int
  <2>1. /\ \A k : e(k) \in Int /\ l(k) \in Int
        /\ G \in Int /\ L \in Int
    BY DEF Unit
  <2> HIDE DEF e, l, G, L
  <2> QED BY <1>2, <1>3, <2>1
<1>6. G \in 0 .. 1 /\ L \in 0 .. 1
  BY DEF Unit
<1>7. PartsFit
  BY <1>1 DEF SummarySound
<1> HIDE DEF P, Q, G, L
<1>8. {"total"} \cup Counted(panel.table) \subseteq panel.names =>
        /\ P <= Reach("total") + written.during
        /\ Counted(panel.table) = Statuses[panel.table] => Reach("total") <= P + written.during
  BY <1>7 DEF PartsFit, P
<1>9. {"total"} \cup Counted(panel.table) \subseteq panel.names =>
        /\ Q <= Reach("total")' + written'.during
        /\ Counted(panel.table) = Statuses[panel.table] => Reach("total")' <= Q + written'.during
  BY <1>1, <1>4, <1>5, <1>6, <1>8
<1>10. PartsFit' = ({"total"} \cup Counted(panel.table) \subseteq panel.names =>
        /\ Q <= Reach("total")' + written'.during
        /\ Counted(panel.table) = Statuses[panel.table] => Reach("total")' <= Q + written'.during)
  BY <1>1 DEF PartsFit, Q, Counted
<1> QED BY <1>9, <1>10

LEMMA WriteKeepsUrgent ==
  ASSUME NEW i \in BoardRows, NEW row \in Row(panel.table) \cup {None}, BoardInv,
         summary # None, ~SummaryComplete, WriteRow,
         store' = [store EXCEPT ![i] = row]
  PROVE  UrgentFit'
<1> SUFFICES ASSUME "overdue" \in panel.names
             PROVE  (Reach("overdue") + Reach("due soon")
                       <= Reach("PENDING") + Reach("IN_PROGRESS") + 2 * written.during)'
  BY DEF UrgentFit, WriteRow
<1> DEFINE Gains(n) == Hit(n, row, summary.scope, summary.now)
           Loses(n) == Hit(n, store[i], summary.scope, summary.now)
<1>1. /\ summary'.counts = summary.counts /\ summary'.scope = summary.scope
      /\ summary'.now = summary.now /\ summary.now \in Int
      /\ panel' = panel /\ written'.during = written.during + 1
      /\ written.during \in Nat /\ panel \in Panels /\ SummarySound
      /\ summary \in SummaryType(panel.names)
      /\ store \in [BoardRows -> Row(panel.table) \cup {None}]
  BY DEF WriteRow, Noted, BoardInv, BoardTypes, SummarySound, SummaryType
<1>2. ASSUME NEW n
      PROVE  /\ Reach(n)' <= Reach(n) + (IF Gains(n) THEN 1 ELSE 0)
             /\ Reach(n)' >= Reach(n) - (IF Loses(n) THEN 1 ELSE 0)
             /\ Reach(n) \in Int /\ Reach(n)' \in Int
  <2>1. Reach(n)' = IF n \in DOMAIN summary.counts THEN Reach(n)
                    ELSE Reach(n) + Unit(Gains(n)) - Unit(Loses(n))
    BY <1>1, CountMoves
  <2>2. Reach(n) \in Int
    BY <1>1, ReachIsNumber
  <2> HIDE DEF Gains, Loses
  <2> QED BY <2>1, <2>2 DEF Unit
<1> DEFINE a == Gains("overdue")
           b == Gains("due soon")
           c == Loses("PENDING")
           d == Loses("IN_PROGRESS")
           A == Reach("overdue")
           B == Reach("due soon")
           C == Reach("PENDING")
           D == Reach("IN_PROGRESS")
<1>3. ~(a /\ b) /\ ~(c /\ d)
  <2>1. store[i] \in Row(panel.table) \cup {None}
    BY <1>1
  <2> QED BY <1>1, <2>1, UrgentHits
<1>4. A + B <= C + D + 2 * written.during
  BY <1>1 DEF UrgentFit, SummarySound
<1>5. A' <= A + (IF a THEN 1 ELSE 0) /\ A \in Int /\ A' \in Int
  BY <1>2
<1>6. B' <= B + (IF b THEN 1 ELSE 0) /\ B \in Int /\ B' \in Int
  BY <1>2
<1>7. C' >= C - (IF c THEN 1 ELSE 0) /\ C \in Int /\ C' \in Int
  BY <1>2
<1>8. D' >= D - (IF d THEN 1 ELSE 0) /\ D \in Int /\ D' \in Int
  BY <1>2
<1> HIDE DEF a, b, c, d, A, B, C, D
<1>9. A' + B' <= C' + D' + 2 * (written.during + 1)
  BY <1>1, <1>3, <1>4, <1>5, <1>6, <1>7, <1>8
<1> QED BY <1>1, <1>9 DEF A, B, C, D

-----------------------------------------------------------------------------
(* The invariant *)

LEMMA MinOfTwo ==
  ASSUME NEW a \in Int, NEW b \in Int
  PROVE  Min({a, b}) = IF a <= b THEN a ELSE b
<1>1. \E x \in {a, b} : \A y \in {a, b} : x <= y
  OBVIOUS
<1>2. Min({a, b}) \in {a, b} /\ \A y \in {a, b} : Min({a, b}) <= y
  BY <1>1 DEF Min
<1> QED BY <1>2

LEMMA BoardStart == BoardInit => BoardInv
<1> SUFFICES ASSUME BoardInit PROVE BoardInv
  OBVIOUS
<1>1. day \in Days /\ panel \in Panels
  <2>1. LastDay \in Nat
    BY BoardAssumption
  <2> QED BY <2>1 DEF BoardInit, Days
<1>2. written \in [during : Nat, all : Nat]
  BY DEF BoardInit
<1>3. store \in [BoardRows -> Row(panel.table) \cup {None}]
  BY DEF BoardInit
<1>4. summary = None /\ deadlines = None
  BY DEF BoardInit
<1> QED BY <1>1, <1>2, <1>3, <1>4 DEF BoardInv, BoardTypes

\* What a summary is followed for depends on these alone.
LEMMA SummaryElsewhere ==
  ASSUME BoardInv, UNCHANGED <<store, panel, summary, written>>
  PROVE  summary' # None => SummarySound'
<1> SUFFICES ASSUME summary # None PROVE SummarySound'
  OBVIOUS
<1>1. SummarySound
  BY DEF BoardInv, BoardTypes
<1>2. \A n : Reach(n)' = Reach(n)
  BY DEF Reach, Count, Where, RowInScope, Unfinished
<1>4. PartsFit' /\ UrgentFit'
  BY <1>1, <1>2 DEF SummarySound, PartsFit, UrgentFit, PartReach, Counted
<1>5. summary' \in SummaryType(panel'.names)
  BY <1>1 DEF SummarySound
<1>6. summary'.quiet => \A n \in DOMAIN summary'.counts :
        summary'.counts[n] = Count(n, summary.scope, summary.now)'
  BY <1>1 DEF SummarySound, Count, Where, RowInScope, Unfinished
<1> QED BY <1>4, <1>5, <1>6 DEF SummarySound

LEMMA DeadlinesElsewhere ==
  ASSUME BoardInv, UNCHANGED <<day, store, panel, deadlines>>
  PROVE  deadlines' # None => DeadlinesSound'
BY DEF BoardInv, BoardTypes, DeadlinesSound, UrgentRows, Urgent, RowInScope, Unfinished

LEMMA AskKeeps ==
  ASSUME BoardInv, NEW scope \in BoardScopes, AskSummary(scope)
  PROVE  SummarySound'
<1>1. /\ summary' = [scope |-> scope, now |-> day, counts |-> << >>, quiet |-> TRUE]
      /\ UNCHANGED <<day, store, panel, written>>
      /\ day \in Int /\ panel \in Panels /\ written.during \in Nat
      /\ store \in [BoardRows -> Row(panel.table) \cup {None}]
  BY DEF AskSummary, BoardInv, BoardTypes, Days
<1>2. DOMAIN << >> = {}
  OBVIOUS
<1>3. << >> \in [{} -> 0 .. Cardinality(BoardRows)]
  OBVIOUS
<1>4. summary' \in SummaryType(panel.names)
  BY <1>1, <1>3 DEF SummaryType
<1>5. \A n : Reach(n)' = Count(n, scope, day)
  BY <1>1, <1>2 DEF Reach, Count, Where, RowInScope, Unfinished
<1>6. PartsFit'
  <2> DEFINE part(k) == IF k \in DOMAIN PartsShown[panel.table]
                        THEN Count(PartsShown[panel.table][k], scope, day) ELSE 0
             parts == part(1) + part(2) + part(3) + part(4)
  <2>1. /\ parts <= Count("total", scope, day)
        /\ Counted(panel.table) = Statuses[panel.table] => parts = Count("total", scope, day)
    BY <1>1, PartsOfNow
  <2>2. \A k : PartReach(k)' = part(k)
    BY <1>1, <1>5 DEF PartReach
  <2>3. \A k : part(k) \in Int
    BY HeldCounted
  <2>4. Count("total", scope, day) \in Int
    BY HeldCounted
  <2> HIDE DEF part
  <2> QED BY <1>1, <1>5, <2>1, <2>2, <2>3, <2>4 DEF PartsFit, Counted
<1>7. UrgentFit'
  <2> SUFFICES ASSUME "overdue" \in panel.names
               PROVE  Reach("overdue")' + Reach("due soon")'
                        <= Reach("PENDING")' + Reach("IN_PROGRESS")' + 2 * written.during
    BY <1>1 DEF UrgentFit
  <2> DEFINE A == Count("overdue", scope, day)
             B == Count("due soon", scope, day)
             C == Count("PENDING", scope, day)
             D == Count("IN_PROGRESS", scope, day)
  <2>1. A + B <= C + D
    BY <1>1, UrgentOfNow
  <2>2. \A n : Count(n, scope, day) \in Int
    BY HeldCounted
  <2>4. A \in Int /\ B \in Int /\ C \in Int /\ D \in Int
    BY <2>2
  <2>3. /\ Reach("overdue")' = A /\ Reach("due soon")' = B
        /\ Reach("PENDING")' = C /\ Reach("IN_PROGRESS")' = D
    BY <1>5
  <2> HIDE DEF A, B, C, D
  <2>5. A + B <= C + D + 2 * written.during
    BY <1>1, <2>1, <2>4
  <2> QED BY <2>3, <2>5
<1> QED BY <1>1, <1>2, <1>4, <1>6, <1>7 DEF SummarySound

LEMMA CountKeeps ==
  ASSUME BoardInv, NEW n \in panel.names, ExecuteCount(n)
  PROVE  SummarySound'
<1> PICK sc, nw, co : sc = summary.scope /\ nw = summary.now /\ co = summary.counts
  OBVIOUS
<1>1. /\ SummarySound /\ summary \in SummaryType(panel.names)
      /\ UNCHANGED <<store, panel, written>> /\ n \notin DOMAIN co
  BY DEF BoardInv, BoardTypes, ExecuteCount, SummarySound
<1>2. summary' = [summary EXCEPT !.counts =
        [m \in DOMAIN co \cup {n} |-> IF m = n THEN Count(n, sc, nw) ELSE co[m]]]
  BY DEF ExecuteCount
<1>3. PICK D \in SUBSET panel.names : co \in [D -> 0 .. Cardinality(BoardRows)]
  BY <1>1 DEF SummaryType
<1>4. /\ summary'.scope = sc /\ summary'.now = nw /\ summary'.quiet = summary.quiet
      /\ DOMAIN summary'.counts = DOMAIN co \cup {n} /\ summary'.counts[n] = Count(n, sc, nw)
      /\ \A m \in DOMAIN co : summary'.counts[m] = co[m]
  BY <1>1, <1>2 DEF SummaryType
<1>5. \A m : Count(m, sc, nw)' = Count(m, sc, nw)
  BY <1>1 DEF Count, Where, RowInScope, Unfinished
<1>6. \A m : Reach(m)' = Reach(m)
  <2> SUFFICES ASSUME NEW m PROVE Reach(m)' = Reach(m)
    OBVIOUS
  <2>1. Reach(m)' = IF m \in DOMAIN co \cup {n} THEN summary'.counts[m] ELSE Count(m, sc, nw)'
    BY <1>4 DEF Reach, Count, Where, RowInScope, Unfinished
  <2>2. Reach(m) = IF m \in DOMAIN co THEN co[m] ELSE Count(m, sc, nw)
    BY DEF Reach
  <2> QED BY <1>4, <1>5, <2>1, <2>2
<1>7. summary' \in SummaryType(panel.names)
  <2>1. Count(n, sc, nw) \in 0 .. Cardinality(BoardRows)
    BY HeldCounted
  <2>2. [m \in DOMAIN co \cup {n} |-> IF m = n THEN Count(n, sc, nw) ELSE co[m]]
          \in [D \cup {n} -> 0 .. Cardinality(BoardRows)]
    BY <1>3, <2>1
  <2>3. D \cup {n} \in SUBSET panel.names
    BY <1>3
  <2> QED BY <1>1, <1>2, <2>2, <2>3 DEF SummaryType
<1>8. summary.quiet => \A m \in DOMAIN co : co[m] = Count(m, sc, nw)
  BY <1>1 DEF SummarySound
<1>9. summary'.quiet => \A m \in DOMAIN summary'.counts :
        summary'.counts[m] = Count(m, summary.scope, summary.now)'
  <2> SUFFICES ASSUME summary'.quiet, NEW m \in DOMAIN co \cup {n}
               PROVE  summary'.counts[m] = Count(m, summary.scope, summary.now)'
    BY <1>4
  <2>1. Count(m, summary.scope, summary.now)' = Count(m, sc, nw)'
    BY <1>4 DEF Count, Where, RowInScope, Unfinished
  <2> QED BY <1>4, <1>5, <1>8, <2>1
<1>10. PartsFit' /\ UrgentFit'
  BY <1>1, <1>6 DEF SummarySound, PartsFit, UrgentFit, PartReach, Counted
<1> QED BY <1>1, <1>7, <1>9, <1>10 DEF SummarySound

LEMMA WriteKeeps ==
  ASSUME BoardInv, WriteRow
  PROVE  /\ store' \in [BoardRows -> Row(panel.table) \cup {None}]
         /\ written' \in [during : Nat, all : Nat]
         /\ summary' # None => SummarySound'
<1>1. PICK i \in BoardRows, row \in Row(panel.table) \cup {None} :
        store' = [store EXCEPT ![i] = row]
  BY DEF WriteRow
<1>2. store' \in [BoardRows -> Row(panel.table) \cup {None}]
  BY <1>1 DEF BoardInv, BoardTypes
<1>3. written' \in [during : Nat, all : Nat]
  BY DEF WriteRow, Noted, BoardInv, BoardTypes
<1>4. ASSUME summary # None PROVE SummarySound'
  <2>1. /\ summary \in SummaryType(panel.names) /\ SummarySound /\ panel' = panel
        /\ summary' = [summary EXCEPT !.quiet = FALSE]
    BY <1>4 DEF BoardInv, BoardTypes, SummarySound, WriteRow
  <2>2. summary' \in SummaryType(panel.names) /\ ~summary'.quiet
    BY <2>1 DEF SummaryType
  <2>3. CASE ~SummaryComplete
    <3>1. PartsFit' /\ UrgentFit'
      BY <1>1, <1>4, <2>3, WriteKeepsParts, WriteKeepsUrgent
    <3> QED BY <2>1, <2>2, <3>1 DEF SummarySound
  <2>4. CASE SummaryComplete
    <3>1. /\ summary'.counts = summary.counts /\ written'.during = written.during
          /\ DOMAIN summary.counts = panel.names
      BY <1>4, <2>1, <2>4 DEF WriteRow, Noted, SummaryComplete, SummaryType
    <3>2. \A n \in panel.names : Reach(n)' = Reach(n)
      BY <3>1 DEF Reach
    <3>3. ASSUME {"total"} \cup Counted(panel.table) \subseteq panel.names
          PROVE  Reach("total")' = Reach("total") /\ \A k : PartReach(k)' = PartReach(k)
      BY <2>1, <3>2, <3>3 DEF PartReach, Counted
    <3>4. PartsFit'
      BY <2>1, <3>1, <3>3 DEF SummarySound, PartsFit, Counted
    <3>5. "overdue" \in panel.names => {"due soon", "PENDING", "IN_PROGRESS"} \subseteq panel.names
      BY BoardAssumption DEF BoardInv, BoardTypes
    <3>6. UrgentFit'
      BY <2>1, <3>1, <3>2, <3>5 DEF SummarySound, UrgentFit
    <3> QED BY <2>1, <2>2, <3>4, <3>6 DEF SummarySound
  <2> QED BY <2>3, <2>4
<1>5. summary = None => summary' = None
  BY DEF WriteRow
<1> QED BY <1>2, <1>3, <1>4, <1>5

LEMMA ListKeeps ==
  ASSUME BoardInv, NEW scope, GetRecentActivity(scope)
  PROVE  DeadlinesSound'
<1> DEFINE found == {i \in BoardRows : store[i] # None /\ Urgent(store[i], scope)}
<1>1. /\ UNCHANGED <<day, store, panel>> /\ "overdue" \in panel.names
      /\ \E some \in SUBSET found :
           /\ Cardinality(some) = Min({Cardinality(found), MaxListed})
           /\ deadlines' = [scope |-> scope, listed |-> some,
                state |-> [i \in some |->
                  IF store[i].due < day THEN "OVERDUE" ELSE "DUE_SOON"]]
  BY DEF GetRecentActivity
<1>2. UrgentRows(scope) = found
  BY DEF UrgentRows
<1>3. deadlines'.scope = scope
  BY <1>1
<1>4. UrgentRows(deadlines.scope)' = UrgentRows(scope)
  BY <1>1, <1>3 DEF UrgentRows, Urgent, RowInScope, Unfinished
<1> HIDE DEF found
<1>5. PICK some \in SUBSET found :
           /\ Cardinality(some) = Min({Cardinality(found), MaxListed})
           /\ deadlines' = [scope |-> scope, listed |-> some,
                state |-> [i \in some |->
                  IF store[i].due < day THEN "OVERDUE" ELSE "DUE_SOON"]]
  BY <1>1
<1>6. deadlines'.listed = some /\ \A i \in some :
        deadlines'.state[i] = IF store[i].due < day THEN "OVERDUE" ELSE "DUE_SOON"
  BY <1>5
<1> QED BY <1>1, <1>2, <1>4, <1>5, <1>6 DEF DeadlinesSound

LEMMA BoardStep == BoardInv /\ [BoardNext]_boardVars => BoardInv'
<1> SUFFICES ASSUME BoardInv, [BoardNext]_boardVars PROVE BoardInv'
  OBVIOUS
<1>1. ASSUME NEW s \in BoardScopes, AskSummary(s) PROVE BoardInv'
  <2>1. SummarySound'
    BY <1>1, AskKeeps
  <2>2. UNCHANGED <<day, store, panel, deadlines, written>>
    BY <1>1 DEF AskSummary
  <2>3. deadlines' # None => DeadlinesSound'
    BY <2>2, DeadlinesElsewhere
  <2>4. BoardTypes'
    BY <2>2 DEF BoardInv, BoardTypes, Row, Days
  <2> QED BY <2>1, <2>3, <2>4 DEF BoardInv
<1>2. ASSUME NEW s \in BoardScopes, GetRecentActivity(s) PROVE BoardInv'
  <2>1. DeadlinesSound'
    BY <1>2, ListKeeps
  <2>2. UNCHANGED <<day, store, panel, summary, written>>
    BY <1>2 DEF GetRecentActivity
  <2>3. summary' # None => SummarySound'
    BY <2>2, SummaryElsewhere
  <2>4. BoardTypes'
    BY <2>2 DEF BoardInv, BoardTypes, Row, Days
  <2> QED BY <2>1, <2>3, <2>4 DEF BoardInv
<1>3. ASSUME NEW n \in panel.names, ExecuteCount(n) PROVE BoardInv'
  <2>1. SummarySound'
    BY <1>3, CountKeeps
  <2>2. UNCHANGED <<day, store, panel, deadlines, written>>
    BY <1>3 DEF ExecuteCount
  <2>3. deadlines' # None => DeadlinesSound'
    BY <2>2, DeadlinesElsewhere
  <2>4. BoardTypes'
    BY <2>2 DEF BoardInv, BoardTypes, Row, Days
  <2> QED BY <2>1, <2>3, <2>4 DEF BoardInv
<1>4. ASSUME Refresh PROVE BoardInv'
  <2>1. UNCHANGED <<day, store, panel, deadlines>> /\ summary' = None
    BY <1>4 DEF Refresh
  <2>2. written' \in [during : Nat, all : Nat]
    BY <1>4 DEF Refresh, BoardInv, BoardTypes
  <2>3. deadlines' # None => DeadlinesSound'
    BY <2>1, DeadlinesElsewhere
  <2>4. BoardTypes'
    BY <2>1, <2>2 DEF BoardInv, BoardTypes, Row, Days
  <2> QED BY <2>1, <2>3, <2>4 DEF BoardInv
<1>5. ASSUME WriteRow PROVE BoardInv'
  <2>1. UNCHANGED <<day, panel>> /\ deadlines' = None
    BY <1>5 DEF WriteRow, Stale
  <2>2. /\ store' \in [BoardRows -> Row(panel.table) \cup {None}]
        /\ written' \in [during : Nat, all : Nat]
        /\ summary' # None => SummarySound'
    BY <1>5, WriteKeeps
  <2>3. BoardTypes'
    BY <2>1, <2>2 DEF BoardInv, BoardTypes, Row, Days
  <2> QED BY <2>1, <2>2, <2>3 DEF BoardInv
<1>6. ASSUME Midnight PROVE BoardInv'
  <2>1. UNCHANGED <<store, panel, summary, written>> /\ deadlines' = None
    BY <1>6 DEF Midnight, Stale
  <2>2. day' \in Days
    <3>1. LastDay \in Nat
      BY BoardAssumption
    <3> QED BY <1>6, <3>1 DEF Midnight, Days, BoardInv, BoardTypes
  <2>3. summary' # None => SummarySound'
    BY <2>1, SummaryElsewhere
  <2>4. BoardTypes'
    BY <2>1, <2>2 DEF BoardInv, BoardTypes, Row, Days
  <2> QED BY <2>1, <2>3, <2>4 DEF BoardInv
<1>7. ASSUME UNCHANGED boardVars PROVE BoardInv'
  <2>1. UNCHANGED <<day, store, panel, summary, deadlines, written>>
    BY <1>7 DEF boardVars
  <2>2. summary' # None => SummarySound'
    BY <2>1, SummaryElsewhere
  <2>3. deadlines' # None => DeadlinesSound'
    BY <2>1, DeadlinesElsewhere
  <2>4. BoardTypes'
    BY <2>1 DEF BoardInv, BoardTypes, Row, Days
  <2> QED BY <2>2, <2>3, <2>4 DEF BoardInv
<1> QED BY <1>1, <1>2, <1>3, <1>4, <1>5, <1>6, <1>7 DEF BoardNext

LEMMA BoardInvariant == BoardSpec => []BoardInv
<1>1. BoardInit => BoardInv
  BY BoardStart
<1>2. BoardInv /\ [BoardNext]_boardVars => BoardInv'
  BY BoardStep
<1> QED BY <1>1, <1>2, PTL DEF BoardSpec

-----------------------------------------------------------------------------
(* What follows from it *)

LEMMA PartsFollow == BoardInv => PartsAddUp
<1> SUFFICES ASSUME BoardInv, SummaryComplete,
                    {"total"} \cup Counted(panel.table) \subseteq panel.names
             PROVE  LET parts == Part(1) + Part(2) + Part(3) + Part(4) IN
                    /\ parts <= summary.counts["total"] + written.during
                    /\ Counted(panel.table) = Statuses[panel.table] =>
                         Off(parts, summary.counts["total"]) <= written.during
  BY DEF PartsAddUp
<1>1. /\ SummarySound /\ DOMAIN summary.counts = panel.names
      /\ summary \in SummaryType(panel.names) /\ written.during \in Nat
  BY DEF BoardInv, BoardTypes, SummaryComplete, SummarySound
<1>2. \A n \in panel.names : summary.counts[n] = Reach(n)
  BY <1>1 DEF Reach
<1>3. \A k : Part(k) = PartReach(k)
  BY <1>2 DEF Part, PartReach, Counted
<1>4. Reach("total") \in Int /\ \A k : PartReach(k) \in Int
  BY <1>1, ReachIsNumber DEF PartReach
<1> DEFINE parts == Part(1) + Part(2) + Part(3) + Part(4)
           total == summary.counts["total"]
<1>5. parts \in Int /\ total \in Int
  BY <1>2, <1>3, <1>4
<1>6. /\ parts <= total + written.during
      /\ Counted(panel.table) = Statuses[panel.table] => total <= parts + written.during
  BY <1>1, <1>2, <1>3 DEF SummarySound, PartsFit
<1> HIDE DEF parts, total
<1>7. /\ parts <= total + written.during
      /\ Counted(panel.table) = Statuses[panel.table] => Off(parts, total) <= written.during
  BY <1>1, <1>5, <1>6 DEF Off
<1> QED BY <1>7 DEF parts, total

LEMMA UrgentFollows == BoardInv => DeadlinesAmongUnfinished
<1> SUFFICES ASSUME BoardInv, SummaryComplete, "overdue" \in panel.names
             PROVE  summary.counts["overdue"] + summary.counts["due soon"]
                      <= summary.counts["PENDING"] + summary.counts["IN_PROGRESS"]
                           + 2 * written.during
  BY DEF DeadlinesAmongUnfinished
<1>1. SummarySound /\ DOMAIN summary.counts = panel.names
  BY DEF BoardInv, SummaryComplete
<1>2. {"overdue", "due soon", "PENDING", "IN_PROGRESS"} \subseteq panel.names
  BY BoardAssumption DEF BoardInv, BoardTypes
<1>3. \A n \in panel.names : summary.counts[n] = Reach(n)
  BY <1>1 DEF Reach
<1> QED BY <1>1, <1>2, <1>3 DEF SummarySound, UrgentFit

LEMMA ListFollows == BoardInv => ListMatchesSummary
<1> SUFFICES ASSUME BoardInv, deadlines # None PROVE ListMatchesSummary
  BY DEF ListMatchesSummary
<1>1. /\ DeadlinesSound /\ panel \in Panels /\ day \in Int
      /\ store \in [BoardRows -> Row(panel.table) \cup {None}]
  BY DEF BoardInv, BoardTypes, Days
<1>2. ASSUME NEW i \in deadlines.listed
      PROVE  deadlines.state[i] = GetDeadlineState(store[i])
  <2>1. i \in BoardRows /\ store[i] # None /\ Urgent(store[i], deadlines.scope)
    BY <1>1, <1>2 DEF DeadlinesSound, UrgentRows
  <2>2. deadlines.state[i] = IF store[i].due < day THEN "OVERDUE" ELSE "DUE_SOON"
    BY <1>1, <1>2 DEF DeadlinesSound
  <2> QED BY <2>1, <2>2 DEF Urgent, GetDeadlineState
<1>3. ASSUME SummaryComplete, summary.quiet, "overdue" \in panel.names,
             summary.scope = deadlines.scope, summary.now = day
      PROVE  Cardinality(deadlines.listed) =
               Min({MaxListed, summary.counts["overdue"] + summary.counts["due soon"]})
  <2>1. SummarySound /\ DOMAIN summary.counts = panel.names
    BY <1>3 DEF BoardInv, SummaryComplete
  <2>2. "due soon" \in panel.names
    BY <1>1, <1>3, BoardAssumption
  <2>3. /\ summary.counts["overdue"] = Count("overdue", deadlines.scope, day)
        /\ summary.counts["due soon"] = Count("due soon", deadlines.scope, day)
    BY <1>3, <2>1, <2>2 DEF SummarySound
  <2>4. Count("overdue", deadlines.scope, day) + Count("due soon", deadlines.scope, day)
          = Cardinality(UrgentRows(deadlines.scope))
    BY <1>1, <1>3, UrgentOfNow
  <2>5. Cardinality(deadlines.listed)
          = Min({Cardinality(UrgentRows(deadlines.scope)), MaxListed})
    BY <1>1 DEF DeadlinesSound
  <2> DEFINE c == Cardinality(UrgentRows(deadlines.scope))
  <2>6. {c, MaxListed} = {MaxListed, c}
    OBVIOUS
  <2> QED BY <2>3, <2>4, <2>5, <2>6
<1> QED BY <1>2, <1>3 DEF ListMatchesSummary

LEMMA TypesFollow == BoardInv => BoardTypeOK
<1> SUFFICES ASSUME BoardInv PROVE BoardTypeOK
  OBVIOUS
<1>1. day \in Days /\ panel \in Panels
  BY DEF BoardInv, BoardTypes
<1>2. panel.names \subseteq CountNames(panel.table)
  BY <1>1, BoardAssumption
<1>3. \A i \in BoardRows : store[i] # None => store[i] \in Row(panel.table)
  BY DEF BoardInv, BoardTypes
<1>4. ASSUME summary # None
      PROVE  /\ summary.scope \in BoardScopes
             /\ DOMAIN summary.counts \subseteq panel.names
             /\ \A n \in DOMAIN summary.counts :
                  summary.counts[n] \in 0 .. Cardinality(BoardRows)
  <2>1. summary \in SummaryType(panel.names)
    BY <1>4 DEF BoardInv, SummarySound
  <2>2. PICK D \in SUBSET panel.names : summary.counts \in [D -> 0 .. Cardinality(BoardRows)]
    BY <2>1 DEF SummaryType
  <2> QED BY <2>1, <2>2 DEF SummaryType
<1>5. ASSUME deadlines # None PROVE Cardinality(deadlines.listed) <= MaxListed
  <2> DEFINE urgent == UrgentRows(deadlines.scope)
  <2>1. Cardinality(deadlines.listed) = Min({Cardinality(urgent), MaxListed})
    BY <1>5 DEF BoardInv, DeadlinesSound
  <2>2. urgent \in SUBSET BoardRows
    BY DEF UrgentRows
  <2>3. Cardinality(urgent) \in Int /\ MaxListed \in Int
    <3> HIDE DEF urgent
    <3>1. IsFiniteSet(urgent) /\ MaxListed \in Nat
      BY <2>2, FS_Subset, BoardAssumption
    <3> QED BY <3>1, FS_CardinalityType
  <2> HIDE DEF urgent
  <2> QED BY <2>1, <2>3, MinOfTwo
<1> QED BY <1>1, <1>2, <1>3, <1>4, <1>5 DEF BoardTypeOK

\* Every count is a number of rows, and the list is never longer than five (here
\* MaxListed; dashboard.service.ts takes that many).
THEOREM DashboardTypes == BoardSpec => []BoardTypeOK
BY BoardInvariant, TypesFollow, PTL

\* The parts of a panel add up to its total and the urgent actions are among
\* the unfinished, but for what was written while the counts were made; and
\* the list of deadlines, its badges and the counts of it agree.
THEOREM NumbersAgree == BoardSpec => []DashboardAgrees
<1>1. BoardInv => DashboardAgrees
  BY PartsFollow, UrgentFollows, ListFollows DEF DashboardAgrees
<1> QED BY <1>1, BoardInvariant, PTL

=============================================================================
