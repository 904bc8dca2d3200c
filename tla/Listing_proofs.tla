--------------------------- MODULE Listing_proofs ---------------------------
(***************************************************************************)
(* Theorems about Listing: a walk through the pages is given everything    *)
(* that was there when it set out, for any submissions and any per_page.   *)
(***************************************************************************)
EXTENDS Listing, FiniteSetTheorems, WellFoundedInduction, TLAPS

\* created_at tells transactions apart, and grows.
Clock ==
  /\ \A s \in Begun : created[s] <= Cardinality(Begun)
  /\ \A s, t \in Begun : created[s] = created[t] => s = t

\* The walk is at a page whose number and offset are those of plain arithmetic,
\* or whose offset is the first one that is refused.
Paced ==
  /\ walk = "idle" => page = 1
  /\ walk = "walking" => page < Half /\ (page - 1) * PerPage(asked) < 2 * Half

IInv == TypeOK /\ Clock /\ Paced /\ NothingSlipsPast /\ WalkSeesAll

----------------------------------------------------------------------------
(* Arithmetic.                                                             *)
LEMMA WrapType == ASSUME NEW n \in Int PROVE Wrap(n) \in Int
  BY ListingAssumption, FS_CardinalityType DEF Wrap

LEMMA WrapExact ==
  ASSUME NEW n \in Nat, n < Half
  PROVE  Wrap(n) = n
<1>1. (n + Half) % (2 * Half) = n + Half
  BY ListingAssumption
<1> QED BY <1>1, ListingAssumption DEF Wrap

LEMMA WrapPast ==
  ASSUME NEW n \in Nat, Half <= n, n < 2 * Half
  PROVE  Wrap(n) < 0
<1>1. (n + Half) % (2 * Half) = n - Half
  BY ListingAssumption
<1> QED BY <1>1, ListingAssumption DEF Wrap

LEMMA PerPageRange == ASSUME NEW n \in Int PROVE PerPage(n) \in 1..MaxRows
  BY WrapType, ListingAssumption DEF PerPage

LEMMA NextOffset ==
  ASSUME NEW a \in Int, NEW b \in Int
  PROVE  ((a + 1) - 1) * b = (a - 1) * b + b
  OBVIOUS

LEMMA OffsetGrows ==
  ASSUME NEW a \in Nat, NEW b \in Nat \ {0}
  PROVE  a * b \in Nat /\ a <= a * b
  OBVIOUS

LEMMA MinNat ==
  ASSUME NEW S \in SUBSET Nat, S # {}
  PROVE  \E m \in S : \A k \in S : m <= k
<1> DEFINE R == OpToRel(<, Nat)
<1>1. IsWellFoundedOn(R, Nat)
  BY NatLessThanWellFounded
<1>2. \E m \in S : \A k \in S : ~(<<k, m>> \in R)
  <2> HIDE DEF R
  <2> QED BY <1>1, WFMin
<1>3. R = {ss \in Nat \X Nat : ss[1] < ss[2]}
  BY Zenon DEF OpToRel
<1>4. \A k, m \in Nat : k < m => <<k, m>> \in R
  <2> HIDE DEF R
  <2> QED BY <1>3
<1> HIDE DEF R
<1>5. PICK m \in S : \A k \in S : ~(<<k, m>> \in R)
  BY <1>2
<1>6. \A k \in S : ~(k < m)
  BY <1>4, <1>5
<1>7. \A k \in S : m <= k
  BY <1>6
<1> QED BY <1>7

\* Of finitely many transactions, one is the first and one the last to begin.
LEMMA Extremes ==
  ASSUME TypeOK, Clock, NEW T \in SUBSET Begun, T # {}
  PROVE  /\ \E s \in T : \A t \in T : created[s] <= created[t]
         /\ \E s \in T : \A t \in T : created[t] <= created[s]
<1> DEFINE n == Cardinality(Begun)
<1>1. n \in Nat
  <2>1. IsFiniteSet(Begun)
    BY ListingAssumption, FS_Subset DEF Begun
  <2> QED BY <2>1, FS_CardinalityType
<1>2. \A s \in T : created[s] \in Nat /\ created[s] <= n
  BY DEF TypeOK, Clock, Begun
<1> HIDE DEF n
<1>3. \E s \in T : \A t \in T : created[s] <= created[t]
  <2> DEFINE S == {created[s] : s \in T}
  <2>1. S \in SUBSET Nat /\ S # {}
    BY <1>2
  <2>2. PICK m \in S : \A k \in S : m <= k
    <3> HIDE DEF S
    <3> QED BY <2>1, MinNat
  <2> QED BY <2>2
<1>4. \E s \in T : \A t \in T : created[t] <= created[s]
  <2> DEFINE S == {n - created[s] : s \in T}
  <2>1. S \in SUBSET Nat /\ S # {}
    BY <1>1, <1>2
  <2>2. PICK m \in S : \A k \in S : m <= k
    <3> HIDE DEF S
    <3> QED BY <2>1, MinNat
  <2>3. PICK s \in T : m = n - created[s]
    BY <2>2
  <2>4. \A t \in T : n - created[s] <= n - created[t]
    BY <2>2, <2>3
  <2> QED BY <2>4, <1>1, <1>2
<1> QED BY <1>3, <1>4

----------------------------------------------------------------------------
(* Positions.                                                              *)
Newer(s) == {c \in committed : created[c] > created[s]}

LEMMA PositionType ==
  ASSUME TypeOK, NEW s \in committed
  PROVE  /\ IsFiniteSet(Newer(s)) /\ Position(s) = Cardinality(Newer(s))
         /\ Position(s) \in Nat /\ Position(s) <= Cardinality(Submission) - 1
<1>1. /\ IsFiniteSet(Submission \ {s})
      /\ Cardinality(Submission \ {s}) = Cardinality(Submission) - 1
  BY ListingAssumption, FS_RemoveElement DEF TypeOK, Begun
<1>2. Newer(s) \in SUBSET (Submission \ {s})
  BY DEF Newer, TypeOK, Begun
<1>3. Position(s) = Cardinality(Newer(s))
  BY DEF Position, Newer
<1> QED BY <1>1, <1>2, <1>3, FS_Subset, FS_CardinalityType

\* There is no gap between the positions: behind an empty page there is nothing.
LEMMA NoGap ==
  ASSUME TypeOK, Clock, NEW o \in Nat, NEW l \in Nat \ {0}, Rows(o, l) = {}
  PROVE  \A s \in committed : Position(s) < o
<1> DEFINE T == {s \in committed : Position(s) >= o}
<1> SUFFICES ASSUME T # {} PROVE FALSE
  BY PositionType
<1>1. PICK s \in T : \A t \in T : created[t] <= created[s]
  BY Extremes DEF TypeOK
<1>2. Position(s) \in Nat /\ Position(s) > o /\ s \in committed
  BY <1>1, PositionType DEF Rows
<1>3. \A c \in Newer(s) : c \in committed /\ Position(c) < o
  <2> TAKE c \in Newer(s)
  <2>1. c \in committed /\ created[c] > created[s] /\ created[c] \in Nat /\ created[s] \in Nat
    BY <1>2 DEF Newer, TypeOK, Begun
  <2>2. ~(created[c] <= created[s])
    BY <2>1
  <2>3. c \notin T
    BY <1>1, <2>2
  <2> QED BY <2>1, <2>3, PositionType
<1>4. Newer(s) # {}
  BY <1>2, PositionType, FS_EmptySet
<1>5. PICK t \in Newer(s) : \A c \in Newer(s) : created[t] <= created[c]
  BY <1>4, Extremes DEF Newer, TypeOK
<1>6. Newer(t) = Newer(s) \ {t}
  BY <1>5, <1>2 DEF Newer, TypeOK, Begun, Clock
<1>7. Position(t) = Position(s) - 1
  BY <1>2, <1>3, <1>5, <1>6, PositionType, FS_RemoveElement
<1> QED BY <1>2, <1>3, <1>5, <1>7

----------------------------------------------------------------------------
LEMMA InitInv == Init => IInv
<1> SUFFICES ASSUME Init PROVE IInv
  OBVIOUS
<1>1. Begun = {}
  BY DEF Init, Begun
<1>2. TypeOK
  BY <1>1 DEF Init, TypeOK
<1> QED BY <1>1, <1>2 DEF Init, IInv, Clock, Paced, NothingSlipsPast, WalkSeesAll

\* A transaction that begins is the last one so far.
LEMMA BeginInv ==
  ASSUME IInv, NEW s \in Submission, Begin(s)
  PROVE  IInv'
<1>1. IsFiniteSet(Begun) /\ Cardinality(Begun) \in Nat
  BY ListingAssumption, FS_Subset, FS_CardinalityType DEF Begun
<1>2. Begun' = Begun \cup {s} /\ s \notin Begun
  BY <1>1 DEF Begin, Begun, IInv, TypeOK
<1>3. Cardinality(Begun') = Cardinality(Begun) + 1
  BY <1>1, <1>2, FS_AddElement
<1>4. /\ created' \in [Submission -> Nat] /\ created'[s] = Cardinality(Begun) + 1
      /\ \A t \in Submission : t # s => created'[t] = created[t]
  BY <1>1 DEF Begin, IInv, TypeOK
<1>5. TypeOK'
  BY <1>2, <1>4 DEF Begin, IInv, TypeOK, client
<1>6. Clock'
  BY <1>1, <1>2, <1>3, <1>4 DEF IInv, TypeOK, Clock, Begun
<1>7. \A t \in committed : Position(t)' = Position(t)
  BY <1>2, <1>4 DEF Begin, Position, IInv, TypeOK, Begun
<1>8. Paced' /\ NothingSlipsPast' /\ WalkSeesAll'
  BY <1>7 DEF Begin, client, IInv, TypeOK, Paced, NothingSlipsPast, WalkSeesAll
<1> QED BY <1>5, <1>6, <1>8 DEF IInv

\* A row that appears pushes others back.
LEMMA CommitInv ==
  ASSUME IInv, NEW s \in Submission, Commit(s)
  PROVE  IInv'
<1>1. TypeOK' /\ Clock'
  BY DEF Commit, client, IInv, TypeOK, Clock, Begun
<1>2. \A t \in committed : Position(t)' >= Position(t)
  <2> TAKE t \in committed
  <2>1. Newer(t) \in SUBSET Newer(t)'
    BY DEF Newer, Commit
  <2>2. t \in committed'
    BY DEF Commit
  <2>3. IsFiniteSet(Newer(t))' /\ (Position(t) = Cardinality(Newer(t)))'
    BY <1>1, <2>2, ListingAssumption, FS_Subset DEF Newer, Position, TypeOK, Begun
  <2> QED BY <2>1, <2>3, PositionType, FS_Subset DEF IInv
<1>3. \A t \in committed : Position(t) \in Nat
  BY PositionType DEF IInv
<1>4. Paced' /\ WalkSeesAll'
  BY DEF Commit, client, IInv, Paced, WalkSeesAll
<1>5. NothingSlipsPast'
  <2> SUFFICES ASSUME walk = "walking", NEW t \in had \ seen
               PROVE  Position(t)' >= (page - 1) * PerPage(asked)
    BY DEF Commit, client, NothingSlipsPast
  <2> DEFINE k == (page - 1) * PerPage(asked)
  <2>1. k \in Int
    BY PerPageRange, ListingAssumption DEF IInv, TypeOK
  <2>2. Position(t) >= k /\ t \in committed
    BY DEF IInv, TypeOK, NothingSlipsPast
  <2>3. Position(t)' \in Nat
    <3>1. t \in committed'
      BY <2>2 DEF Commit
    <3>2. IsFiniteSet({c \in committed : created[c] > created[t]})'
      BY <1>1, <3>1, ListingAssumption, FS_Subset DEF TypeOK, Begun
    <3> QED BY <3>2, FS_CardinalityType DEF Position
  <2> HIDE DEF k
  <2>4. Position(t)' >= k
    BY <1>2, <1>3, <2>1, <2>2, <2>3
  <2> QED BY <2>4 DEF k
<1> QED BY <1>1, <1>4, <1>5 DEF IInv

LEMMA SetOutInv == ASSUME IInv, SetOut PROVE IInv'
<1>1. TypeOK' /\ Clock' /\ \A t \in committed : Position(t)' = Position(t)
  BY DEF SetOut, table, IInv, TypeOK, Clock, Begun, Position
<1>2. PerPage(asked) \in Nat /\ PerPage(asked)' = PerPage(asked) /\ page = 1 /\ page' = 1
  BY PerPageRange, ListingAssumption DEF SetOut, IInv, TypeOK, Paced
<1>3. (page' - 1) * PerPage(asked)' = 0
  BY <1>2
<1>4. Paced'
  BY <1>2, <1>3, ListingAssumption, FS_CardinalityType DEF SetOut, Paced
<1>5. NothingSlipsPast'
  BY <1>1, <1>3, PositionType DEF SetOut, IInv, NothingSlipsPast
<1> QED BY <1>1, <1>4, <1>5 DEF SetOut, WalkSeesAll, IInv

\* An offset that is not refused is the one that was meant.
LEMMA OffsetIsMeant ==
  ASSUME IInv, walk = "walking", Offset(page, asked) >= 0
  PROVE  /\ PerPage(asked) \in Nat \ {0} /\ PerPage(asked) <= Half
         /\ (page - 1) * PerPage(asked) \in Nat /\ page - 1 <= (page - 1) * PerPage(asked)
         /\ (page - 1) * PerPage(asked) < Half
         /\ Offset(page, asked) = (page - 1) * PerPage(asked)
<1> DEFINE k == (page - 1) * PerPage(asked)
<1>1. PerPage(asked) \in Nat \ {0} /\ PerPage(asked) <= Half
  BY PerPageRange, ListingAssumption DEF IInv, TypeOK
<1>2. page \in Nat \ {0} /\ page < Half /\ k < 2 * Half
  BY DEF IInv, TypeOK, Paced
<1>3. Page(page) = page
  BY <1>2, WrapExact DEF Page
<1>4. Offset(page, asked) = Wrap(k)
  BY <1>3 DEF Offset
<1>5. k \in Nat /\ page - 1 <= k
  BY <1>1, <1>2, OffsetGrows
<1> HIDE DEF k
<1>6. k < Half
  <2> SUFFICES ASSUME Half <= k PROVE FALSE
    BY <1>5, ListingAssumption, FS_CardinalityType
  <2>1. Wrap(k) < 0
    BY <1>2, <1>5, WrapPast
  <2>2. Wrap(k) \in Int
    BY <1>5, WrapType
  <2>3. Wrap(k) >= 0
    BY <1>4
  <2> QED BY <2>1, <2>2, <2>3
<1>7. Wrap(k) = k
  BY <1>5, <1>6, WrapExact
<1> QED BY <1>1, <1>4, <1>5, <1>6, <1>7 DEF k

LEMMA TurnInv == ASSUME IInv, Turn PROVE IInv'
<1> DEFINE k == (page - 1) * PerPage(asked)
           l == PerPage(asked)
           rows == Rows(Offset(page, asked), PerPage(asked))
<1>1. walk = "walking" /\ UNCHANGED <<created, committed, asked, had>>
  BY DEF Turn, table
<1>2. rows \subseteq committed
  BY DEF Rows
<1>3. Clock'
  BY <1>1 DEF IInv, Clock, Begun
<1>4. /\ \A t \in committed : Position(t)' = Position(t) /\ Position(t) \in Nat
      /\ PerPage(asked)' = PerPage(asked)
  BY <1>1, PositionType DEF IInv, Position
<1>5. CASE Offset(page, asked) < 0 /\ walk' = "failed" /\ UNCHANGED <<page, seen>>
  BY <1>1, <1>3, <1>5 DEF IInv, TypeOK, Begun, Paced, NothingSlipsPast, WalkSeesAll
<1>6. CASE Offset(page, asked) >= 0 /\ rows = {} /\ walk' = "finished" /\ UNCHANGED <<page, seen>>
  <2>1. \A s \in committed : Position(s) < k
    BY <1>1, <1>6, OffsetIsMeant, NoGap DEF IInv
  <2>2. \A s \in had \ seen : Position(s) >= k /\ s \in committed
    BY <1>1 DEF IInv, TypeOK, NothingSlipsPast
  <2>3. k \in Nat
    BY <1>1, <1>6, OffsetIsMeant
  <2> HIDE DEF k
  <2>4. had \subseteq seen
    BY <2>1, <2>2, <2>3, <1>4
  <2> QED BY <2>4, <1>1, <1>3, <1>6 DEF IInv, TypeOK, Begun, Paced, NothingSlipsPast, WalkSeesAll
<1>7. CASE Offset(page, asked) >= 0 /\ rows # {} /\ page' = page + 1 /\ seen' = seen \cup rows
           /\ UNCHANGED walk
  <2>1. /\ k \in Nat /\ page - 1 <= k /\ k < Half /\ Offset(page, asked) = k
        /\ l \in Nat \ {0} /\ l <= Half /\ page \in Nat \ {0}
    BY <1>1, <1>7, OffsetIsMeant DEF IInv, TypeOK
  <2>2. (page' - 1) * PerPage(asked)' = k + l
    BY <1>4, <1>7, <2>1, NextOffset
  <2>3. rows = {s \in committed : Position(s) >= k /\ Position(s) < k + l}
    BY <2>1 DEF Rows
  <2>4. TypeOK'
    BY <1>1, <1>2, <1>7 DEF IInv, TypeOK, Begun
  <2>5. \A s \in had \ seen : Position(s) >= k /\ s \in committed
    BY <1>1 DEF IInv, TypeOK, NothingSlipsPast
  <2>6. PICK r \in rows : TRUE
    BY <1>7
  <2> HIDE DEF k, l, rows
  <2>7. page + 1 < Half /\ k + l < 2 * Half
    <3>1. Position(r) \in Nat /\ Position(r) >= k /\ Position(r) <= Cardinality(Submission) - 1
      BY <2>3, <2>6, PositionType DEF IInv
    <3>2. Cardinality(Submission) \in Nat /\ Half \in Nat /\ Cardinality(Submission) + 1 < Half
      BY ListingAssumption, FS_CardinalityType
    <3> QED BY <2>1, <3>1, <3>2
  <2>8. Paced'
    BY <1>1, <1>7, <2>2, <2>7 DEF Paced
  <2>9. NothingSlipsPast'
    <3> SUFFICES ASSUME NEW s \in had \ seen, s \notin rows PROVE Position(s) >= k + l
      BY <1>1, <1>4, <1>7, <2>2, <2>5 DEF NothingSlipsPast
    <3> QED BY <1>4, <2>1, <2>3, <2>5
  <2> QED BY <1>1, <1>3, <1>7, <2>4, <2>8, <2>9 DEF IInv, WalkSeesAll
<1> QED BY <1>5, <1>6, <1>7 DEF Turn

LEMMA NextInv == IInv /\ [Next]_vars => IInv'
<1> SUFFICES ASSUME IInv, [Next]_vars PROVE IInv'
  OBVIOUS
<1>1. CASE UNCHANGED vars
  <2>1. Begun' = Begun /\ \A t \in committed : Position(t)' = Position(t)
    BY <1>1 DEF vars, Begun, Position
  <2> QED BY <1>1, <2>1 DEF vars, IInv, TypeOK, Clock, Paced, NothingSlipsPast, WalkSeesAll
<1>2. CASE Next
  BY <1>2, BeginInv, CommitInv, SetOutInv, TurnInv DEF Next
<1> QED BY <1>1, <1>2

THEOREM ListingInvariant == Spec => []IInv
  BY InitInv, NextInv, PTL DEF Spec

----------------------------------------------------------------------------
\* The variables keep their types: a page shows committed rows only.
THEOREM ListingTypeCorrect == Spec => []TypeOK
<1>1. IInv => TypeOK
  BY DEF IInv
<1> QED BY <1>1, ListingInvariant, PTL

\* What the walk has yet to see is never in front of the next page.
THEOREM NothingIsSkipped == Spec => []NothingSlipsPast
<1>1. IInv => NothingSlipsPast
  BY DEF IInv
<1> QED BY <1>1, ListingInvariant, PTL

\* A walk up to the empty page has been given all that was there when it set
\* out, for any number of submissions that leaves int32 room, and any per_page.
THEOREM WalkIsComplete == Spec => []WalkSeesAll
<1>1. IInv => WalkSeesAll
  BY DEF IInv
<1> QED BY <1>1, ListingInvariant, PTL
=============================================================================
