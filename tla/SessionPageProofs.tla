-------------------------- MODULE SessionPageProofs --------------------------
(***************************************************************************)
(* Proofs about SessionPage, for any number of sessions, tags, moves,       *)
(* updates and faults: the filter hides not everything, the end of a drag   *)
(* keeps the list, and a session asked for is reported once at most.        *)
(***************************************************************************)
EXTENDS SessionPage, FiniteSetTheorems, FunctionTheorems, TLAPS

-----------------------------------------------------------------------------
(* The inductive invariant.                                                *)

Names  == Ids \cup {None}
DbRows == [seq : Int, tags : SUBSET Tags, ended : BOOLEAN]
Rows   == [id : Names, seq : Int, tags : SUBSET Tags, ended : BOOLEAN]

\* No session is listed twice; blank rows may be many.
Distinct(ids) == \A i, j \in DOMAIN ids : ids[i] = ids[j] /\ ids[i] # None => i = j

Lists == {list \in Seq(Rows) :
            /\ Distinct(IdsOf(list))
            /\ \A i \in DOMAIN list : list[i].id = None => list[i].tags = {}}
Loaded == {list \in Lists : \A i \in DOMAIN list : list[i].id # None}

RowsOK ==
  /\ IsFiniteSet(DOMAIN rows) /\ DOMAIN rows \subseteq Ids
  /\ rows \in [DOMAIN rows -> DbRows]

FeedOK ==
  /\ updates \in [Ids -> DbRows \cup {NoRow}]
  /\ \A n \in news : n \in Rows /\ n.id # None
  /\ \A s \in saves : s \in [id : Ids, tags : SUBSET Tags, was : SUBSET Tags, written : BOOLEAN]
  /\ \A d \in gone : d.new \in Rows /\ d.new.id # None
  /\ reorders \subseteq Seq(Names)
  /\ \A l \in loads : "list" \in DOMAIN l /\ l.list \in Loaded

\* The rows shown have their slots in the whole list, and no more.
Slots(full, shown) == {i \in DOMAIN full : full[i] \in ToSet(shown)}
Fits(full, shown) ==
  /\ full \in Seq(Names) /\ shown \in Seq(Names) /\ Distinct(full) /\ Distinct(shown)
  /\ ToSet(shown) \subseteq ToSet(full) /\ Cardinality(Slots(full, shown)) = Len(shown)

\* What a touch remembers of the list is a list; of its blank rows, which only the end of
\* another drag makes, all are still there or none.
Blanks(ids) == {i \in DOMAIN ids : ids[i] = None}
DragOK ==
  /\ drag.kind \in {"none", "mouse", "touch"}
  /\ drag.kind = "touch" =>
       /\ Fits(drag.full, drag.shown) /\ drag.id \in ToSet(drag.shown) \ {None}
       /\ Blanks(IdsOf(sessions)) # {} =>
            Cardinality(Blanks(IdsOf(sessions))) = Cardinality(Blanks(drag.full))

IInv == RowsOK /\ sessions \in Lists /\ FeedOK /\ DragOK

\* A report is owed exactly while the SessionCreator waits, and then one only.
Counts == [page : {"dashboard", "session"}, moves : Nat, faults : Nat, asked : Nat, starts : SUBSET Ids,
           reported : Nat, replaced : Nat]
Owed ==
  /\ counts \in Counts
  /\ counts.asked = counts.reported + counts.replaced + IF creating = None THEN 0 ELSE 1

-----------------------------------------------------------------------------
(* Places.                                                                 *)

Keyed(S, key) == S \subseteq Int /\ IsFiniteSet(S) /\ \A i \in S : key[i] \in Int
Before(key, j, i) == key[j] < key[i] \/ (key[j] = key[i] /\ j <= i)
UpTo(S, key, i) == {j \in S : Before(key, j, i)}

\* A place is the number of those up to it.
LEMMA PlaceCounts ==
  ASSUME NEW S, NEW key, NEW i
  PROVE  Place(S, key, i) = Cardinality(UpTo(S, key, i))
  BY DEF Place, UpTo, Before

\* Places run from one to the number of positions, no two share one, and every one is
\* taken: what comes later has strictly more before it, and a set has no room for an
\* injection of itself that misses a member.
LEMMA PlacesAreTaken ==
  ASSUME NEW S, NEW key, Keyed(S, key)
  PROVE  /\ Cardinality(S) \in Nat
         /\ \A i \in S : Place(S, key, i) \in 1 .. Cardinality(S)
         /\ \A i, j \in S : Place(S, key, i) = Place(S, key, j) => i = j
         /\ \A k \in 1 .. Cardinality(S) : \E i \in S : Place(S, key, i) = k
<1> DEFINE n == Cardinality(S)
           P == [i \in S |-> Place(S, key, i)]
<1>0. n \in Nat
  BY FS_CardinalityType DEF Keyed
<1>1. ASSUME NEW i \in S
      PROVE  /\ UpTo(S, key, i) \in SUBSET S /\ IsFiniteSet(UpTo(S, key, i))
             /\ i \in UpTo(S, key, i) /\ Place(S, key, i) \in 1 .. n
  <2>1. UpTo(S, key, i) \in SUBSET S /\ i \in UpTo(S, key, i)
    BY <1>1 DEF UpTo, Before, Keyed
  <2>2. IsFiniteSet(UpTo(S, key, i)) /\ Cardinality(UpTo(S, key, i)) <= n
    BY <2>1, FS_Subset DEF Keyed
  <2>3. Cardinality(UpTo(S, key, i)) \in Nat /\ Cardinality(UpTo(S, key, i)) # 0
    BY <2>1, <2>2, FS_CardinalityType, FS_EmptySet
  <2> QED BY <1>0, <2>1, <2>2, <2>3, PlaceCounts
<1>2. ASSUME NEW i \in S, NEW j \in S, i # j, Before(key, j, i)
      PROVE  Place(S, key, i) # Place(S, key, j)
  <2>1. UpTo(S, key, j) \in SUBSET UpTo(S, key, i) /\ i \notin UpTo(S, key, j)
    <3>1. i \in Int /\ j \in Int /\ key[i] \in Int /\ key[j] \in Int
      BY DEF Keyed
    <3>2. ~Before(key, i, j)
      BY <1>2, <3>1 DEF Before
    <3>3. ASSUME NEW h \in S, Before(key, h, j) PROVE Before(key, h, i)
      <4>1. h \in Int /\ key[h] \in Int
        BY DEF Keyed
      <4> QED BY <1>2, <3>1, <3>3, <4>1 DEF Before
    <3> QED BY <3>2, <3>3 DEF UpTo
  <2>2. UpTo(S, key, j) # UpTo(S, key, i)
    BY <1>1, <2>1
  <2> QED BY <1>1, <2>1, <2>2, FS_Subset, PlaceCounts
<1>3. \A i, j \in S : Before(key, i, j) \/ Before(key, j, i)
  BY DEF Before, Keyed
<1>4. \A i, j \in S : Place(S, key, i) = Place(S, key, j) => i = j
  BY <1>2, <1>3
<1>5. P \in Injection(S, 1 .. n)
  <2>1. P \in [S -> 1 .. n]
    BY <1>1
  <2>2. \A i, j \in S : P[i] = P[j] => i = j
    BY <1>4
  <2> QED BY <2>1, <2>2, Fun_IsInj
<1>6. IsFiniteSet(1 .. n) /\ Cardinality(1 .. n) = n
  BY <1>0, FS_Interval
<1>7. P \in Surjection(S, 1 .. n)
  BY <1>5, <1>6, FS_Injection
<1>8. \A k \in 1 .. n : \E i \in S : P[i] = k
  BY <1>7, Zenon DEF Surjection
<1>9. \A k \in 1 .. n : \E i \in S : Place(S, key, i) = k
  BY <1>8
<1> HIDE DEF n, P
<1>10. \A i \in S : Place(S, key, i) \in 1 .. n
  BY <1>1
<1> QED BY <1>0, <1>4, <1>9, <1>10 DEF n

\* Where the positions of the k-th place is.
Spot(S, key) == [k \in 1 .. Cardinality(S) |-> CHOOSE i \in S : Place(S, key, i) = k]

\* t has what s has at the positions S, each of them once.
Picks(t, s, S) ==
  \E at \in Bijection(1 .. Cardinality(S), S) : t = [k \in 1 .. Cardinality(S) |-> s[at[k]]]

LEMMA SpotIsPlace ==
  ASSUME NEW S, NEW key, Keyed(S, key)
  PROVE  /\ Spot(S, key) \in Bijection(1 .. Cardinality(S), S)
         /\ \A k \in 1 .. Cardinality(S) : Place(S, key, Spot(S, key)[k]) = k
<1> DEFINE n == Cardinality(S)
           at == Spot(S, key)
<1>1. ASSUME NEW k \in 1 .. n PROVE at[k] \in S /\ Place(S, key, at[k]) = k
  <2>1. \E i \in S : Place(S, key, i) = k
    BY PlacesAreTaken
  <2>2. at[k] = CHOOSE i \in S : Place(S, key, i) = k
    BY DEF Spot
  <2> QED BY <2>1, <2>2
<1>2. at \in [1 .. n -> S]
  <2>1. at = [k \in 1 .. n |-> at[k]]
    BY DEF Spot
  <2> QED BY <1>1, <2>1
<1>3. \A k, l \in 1 .. n : at[k] = at[l] => k = l
  BY <1>1
<1>4. \A i \in S : \E k \in 1 .. n : at[k] = i
  <2> SUFFICES ASSUME NEW i \in S PROVE at[Place(S, key, i)] = i /\ Place(S, key, i) \in 1 .. n
    OBVIOUS
  <2> QED BY <1>1, PlacesAreTaken
<1> QED BY <1>1, <1>2, <1>3, <1>4, Fun_IsBij

LEMMA PlacedPicks ==
  ASSUME NEW list, NEW S, NEW key, Keyed(S, key)
  PROVE  Picks(Placed(list, S, key), list, S)
<1>1. Placed(list, S, key) = [k \in 1 .. Cardinality(S) |-> list[Spot(S, key)[k]]]
  BY DEF Placed, Spot
<1> QED BY <1>1, SpotIsPlace DEF Picks

-----------------------------------------------------------------------------
(* Picked sequences.                                                       *)

\* What a bijection does.
LEMMA Bij ==
  ASSUME NEW S, NEW T, NEW f \in Bijection(S, T)
  PROVE  /\ f \in [S -> T] /\ \A x, y \in S : f[x] = f[y] => x = y
         /\ \A t \in T : \E x \in S : f[x] = t
  BY Fun_BijectionProperties

\* A position of a sequence is a number, and there are finitely many.
LEMMA Positions ==
  ASSUME NEW T, NEW s \in Seq(T), NEW S \in SUBSET DOMAIN s
  PROVE  /\ IsFiniteSet(S) /\ S \subseteq Int /\ Cardinality(S) \in Nat
         /\ DOMAIN s = 1 .. Len(s) /\ Len(s) \in Nat
         /\ Cardinality(DOMAIN s) = Len(s)
<1>1. DOMAIN s = 1 .. Len(s) /\ Len(s) \in Nat
  OBVIOUS
<1>2. IsFiniteSet(1 .. Len(s)) /\ Cardinality(1 .. Len(s)) = Len(s)
  <2>1. 1 \in Int /\ Len(s) \in Int /\ (IF 1 > Len(s) THEN 0 ELSE Len(s) - 1 + 1) = Len(s)
    BY <1>1
  <2> QED BY <2>1, FS_Interval
<1>3. IsFiniteSet(S)
  BY <1>1, <1>2, FS_Subset
<1> QED BY <1>1, <1>2, <1>3, FS_CardinalityType

LEMMA PickedFrom ==
  ASSUME NEW s, NEW S, NEW t, Picks(t, s, S)
  PROVE  /\ DOMAIN t = 1 .. Cardinality(S)
         /\ \A k \in DOMAIN t : \E i \in S : t[k] = s[i]
         /\ \A i \in S : \E k \in DOMAIN t : t[k] = s[i]
         /\ ToSet(t) = {s[i] : i \in S}
<1> DEFINE n == Cardinality(S)
<1>1. PICK at \in Bijection(1 .. n, S) : t = [k \in 1 .. n |-> s[at[k]]]
  BY DEF Picks
<1>2. at \in [1 .. n -> S] /\ \A i \in S : \E k \in 1 .. n : at[k] = i
  BY <1>1, Zenon DEF Bijection, Injection, Surjection
<1> HIDE DEF n
<1>3. DOMAIN t = 1 .. n /\ \A k \in 1 .. n : t[k] = s[at[k]]
  BY <1>1
<1>4. \A k \in DOMAIN t : \E i \in S : t[k] = s[i]
  BY <1>2, <1>3
<1>5. \A i \in S : \E k \in DOMAIN t : t[k] = s[i]
  BY <1>2, <1>3
<1> QED BY <1>3, <1>4, <1>5 DEF n, ToSet

LEMMA PickedSeq ==
  ASSUME NEW T, NEW s \in Seq(T), NEW S \in SUBSET DOMAIN s, NEW t, Picks(t, s, S)
  PROVE  t \in Seq(T) /\ Len(t) = Cardinality(S)
<1>1. Cardinality(S) \in Nat
  BY Positions
<1>2. DOMAIN t = 1 .. Cardinality(S) /\ \A k \in DOMAIN t : t[k] \in T
  BY PickedFrom
<1>3. t = [k \in 1 .. Cardinality(S) |-> t[k]]
  BY DEF Picks
<1> QED BY <1>1, <1>2, <1>3

LEMMA PickedDistinct ==
  ASSUME NEW T, NEW s \in Seq(T), NEW S \in SUBSET DOMAIN s, NEW t, Picks(t, s, S), Distinct(s)
  PROVE  Distinct(t)
<1>1. PICK at \in Bijection(1 .. Cardinality(S), S) : t = [k \in 1 .. Cardinality(S) |-> s[at[k]]]
  BY DEF Picks
<1>2. /\ at \in [1 .. Cardinality(S) -> S]
      /\ \A x, y \in 1 .. Cardinality(S) : at[x] = at[y] => x = y
  BY <1>1, Bij
<1>3. \A x \in 1 .. Cardinality(S) : t[x] = s[at[x]] /\ at[x] \in DOMAIN s
  BY <1>1, <1>2
<1>4. DOMAIN t = 1 .. Cardinality(S)
  BY <1>1
<1> QED BY <1>2, <1>3, <1>4 DEF Distinct

\* Blank rows are neither lost nor made by picking all of them.
LEMMA PickedBlanks ==
  ASSUME NEW T, NEW s \in Seq(T), NEW S \in SUBSET DOMAIN s, NEW t, Picks(t, s, S),
         Blanks(s) \subseteq S
  PROVE  Cardinality(Blanks(t)) = Cardinality(Blanks(s)) /\ (Blanks(t) = {} <=> Blanks(s) = {})
<1>1. PICK at \in Bijection(1 .. Cardinality(S), S) : t = [k \in 1 .. Cardinality(S) |-> s[at[k]]]
  BY DEF Picks
<1> DEFINE f == [k \in Blanks(t) |-> at[k]]
<1>2. /\ at \in [1 .. Cardinality(S) -> S]
      /\ \A x, y \in 1 .. Cardinality(S) : at[x] = at[y] => x = y
      /\ \A i \in S : \E x \in 1 .. Cardinality(S) : at[x] = i
  BY <1>1, Zenon DEF Bijection, Injection, Surjection, IsInjective
<1>3. Blanks(t) = {k \in 1 .. Cardinality(S) : s[at[k]] = None}
  BY <1>1 DEF Blanks
<1>4. f \in [Blanks(t) -> Blanks(s)] /\ \A x, y \in Blanks(t) : f[x] = f[y] => x = y
  BY <1>2, <1>3 DEF Blanks
<1>5. \A i \in Blanks(s) : \E x \in Blanks(t) : f[x] = i
  BY <1>2, <1>3 DEF Blanks
<1>6. f \in Bijection(Blanks(t), Blanks(s))
  BY <1>4, <1>5, Fun_IsBij
<1>7. IsFiniteSet(Blanks(t))
  <2>1. t \in Seq(T) /\ Blanks(t) \in SUBSET DOMAIN t
    BY PickedSeq DEF Blanks
  <2> QED BY <2>1, Positions
<1>8. Cardinality(Blanks(t)) = Cardinality(Blanks(s))
  BY <1>6, <1>7, FS_Bijection DEF ExistsBijection
<1> QED BY <1>4, <1>5, <1>8

-----------------------------------------------------------------------------
(* Lists of rows.                                                          *)

LEMMA IdsSeq ==
  ASSUME NEW s \in Seq(Rows)
  PROVE  /\ IdsOf(s) \in Seq(Names) /\ Len(IdsOf(s)) = Len(s) /\ DOMAIN IdsOf(s) = DOMAIN s
         /\ \A i \in DOMAIN s : IdsOf(s)[i] = s[i].id /\ s[i] \in Rows
<1>1. DOMAIN s = 1 .. Len(s) /\ Len(s) \in Nat /\ \A i \in DOMAIN s : s[i] \in Rows
  OBVIOUS
<1>2. \A i \in DOMAIN s : s[i].id \in Names
  BY <1>1 DEF Rows
<1>3. IdsOf(s) = [i \in 1 .. Len(s) |-> s[i].id]
  BY <1>1 DEF IdsOf
<1>4. IdsOf(s) \in Seq(Names) /\ Len(IdsOf(s)) = Len(s)
  BY <1>1, <1>2, <1>3
<1> QED BY <1>1, <1>3, <1>4

LEMMA IdsPicked ==
  ASSUME NEW s \in Seq(Rows), NEW S \in SUBSET DOMAIN s, NEW t, Picks(t, s, S)
  PROVE  Picks(IdsOf(t), IdsOf(s), S)
<1>1. PICK at \in Bijection(1 .. Cardinality(S), S) : t = [k \in 1 .. Cardinality(S) |-> s[at[k]]]
  BY DEF Picks
<1>2. at \in [1 .. Cardinality(S) -> S]
  BY <1>1, Bij
<1>3. \A k \in 1 .. Cardinality(S) : IdsOf(s)[at[k]] = t[k].id
  BY <1>1, <1>2, IdsSeq
<1>4. DOMAIN t = 1 .. Cardinality(S)
  BY <1>1
<1>5. IdsOf(t) = [k \in 1 .. Cardinality(S) |-> IdsOf(s)[at[k]]]
  BY <1>3, <1>4 DEF IdsOf
<1> QED BY <1>1, <1>5 DEF Picks

LEMMA PickedList ==
  ASSUME NEW list \in Lists, NEW S \in SUBSET DOMAIN list, NEW t, Picks(t, list, S)
  PROVE  t \in Lists
<1>1. list \in Seq(Rows) /\ Distinct(IdsOf(list))
  BY DEF Lists
<1>2. t \in Seq(Rows) /\ \A k \in DOMAIN t : \E i \in S : t[k] = list[i]
  <2>1. t \in Seq(Rows)
    BY <1>1, PickedSeq
  <2>2. \A k \in DOMAIN t : \E i \in S : t[k] = list[i]
    BY PickedFrom, SMT
  <2> QED BY <2>1, <2>2
<1>3. Distinct(IdsOf(t))
  BY <1>1, IdsSeq, IdsPicked, PickedDistinct
<1> QED BY <1>2, <1>3 DEF Lists

LEMMA SortPicks ==
  ASSUME NEW list \in Lists
  PROVE  Picks(SortBySeq(list), list, DOMAIN list) /\ SortBySeq(list) \in Lists
<1>1. list \in Seq(Rows)
  BY DEF Lists
<1>2. Keyed(DOMAIN list, [i \in DOMAIN list |-> list[i].seq])
  <2>1. \A i \in DOMAIN list : list[i].seq \in Int
    BY <1>1, IdsSeq DEF Rows
  <2> QED BY <1>1, <2>1, Positions DEF Keyed
<1>3. Picks(SortBySeq(list), list, DOMAIN list)
  BY <1>2, PlacedPicks DEF SortBySeq
<1> QED BY <1>3, PickedList

LEMMA KeptPicks ==
  ASSUME NEW list \in Lists, NEW S \in SUBSET DOMAIN list
  PROVE  Picks(Kept(list, S), list, S) /\ Kept(list, S) \in Lists
<1>1. list \in Seq(Rows)
  BY DEF Lists
<1>2. Keyed(S, [i \in S |-> 0])
  BY <1>1, Positions DEF Keyed
<1>3. Picks(Kept(list, S), list, S)
  BY <1>2, PlacedPicks DEF Kept
<1> QED BY <1>3, PickedList

WithTags(list, sel) == {i \in DOMAIN list : list[i].tags \cap sel # {}}

\* A filter by tags of the list leaves something of it.
LEMMA FilterLeaves ==
  ASSUME NEW list \in Lists, NEW sel, sel \subseteq AllTags(list), list # <<>>
  PROVE  FilterByTags(SortBySeq(list), sel) # <<>>
<1> DEFINE sorted == SortBySeq(list)
           S == WithTags(sorted, sel)
<1>1. sorted \in Lists /\ sorted \in Seq(Rows) /\ list \in Seq(Rows)
  BY SortPicks DEF Lists
<1>2. /\ Len(sorted) = Cardinality(DOMAIN list)
      /\ \A i \in DOMAIN list : \E k \in DOMAIN sorted : sorted[k] = list[i]
  <2>1. Len(sorted) = Cardinality(DOMAIN list)
    BY <1>1, SortPicks, PickedSeq
  <2>2. \A i \in DOMAIN list : \E k \in DOMAIN sorted : sorted[k] = list[i]
    BY SortPicks, PickedFrom, SMT
  <2> QED BY <2>1, <2>2
<1>3. CASE sel = {}
  <2>1. Len(sorted) = Len(list) /\ Len(list) # 0
    BY <1>1, <1>2, Positions
  <2> QED BY <1>1, <1>3, <2>1 DEF FilterByTags
<1>4. CASE sel # {}
  <2>1. PICK i \in DOMAIN list : list[i].tags \cap sel # {}
    BY <1>4 DEF AllTags
  <2>2. S # {} /\ S \in SUBSET DOMAIN sorted
    BY <1>2, <2>1 DEF WithTags
  <2>3. Cardinality(S) # 0 /\ IsFiniteSet(S)
    BY <1>1, <2>2, Positions, FS_EmptySet
  <2>4. Len(Kept(sorted, S)) # 0
    BY <1>1, <2>2, <2>3, KeptPicks, PickedSeq
  <2>5. FilterByTags(sorted, sel) = Kept(sorted, S)
    BY <1>4 DEF FilterByTags, WithTags
  <2>6. Len(<<>>) = 0
    OBVIOUS
  <2> QED BY <2>4, <2>5, <2>6
<1> QED BY <1>3, <1>4

\* What a filter shows fits the list.
LEMMA FilteredFits ==
  ASSUME NEW list \in Lists, NEW sel
  PROVE  /\ Fits(IdsOf(list), IdsOf(FilterByTags(list, sel)))
         /\ FilterByTags(list, sel) \in Lists
<1> DEFINE full == IdsOf(list)
           v == FilterByTags(list, sel)
           shown == IdsOf(v)
           S == WithTags(list, sel)
<1>1. /\ list \in Seq(Rows) /\ Distinct(full) /\ full \in Seq(Names)
      /\ DOMAIN full = DOMAIN list /\ Len(full) = Len(list)
      /\ \A i \in DOMAIN list : full[i] = list[i].id
  BY IdsSeq DEF Lists
<1>2. CASE sel = {}
  <2>1. v = list /\ shown = full
    BY <1>2 DEF FilterByTags
  <2>2. Slots(full, full) = DOMAIN full
    BY DEF Slots, ToSet
  <2>3. Cardinality(DOMAIN full) = Len(full)
    BY <1>1, Positions
  <2> QED BY <1>1, <2>1, <2>2, <2>3 DEF Fits
<1>3. CASE sel # {}
  <2>1. v = Kept(list, S) /\ S \in SUBSET DOMAIN list
    BY <1>3 DEF FilterByTags, WithTags
  <2>2. Picks(v, list, S) /\ v \in Lists
    BY <2>1, KeptPicks
  <2>3. Picks(shown, full, S) /\ v \in Seq(Rows) /\ Distinct(shown)
    BY <1>1, <2>1, <2>2, IdsPicked DEF Lists
  <2>4. shown \in Seq(Names) /\ Len(shown) = Cardinality(S) /\ ToSet(shown) = {full[i] : i \in S}
    <3>1. shown \in Seq(Names) /\ Len(shown) = Cardinality(S)
      BY <1>1, <2>1, <2>3, PickedSeq
    <3>2. ToSet(shown) = {full[i] : i \in S}
      BY <2>3, PickedFrom, Zenon
    <3> QED BY <3>1, <3>2
  <2>5. ASSUME NEW i \in DOMAIN full, NEW j \in S, full[i] = full[j] PROVE i = j
    <3>1. list[j].tags # {} /\ j \in DOMAIN list
      BY DEF WithTags
    <3>2. full[j] # None
      BY <1>1, <3>1 DEF Lists
    <3> QED BY <1>1, <2>5, <3>1, <3>2 DEF Distinct
  <2>6. Slots(full, shown) = S
    BY <1>1, <2>1, <2>4, <2>5 DEF Slots
  <2>7. ToSet(shown) \subseteq ToSet(full)
    BY <1>1, <2>1, <2>4 DEF ToSet
  <2> QED BY <1>1, <2>2, <2>3, <2>4, <2>6, <2>7 DEF Fits
<1> QED BY <1>2, <1>3

-----------------------------------------------------------------------------
(* Reordering.                                                             *)

LEMMA ConcatIs ==
  ASSUME NEW T, NEW p \in Seq(T), NEW q \in Seq(T)
  PROVE  /\ p \o q \in Seq(T) /\ Len(p \o q) = Len(p) + Len(q)
         /\ \A i \in 1 .. Len(p) + Len(q) :
              (p \o q)[i] = IF i <= Len(p) THEN p[i] ELSE q[i - Len(p)]
  OBVIOUS

LEMMA RemoveAtIs ==
  ASSUME NEW T, NEW s \in Seq(T), NEW from \in DOMAIN s
  PROVE  /\ RemoveAt(s, from) \in Seq(T) /\ Len(RemoveAt(s, from)) = Len(s) - 1
         /\ \A i \in 1 .. Len(s) - 1 :
              RemoveAt(s, from)[i] = IF i < from THEN s[i] ELSE s[i + 1]
<1> DEFINE p == SubSeq(s, 1, from - 1)
           q == SubSeq(s, from + 1, Len(s))
<1>0. DOMAIN s = 1 .. Len(s) /\ Len(s) \in Nat /\ from \in 1 .. Len(s)
  OBVIOUS
<1>1. p \in Seq(T) /\ Len(p) = from - 1 /\ \A i \in 1 .. from - 1 : p[i] = s[i]
  BY <1>0
<1>2. q \in Seq(T) /\ Len(q) = Len(s) - from /\ \A i \in 1 .. Len(s) - from : q[i] = s[i + from]
  BY <1>0
<1>3. RemoveAt(s, from) = p \o q
  BY DEF RemoveAt
<1> DEFINE r == RemoveAt(s, from)
<1> HIDE DEF p, q, r
<1>4. /\ r \in Seq(T) /\ Len(r) = Len(p) + Len(q)
      /\ \A i \in 1 .. Len(p) + Len(q) : r[i] = IF i <= Len(p) THEN p[i] ELSE q[i - Len(p)]
  BY <1>1, <1>2, <1>3, ConcatIs DEF r
<1>5. ASSUME NEW i \in 1 .. Len(s) - 1, i < from PROVE r[i] = s[i]
  BY <1>0, <1>1, <1>2, <1>4, <1>5
<1>6. ASSUME NEW i \in 1 .. Len(s) - 1, ~(i < from) PROVE r[i] = s[i + 1]
  <2>1. r[i] = q[i - (from - 1)] /\ i - (from - 1) \in 1 .. Len(s) - from
    BY <1>0, <1>1, <1>2, <1>4, <1>6
  <2>2. q[i - (from - 1)] = s[(i - (from - 1)) + from] /\ (i - (from - 1)) + from = i + 1
    BY <1>0, <1>2, <2>1
  <2> QED BY <2>1, <2>2
<1>7. Len(r) = Len(s) - 1
  BY <1>0, <1>1, <1>2, <1>4
<1> QED BY <1>4, <1>5, <1>6, <1>7 DEF r

Inserted(t, s, to, e) ==
  /\ Len(t) = Len(s) + 1
  /\ \A i \in 1 .. Len(s) + 1 : t[i] = IF i < to THEN s[i] ELSE IF i = to THEN e ELSE s[i - 1]

LEMMA InsertAtIs ==
  ASSUME NEW T, NEW s \in Seq(T), NEW e \in T, NEW to \in 1 .. Len(s) + 1
  PROVE  InsertAt(s, to, e) \in Seq(T) /\ Inserted(InsertAt(s, to, e), s, to, e)
<1> DEFINE p == SubSeq(s, 1, to - 1)
           q == SubSeq(s, to, Len(s))
<1>0. Len(s) \in Nat
  OBVIOUS
<1>1. p \in Seq(T) /\ Len(p) = to - 1 /\ \A i \in 1 .. to - 1 : p[i] = s[i]
  BY <1>0
<1>2. q \in Seq(T) /\ Len(q) = Len(s) - to + 1
      /\ \A i \in 1 .. Len(s) - to + 1 : q[i] = s[i + to - 1]
  BY <1>0
<1> DEFINE pe == p \o <<e>>
<1>3. InsertAt(s, to, e) = pe \o q
  BY DEF InsertAt
<1> HIDE DEF p, q
<1>4. pe \in Seq(T) /\ Len(pe) = to /\ pe[to] = e /\ \A i \in 1 .. to - 1 : pe[i] = p[i]
  BY <1>0, <1>1
<1> DEFINE r == InsertAt(s, to, e)
<1> HIDE DEF pe, r
<1>5. /\ r \in Seq(T) /\ Len(r) = Len(pe) + Len(q)
      /\ \A i \in 1 .. Len(pe) + Len(q) : r[i] = IF i <= Len(pe) THEN pe[i] ELSE q[i - Len(pe)]
  <2>1. r = pe \o q /\ pe \in Seq(T) /\ q \in Seq(T)
    BY <1>2, <1>3, <1>4 DEF r
  <2>2. /\ pe \o q \in Seq(T) /\ Len(pe \o q) = Len(pe) + Len(q)
        /\ \A i \in 1 .. Len(pe) + Len(q) :
             (pe \o q)[i] = IF i <= Len(pe) THEN pe[i] ELSE q[i - Len(pe)]
    BY <2>1, ConcatIs, Zenon
  <2> QED BY <2>1, <2>2
<1>6. Len(r) = Len(s) + 1
  BY <1>0, <1>2, <1>4, <1>5
<1>7. ASSUME NEW i \in 1 .. Len(s) + 1, i < to PROVE r[i] = s[i]
  <2>1. i \in 1 .. to - 1 /\ i <= Len(pe) /\ i \in 1 .. Len(pe) + Len(q)
    BY <1>0, <1>2, <1>4, <1>7
  <2> QED BY <1>1, <1>4, <1>5, <2>1
<1>8. r[to] = e
  <2>1. to <= Len(pe) /\ to \in 1 .. Len(pe) + Len(q)
    BY <1>0, <1>2, <1>4
  <2> QED BY <1>4, <1>5, <2>1
<1>9. ASSUME NEW i \in 1 .. Len(s) + 1, i > to PROVE r[i] = s[i - 1]
  <2>1. r[i] = q[i - to] /\ i - to \in 1 .. Len(s) - to + 1
    BY <1>0, <1>2, <1>4, <1>5, <1>9
  <2>2. q[i - to] = s[(i - to) + to - 1] /\ (i - to) + to - 1 = i - 1
    BY <1>0, <1>2, <2>1
  <2> QED BY <2>1, <2>2
<1> QED BY <1>0, <1>5, <1>6, <1>7, <1>8, <1>9 DEF r, Inserted

\* Moving one element rearranges a sequence.
LEMMA SplicedPicks ==
  ASSUME NEW T, NEW s \in Seq(T), NEW from \in DOMAIN s, NEW to \in DOMAIN s
  PROVE  Picks(Spliced(s, from, to), s, DOMAIN s)
<1> DEFINE n == Len(s)
           r == RemoveAt(s, from)
           t == Spliced(s, from, to)
           Past(j) == IF j < from THEN j ELSE j + 1
           at == [i \in 1 .. n |-> IF i = to THEN from ELSE Past(IF i < to THEN i ELSE i - 1)]
<1>0. DOMAIN s = 1 .. n /\ n \in Nat /\ from \in 1 .. n /\ to \in 1 .. n /\ s[from] \in T
  OBVIOUS
<1>1. r \in Seq(T) /\ Len(r) = n - 1 /\ \A i \in 1 .. n - 1 : r[i] = s[Past(i)]
  BY <1>0, RemoveAtIs
<1>2. /\ t \in Seq(T) /\ Len(t) = n
      /\ \A i \in 1 .. n : t[i] = IF i < to THEN r[i] ELSE IF i = to THEN s[from] ELSE r[i - 1]
  <2>1. to \in 1 .. Len(r) + 1 /\ t = InsertAt(r, to, s[from])
    BY <1>0, <1>1 DEF Spliced
  <2> HIDE DEF r, t
  <2>2. Len(r) + 1 = n
    BY <1>0, <1>1
  <2>3. /\ t \in Seq(T) /\ Len(t) = Len(r) + 1
        /\ \A i \in 1 .. Len(r) + 1 :
             t[i] = IF i < to THEN r[i] ELSE IF i = to THEN s[from] ELSE r[i - 1]
    <3>1. r \in Seq(T) /\ s[from] \in T /\ to \in 1 .. Len(r) + 1
      BY <1>0, <1>1, <2>1
    <3>2. t \in Seq(T) /\ Inserted(t, r, to, s[from])
      BY <2>1, <3>1, InsertAtIs
    <3> QED BY <3>2 DEF Inserted
  <2> QED BY <2>2, <2>3
<1>3. \A i \in 1 .. n : t[i] = s[at[i]]
  <2> HIDE DEF r, t
  <2> QED BY <1>0, <1>1, <1>2
<1>4. at \in [1 .. n -> 1 .. n] /\ \A i, j \in 1 .. n : at[i] = at[j] => i = j
  BY <1>0
<1>5. at \in Bijection(1 .. n, 1 .. n)
  <2>1. at \in Injection(1 .. n, 1 .. n)
    BY <1>4, Fun_IsInj
  <2>2. IsFiniteSet(1 .. n)
    BY <1>0, FS_Interval
  <2>3. at \in Surjection(1 .. n, 1 .. n)
    BY <2>1, <2>2, FS_Injection
  <2> QED BY <2>1, <2>3 DEF Bijection
<1>6. t = [i \in 1 .. n |-> s[at[i]]]
  <2> HIDE DEF t, at
  <2> QED BY <1>2, <1>3
<1>7. Cardinality(DOMAIN s) = n /\ DOMAIN s = 1 .. n
  BY Positions
<1> HIDE DEF t, at
<1> QED BY <1>5, <1>6, <1>7 DEF Picks, t

\* A new order of the rows shown fits the list as the old one did.
LEMMA SplicedFits ==
  ASSUME NEW full, NEW shown, Fits(full, shown), NEW from \in DOMAIN shown, NEW to \in DOMAIN shown
  PROVE  /\ Fits(full, Spliced(shown, from, to))
         /\ ToSet(Spliced(shown, from, to)) = ToSet(shown)
<1> DEFINE t == Spliced(shown, from, to)
<1>1. shown \in Seq(Names) /\ Distinct(shown)
  BY DEF Fits
<1>2. Picks(t, shown, DOMAIN shown)
  BY <1>1, SplicedPicks
<1> HIDE DEF t
<1>3. t \in Seq(Names) /\ Len(t) = Len(shown)
  BY <1>1, <1>2, PickedSeq, Positions
<1>4. ToSet(t) = ToSet(shown)
  <2>1. ToSet(t) = {shown[i] : i \in DOMAIN shown}
    BY <1>2, PickedFrom
  <2> QED BY <2>1 DEF ToSet
<1>5. Distinct(t)
  BY <1>1, <1>2, PickedDistinct
<1>6. Slots(full, t) = Slots(full, shown)
  BY <1>4 DEF Slots
<1> QED BY <1>3, <1>4, <1>5, <1>6 DEF Fits, t

\* The number of slots up to one of them is its place among them.
LEMMA Ranks ==
  ASSUME NEW H, IsFiniteSet(H), H \subseteq Int
  PROVE  /\ \A i \in H : Cardinality({j \in H : j <= i}) \in 1 .. Cardinality(H)
         /\ \A i, j \in H :
              Cardinality({h \in H : h <= i}) = Cardinality({h \in H : h <= j}) => i = j
         /\ \A k \in 1 .. Cardinality(H) : \E i \in H : Cardinality({j \in H : j <= i}) = k
<1> DEFINE Rank(i) == Cardinality({j \in H : j <= i})
<1>0. PICK key : key = [i \in H |-> 0]
  OBVIOUS
<1>1. Keyed(H, key)
  BY <1>0 DEF Keyed
<1>2. ASSUME NEW i \in H PROVE Place(H, key, i) = Rank(i)
  <2>1. {j \in H : key[j] < key[i] \/ (key[j] = key[i] /\ j <= i)} = {j \in H : j <= i}
    BY <1>0
  <2> QED BY <2>1 DEF Place
<1> HIDE DEF Rank
<1>3. /\ \A i \in H : Rank(i) \in 1 .. Cardinality(H)
      /\ \A i, j \in H : Rank(i) = Rank(j) => i = j
      /\ \A k \in 1 .. Cardinality(H) : \E i \in H : Rank(i) = k
  <2>1. \A i \in H : Place(H, key, i) \in 1 .. Cardinality(H)
    BY <1>1, PlacesAreTaken
  <2>2. \A i, j \in H : Place(H, key, i) = Place(H, key, j) => i = j
    BY <1>1, PlacesAreTaken
  <2>3. ASSUME NEW k \in 1 .. Cardinality(H) PROVE \E i \in H : Place(H, key, i) = k
    <3>1. Spot(H, key) \in Bijection(1 .. Cardinality(H), H) /\ Place(H, key, Spot(H, key)[k]) = k
      BY <1>1, SpotIsPlace
    <3>2. Spot(H, key) \in [1 .. Cardinality(H) -> H]
      BY <3>1, Bij, Zenon
    <3> QED BY <3>1, <3>2
  <2> QED BY <1>2, <2>1, <2>2, <2>3
<1> QED BY <1>3 DEF Rank

\* mergeReorder: the same sessions, each once, and what is hidden where it was.
LEMMA MergeKeeps ==
  ASSUME NEW full, NEW shown, Fits(full, shown)
  PROVE  /\ MergeReorder(full, shown) \in Seq(Names) /\ Len(MergeReorder(full, shown)) = Len(full)
         /\ Distinct(MergeReorder(full, shown)) /\ ToSet(MergeReorder(full, shown)) = ToSet(full)
         /\ \A i \in DOMAIN full : full[i] \notin ToSet(shown) => MergeReorder(full, shown)[i] = full[i]
<1> DEFINE H == Slots(full, shown)
           Rank(i) == Cardinality({j \in H : j <= i})
           ids == MergeReorder(full, shown)
<1>1. /\ full \in Seq(Names) /\ shown \in Seq(Names) /\ Distinct(full) /\ Distinct(shown)
      /\ ToSet(shown) \subseteq ToSet(full) /\ Cardinality(H) = Len(shown)
  BY DEF Fits
<1>2. DOMAIN full = 1 .. Len(full) /\ Len(full) \in Nat /\ DOMAIN shown = 1 .. Len(shown)
  BY <1>1
<1>3. H \in SUBSET DOMAIN full /\ \A i \in DOMAIN full : i \in H <=> full[i] \in ToSet(shown)
  BY DEF Slots
<1>4. /\ \A i \in H : Rank(i) \in DOMAIN shown
      /\ \A i, j \in H : Rank(i) = Rank(j) => i = j
      /\ \A k \in DOMAIN shown : \E i \in H : Rank(i) = k
  <2>1. IsFiniteSet(H) /\ H \subseteq Int
    BY <1>1, <1>3, Positions
  <2> HIDE DEF H
  <2> QED BY <1>1, <1>2, <2>1, Ranks, Zenon
<1>5. ids = [i \in DOMAIN full |-> IF i \in H THEN shown[Rank(i)] ELSE full[i]]
  BY DEF MergeReorder, Slots
<1> HIDE DEF H, Rank, ids
<1>6. DOMAIN ids = DOMAIN full
  BY <1>5
<1>7. ASSUME NEW i \in DOMAIN full
      PROVE  /\ i \in H => ids[i] = shown[Rank(i)] /\ ids[i] \in ToSet(shown)
             /\ i \notin H => ids[i] = full[i] /\ ids[i] \notin ToSet(shown)
             /\ ids[i] \in ToSet(full) /\ ids[i] \in Names
  <2>1. CASE i \in H
    <3>1. ids[i] = shown[Rank(i)] /\ Rank(i) \in DOMAIN shown
      BY <1>4, <1>5, <2>1
    <3>2. ids[i] \in ToSet(shown)
      BY <3>1 DEF ToSet
    <3>3. ids[i] \in Names
      BY <1>1, <3>1
    <3> QED BY <1>1, <2>1, <3>1, <3>2, <3>3
  <2>2. CASE i \notin H
    BY <1>1, <1>3, <1>5, <2>2 DEF ToSet
  <2> QED BY <2>1, <2>2
<1>8. ids \in Seq(Names) /\ Len(ids) = Len(full)
  <2>1. ids = [i \in 1 .. Len(full) |-> ids[i]]
    BY <1>2, <1>5
  <2> QED BY <1>2, <1>7, <2>1
<1>9. ToSet(ids) = ToSet(full)
  <2>1. ToSet(ids) \subseteq ToSet(full)
    BY <1>6, <1>7 DEF ToSet
  <2>2. ASSUME NEW i \in DOMAIN full PROVE full[i] \in ToSet(ids)
    <3>1. CASE i \in H
      <4>1. full[i] \in ToSet(shown)
        BY <1>3, <3>1
      <4>2. PICK k \in DOMAIN shown : full[i] = shown[k]
        BY <4>1 DEF ToSet
      <4>3. PICK j \in H : Rank(j) = k
        BY <1>4
      <4>4. j \in DOMAIN ids /\ ids[j] = full[i]
        BY <1>3, <1>6, <1>7, <4>2, <4>3
      <4> QED BY <4>4 DEF ToSet
    <3>2. CASE i \notin H
      BY <1>6, <1>7, <3>2 DEF ToSet
    <3> QED BY <3>1, <3>2
  <2> QED BY <2>1, <2>2 DEF ToSet
<1>10. Distinct(ids)
  <2> SUFFICES ASSUME NEW i \in DOMAIN full, NEW j \in DOMAIN full, ids[i] = ids[j], ids[i] # None
               PROVE  i = j
    BY <1>6 DEF Distinct
  <2>1. CASE i \in H /\ j \in H
    <3>1. Rank(i) = Rank(j)
      BY <1>1, <1>4, <1>7, <2>1 DEF Distinct
    <3> QED BY <1>4, <2>1, <3>1
  <2>2. CASE i \notin H /\ j \notin H
    BY <1>1, <1>7, <2>2 DEF Distinct
  <2> QED BY <1>7, <2>1, <2>2
<1>11. \A i \in DOMAIN full : full[i] \notin ToSet(shown) => ids[i] = full[i]
  BY <1>3, <1>7
<1> QED BY <1>8, <1>9, <1>10, <1>11 DEF ids

\* handleReorder: the rows in the new order, numbered from zero; one the list has lost is blank.
LEMMA ReorderGives ==
  ASSUME sessions \in Lists, NEW full, NEW shown, Fits(full, shown), HandleReorder(full, shown)
  PROVE  /\ sessions' \in Lists /\ Len(sessions') = Len(full)
         /\ reorders' = reorders \cup {MergeReorder(full, shown)}
         /\ \A i \in DOMAIN sessions' :
              /\ sessions'[i].seq = i - 1
              /\ MergeReorder(full, shown)[i] \in ToSet(IdsOf(sessions)) =>
                   sessions'[i].id = MergeReorder(full, shown)[i]
<1> DEFINE ids == MergeReorder(full, shown)
           listed == IdsOf(sessions)
<1>1. ids \in Seq(Names) /\ Len(ids) = Len(full) /\ Distinct(ids)
  BY MergeKeeps
<1>2. sessions' = [i \in DOMAIN ids |-> Renumbered(ids[i], i)] /\ reorders' = reorders \cup {ids}
  BY DEF HandleReorder
<1> HIDE DEF ids
<1>3. DOMAIN ids = 1 .. Len(ids) /\ Len(ids) \in Nat
  BY <1>1
<1>4. sessions \in Seq(Rows) /\ DOMAIN listed = DOMAIN sessions
      /\ \A i \in DOMAIN sessions : listed[i] = sessions[i].id /\ sessions[i] \in Rows
  BY IdsSeq DEF Lists
<1>5. ASSUME NEW i \in DOMAIN ids
      PROVE  /\ Renumbered(ids[i], i) \in Rows /\ Renumbered(ids[i], i).seq = i - 1
             /\ Renumbered(ids[i], i).id \in {ids[i], None}
             /\ ids[i] \in ToSet(listed) => Renumbered(ids[i], i).id = ids[i]
             /\ Renumbered(ids[i], i).id = None => Renumbered(ids[i], i).tags = {}
  <2>0. i \in Nat /\ i - 1 \in Int
    BY <1>3
  <2>1. CASE ids[i] \in ToSet(listed)
    <3> DEFINE p == Position(listed, ids[i])
    <3>1. p \in DOMAIN sessions /\ listed[p] = ids[i]
      <4>1. \E k \in DOMAIN listed : listed[k] = ids[i]
        BY <2>1 DEF ToSet
      <4> QED BY <1>4, <4>1 DEF Position
    <3> HIDE DEF p
    <3>2. sessions[p] \in Rows /\ sessions[p].id = ids[i] /\ (sessions[p].id = None => sessions[p].tags = {})
      BY <1>4, <3>1 DEF Lists
    <3>3. Renumbered(ids[i], i) = [sessions[p] EXCEPT !.seq = i - 1]
      BY <2>1 DEF Renumbered, p
    <3> QED BY <2>0, <3>2, <3>3 DEF Rows
  <2>2. CASE ids[i] \notin ToSet(listed)
    <3>1. Renumbered(ids[i], i) = [id |-> None, seq |-> i - 1, tags |-> {}, ended |-> FALSE]
      BY <2>2 DEF Renumbered
    <3> QED BY <2>0, <2>2, <3>1 DEF Rows, Names
  <2> QED BY <2>1, <2>2
<1> DEFINE new == [i \in DOMAIN ids |-> Renumbered(ids[i], i)]
<1>6. new \in Seq(Rows) /\ Len(new) = Len(ids) /\ DOMAIN new = DOMAIN ids
      /\ \A i \in DOMAIN ids : new[i] = Renumbered(ids[i], i)
  <2>1. new = [i \in 1 .. Len(ids) |-> Renumbered(ids[i], i)]
    BY <1>3
  <2>2. new \in [1 .. Len(ids) -> Rows]
    BY <1>3, <1>5, <2>1
  <2>3. new \in Seq(Rows)
    BY <1>3, <2>2
  <2>4. DOMAIN new = 1 .. Len(new) /\ Len(new) \in Nat /\ DOMAIN new = 1 .. Len(ids)
    BY <2>1, <2>3
  <2>5. Len(new) = Len(ids)
    BY <1>3, <2>1
  <2> QED BY <1>3, <2>3, <2>5
<1> HIDE DEF new
<1>7. Distinct(IdsOf(new))
  <2> SUFFICES ASSUME NEW i \in DOMAIN ids, NEW j \in DOMAIN ids, new[i].id = new[j].id, new[i].id # None
               PROVE  i = j
    BY <1>6, IdsSeq DEF Distinct
  <2>1. new[i].id = ids[i] /\ new[j].id = ids[j]
    BY <1>5, <1>6
  <2> QED BY <1>1, <2>1 DEF Distinct
<1>8. new \in Lists
  BY <1>5, <1>6, <1>7 DEF Lists
<1>9. sessions' = new
  BY <1>2 DEF new
<1> QED BY <1>1, <1>2, <1>5, <1>6, <1>8, <1>9 DEF ids

\* A list numbered in its order is sorted as it stands.
LEMMA SortedAlready ==
  ASSUME NEW list \in Lists, \A i \in DOMAIN list : list[i].seq = i - 1
  PROVE  SortBySeq(list) = list
<1> DEFINE n == Len(list)
           D == DOMAIN list
           key == [i \in D |-> list[i].seq]
<1>1. list \in Seq(Rows) /\ D = 1 .. n /\ n \in Nat /\ Cardinality(D) = n
  BY Positions DEF Lists
<1>2. ASSUME NEW i \in 1 .. n PROVE Place(D, key, i) = i
  <2>1. {j \in D : key[j] < key[i] \/ (key[j] = key[i] /\ j <= i)} = 1 .. i
    BY <1>1
  <2>2. Cardinality(1 .. i) = i
    <3>1. 1 \in Int /\ i \in Int /\ (IF 1 > i THEN 0 ELSE i - 1 + 1) = i
      BY <1>1
    <3> QED BY <3>1, FS_Interval
  <2> QED BY <2>1, <2>2 DEF Place
<1>3. SortBySeq(list) = [k \in 1 .. n |-> list[CHOOSE i \in D : Place(D, key, i) = k]]
  BY <1>1 DEF SortBySeq, Placed
<1> HIDE DEF key, D, n
<1>4. ASSUME NEW k \in 1 .. n PROVE (CHOOSE i \in D : Place(D, key, i) = k) = k
  BY <1>1, <1>2
<1>5. SortBySeq(list) = [k \in 1 .. n |-> list[k]]
  BY <1>3, <1>4
<1>6. list = [k \in 1 .. n |-> list[k]]
  BY <1>1 DEF D
<1> QED BY <1>5, <1>6

\* Lists with the same sessions and as many blank rows are as long.
LEMMA SameLength ==
  ASSUME NEW s \in Seq(Names), NEW t \in Seq(Names), Distinct(s), Distinct(t), ToSet(s) = ToSet(t),
         Cardinality(Blanks(s)) = Cardinality(Blanks(t))
  PROVE  Len(s) = Len(t)
<1> DEFINE A == DOMAIN s \ Blanks(s)
           B == DOMAIN t \ Blanks(t)
           f == [i \in A |-> CHOOSE j \in B : t[j] = s[i]]
<1>1. \A i \in A : \E j \in B : t[j] = s[i]
  BY DEF Blanks, ToSet
<1>2. \A j \in B : \E i \in A : s[i] = t[j]
  BY DEF Blanks, ToSet
<1>3. \A i \in A : f[i] \in B /\ t[f[i]] = s[i]
  BY <1>1
<1>4. f \in [A -> B]
  BY <1>3
<1> HIDE DEF f
<1>5. \A i, j \in A : f[i] = f[j] => i = j
  BY <1>3 DEF Distinct, Blanks
<1>6. \A j \in B : \E i \in A : f[i] = j
  BY <1>2, <1>3 DEF Distinct, Blanks
<1>7. f \in Bijection(A, B)
  BY <1>4, <1>5, <1>6, Fun_IsBij
<1>8. Cardinality(A) = Cardinality(B)
  <2>1. IsFiniteSet(A)
    BY Positions
  <2> QED BY <1>7, <2>1, FS_Bijection DEF ExistsBijection
<1>9. ASSUME NEW u \in Seq(Names)
      PROVE  /\ Cardinality(DOMAIN u \ Blanks(u)) = Len(u) - Cardinality(Blanks(u))
             /\ Len(u) \in Nat /\ Cardinality(Blanks(u)) \in Nat
  <2>1. Blanks(u) \in SUBSET DOMAIN u /\ DOMAIN u \cap Blanks(u) = Blanks(u)
    BY DEF Blanks
  <2>2. IsFiniteSet(DOMAIN u) /\ Cardinality(DOMAIN u) = Len(u) /\ Len(u) \in Nat
    BY Positions
  <2>3. Cardinality(DOMAIN u \ Blanks(u)) = Cardinality(DOMAIN u) - Cardinality(DOMAIN u \cap Blanks(u))
    BY <2>2, FS_Difference
  <2>4. Cardinality(Blanks(u)) \in Nat
    BY <2>1, Positions
  <2> QED BY <2>1, <2>2, <2>3, <2>4
<1>10. Cardinality(A) = Len(s) - Cardinality(Blanks(s)) /\ Len(s) \in Nat /\ Cardinality(Blanks(s)) \in Nat
  BY <1>9
<1>11. Cardinality(B) = Len(t) - Cardinality(Blanks(t)) /\ Len(t) \in Nat
  BY <1>9
<1>12. Len(s) - Cardinality(Blanks(s)) = Len(t) - Cardinality(Blanks(s))
  BY <1>8, <1>10, <1>11, Zenon
<1> HIDE DEF A, B
<1>13. \A x, y, z \in Nat : x - z = y - z => x = y
  OBVIOUS
<1> QED BY <1>10, <1>11, <1>12, <1>13, Zenon

\* Two lists with the same blank rows, in number.
SameBlanks(t, s) ==
  /\ Cardinality(Blanks(IdsOf(t))) = Cardinality(Blanks(IdsOf(s)))
  /\ Blanks(IdsOf(t)) = {} <=> Blanks(IdsOf(s)) = {}

\* A change of rows that keeps who is where.
LEMMA SameIds ==
  ASSUME NEW s \in Lists, NEW t, DOMAIN t = DOMAIN s, t = [i \in DOMAIN s |-> t[i]],
         \A i \in DOMAIN s : t[i] \in Rows /\ t[i].id = s[i].id /\ (t[i].id = None => t[i].tags = {})
  PROVE  t \in Lists /\ IdsOf(t) = IdsOf(s) /\ SameBlanks(t, s)
<1>1. s \in Seq(Rows) /\ DOMAIN s = 1 .. Len(s) /\ Len(s) \in Nat
  BY DEF Lists
<1>2. t \in Seq(Rows)
  <2>1. t = [i \in 1 .. Len(s) |-> t[i]] /\ \A i \in 1 .. Len(s) : t[i] \in Rows
    BY <1>1
  <2> QED BY <1>1, <2>1
<1>3. IdsOf(t) = IdsOf(s)
  BY DEF IdsOf
<1> QED BY <1>2, <1>3 DEF Lists, SameBlanks

\* A row put first.
LEMMA Prepended ==
  ASSUME NEW s \in Lists, NEW new \in Rows, new.id # None, new.id \notin ToSet(IdsOf(s))
  PROVE  <<new>> \o s \in Lists /\ SameBlanks(<<new>> \o s, s)
<1> DEFINE t == <<new>> \o s
           n == Len(s)
<1>1. s \in Seq(Rows) /\ DOMAIN s = 1 .. n /\ n \in Nat
  BY DEF Lists
<1>2. t \in Seq(Rows) /\ Len(t) = n + 1 /\ t[1] = new /\ \A i \in 2 .. n + 1 : t[i] = s[i - 1]
  <2>1. <<new>> \in Seq(Rows) /\ Len(<<new>>) = 1 /\ <<new>>[1] = new
    OBVIOUS
  <2> QED BY <1>1, <2>1
<1> HIDE DEF t
<1>3. DOMAIN t = 1 .. n + 1
  BY <1>1, <1>2
<1> HIDE DEF n
<1>4. /\ IdsOf(s) \in Seq(Names) /\ DOMAIN IdsOf(s) = 1 .. n /\ \A i \in 1 .. n : IdsOf(s)[i] = s[i].id
      /\ IdsOf(t) \in Seq(Names) /\ DOMAIN IdsOf(t) = 1 .. n + 1
      /\ \A i \in 1 .. n + 1 : IdsOf(t)[i] = t[i].id
  BY <1>1, <1>2, <1>3, IdsSeq
<1>5. IdsOf(t)[1] = new.id /\ \A i \in 2 .. n + 1 : i - 1 \in 1 .. n /\ IdsOf(t)[i] = IdsOf(s)[i - 1]
  BY <1>1, <1>2, <1>4
<1>6. \A i \in 1 .. n : IdsOf(s)[i] # new.id
  BY <1>4 DEF ToSet
<1>7. Distinct(IdsOf(t))
  <2> SUFFICES ASSUME NEW i \in 1 .. n + 1, NEW j \in 1 .. n + 1,
                      IdsOf(t)[i] = IdsOf(t)[j], IdsOf(t)[i] # None
               PROVE  i = j
    BY <1>4 DEF Distinct
  <2>1. CASE i = 1 \/ j = 1
    BY <1>1, <1>5, <1>6, <2>1
  <2>2. CASE i # 1 /\ j # 1
    <3>1. i - 1 \in 1 .. n /\ j - 1 \in 1 .. n /\ IdsOf(s)[i - 1] = IdsOf(s)[j - 1] /\ IdsOf(s)[i - 1] # None
      BY <1>1, <1>5, <2>2
    <3>2. i - 1 = j - 1
      BY <1>4, <3>1 DEF Lists, Distinct
    <3> QED BY <3>2
  <2> QED BY <2>1, <2>2
<1>8. t \in Lists
  <2>1. \A i \in 1 .. n + 1 : t[i].id = None => t[i].tags = {}
    BY <1>1, <1>2 DEF Lists
  <2> QED BY <1>2, <1>3, <1>7, <2>1 DEF Lists
<1> DEFINE f == [i \in Blanks(IdsOf(s)) |-> i + 1]
<1>9. Blanks(IdsOf(s)) = {i \in 1 .. n : IdsOf(s)[i] = None}
      /\ Blanks(IdsOf(t)) = {i \in 1 .. n + 1 : IdsOf(t)[i] = None}
  BY <1>4 DEF Blanks
<1>10. f \in [Blanks(IdsOf(s)) -> Blanks(IdsOf(t))]
  <2> SUFFICES ASSUME NEW i \in 1 .. n, IdsOf(s)[i] = None
               PROVE  i + 1 \in 1 .. n + 1 /\ IdsOf(t)[i + 1] = None
    BY <1>9
  <2>1. i + 1 \in 2 .. n + 1 /\ (i + 1) - 1 = i
    BY <1>1
  <2> QED BY <1>5, <2>1
<1>11. \A i, j \in Blanks(IdsOf(s)) : f[i] = f[j] => i = j
  BY <1>9
<1>12. ASSUME NEW j \in Blanks(IdsOf(t)) PROVE \E i \in Blanks(IdsOf(s)) : f[i] = j
  <2>1. j \in 2 .. n + 1 /\ j - 1 \in 1 .. n /\ IdsOf(s)[j - 1] = None /\ (j - 1) + 1 = j
    BY <1>1, <1>5, <1>9
  <2>2. j - 1 \in Blanks(IdsOf(s)) /\ f[j - 1] = j
    BY <1>9, <2>1
  <2> QED BY <2>2
<1>13. f \in Bijection(Blanks(IdsOf(s)), Blanks(IdsOf(t)))
  BY <1>10, <1>11, <1>12, Fun_IsBij
<1>14. IsFiniteSet(Blanks(IdsOf(s)))
  <2>1. Blanks(IdsOf(s)) \in SUBSET DOMAIN IdsOf(s)
    BY DEF Blanks
  <2> QED BY <1>4, <2>1, Positions
<1>15. Cardinality(Blanks(IdsOf(t))) = Cardinality(Blanks(IdsOf(s)))
  BY <1>13, <1>14, FS_Bijection DEF ExistsBijection
<1>16. Blanks(IdsOf(t)) = {} <=> Blanks(IdsOf(s)) = {}
  BY <1>10, <1>12
<1> QED BY <1>8, <1>15, <1>16 DEF SameBlanks, t

-----------------------------------------------------------------------------
(* The screen, the database and what is loaded from it.                    *)

LEMMA Screen ==
  ASSUME sessions \in Lists
  PROVE  /\ Ordered \in Lists /\ Visible \in Lists /\ Fits(IdsOf(Ordered), IdsOf(Visible))
         /\ ToSet(IdsOf(Ordered)) = ToSet(IdsOf(sessions)) /\ SameBlanks(Ordered, sessions)
<1>1. Ordered \in Lists /\ Picks(Ordered, sessions, DOMAIN sessions)
  BY SortPicks DEF Ordered
<1>2. Visible \in Lists /\ Fits(IdsOf(Ordered), IdsOf(Visible))
  BY <1>1, FilteredFits DEF Visible
<1>3. /\ sessions \in Seq(Rows) /\ IdsOf(sessions) \in Seq(Names)
      /\ DOMAIN IdsOf(sessions) = DOMAIN sessions
  BY IdsSeq DEF Lists
<1>4. Picks(IdsOf(Ordered), IdsOf(sessions), DOMAIN IdsOf(sessions))
  BY <1>1, <1>3, IdsPicked
<1>5. ToSet(IdsOf(Ordered)) = ToSet(IdsOf(sessions))
  <2>1. ToSet(IdsOf(Ordered)) = {IdsOf(sessions)[i] : i \in DOMAIN IdsOf(sessions)}
    BY <1>4, PickedFrom
  <2> QED BY <2>1 DEF ToSet
<1>6. SameBlanks(Ordered, sessions)
  <2>1. Blanks(IdsOf(sessions)) \subseteq DOMAIN IdsOf(sessions)
    BY DEF Blanks
  <2> QED BY <1>3, <1>4, <2>1, PickedBlanks DEF SameBlanks
<1> QED BY <1>1, <1>2, <1>5, <1>6

\* Rows of the database, listed, are a list without blank rows.
LEMMA ListingsLoad ==
  ASSUME NEW db, IsFiniteSet(DOMAIN db), DOMAIN db \subseteq Ids, db \in [DOMAIN db -> DbRows],
         NEW list \in Listings(db)
  PROVE  list \in Loaded
<1>1. PICK ids \in SetToSeqs(DOMAIN db) : list = [i \in DOMAIN ids |-> Entry(ids[i], db[ids[i]])]
  BY DEF Listings
<1> DEFINE n == Cardinality(DOMAIN db)
<1>2. n \in Nat
  BY FS_CardinalityType
<1>3. ids \in [1 .. n -> DOMAIN db] /\ \A i, j \in 1 .. n : i # j => ids[i] # ids[j]
  BY <1>1 DEF SetToSeqs
<1> HIDE DEF n
<1>4. DOMAIN list = 1 .. n /\ list = [i \in 1 .. n |-> list[i]]
      /\ \A i \in 1 .. n : list[i] = Entry(ids[i], db[ids[i]])
  BY <1>1, <1>3
<1>5. ASSUME NEW i \in 1 .. n PROVE list[i] \in Rows /\ list[i].id = ids[i] /\ list[i].id # None
  <2>1. ids[i] \in Ids /\ db[ids[i]] \in DbRows
    BY <1>3
  <2> QED BY <1>4, <2>1, PageAssumption DEF Entry, Rows, DbRows, Names
<1>6. list \in Seq(Rows)
  BY <1>2, <1>4, <1>5
<1>7. Distinct(IdsOf(list))
  BY <1>3, <1>4, <1>5 DEF Distinct, IdsOf
<1> QED BY <1>4, <1>5, <1>6, <1>7 DEF Lists, Loaded

\* A finite set of numbers has a largest: the one with the last place.
LEMMA Largest ==
  ASSUME NEW S, IsFiniteSet(S), S \subseteq Int, S # {}
  PROVE  \E m \in S : \A i \in S : i <= m
<1>1. Cardinality(S) \in Nat /\ Cardinality(S) # 0
  BY FS_CardinalityType, FS_EmptySet
<1>2. Cardinality(S) \in 1 .. Cardinality(S)
  BY <1>1
<1>3. PICK m \in S : Cardinality({j \in S : j <= m}) = Cardinality(S)
  BY <1>2, Ranks, Zenon
<1>4. {j \in S : j <= m} \in SUBSET S
  OBVIOUS
<1>5. {j \in S : j <= m} = S
  BY <1>3, <1>4, FS_Subset
<1> QED BY <1>5

\* The rows there are at first.
LEMMA FirstRows ==
  ASSUME Init PROVE RowsOK
<1> DEFINE D == ToSet(Existing)
<1>1. Existing \in Seq(Ids) /\ DOMAIN Existing = 1 .. Len(Existing) /\ Len(Existing) \in Nat
  BY PageAssumption
<1>2. rows = [id \in D |-> [seq |-> Position(Existing, id) - 1, tags |-> IF id \in Tagged THEN Tags ELSE {},
                            ended |-> FALSE]]
  BY DEF Init
<1>3. D \subseteq Ids
  BY <1>1 DEF ToSet
<1>4. IsFiniteSet(D)
  <2>1. Existing \in [DOMAIN Existing -> D]
    BY <1>1 DEF ToSet
  <2>2. \A x \in D : \E i \in DOMAIN Existing : Existing[i] = x
    BY DEF ToSet
  <2>3. Existing \in Surjection(DOMAIN Existing, D)
    BY <2>1, <2>2, Fun_IsSurj
  <2>4. IsFiniteSet(DOMAIN Existing)
    BY <1>1, Positions
  <2> QED BY <2>3, <2>4, FS_Surjection
<1>5. ASSUME NEW id \in D PROVE rows[id] \in DbRows
  <2>1. \E i \in DOMAIN Existing : Existing[i] = id
    BY DEF ToSet
  <2>2. Position(Existing, id) \in DOMAIN Existing
    BY <2>1 DEF Position
  <2>3. Position(Existing, id) - 1 \in Int
    BY <1>1, <2>2
  <2> QED BY <1>2, <2>3 DEF DbRows
<1>6. DOMAIN rows = D
  BY <1>2
<1> HIDE DEF D
<1>7. rows \in [D -> DbRows]
  <2>1. rows = [id \in D |-> rows[id]]
    BY <1>2
  <2> QED BY <1>5, <2>1
<1> QED BY <1>3, <1>4, <1>6, <1>7 DEF RowsOK

LEMMA InitIInv == Init => IInv /\ Owed
<1> SUFFICES ASSUME Init PROVE IInv /\ Owed
  OBVIOUS
<1>1. RowsOK
  BY FirstRows
<1>2. sessions \in Lists
  <2>1. sessions \in Loaded
    BY <1>1, ListingsLoad DEF Init, RowsOK
  <2> QED BY <2>1 DEF Loaded
<1>4. FeedOK
  <2>1. updates \in [Ids -> DbRows \cup {NoRow}]
    BY DEF Init
  <2> QED BY <2>1 DEF Init, FeedOK
<1>5. DragOK
  BY DEF Init, DragOK, NoDrag
<1>6. Owed
  BY DEF Init, Owed, Counts
<1> QED BY <1>1, <1>2, <1>4, <1>5, <1>6 DEF IInv

-----------------------------------------------------------------------------
(* Every step keeps the invariant.                                         *)

LEMMA DragSurvives ==
  ASSUME DragOK, drag' = drag, Blanks(IdsOf(sessions')) = {} \/ SameBlanks(sessions', sessions)
  PROVE  DragOK'
  BY DEF DragOK, SameBlanks

LEMMA LoadedHasNoBlanks ==
  ASSUME NEW list \in Loaded
  PROVE  list \in Lists /\ Blanks(IdsOf(list)) = {}
<1>1. list \in Lists /\ list \in Seq(Rows)
  BY DEF Loaded, Lists
<1> QED BY <1>1, IdsSeq DEF Blanks, Loaded

LEMMA EmptyLoaded == <<>> \in Loaded
  BY DEF Loaded, Lists, Distinct, IdsOf

LEMMA PositionIn ==
  ASSUME NEW s, NEW x \in ToSet(s)
  PROVE  Position(s, x) \in DOMAIN s /\ s[Position(s, x)] = x
<1>1. \E i \in DOMAIN s : s[i] = x
  BY DEF ToSet
<1> QED BY <1>1 DEF Position

\* What the end of a drag makes of the list.
LEMMA ReorderKeeps ==
  ASSUME sessions \in Lists, reorders \subseteq Seq(Names), NEW full, NEW shown, Fits(full, shown),
         NEW from \in DOMAIN shown, NEW to \in DOMAIN shown,
         HandleReorder(full, Spliced(shown, from, to))
  PROVE  sessions' \in Lists /\ reorders' \subseteq Seq(Names)
<1>1. Fits(full, Spliced(shown, from, to))
  BY SplicedFits
<1>2. MergeReorder(full, Spliced(shown, from, to)) \in Seq(Names)
  BY <1>1, MergeKeeps
<1> QED BY <1>1, <1>2, ReorderGives

LEMMA DragStep ==
  ASSUME IInv,
         \/ \E id \in Ids : Grab(id, "mouse") \/ Grab(id, "touch")
         \/ \E target \in ToSet(IdsOf(Visible)) : Drop(target)
         \/ \E to \in DOMAIN drag.shown : Release(to)
  PROVE  IInv'
<1>0. RowsOK /\ sessions \in Lists /\ FeedOK /\ DragOK /\ reorders \subseteq Seq(Names)
  BY DEF IInv, FeedOK
<1>1. ASSUME NEW id \in Ids, NEW kind \in {"mouse", "touch"}, Grab(id, kind) PROVE IInv'
  <2>1. RowsOK' /\ sessions' = sessions /\ FeedOK'
    BY <1>0, <1>1 DEF Grab, RowsOK, FeedOK
  <2>2. drag' = [kind |-> kind, id |-> id,
                 full  |-> IF kind = "touch" THEN IdsOf(Ordered) ELSE <<>>,
                 shown |-> IF kind = "touch" THEN IdsOf(Visible) ELSE <<>>]
        /\ id \in ToSet(IdsOf(Visible)) \ {None}
    BY <1>1 DEF Grab
  <2>3. drag'.kind \in {"none", "mouse", "touch"}
    BY <2>2
  <2>4. ASSUME drag'.kind = "touch"
        PROVE  /\ Fits(drag'.full, drag'.shown) /\ drag'.id \in ToSet(drag'.shown) \ {None}
               /\ Cardinality(Blanks(IdsOf(sessions'))) = Cardinality(Blanks(drag'.full))
    <3>1. drag'.full = IdsOf(Ordered) /\ drag'.shown = IdsOf(Visible) /\ drag'.id = id
      BY <2>2, <2>4
    <3>2. Fits(IdsOf(Ordered), IdsOf(Visible)) /\ SameBlanks(Ordered, sessions)
      BY <1>0, Screen
    <3> QED BY <2>1, <2>2, <3>1, <3>2 DEF SameBlanks
  <2>5. DragOK'
    BY <2>3, <2>4 DEF DragOK
  <2> QED BY <1>0, <2>1, <2>5 DEF IInv
<1>2. ASSUME NoDrag = drag', sessions' \in Lists, reorders' \subseteq Seq(Names),
             UNCHANGED <<rows, updates, news, gone, loads, saves>>
      PROVE  IInv'
  <2>1. RowsOK' /\ FeedOK'
    BY <1>0, <1>2 DEF RowsOK, FeedOK
  <2>2. DragOK'
    BY <1>2 DEF DragOK, NoDrag
  <2> QED BY <1>2, <2>1, <2>2 DEF IInv
<1>3. ASSUME NEW target \in ToSet(IdsOf(Visible)), Drop(target) PROVE IInv'
  <2> DEFINE ids == IdsOf(Visible)
  <2>1. drag' = NoDrag /\ UNCHANGED <<rows, updates, news, gone, loads, saves>>
    BY <1>3 DEF Drop
  <2>2. CASE drag.id # target /\ drag.id \in ToSet(ids)
    <3>1. HandleReorder(IdsOf(Ordered), Spliced(ids, Position(ids, drag.id), Position(ids, target)))
      BY <1>3, <2>2 DEF Drop
    <3>2. Position(ids, drag.id) \in DOMAIN ids /\ Position(ids, target) \in DOMAIN ids
      BY <2>2, PositionIn
    <3>3. Fits(IdsOf(Ordered), ids)
      BY <1>0, Screen
    <3> HIDE DEF ids
    <3>4. sessions' \in Lists /\ reorders' \subseteq Seq(Names)
      BY <1>0, <3>1, <3>2, <3>3, ReorderKeeps
    <3> QED BY <1>2, <2>1, <3>4
  <2>3. CASE ~(drag.id # target /\ drag.id \in ToSet(ids))
    <3>1. sessions' = sessions /\ reorders' = reorders
      BY <1>3, <2>3 DEF Drop
    <3> QED BY <1>0, <1>2, <2>1, <3>1
  <2> QED BY <2>2, <2>3
<1>4. ASSUME NEW to \in DOMAIN drag.shown, Release(to) PROVE IInv'
  <2> DEFINE from == Position(drag.shown, drag.id)
             final == Spliced(drag.shown, from, to)
  <2>1. drag' = NoDrag /\ drag.kind = "touch" /\ UNCHANGED <<rows, updates, news, gone, loads, saves>>
    BY <1>4 DEF Release
  <2>2. CASE final # IdsOf(Visible)
    <3>1. HandleReorder(drag.full, final)
      BY <1>4, <2>2 DEF Release
    <3>2. Fits(drag.full, drag.shown) /\ drag.id \in ToSet(drag.shown)
      BY <1>0, <2>1 DEF DragOK
    <3>3. from \in DOMAIN drag.shown
      BY <3>2, PositionIn
    <3> HIDE DEF from
    <3>4. sessions' \in Lists /\ reorders' \subseteq Seq(Names)
      BY <1>0, <3>1, <3>2, <3>3, ReorderKeeps
    <3> QED BY <1>2, <2>1, <3>4
  <2>3. CASE ~(final # IdsOf(Visible))
    <3>1. sessions' = sessions /\ reorders' = reorders
      BY <1>4, <2>3 DEF Release
    <3> QED BY <1>0, <1>2, <2>1, <3>1
  <2> QED BY <2>2, <2>3
<1> QED BY <1>1, <1>3, <1>4

LEMMA ReorderStep ==
  ASSUME IInv, NEW ids \in reorders, ReorderServed(ids) \/ ReorderFails(ids)
  PROVE  IInv'
<1>0. RowsOK /\ sessions \in Lists /\ FeedOK /\ DragOK /\ ids \in Seq(Names)
  BY DEF IInv, FeedOK
<1>1. CASE ReorderServed(ids)
  <2>1. UNCHANGED <<sessions, drag, updates, news, gone, loads, saves>> /\ reorders' = reorders \ {ids}
    BY <1>1 DEF ReorderServed
  <2>2. FeedOK'
    BY <1>0, <2>1 DEF FeedOK
  <2>3. DragOK'
    BY <1>0, <2>1 DEF DragOK
  <2>4. rows' = [id \in DOMAIN rows |->
                   IF id \in ToSet(ids) THEN [rows[id] EXCEPT !.seq = Position(ids, id) - 1] ELSE rows[id]]
    BY <1>1 DEF ReorderServed
  <2>5. ASSUME NEW id \in DOMAIN rows PROVE rows'[id] \in DbRows
    <3>1. rows[id] \in DbRows
      BY <1>0 DEF RowsOK
    <3>2. CASE id \in ToSet(ids)
      <4>1. Position(ids, id) \in DOMAIN ids
        BY <3>2, PositionIn
      <4>2. Position(ids, id) - 1 \in Int
        BY <1>0, <4>1
      <4>3. rows'[id] = [rows[id] EXCEPT !.seq = Position(ids, id) - 1]
        BY <2>4, <3>2
      <4> QED BY <3>1, <4>2, <4>3 DEF DbRows
    <3>3. CASE id \notin ToSet(ids)
      BY <2>4, <3>1, <3>3
    <3> QED BY <3>2, <3>3
  <2>6. DOMAIN rows' = DOMAIN rows /\ rows' = [id \in DOMAIN rows |-> rows'[id]]
    BY <2>4
  <2>7. RowsOK'
    <3>1. rows' \in [DOMAIN rows -> DbRows]
      BY <2>5, <2>6
    <3> QED BY <1>0, <2>6, <3>1 DEF RowsOK
  <2> QED BY <1>0, <2>1, <2>2, <2>3, <2>7 DEF IInv
<1>2. CASE ReorderFails(ids)
  <2>1. /\ UNCHANGED <<rows, sessions, drag, updates, news, gone, saves>>
        /\ reorders' = reorders \ {ids}
        /\ loads' = loads \cup {[n |-> counts'.faults, at |-> "asked", list |-> <<>>]}
    BY <1>2 DEF ReorderFails
  <2>2. \A l \in loads' : "list" \in DOMAIN l /\ l.list \in Loaded
    BY <1>0, <2>1, EmptyLoaded DEF FeedOK
  <2>3. FeedOK'
    BY <1>0, <2>1, <2>2 DEF FeedOK
  <2> QED BY <1>0, <2>1, <2>3 DEF IInv, RowsOK, DragOK
<1> QED BY <1>1, <1>2

LEMMA LoadStep ==
  ASSUME IInv, NEW l \in loads, LoadRead(l) \/ LoadArrives(l) \/ LoadFails(l)
  PROVE  IInv'
<1>0. /\ RowsOK /\ sessions \in Lists /\ FeedOK /\ DragOK
      /\ \A k \in loads : "list" \in DOMAIN k /\ k.list \in Loaded
  BY DEF IInv, FeedOK
<1>1. CASE LoadRead(l)
  <2>1. PICK list \in Listings(rows) : loads' = (loads \ {l}) \cup {[l EXCEPT !.at = "read", !.list = list]}
    BY <1>1 DEF LoadRead
  <2>2. list \in Loaded
    BY <1>0, ListingsLoad DEF RowsOK
  <2>3. UNCHANGED <<rows, sessions, drag, updates, news, gone, reorders, saves>>
    BY <1>1 DEF LoadRead
  <2>4. \A k \in loads' : "list" \in DOMAIN k /\ k.list \in Loaded
    BY <1>0, <2>1, <2>2
  <2>5. FeedOK'
    BY <1>0, <2>3, <2>4 DEF FeedOK
  <2> QED BY <1>0, <2>3, <2>5 DEF IInv, RowsOK, DragOK
<1>2. ASSUME sessions' \in Loaded, loads' = loads \ {l},
             UNCHANGED <<rows, drag, updates, news, gone, reorders, saves>>
      PROVE  IInv'
  <2>1. sessions' \in Lists /\ Blanks(IdsOf(sessions')) = {}
    BY <1>2, LoadedHasNoBlanks
  <2>2. DragOK'
    BY <1>0, <1>2, <2>1, DragSurvives
  <2>3. FeedOK'
    BY <1>0, <1>2 DEF FeedOK
  <2>4. RowsOK'
    BY <1>0, <1>2 DEF RowsOK
  <2> QED BY <2>1, <2>2, <2>3, <2>4 DEF IInv
<1>3. CASE LoadArrives(l)
  BY <1>0, <1>2, <1>3 DEF LoadArrives
<1>4. CASE LoadFails(l)
  BY <1>2, <1>4, EmptyLoaded DEF LoadFails
<1> QED BY <1>1, <1>3, <1>4

\* Tags set on the row of a session leave the list a list.
LEMMA Applied ==
  ASSUME sessions \in Lists, NEW id, id # None, NEW tags \in SUBSET Tags, Apply(id, tags)
  PROVE  sessions' \in Lists /\ SameBlanks(sessions', sessions)
<1> DEFINE t == [i \in DOMAIN sessions |->
                   IF sessions[i].id = id THEN [sessions[i] EXCEPT !.tags = tags] ELSE sessions[i]]
<1>1. ASSUME NEW i \in DOMAIN sessions
      PROVE  t[i] \in Rows /\ t[i].id = sessions[i].id /\ (t[i].id = None => t[i].tags = {})
  <2>1. sessions[i] \in Rows /\ (sessions[i].id = None => sessions[i].tags = {})
    BY DEF Lists
  <2>2. CASE sessions[i].id = id
    <3>1. t[i] = [sessions[i] EXCEPT !.tags = tags]
      BY <2>2
    <3> HIDE DEF t
    <3> QED BY <2>1, <2>2, <3>1 DEF Rows
  <2>3. CASE sessions[i].id # id
    BY <2>1, <2>3
  <2> QED BY <2>2, <2>3
<1>2. DOMAIN t = DOMAIN sessions /\ t = [i \in DOMAIN sessions |-> t[i]] /\ sessions' = t
  BY DEF Apply
<1> HIDE DEF t
<1> QED BY <1>1, <1>2, SameIds

LEMMA TagStep ==
  ASSUME IInv,
         \/ \E i \in DOMAIN sessions, t \in Tags : EditTags(i, t)
         \/ \E s \in saves : SaveServed(s) \/ SaveAnswered(s) \/ SaveFails(s)
  PROVE  IInv'
<1>0. RowsOK /\ sessions \in Lists /\ FeedOK /\ DragOK /\ None \notin Ids
  BY PageAssumption DEF IInv
<1> DEFINE Saves == [id : Ids, tags : SUBSET Tags, was : SUBSET Tags, written : BOOLEAN]
<1>1. ASSUME NEW id \in Ids, NEW tags \in SUBSET Tags, Apply(id, tags), \A s \in saves' : s \in Saves,
             UNCHANGED <<rows, drag, updates, news, gone, reorders, loads>>
      PROVE  IInv'
  <2>1. sessions' \in Lists /\ SameBlanks(sessions', sessions)
    BY <1>0, <1>1, Applied
  <2>2. DragOK'
    BY <1>0, <1>1, <2>1, DragSurvives
  <2>3. RowsOK' /\ FeedOK'
    BY <1>0, <1>1 DEF RowsOK, FeedOK
  <2> QED BY <2>1, <2>2, <2>3 DEF IInv
<1>2. ASSUME NEW i \in DOMAIN sessions, NEW t \in Tags, EditTags(i, t) PROVE IInv'
  <2> DEFINE s == sessions[i]
             next == IF t \in s.tags THEN s.tags \ {t} ELSE s.tags \cup {t}
  <2>1. s \in Rows /\ s.id # None
    BY <1>0, <1>2 DEF Lists, EditTags
  <2>2. s.id \in Ids /\ s.tags \in SUBSET Tags /\ next \in SUBSET Tags
    BY <2>1 DEF Rows, Names
  <2>3. /\ Apply(s.id, next)
        /\ saves' = saves \cup {[id |-> s.id, tags |-> next, was |-> s.tags, written |-> FALSE]}
        /\ UNCHANGED <<rows, drag, updates, news, gone, reorders, loads>>
    BY <1>2 DEF EditTags
  <2> HIDE DEF s, next
  <2>4. \A r \in saves' : r \in Saves
    <3>1. [id |-> s.id, tags |-> next, was |-> s.tags, written |-> FALSE] \in Saves
      BY <2>2
    <3>2. \A r \in saves : r \in Saves
      BY <1>0 DEF FeedOK
    <3> HIDE DEF Saves
    <3> QED BY <2>3, <3>1, <3>2
  <2> QED BY <1>1, <2>2, <2>3, <2>4
<1>3. ASSUME NEW s \in saves PROVE s \in Saves
  BY <1>0 DEF FeedOK
<1>4. ASSUME NEW s \in saves, SaveServed(s) PROVE IInv'
  <2>1. /\ s.id \in DOMAIN rows /\ rows' = [rows EXCEPT ![s.id].tags = s.tags]
        /\ news' = news \cup {Entry(s.id, rows'[s.id])}
        /\ saves' = (saves \ {s}) \cup {[s EXCEPT !.written = TRUE]}
        /\ UNCHANGED <<sessions, drag, updates, gone, reorders, loads>>
    BY <1>4 DEF SaveServed
  <2>2. s.id \in Ids /\ s.tags \in SUBSET Tags /\ [s EXCEPT !.written = TRUE] \in Saves
    BY <1>3
  <2>3. rows' \in [DOMAIN rows -> DbRows] /\ DOMAIN rows' = DOMAIN rows
    <3>1. rows \in [DOMAIN rows -> DbRows]
      BY <1>0 DEF RowsOK
    <3> QED BY <2>1, <2>2, <3>1 DEF DbRows
  <2>4. RowsOK'
    BY <1>0, <2>3 DEF RowsOK
  <2>5. rows'[s.id] \in DbRows
    BY <2>1, <2>3
  <2>6. Entry(s.id, rows'[s.id]) \in Rows /\ Entry(s.id, rows'[s.id]).id # None
    BY <1>0, <2>2, <2>5 DEF Entry, Rows, Names, DbRows
  <2>7. FeedOK'
    <3>1. \A n \in news' : n \in Rows /\ n.id # None
      BY <1>0, <2>1, <2>6 DEF FeedOK
    <3>2. \A r \in saves' : r \in Saves
      BY <1>3, <2>1, <2>2
    <3> QED BY <1>0, <2>1, <3>1, <3>2 DEF FeedOK
  <2>8. sessions' \in Lists /\ DragOK'
    BY <1>0, <2>1 DEF DragOK
  <2> QED BY <2>4, <2>7, <2>8 DEF IInv
<1>5. ASSUME NEW s \in saves, SaveAnswered(s) \/ SaveFails(s) PROVE IInv'
  <2>1. s.id \in Ids /\ s.tags \in SUBSET Tags /\ s.was \in SUBSET Tags
    BY <1>3
  <2>2. /\ Apply(s.id, s.tags) \/ Apply(s.id, s.was)
        /\ UNCHANGED <<rows, drag, updates, news, gone, reorders, loads>>
    BY <1>5 DEF SaveAnswered, SaveFails
  <2>3. saves' = saves \ {s} /\ \A r \in saves' : r \in Saves
    BY <1>3, <1>5 DEF SaveAnswered, SaveFails
  <2> HIDE DEF Saves
  <2> QED BY <1>1, <2>1, <2>2, <2>3
<1> QED BY <1>2, <1>4, <1>5

\* A session taken out of the list takes no blank row with it.
LEMMA Removed ==
  ASSUME sessions \in Lists, NEW id, id # None, sessions' = Without(id)
  PROVE  sessions' \in Lists /\ SameBlanks(sessions', sessions)
<1> DEFINE S == {i \in DOMAIN sessions : sessions[i].id # id}
           ids == IdsOf(sessions)
<1>1. sessions' = Kept(sessions, S) /\ S \in SUBSET DOMAIN sessions
  BY DEF Without
<1>2. sessions \in Seq(Rows) /\ ids \in Seq(Names) /\ DOMAIN ids = DOMAIN sessions
  BY IdsSeq DEF Lists
<1>3. Blanks(ids) \subseteq S
  BY <1>2, IdsSeq DEF Blanks
<1> HIDE DEF S
<1>4. Picks(sessions', sessions, S) /\ sessions' \in Lists
  BY <1>1, KeptPicks
<1>5. Picks(IdsOf(sessions'), ids, S)
  BY <1>1, <1>2, <1>4, IdsPicked
<1> HIDE DEF ids
<1>6. /\ Cardinality(Blanks(IdsOf(sessions'))) = Cardinality(Blanks(ids))
      /\ Blanks(IdsOf(sessions')) = {} <=> Blanks(ids) = {}
  BY <1>1, <1>2, <1>3, <1>5, PickedBlanks
<1> QED BY <1>4, <1>6 DEF SameBlanks, ids

\* A row the feed brings goes, replaces the one listed, or comes first.
LEMMA Updated ==
  ASSUME sessions \in Lists, NEW event, NEW new \in Rows, new.id # None, HandleUpdate(event, new)
  PROVE  sessions' \in Lists /\ SameBlanks(sessions', sessions)
<1>0. CASE Removes(event)
  BY <1>0, Removed DEF HandleUpdate
<1>1. CASE ~Removes(event) /\ new.id \in ToSet(IdsOf(sessions))
  <2> DEFINE t == [i \in DOMAIN sessions |-> IF sessions[i].id = new.id THEN new ELSE sessions[i]]
  <2>1. ASSUME NEW i \in DOMAIN sessions
        PROVE  t[i] \in Rows /\ t[i].id = sessions[i].id /\ (t[i].id = None => t[i].tags = {})
    <3>1. sessions[i] \in Rows /\ (sessions[i].id = None => sessions[i].tags = {})
      BY DEF Lists
    <3> QED BY <3>1
  <2>2. DOMAIN t = DOMAIN sessions /\ t = [i \in DOMAIN sessions |-> t[i]] /\ sessions' = t
    BY <1>1 DEF HandleUpdate
  <2> HIDE DEF t
  <2> QED BY <2>1, <2>2, SameIds
<1>2. CASE ~Removes(event) /\ new.id \notin ToSet(IdsOf(sessions))
  <2>1. sessions' = <<new>> \o sessions
    BY <1>2 DEF HandleUpdate
  <2>2. <<new>> \o sessions \in Lists /\ SameBlanks(<<new>> \o sessions, sessions)
    BY <1>2, Prepended
  <2> QED BY <2>1, <2>2
<1> QED BY <1>0, <1>1, <1>2

LEMMA FeedStep ==
  ASSUME IInv,
         \/ \E id \in Ids : UpdateRead(id) \/ SessionEnds(id) \/ UpdateArrives(id)
         \/ \E new \in news : NewsArrives(new)
         \/ \E d \in gone : DeleteHeard(d)
  PROVE  IInv'
<1>0. RowsOK /\ sessions \in Lists /\ FeedOK /\ DragOK /\ None \notin Ids
  BY PageAssumption DEF IInv
<1>1. updates \in [Ids -> DbRows \cup {NoRow}]
  BY <1>0 DEF FeedOK
<1>2. ASSUME NEW id \in Ids, UpdateRead(id) PROVE IInv'
  <2>1. /\ id \in DOMAIN rows /\ updates' = [updates EXCEPT ![id] = rows[id]]
        /\ UNCHANGED <<rows, sessions, drag, news, gone, reorders, loads, saves>>
    BY <1>2 DEF UpdateRead
  <2>2. rows[id] \in DbRows
    BY <1>0, <2>1 DEF RowsOK
  <2>3. updates' \in [Ids -> DbRows \cup {NoRow}]
    BY <1>1, <2>1, <2>2
  <2>4. FeedOK'
    BY <1>0, <2>1, <2>3 DEF FeedOK
  <2> QED BY <1>0, <2>1, <2>4 DEF IInv, RowsOK, DragOK
<1>3. ASSUME NEW event, NEW new \in Rows, new.id # None, HandleUpdate(event, new),
             UNCHANGED <<rows, drag>>, FeedOK'
      PROVE  IInv'
  <2>1. sessions' \in Lists /\ SameBlanks(sessions', sessions)
    BY <1>0, <1>3, Updated
  <2>2. DragOK'
    BY <1>0, <1>3, <2>1, DragSurvives
  <2>3. RowsOK'
    BY <1>0, <1>3 DEF RowsOK
  <2> QED BY <1>3, <2>1, <2>2, <2>3 DEF IInv
<1>4. ASSUME NEW id \in Ids, UpdateArrives(id) PROVE IInv'
  <2> DEFINE event == IF updates[id].ended THEN "end" ELSE "ping"
  <2>1. /\ updates[id] # NoRow /\ HandleUpdate(event, Entry(id, updates[id]))
        /\ updates' = [updates EXCEPT ![id] = NoRow]
        /\ UNCHANGED <<rows, drag, news, gone, reorders, loads, saves>>
    BY <1>4 DEF UpdateArrives, Hear
  <2>2. updates[id] \in DbRows
    BY <1>1, <2>1
  <2>3. Entry(id, updates[id]) \in Rows /\ Entry(id, updates[id]).id # None
    BY <1>0, <2>2 DEF Entry, Rows, Names, DbRows
  <2>4. updates' \in [Ids -> DbRows \cup {NoRow}]
    BY <1>1, <2>1
  <2>5. FeedOK'
    BY <1>0, <2>1, <2>4 DEF FeedOK
  <2> QED BY <1>3, <2>1, <2>3, <2>5
<1>5. ASSUME NEW new \in news, NewsArrives(new) PROVE IInv'
  <2>1. /\ HandleUpdate("tags", new) /\ news' = news \ {new}
        /\ UNCHANGED <<rows, drag, updates, gone, reorders, loads, saves>>
    BY <1>5 DEF NewsArrives, Hear
  <2>2. new \in Rows /\ new.id # None
    BY <1>0 DEF FeedOK
  <2>3. FeedOK'
    BY <1>0, <2>1 DEF FeedOK
  <2> QED BY <1>3, <2>1, <2>2, <2>3
<1>6. ASSUME NEW d \in gone, DeleteHeard(d) PROVE IInv'
  <2>1. /\ HandleUpdate("delete", d.new) /\ gone' = gone \ {d}
        /\ UNCHANGED <<rows, drag, updates, news, reorders, loads, saves>>
    BY <1>6 DEF DeleteHeard, Hear
  <2>2. d.new \in Rows /\ d.new.id # None
    BY <1>0 DEF FeedOK
  <2>3. FeedOK'
    BY <1>0, <2>1 DEF FeedOK
  <2> QED BY <1>3, <2>1, <2>2, <2>3
<1>7. ASSUME NEW id \in Ids, SessionEnds(id) PROVE IInv'
  <2>1. /\ id \in DOMAIN rows /\ rows' = [rows EXCEPT ![id].ended = TRUE]
        /\ updates' = [updates EXCEPT ![id] = rows'[id]]
        /\ UNCHANGED <<sessions, drag, news, gone, reorders, loads, saves>>
    BY <1>7 DEF SessionEnds
  <2>2. rows' \in [DOMAIN rows -> DbRows] /\ DOMAIN rows' = DOMAIN rows
    <3>1. rows \in [DOMAIN rows -> DbRows]
      BY <1>0 DEF RowsOK
    <3> QED BY <2>1, <3>1 DEF DbRows
  <2>3. RowsOK'
    BY <1>0, <2>2 DEF RowsOK
  <2>4. rows'[id] \in DbRows
    BY <2>1, <2>2
  <2>5. updates' \in [Ids -> DbRows \cup {NoRow}]
    BY <1>1, <2>1, <2>4
  <2>6. FeedOK'
    BY <1>0, <2>1, <2>5 DEF FeedOK
  <2> QED BY <1>0, <2>1, <2>3, <2>6 DEF IInv, DragOK
<1> QED BY <1>2, <1>4, <1>5, <1>6, <1>7

LEMMA DeleteStep ==
  ASSUME IInv, (\E id \in Ids : DeleteSession(id)) \/ (\E d \in gone : DeleteAnswered(d))
  PROVE  IInv'
<1>0. RowsOK /\ sessions \in Lists /\ FeedOK /\ DragOK /\ None \notin Ids
  BY PageAssumption DEF IInv
<1>1. ASSUME NEW id \in Ids, DeleteSession(id) PROVE IInv'
  <2> DEFINE new == Entry(id, rows[id])
  <2>1. /\ id \in DOMAIN rows /\ rows' = [r \in DOMAIN rows \ {id} |-> rows[r]]
        /\ \A d \in gone' : d \in gone \/ d.new = new
        /\ UNCHANGED <<sessions, drag, updates, news, reorders, loads, saves>>
    BY <1>1 DEF DeleteSession
  <2>2. RowsOK'
    <3>1. IsFiniteSet(DOMAIN rows \ {id})
      BY <1>0, FS_RemoveElement DEF RowsOK
    <3> QED BY <1>0, <2>1, <3>1 DEF RowsOK
  <2>3. rows[id] \in DbRows
    BY <1>0, <2>1 DEF RowsOK
  <2>4. new \in Rows /\ new.id # None
    BY <1>0, <2>3 DEF Entry, Rows, Names, DbRows
  <2> HIDE DEF new
  <2>5. FeedOK'
    BY <1>0, <2>1, <2>4 DEF FeedOK
  <2> QED BY <1>0, <2>1, <2>2, <2>5 DEF IInv, DragOK
<1>2. ASSUME NEW d \in gone, DeleteAnswered(d) PROVE IInv'
  <2>1. /\ sessions' = Without(d.new.id) /\ gone' = gone \ {d}
        /\ UNCHANGED <<rows, drag, updates, news, reorders, loads, saves>>
    BY <1>2 DEF DeleteAnswered
  <2>2. d.new.id # None
    BY <1>0 DEF FeedOK
  <2>3. sessions' \in Lists /\ SameBlanks(sessions', sessions)
    BY <1>0, <2>1, <2>2, Removed
  <2>4. DragOK'
    BY <1>0, <2>1, <2>3, DragSurvives
  <2>5. FeedOK' /\ RowsOK'
    BY <1>0, <2>1 DEF FeedOK, RowsOK
  <2> QED BY <2>3, <2>4, <2>5 DEF IInv
<1> QED BY <1>1, <1>2

\* CreateSession: one more than the largest seq there is.
LEMMA HostStep ==
  ASSUME IInv, NEW id \in Ids, HostStarts(id)
  PROVE  IInv'
<1> DEFINE D == DOMAIN rows
           seqs == {rows[r].seq : r \in D}
           last == seqs \cup {-1}
           top  == CHOOSE m \in last : \A n \in last : n <= m
           row  == [seq |-> 1 + top, tags |-> {}, ended |-> FALSE]
<1>0. RowsOK /\ sessions \in Lists /\ FeedOK /\ DragOK
  BY DEF IInv
<1>1. /\ rows' = [r \in D \cup {id} |-> IF r = id THEN row ELSE rows[r]]
      /\ updates' = [updates EXCEPT ![id] = row]
      /\ UNCHANGED <<sessions, drag, news, gone, reorders, loads, saves>>
  BY DEF HostStarts
<1>2. IsFiniteSet(D) /\ D \subseteq Ids /\ \A r \in D : rows[r] \in DbRows
  BY <1>0 DEF RowsOK
<1>3. \A r \in D : rows[r].seq \in Int
  BY <1>2 DEF DbRows
<1>4. IsFiniteSet(seqs)
  <2> DEFINE f == [r \in D |-> rows[r].seq]
  <2>1. f \in [D -> seqs] /\ \A x \in seqs : \E r \in D : f[r] = x
    OBVIOUS
  <2>2. f \in Surjection(D, seqs)
    BY <2>1, Fun_IsSurj
  <2> HIDE DEF f
  <2> QED BY <1>2, <2>2, FS_Surjection
<1>5. IsFiniteSet(last) /\ last \subseteq Int /\ last # {}
  <2>1. seqs \subseteq Int
    BY <1>3
  <2> HIDE DEF seqs
  <2> QED BY <1>4, <2>1, FS_AddElement
<1> HIDE DEF D, seqs, last
<1>6. top \in Int
  <2>1. \E m \in last : \A n \in last : n <= m
    BY <1>5, Largest
  <2> QED BY <1>5, <2>1
<1> HIDE DEF top
<1>7. row \in DbRows
  BY <1>6 DEF DbRows
<1> HIDE DEF row
<1>8. RowsOK'
  <2>1. IsFiniteSet(D \cup {id})
    BY <1>2, FS_AddElement
  <2>2. DOMAIN rows' = D \cup {id} /\ rows' \in [D \cup {id} -> DbRows]
    BY <1>1, <1>2, <1>7
  <2> QED BY <1>2, <2>1, <2>2 DEF RowsOK
<1>9. FeedOK'
  <2>1. updates' \in [Ids -> DbRows \cup {NoRow}]
    BY <1>0, <1>1, <1>7 DEF FeedOK
  <2> QED BY <1>0, <1>1, <2>1 DEF FeedOK
<1> QED BY <1>0, <1>1, <1>8, <1>9 DEF IInv, DragOK

\* What the invariant does not see.
LEMMA OtherStep ==
  ASSUME IInv, UNCHANGED <<rows, sessions, drag, updates, news, gone, reorders, loads, saves>>
  PROVE  IInv'
  BY DEF IInv, RowsOK, FeedOK, DragOK

LEMMA NextIInv == IInv /\ [Next]_vars => IInv'
<1> SUFFICES ASSUME IInv, [Next]_vars PROVE IInv'
  OBVIOUS
<1>1. CASE Answers
  <2>1. CASE CreateTimeout
    BY <2>1, OtherStep DEF CreateTimeout
  <2> QED BY <1>1, <2>1, ReorderStep, LoadStep, TagStep, FeedStep, DeleteStep DEF Answers
<1>2. CASE User
  <2>1. ASSUME NEW next \in SUBSET Tags, SetFilter(next) PROVE IInv'
    BY <2>1, OtherStep DEF SetFilter
  <2>2. ASSUME NEW id \in Ids, NewSession(id) PROVE IInv'
    BY <2>2, OtherStep DEF NewSession
  <2>3. ASSUME NEW i \in DOMAIN sessions, NEW t \in Tags, EditTags(i, t) PROVE IInv'
    BY <2>3, TagStep
  <2> QED BY <1>2, <2>1, <2>2, <2>3, DragStep, DeleteStep DEF User
<1>3. CASE \E id \in Ids : UpdateRead(id) \/ UpdateArrives(id) \/ SessionEnds(id) \/ HostStarts(id)
  BY <1>3, FeedStep, HostStep
<1>4. CASE \E ids \in reorders : ReorderFails(ids)
  BY <1>4, ReorderStep
<1>5. CASE \E l \in loads : LoadFails(l)
  BY <1>5, LoadStep
<1>6. CASE \E s \in saves : SaveFails(s)
  BY <1>6, TagStep
<1>7. CASE UNCHANGED vars
  BY <1>7, OtherStep DEF vars
<1> QED BY <1>1, <1>2, <1>3, <1>4, <1>5, <1>6, <1>7 DEF Next

-----------------------------------------------------------------------------
(* Theorems.                                                               *)

(* The invariant: the database's rows and the feed's are rows, the page's   *)
(* list names no session twice, and what a touch remembers is a list its    *)
(* shown rows fit, with the blank rows of the page's list or with none.     *)
THEOREM PageInvariant == Spec => []IInv
<1>1. Init => IInv
  BY InitIInv
<1> QED BY <1>1, NextIInv, PTL DEF Spec

(* FilterShowsSome, whatever the filter kept in the browser names and       *)
(* whatever the feed, deletions and reloads do to the list.                 *)
THEOREM FilterShowsSomeHolds == Spec => []FilterShowsSome
<1>1. IInv => FilterShowsSome
  <2> SUFFICES ASSUME IInv, sessions # <<>> PROVE Visible # <<>>
    BY DEF FilterShowsSome
  <2>1. sessions \in Lists /\ Selected \subseteq AllTags(sessions)
    BY DEF IInv, Selected, EffectiveFilter
  <2> QED BY <2>1, FilterLeaves DEF Visible, Ordered
<1> QED BY <1>1, PageInvariant, PTL

\* What the page shows after the end of a drag, in terms of what it was begun over.
LEMMA ReorderShows ==
  ASSUME sessions \in Lists, NEW full, NEW shown, Fits(full, shown),
         ToSet(full) = ToSet(IdsOf(sessions)),
         NEW from \in DOMAIN shown, NEW to \in DOMAIN shown,
         HandleReorder(full, Spliced(shown, from, to))
  PROVE  /\ ToSet(IdsOf(Ordered')) = ToSet(full) /\ Len(IdsOf(Ordered')) = Len(full)
         /\ \A i \in DOMAIN full : full[i] \notin ToSet(shown) => IdsOf(Ordered')[i] = full[i]
<1> DEFINE new == Spliced(shown, from, to)
           ids == MergeReorder(full, new)
<1>1. Fits(full, new) /\ ToSet(new) = ToSet(shown)
  BY SplicedFits
<1>2. /\ ids \in Seq(Names) /\ Len(ids) = Len(full) /\ ToSet(ids) = ToSet(full)
      /\ \A i \in DOMAIN full : full[i] \notin ToSet(new) => ids[i] = full[i]
  BY <1>1, MergeKeeps
<1>3. /\ sessions' \in Lists /\ Len(sessions') = Len(full)
      /\ \A i \in DOMAIN sessions' : /\ sessions'[i].seq = i - 1
                                     /\ ids[i] \in ToSet(IdsOf(sessions)) => sessions'[i].id = ids[i]
  BY <1>1, ReorderGives
<1> HIDE DEF new, ids
<1>4. Ordered' = sessions'
  <2>1. SortBySeq(sessions') = sessions'
    BY <1>3, SortedAlready
  <2> QED BY <2>1 DEF Ordered
<1>5. sessions' \in Seq(Rows) /\ DOMAIN sessions' = 1 .. Len(full) /\ DOMAIN ids = 1 .. Len(full)
      /\ DOMAIN full = 1 .. Len(full)
  BY <1>1, <1>2, <1>3 DEF Lists, Fits
<1>6. \A i \in 1 .. Len(full) : sessions'[i].id = ids[i]
  BY <1>2, <1>3, <1>5 DEF ToSet
<1>7. IdsOf(sessions') = ids
  <2>1. IdsOf(sessions') = [i \in 1 .. Len(full) |-> ids[i]]
    BY <1>5, <1>6 DEF IdsOf
  <2>2. ids = [i \in 1 .. Len(full) |-> ids[i]]
    BY <1>2, <1>5
  <2> QED BY <2>1, <2>2
<1> QED BY <1>1, <1>2, <1>4, <1>7

(* DropKeepsList, for lists of any length and drags during which the feed,  *)
(* deletions, tags and the filter change the list in any way.               *)
THEOREM DropKeepsListHolds == Spec => DropKeepsList
<1> DEFINE touch == drag.kind = "touch"
           base  == IF touch THEN drag.full ELSE IdsOf(Ordered)
           shown == ToSet(IF touch THEN drag.shown ELSE IdsOf(Visible))
           after == IdsOf(Ordered')
           Kind  == drag # NoDrag /\ drag' = NoDrag /\ ToSet(base) = ToSet(IdsOf(sessions))
           Good  == /\ ToSet(after) = ToSet(base) /\ Len(after) = Len(base)
                    /\ sessions' # sessions => \A i \in DOMAIN base : base[i] \notin shown => after[i] = base[i]
<1>1. ASSUME IInv, [Next]_vars, Kind PROVE Good
  <2>0. sessions \in Lists /\ DragOK
    BY <1>1 DEF IInv
  <2>1. \/ \E target \in ToSet(IdsOf(Visible)) : Drop(target)
        \/ \E to \in DOMAIN drag.shown : Release(to)
    BY <1>1 DEF Next, Answers, User, vars, ReorderServed, LoadRead, LoadArrives, SaveServed, SaveAnswered,
       NewsArrives, DeleteAnswered, DeleteHeard, CreateTimeout, Grab, DeleteSession, NewSession, SetFilter, EditTags,
       UpdateRead, UpdateArrives, SessionEnds, HostStarts, ReorderFails, LoadFails, SaveFails
  <2>2. ASSUME NEW target \in ToSet(IdsOf(Visible)), Drop(target) PROVE Good
    <3> DEFINE ids == IdsOf(Visible)
    <3>1. ~touch /\ base = IdsOf(Ordered) /\ shown = ToSet(ids)
      BY <2>2 DEF Drop
    <3>2. CASE drag.id # target /\ drag.id \in ToSet(ids)
      <4>1. HandleReorder(IdsOf(Ordered), Spliced(ids, Position(ids, drag.id), Position(ids, target)))
        BY <2>2, <3>2 DEF Drop
      <4>2. Position(ids, drag.id) \in DOMAIN ids /\ Position(ids, target) \in DOMAIN ids
        BY <3>2, PositionIn
      <4>3. Fits(IdsOf(Ordered), ids) /\ ToSet(IdsOf(Ordered)) = ToSet(IdsOf(sessions))
        BY <2>0, Screen
      <4>4. /\ ToSet(after) = ToSet(IdsOf(Ordered)) /\ Len(after) = Len(IdsOf(Ordered))
            /\ \A i \in DOMAIN IdsOf(Ordered) :
                 IdsOf(Ordered)[i] \notin ToSet(ids) => after[i] = IdsOf(Ordered)[i]
        BY <2>0, <4>1, <4>2, <4>3, ReorderShows
      <4> QED BY <3>1, <4>4
    <3>3. CASE ~(drag.id # target /\ drag.id \in ToSet(ids))
      <4>1. sessions' = sessions
        BY <2>2, <3>3 DEF Drop
      <4>2. after = IdsOf(Ordered)
        BY <4>1 DEF Ordered
      <4> QED BY <3>1, <4>1, <4>2
    <3> QED BY <3>2, <3>3
  <2>3. ASSUME NEW to \in DOMAIN drag.shown, Release(to) PROVE Good
    <3> DEFINE from == Position(drag.shown, drag.id)
               final == Spliced(drag.shown, from, to)
    <3>1. touch /\ base = drag.full /\ shown = ToSet(drag.shown)
      BY <2>3 DEF Release
    <3>2. /\ Fits(drag.full, drag.shown) /\ drag.id \in ToSet(drag.shown)
          /\ Blanks(IdsOf(sessions)) # {} =>
               Cardinality(Blanks(IdsOf(sessions))) = Cardinality(Blanks(drag.full))
          /\ ToSet(drag.full) = ToSet(IdsOf(sessions))
      BY <1>1, <2>0, <3>1 DEF DragOK
    <3>3. CASE final # IdsOf(Visible)
      <4>1. HandleReorder(drag.full, final)
        BY <2>3, <3>3 DEF Release
      <4>2. from \in DOMAIN drag.shown
        BY <3>2, PositionIn
      <4> HIDE DEF from
      <4>3. /\ ToSet(after) = ToSet(drag.full) /\ Len(after) = Len(drag.full)
            /\ \A i \in DOMAIN drag.full : drag.full[i] \notin ToSet(drag.shown) => after[i] = drag.full[i]
        BY <2>0, <3>2, <4>1, <4>2, ReorderShows
      <4> QED BY <3>1, <4>3
    <3>4. CASE ~(final # IdsOf(Visible))
      <4>1. sessions' = sessions
        BY <2>3, <3>4 DEF Release
      <4>2. after = IdsOf(Ordered)
        BY <4>1 DEF Ordered
      <4>3. /\ ToSet(IdsOf(Ordered)) = ToSet(IdsOf(sessions)) /\ SameBlanks(Ordered, sessions)
            /\ Ordered \in Lists
        BY <2>0, Screen
      <4>4. IdsOf(Ordered) \in Seq(Names) /\ Distinct(IdsOf(Ordered))
        BY <4>3, IdsSeq DEF Lists
      <4>5. drag.full \in Seq(Names) /\ Distinct(drag.full)
        BY <3>2 DEF Fits
      <4>6. Cardinality(Blanks(IdsOf(Ordered))) = Cardinality(Blanks(drag.full))
        <5>1. CASE Blanks(IdsOf(sessions)) # {}
          BY <3>2, <4>3, <5>1 DEF SameBlanks
        <5>2. CASE Blanks(IdsOf(sessions)) = {}
          <6>1. Blanks(IdsOf(Ordered)) = {}
            BY <4>3, <5>2 DEF SameBlanks
          <6>2. Blanks(drag.full) = {}
            BY <3>2, <5>2 DEF Blanks, ToSet
          <6> QED BY <6>1, <6>2
        <5> QED BY <5>1, <5>2
      <4>7. Len(IdsOf(Ordered)) = Len(drag.full)
        BY <3>2, <4>3, <4>4, <4>5, <4>6, SameLength
      <4> QED BY <3>1, <3>2, <4>1, <4>2, <4>3, <4>7
    <3> QED BY <3>3, <3>4
  <2> QED BY <2>1, <2>2, <2>3
<1>2. IInv /\ [Next]_vars => [Kind => Good]_vars
  BY <1>1
<1> QED BY <1>2, PageInvariant, PTL DEF Spec, DropKeepsList

(* The safety half of CreateReported: a session asked for is reported at    *)
(* most once, and not at all if another was asked for in its place, though  *)
(* its update, a save's or a deletion's and the timer may all come.         *)
THEOREM ReportedAtMostOnce == Spec => [](counts.reported + counts.replaced <= counts.asked)
<1>1. Init => Owed
  BY InitIInv
<1>2. IInv /\ Owed /\ [Next]_vars => Owed'
  <2> SUFFICES ASSUME IInv, Owed, [Next]_vars PROVE Owed'
    OBVIOUS
  <2>0. None \notin Ids /\ FeedOK
    BY PageAssumption DEF IInv
  <2>1. ASSUME NEW event, NEW id, id # None, CreatorHears(event, id) PROVE Owed'
    BY <2>1 DEF Owed, Counts, CreatorHears, MatchesNewSession
  <2>2. ASSUME NEW id \in Ids, UpdateArrives(id) PROVE Owed'
    <3>1. Entry(id, updates[id]).id = id /\ id # None
      BY <2>0 DEF Entry
    <3> QED BY <2>1, <2>2, <3>1 DEF UpdateArrives, Hear
  <2>3. ASSUME NEW new \in news, NewsArrives(new) PROVE Owed'
    BY <2>0, <2>1, <2>3 DEF NewsArrives, Hear, FeedOK
  <2>4. CASE CreateTimeout
    BY <2>4 DEF Owed, Counts, CreateTimeout
  <2>5. ASSUME NEW id \in Ids, NewSession(id) PROVE Owed'
    <3> DEFINE c1 == [counts EXCEPT !.moves = @ + 1]
               c2 == [c1 EXCEPT !.asked = @ + 1]
               c3 == [c2 EXCEPT !.starts = @ \cup {id}]
               c4 == [c3 EXCEPT !.replaced = IF creating = None THEN @ ELSE @ + 1]
    <3>1. creating' = id /\ counts' = c4 /\ id # None
      BY <2>0, <2>5 DEF NewSession
    <3>2. /\ counts \in Counts
          /\ counts.asked = counts.reported + counts.replaced + IF creating = None THEN 0 ELSE 1
      BY DEF Owed
    <3>3. c1 \in Counts /\ c1.asked = counts.asked /\ c1.reported = counts.reported /\ c1.replaced = counts.replaced
      BY <3>2 DEF Counts
    <3> HIDE DEF c1
    <3>4. c2 \in Counts /\ c2.asked = c1.asked + 1 /\ c2.reported = c1.reported /\ c2.replaced = c1.replaced
      BY <3>3 DEF Counts
    <3> HIDE DEF c2
    <3>5. c3 \in Counts /\ c3.asked = c2.asked /\ c3.reported = c2.reported /\ c3.replaced = c2.replaced
      BY <3>4 DEF Counts
    <3> HIDE DEF c3
    <3>6. /\ c4 \in Counts /\ c4.asked = c3.asked /\ c4.reported = c3.reported
          /\ c4.replaced = IF creating = None THEN c3.replaced ELSE c3.replaced + 1
      BY <3>5 DEF Counts
    <3> HIDE DEF c4
    <3>7. c4.asked = c4.reported + c4.replaced + 1
      BY <3>2, <3>3, <3>4, <3>5, <3>6 DEF Counts
    <3> QED BY <3>1, <3>6, <3>7 DEF Owed
  <2>6. ASSUME NEW id \in Ids, HostStarts(id) PROVE Owed'
    BY <2>6 DEF Owed, Counts, HostStarts
  <2>7. ASSUME Move \/ Fault \/ counts' = counts, creating' = creating PROVE Owed'
    BY <2>7 DEF Owed, Counts, Move, Fault
  <2>15. ASSUME NEW d \in gone, DeleteHeard(d) PROVE Owed'
    BY <2>0, <2>1, <2>15 DEF DeleteHeard, Hear, FeedOK
  <2>8. CASE Answers
    BY <2>3, <2>4, <2>7, <2>8, <2>15 DEF Answers, ReorderServed, LoadRead, LoadArrives, SaveServed, SaveAnswered,
       DeleteAnswered
  <2>9. CASE User
    BY <2>5, <2>7, <2>9 DEF User, Grab, DeleteSession, Drop, Release, SetFilter, EditTags
  <2>10. ASSUME NEW id \in Ids, UpdateRead(id) \/ SessionEnds(id) PROVE Owed'
    BY <2>7, <2>10 DEF UpdateRead, SessionEnds
  <2>11. ASSUME NEW ids \in reorders, ReorderFails(ids) PROVE Owed'
    BY <2>7, <2>11 DEF ReorderFails
  <2>12. ASSUME NEW l \in loads, LoadFails(l) PROVE Owed'
    BY <2>7, <2>12 DEF LoadFails
  <2>13. ASSUME NEW s \in saves, SaveFails(s) PROVE Owed'
    BY <2>7, <2>13 DEF SaveFails
  <2>14. CASE UNCHANGED vars
    BY <2>7, <2>14 DEF vars
  <2> QED BY <2>2, <2>6, <2>8, <2>9, <2>10, <2>11, <2>12, <2>13, <2>14 DEF Next
<1>3. Owed => counts.reported + counts.replaced <= counts.asked
  BY DEF Owed, Counts
<1> QED BY <1>1, <1>2, <1>3, PageInvariant, PTL DEF Spec
=============================================================================
