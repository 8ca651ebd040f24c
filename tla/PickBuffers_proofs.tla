------------------------- MODULE PickBuffers_proofs -------------------------
(***************************************************************************)
(* Proofs about PickBuffers: quake ids stay unique for any number of       *)
(* buffers that divides the number of ids, whatever is located, moved or   *)
(* recycled, and however often the ids wrap; no buffer is filled past its  *)
(* end and every index keeps to its range; a location knocks out no manual *)
(* pick where there are automatic ones enough.                             *)
(***************************************************************************)
EXTENDS PickBuffers, FiniteSetTheorems, FunctionTheorems, WellFoundedInduction, TLAPS

(* The ids go round in whole turns (10000 is a multiple of NumPBuffs).     *)
WholeTurns == \E turns \in Int : MaxIds = turns * NumPBuffs

(* Buffer b only ever has ids that differ from b by a multiple of          *)
(* NumPBuffs.                                                              *)
OwnIds ==
  /\ id \in [Buffers -> Int]
  /\ \A b \in Buffers : \E k \in Int : id[b] = b + k * NumPBuffs

(* A multiple of n that is smaller than n either way is 0.                 *)
LEMMA SmallMultiple ==
  ASSUME NEW n \in Int, n > 0, NEW k \in Int, k * n < n, k * n > -n
  PROVE  k = 0
<1>1. SUFFICES ASSUME k # 0 PROVE FALSE
  OBVIOUS
<1>2. CASE k >= 1
  <2>1. k - 1 >= 0 /\ (k - 1) * n >= 0
    BY <1>2
  <2>2. (k - 1) * n = k * n - n
    OBVIOUS
  <2> QED
    BY <2>1, <2>2
<1>3. CASE k <= -1
  <2>1. -k - 1 >= 0 /\ (-k - 1) * n >= 0
    BY <1>3
  <2>2. (-k - 1) * n = -(k * n) - n
    OBVIOUS
  <2> QED
    BY <2>1, <2>2
<1> QED
  BY <1>1, <1>2, <1>3

(* Buffers with ids of their own have different ids.                       *)
LEMMA OwnIdsDiffer == OwnIds => UniqueIds
<1> SUFFICES ASSUME OwnIds, NEW b \in Buffers, NEW c \in Buffers, id[b] = id[c]
             PROVE  b = c
  BY DEF UniqueIds
<1>0. NumPBuffs \in Int /\ NumPBuffs > 0
  BY BuffersAssumption
<1>1. PICK k \in Int : id[b] = b + k * NumPBuffs
  BY DEF OwnIds
<1>2. PICK l \in Int : id[c] = c + l * NumPBuffs
  BY DEF OwnIds
<1>3. b \in Int /\ c \in Int /\ b - c < NumPBuffs /\ b - c > -NumPBuffs
  BY <1>0 DEF Buffers
<1>4. k * NumPBuffs \in Int /\ l * NumPBuffs \in Int
  BY <1>0
<1>5. (l - k) * NumPBuffs = l * NumPBuffs - k * NumPBuffs
  BY <1>0
<1>6. (l - k) * NumPBuffs = b - c
  <2>1. b + k * NumPBuffs = c + l * NumPBuffs
    BY <1>1, <1>2
  <2>2. ASSUME NEW x \in Int, NEW y \in Int, b + x = c + y PROVE y - x = b - c
    BY <1>3, <2>2
  <2> QED
    BY <1>4, <1>5, <2>1, <2>2
<1>7. l - k = 0
  BY <1>0, <1>3, <1>6, SmallMultiple
<1> QED
  BY <1>3, <1>6, <1>7, <1>0

(* The next id of a buffer is one of its own.                              *)
LEMMA NextIdOwn ==
  ASSUME WholeTurns, NEW b \in Buffers, NEW i \in Int,
         \E k \in Int : i = b + k * NumPBuffs
  PROVE  NextId(i) \in Int /\ \E k \in Int : NextId(i) = b + k * NumPBuffs
<1>0. NumPBuffs \in Int /\ MaxIds \in Int /\ b \in Int
  BY BuffersAssumption DEF Buffers
<1>1. PICK k \in Int : i = b + k * NumPBuffs
  OBVIOUS
<1>2. PICK turns \in Int : MaxIds = turns * NumPBuffs
  BY DEF WholeTurns
<1>3. NextId(i) \in Int
  BY <1>0 DEF NextId
<1>4. CASE i + NumPBuffs >= MaxIds
  <2>1. NextId(i) = b + (k + 1 - turns) * NumPBuffs
    BY <1>0, <1>1, <1>2, <1>4 DEF NextId
  <2>2. k + 1 - turns \in Int
    OBVIOUS
  <2> QED
    BY <1>3, <2>1, <2>2
<1>5. CASE ~(i + NumPBuffs >= MaxIds)
  <2>1. NextId(i) = b + (k + 1) * NumPBuffs
    BY <1>0, <1>1, <1>5 DEF NextId
  <2> QED
    BY <1>3, <2>1
<1> QED
  BY <1>4, <1>5

(* Recycling any buffer leaves every buffer with an id of its own.         *)
LEMMA RecycleOwn ==
  ASSUME WholeTurns, OwnIds, NEW c, id' = [id EXCEPT ![c] = NextId(@)]
  PROVE  OwnIds'
<1>1. \A b \in Buffers : id'[b] = id[b] \/ id'[b] = NextId(id[b])
  BY DEF OwnIds
<1>2. ASSUME NEW b \in Buffers
      PROVE  id'[b] \in Int /\ \E k \in Int : id'[b] = b + k * NumPBuffs
  <2>1. id[b] \in Int /\ \E k \in Int : id[b] = b + k * NumPBuffs
    BY DEF OwnIds
  <2>2. NextId(id[b]) \in Int /\ \E k \in Int : NextId(id[b]) = b + k * NumPBuffs
    BY <2>1, NextIdOwn
  <2> QED
    BY <1>1, <2>1, <2>2
<1>3. id' \in [Buffers -> Int]
  BY <1>2 DEF OwnIds
<1> QED
  BY <1>2, <1>3 DEF OwnIds, Buffers

(* No message changes an id but one that recycles a buffer.                *)
LEMMA MainOwn == ASSUME WholeTurns, OwnIds, Main PROVE OwnIds'
<1>1. ASSUME NEW p, LoadUpPBuff(p) PROVE OwnIds'
  <2>1. CASE RepeatedPick(p) \/ Joins(p) \/ Dropped(p) \/ Gathers(p)
    BY <2>1 DEF RepeatedPick, Joins, Dropped, Gathers, OwnIds, Buffers
  <2>2. CASE Starts(p)
    <3>1. CASE UNCHANGED id
      BY <3>1 DEF OwnIds, Buffers
    <3>2. CASE \E E \in Recyclable : Recycle(Oldest(E), <<p>>)
      <4>1. PICK E \in Recyclable : Recycle(Oldest(E), <<p>>)
        BY <3>2
      <4>2. id' = [id EXCEPT ![Oldest(E)] = NextId(@)]
        BY <4>1 DEF Recycle
      <4> QED
        BY <4>2, RecycleOwn
    <3> QED
      BY <2>2, <3>1, <3>2 DEF Starts
  <2> QED
    BY <1>1, <2>1, <2>2 DEF LoadUpPBuff
<1>2. ASSUME NEW p, NEW q, ManualPick(p, q) PROVE OwnIds'
  <2>1. CASE LoadUpPBuff(p)
    BY <2>1, <1>1
  <2>2. CASE NamedPick(p, q)
    BY <2>2 DEF NamedPick, OwnIds, Buffers
  <2> QED
    BY <1>2, <2>1, <2>2 DEF ManualPick
<1>3. ASSUME NEW q, NEW stn, Delete(q, stn) \/ Amplitude(q, stn) PROVE OwnIds'
  BY <1>3 DEF Delete, Amplitude, OwnIds, Buffers
<1>4. ASSUME NEW q, ForceLocation(q) PROVE OwnIds'
  BY <1>4 DEF ForceLocation, OwnIds, Buffers
<1> QED
  BY <1>1, <1>2, <1>3, <1>4 DEF Main

(* Nor does LocateThread, but where it empties a buffer.                   *)
LEMMA ThreadOwn == ASSUME WholeTurns, OwnIds, LocateThread PROVE OwnIds'
<1>1. CASE Reuse
  <2>1. id' = [id EXCEPT ![loc.b] = NextId(@)]
    BY <1>1 DEF Reuse, Recycle
  <2> QED
    BY <2>1, RecycleOwn
<1>2. CASE UNCHANGED id
  BY <1>2 DEF OwnIds, Buffers
<1>3. Reuse \/ UNCHANGED id
  BY DEF LocateThread, Look, Locate, RemoveMisfits, Scavenge, Release, FinalMade, Scan
<1> QED
  BY <1>1, <1>2, <1>3

(* In every behaviour of loc_wcatwc no two buffers hold quakes of the same *)
(* id, if the ids go round in whole turns.                                 *)
THEOREM IdsUnique == WholeTurns => (Spec => []UniqueIds)
<1> SUFFICES ASSUME WholeTurns PROVE Spec => []UniqueIds
  OBVIOUS
<1>1. Init => OwnIds
  <2> SUFFICES ASSUME Init PROVE OwnIds
    OBVIOUS
  <2>1. \A b \in Buffers : id[b] = b + 0 * NumPBuffs
    BY BuffersAssumption DEF Init, Buffers
  <2> QED
    BY <2>1 DEF Init, OwnIds, Buffers
<1>2. OwnIds /\ [Next]_vars => OwnIds'
  <2> SUFFICES ASSUME OwnIds, [Next]_vars PROVE OwnIds'
    OBVIOUS
  <2>1. CASE UNCHANGED vars
    BY <2>1 DEF vars, OwnIds, Buffers
  <2> QED
    BY <2>1, MainOwn, ThreadOwn DEF Next
<1> QED
  BY <1>1, <1>2, OwnIdsDiffer, PTL DEF Spec

-----------------------------------------------------------------------------
(* Sets of numbers: the least element, and induction.                      *)

LEMMA LeastOf ==
  ASSUME NEW S \in SUBSET Nat, S # {}
  PROVE  \E m \in S : \A n \in S : m <= n
<1>1. IsWellFoundedOn(OpToRel(<, Nat), Nat)
  BY NatLessThanWellFounded
<1>2. PICK m \in S : \A n \in S : ~(<<n, m>> \in OpToRel(<, Nat))
  BY <1>1, WFMin
<1>3. \A n \in S : ~(n < m)
  BY <1>2 DEF OpToRel
<1> QED
  BY <1>3

LEMMA Induction ==
  ASSUME NEW n \in Nat, NEW S, 0 \in S,
         \A k \in 1 .. n : k - 1 \in S => k \in S
  PROVE  0 .. n \subseteq S
<1> DEFINE T == {k \in 0 .. n : k \notin S}
<1>1. T \in SUBSET Nat /\ \A k : k \in T <=> k \in 0 .. n /\ k \notin S
  OBVIOUS
<1> HIDE DEF T
<1>2. ASSUME T # {} PROVE FALSE
  <2>1. PICK m \in T : \A k \in T : m <= k
    BY <1>1, <1>2, LeastOf
  <2>2. m \in 1 .. n /\ m - 1 \in 0 .. n /\ m \notin S
    BY <1>1, <2>1
  <2>3. m - 1 \in S
    BY <1>1, <2>1, <2>2
  <2>. QED
    BY <2>2, <2>3
<1>. QED
  BY <1>1, <1>2

LEMMA MinOf ==
  ASSUME NEW S \in SUBSET Nat, S # {}
  PROVE  Min(S) \in S /\ \A n \in S : Min(S) <= n
<1>1. \E m \in S : \A n \in S : m <= n
  BY LeastOf
<1> QED
  BY <1>1 DEF Min

(* The places of a sequence that satisfy something can be counted off:     *)
(* there is one with j of them up to it for each j up to their number.     *)
LEMMA CountOff ==
  ASSUME NEW m \in Nat, NEW S \in SUBSET (1 .. m)
  PROVE  /\ IsFiniteSet(S) /\ Cardinality(S) \in Nat /\ Cardinality(S) <= m
         /\ \A j \in 1 .. Cardinality(S) :
              \E i \in S : Cardinality({k \in S : k <= i}) = j
<1>1. IsFiniteSet(S) /\ Cardinality(S) \in Nat /\ Cardinality(S) <= m
  <2>1. IsFiniteSet(1 .. m) /\ Cardinality(1 .. m) = m
    <3>1. /\ IsFiniteSet(1 .. m)
          /\ Cardinality(1 .. m) = IF 1 > m THEN 0 ELSE m - 1 + 1
      BY FS_Interval
    <3> QED
      BY <3>1
  <2>2. IsFiniteSet(S) /\ Cardinality(S) <= Cardinality(1 .. m)
    BY <2>1, FS_Subset
  <2> QED
    BY <2>1, <2>2, FS_CardinalityType
<1> SUFFICES ASSUME NEW j \in 1 .. Cardinality(S)
             PROVE  \E i \in S : Cardinality({k \in S : k <= i}) = j
  BY <1>1
<1> DEFINE Upto(i) == {k \in S : k <= i}
<1>2. \A i : Upto(i) \subseteq S /\ \A k \in S : k \in Upto(i) <=> k <= i
  OBVIOUS
<1> SUFFICES \E i \in S : Cardinality(Upto(i)) = j
  OBVIOUS
<1> HIDE DEF Upto
<1>3. \A i : IsFiniteSet(Upto(i)) /\ Cardinality(Upto(i)) \in Nat
  <2> SUFFICES ASSUME NEW i
               PROVE  IsFiniteSet(Upto(i)) /\ Cardinality(Upto(i)) \in Nat
    OBVIOUS
  <2>1. IsFiniteSet(Upto(i))
    BY <1>1, <1>2, FS_Subset
  <2> QED
    BY <2>1, FS_CardinalityType
<1> DEFINE A == {i \in 0 .. m : Cardinality(Upto(i)) >= j}
<1>4. A \in SUBSET Nat /\ \A i : i \in A <=> i \in 0 .. m /\ Cardinality(Upto(i)) >= j
  OBVIOUS
<1> HIDE DEF A
<1>5. m \in A
  <2>1. \A k \in S : k \in Upto(m)
    BY <1>2
  <2>2. Upto(m) = S
    BY <1>2, <2>1
  <2> QED
    BY <1>1, <1>4, <2>2
<1>6. PICK i \in A : \A k \in A : i <= k
  BY <1>4, <1>5, LeastOf
<1>7. i \in 1 .. m
  <2>1. \A k \in S : k \notin Upto(0)
    BY <1>2
  <2>2. Upto(0) = {}
    BY <1>2, <2>1
  <2>3. Cardinality(Upto(0)) = 0
    BY <2>2, FS_EmptySet
  <2>4. 0 \notin A
    BY <1>1, <1>4, <2>3
  <2> QED
    BY <1>4, <1>6, <2>4
<1>8. Cardinality(Upto(i - 1)) < j
  <2>1. i - 1 \in 0 .. m /\ i - 1 \notin A
    BY <1>6, <1>7
  <2> QED
    BY <1>1, <1>3, <1>4, <2>1
<1>9. i \in S
  <2> SUFFICES ASSUME i \notin S PROVE FALSE
    OBVIOUS
  <2>1. \A k \in S : k \in Upto(i) <=> k \in Upto(i - 1)
    BY <1>2, <1>7
  <2>2. Upto(i) = Upto(i - 1)
    BY <1>2, <2>1
  <2> QED
    BY <1>1, <1>3, <1>4, <1>6, <1>8, <2>2
<1>10. Cardinality(Upto(i)) = Cardinality(Upto(i - 1)) + 1
  <2>1. \A k \in S : k \in Upto(i) <=> k \in Upto(i - 1) \/ k = i
    BY <1>2, <1>7, <1>9
  <2>2. Upto(i) \subseteq S /\ Upto(i - 1) \subseteq S
    BY <1>2
  <2>3. Upto(i) = Upto(i - 1) \cup {i}
    BY <1>9, <2>1, <2>2
  <2>4. i \notin Upto(i - 1)
    BY <1>2, <1>7, <1>9
  <2> QED
    BY <1>3, <2>3, <2>4, FS_AddElement
<1> QED
  BY <1>1, <1>3, <1>4, <1>6, <1>8, <1>9, <1>10

-----------------------------------------------------------------------------
(* What one location does to the picks of a buffer.                        *)

LEMMA Numbers ==
  /\ MinPs \in Nat \ {0} /\ MaxStations \in Nat \ {0} /\ MaxVersions \in Nat \ {0}
  /\ NumPBuffs \in Nat \ {0} /\ MaxIds \in Nat \ {0} /\ NumPBuffs < MaxIds
  BY LocateAssumption, BuffersAssumption

LEMMA NumPsBound ==
  ASSUME NEW ps \in Seq(Picks)
  PROVE  NumPs(ps) \in 0 .. Len(ps)
<1> DEFINE U == {i \in DOMAIN ps : ps[i].timed /\ ps[i].use > 0}
<1>1. U \subseteq 1 .. Len(ps) /\ Len(ps) \in Nat
  OBVIOUS
<1>2. IsFiniteSet(1 .. Len(ps)) /\ Cardinality(1 .. Len(ps)) = Len(ps)
  <2>1. /\ IsFiniteSet(1 .. Len(ps))
        /\ Cardinality(1 .. Len(ps)) = IF 1 > Len(ps) THEN 0 ELSE Len(ps) - 1 + 1
    BY <1>1, FS_Interval
  <2> QED
    BY <1>1, <2>1
<1>3. IsFiniteSet(U) /\ Cardinality(U) <= Len(ps) /\ Cardinality(U) \in Nat
  BY <1>1, <1>2, FS_Subset, FS_CardinalityType
<1> QED
  BY <1>1, <1>3 DEF NumPs

LEMMA SamePlaces ==
  ASSUME NEW ps \in Seq(Picks), NEW r, r = [i \in DOMAIN ps |-> r[i]],
         \A i \in DOMAIN ps : r[i] \in Picks
  PROVE  r \in Seq(Picks) /\ Len(r) = Len(ps) /\ DOMAIN r = DOMAIN ps
<1>1. DOMAIN ps = 1 .. Len(ps) /\ Len(ps) \in Nat
  OBVIOUS
<1>2. r \in [1 .. Len(ps) -> Picks]
  BY <1>1
<1> QED
  BY <1>1, <1>2

LEMMA RevivedTypes ==
  ASSUME NEW ps \in Seq(Picks)
  PROVE  /\ Revived(ps) \in Seq(Picks) /\ Len(Revived(ps)) = Len(ps)
         /\ \A i \in DOMAIN ps : /\ Revived(ps)[i].stn = ps[i].stn
                                 /\ Revived(ps)[i].timed = ps[i].timed
                                 /\ Revived(ps)[i].use = IF ps[i].use = 0 THEN 1 ELSE ps[i].use
<1> DEFINE r == Revived(ps)
<1>1. \A i \in DOMAIN ps : ps[i] \in Picks
  OBVIOUS
<1>2. r = [i \in DOMAIN ps |-> IF ps[i].use = 0 THEN [ps[i] EXCEPT !.use = 1] ELSE ps[i]]
  BY DEF Revived
<1> HIDE DEF r
<1>3. \A i \in DOMAIN ps : r[i] = IF ps[i].use = 0 THEN [ps[i] EXCEPT !.use = 1] ELSE ps[i]
  BY <1>2
<1>4. ASSUME NEW i \in DOMAIN ps
      PROVE  /\ r[i] \in Picks /\ r[i].stn = ps[i].stn
             /\ r[i].timed = ps[i].timed
             /\ r[i].use = IF ps[i].use = 0 THEN 1 ELSE ps[i].use
  <2>1. PICK p \in Picks : p = ps[i]
    BY <1>1
  <2>2. r[i] = IF p.use = 0 THEN [p EXCEPT !.use = 1] ELSE p
    BY <1>3, <2>1
  <2>3. CASE p.use = 0
    BY <2>1, <2>2, <2>3 DEF Picks
  <2>4. CASE p.use # 0
    BY <2>1, <2>2, <2>4
  <2> QED
    BY <2>3, <2>4
<1>5. r = [i \in DOMAIN ps |-> r[i]]
  BY <1>2
<1>6. r \in Seq(Picks) /\ Len(r) = Len(ps)
  BY <1>4, <1>5, SamePlaces
<1> QED
  BY <1>4, <1>6 DEF r

LEMMA SortTypes ==
  ASSUME NEW ps \in Seq(Picks), NEW r \in SortAllByPTime(ps)
  PROVE  /\ r \in Seq(Picks) /\ Len(r) = Len(ps) /\ DOMAIN r = DOMAIN ps
         /\ \E f \in Bijection(DOMAIN ps, DOMAIN ps) : \A i \in DOMAIN ps : r[i] = ps[f[i]]
<1>1. PICK f \in Bijection(DOMAIN ps, DOMAIN ps) : r = [i \in DOMAIN ps |-> ps[f[i]]]
  BY DEF SortAllByPTime
<1>2. f \in [DOMAIN ps -> DOMAIN ps]
  BY Fun_BijectionProperties
<1>3. \A i \in DOMAIN ps : r[i] = ps[f[i]] /\ r[i] \in Picks
  BY <1>1, <1>2
<1>4. r = [i \in DOMAIN ps |-> r[i]]
  BY <1>1
<1> QED
  BY <1>3, <1>4, SamePlaces

LEMMA FittedTypes ==
  ASSUME NEW ps \in Seq(Picks), NEW r \in Fitted(ps)
  PROVE  r \in Seq(Picks) /\ Len(r) = Len(ps) /\ DOMAIN r = DOMAIN ps
<1>1. CASE r = ps
  BY <1>1
<1>2. ASSUME NEW K, NEW R, r = FindBadPs(ps, K, R)
      PROVE  r \in Seq(Picks) /\ Len(r) = Len(ps) /\ DOMAIN r = DOMAIN ps
  <2>1. r = [i \in DOMAIN ps |->
               IF i \in K THEN [ps[i] EXCEPT !.use = IF i \in R THEN 1 ELSE 0] ELSE ps[i]]
    BY <1>2 DEF FindBadPs
  <2>2. \A i \in DOMAIN ps : ps[i] \in Picks
    OBVIOUS
  <2>3. ASSUME NEW i \in DOMAIN ps PROVE r[i] \in Picks
    <3>1. PICK p \in Picks : p = ps[i]
      BY <2>2
    <3>2. PICK u \in {0, 1} : r[i] = p \/ r[i] = [p EXCEPT !.use = u]
      BY <2>1, <3>1
    <3> QED
      BY <3>2 DEF Picks
  <2>4. r = [i \in DOMAIN ps |-> r[i]]
    BY <2>1
  <2> QED
    BY <2>3, <2>4, SamePlaces
<1> QED
  BY <1>1, <1>2 DEF Fitted

LEMMA SolutionTypes ==
  ASSUME NEW ps \in Seq(Picks), NEW s \in Solutions(ps)
  PROVE  s.ps \in Seq(Picks) /\ Len(s.ps) = Len(ps) /\ s.good \in BOOLEAN
<1>1. PICK r \in SortAllByPTime(ps) : s.ps \in Fitted(r)
  BY DEF Solutions
<1>2. r \in Seq(Picks) /\ Len(r) = Len(ps)
  BY <1>1, SortTypes
<1>3. s.good \in BOOLEAN
  BY DEF Solutions
<1> QED
  BY <1>1, <1>2, <1>3, FittedTypes

LEMMA DropStationTypes ==
  ASSUME NEW ps \in Seq(Picks), NEW stn
  PROVE  DropStation(ps, stn) \in Seq(Picks) /\ Len(DropStation(ps, stn)) <= Len(ps)
<1>1. PICK kept \in SUBSET DOMAIN ps :
        DropStation(ps, stn) =
          [j \in 1 .. Cardinality(kept) |->
             ps[CHOOSE i \in kept : Cardinality({k \in kept : k <= i}) = j]]
  <2> DEFINE gone[i \in DOMAIN ps] == ps[i].stn = stn /\ (i = 1 \/ ~gone[i - 1])
             kept == {i \in DOMAIN ps : ~gone[i]}
  <2>1. kept \in SUBSET DOMAIN ps
    OBVIOUS
  <2>2. DropStation(ps, stn) =
          [j \in 1 .. Cardinality(kept) |->
             ps[CHOOSE i \in kept : Cardinality({k \in kept : k <= i}) = j]]
    BY DEF DropStation
  <2> HIDE DEF kept
  <2> QED
    BY <2>1, <2>2
<1>2. kept \in SUBSET (1 .. Len(ps)) /\ Len(ps) \in Nat /\ \A i \in kept : ps[i] \in Picks
  OBVIOUS
<1>3. /\ Cardinality(kept) \in Nat /\ Cardinality(kept) <= Len(ps)
      /\ \A j \in 1 .. Cardinality(kept) :
           \E i \in kept : Cardinality({k \in kept : k <= i}) = j
  BY <1>2, CountOff
<1>4. ASSUME NEW j \in 1 .. Cardinality(kept)
      PROVE  ps[CHOOSE i \in kept : Cardinality({k \in kept : k <= i}) = j] \in Picks
  BY <1>2, <1>3
<1>5. PICK n \in Nat : n = Cardinality(kept)
  BY <1>3
<1>6. DropStation(ps, stn) \in [1 .. n -> Picks]
  BY <1>1, <1>4, <1>5
<1> QED
  BY <1>3, <1>5, <1>6

(* What is left after n stations, if left is what was left after fewer.    *)
Without(ps, stns, left, n) == IF n = 0 THEN ps ELSE DropStation(left[n - 1], stns[n])

Left(ps, stns) ==
  CHOOSE left : left = [n \in 0 .. Len(stns) |-> Without(ps, stns, left, n)]

(* The loop over szLastSta is well defined.                                *)
LEMMA LeftIs ==
  ASSUME NEW ps, NEW stns, Len(stns) \in Nat
  PROVE  Left(ps, stns) = [n \in 0 .. Len(stns) |-> Without(ps, stns, Left(ps, stns), n)]
<1> DEFINE n == Len(stns)
           S == {k \in 0 .. n : \E f : f = [j \in 0 .. k |-> Without(ps, stns, f, j)]}
<1>1. n \in Nat /\ n = Len(stns)
  OBVIOUS
<1> HIDE DEF n
<1>2. 0 \in S
  <2>1. [j \in 0 .. 0 |-> ps] = [j \in 0 .. 0 |-> Without(ps, stns, [i \in 0 .. 0 |-> ps], j)]
    BY DEF Without
  <2> QED
    BY <1>1, <2>1
<1>3. ASSUME NEW k \in 1 .. n, k - 1 \in S PROVE k \in S
  <2>1. PICK f : f = [j \in 0 .. k - 1 |-> Without(ps, stns, f, j)]
    BY <1>3
  <2> DEFINE g == [j \in 0 .. k |-> IF j = k THEN Without(ps, stns, f, k) ELSE f[j]]
  <2>2. ASSUME NEW j \in 0 .. k PROVE g[j] = Without(ps, stns, g, j)
    <3>1. j # 0 => j - 1 \in 0 .. k - 1 /\ g[j - 1] = f[j - 1]
      OBVIOUS
    <3>2. Without(ps, stns, g, j) = Without(ps, stns, f, j)
      BY <3>1 DEF Without
    <3>3. j # k => f[j] = Without(ps, stns, f, j)
      BY <2>1
    <3> QED
      BY <3>2, <3>3
  <2>3. g = [j \in 0 .. k |-> g[j]]
    OBVIOUS
  <2> HIDE DEF g
  <2>4. g = [j \in 0 .. k |-> Without(ps, stns, g, j)]
    BY <2>2, <2>3
  <2> QED
    BY <2>4
<1> HIDE DEF S
<1>4. n \in S
  <2>1. 0 .. n \subseteq S
    BY <1>1, <1>2, <1>3, Induction
  <2> QED
    BY <1>1, <2>1
<1>5. \E f : f = [j \in 0 .. n |-> Without(ps, stns, f, j)]
  BY <1>4 DEF S
<1> QED
  BY <1>1, <1>5 DEF Left

LEMMA DropStationsTypes ==
  ASSUME NEW ps \in Seq(Picks), NEW stns, Len(stns) \in Nat
  PROVE  /\ DropStations(ps, stns) \in Seq(Picks)
         /\ Len(DropStations(ps, stns)) <= Len(ps)
<1> DEFINE n == Len(stns)
           f == Left(ps, stns)
           S == {k \in 0 .. n : f[k] \in Seq(Picks) /\ Len(f[k]) <= Len(ps)}
<1>1. n \in Nat /\ n = Len(stns)
  OBVIOUS
<1> HIDE DEF n
<1>2. DropStations(ps, stns) = f[n]
  BY <1>1 DEF DropStations, Left, Without
<1>3. \A k \in 0 .. n : f[k] = Without(ps, stns, f, k)
  BY <1>1, LeftIs
<1> HIDE DEF f
<1>4. \A k : k \in S <=> k \in 0 .. n /\ f[k] \in Seq(Picks) /\ Len(f[k]) <= Len(ps)
  OBVIOUS
<1> HIDE DEF S
<1>5. 0 \in S
  <2>1. 0 \in 0 .. n /\ f[0] = ps
    BY <1>1, <1>3 DEF Without
  <2> QED
    BY <1>4, <2>1
<1>6. ASSUME NEW k \in 1 .. n, k - 1 \in S PROVE k \in S
  <2>1. f[k - 1] \in Seq(Picks) /\ Len(f[k - 1]) <= Len(ps)
    BY <1>4, <1>6
  <2>2. k \in 0 .. n /\ f[k] = DropStation(f[k - 1], stns[k])
    BY <1>1, <1>3 DEF Without
  <2>3. f[k] \in Seq(Picks) /\ Len(f[k]) <= Len(f[k - 1])
    BY <2>1, <2>2, DropStationTypes
  <2> QED
    BY <1>4, <2>1, <2>2, <2>3
<1>7. n \in S
  <2>1. 0 .. n \subseteq S
    BY <1>1, <1>5, <1>6, Induction
  <2> QED
    BY <1>1, <2>1
<1> QED
  BY <1>2, <1>4, <1>7

LEMMA FitTypes ==
  ASSUME NEW h \in Hypos, NEW s, s.ps \in Seq(Picks), s.good \in BOOLEAN,
         Len(s.ps) <= MaxStations
  PROVE  /\ Fit(h, s) \in Hypos /\ Fit(h, s).nump + Fit(h, s).bad <= MaxStations
<1>1. NumPs(s.ps) \in 0 .. Len(s.ps) /\ Len(s.ps) \in Nat
  BY NumPsBound
<1>2. PICK n \in Nat, m \in Nat : n = NumPs(s.ps) /\ m = Len(s.ps) - NumPs(s.ps)
  BY <1>1
<1>3. Fit(h, s) = [h EXCEPT !.good = s.good, !.nump = n, !.bad = m, !.final = FALSE]
  BY <1>2 DEF Fit
<1>4. n + m <= MaxStations
  BY <1>1, <1>2
<1> QED
  BY <1>3, <1>4 DEF Hypos

LEMMA NewerTypes ==
  ASSUME NEW h \in Hypos
  PROVE  Newer(h) \in Hypos /\ Newer(h).nump = h.nump /\ Newer(h).bad = h.bad
<1>1. PICK v \in 1 .. MaxVersions : Newer(h) = [h EXCEPT !.ver = v]
  <2>1. h.ver \in 1 .. MaxVersions /\ MaxVersions \in Nat
    BY Numbers DEF Hypos
  <2> QED
    BY <2>1 DEF Newer
<1> QED
  BY <1>1 DEF Hypos

(* A buffer of at most n picks and a hypocenter of as many as fit.         *)
Sound(ps, h, n) ==
  /\ ps \in Seq(Picks) /\ Len(ps) <= n
  /\ h \in Hypos /\ h.nump + h.bad <= MaxStations

LEMMA LocationTypes ==
  ASSUME NEW ps, NEW h, Sound(ps, h, Len(ps)), Len(ps) <= MaxStations,
         NEW r \in Locations(ps, h)
  PROVE  Sound(r.ps, r.h, Len(ps))
<1> DEFINE all == Revived(ps)
           Rest(s) == DropStations(s.ps, NewPs(ps, h))
           Done(s) == [ps |-> s.ps, h |-> Newer(Fit(h, s)), ok |-> TRUE]
<1>1. /\ all \in Seq(Picks) /\ Len(all) = Len(ps) /\ Len(ps) \in Nat
      /\ MaxStations \in Nat /\ h \in Hypos
  BY RevivedTypes, Numbers DEF Sound
<1>2. ASSUME NEW qs \in Seq(Picks), Len(qs) <= Len(ps), NEW s \in Solutions(qs)
      PROVE  Sound(s.ps, Fit(h, s), Len(ps)) /\ Sound(Done(s).ps, Done(s).h, Len(ps))
  <2>1. s.ps \in Seq(Picks) /\ Len(s.ps) = Len(qs) /\ s.good \in BOOLEAN
    BY SolutionTypes
  <2>2. Len(s.ps) <= Len(ps) /\ Len(s.ps) <= MaxStations
    BY <1>1, <1>2, <2>1
  <2>3. Fit(h, s) \in Hypos /\ Fit(h, s).nump + Fit(h, s).bad <= MaxStations
    BY <1>1, <2>1, <2>2, FitTypes
  <2>4. /\ Newer(Fit(h, s)) \in Hypos
        /\ Newer(Fit(h, s)).nump = Fit(h, s).nump /\ Newer(Fit(h, s)).bad = Fit(h, s).bad
    BY <2>3, NewerTypes
  <2> QED
    BY <2>1, <2>2, <2>3, <2>4 DEF Sound
<1>3. CASE NumPs(all) < MinPs
  <2>1. r = [ps |-> all, h |-> h, ok |-> FALSE]
    BY <1>3 DEF Locations
  <2> QED
    BY <1>1, <2>1 DEF Sound
<1>4. CASE ~(NumPs(all) < MinPs)
  <2>1. PICK s \in Solutions(all) :
          \/ r = Done(s)
          \/ NumPs(Rest(s)) < MinPs /\ r = [ps |-> Rest(s), h |-> Fit(h, s), ok |-> FALSE]
          \/ \E t \in Solutions(Rest(s)) : r = Done(t)
    BY <1>4 DEF Locations
  <2>2. Rest(s) \in Seq(Picks) /\ Len(Rest(s)) <= Len(ps)
    <3>1. s.ps \in Seq(Picks) /\ Len(s.ps) = Len(ps)
      BY <1>1, SolutionTypes
    <3>2. Len(NewPs(ps, h)) \in Nat
      <4>1. PICK n \in Nat : NewPs(ps, h) = [j \in 1 .. n |-> ps[Len(ps) + 1 - j].stn]
        <5>1. h.nump + h.bad \in Nat
          BY <1>1 DEF Hypos
        <5> QED
          BY <1>1, <5>1 DEF NewPs
      <4> QED
        BY <4>1
    <3> QED
      BY <3>1, <3>2, DropStationsTypes
  <2>3. CASE r = Done(s)
    BY <1>1, <1>2, <2>3
  <2>4. CASE r = [ps |-> Rest(s), h |-> Fit(h, s), ok |-> FALSE]
    <3>1. Sound(s.ps, Fit(h, s), Len(ps))
      BY <1>1, <1>2
    <3> QED
      BY <2>2, <2>4, <3>1 DEF Sound
  <2>5. CASE \E t \in Solutions(Rest(s)) : r = Done(t)
    BY <1>2, <2>2, <2>5
  <2> QED
    BY <2>1, <2>3, <2>4, <2>5
<1> QED
  BY <1>3, <1>4

(* The outcomes of LocateQuake for a buffer.                               *)
LEMMA OutcomeTypes ==
  ASSUME TypeOK, NEW b \in Buffers, NEW iLoc, NEW r \in Outcomes(b, iLoc)
  PROVE  Sound(r.ps, r.h, Len(buf[b])) /\ r.rc \in 0 .. NumPBuffs
<1> DEFINE fits == IF iLoc THEN Locations(buf[b], hypo[b]) ELSE MagsOnly(buf[b], hypo[b])
<1>1. Sound(buf[b], hypo[b], Len(buf[b])) /\ Len(buf[b]) <= MaxStations
  BY DEF TypeOK, Sound
<1>2. ASSUME NEW s \in fits PROVE Sound(s.ps, s.h, Len(buf[b]))
  <2>1. CASE iLoc
    BY <1>1, <1>2, <2>1, LocationTypes
  <2>2. CASE ~iLoc
    BY <1>1, <1>2, <2>2 DEF MagsOnly
  <2> QED
    BY <2>1, <2>2
<1>3. PICK s \in fits, c \in 0 .. NumPBuffs :
        \/ r = [ps |-> s.ps, h |-> s.h, rc |-> c]
        \/ r = [ps |-> s.ps, h |-> [s.h EXCEPT !.good = FALSE], rc |-> c]
  <2> HIDE DEF fits
  <2>0. 0 \in 0 .. NumPBuffs /\ Buffers \subseteq 0 .. NumPBuffs
    BY Numbers DEF Buffers
  <2>1. CASE \E s \in fits : r = [ps |-> s.ps, h |-> s.h, rc |-> 0]
    BY <2>0, <2>1
  <2>2. CASE \E s \in fits : \E c \in Buffers : \E h \in {s.h, [s.h EXCEPT !.good = FALSE]} :
               r = [ps |-> s.ps, h |-> h, rc |-> c]
    BY <2>0, <2>2
  <2> QED
    BY <2>1, <2>2 DEF Outcomes, fits
<1> HIDE DEF fits
<1>4. Sound(s.ps, s.h, Len(buf[b]))
  BY <1>2
<1>5. Sound(s.ps, [s.h EXCEPT !.good = FALSE], Len(buf[b]))
  <2>1. [s.h EXCEPT !.good = FALSE] \in Hypos
    BY <1>4 DEF Sound, Hypos
  <2>2. /\ [s.h EXCEPT !.good = FALSE].nump = s.h.nump
        /\ [s.h EXCEPT !.good = FALSE].bad = s.h.bad
    BY <1>4 DEF Sound, Hypos
  <2> QED
    BY <1>4, <2>1, <2>2 DEF Sound
<1>6. CASE r = [ps |-> s.ps, h |-> s.h, rc |-> c]
  BY <1>4, <1>6
<1>7. CASE r = [ps |-> s.ps, h |-> [s.h EXCEPT !.good = FALSE], rc |-> c]
  <2>1. PICK h : h = [s.h EXCEPT !.good = FALSE]
    OBVIOUS
  <2>2. r = [ps |-> s.ps, h |-> h, rc |-> c]
    BY <1>7, <2>1
  <2>3. Sound(s.ps, h, Len(buf[b]))
    BY <1>5, <2>1
  <2> QED
    BY <2>2, <2>3
<1> QED
  BY <1>3, <1>6, <1>7

-----------------------------------------------------------------------------
(* Indices.                                                                *)

LEMMA NamedIs ==
  ASSUME NEW q, Named(q) # {}
  PROVE  Min(Named(q)) \in Named(q) /\ Named(q) \subseteq Buffers
<1>1. Named(q) \in SUBSET Nat /\ Named(q) \subseteq Buffers
  BY Numbers DEF Named, Buffers
<1> QED
  BY <1>1, MinOf

LEMMA PlaceOfIs ==
  ASSUME TypeOK, NEW b \in Buffers, NEW stn, Has(b, stn)
  PROVE  PlaceOf(b, stn) \in DOMAIN buf[b]
<1>1. {i \in DOMAIN buf[b] : buf[b][i].stn = stn} \in SUBSET Nat
  BY DEF TypeOK
<1> QED
  BY <1>1, MinOf DEF PlaceOf, Has

LEMMA FirstEmptyIs ==
  ASSUME NEW b \in Buffers, Empty # {}
  PROVE  FirstEmpty(b) \in Empty /\ Empty \subseteq Buffers
<1> DEFINE D(c) == (c - b + NumPBuffs) % NumPBuffs
           S == {D(c) : c \in Empty}
<1>1. Empty \subseteq Buffers
  BY DEF Empty
<1>2. \A c \in Empty : D(c) \in Nat
  BY <1>1, Numbers DEF Buffers
<1>3. PICK m \in S : \A n \in S : m <= n
  <2>1. S \in SUBSET Nat /\ S # {}
    BY <1>2
  <2> QED
    BY <2>1, LeastOf
<1>4. \E c \in Empty : \A d \in Empty : D(c) <= D(d)
  BY <1>3
<1>5. FirstEmpty(b) = CHOOSE c \in Empty : \A d \in Empty : D(c) <= D(d)
  BY DEF FirstEmpty
<1> HIDE DEF D
<1> QED
  BY <1>1, <1>4, <1>5

LEMMA OldestIs ==
  ASSUME TypeOK, NEW E \in SUBSET Buffers
  PROVE  Oldest(E) \in Buffers
<1> DEFINE stns == {p.stn : p \in {p \in UNION {Range(buf[b]) : b \in E} : p.timed}}
           O == {b \in E : \E p \in Range(buf[b]) : p.timed /\ p.stn = Min(stns)}
<1>1. Oldest(E) = IF stns = {} THEN 1 ELSE Min(O)
  BY DEF Oldest
<1>2. 1 \in Buffers /\ Buffers \subseteq Nat
  BY Numbers DEF Buffers
<1>3. stns \in SUBSET Nat
  <2>1. \A b \in E : Range(buf[b]) \subseteq Picks
    BY DEF TypeOK, Range
  <2>2. \A p \in Picks : p.stn \in Nat
    BY LocateAssumption DEF Picks
  <2> QED
    BY <2>1, <2>2
<1>4. ASSUME stns # {} PROVE Min(O) \in Buffers
  <2>1. Min(stns) \in stns
    BY <1>3, <1>4, MinOf
  <2>2. O # {} /\ O \in SUBSET Nat
    BY <1>2, <2>1
  <2>3. Min(O) \in O
    BY <2>2, MinOf
  <2> QED
    BY <2>3
<1> HIDE DEF O, stns
<1> QED
  BY <1>1, <1>2, <1>4

LEMMA NextIdTypes ==
  ASSUME NEW i \in 0 .. MaxIds - 1
  PROVE  NextId(i) \in 0 .. MaxIds - 1
  BY Numbers DEF NextId

-----------------------------------------------------------------------------
(* The steps the actions are made of.                                      *)

(* The conjuncts of TypeOK about the buffers and the quakes.               *)
BufsOK ==
  /\ buf \in [Buffers -> Seq(Picks)]
  /\ \A b \in Buffers : Len(buf[b]) <= MaxStations

HyposOK ==
  /\ hypo \in [Buffers -> Hypos]
  /\ \A b \in Buffers : hypo[b].nump + hypo[b].bad <= MaxStations

OthersOK ==
  /\ id \in [Buffers -> 0 .. MaxIds - 1]
  /\ last \in [Buffers -> -1 .. MaxStations]
  /\ removed \in [Buffers -> SUBSET Stations]
  /\ due \subseteq Buffers

LEMMA Parts ==
  /\ TypeOK <=> /\ BufsOK /\ HyposOK /\ OthersOK
                /\ active \in Buffers /\ loc \in Locator
                /\ known \subseteq 0 .. MaxIds - 1
                /\ msgs \in [all : 0 .. MaxMsgs, asked : 0 .. MaxAsked]
  BY DEF TypeOK, BufsOK, HyposOK, OthersOK

LEMMA Replaced ==
  ASSUME TypeOK, NEW b \in Buffers, NEW ps \in Seq(Picks), Len(ps) <= MaxStations,
         buf' = [buf EXCEPT ![b] = ps]
  PROVE  BufsOK'
<1>1. buf \in [Buffers -> Seq(Picks)] /\ \A c \in Buffers : Len(buf[c]) <= MaxStations
  BY DEF TypeOK
<1>2. \A c \in Buffers : buf'[c] = IF c = b THEN ps ELSE buf[c]
  BY <1>1
<1>3. buf' \in [Buffers -> Seq(Picks)]
  BY <1>1
<1> QED
  BY <1>1, <1>2, <1>3 DEF BufsOK, Buffers

LEMMA Appended ==
  ASSUME TypeOK, NEW b \in Buffers, NEW p \in Picks, AppendIfRoom(b, p)
  PROVE  BufsOK'
<1>1. CASE Room(b)
  <2>1. buf[b] \in Seq(Picks) /\ Len(buf[b]) < MaxStations
    BY <1>1 DEF TypeOK, Room
  <2>2. Append(buf[b], p) \in Seq(Picks) /\ Len(Append(buf[b], p)) = Len(buf[b]) + 1
    BY <2>1
  <2>3. Len(Append(buf[b], p)) <= MaxStations
    BY <2>1, <2>2, Numbers
  <2>4. buf' = [buf EXCEPT ![b] = Append(buf[b], p)]
    BY <1>1 DEF AppendIfRoom
  <2> QED
    BY <2>2, <2>3, <2>4, Replaced
<1>2. CASE ~Room(b)
  BY <1>2 DEF AppendIfRoom, TypeOK, BufsOK, Buffers
<1> QED
  BY <1>1, <1>2

LEMMA RemovedTypes ==
  ASSUME NEW ps \in Seq(Picks), NEW i \in DOMAIN ps
  PROVE  RemoveP(ps, i) \in Seq(Picks) /\ Len(RemoveP(ps, i)) <= Len(ps)
  BY DEF RemoveP, RemoveAt

LEMMA RemovedP ==
  ASSUME TypeOK, NEW b \in Buffers, NEW i \in DOMAIN buf[b],
         buf' = [buf EXCEPT ![b] = RemoveP(@, i)]
  PROVE  BufsOK'
<1>1. buf[b] \in Seq(Picks) /\ Len(buf[b]) <= MaxStations
  BY DEF TypeOK
<1>2. RemoveP(buf[b], i) \in Seq(Picks) /\ Len(RemoveP(buf[b], i)) <= Len(buf[b])
  BY <1>1, RemovedTypes
<1>3. buf' = [buf EXCEPT ![b] = RemoveP(buf[b], i)] /\ Len(RemoveP(buf[b], i)) <= MaxStations
  BY <1>1, <1>2, Numbers
<1> QED
  BY <1>2, <1>3, Replaced

LEMMA InPlace ==
  ASSUME TypeOK, NEW b \in Buffers, NEW i \in DOMAIN buf[b], NEW p \in Picks,
         buf' = [buf EXCEPT ![b][i] = p]
  PROVE  BufsOK'
<1>1. buf[b] \in Seq(Picks) /\ Len(buf[b]) <= MaxStations
  BY DEF TypeOK
<1>2. [buf[b] EXCEPT ![i] = p] \in Seq(Picks) /\ Len([buf[b] EXCEPT ![i] = p]) = Len(buf[b])
  BY <1>1
<1>3. buf' = [buf EXCEPT ![b] = [buf[b] EXCEPT ![i] = p]]
  OBVIOUS
<1> QED
  BY <1>1, <1>2, <1>3, Replaced

LEMMA Moved ==
  ASSUME TypeOK, NEW b \in Buffers, NEW c \in Buffers, b # c, Room(c),
         NEW i \in DOMAIN buf[b], Move(b, i, c)
  PROVE  BufsOK'
<1>1. /\ buf \in [Buffers -> Seq(Picks)] /\ \A d \in Buffers : Len(buf[d]) <= MaxStations
      /\ buf[b] \in Seq(Picks) /\ buf[b][i] \in Picks /\ buf[c] \in Seq(Picks)
  BY DEF TypeOK
<1>2. Append(buf[c], buf[b][i]) \in Seq(Picks)
  BY <1>1
<1>3. Len(Append(buf[c], buf[b][i])) <= MaxStations
  BY <1>1, Numbers DEF Room
<1>4. RemoveP(buf[b], i) \in Seq(Picks) /\ Len(RemoveP(buf[b], i)) <= Len(buf[b])
  BY <1>1, RemovedTypes
<1>5. buf' = [buf EXCEPT ![c] = Append(buf[c], buf[b][i]), ![b] = RemoveP(buf[b], i)]
  BY DEF Move
<1>6. \A d \in Buffers : buf'[d] = IF d = b THEN RemoveP(buf[b], i)
                                  ELSE IF d = c THEN Append(buf[c], buf[b][i]) ELSE buf[d]
  BY <1>1, <1>5
<1>7. buf' \in [Buffers -> Seq(Picks)]
  BY <1>1, <1>2, <1>4, <1>5
<1>8. Len(RemoveP(buf[b], i)) <= MaxStations
  BY <1>1, <1>4, Numbers
<1> QED
  BY <1>1, <1>3, <1>6, <1>7, <1>8 DEF BufsOK, Buffers

LEMMA Relocated ==
  ASSUME TypeOK, NEW b \in Buffers, NEW iLoc, NEW r \in Outcomes(b, iLoc), LocateQuake(b, r)
  PROVE  /\ BufsOK' /\ HyposOK' /\ (known \subseteq 0 .. MaxIds - 1)'
         /\ r.rc \in 0 .. NumPBuffs
<1>1. Sound(r.ps, r.h, Len(buf[b])) /\ r.rc \in 0 .. NumPBuffs
  BY OutcomeTypes
<1>2. BufsOK'
  <2>1. Len(buf[b]) \in Nat /\ Len(buf[b]) <= MaxStations
    BY DEF TypeOK
  <2>2. r.ps \in Seq(Picks) /\ Len(r.ps) <= MaxStations
    BY <1>1, <2>1, Numbers DEF Sound
  <2> QED
    BY <2>2, Replaced DEF LocateQuake
<1>3. HyposOK'
  <2>1. hypo \in [Buffers -> Hypos] /\ hypo' = [hypo EXCEPT ![b] = r.h] /\ r.h \in Hypos
    BY <1>1 DEF TypeOK, LocateQuake, Sound
  <2>2. \A c \in Buffers : hypo'[c] = IF c = b THEN r.h ELSE hypo[c]
    BY <2>1
  <2>3. hypo' \in [Buffers -> Hypos]
    BY <2>1
  <2>4. \A c \in Buffers : hypo'[c].nump + hypo'[c].bad <= MaxStations
    BY <1>1, <2>2 DEF TypeOK, Sound
  <2> QED
    BY <2>3, <2>4 DEF HyposOK, Buffers
<1>4. known' \subseteq 0 .. MaxIds - 1
  <2>1. id[b] \in 0 .. MaxIds - 1
    BY DEF TypeOK
  <2> QED
    BY <2>1 DEF LocateQuake, TypeOK
<1> QED
  BY <1>1, <1>2, <1>3, <1>4

LEMMA InitHypoTypes ==
  InitHypo \in Hypos /\ InitHypo.nump + InitHypo.bad <= MaxStations
  BY Numbers DEF InitHypo, Hypos

LEMMA Recycled ==
  ASSUME TypeOK, NEW b \in Buffers, NEW ps \in Seq(Picks), Len(ps) <= MaxStations,
         Recycle(b, ps)
  PROVE  BufsOK' /\ HyposOK' /\ OthersOK'
<1>1. BufsOK'
  BY Replaced DEF Recycle
<1>2. HyposOK'
  <2>1. hypo \in [Buffers -> Hypos] /\ hypo' = [hypo EXCEPT ![b] = InitHypo]
    BY DEF TypeOK, Recycle
  <2>2. \A c \in Buffers : hypo'[c] = IF c = b THEN InitHypo ELSE hypo[c]
    BY <2>1
  <2>3. hypo' \in [Buffers -> Hypos]
    BY <2>1, InitHypoTypes
  <2>4. \A c \in Buffers : hypo'[c].nump + hypo'[c].bad <= MaxStations
    BY <2>2, InitHypoTypes DEF TypeOK
  <2> QED
    BY <2>3, <2>4 DEF HyposOK, Buffers
<1>3. OthersOK'
  <2>1. NextId(id[b]) \in 0 .. MaxIds - 1
    BY NextIdTypes DEF TypeOK
  <2>2. id' \in [Buffers -> 0 .. MaxIds - 1]
    BY <2>1 DEF Recycle, TypeOK
  <2>3. last' \in [Buffers -> -1 .. MaxStations]
    BY Numbers DEF Recycle, TypeOK
  <2>4. removed' \in [Buffers -> SUBSET Stations] /\ due' \subseteq Buffers
    BY DEF Recycle, TypeOK
  <2> QED
    BY <2>2, <2>3, <2>4 DEF OthersOK, Buffers
<1> QED
  BY <1>1, <1>2, <1>3

(* An analyst's change makes the next look at the buffer locate.           *)
LEMMA Marked ==
  ASSUME TypeOK, NEW b \in Buffers,
         last' = last \/ last' = [last EXCEPT ![b] = -1],
         due' \subseteq due \cup {b}, UNCHANGED <<id, removed>>
  PROVE  OthersOK'
<1>1. last' \in [Buffers -> -1 .. MaxStations]
  <2>1. -1 \in -1 .. MaxStations /\ last \in [Buffers -> -1 .. MaxStations]
    BY Numbers DEF TypeOK
  <2>2. CASE last' = last
    BY <2>1, <2>2
  <2>3. CASE last' = [last EXCEPT ![b] = -1]
    BY <2>1, <2>3
  <2> QED
    BY <2>2, <2>3
<1> QED
  BY <1>1 DEF TypeOK, OthersOK, Buffers

(* What never changes with a message.                                      *)
LEMMA Kept ==
  ASSUME TypeOK, UNCHANGED <<id, last, removed, due>>
  PROVE  OthersOK'
  BY DEF TypeOK, OthersOK, Buffers

LEMMA HyposKept == ASSUME TypeOK, UNCHANGED hypo PROVE HyposOK'
  BY DEF TypeOK, HyposOK, Buffers

LEMMA BufsKept == ASSUME TypeOK, UNCHANGED buf PROVE BufsOK'
  BY DEF TypeOK, BufsOK, Buffers

-----------------------------------------------------------------------------
(* The main thread.                                                        *)

MainOK == BufsOK /\ HyposOK /\ OthersOK /\ active \in Buffers /\ known \subseteq 0 .. MaxIds - 1

LEMMA ForceTypes == ASSUME TypeOK, NEW q, ForceLocation(q) PROVE MainOK'
<1>1. CASE Named(q) = {}
  <2>1. UNCHANGED <<buf, hypo, known, active, due, id, last, removed>>
    BY <1>1 DEF ForceLocation
  <2> QED
    BY <2>1, BufsKept, HyposKept, Kept DEF TypeOK, MainOK, Buffers
<1>2. CASE Named(q) # {}
  <2>1. PICK b \in Buffers : b = Min(Named(q))
    BY <1>2, NamedIs
  <2>2. PICK r \in Outcomes(b, TRUE) :
          /\ LocateQuake(b, r)
          /\ active' = IF r.rc > 0 /\ r.h.good THEN r.rc ELSE active
          /\ due' = due \ {b}
    BY <1>2, <2>1 DEF ForceLocation
  <2>3. BufsOK' /\ HyposOK' /\ (known \subseteq 0 .. MaxIds - 1)' /\ r.rc \in 0 .. NumPBuffs
    BY <2>2, Relocated
  <2>4. active' \in Buffers
    BY <2>2, <2>3, Numbers DEF TypeOK, Buffers
  <2>5. OthersOK'
    BY <1>2, <2>2, Marked DEF ForceLocation
  <2> QED
    BY <2>3, <2>4, <2>5 DEF MainOK, Buffers
<1> QED
  BY <1>1, <1>2

LEMMA DeleteTypes == ASSUME TypeOK, NEW q, NEW stn, Delete(q, stn) PROVE MainOK'
<1>1. UNCHANGED <<hypo, id, removed, active, known>>
  BY DEF Delete
<1>2. PICK b \in Buffers : b = Min(Named(q))
  BY NamedIs DEF Delete, Named
<1>3. CASE Has(b, stn)
  <2>1. /\ buf' = [buf EXCEPT ![b] = RemoveP(@, PlaceOf(b, stn))]
        /\ last' = [last EXCEPT ![b] = -1] /\ due' = due \cup {b}
    BY <1>2, <1>3 DEF Delete
  <2>2. BufsOK'
    BY <1>3, <2>1, PlaceOfIs, RemovedP
  <2>3. OthersOK'
    BY <1>1, <2>1, Marked
  <2> QED
    BY <1>1, <2>2, <2>3, HyposKept DEF TypeOK, MainOK, Buffers
<1>4. CASE ~Has(b, stn)
  <2>1. UNCHANGED <<buf, last, due>>
    BY <1>2, <1>4 DEF Delete
  <2> QED
    BY <1>1, <2>1, BufsKept, HyposKept, Kept DEF TypeOK, MainOK, Buffers
<1> QED
  BY <1>3, <1>4

LEMMA AmplitudeTypes ==
  ASSUME TypeOK, NEW q, NEW stn \in Stations, Amplitude(q, stn) PROVE MainOK'
<1>1. UNCHANGED <<id, last, removed, active, due>>
  BY DEF Amplitude
<1>2. PICK b \in Buffers : b = Min(Named(q))
  BY NamedIs DEF Amplitude
<1>3. CASE Has(b, stn)
  <2>1. PICK r \in Outcomes(b, FALSE) : LocateQuake(b, r)
    BY <1>2, <1>3 DEF Amplitude
  <2>2. BufsOK' /\ HyposOK' /\ (known \subseteq 0 .. MaxIds - 1)'
    BY <2>1, Relocated
  <2> QED
    BY <1>1, <2>2, Kept DEF TypeOK, MainOK, Buffers
<1>4. CASE ~Has(b, stn)
  <2>1. /\ AppendIfRoom(b, [stn |-> stn, timed |-> FALSE, use |-> 1])
        /\ UNCHANGED <<hypo, known>>
    BY <1>2, <1>4 DEF Amplitude
  <2>2. [stn |-> stn, timed |-> FALSE, use |-> 1] \in Picks
    BY DEF Picks
  <2> QED
    BY <1>1, <2>1, <2>2, Appended, HyposKept, Kept DEF TypeOK, MainOK, Buffers
<1> QED
  BY <1>3, <1>4

LEMMA NamedPickTypes ==
  ASSUME TypeOK, NEW p \in Picks, NEW q, NamedPick(p, q) PROVE MainOK'
<1>1. UNCHANGED <<hypo, id, removed, active, known>>
  BY DEF NamedPick
<1>2. PICK b \in Buffers : b = Min(Named(q))
  BY NamedIs DEF NamedPick
<1>3. CASE Has(b, p.stn)
  <2>1. /\ buf' = [buf EXCEPT ![b][PlaceOf(b, p.stn)] = p]
        /\ last' = [last EXCEPT ![b] = -1] /\ due' = due \cup {b}
    BY <1>2, <1>3 DEF NamedPick
  <2>2. BufsOK'
    BY <1>3, <2>1, PlaceOfIs, InPlace
  <2>3. OthersOK'
    BY <1>1, <2>1, Marked
  <2> QED
    BY <1>1, <2>2, <2>3, HyposKept DEF TypeOK, MainOK, Buffers
<1>4. CASE ~Has(b, p.stn)
  <2>1. AppendIfRoom(b, p) /\ UNCHANGED <<last, due>>
    BY <1>2, <1>4 DEF NamedPick
  <2> QED
    BY <1>1, <2>1, Appended, HyposKept, Kept DEF TypeOK, MainOK, Buffers
<1> QED
  BY <1>3, <1>4

LEMMA RepeatedTypes == ASSUME TypeOK, NEW p \in Picks, RepeatedPick(p) PROVE MainOK'
<1>1. UNCHANGED <<hypo, id, removed, active, known>>
  BY DEF RepeatedPick
<1>2. PICK b \in Buffers : /\ b = Min(Holding(p.stn))
                           /\ \E s \in Range(buf[b]) : s.timed /\ s.stn = p.stn
  <2>1. Holding(p.stn) \in SUBSET Nat /\ Holding(p.stn) # {} /\ Holding(p.stn) \subseteq Buffers
    BY Numbers DEF RepeatedPick, Holding, Buffers
  <2>2. Min(Holding(p.stn)) \in Holding(p.stn)
    BY <2>1, MinOf
  <2> QED
    BY <2>1, <2>2 DEF Holding
<1>3. PICK i \in DOMAIN buf[b] : i = PlaceOfP(b, p.stn)
  <2> DEFINE I == {i \in DOMAIN buf[b] : buf[b][i].timed /\ buf[b][i].stn = p.stn}
  <2>1. I \in SUBSET Nat /\ I # {}
    BY <1>2 DEF TypeOK, Range
  <2>2. Min(I) \in I
    BY <2>1, MinOf
  <2> QED
    BY <2>2 DEF PlaceOfP
<1>4. \/ UNCHANGED <<buf, last, due>>
      \/ /\ buf' = [buf EXCEPT ![b][i] = p]
         /\ last' = last \/ last' = [last EXCEPT ![b] = -1]
         /\ due' \subseteq due \cup {b}
  BY <1>2, <1>3 DEF RepeatedPick
<1>5. CASE UNCHANGED <<buf, last, due>>
  BY <1>1, <1>5, BufsKept, HyposKept, Kept DEF TypeOK, MainOK, Buffers
<1>6. CASE /\ buf' = [buf EXCEPT ![b][i] = p]
           /\ last' = last \/ last' = [last EXCEPT ![b] = -1]
           /\ due' \subseteq due \cup {b}
  <2>1. BufsOK'
    BY <1>6, InPlace
  <2>2. OthersOK'
    BY <1>1, <1>6, Marked
  <2> QED
    BY <1>1, <2>1, <2>2, HyposKept DEF TypeOK, MainOK, Buffers
<1> QED
  BY <1>4, <1>5, <1>6

LEMMA LoadTypes == ASSUME TypeOK, NEW p \in Picks, LoadUpPBuff(p) PROVE MainOK'
<1>1. CASE RepeatedPick(p)
  BY <1>1, RepeatedTypes
<1>2. CASE Joins(p)
  <2>1. PICK b \in Buffers : AppendIfRoom(b, p)
    <3>1. PICK n \in 0 .. NumPBuffs - 1 : AppendIfRoom(FromActive(n), p)
      BY <1>2 DEF Joins
    <3>2. FromActive(n) \in Buffers
      BY Numbers DEF FromActive, TypeOK, Buffers
    <3> QED
      BY <3>1, <3>2
  <2>2. UNCHANGED <<hypo, id, last, removed, active, known, due>>
    BY <1>2 DEF Joins
  <2> QED
    BY <2>1, <2>2, Appended, HyposKept, Kept DEF TypeOK, MainOK, Buffers
<1>3. CASE Dropped(p)
  <2>1. UNCHANGED <<buf, hypo, id, last, removed, active, known, due>>
    BY <1>3 DEF Dropped
  <2> QED
    BY <2>1, BufsKept, HyposKept, Kept DEF TypeOK, MainOK, Buffers
<1>4. CASE Gathers(p)
  <2>1. PICK b \in Buffers : AppendIfRoom(b, p)
    BY <1>4 DEF Gathers
  <2>2. UNCHANGED <<hypo, id, last, removed, active, known, due>>
    BY <1>4 DEF Gathers
  <2> QED
    BY <2>1, <2>2, Appended, HyposKept, Kept DEF TypeOK, MainOK, Buffers
<1>5. CASE Starts(p)
  <2>1. UNCHANGED <<active, known>>
    BY <1>5 DEF Starts
  <2>2. <<p>> \in Seq(Picks) /\ Len(<<p>>) <= MaxStations
    <3>1. Len(<<p>>) = 1
      OBVIOUS
    <3> QED
      BY <3>1, Numbers
  <2>3. CASE /\ Empty # {} /\ buf' = [buf EXCEPT ![FirstEmpty(active)] = <<p>>]
             /\ UNCHANGED <<hypo, id, last, removed, due>>
    <3>1. FirstEmpty(active) \in Buffers
      BY <2>3, FirstEmptyIs DEF TypeOK
    <3> QED
      BY <2>1, <2>2, <2>3, <3>1, Replaced, HyposKept, Kept DEF TypeOK, MainOK, Buffers
  <2>4. CASE \E E \in Recyclable : Recycle(Oldest(E), <<p>>)
    <3>1. PICK E \in SUBSET Buffers : Recycle(Oldest(E), <<p>>)
      BY <2>4 DEF Recyclable
    <3>2. Oldest(E) \in Buffers
      BY OldestIs
    <3> QED
      BY <2>1, <2>2, <3>1, <3>2, Recycled DEF TypeOK, MainOK, Buffers
  <2> QED
    BY <1>5, <2>3, <2>4 DEF Starts
<1> QED
  BY <1>1, <1>2, <1>3, <1>4, <1>5 DEF LoadUpPBuff

LEMMA MainTypes == ASSUME TypeOK, Main PROVE TypeOK'
<1>1. \A stn \in Stations, use \in {0, 1, 2} : [stn |-> stn, timed |-> TRUE, use |-> use] \in Picks
  BY DEF Picks
<1>2. /\ \E asked \in {0, 1} : Message(asked)
      /\ MainOK'
  <2>1. CASE /\ Message(0)
             /\ \E stn \in Stations, use \in KOs :
                  LoadUpPBuff([stn |-> stn, timed |-> TRUE, use |-> use])
    <3>1. PICK stn \in Stations, use \in {0, 1, 2} :
            LoadUpPBuff([stn |-> stn, timed |-> TRUE, use |-> use])
      BY <2>1, BuffersAssumption
    <3> QED
      BY <1>1, <2>1, <3>1, LoadTypes
  <2>2. CASE /\ Message(1)
             /\ \E q \in known \ {0}, stn \in Stations :
                  \/ ManualPick([stn |-> stn, timed |-> TRUE, use |-> 2], q)
                  \/ Delete(q, stn)
    <3>1. PICK q \in known, stn \in Stations :
            \/ ManualPick([stn |-> stn, timed |-> TRUE, use |-> 2], q)
            \/ Delete(q, stn)
      BY <2>2
    <3>2. [stn |-> stn, timed |-> TRUE, use |-> 2] \in Picks
      BY DEF Picks
    <3> QED
      BY <2>2, <3>1, <3>2, DeleteTypes, LoadTypes, NamedPickTypes DEF ManualPick
  <2>3. CASE Message(1) /\ \E q \in known \ {0} : ForceLocation(q)
    BY <2>3, ForceTypes
  <2>4. CASE Message(1) /\ \E q \in known, stn \in Stations : Amplitude(q, stn)
    BY <2>4, AmplitudeTypes
  <2> QED
    BY <2>1, <2>2, <2>3, <2>4 DEF Main
<1>3. msgs' \in [all : 0 .. MaxMsgs, asked : 0 .. MaxAsked]
  <2>1. PICK asked \in {0, 1} : Message(asked)
    BY <1>2
  <2>2. /\ msgs.all \in 0 .. MaxMsgs /\ msgs.asked \in 0 .. MaxAsked
        /\ MaxMsgs \in Nat /\ MaxAsked \in Nat
    BY BuffersAssumption DEF TypeOK
  <2>3. msgs.all + 1 \in 0 .. MaxMsgs /\ msgs.asked + asked \in 0 .. MaxAsked
    BY <2>1, <2>2 DEF Message
  <2> QED
    BY <2>1, <2>3 DEF Message
<1>4. UNCHANGED loc
  BY DEF Main, LoadUpPBuff, RepeatedPick, Joins, Dropped, Gathers, Starts, ManualPick,
         NamedPick, Delete, ForceLocation, Amplitude
<1>5. loc' \in Locator
  BY <1>4 DEF TypeOK, Locator, Buffers
<1> QED
  BY <1>2, <1>3, <1>5 DEF MainOK, TypeOK, BufsOK, HyposOK, OthersOK

-----------------------------------------------------------------------------
(* LocateThread.                                                           *)

LEMMA IdleTypes ==
  /\ Idle \in Locator
  /\ \A b \in Buffers : [Idle EXCEPT !.b = b] \in Locator
  /\ \A b \in Buffers : [Idle EXCEPT !.pc = "final", !.b = b] \in Locator
  /\ [Idle EXCEPT !.pc = "scan"] \in Locator
<1>1. 1 \in Buffers /\ 0 \in 0 .. NumPBuffs /\ 1 \in 1 .. MaxStations + 1
  BY Numbers DEF Buffers
<1> QED
  BY <1>1 DEF Idle, Locator

LEMMA PassedTypes == ASSUME TypeOK PROVE Passed \in Locator
<1>1. loc.b \in Buffers
  BY DEF TypeOK, Locator
<1>2. loc.b < NumPBuffs => loc.b + 1 \in Buffers
  BY <1>1, Numbers DEF Buffers
<1> QED
  BY <1>2, IdleTypes DEF Passed

LEMMA ThreadTypes == ASSUME TypeOK, LocateThread PROVE TypeOK'
<1> USE Parts
<1>0. loc \in Locator /\ loc.b \in Buffers
  BY DEF TypeOK, Locator
<1>1. CASE Look
  <2>1. UNCHANGED <<buf, hypo, id, last, removed, active, known, msgs, due>>
    BY <1>1 DEF Look
  <2>2. loc' \in Locator
    <3>1. PICK iFinal \in BOOLEAN : loc' = Passed \/ loc' = [loc EXCEPT !.pc = "lock", !.iFinal = iFinal]
      BY <1>1 DEF Look
    <3> QED
      BY <1>0, <3>1, PassedTypes DEF Locator
  <2> QED
    BY <2>1, <2>2 DEF TypeOK, Buffers, Locator
<1>2. CASE Locate
  <2>0. PICK iLoc \in BOOLEAN : \E r \in Outcomes(loc.b, iLoc) :
          /\ LocateQuake(loc.b, r)
          /\ last' = [last EXCEPT ![loc.b] = Len(buf[loc.b])]
          /\ due' = due \ {loc.b}
          /\ loc' = [loc EXCEPT !.iLoc = iLoc, !.iRC = r.rc,
                       !.pc = IF r.rc = 0 \/ loc.iFinal THEN "release"
                              ELSE IF Len(r.ps) > MinPs + 1 THEN "misfit"
                              ELSE "scavenge"]
    BY <1>2 DEF Locate, MayLocate
  <2>1. PICK r \in Outcomes(loc.b, iLoc) :
          /\ LocateQuake(loc.b, r)
          /\ last' = [last EXCEPT ![loc.b] = Len(buf[loc.b])]
          /\ due' = due \ {loc.b}
          /\ loc' = [loc EXCEPT !.iLoc = iLoc, !.iRC = r.rc,
                       !.pc = IF r.rc = 0 \/ loc.iFinal THEN "release"
                              ELSE IF Len(r.ps) > MinPs + 1 THEN "misfit"
                              ELSE "scavenge"]
    BY <2>0
  <2>2. BufsOK' /\ HyposOK' /\ (known \subseteq 0 .. MaxIds - 1)' /\ r.rc \in 0 .. NumPBuffs
    BY <1>0, <2>1, Relocated
  <2>3. loc' \in Locator
    <3>1. PICK pc \in {"release", "misfit", "scavenge"} :
            loc' = [loc EXCEPT !.iLoc = iLoc, !.iRC = r.rc, !.pc = pc]
      BY <2>1
    <3> QED
      BY <1>0, <2>2, <3>1 DEF Locator
  <2>4. UNCHANGED <<id, removed, active, msgs>>
    BY <1>2 DEF Locate
  <2>5. last' \in [Buffers -> -1 .. MaxStations]
    <3>1. Len(buf[loc.b]) \in 0 .. MaxStations
      BY <1>0, Numbers DEF TypeOK
    <3>2. PICK n \in -1 .. MaxStations : n = Len(buf[loc.b])
      BY <3>1, Numbers
    <3>3. last' = [last EXCEPT ![loc.b] = n] /\ last \in [Buffers -> -1 .. MaxStations]
      BY <2>1, <3>2 DEF TypeOK
    <3> QED
      BY <3>3
  <2>6. OthersOK'
    BY <2>1, <2>4, <2>5 DEF TypeOK, OthersOK, Buffers
  <2> QED
    BY <2>2, <2>3, <2>4, <2>6 DEF TypeOK, BufsOK, HyposOK, OthersOK, Buffers, Locator
<1>3. CASE RemoveMisfits
  <2>1. PICK i \in loc.k .. Len(buf[loc.b]) :
          /\ Barring(loc.b, i) \/ Misfit(loc.b, i)
          /\ loc' = [loc EXCEPT !.k = i]
    BY <1>3 DEF RemoveMisfits
  <2>2. i \in DOMAIN buf[loc.b] /\ i \in 1 .. MaxStations + 1
    <3>1. buf[loc.b] \in Seq(Picks) /\ Len(buf[loc.b]) <= MaxStations
      BY <1>0 DEF TypeOK
    <3>2. loc.k \in 1 .. MaxStations + 1
      BY <1>0 DEF Locator
    <3>3. Len(buf[loc.b]) \in Nat /\ DOMAIN buf[loc.b] = 1 .. Len(buf[loc.b])
      BY <3>1
    <3> QED
      BY <2>1, <3>1, <3>2, <3>3, Numbers
  <2>3. loc' \in Locator
    BY <1>0, <2>1, <2>2 DEF Locator
  <2>4. UNCHANGED <<hypo, id, last, active, known, msgs, due>>
    BY <1>3 DEF RemoveMisfits
  <2>5. BufsOK' /\ removed' \in [Buffers -> SUBSET Stations]
    <3>1. CASE Barring(loc.b, i)
      <4>1. BufsOK'
        BY <1>0, <2>2, <3>1, RemovedP DEF Barring
      <4>2. buf[loc.b][i].stn \in Stations
        <5>1. buf[loc.b] \in Seq(Picks)
          BY <1>0 DEF TypeOK
        <5>2. buf[loc.b][i] \in Picks
          BY <2>2, <5>1
        <5> QED
          BY <5>2 DEF Picks
      <4>3. removed' = [removed EXCEPT ![loc.b] = @ \cup {buf[loc.b][i].stn}]
        BY <3>1 DEF Barring
      <4> QED
        BY <1>0, <4>1, <4>2, <4>3 DEF TypeOK
    <3>2. CASE Misfit(loc.b, i)
      <4>1. removed' \in [Buffers -> SUBSET Stations]
        BY <3>2 DEF Misfit, TypeOK
      <4>2. CASE \E c \in Buffers \ {loc.b} : Room(c) /\ Move(loc.b, i, c)
        BY <1>0, <2>2, <4>1, <4>2, Moved
      <4>3. CASE Empty # {} /\ Move(loc.b, i, FirstEmpty(loc.b))
        <5>1. FirstEmpty(loc.b) \in Empty /\ FirstEmpty(loc.b) \in Buffers
          BY <1>0, <4>3, FirstEmptyIs
        <5>2. Len(buf[FirstEmpty(loc.b)]) = 0 /\ FirstEmpty(loc.b) # loc.b
          BY <1>0, <2>2, <5>1 DEF Empty, TypeOK
        <5>3. Room(FirstEmpty(loc.b))
          BY <5>2, Numbers DEF Room
        <5> QED
          BY <1>0, <2>2, <4>1, <4>3, <5>1, <5>2, <5>3, Moved
      <4>4. CASE buf' = [buf EXCEPT ![loc.b] = RemoveP(@, i)]
        BY <1>0, <2>2, <4>1, <4>4, RemovedP
      <4> QED
        BY <3>2, <4>2, <4>3, <4>4 DEF Misfit
    <3> QED
      BY <2>1, <3>1, <3>2
  <2>6. OthersOK'
    BY <2>4, <2>5 DEF TypeOK, OthersOK, Buffers
  <2> QED
    BY <2>3, <2>4, <2>5, <2>6, HyposKept DEF TypeOK, BufsOK, HyposOK, OthersOK, Buffers, Locator
<1>4. CASE Scavenge
  <2>1. PICK c \in Buffers : \E i \in DOMAIN buf[c] :
          /\ Takes(loc.b, c, i)
          /\ Move(c, i, loc.b)
          /\ loc' = [loc EXCEPT !.pc = "scavenge", !.from = c, !.k = i + 1]
    BY <1>4 DEF Scavenge
  <2>2. PICK i \in DOMAIN buf[c] :
          /\ Takes(loc.b, c, i)
          /\ Move(c, i, loc.b)
          /\ loc' = [loc EXCEPT !.pc = "scavenge", !.from = c, !.k = i + 1]
    BY <2>1
  <2>3. BufsOK'
    BY <1>0, <2>2, Moved DEF Takes
  <2>4. i + 1 \in 1 .. MaxStations + 1
    <3>1. i \in 1 .. Len(buf[c]) /\ Len(buf[c]) <= MaxStations /\ Len(buf[c]) \in Nat
      BY DEF TypeOK
    <3> QED
      BY <3>1, Numbers
  <2>5. loc' \in Locator
    BY <1>0, <2>2, <2>4 DEF Locator
  <2>6. UNCHANGED <<hypo, id, last, removed, active, known, msgs, due>>
    BY <1>4 DEF Scavenge
  <2> QED
    BY <2>3, <2>5, <2>6, HyposKept, Kept DEF TypeOK, BufsOK, HyposOK, OthersOK, Buffers, Locator
<1>5. CASE Release
  <2>1. UNCHANGED <<buf, hypo, id, last, removed, known, msgs, due>>
    BY <1>5 DEF Release
  <2>2. active' \in Buffers
    <3>1. PICK n \in 0 .. NumPBuffs : n = loc.iRC
      BY <1>0 DEF Locator
    <3>2. active' = active \/ (n > 0 /\ active' = n)
      BY <1>5, <3>1 DEF Release
    <3>3. n > 0 => n \in Buffers
      BY Numbers DEF Buffers
    <3>4. active \in Buffers /\ Buffers' = Buffers
      BY DEF TypeOK, Buffers
    <3> QED
      BY <3>2, <3>3, <3>4
  <2>3. loc' \in Locator
    BY <1>0, <1>5, IdleTypes, PassedTypes DEF Release
  <2> QED
    BY <2>1, <2>2, <2>3 DEF TypeOK, Buffers, Locator
<1>6. CASE FinalMade
  <2>1. UNCHANGED <<buf, id, last, removed, active, known, msgs, due>> /\ loc' = Passed
    BY <1>6 DEF FinalMade
  <2>2. HyposOK'
    <3>1. PICK h \in Hypos : h = hypo[loc.b]
      BY <1>0 DEF TypeOK
    <3>2. hypo' = [hypo EXCEPT ![loc.b] = [h EXCEPT !.final = TRUE]]
      BY <1>6, <3>1 DEF FinalMade
    <3>3. /\ [h EXCEPT !.final = TRUE] \in Hypos
          /\ [h EXCEPT !.final = TRUE].nump = h.nump /\ [h EXCEPT !.final = TRUE].bad = h.bad
      BY DEF Hypos
    <3>4. PICK g \in Hypos : g = [h EXCEPT !.final = TRUE]
      BY <3>3
    <3>5. g.nump + g.bad <= MaxStations
      BY <1>0, <3>1, <3>3, <3>4 DEF TypeOK
    <3>6. hypo' = [hypo EXCEPT ![loc.b] = g] /\ hypo \in [Buffers -> Hypos]
      BY <3>2, <3>4 DEF TypeOK
    <3>7. \A c \in Buffers : hypo'[c] = IF c = loc.b THEN g ELSE hypo[c]
      BY <3>6
    <3> QED
      BY <3>5, <3>6, <3>7 DEF TypeOK, HyposOK, Buffers
  <2> QED
    BY <2>1, <2>2, PassedTypes DEF TypeOK, HyposOK, Buffers, Locator
<1>7. CASE Scan
  <2>1. UNCHANGED <<buf, hypo, id, last, removed, active, known, msgs, due>>
    BY <1>7 DEF Scan
  <2>2. loc' \in Locator
    <3>1. CASE loc' = Idle
      BY <3>1, IdleTypes
    <3>2. CASE \E E \in Recyclable : loc' = [loc EXCEPT !.pc = "recycle", !.b = Oldest(E)]
      <4>1. PICK E \in SUBSET Buffers : loc' = [loc EXCEPT !.pc = "recycle", !.b = Oldest(E)]
        BY <3>2 DEF Recyclable
      <4>2. Oldest(E) \in Buffers
        BY OldestIs
      <4> QED
        BY <1>0, <4>1, <4>2 DEF Locator
    <3> QED
      BY <1>7, <3>1, <3>2 DEF Scan
  <2> QED
    BY <2>1, <2>2 DEF TypeOK, Buffers, Locator
<1>8. CASE Reuse
  <2>1. Recycle(loc.b, <<>>) /\ loc' = Idle /\ UNCHANGED <<active, known, msgs>>
    BY <1>8 DEF Reuse
  <2>2. <<>> \in Seq(Picks) /\ Len(<<>>) <= MaxStations
    BY Numbers
  <2>3. BufsOK' /\ HyposOK' /\ OthersOK'
    BY <1>0, <2>1, <2>2, Recycled
  <2> QED
    BY <2>1, <2>3, IdleTypes DEF TypeOK, BufsOK, HyposOK, OthersOK, Buffers, Locator
<1> QED
  BY <1>1, <1>2, <1>3, <1>4, <1>5, <1>6, <1>7, <1>8 DEF LocateThread

(* No buffer of loc_wcatwc is filled past MAX_STATIONS, whoever puts the   *)
(* pick in, and LocateQuake never counts more picks than fit into one; all *)
(* indices and ids keep to their ranges, for any number of buffers,        *)
(* stations, ids and messages and any limits.                              *)
THEOREM TypesHold == Spec => []TypeOK
<1>1. Init => TypeOK
  <2> SUFFICES ASSUME Init PROVE TypeOK
    OBVIOUS
  <2>1. BufsOK
    BY Numbers DEF Init, BufsOK
  <2>2. /\ hypo \in [Buffers -> Hypos]
        /\ \A b \in Buffers : hypo[b].nump + hypo[b].bad <= MaxStations
    BY InitHypoTypes DEF Init
  <2>3. /\ id \in [Buffers -> 0 .. MaxIds - 1] /\ last \in [Buffers -> -1 .. MaxStations]
        /\ removed \in [Buffers -> SUBSET Stations] /\ active \in Buffers
    BY Numbers DEF Init, Buffers
  <2>4. loc \in Locator /\ known \subseteq 0 .. MaxIds - 1 /\ due \subseteq Buffers
    BY IdleTypes DEF Init
  <2>5. msgs \in [all : 0 .. MaxMsgs, asked : 0 .. MaxAsked]
    BY BuffersAssumption DEF Init
  <2> QED
    BY <2>1, <2>2, <2>3, <2>4, <2>5 DEF TypeOK, BufsOK
<1>2. TypeOK /\ [Next]_vars => TypeOK'
  <2>1. ASSUME TypeOK, UNCHANGED vars PROVE TypeOK'
    BY <2>1 DEF vars, TypeOK, Buffers, Locator
  <2> QED
    BY <2>1, MainTypes, ThreadTypes DEF Next
<1> QED
  BY <1>1, <1>2, PTL DEF Spec

-----------------------------------------------------------------------------
(* Whose picks a location knocks out.                                      *)

ByProgram(ps) == {i \in DOMAIN ps : ps[i].timed /\ ps[i].use = 1}

(* Putting the picks into another order leaves as many automatic ones.     *)
LEMMA AutoSorted ==
  ASSUME NEW ps \in Seq(Picks), NEW qs, DOMAIN qs = DOMAIN ps,
         NEW f \in Bijection(DOMAIN ps, DOMAIN ps),
         \A i \in DOMAIN ps : qs[i] = ps[f[i]]
  PROVE  Cardinality(ByProgram(qs)) = Cardinality(ByProgram(ps))
<1> DEFINE g == [i \in ByProgram(qs) |-> f[i]]
<1>1. /\ f \in [DOMAIN ps -> DOMAIN ps]
      /\ \A i, j \in DOMAIN ps : f[i] = f[j] => i = j
      /\ \A j \in DOMAIN ps : \E i \in DOMAIN ps : f[i] = j
  BY Fun_BijectionProperties
<1>2. g \in [ByProgram(qs) -> ByProgram(ps)]
  BY <1>1 DEF ByProgram
<1>3. \A i, j \in ByProgram(qs) : g[i] = g[j] => i = j
  BY <1>1 DEF ByProgram
<1>4. \A j \in ByProgram(ps) : \E i \in ByProgram(qs) : g[i] = j
  BY <1>1 DEF ByProgram
<1> HIDE DEF g
<1>5. g \in Bijection(ByProgram(qs), ByProgram(ps))
  BY <1>2, <1>3, <1>4, Fun_IsBij
<1>6. IsFiniteSet(ByProgram(qs))
  <2>1. DOMAIN ps = 1 .. Len(ps) /\ Len(ps) \in Nat
    OBVIOUS
  <2>2. ByProgram(qs) \in SUBSET (1 .. Len(ps))
    BY <2>1 DEF ByProgram
  <2> QED
    BY <2>1, <2>2, CountOff
<1> QED
  BY <1>5, <1>6, FS_Bijection, Fun_ExistsBij

(* The entry is one of ps, of a pick no analyst made.                      *)
NotManual(ps, p) == \E i \in DOMAIN ps : ps[i].stn = p.stn /\ ps[i].use < 2

LEMMA KnockedOutAutomatic ==
  ASSUME NEW ps \in Seq(Picks),
         Cardinality({i \in DOMAIN ps : ps[i].timed /\ ps[i].use < 2}) >= MaxKO,
         NEW s \in Solutions(Revived(ps)), NEW j \in DOMAIN s.ps, s.ps[j].use = 0
  PROVE  NotManual(ps, s.ps[j])
<1> DEFINE all == Revived(ps)
<1>1. /\ all \in Seq(Picks) /\ DOMAIN all = DOMAIN ps
      /\ \A i \in DOMAIN ps : /\ all[i].stn = ps[i].stn /\ all[i].timed = ps[i].timed
                              /\ all[i].use = IF ps[i].use = 0 THEN 1 ELSE ps[i].use
  BY RevivedTypes DEF Revived
<1>2. \A i \in DOMAIN ps : ps[i].use \in {0, 1, 2}
  <2>1. \A i \in DOMAIN ps : ps[i] \in Picks
    OBVIOUS
  <2> QED
    BY <2>1 DEF Picks
<1>3. \A i \in DOMAIN ps : all[i].use # 0 /\ (all[i].use = 1 <=> ps[i].use < 2)
  BY <1>1, <1>2
<1> HIDE DEF all
<1>4. PICK q \in SortAllByPTime(all) : s.ps \in Fitted(q)
  BY DEF Solutions, all
<1>5. /\ q \in Seq(Picks) /\ DOMAIN q = DOMAIN ps
      /\ \E f \in Bijection(DOMAIN ps, DOMAIN ps) : \A i \in DOMAIN ps : q[i] = all[f[i]]
  BY <1>1, SortTypes
<1>6. PICK f \in Bijection(DOMAIN ps, DOMAIN ps) : \A i \in DOMAIN ps : q[i] = all[f[i]]
  BY <1>5
<1>7. f \in [DOMAIN ps -> DOMAIN ps]
  BY Fun_BijectionProperties
<1>8. \A i \in DOMAIN ps : q[i].use # 0
  BY <1>3, <1>6, <1>7
<1>9. Cardinality(ByProgram(q)) >= MaxKO
  <2>1. ByProgram(all) = {i \in DOMAIN ps : ps[i].timed /\ ps[i].use < 2}
    BY <1>1, <1>3 DEF ByProgram
  <2>2. Cardinality(ByProgram(q)) = Cardinality(ByProgram(all))
    BY <1>1, <1>5, <1>6, AutoSorted
  <2> QED
    BY <2>1, <2>2
<1>10. DOMAIN s.ps = DOMAIN ps
  BY <1>4, <1>5, FittedTypes
<1>11. PICK K \in KnockedOut(q), R \in SUBSET {1} : s.ps = FindBadPs(q, K, R)
  <2>1. s.ps # q
    BY <1>8, <1>10
  <2> QED
    BY <1>4, <2>1 DEF Fitted
<1>12. K \subseteq ByProgram(q)
  <2>1. ByProgram(q) = {i \in DOMAIN q : q[i].timed /\ q[i].use = 1}
    BY DEF ByProgram
  <2>2. ~(Cardinality(ByProgram(q)) < MaxKO)
    <3>1. IsFiniteSet(ByProgram(q))
      <4>1. ByProgram(q) \in SUBSET (1 .. Len(q)) /\ Len(q) \in Nat
        BY <1>5 DEF ByProgram
      <4> QED
        BY <4>1, CountOff
    <3>2. Cardinality(ByProgram(q)) \in Nat /\ MaxKO \in Nat
      BY <3>1, FS_CardinalityType, LocateAssumption
    <3> QED
      BY <1>9, <3>2
  <2>3. K \in {L \in SUBSET ByProgram(q) : Cardinality(L) \in 1 .. MaxKO}
    BY <2>1, <2>2 DEF KnockedOut
  <2> QED
    BY <2>3
<1>13. j \in K
  <2> SUFFICES ASSUME j \notin K PROVE FALSE
    OBVIOUS
  <2>1. s.ps[j] = q[j]
    BY <1>5, <1>10, <1>11 DEF FindBadPs
  <2> QED
    BY <1>8, <1>10, <2>1
<1>14. j \in DOMAIN ps /\ q[j].use = 1
  BY <1>10, <1>12, <1>13 DEF ByProgram
<1>15. s.ps[j].stn = q[j].stn
  <2>1. PICK p \in Picks : p = q[j]
    BY <1>5, <1>14
  <2>2. PICK u : u = IF j \in R THEN 1 ELSE 0
    OBVIOUS
  <2>3. s.ps[j] = [p EXCEPT !.use = u]
    BY <1>5, <1>11, <1>13, <1>14, <2>1, <2>2 DEF FindBadPs
  <2>4. [p EXCEPT !.use = u].stn = p.stn
    BY DEF Picks
  <2> QED
    BY <2>1, <2>3, <2>4
<1>16. f[j] \in DOMAIN ps /\ q[j] = all[f[j]]
  BY <1>6, <1>7, <1>14
<1>17. ps[f[j]].stn = s.ps[j].stn /\ ps[f[j]].use < 2
  BY <1>1, <1>3, <1>14, <1>15, <1>16
<1> QED
  BY <1>16, <1>17 DEF NotManual

LEMMA LocateKeepsManual ==
  ASSUME TypeOK, Locate, Enough(loc.b),
         NEW j \in DOMAIN buf'[loc.b], buf'[loc.b][j].use = 0
  PROVE  NotManual(buf[loc.b], buf'[loc.b][j])
<1>1. PICK b \in Buffers : b = loc.b
  BY DEF TypeOK, Locator
<1>2. PICK iLoc \in BOOLEAN : \E r \in Outcomes(b, iLoc) : LocateQuake(b, r)
  BY <1>1 DEF Locate, MayLocate
<1>3. PICK r \in Outcomes(b, iLoc) : LocateQuake(b, r)
  BY <1>2
<1>4. PICK ps \in Seq(Picks), h \in Hypos : ps = buf[b] /\ h = hypo[b] /\ buf'[b] = r.ps
  BY <1>3 DEF LocateQuake, TypeOK
<1>5. PICK s \in IF iLoc THEN Locations(ps, h) ELSE MagsOnly(ps, h) : r.ps = s.ps
  <2> DEFINE fits == IF iLoc THEN Locations(buf[b], hypo[b]) ELSE MagsOnly(buf[b], hypo[b])
  <2>1. \E s \in fits : r.ps = s.ps
    <3> HIDE DEF fits
    <3>1. \/ \E s \in fits : r = [ps |-> s.ps, h |-> s.h, rc |-> 0]
          \/ \E s \in fits : \E c \in Buffers : \E g : r = [ps |-> s.ps, h |-> g, rc |-> c]
      BY DEF Outcomes, fits
    <3> QED
      BY <3>1
  <2> QED
    BY <1>4, <2>1
<1>6. CASE ~iLoc
  <2>1. s.ps = ps
    BY <1>5, <1>6 DEF MagsOnly
  <2> QED
    BY <1>1, <1>4, <1>5, <2>1 DEF NotManual
<1>7. CASE iLoc
  <2>1. s \in Locations(ps, h)
    BY <1>5, <1>7
  <2>2. CASE NumPs(Revived(ps)) < MinPs
    <3>1. s = [ps |-> Revived(ps), h |-> h, ok |-> FALSE]
      BY <2>1, <2>2 DEF Locations
    <3>2. Revived(ps)[j].use = 0 /\ j \in DOMAIN Revived(ps)
      BY <1>1, <1>4, <1>5, <3>1
    <3>3. j \in DOMAIN ps /\ Revived(ps)[j].use # 0
      BY <3>2, RevivedTypes DEF Revived
    <3> QED
      BY <3>2, <3>3
  <2>3. CASE ~(NumPs(Revived(ps)) < MinPs)
    <3>1. h.good => ~(Len(ps) > MinPs + 2)
      <4>1. Len(ps) \in Nat /\ MinPs \in Nat
        BY Numbers
      <4> QED
        BY <1>1, <1>4, <4>1 DEF Enough
    <3>2. PICK t \in Solutions(Revived(ps)) : s = [ps |-> t.ps, h |-> Newer(Fit(h, t)), ok |-> TRUE]
      BY <2>1, <2>3, <3>1 DEF Locations
    <3>3. r.ps = t.ps
      BY <1>5, <3>2
    <3>4. Cardinality({i \in DOMAIN ps : ps[i].timed /\ ps[i].use < 2}) >= MaxKO
      BY <1>1, <1>4 DEF Enough, Automatic
    <3>5. NotManual(ps, t.ps[j])
      BY <1>1, <1>4, <3>3, <3>4, KnockedOutAutomatic
    <3> QED
      BY <1>1, <1>4, <3>3, <3>5
  <2> QED
    BY <2>2, <2>3
<1> QED
  BY <1>6, <1>7

(* A location of loc_wcatwc knocks out no manual pick, as long as the      *)
(* buffer has as many automatic ones as FindBadPs may look for, for any    *)
(* picks and any number of buffers, and whatever order the sort leaves.    *)
THEOREM ManualPicksStay == Spec => ManualKept
<1>1. TypeOK /\ [Next]_vars =>
        [LET b == loc.b
         IN Locate /\ Enough(b) =>
              \A j \in DOMAIN buf'[b] : buf'[b][j].use = 0 =>
                \E i \in DOMAIN buf[b] :
                  buf[b][i].stn = buf'[b][j].stn /\ buf[b][i].use < 2]_vars
  BY LocateKeepsManual DEF NotManual
<1> QED
  BY <1>1, TypesHold, PTL DEF Spec, ManualKept
=============================================================================
