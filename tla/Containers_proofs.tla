-------------------------- MODULE Containers_proofs --------------------------
(***************************************************************************)
(* The containers of the runtime, for any keys, datas and capacities.      *)
(*                                                                         *)
(* The two-way map leads every key to its value, and is a set of pairs, as *)
(* long as clients insert into a map without holes and keep to the six     *)
(* entries their key maps can search for.  The sorted array of a           *)
(* map or set is searched right up to six entries, and is a table then:    *)
(* every range of the search that does not start at 0 has at most two      *)
(* entries, so that none of them has a pivot.                              *)
(***************************************************************************)
EXTENDS Bimap, Associative, Operators_proofs

(* The inductive invariant: a key leads to its value because count counts  *)
(* the stored datas, and count is exact because keys and slots agree.      *)
MapInv == TypeOK /\ Sound(bimap)

LEMMA InsertStep ==
  ASSUME NEW k1 \in Key1, NEW k2 \in Key2, NEW d \in Data,
         MapInv, Compact(bimap), Insert(k1, k2, d)
  PROVE  MapInv'
<1>1. CASE CanInsert(bimap, k1, k2)
  <2>1. bimap' = bimap_insert(bimap, k1, k2, d)
    BY <1>1 DEF Insert
  <2>2. bimap' \in BimapType(Key1, Key2, Data, Junk, Size)
    BY <2>1, <1>1, InsertFields, SizeAssumption DEF MapInv, TypeOK
  <2>3. SoundlyInserted(bimap, k1, k2, d, bimap')
    BY <2>1, <1>1, InsertIsSound, SizeAssumption, KeysAreFinite DEF MapInv, TypeOK
  <2>4. Sound(bimap')
    BY <2>3 DEF SoundlyInserted
  <2> QED
    BY <2>2, <2>4, <1>1 DEF MapInv, TypeOK, Insert, Sound
<1>2. CASE ~CanInsert(bimap, k1, k2)
  BY <1>2 DEF Insert, MapInv, TypeOK
<1> QED
  BY <1>1, <1>2

LEMMA Remove1Step ==
  ASSUME NEW k1, MapInv, Remove1(k1)
  PROVE  MapInv'
<1>1. CASE k1 \in Live1(bimap)
  <2>1. bimap' = RemoveAllByKey1(bimap, {k1})
    BY <1>1, RemoveByKey1 DEF Remove1
  <2> QED
    BY <2>1, RemoveAllIsSound, SizeAssumption, KeysAreFinite
    DEF MapInv, TypeOK, Remove1
<1>2. CASE k1 \notin Live1(bimap)
  BY <1>2 DEF Remove1, bimap_remove_by_key_1, MapInv, TypeOK
<1> QED
  BY <1>1, <1>2

LEMMA Remove2Step ==
  ASSUME NEW k2, MapInv, Remove2(k2)
  PROVE  MapInv'
<1>1. CASE k2 \in Live2(bimap)
  <2> DEFINE k1 == bimap_get_value_by_key_2(bimap, k2).k1
  <2>1. /\ k1 \in Live1(bimap)
        /\ bimap' = bimap_remove_by_key_1(bimap, k1)
    BY <1>1, RemoveByKey2 DEF Remove2, MapInv, Sound
  <2>2. Remove1(k1)
    BY <2>1 DEF Remove1, Remove2
  <2> QED
    BY <2>2, Remove1Step
<1>2. CASE k2 \notin Live2(bimap)
  BY <1>2 DEF Remove2, bimap_remove_by_key_2, MapInv, TypeOK
<1> QED
  BY <1>1, <1>2

LEMMA MapInvInitially == Init => MapInv
BY AllocIsSound, SizeAssumption, KeysAreFinite DEF Init, MapInv, TypeOK

LEMMA MapInvIsInductive == MapInv /\ [CompactNext]_vars => MapInv'
<1> SUFFICES ASSUME MapInv, [CompactNext]_vars
             PROVE  MapInv'
  OBVIOUS
<1>1. ASSUME NEW k1 \in Key1, NEW k2 \in Key2, NEW d \in Data,
             Compact(bimap), Insert(k1, k2, d)
      PROVE  MapInv'
  BY <1>1, InsertStep
<1>2. ASSUME NEW k1 \in Key1, Remove1(k1)
      PROVE  MapInv'
  BY <1>2, Remove1Step
<1>3. ASSUME NEW k2 \in Key2, Remove2(k2)
      PROVE  MapInv'
  BY <1>3, Remove2Step
<1>4. CASE UNCHANGED vars
  BY <1>4 DEF vars, MapInv, TypeOK
<1> QED
  BY <1>1, <1>2, <1>3, <1>4 DEF CompactNext

LEMMA AlwaysMapInv == CompactSpec => []MapInv
BY MapInvInitially, MapInvIsInductive, PTL DEF CompactSpec

(* A lookup of bimap.c returns the value stored under the key it is given, *)
(* in every state a client that stores up to six and leaves no holes can   *)
(* reach (CompactSpec: the searches behind the maps find no more).         *)
THEOREM KeysAlwaysLeadToTheirValue ==
  CompactSpec => []KeysLeadToTheirValue
<1>1. MapInv => KeysLeadToTheirValue
  BY DEF MapInv, Sound, KeysLeadToTheirValue
<1> QED
  BY <1>1, AlwaysMapInv, PTL

(* count is the number of stored datas, so bimap_insert reports the array  *)
(* full only when it is.                                                   *)
THEOREM CountIsExact == CompactSpec => []CountsStoredDatas
<1>1. MapInv => CountsStoredDatas
  BY DEF MapInv, Sound, CountsStoredDatas
<1> QED
  BY <1>1, AlwaysMapInv, PTL

(* What is left after each of the first n keys.                            *)
Removing(f, b, keys, n) ==
  f = [m \in 0..n |-> IF m = 0 THEN b ELSE bimap_remove_by_key_1(f[m - 1], keys[m])]

(* Removing key after key is removing the set of them.                     *)
LEMMA RemovingIs ==
  ASSUME NEW H, IsFiniteSet(H), NEW b, Live1(b) \subseteq H, b.count \in Int,
         RemoveAllByKey1(b, {}) = b,
         NEW n \in Nat, NEW keys \in Seq(H), Len(keys) = n
  PROVE  RemoveOneByOne(b, keys) = RemoveAllByKey1(b, {keys[i] : i \in 1..n})
<1> DEFINE first(m) == {keys[i] : i \in 1..m}
           left(m) == RemoveAllByKey1(b, first(m))
           f == [m \in 0..n |-> left(m)]
<1>1. ASSUME NEW m \in 1..n
      PROVE  left(m) = bimap_remove_by_key_1(left(m - 1), keys[m])
  <2>1. 1..m = 1..(m - 1) \cup {m}
    OBVIOUS
  <2>2. first(m) = first(m - 1) \cup {keys[m]}
    BY <2>1
  <2> HIDE DEF first
  <2> QED  BY <2>2, OneMoreRemoved
<1>2. left(0) = b
  <2>1. first(0) = {}
    OBVIOUS
  <2> HIDE DEF first
  <2> QED  BY <2>1
<1> HIDE DEF left
<1>3. Removing(f, b, keys, n)
  <2>1. ASSUME NEW m \in 0..n
        PROVE  left(m) = IF m = 0 THEN b ELSE bimap_remove_by_key_1(f[m - 1], keys[m])
    <3>1. CASE m = 0
      BY <1>2, <3>1
    <3>2. CASE m # 0
      <4>1. m \in 1..n /\ m - 1 \in 0..n
        BY <3>2
      <4>2. f[m - 1] = left(m - 1)
        BY <4>1
      <4> HIDE DEF f
      <4> QED  BY <1>1, <3>2, <4>1, <4>2
    <3> QED  BY <3>1, <3>2
  <2>2. PICK g : g = f
    OBVIOUS
  <2>3. g = [m \in 0..n |-> left(m)]
    BY <2>2
  <2>4. \A m \in 0..n : left(m) = IF m = 0 THEN b ELSE bimap_remove_by_key_1(g[m - 1], keys[m])
    <3> HIDE DEF f
    <3> QED  BY <2>1, <2>2
  <2>5. Removing(g, b, keys, n)
    BY <2>3, <2>4 DEF Removing
  <2> QED  BY <2>2, <2>5
<1> DEFINE c == CHOOSE c : Removing(c, b, keys, n)
<1>4. Removing(c, b, keys, n)
  <2> HIDE DEF f
  <2> QED  BY <1>3
<1>5. RemoveOneByOne(b, keys) = c[n]
  BY Zenon DEF RemoveOneByOne, Removing
<1> HIDE DEF c, f
<1>6. \A m \in 0..n : c[m] = IF m = 0 THEN b ELSE bimap_remove_by_key_1(c[m - 1], keys[m])
  BY <1>4 DEF Removing
<1> DEFINE T == {m \in 0..n : c[m] = left(m)}
<1>7. 0 \in T
  BY <1>2, <1>6
<1>8. ASSUME NEW m \in 1..n, m - 1 \in T PROVE m \in T
  <2>1. m \in 0..n /\ m # 0 /\ c[m - 1] = left(m - 1)
    BY <1>8
  <2>2. c[m] = bimap_remove_by_key_1(c[m - 1], keys[m])
    BY <1>6, <2>1
  <2> QED  BY <1>1, <2>1, <2>2
<1>9. n \in T
  <2> HIDE DEF T
  <2>1. \A m \in 0..n : m \in T
    BY <1>7, <1>8, SetInduction
  <2> QED  BY <2>1
<1> QED  BY <1>5, <1>9 DEF left

(* The loop of acc_clear_data_environment, in whatever order it removes    *)
(* the arrays of a level, leaves what one step of DataEnv leaves.          *)
THEOREM RemovalsAlwaysCommute == CompactSpec => []RemovalsCommute
<1>1. ASSUME MapInv PROVE RemovalsCommute
  <2> SUFFICES ASSUME NEW K \in SUBSET Key1, NEW keys \in SetToSeqs(K)
               PROVE  RemoveOneByOne(bimap, keys) = RemoveAllByKey1(bimap, K)
    BY DEF RemovalsCommute
  <2>1. /\ bimap \in BimapType(Key1, Key2, Data, Junk, Size)
        /\ Live1(bimap) \subseteq Key1 /\ bimap.count \in Int
    BY <1>1, SizeAssumption DEF MapInv, TypeOK, BimapType, Live1
  <2>2. RemoveAllByKey1(bimap, {}) = bimap
    BY <2>1, NoneRemoved, SizeAssumption
  <2>3. IsFiniteSet(K)
    BY KeysAreFinite, FS_Subset
  <2>4. PICK n \in Nat : n = Cardinality(K) /\ Len(keys) = n /\ keys \in Seq(K)
                        /\ {keys[i] : i \in 1..n} = K
    BY <2>3, OrdersNameAll
  <2>5. keys \in Seq(Key1)
    BY <2>4
  <2> QED  BY <2>1, <2>2, <2>4, <2>5, KeysAreFinite, RemovingIs
<1> QED  BY <1>1, AlwaysMapInv, PTL

-----------------------------------------------------------------------------
(* Every stored slot names its own keys, and both are in the map.          *)
LEMMA StoredKeys ==
  ASSUME NEW b, SlotsAgree(b)
  PROVE  /\ \A p \in Stored(b) :
              /\ p.k1 \in Live1(b)
              /\ p.k2 \in Live2(b)
              /\ p = b.datas[b.key_1_map[p.k1]]
         /\ \A p, q \in Stored(b) : p.k2 = q.k2 => p = q
<1>1. \A p \in Stored(b) :
        /\ p.k1 \in Live1(b)
        /\ p.k2 \in Live2(b)
        /\ p = b.datas[b.key_1_map[p.k1]]
        /\ b.key_2_map[p.k2] = b.key_1_map[p.k1]
  BY DEF Stored, SlotsAgree
<1> QED
  BY <1>1

LEMMA InsertRefines ==
  ASSUME NEW k1 \in Key1, NEW k2 \in Key2, NEW d \in Data,
         MapInv, Compact(bimap), Insert(k1, k2, d)
  PROVE  Pairs!PairInsert(k1, k2, d) \/ UNCHANGED Stored(bimap)
<1>1. CASE CanInsert(bimap, k1, k2)
  <2> DEFINE slot == [k1 |-> k1, k2 |-> k2, data |-> d]
  <2>1. bimap' = bimap_insert(bimap, k1, k2, d)
    BY <1>1 DEF Insert
  <2>2. SoundlyInserted(bimap, k1, k2, d, bimap')
    BY <2>1, <1>1, InsertIsSound, SizeAssumption, KeysAreFinite DEF MapInv, TypeOK
  <2>3. Stored(bimap)' = Stored(bimap) \cup {slot}
    BY <2>2 DEF Stored, SoundlyInserted
  <2>4. \A p \in Stored(bimap) : p.k1 # k1 /\ p.k2 # k2
    BY <1>1, StoredKeys DEF CanInsert, MapInv, Sound
  <2> QED
    BY <2>3, <2>4 DEF Pairs!PairInsert
<1>2. CASE ~CanInsert(bimap, k1, k2)
  BY <1>2 DEF Insert
<1> QED
  BY <1>1, <1>2

LEMMA Remove1Refines ==
  ASSUME NEW k1, MapInv, Remove1(k1)
  PROVE  Pairs!PairRemove1(k1)
<1>1. CASE k1 \in Live1(bimap)
  <2>1. bimap' = RemoveAllByKey1(bimap, {k1})
    BY <1>1, RemoveByKey1 DEF Remove1
  <2>2. /\ Live1(bimap') = Live1(bimap) \ {k1}
        /\ \A k \in Live1(bimap') :
             bimap'.key_1_map[k] = bimap.key_1_map[k]
        /\ bimap'.datas = bimap.datas
    BY <2>1, RemoveAllIsSound, SizeAssumption, KeysAreFinite DEF MapInv, TypeOK
  <2>3. \A k \in Live1(bimap) : bimap.datas[bimap.key_1_map[k]].k1 = k
    BY DEF MapInv, Sound, SlotsAgree
  <2>4. Stored(bimap') = {p \in Stored(bimap) : p.k1 # k1}
    BY <2>2, <2>3 DEF Stored
  <2> QED
    BY <2>4 DEF Pairs!PairRemove1, Stored, Live1
<1>2. CASE k1 \notin Live1(bimap)
  <2>1. bimap' = bimap
    BY <1>2 DEF Remove1, bimap_remove_by_key_1
  <2>2. Stored(bimap) = {p \in Stored(bimap) : p.k1 # k1}
    BY <1>2, StoredKeys DEF MapInv, Sound
  <2> QED
    BY <2>1, <2>2 DEF Pairs!PairRemove1
<1> QED
  BY <1>1, <1>2

LEMMA Remove2Refines ==
  ASSUME NEW k2, MapInv, Remove2(k2)
  PROVE  Pairs!PairRemove2(k2)
<1>1. CASE k2 \in Live2(bimap)
  <2> DEFINE k1 == bimap_get_value_by_key_2(bimap, k2).k1
  <2>1. /\ k1 \in Live1(bimap)
        /\ bimap' = bimap_remove_by_key_1(bimap, k1)
        /\ bimap.datas[bimap.key_1_map[k1]].k2 = k2
    <3>1. SlotsAgree(bimap)
      BY DEF MapInv, Sound
    <3>2. k1 \in Live1(bimap) /\ bimap' = bimap_remove_by_key_1(bimap, k1)
      BY <1>1, <3>1, RemoveByKey2 DEF Remove2
    <3>3. bimap.key_1_map[k1] = bimap.key_2_map[k2] /\ bimap.datas[bimap.key_2_map[k2]].k2 = k2
      BY <1>1, <3>1 DEF SlotsAgree, bimap_get_value_by_key_2
    <3> QED
      BY <3>2, <3>3
  <2>2. Stored(bimap)' = {p \in Stored(bimap) : p.k1 # k1}
    BY <2>1, Remove1Refines DEF Remove1, Remove2, Pairs!PairRemove1
  <2>3. \A p \in Stored(bimap) : p.k1 = k1 <=> p.k2 = k2
    <3>1. \A p \in Stored(bimap) : p.k1 = k1 => p.k2 = k2
      BY <2>1, StoredKeys DEF MapInv, Sound
    <3>2. bimap.datas[bimap.key_1_map[k1]] \in Stored(bimap)
      BY <2>1 DEF Stored
    <3>3. bimap.datas[bimap.key_1_map[k1]].k1 = k1
      BY <2>1 DEF MapInv, Sound, SlotsAgree
    <3>4. \A p \in Stored(bimap) : p.k2 = k2 => p.k1 = k1
      BY <3>2, <3>3, <2>1, StoredKeys DEF MapInv, Sound
    <3> QED
      BY <3>1, <3>4
  <2> QED
    BY <2>2, <2>3 DEF Pairs!PairRemove2
<1>2. CASE k2 \notin Live2(bimap)
  <2>1. bimap' = bimap
    BY <1>2 DEF Remove2, bimap_remove_by_key_2
  <2>2. Stored(bimap) = {p \in Stored(bimap) : p.k2 # k2}
    BY <1>2, StoredKeys DEF MapInv, Sound
  <2> QED
    BY <2>1, <2>2 DEF Pairs!PairRemove2
<1> QED
  BY <1>1, <1>2

(* The two-way map is the set of pairs PairTable describes: an insertion   *)
(* adds its pair, a removal by either key takes out the pair of that key   *)
(* and no other, whatever the keys, the datas and the capacity, with up to *)
(* six entries at a time.                                                  *)
THEOREM BimapImplementsPairTable == CompactSpec => ImplementsPairTable
<1>1. Init => Pairs!PairInit
  BY AllocIsSound, SizeAssumption, KeysAreFinite DEF Init, Stored, Pairs!PairInit
<1>2. MapInv /\ [CompactNext]_vars => [Pairs!PairNext]_(Stored(bimap))
  <2> SUFFICES ASSUME MapInv, [CompactNext]_vars
               PROVE  Pairs!PairNext \/ UNCHANGED Stored(bimap)
    OBVIOUS
  <2>1. ASSUME NEW k1 \in Key1, NEW k2 \in Key2, NEW d \in Data,
               Compact(bimap), Insert(k1, k2, d)
        PROVE  Pairs!PairNext \/ UNCHANGED Stored(bimap)
    BY <2>1, InsertRefines DEF Pairs!PairNext
  <2>2. ASSUME NEW k1 \in Key1, Remove1(k1)
        PROVE  Pairs!PairNext
    BY <2>2, Remove1Refines DEF Pairs!PairNext
  <2>3. ASSUME NEW k2 \in Key2, Remove2(k2)
        PROVE  Pairs!PairNext
    BY <2>3, Remove2Refines DEF Pairs!PairNext
  <2>4. CASE UNCHANGED vars
    BY <2>4 DEF vars, Stored, Live1
  <2> QED
    BY <2>1, <2>2, <2>3, <2>4 DEF CompactNext
<1> QED
  BY <1>1, <1>2, AlwaysMapInv, PTL
  DEF CompactSpec, ImplementsPairTable, Pairs!PairSpec

-----------------------------------------------------------------------------
(* Sequences with an element more or less.                                 *)
LEMMA Joins ==
  ASSUME NEW S, NEW s \in Seq(S), NEW t \in Seq(S)
  PROVE  /\ s \o t \in Seq(S)
         /\ Len(s \o t) = Len(s) + Len(t)
         /\ \A j \in 1..(Len(s) + Len(t)) :
              (s \o t)[j] = IF j <= Len(s) THEN s[j] ELSE t[j - Len(s)]
OBVIOUS

LEMMA Pieces ==
  ASSUME NEW S, NEW s \in Seq(S), NEW m \in 1..(Len(s) + 1), NEW n \in Nat, n <= Len(s),
         m <= n + 1
  PROVE  /\ SubSeq(s, m, n) \in Seq(S)
         /\ Len(SubSeq(s, m, n)) = n + 1 - m
         /\ \A j \in 1..(n + 1 - m) : SubSeq(s, m, n)[j] = s[m + j - 1]
OBVIOUS

IsInserted(new, s, i, e) ==
  /\ Len(new) = Len(s) + 1
  /\ \A j \in 1..(Len(s) + 1) : new[j] = IF j < i THEN s[j] ELSE IF j = i THEN e ELSE s[j - 1]

IsRemoved(new, s, i) ==
  /\ Len(new) = Len(s) - 1
  /\ \A j \in 1..(Len(s) - 1) : new[j] = IF j < i THEN s[j] ELSE s[j + 1]

LEMMA InsertAtInserts ==
  ASSUME NEW S, NEW s \in Seq(S), NEW e \in S, NEW i \in 1..(Len(s) + 1),
         NEW new, new = InsertAt(s, i, e)
  PROVE  new \in Seq(S) /\ IsInserted(new, s, i, e)
<1>1. PICK a, b, c, d : /\ a = SubSeq(s, 1, i - 1) /\ b = <<e>>
                        /\ c = SubSeq(s, i, Len(s)) /\ d = a \o b
  OBVIOUS
<1>2. new = d \o c
  BY <1>1, Zenon DEF InsertAt
<1>n. Len(s) \in Nat
  OBVIOUS
<1>3. a \in Seq(S) /\ Len(a) = i - 1 /\ \A j \in 1..(i - 1) : a[j] = s[j]
  <2>1. /\ SubSeq(s, 1, i - 1) \in Seq(S) /\ Len(SubSeq(s, 1, i - 1)) = (i - 1) + 1 - 1
        /\ \A j \in 1..((i - 1) + 1 - 1) : SubSeq(s, 1, i - 1)[j] = s[1 + j - 1]
    <3>1. /\ 1 \in 1..(Len(s) + 1) /\ i - 1 \in Nat /\ i - 1 <= Len(s) /\ 1 <= (i - 1) + 1
      BY <1>n
    <3> QED  BY <3>1, Pieces
  <2>2. /\ a \in Seq(S) /\ Len(a) = (i - 1) + 1 - 1
        /\ \A j \in 1..((i - 1) + 1 - 1) : a[j] = s[1 + j - 1]
    BY <1>1, <2>1, Zenon
  <2>3. (i - 1) + 1 - 1 = i - 1 /\ \A j \in 1..(i - 1) : 1 + j - 1 = j
    BY <1>n
  <2>h. a \in Seq(S) /\ Len(a) = i - 1
    BY <2>2, <2>3
  <2> QED  BY <2>2, <2>3, <2>h
<1>4. c \in Seq(S) /\ Len(c) = Len(s) + 1 - i /\ \A j \in 1..(Len(s) + 1 - i) : c[j] = s[i + j - 1]
  <2>1. Len(s) <= Len(s) /\ i <= Len(s) + 1
    BY <1>n
  <2>2. /\ SubSeq(s, i, Len(s)) \in Seq(S) /\ Len(SubSeq(s, i, Len(s))) = Len(s) + 1 - i
        /\ \A j \in 1..(Len(s) + 1 - i) : SubSeq(s, i, Len(s))[j] = s[i + j - 1]
    BY <1>n, <2>1, Pieces
  <2> QED  BY <1>1, <2>2, Zenon
<1>5. b \in Seq(S) /\ Len(b) = 1 /\ b[1] = e
  BY <1>1
<1>6. /\ d \in Seq(S) /\ Len(d) = i
      /\ \A j \in 1..i : d[j] = IF j < i THEN a[j] ELSE e
  <2>1. /\ d \in Seq(S) /\ Len(d) = Len(a) + Len(b)
        /\ \A j \in 1..(Len(a) + Len(b)) : d[j] = IF j <= Len(a) THEN a[j] ELSE b[j - Len(a)]
    <3>1. /\ a \o b \in Seq(S) /\ Len(a \o b) = Len(a) + Len(b)
          /\ \A j \in 1..(Len(a) + Len(b)) :
               (a \o b)[j] = IF j <= Len(a) THEN a[j] ELSE b[j - Len(a)]
      BY <1>3, <1>5, Joins
    <3> QED  BY <1>1, <3>1, Zenon
  <2> QED  BY <1>3, <1>5, <2>1
<1>7. /\ new \in Seq(S)
      /\ Len(new) = Len(d) + Len(c)
      /\ \A j \in 1..(Len(d) + Len(c)) :
           new[j] = IF j <= Len(d) THEN d[j] ELSE c[j - Len(d)]
  <2>1. /\ d \o c \in Seq(S) /\ Len(d \o c) = Len(d) + Len(c)
        /\ \A j \in 1..(Len(d) + Len(c)) :
             (d \o c)[j] = IF j <= Len(d) THEN d[j] ELSE c[j - Len(d)]
    BY <1>4, <1>6, Joins
  <2> QED  BY <1>2, <2>1, Zenon
<1>8. Len(d) + Len(c) = Len(s) + 1
  BY <1>4, <1>6, <1>n
<1>9. ASSUME NEW j \in 1..(Len(s) + 1)
      PROVE  new[j] = IF j < i THEN s[j] ELSE IF j = i THEN e ELSE s[j - 1]
  <2>1. new[j] = IF j <= i THEN d[j] ELSE c[j - i]
    BY <1>6, <1>7, <1>8
  <2>2. j < i => d[j] = s[j]
    BY <1>3, <1>6
  <2>3. j = i => d[j] = e
    BY <1>6
  <2>4. j > i => c[j - i] = s[j - 1]
    <3>1. j > i => j - i \in 1..(Len(s) + 1 - i) /\ i + (j - i) - 1 = j - 1
      BY <1>n
    <3> QED  BY <1>4, <3>1
  <2> QED  BY <2>1, <2>2, <2>3, <2>4
<1> QED  BY <1>7, <1>8, <1>9 DEF IsInserted

LEMMA RemoveAtRemoves ==
  ASSUME NEW S, NEW s \in Seq(S), NEW i \in 1..Len(s), NEW new, new = RemoveAt(s, i)
  PROVE  new \in Seq(S) /\ IsRemoved(new, s, i)
<1>1. PICK a, c : a = SubSeq(s, 1, i - 1) /\ c = SubSeq(s, i + 1, Len(s))
  OBVIOUS
<1>2. new = a \o c
  BY <1>1, Zenon DEF RemoveAt
<1>n. Len(s) \in Nat
  OBVIOUS
<1>3. a \in Seq(S) /\ Len(a) = i - 1 /\ \A j \in 1..(i - 1) : a[j] = s[j]
  <2>1. /\ SubSeq(s, 1, i - 1) \in Seq(S) /\ Len(SubSeq(s, 1, i - 1)) = (i - 1) + 1 - 1
        /\ \A j \in 1..((i - 1) + 1 - 1) : SubSeq(s, 1, i - 1)[j] = s[1 + j - 1]
    <3>1. /\ 1 \in 1..(Len(s) + 1) /\ i - 1 \in Nat /\ i - 1 <= Len(s) /\ 1 <= (i - 1) + 1
      BY <1>n
    <3> QED  BY <3>1, Pieces
  <2>2. /\ a \in Seq(S) /\ Len(a) = (i - 1) + 1 - 1
        /\ \A j \in 1..((i - 1) + 1 - 1) : a[j] = s[1 + j - 1]
    BY <1>1, <2>1, Zenon
  <2>3. (i - 1) + 1 - 1 = i - 1 /\ \A j \in 1..(i - 1) : 1 + j - 1 = j
    BY <1>n
  <2>h. a \in Seq(S) /\ Len(a) = i - 1
    BY <2>2, <2>3
  <2> QED  BY <2>2, <2>3, <2>h
<1>4. c \in Seq(S) /\ Len(c) = Len(s) - i /\ \A j \in 1..(Len(s) - i) : c[j] = s[i + j]
  <2>1. i + 1 \in 1..(Len(s) + 1) /\ Len(s) <= Len(s) /\ i + 1 <= Len(s) + 1
    BY <1>n
  <2>2. /\ SubSeq(s, i + 1, Len(s)) \in Seq(S) /\ Len(SubSeq(s, i + 1, Len(s))) = Len(s) + 1 - (i + 1)
        /\ \A j \in 1..(Len(s) + 1 - (i + 1)) : SubSeq(s, i + 1, Len(s))[j] = s[(i + 1) + j - 1]
    BY <1>n, <2>1, Pieces
  <2>3. /\ c \in Seq(S) /\ Len(c) = Len(s) + 1 - (i + 1)
        /\ \A j \in 1..(Len(s) + 1 - (i + 1)) : c[j] = s[(i + 1) + j - 1]
    BY <1>1, <2>2, Zenon
  <2>4. Len(s) + 1 - (i + 1) = Len(s) - i /\ \A j \in 1..(Len(s) - i) : (i + 1) + j - 1 = i + j
    BY <1>n
  <2>h. c \in Seq(S) /\ Len(c) = Len(s) - i
    BY <2>3, <2>4
  <2> QED  BY <2>3, <2>4, <2>h
<1>7. /\ new \in Seq(S)
      /\ Len(new) = Len(a) + Len(c)
      /\ \A j \in 1..(Len(a) + Len(c)) :
           new[j] = IF j <= Len(a) THEN a[j] ELSE c[j - Len(a)]
  <2>1. /\ a \o c \in Seq(S) /\ Len(a \o c) = Len(a) + Len(c)
        /\ \A j \in 1..(Len(a) + Len(c)) :
             (a \o c)[j] = IF j <= Len(a) THEN a[j] ELSE c[j - Len(a)]
    BY <1>3, <1>4, Joins
  <2> QED  BY <1>2, <2>1, Zenon
<1>8. Len(a) + Len(c) = Len(s) - 1
  BY <1>3, <1>4, <1>n
<1>9. ASSUME NEW j \in 1..(Len(s) - 1)
      PROVE  new[j] = IF j < i THEN s[j] ELSE s[j + 1]
  <2>1. new[j] = IF j <= i - 1 THEN a[j] ELSE c[j - (i - 1)]
    BY <1>3, <1>7, <1>8
  <2>2. j < i => j <= i - 1 /\ j \in 1..(i - 1)
    BY <1>n
  <2>3. ~(j < i) => /\ ~(j <= i - 1) /\ j - (i - 1) \in 1..(Len(s) - i)
                    /\ i + (j - (i - 1)) = j + 1
    BY <1>n
  <2> QED  BY <1>3, <1>4, <2>1, <2>2, <2>3
<1> QED  BY <1>7, <1>8, <1>9 DEF IsRemoved

-----------------------------------------------------------------------------
(* The binary search: a turn of it, for the range r.                       *)
IsSearch(find, key) == find = [r \in Ranges |-> Turn(find, key, r)]

LEMMA SubRanges ==
  ASSUME datas \in Seq(Entry), NEW r \in Ranges, r[2] > 2
  PROVE  /\ r[2] \div 2 \in 1..(r[2] - 2)
         /\ <<r[1], r[2] \div 2>> \in Ranges
         /\ <<r[1] + (r[2] \div 2) + 1, r[2] - (r[2] \div 2) - 1>> \in Ranges
<1>1. count \in Nat /\ r[1] \in 0..count /\ r[2] \in 1..count /\ r[1] + r[2] <= count
  BY DEF Ranges, count
<1>2. r[2] \div 2 \in 1..(r[2] - 2)
  BY <1>1
<1>3. PICK p : p = r[2] \div 2
  OBVIOUS
<1>4. PICK a, n : a = r[1] /\ n = r[2]
  OBVIOUS
<1>n. a \in 0..count /\ n \in 1..count /\ p \in 1..(n - 2) /\ a + n <= count
  BY <1>1, <1>2, <1>3, <1>4
<1>5. /\ a \in 0..count /\ p \in 1..count /\ a + p <= count
      /\ a + p + 1 \in 0..count /\ n - p - 1 \in 1..count
      /\ (a + p + 1) + (n - p - 1) <= count
  BY <1>1, <1>n
<1>6. <<a, p>> \in Ranges /\ <<a + p + 1, n - p - 1>> \in Ranges
  BY <1>5 DEF Ranges
<1> QED  BY <1>2, <1>3, <1>4, <1>6

TurnIs(find, key, start, n, pivot, idx) ==
  /\ n = 1 => idx = OneLeft(key, start)
  /\ n = 2 => idx = TwoLeft(key, start)
  /\ n > 2 /\ key < KeyAt(start + pivot) => idx = find[<<start, pivot>>]
  /\ n > 2 /\ key > KeyAt(start + pivot) => idx = find[<<start + pivot + 1, n - pivot - 1>>]
  /\ n > 2 /\ key = KeyAt(start + pivot) => idx = pivot

PivotIs(key, start, n, pivot) ==
  /\ n = 1 \/ n = 2 \/ n > 2
  /\ n > 2 => /\ KeyAt(start + pivot) \in Int
              /\ \/ key < KeyAt(start + pivot) \/ key > KeyAt(start + pivot)
                 \/ key = KeyAt(start + pivot)

LEMMA PivotCases ==
  ASSUME datas \in Seq(Entry), NEW key \in Int, NEW r \in Ranges,
         NEW start, NEW n, NEW pivot, start = r[1], n = r[2], pivot = n \div 2
  PROVE  PivotIs(key, start, n, pivot)
<1>1. n \in Nat \ {0}
  BY DEF Ranges, count
<1>2. n > 2 => KeyAt(start + pivot) \in Int
  <2> SUFFICES ASSUME n > 2 PROVE KeyAt(start + pivot) \in Int
    OBVIOUS
  <2>1. pivot \in 1..(n - 2) /\ start \in Nat /\ start + n <= Len(datas)
    BY SubRanges DEF Ranges, count
  <2>2. (start + pivot) + 1 \in 1..Len(datas)
    BY <1>1, <2>1
  <2>3. datas[(start + pivot) + 1] \in Entry
    BY <2>2
  <2> QED  BY <2>3, KeysAssumption DEF KeyAt, Entry
<1>3. n = 1 \/ n = 2 \/ n > 2
  BY <1>1
<1> QED  BY <1>2, <1>3 DEF PivotIs

LEMMA TurnCases ==
  ASSUME datas \in Seq(Entry), NEW find, NEW key \in Int, NEW r \in Ranges,
         NEW start, NEW n, NEW pivot, start = r[1], n = r[2], pivot = n \div 2
  PROVE  TurnIs(find, key, start, n, pivot, Turn(find, key, r))
<1>1. n \in Nat \ {0}
  BY DEF Ranges, count
<1>2. /\ n = 1 => ~(n = 2) /\ ~(n > 2)
      /\ n = 2 => ~(n = 1) /\ ~(n > 2)
      /\ n > 2 => ~(n = 1) /\ ~(n = 2)
  BY <1>1
<1>3. n > 2 => KeyAt(start + pivot) \in Int
  BY PivotCases DEF PivotIs
<1> PICK k : k = KeyAt(start + pivot)
  OBVIOUS
<1>4. /\ n > 2 /\ key < k => ~(key > k) /\ ~(key = k)
      /\ n > 2 /\ key > k => ~(key < k) /\ ~(key = k)
      /\ n > 2 /\ key = k => ~(key < k) /\ ~(key > k)
  BY <1>3
<1>5. Turn(find, key, r) =
        CASE n = 1 -> OneLeft(key, start)
          [] n = 2 -> TwoLeft(key, start)
          [] n > 2 /\ key < k -> find[<<start, pivot>>]
          [] n > 2 /\ key > k -> find[<<start + pivot + 1, n - pivot - 1>>]
          [] n > 2 /\ key = k -> pivot
  BY Zenon DEF Turn
<1>6. n = 1 => Turn(find, key, r) = OneLeft(key, start)
  BY <1>2, <1>5, Zenon
<1>7. n = 2 => Turn(find, key, r) = TwoLeft(key, start)
  BY <1>2, <1>5, Zenon
<1>8. n > 2 /\ key < k => Turn(find, key, r) = find[<<start, pivot>>]
  BY <1>2, <1>4, <1>5, Zenon
<1>9. n > 2 /\ key > k => Turn(find, key, r) = find[<<start + pivot + 1, n - pivot - 1>>]
  BY <1>2, <1>4, <1>5, Zenon
<1>10. n > 2 /\ key = k => Turn(find, key, r) = pivot
  BY <1>2, <1>4, <1>5, Zenon
<1> QED  BY <1>6, <1>7, <1>8, <1>9, <1>10 DEF TurnIs

(* The recursion of the search ends: each turn looks at a smaller range.   *)
LEMMA SearchExists ==
  ASSUME datas \in Seq(Entry), NEW key \in Int
  PROVE  \E find : IsSearch(find, key)
<1> DEFINE Below(N) == {r \in Ranges : r[2] <= N}
           T == {N \in 0..count : \E f : f = [r \in Below(N) |-> Turn(f, key, r)]}
<1>0. count \in Nat /\ \A r \in Ranges : r[2] \in 1..count
  BY DEF count, Ranges
<1>1. 0 \in T
  <2>1. Below(0) = {}
    BY <1>0
  <2>2. PICK f : f = [r \in Below(0) |-> 0]
    OBVIOUS
  <2>3. f = [r \in Below(0) |-> Turn(f, key, r)]
    <3> HIDE DEF Below
    <3>1. \A r \in Below(0) : Turn(f, key, r) = 0
      BY <2>1
    <3> QED  BY <2>2, <3>1
  <2>4. 0 \in 0..count
    BY <1>0
  <2> QED  BY <2>3, <2>4
<1>2. ASSUME NEW N \in 1..count, N - 1 \in T PROVE N \in T
  <2>1. PICK f : f = [r \in Below(N - 1) |-> Turn(f, key, r)]
    BY <1>2
  <2> DEFINE h == [r \in Below(N) |-> IF r[2] <= N - 1 THEN f[r] ELSE Turn(f, key, r)]
  <2>2. \A r \in Below(N - 1) : r \in Below(N) /\ h[r] = f[r]
    BY <1>0
  <2>3. ASSUME NEW r \in Below(N) PROVE h[r] = Turn(f, key, r)
    <3>1. CASE r[2] <= N - 1
      BY <2>1, <2>3, <3>1
    <3>2. CASE ~(r[2] <= N - 1)
      BY <2>3, <3>2
    <3> QED  BY <3>1, <3>2
  <2>d. DOMAIN h = Below(N) /\ h = [r \in Below(N) |-> h[r]]
    OBVIOUS
  <2> HIDE DEF h
  <2>4. ASSUME NEW r \in Below(N) PROVE Turn(h, key, r) = Turn(f, key, r)
    <3>1. PICK start, n, pivot : start = r[1] /\ n = r[2] /\ pivot = n \div 2
      OBVIOUS
    <3>2. r \in Ranges /\ n \in 1..count /\ n <= N
      BY <1>0, <3>1
    <3>3. n > 2 => /\ <<start, pivot>> \in Below(N - 1)
                   /\ <<start + pivot + 1, n - pivot - 1>> \in Below(N - 1)
      <4> SUFFICES ASSUME n > 2
                   PROVE  /\ <<start, pivot>> \in Below(N - 1)
                          /\ <<start + pivot + 1, n - pivot - 1>> \in Below(N - 1)
        OBVIOUS
      <4>1. /\ pivot \in 1..(n - 2) /\ <<start, pivot>> \in Ranges
            /\ <<start + pivot + 1, n - pivot - 1>> \in Ranges
        BY <3>1, <3>2, SubRanges
      <4>2. pivot <= N - 1 /\ n - pivot - 1 <= N - 1
        BY <3>2, <4>1
      <4> QED  BY <4>1, <4>2
    <3>4. n > 2 => /\ h[<<start, pivot>>] = f[<<start, pivot>>]
                   /\ h[<<start + pivot + 1, n - pivot - 1>>] = f[<<start + pivot + 1, n - pivot - 1>>]
      BY <2>2, <3>3
    <3> HIDE DEF Below
    <3>5. TurnIs(h, key, start, n, pivot, Turn(h, key, r))
      BY <3>1, <3>2, TurnCases
    <3>6. TurnIs(f, key, start, n, pivot, Turn(f, key, r))
      BY <3>1, <3>2, TurnCases
    <3>7. PivotIs(key, start, n, pivot)
      BY <3>1, <3>2, PivotCases
    <3> QED  BY <3>4, <3>5, <3>6, <3>7 DEF TurnIs, PivotIs
  <2>5. h = [r \in Below(N) |-> Turn(h, key, r)]
    BY <2>3, <2>4, <2>d
  <2> QED  BY <2>5
<1>3. count \in T
  <2> HIDE DEF T
  <2>1. \A N \in 1..count : N - 1 \in T => N \in T
    BY <1>2
  <2>2. \A N \in 0..count : N \in T
    BY <1>0, <1>1, <2>1, SetInduction
  <2>3. count \in 0..count
    BY <1>0
  <2> QED  BY <2>2, <2>3
<1>4. Below(count) = Ranges
  BY <1>0
<1> QED  BY <1>3, <1>4 DEF IsSearch

LEMMA SearchIs ==
  ASSUME datas \in Seq(Entry), NEW key \in Int
  PROVE  /\ count = 0 => associative_lookup_(key) = -1
         /\ count # 0 => \E find : /\ associative_lookup_(key) = find[<<0, count>>]
                                   /\ \A r \in Ranges : find[r] = Turn(find, key, r)
<1> DEFINE find == CHOOSE find : IsSearch(find, key)
<1>1. IsSearch(find, key)
  BY SearchExists
<1>2. associative_lookup_(key) = IF count = 0 THEN -1 ELSE find[<<0, count>>]
  BY Zenon DEF associative_lookup_, IsSearch, Turn, Ranges
<1> HIDE DEF find
<1>3. \A r \in Ranges : find[r] = Turn(find, key, r)
  BY <1>1 DEF IsSearch
<1> QED  BY <1>2, <1>3

-----------------------------------------------------------------------------
(* The search returns an index of an entry, or -1, for every number of     *)
(* entries: the position it returns for the pivot is less than the length  *)
(* of its range.                                                           *)
LEMMA LookupRange ==
  ASSUME datas \in Seq(Entry), NEW key \in Int
  PROVE  associative_lookup_(key) \in -1..(count - 1)
<1>0. count \in Nat
  BY DEF count
<1>1. CASE count = 0
  BY <1>1, SearchIs
<1>2. CASE count # 0
  <2>1. PICK find : /\ associative_lookup_(key) = find[<<0, count>>]
                    /\ \A r \in Ranges : find[r] = Turn(find, key, r)
    BY <1>2, SearchIs
  <2> DEFINE T == {N \in 0..count : \A r \in Ranges : r[2] <= N => find[r] \in -1..(count - 1)}
  <2>2. 0 \in T
    <3>1. \A r \in Ranges : ~(r[2] <= 0)
      BY <1>0 DEF Ranges
    <3> QED  BY <1>0, <3>1
  <2>3. ASSUME NEW N \in 1..count, N - 1 \in T PROVE N \in T
    <3> SUFFICES ASSUME NEW r \in Ranges, r[2] <= N PROVE find[r] \in -1..(count - 1)
      BY <1>0
    <3>1. PICK start, n, pivot : start = r[1] /\ n = r[2] /\ pivot = n \div 2
      OBVIOUS
    <3>2. start \in 0..count /\ n \in 1..count /\ start + n <= count /\ n <= N
      BY <3>1 DEF Ranges
    <3>3. find[r] = Turn(find, key, r)
      BY <2>1
    <3>4. TurnIs(find, key, start, n, pivot, Turn(find, key, r))
      BY <3>1, TurnCases
    <3>5. PivotIs(key, start, n, pivot)
      BY <3>1, PivotCases
    <3>6. n = 1 => OneLeft(key, start) \in -1..(count - 1)
      BY <1>0, <3>2 DEF OneLeft
    <3>7. n = 2 => TwoLeft(key, start) \in -1..(count - 1)
      BY <1>0, <3>2 DEF TwoLeft
    <3>8. n > 2 => /\ find[<<start, pivot>>] \in -1..(count - 1)
                   /\ find[<<start + pivot + 1, n - pivot - 1>>] \in -1..(count - 1)
                   /\ pivot \in -1..(count - 1)
      <4> SUFFICES ASSUME n > 2
                   PROVE  /\ find[<<start, pivot>>] \in -1..(count - 1)
                          /\ find[<<start + pivot + 1, n - pivot - 1>>] \in -1..(count - 1)
                          /\ pivot \in -1..(count - 1)
        OBVIOUS
      <4>1. /\ pivot \in 1..(n - 2) /\ <<start, pivot>> \in Ranges
            /\ <<start + pivot + 1, n - pivot - 1>> \in Ranges
        BY <3>1, SubRanges
      <4>2. pivot <= N - 1 /\ n - pivot - 1 <= N - 1
        BY <1>0, <3>2, <4>1
      <4>3. <<start, pivot>>[2] = pivot
            /\ <<start + pivot + 1, n - pivot - 1>>[2] = n - pivot - 1
        OBVIOUS
      <4>4. \A q \in Ranges : q[2] <= N - 1 => find[q] \in -1..(count - 1)
        BY <2>3
      <4>5. pivot \in -1..(count - 1)
        BY <1>0, <3>2, <4>1
      <4> QED  BY <4>1, <4>2, <4>3, <4>4, <4>5
    <3> QED  BY <3>3, <3>4, <3>5, <3>6, <3>7, <3>8 DEF TurnIs, PivotIs
  <2>4. count \in T
    <3> HIDE DEF T
    <3>1. \A N \in 1..count : N - 1 \in T => N \in T
      BY <2>3
    <3>2. \A N \in 0..count : N \in T
      BY <1>0, <2>2, <3>1, SetInduction
    <3>3. count \in 0..count
      BY <1>0
    <3> QED  BY <3>2, <3>3
  <2>5. <<0, count>> \in Ranges
    BY <1>0, <1>2 DEF Ranges
  <2>6. <<0, count>>[2] = count /\ count <= count
    BY <1>0
  <2> QED  BY <2>1, <2>4, <2>5, <2>6
<1> QED  BY <1>1, <1>2

-----------------------------------------------------------------------------
(* The array is allocated for one entry at least and doubled when full.    *)
Allocated == AssociativeTypeOK /\ size # 0

LEMMA FoundIsIndex ==
  ASSUME NEW key
  PROVE  /\ FoundIndex(key) = -1 \/ FoundIndex(key) \in 0..(count - 1)
         /\ FoundIndex(key) # -1 => KeyAt(FoundIndex(key)) = key
BY DEF FoundIndex

LEMMA StaysAllocated ==
  Allocated /\ [AssociativeNext]_associativeVars => Allocated'
<1> SUFFICES ASSUME Allocated, [AssociativeNext]_associativeVars PROVE Allocated'
  OBVIOUS
<1>0. datas \in Seq(Entry) /\ size \in Nat /\ size # 0 /\ Len(datas) <= size
  BY DEF Allocated, AssociativeTypeOK, count
<1>1. ASSUME NEW k \in Keys, NEW d \in Values, associative_insert(k, d) PROVE Allocated'
  <2>1. CASE FoundIndex(k) # -1
    BY <1>0, <1>1, <2>1 DEF associative_insert, associativeVars, Allocated, AssociativeTypeOK, count
  <2>2. CASE FoundIndex(k) = -1
    <3>1. PICK p : p = associative_lookup_(k) + 2
      OBVIOUS
    <3>2. p \in 1..(Len(datas) + 1)
      <4>1. associative_lookup_(k) \in -1..(Len(datas) - 1)
        BY <1>0, LookupRange, KeysAssumption DEF count
      <4> QED  BY <3>1, <4>1
    <3>3. PICK e : e = [key |-> k, data |-> d]
      OBVIOUS
    <3>4. e \in Entry
      BY <3>3 DEF Entry
    <3>5. /\ datas' = InsertAt(datas, p, e)
          /\ size' = IF Len(datas) = size THEN 2 * size ELSE size
      BY <1>1, <2>2, <3>1, <3>3, Zenon DEF associative_insert, count
    <3>6. datas' \in Seq(Entry) /\ Len(datas') = Len(datas) + 1
      BY <1>0, <3>2, <3>4, <3>5, InsertAtInserts DEF IsInserted
    <3>7. size' \in Nat /\ size' # 0 /\ Len(datas') <= size'
      BY <1>0, <3>5, <3>6
    <3> QED  BY <3>6, <3>7 DEF Allocated, AssociativeTypeOK, count
  <2> QED  BY <2>1, <2>2
<1>2. ASSUME NEW k \in Keys, associative_remove(k) PROVE Allocated'
  <2>1. CASE FoundIndex(k) = -1
    BY <1>0, <1>2, <2>1 DEF associative_remove, Allocated, AssociativeTypeOK, count
  <2>2. CASE FoundIndex(k) # -1
    <3>1. PICK p : p = FoundIndex(k) + 1
      OBVIOUS
    <3>2. p \in 1..Len(datas)
      BY <1>0, <2>2, <3>1, FoundIsIndex DEF count
    <3>3. datas' = RemoveAt(datas, p) /\ size' = size
      BY <1>2, <2>2, <3>1, Zenon DEF associative_remove
    <3>4. datas' \in Seq(Entry) /\ Len(datas') = Len(datas) - 1
      BY <1>0, <3>2, <3>3, RemoveAtRemoves DEF IsRemoved
    <3>5. Len(datas') <= size'
      BY <1>0, <3>3, <3>4
    <3> QED  BY <1>0, <3>3, <3>4, <3>5 DEF Allocated, AssociativeTypeOK, count
  <2> QED  BY <2>1, <2>2
<1>3. CASE associative_clear
  BY <1>0, <1>3 DEF associative_clear, Allocated, AssociativeTypeOK, count
<1>4. CASE UNCHANGED associativeVars
  BY <1>0, <1>4 DEF associativeVars, Allocated, AssociativeTypeOK, count
<1> QED  BY <1>1, <1>2, <1>3, <1>4 DEF AssociativeNext

(* An array always holds entries and never more of them than it was        *)
(* allocated for, whatever the keys, the bound on the entries and the size *)
(* it is first allocated for, when that is not 0.                          *)
THEOREM ArrayNeverOverflows == AssociativeSpec => []AssociativeTypeOK
<1>1. AssociativeInit => Allocated
  BY InitSizeAssumption DEF AssociativeInit, Allocated, AssociativeTypeOK, count
<1>2. Allocated => AssociativeTypeOK
  BY DEF Allocated
<1> QED  BY <1>1, <1>2, StaysAllocated, PTL DEF AssociativeSpec

-----------------------------------------------------------------------------
(* The search of up to six entries.  A range is searched in place when the *)
(* position found is that of its last key not above the one looked for, or *)
(* the one before the range.                                               *)
InPlace(idx, key, start, n) ==
  /\ idx \in (start - 1)..(start + n - 1)
  /\ \A i \in start..(start + n - 1) : KeyAt(i) <= key <=> i <= idx

Sorted == Allocated /\ StrictlyAscending

LEMMA KeysAscend ==
  ASSUME Sorted
  PROVE  /\ count \in Nat
         /\ \A i \in 0..(count - 1) : KeyAt(i) \in Keys /\ KeyAt(i) \in Int
         /\ \A i, j \in 0..(count - 1) : i < j => KeyAt(i) < KeyAt(j)
<1>0. datas \in Seq(Entry) /\ count \in Nat /\ count = Len(datas)
  BY DEF Sorted, Allocated, AssociativeTypeOK, count
<1>1. ASSUME NEW i \in 0..(count - 1) PROVE i + 1 \in 1..count /\ KeyAt(i) \in Keys
  <2>1. i + 1 \in 1..Len(datas)
    BY <1>0
  <2>2. datas[i + 1] \in Entry
    BY <1>0, <2>1
  <2> QED  BY <1>0, <2>1, <2>2 DEF Entry, KeyAt
<1>2. ASSUME NEW i \in 0..(count - 1), NEW j \in 0..(count - 1), i < j
      PROVE  KeyAt(i) < KeyAt(j)
  <2>1. i + 1 \in 1..count /\ j + 1 \in 1..count /\ i + 1 < j + 1
    BY <1>0, <1>2
  <2> QED  BY <2>1 DEF Sorted, StrictlyAscending, KeyAt
<1> QED  BY <1>0, <1>1, <1>2, KeysAssumption

LEMMA OneInPlace ==
  ASSUME Sorted, NEW key \in Int, NEW start \in 0..(count - 1)
  PROVE  InPlace(OneLeft(key, start), key, start, 1)
<1>1. count \in Nat /\ KeyAt(start) \in Int
  BY KeysAscend
<1>2. \A i \in start..(start + 1 - 1) : i = start
  BY <1>1
<1> QED  BY <1>1, <1>2 DEF InPlace, OneLeft

LEMMA TwoInPlace ==
  ASSUME Sorted, NEW key \in Int, NEW start \in 0..(count - 2)
  PROVE  InPlace(TwoLeft(key, start), key, start, 2)
<1>1. count \in Nat
  BY KeysAscend
<1>2. start \in 0..(count - 1) /\ start + 1 \in 0..(count - 1) /\ start < start + 1
  BY <1>1
<1>3. KeyAt(start) \in Int /\ KeyAt(start + 1) \in Int /\ KeyAt(start) < KeyAt(start + 1)
  BY <1>2, KeysAscend
<1>4. \A i \in start..(start + 2 - 1) : i = start \/ i = start + 1
  BY <1>1
<1>5. TwoLeft(key, start) \in (start - 1)..(start + 2 - 1)
  BY <1>1, <1>2 DEF TwoLeft
<1>6. (KeyAt(start) <= key <=> start <= TwoLeft(key, start))
  BY <1>1, <1>2, <1>3 DEF TwoLeft
<1>7. (KeyAt(start + 1) <= key <=> start + 1 <= TwoLeft(key, start))
  BY <1>1, <1>2, <1>3 DEF TwoLeft
<1> QED  BY <1>4, <1>5, <1>6, <1>7 DEF InPlace

(* A range that starts at 0 is searched in place when both its halves are. *)
LEMMA HalvesInPlace ==
  ASSUME Sorted, NEW key \in Int, NEW find, \A r \in Ranges : find[r] = Turn(find, key, r),
         NEW n \in 3..count, NEW p, p = n \div 2,
         InPlace(find[<<0, p>>], key, 0, p),
         InPlace(find[<<p + 1, n - p - 1>>], key, p + 1, n - p - 1)
  PROVE  InPlace(find[<<0, n>>], key, 0, n)
<1>0. /\ count \in Nat
      /\ \A i \in 0..(count - 1) : KeyAt(i) \in Int
      /\ \A i, j \in 0..(count - 1) : i < j => KeyAt(i) < KeyAt(j)
  BY KeysAscend
<1>s. datas \in Seq(Entry)
  BY DEF Sorted, Allocated, AssociativeTypeOK
<1>1. <<0, n>> \in Ranges
  BY <1>0 DEF Ranges
<1>2. n > 2 /\ n \in Nat
  BY <1>0
<1>3. p \in 1..(n - 2)
  BY <1>2
<1>4. PICK r, start : r = <<0, n>> /\ start = 0
  OBVIOUS
<1>5. r \in Ranges /\ start = r[1] /\ n = r[2] /\ 0 + p = p
  BY <1>1, <1>3, <1>4
<1>6. TurnIs(find, key, start, n, p, Turn(find, key, r))
  BY <1>s, <1>5, TurnCases
<1>7. /\ key < KeyAt(p) => find[<<0, n>>] = find[<<0, p>>]
      /\ key > KeyAt(p) => find[<<0, n>>] = find[<<p + 1, n - p - 1>>]
      /\ key = KeyAt(p) => find[<<0, n>>] = p
  BY <1>2, <1>4, <1>5, <1>6 DEF TurnIs
<1>8. p \in 0..(count - 1) /\ KeyAt(p) \in Int
  BY <1>0, <1>3
<1>9. CASE key < KeyAt(p)
  <2>1. PICK idx : idx = find[<<0, p>>]
    OBVIOUS
  <2>2. idx \in (0 - 1)..(0 + p - 1) /\ \A i \in 0..(0 + p - 1) : KeyAt(i) <= key <=> i <= idx
    BY <2>1 DEF InPlace
  <2>3. idx \in (0 - 1)..(0 + n - 1)
    BY <1>3, <2>2
  <2>4. ASSUME NEW i \in 0..(0 + n - 1) PROVE KeyAt(i) <= key <=> i <= idx
    <3>1. CASE i < p
      BY <1>3, <2>2, <3>1
    <3>2. CASE i >= p
      <4>1. i \in 0..(count - 1) /\ ~(i <= idx)
        BY <1>0, <1>3, <2>2, <3>2
      <4>2. KeyAt(p) < KeyAt(i) \/ i = p
        BY <1>0, <1>3, <1>8, <3>2, <4>1
      <4>3. KeyAt(i) \in Int
        BY <1>0, <4>1
      <4> QED  BY <1>8, <1>9, <4>1, <4>2, <4>3
    <3> QED  BY <1>3, <3>1, <3>2
  <2> QED  BY <1>7, <1>9, <2>1, <2>3, <2>4 DEF InPlace
<1>10. CASE key > KeyAt(p)
  <2>1. PICK idx : idx = find[<<p + 1, n - p - 1>>]
    OBVIOUS
  <2>2. /\ idx \in (p + 1 - 1)..(p + 1 + (n - p - 1) - 1)
        /\ \A i \in (p + 1)..(p + 1 + (n - p - 1) - 1) : KeyAt(i) <= key <=> i <= idx
    BY <2>1 DEF InPlace
  <2>3. idx \in (0 - 1)..(0 + n - 1) /\ p <= idx
    BY <1>3, <2>2
  <2>4. ASSUME NEW i \in 0..(0 + n - 1) PROVE KeyAt(i) <= key <=> i <= idx
    <3>1. CASE i > p
      <4>1. i \in (p + 1)..(p + 1 + (n - p - 1) - 1)
        BY <1>3, <3>1
      <4> QED  BY <2>2, <4>1
    <3>2. CASE i <= p
      <4>1. i \in 0..(count - 1) /\ i <= idx
        BY <1>0, <1>3, <2>3, <3>2
      <4>2. KeyAt(i) < KeyAt(p) \/ i = p
        BY <1>0, <1>3, <1>8, <3>2, <4>1
      <4>3. KeyAt(i) \in Int
        BY <1>0, <4>1
      <4> QED  BY <1>8, <1>10, <4>1, <4>2, <4>3
    <3> QED  BY <1>3, <3>1, <3>2
  <2> QED  BY <1>7, <1>10, <2>1, <2>3, <2>4 DEF InPlace
<1>11. CASE key = KeyAt(p)
  <2>1. p \in (0 - 1)..(0 + n - 1)
    BY <1>3
  <2>2. ASSUME NEW i \in 0..(0 + n - 1) PROVE KeyAt(i) <= key <=> i <= p
    <3>1. i \in 0..(count - 1)
      BY <1>0
    <3>2. KeyAt(i) \in Int /\ (i < p => KeyAt(i) < KeyAt(p)) /\ (p < i => KeyAt(p) < KeyAt(i))
      BY <1>0, <1>8, <3>1
    <3>3. i < p \/ i = p \/ p < i
      BY <1>3
    <3> QED  BY <1>3, <1>8, <1>11, <3>2, <3>3
  <2> QED  BY <1>7, <1>11, <2>1, <2>2 DEF InPlace
<1>12. key < KeyAt(p) \/ key > KeyAt(p) \/ key = KeyAt(p)
  BY <1>8
<1> QED  BY <1>9, <1>10, <1>11, <1>12

LEMMA TurnOfFew ==
  ASSUME datas \in Seq(Entry), NEW find, NEW key \in Int, NEW r \in Ranges
  PROVE  /\ r[2] = 1 => Turn(find, key, r) = OneLeft(key, r[1])
         /\ r[2] = 2 => Turn(find, key, r) = TwoLeft(key, r[1])
<1>1. PICK start, n, pivot : start = r[1] /\ n = r[2] /\ pivot = n \div 2
  OBVIOUS
<1>2. TurnIs(find, key, start, n, pivot, Turn(find, key, r))
  BY <1>1, TurnCases
<1> QED  BY <1>1, <1>2 DEF TurnIs

LEMMA SearchInPlace ==
  ASSUME Sorted, NEW key \in Int, count \in 1..6
  PROVE  InPlace(associative_lookup_(key), key, 0, count)
<1>s. datas \in Seq(Entry)
  BY DEF Sorted, Allocated, AssociativeTypeOK
<1>1. PICK find : /\ associative_lookup_(key) = find[<<0, count>>]
                  /\ \A r \in Ranges : find[r] = Turn(find, key, r)
  BY <1>s, SearchIs
<1>2. ASSUME NEW a \in 0..(count - 1) PROVE InPlace(find[<<a, 1>>], key, a, 1)
  <2>1. PICK r : r = <<a, 1>>
    OBVIOUS
  <2>2. r \in Ranges /\ r[1] = a /\ r[2] = 1
    BY <2>1 DEF Ranges
  <2>5. Turn(find, key, r) = OneLeft(key, a)
    BY <1>s, <2>2, TurnOfFew
  <2> QED  BY <1>1, <2>1, <2>2, <2>5, OneInPlace
<1>3. ASSUME NEW a \in 0..(count - 2) PROVE InPlace(find[<<a, 2>>], key, a, 2)
  <2>1. PICK r : r = <<a, 2>>
    OBVIOUS
  <2>2. r \in Ranges /\ r[1] = a /\ r[2] = 2
    BY <2>1 DEF Ranges
  <2>5. Turn(find, key, r) = TwoLeft(key, a)
    BY <1>s, <2>2, TurnOfFew
  <2> QED  BY <1>1, <2>1, <2>2, <2>5, TwoInPlace
<1>4. count >= 3 => InPlace(find[<<0, 3>>], key, 0, 3)
  <2> SUFFICES ASSUME count >= 3 PROVE InPlace(find[<<0, 3>>], key, 0, 3)
    OBVIOUS
  <2>1. InPlace(find[<<0, 1>>], key, 0, 1) /\ InPlace(find[<<2, 1>>], key, 2, 1)
    BY <1>2
  <2>2. 3 \in 3..count /\ 1 = 3 \div 2 /\ 1 + 1 = 2 /\ 3 - 1 - 1 = 1
    OBVIOUS
  <2> QED  BY <1>1, <2>1, <2>2, HalvesInPlace
<1>5. count >= 4 => InPlace(find[<<0, 4>>], key, 0, 4)
  <2> SUFFICES ASSUME count >= 4 PROVE InPlace(find[<<0, 4>>], key, 0, 4)
    OBVIOUS
  <2>1. InPlace(find[<<0, 2>>], key, 0, 2) /\ InPlace(find[<<3, 1>>], key, 3, 1)
    BY <1>2, <1>3
  <2>2. 4 \in 3..count /\ 2 = 4 \div 2 /\ 2 + 1 = 3 /\ 4 - 2 - 1 = 1
    OBVIOUS
  <2> QED  BY <1>1, <2>1, <2>2, HalvesInPlace
<1>6. count >= 5 => InPlace(find[<<0, 5>>], key, 0, 5)
  <2> SUFFICES ASSUME count >= 5 PROVE InPlace(find[<<0, 5>>], key, 0, 5)
    OBVIOUS
  <2>1. InPlace(find[<<0, 2>>], key, 0, 2) /\ InPlace(find[<<3, 2>>], key, 3, 2)
    BY <1>3
  <2>2. 5 \in 3..count /\ 2 = 5 \div 2 /\ 2 + 1 = 3 /\ 5 - 2 - 1 = 2
    OBVIOUS
  <2> QED  BY <1>1, <2>1, <2>2, HalvesInPlace
<1>7. count >= 6 => InPlace(find[<<0, 6>>], key, 0, 6)
  <2> SUFFICES ASSUME count >= 6 PROVE InPlace(find[<<0, 6>>], key, 0, 6)
    OBVIOUS
  <2>1. InPlace(find[<<0, 3>>], key, 0, 3) /\ InPlace(find[<<4, 2>>], key, 4, 2)
    BY <1>3, <1>4
  <2>2. 6 \in 3..count /\ 3 = 6 \div 2 /\ 3 + 1 = 4 /\ 6 - 3 - 1 = 2
    OBVIOUS
  <2> QED  BY <1>1, <2>1, <2>2, HalvesInPlace
<1>8. count = 1 => InPlace(find[<<0, 1>>], key, 0, 1)
  BY <1>2
<1>9. count = 2 => InPlace(find[<<0, 2>>], key, 0, 2)
  BY <1>3
<1>10. PICK c : c = count
  OBVIOUS
<1>11. InPlace(find[<<0, c>>], key, 0, c)
  BY <1>4, <1>5, <1>6, <1>7, <1>8, <1>9, <1>10
<1> QED  BY <1>1, <1>10, <1>11

LEMMA SearchIsExact ==
  ASSUME Sorted, count <= 6, NEW key \in Int
  PROVE  /\ associative_lookup_(key) \in -1..(count - 1)
         /\ \A i \in 0..(count - 1) : KeyAt(i) <= key <=> i <= associative_lookup_(key)
<1>0. count \in Nat /\ datas \in Seq(Entry)
  BY DEF Sorted, Allocated, AssociativeTypeOK, count
<1>1. CASE count = 0
  BY <1>0, <1>1, SearchIs
<1>2. CASE count # 0
  <2>1. InPlace(associative_lookup_(key), key, 0, count)
    BY <1>0, <1>2, SearchInPlace
  <2>2. 0 - 1 = -1 /\ 0 + count - 1 = count - 1
    BY <1>0
  <2> QED  BY <2>1, <2>2 DEF InPlace
<1> QED  BY <1>1, <1>2

(* What a lookup finds: the one entry with the key.                        *)
FoundHere(key) ==
  /\ FoundIndex(key) = -1 => \A i \in 1..count : datas[i].key # key
  /\ FoundIndex(key) # -1 => /\ FoundIndex(key) + 1 \in 1..count
                             /\ datas[FoundIndex(key) + 1].key = key

LEMMA KeyIsFound ==
  ASSUME Sorted, count <= 6, NEW key \in Int
  PROVE  FoundHere(key)
<1>0. count \in Nat /\ \A i \in 0..(count - 1) : KeyAt(i) \in Int
  BY KeysAscend
<1>1. PICK idx : idx = associative_lookup_(key)
  OBVIOUS
<1>2. /\ idx \in -1..(count - 1)
      /\ \A i \in 0..(count - 1) : KeyAt(i) <= key <=> i <= idx
  BY <1>1, SearchIsExact
<1>3. FoundIndex(key) = IF idx \in 0..(count - 1) /\ KeyAt(idx) = key THEN idx ELSE -1
  BY <1>1, Zenon DEF FoundIndex
<1>4. CASE FoundIndex(key) = -1
  <2>1. ASSUME NEW i \in 1..count, datas[i].key = key PROVE FALSE
    <3>1. i - 1 \in 0..(count - 1) /\ (i - 1) + 1 = i
      BY <1>0
    <3>2. KeyAt(i - 1) = key
      BY <2>1, <3>1 DEF KeyAt
    <3>3. i - 1 <= idx
      BY <1>2, <3>1, <3>2
    <3>4. idx \in 0..(count - 1)
      BY <1>2, <3>1, <3>3
    <3>5. KeyAt(idx) <= key /\ KeyAt(idx) \in Int
      BY <1>0, <1>2, <3>4
    <3>6. KeyAt(idx) = key
      <4>1. idx = i - 1 \/ i - 1 < idx
        BY <3>1, <3>3, <3>4
      <4>2. i - 1 < idx => KeyAt(i - 1) < KeyAt(idx)
        BY <3>1, <3>4, KeysAscend
      <4> QED  BY <3>2, <3>5, <4>1, <4>2
    <3> QED  BY <1>3, <1>4, <3>4, <3>6
  <2> QED  BY <1>4, <2>1 DEF FoundHere
<1>5. CASE FoundIndex(key) # -1
  <2>1. FoundIndex(key) \in 0..(count - 1) /\ KeyAt(FoundIndex(key)) = key
    BY <1>5, FoundIsIndex
  <2>2. FoundIndex(key) + 1 \in 1..count
    BY <1>0, <2>1
  <2> QED  BY <1>5, <2>1, <2>2 DEF FoundHere, KeyAt
<1> QED  BY <1>4, <1>5

Bounded == Sorted /\ count <= MaxCount

(* Where an entry goes, and what goes when one is removed.                 *)
LEMMA InsertedWhere ==
  ASSUME Bounded, MaxCount <= 6, NEW k \in Keys, NEW d \in Values,
         associative_insert(k, d), FoundIndex(k) = -1
  PROVE  \E p \in 1..(count + 1) :
           /\ datas' \in Seq(Entry) /\ Len(datas') = count + 1 /\ count + 1 <= MaxCount
           /\ datas'[p] = [key |-> k, data |-> d]
           /\ \A j \in 1..(p - 1) : datas'[j] = datas[j] /\ datas[j].key < k
           /\ \A j \in (p + 1)..(count + 1) : datas'[j] = datas[j - 1] /\ k < datas[j - 1].key
<1>0. count \in Nat /\ datas \in Seq(Entry) /\ count = Len(datas) /\ k \in Int /\ count <= 6
      /\ MaxCount \in Nat /\ Sorted
  BY KeysAssumption, InitSizeAssumption
     DEF Bounded, Sorted, Allocated, AssociativeTypeOK, count
<1>1. PICK idx : idx = associative_lookup_(k)
  OBVIOUS
<1>2. /\ idx \in -1..(count - 1)
      /\ \A i \in 0..(count - 1) : KeyAt(i) <= k <=> i <= idx
  BY <1>0, <1>1, SearchIsExact
<1>3. PICK p : p = idx + 2
  OBVIOUS
<1>4. p \in 1..(count + 1)
  BY <1>0, <1>2, <1>3
<1>5. PICK e : e = [key |-> k, data |-> d]
  OBVIOUS
<1>6. e \in Entry
  BY <1>5 DEF Entry
<1>7. datas' = InsertAt(datas, p, e) /\ count < MaxCount
  BY <1>1, <1>3, <1>5, Zenon DEF associative_insert
<1>8. /\ datas' \in Seq(Entry) /\ Len(datas') = count + 1
      /\ \A j \in 1..(count + 1) :
           datas'[j] = IF j < p THEN datas[j] ELSE IF j = p THEN e ELSE datas[j - 1]
  <2>1. datas \in Seq(Entry) /\ p \in 1..(Len(datas) + 1)
    BY <1>0, <1>4
  <2>2. datas' \in Seq(Entry) /\ IsInserted(datas', datas, p, e)
    BY <1>6, <1>7, <2>1, InsertAtInserts
  <2> QED  BY <1>0, <2>2 DEF IsInserted
<1>9. \A i \in 1..count : datas[i].key # k /\ datas[i].key \in Int
  <2>1. FoundHere(k)
    BY <1>0, KeyIsFound
  <2>2. \A i \in 1..count : datas[i] \in Entry
    BY <1>0
  <2> QED  BY <2>1, <2>2, KeysAssumption DEF FoundHere, Entry
<1>10. \A i \in 1..count : datas[i].key <= k <=> i - 1 <= idx
  <2> SUFFICES ASSUME NEW i \in 1..count PROVE datas[i].key <= k <=> i - 1 <= idx
    OBVIOUS
  <2>1. i - 1 \in 0..(count - 1) /\ (i - 1) + 1 = i
    BY <1>0
  <2> QED  BY <1>2, <2>1 DEF KeyAt
<1>11. ASSUME NEW j \in 1..(p - 1) PROVE datas'[j] = datas[j] /\ datas[j].key < k
  <2>1. j \in 1..count /\ j \in 1..(count + 1) /\ j < p /\ j - 1 <= idx
    BY <1>0, <1>2, <1>3, <1>4
  <2>2. datas'[j] = datas[j]
    BY <1>8, <2>1
  <2>3. datas[j].key <= k /\ datas[j].key # k /\ datas[j].key \in Int
    BY <1>9, <1>10, <2>1
  <2> QED  BY <1>0, <2>2, <2>3
<1>12. ASSUME NEW j \in (p + 1)..(count + 1)
       PROVE  datas'[j] = datas[j - 1] /\ k < datas[j - 1].key
  <2>1. j - 1 \in 1..count /\ j \in 1..(count + 1) /\ ~(j < p) /\ j # p /\ ~((j - 1) - 1 <= idx)
    BY <1>0, <1>2, <1>3, <1>4
  <2>2. datas'[j] = datas[j - 1]
    BY <1>8, <2>1
  <2>3. ~(datas[j - 1].key <= k) /\ datas[j - 1].key \in Int
    BY <1>9, <1>10, <2>1
  <2> QED  BY <1>0, <2>2, <2>3
<1>13. datas'[p] = e
  BY <1>4, <1>8
<1>14. count + 1 <= MaxCount
  BY <1>0, <1>7
<1> QED  BY <1>4, <1>5, <1>8, <1>11, <1>12, <1>13, <1>14

LEMMA RemovedWhere ==
  ASSUME Bounded, NEW k, associative_remove(k), FoundIndex(k) # -1
  PROVE  \E p \in 1..count :
           /\ datas' \in Seq(Entry) /\ Len(datas') = count - 1
           /\ datas[p].key = k
           /\ \A j \in 1..(p - 1) : datas'[j] = datas[j]
           /\ \A j \in p..(count - 1) : datas'[j] = datas[j + 1]
<1>0. count \in Nat /\ datas \in Seq(Entry) /\ count = Len(datas)
  BY DEF Bounded, Sorted, Allocated, AssociativeTypeOK, count
<1>1. PICK p : p = FoundIndex(k) + 1
  OBVIOUS
<1>2. p \in 1..count /\ datas[p].key = k
  <2>1. FoundIndex(k) \in 0..(count - 1) /\ KeyAt(FoundIndex(k)) = k
    BY FoundIsIndex
  <2> QED  BY <1>0, <1>1, <2>1 DEF KeyAt
<1>3. datas' = RemoveAt(datas, p)
  BY <1>1, Zenon DEF associative_remove
<1>4. /\ datas' \in Seq(Entry) /\ Len(datas') = count - 1
      /\ \A j \in 1..(count - 1) : datas'[j] = IF j < p THEN datas[j] ELSE datas[j + 1]
  <2>1. datas' \in Seq(Entry) /\ IsRemoved(datas', datas, p)
    BY <1>0, <1>2, <1>3, RemoveAtRemoves
  <2> QED  BY <1>0, <2>1 DEF IsRemoved
<1>5. ASSUME NEW j \in 1..(p - 1) PROVE datas'[j] = datas[j]
  BY <1>0, <1>2, <1>4
<1>6. ASSUME NEW j \in p..(count - 1) PROVE datas'[j] = datas[j + 1]
  BY <1>0, <1>2, <1>4
<1> QED  BY <1>2, <1>4, <1>5, <1>6

LEMMA StaysBounded ==
  ASSUME MaxCount <= 6
  PROVE  Bounded /\ [AssociativeNext]_associativeVars => Bounded'
<1> SUFFICES ASSUME Bounded, [AssociativeNext]_associativeVars PROVE Bounded'
  OBVIOUS
<1>0. /\ count \in Nat /\ datas \in Seq(Entry) /\ count = Len(datas) /\ MaxCount \in Nat
      /\ \A i, j \in 1..count : i < j => datas[i].key < datas[j].key
      /\ \A i \in 1..count : datas[i].key \in Int
      /\ count <= MaxCount
  <2>1. /\ datas \in Seq(Entry) /\ count = Len(datas) /\ count <= MaxCount
        /\ \A i, j \in 1..count : i < j => datas[i].key < datas[j].key
    BY Zenon DEF Bounded, Sorted, Allocated, AssociativeTypeOK, StrictlyAscending, count
  <2>2. count \in Nat /\ MaxCount \in Nat
    BY <2>1, InitSizeAssumption
  <2>3. \A i \in 1..count : datas[i] \in Entry
    BY <2>1
  <2>4. \A i \in 1..count : datas[i].key \in Int
    BY <2>3, KeysAssumption DEF Entry
  <2> QED  BY <2>1, <2>2, <2>4
<1>1. Allocated'
  BY StaysAllocated DEF Bounded, Sorted
<1>2. SUFFICES /\ Len(datas') <= MaxCount
               /\ \A i, j \in 1..Len(datas') : i < j => datas'[i].key < datas'[j].key
  BY <1>1 DEF Bounded, Sorted, StrictlyAscending, count
<1>3. ASSUME NEW k \in Keys, NEW d \in Values, associative_insert(k, d)
      PROVE  /\ Len(datas') <= MaxCount
             /\ \A i, j \in 1..Len(datas') : i < j => datas'[i].key < datas'[j].key
  <2>1. CASE FoundIndex(k) # -1
    BY <1>0, <1>3, <2>1 DEF associative_insert, associativeVars
  <2>2. CASE FoundIndex(k) = -1
    <3>1. PICK p \in 1..(count + 1) :
            /\ datas' \in Seq(Entry) /\ Len(datas') = count + 1 /\ count + 1 <= MaxCount
            /\ datas'[p] = [key |-> k, data |-> d]
            /\ \A j \in 1..(p - 1) : datas'[j] = datas[j] /\ datas[j].key < k
            /\ \A j \in (p + 1)..(count + 1) : datas'[j] = datas[j - 1] /\ k < datas[j - 1].key
      BY <1>3, <2>2, InsertedWhere
    <3>2. k \in Int /\ datas'[p].key = k
      BY <3>1, KeysAssumption
    <3>3. ASSUME NEW i \in 1..(count + 1), NEW j \in 1..(count + 1), i < j
          PROVE  datas'[i].key < datas'[j].key
      <4>1. CASE j < p
        <5>1. i \in 1..(p - 1) /\ j \in 1..(p - 1) /\ i \in 1..count /\ j \in 1..count
          BY <1>0, <3>3, <4>1
        <5> QED  BY <1>0, <3>1, <3>3, <5>1
      <4>2. CASE j = p
        <5>1. i \in 1..(p - 1)
          BY <1>0, <3>3, <4>2
        <5> QED  BY <3>1, <3>2, <4>2, <5>1
      <4>3. CASE j > p /\ i > p
        <5>1. /\ i \in (p + 1)..(count + 1) /\ j \in (p + 1)..(count + 1)
              /\ i - 1 \in 1..count /\ j - 1 \in 1..count /\ i - 1 < j - 1
          BY <1>0, <3>3, <4>3
        <5> QED  BY <1>0, <3>1, <5>1
      <4>4. CASE j > p /\ i = p
        <5>1. j \in (p + 1)..(count + 1)
          BY <1>0, <4>4
        <5> QED  BY <3>1, <3>2, <4>4, <5>1
      <4>5. CASE j > p /\ i < p
        <5>1. /\ i \in 1..(p - 1) /\ j \in (p + 1)..(count + 1)
              /\ i \in 1..count /\ j - 1 \in 1..count /\ i < j - 1
          BY <1>0, <4>5
        <5> QED  BY <1>0, <3>1, <5>1
      <4> QED  BY <4>1, <4>2, <4>3, <4>4, <4>5
    <3> QED  BY <3>1, <3>3
  <2> QED  BY <2>1, <2>2
<1>4. ASSUME NEW k \in Keys, associative_remove(k)
      PROVE  /\ Len(datas') <= MaxCount
             /\ \A i, j \in 1..Len(datas') : i < j => datas'[i].key < datas'[j].key
  <2>1. CASE FoundIndex(k) = -1
    BY <1>0, <1>4, <2>1 DEF associative_remove
  <2>2. CASE FoundIndex(k) # -1
    <3>1. PICK p \in 1..count :
            /\ datas' \in Seq(Entry) /\ Len(datas') = count - 1
            /\ datas[p].key = k
            /\ \A j \in 1..(p - 1) : datas'[j] = datas[j]
            /\ \A j \in p..(count - 1) : datas'[j] = datas[j + 1]
      BY <1>4, <2>2, RemovedWhere
    <3>2. ASSUME NEW i \in 1..(count - 1), NEW j \in 1..(count - 1), i < j
          PROVE  datas'[i].key < datas'[j].key
      <4>1. CASE j < p
        <5>1. i \in 1..(p - 1) /\ j \in 1..(p - 1) /\ i \in 1..count /\ j \in 1..count
          BY <1>0, <3>2, <4>1
        <5> QED  BY <1>0, <3>1, <3>2, <5>1
      <4>2. CASE ~(j < p) /\ i < p
        <5>1. /\ i \in 1..(p - 1) /\ j \in p..(count - 1)
              /\ i \in 1..count /\ j + 1 \in 1..count /\ i < j + 1
          BY <1>0, <3>2, <4>2
        <5> QED  BY <1>0, <3>1, <5>1
      <4>3. CASE ~(i < p)
        <5>1. /\ i \in p..(count - 1) /\ j \in p..(count - 1)
              /\ i + 1 \in 1..count /\ j + 1 \in 1..count /\ i + 1 < j + 1
          BY <1>0, <3>2, <4>3
        <5> QED  BY <1>0, <3>1, <5>1
      <4> QED  BY <4>1, <4>2, <4>3
    <3>3. count - 1 <= MaxCount
      BY <1>0
    <3> QED  BY <3>1, <3>2, <3>3
  <2> QED  BY <2>1, <2>2
<1>5. CASE associative_clear
  BY <1>0, <1>5 DEF associative_clear
<1>6. CASE UNCHANGED associativeVars
  BY <1>0, <1>6 DEF associativeVars
<1> QED  BY <1>3, <1>4, <1>5, <1>6 DEF AssociativeNext

LEMMA AlwaysBounded ==
  ASSUME MaxCount <= 6
  PROVE  AssociativeSpec => []Bounded
<1>1. AssociativeInit => Bounded
  BY InitSizeAssumption
     DEF AssociativeInit, Bounded, Sorted, Allocated, AssociativeTypeOK, StrictlyAscending, count
<1> QED  BY <1>1, StaysBounded, PTL DEF AssociativeSpec

(* While no more than six entries are stored, whatever their keys, the     *)
(* array stays sorted without two entries of a key: insertion puts an      *)
(* entry where the search will look for it.                                *)
THEOREM SmallArraysStaySorted ==
  ASSUME MaxCount <= 6
  PROVE  AssociativeSpec => []StrictlyAscending
<1>1. Bounded => StrictlyAscending
  BY DEF Bounded, Sorted
<1> QED  BY <1>1, AlwaysBounded, PTL

(* While no more than six entries are stored, whatever their keys, the     *)
(* search keeps the contract of its comment.  With seven it does not.      *)
THEOREM SmallArraysAreSearchedExactly ==
  ASSUME MaxCount <= 6
  PROVE  AssociativeSpec => []SearchContract
<1>1. Bounded => SearchContract
  <2> SUFFICES ASSUME Bounded PROVE SearchContract
    OBVIOUS
  <2>1. Sorted /\ count <= 6
    BY InitSizeAssumption DEF Bounded, Sorted, Allocated, AssociativeTypeOK, count
  <2> QED  BY <2>1, SearchIsExact, KeysAssumption DEF SearchContract
<1> QED  BY <1>1, AlwaysBounded, PTL

-----------------------------------------------------------------------------
(* Through lookups the array is a table.                                   *)
LookupsAreEntries ==
  \A k \in Keys :
    /\ (\A i \in 1..Len(datas) : datas[i].key # k) => associative_lookup(k) = Absent
    /\ \A i \in 1..Len(datas) : datas[i].key = k => associative_lookup(k) = datas[i].data

LEMMA LookupsFindEntries ==
  ASSUME MaxCount <= 6
  PROVE  Bounded => LookupsAreEntries
<1> SUFFICES ASSUME Bounded, NEW k \in Keys
             PROVE  /\ (\A i \in 1..Len(datas) : datas[i].key # k) => associative_lookup(k) = Absent
                    /\ \A i \in 1..Len(datas) : datas[i].key = k => associative_lookup(k) = datas[i].data
  BY DEF LookupsAreEntries
<1>0. /\ count \in Nat /\ count = Len(datas) /\ Sorted /\ count <= 6 /\ k \in Int
      /\ \A i, j \in 1..count : i < j => datas[i].key < datas[j].key
  BY InitSizeAssumption, KeysAssumption
     DEF Bounded, Sorted, Allocated, AssociativeTypeOK, StrictlyAscending, count
<1>k. \A i \in 1..count : datas[i].key \in Int
  <2>1. \A i \in 1..count : datas[i] \in Entry
    BY <1>0 DEF Sorted, Allocated, AssociativeTypeOK
  <2> QED  BY <2>1, KeysAssumption DEF Entry
<1>1. FoundHere(k)
  BY <1>0, KeyIsFound
<1>2. PICK f : f = FoundIndex(k)
  OBVIOUS
<1>3. associative_lookup(k) = IF f = -1 THEN Absent ELSE datas[f + 1].data
  BY <1>2, Zenon DEF associative_lookup
<1>4. /\ f = -1 => \A i \in 1..count : datas[i].key # k
      /\ f # -1 => f + 1 \in 1..count /\ datas[f + 1].key = k
  BY <1>1, <1>2, Zenon DEF FoundHere
<1>5. ASSUME \A i \in 1..Len(datas) : datas[i].key # k PROVE associative_lookup(k) = Absent
  <2>1. f = -1
    BY <1>0, <1>4, <1>5
  <2> QED  BY <1>3, <2>1
<1>6. ASSUME NEW i \in 1..Len(datas), datas[i].key = k
      PROVE  associative_lookup(k) = datas[i].data
  <2>1. f # -1
    BY <1>0, <1>4, <1>6
  <2>2. f + 1 \in 1..count /\ datas[f + 1].key = k
    BY <1>4, <2>1
  <2>3. i = f + 1
    <3>1. ~(i < f + 1)
      BY <1>0, <1>6, <1>k, <2>2
    <3>2. ~(f + 1 < i)
      BY <1>0, <1>6, <1>k, <2>2
    <3> QED  BY <1>0, <2>2, <3>1, <3>2
  <2> QED  BY <1>3, <2>1, <2>3
<1> QED  BY <1>5, <1>6

LEMMA StepsOfTable ==
  ASSUME MaxCount <= 6, Bounded, LookupsAreEntries, LookupsAreEntries',
         [AssociativeNext]_associativeVars,
         NEW t, NEW u,
         t = [k \in Keys |-> associative_lookup(k)],
         u = [k \in Keys |-> associative_lookup(k)]'
  PROVE  \/ \E k \in Keys, d \in Values :
              u = [t EXCEPT ![k] = IF @ = Absent THEN d ELSE @]
         \/ \E k \in Keys : u = [t EXCEPT ![k] = Absent]
         \/ u = [k \in Keys |-> Absent]
         \/ u = t
<1>t. /\ DOMAIN t = Keys /\ t = [k \in Keys |-> t[k]]
      /\ \A k \in Keys :
           /\ (\A i \in 1..Len(datas) : datas[i].key # k) => t[k] = Absent
           /\ \A i \in 1..Len(datas) : datas[i].key = k => t[k] = datas[i].data
  BY DEF LookupsAreEntries
<1>u. /\ DOMAIN u = Keys /\ u = [k \in Keys |-> u[k]]
      /\ \A k \in Keys :
           /\ (\A i \in 1..Len(datas') : datas'[i].key # k) => u[k] = Absent
           /\ \A i \in 1..Len(datas') : datas'[i].key = k => u[k] = datas'[i].data
  BY DEF LookupsAreEntries
<1>0. /\ count \in Nat /\ datas \in Seq(Entry) /\ count = Len(datas) /\ count <= 6
      /\ Sorted
      /\ \A i, j \in 1..count : i < j => datas[i].key < datas[j].key
  BY InitSizeAssumption DEF Bounded, Sorted, Allocated, AssociativeTypeOK, StrictlyAscending, count
<1>e. \A i \in 1..count : datas[i].key \in Keys /\ datas[i].key \in Int /\ datas[i].data \in Values
  <2>1. \A i \in 1..count : datas[i] \in Entry
    BY <1>0
  <2> QED  BY <2>1, KeysAssumption DEF Entry
<1>same. ASSUME datas' = datas PROVE u = t
  <2>1. ASSUME NEW k \in Keys PROVE u[k] = t[k]
    <3>1. CASE \A i \in 1..Len(datas) : datas[i].key # k
      BY <1>t, <1>u, <1>same, <3>1
    <3>2. CASE \E i \in 1..Len(datas) : datas[i].key = k
      BY <1>t, <1>u, <1>same, <3>2
    <3> QED  BY <3>1, <3>2
  <2> QED  BY <1>t, <1>u, <2>1
<1>1. ASSUME NEW k \in Keys, NEW d \in Values, associative_insert(k, d)
      PROVE  u = [t EXCEPT ![k] = IF @ = Absent THEN d ELSE @]
  <2>1. FoundHere(k)
    BY <1>0, KeyIsFound, KeysAssumption
  <2>2. CASE FoundIndex(k) # -1
    <3>1. datas' = datas
      BY <1>1, <2>2 DEF associative_insert, associativeVars
    <3>2. PICK i \in 1..count : datas[i].key = k
      BY <2>1, <2>2 DEF FoundHere
    <3>3. t[k] = datas[i].data /\ t[k] # Absent
      BY <1>0, <1>e, <1>t, <3>2, AbsentAssumption
    <3>4. u = t
      BY <1>same, <3>1
    <3> QED  BY <1>t, <3>3, <3>4
  <2>3. CASE FoundIndex(k) = -1
    <3>1. PICK p \in 1..(count + 1) :
            /\ datas' \in Seq(Entry) /\ Len(datas') = count + 1 /\ count + 1 <= MaxCount
            /\ datas'[p] = [key |-> k, data |-> d]
            /\ \A j \in 1..(p - 1) : datas'[j] = datas[j] /\ datas[j].key < k
            /\ \A j \in (p + 1)..(count + 1) : datas'[j] = datas[j - 1] /\ k < datas[j - 1].key
      BY <1>1, <2>3, InsertedWhere
    <3>2. t[k] = Absent
      BY <1>0, <1>t, <2>1, <2>3 DEF FoundHere
    <3>3. u[k] = d
      BY <1>u, <3>1
    <3>4. ASSUME NEW j \in Keys, j # k PROVE u[j] = t[j]
      <4>1. CASE \A i \in 1..count : datas[i].key # j
        <5>1. ASSUME NEW i \in 1..(count + 1) PROVE datas'[i].key # j
          <6>1. CASE i < p
            <7>1. i \in 1..(p - 1) /\ i \in 1..count
              BY <1>0, <6>1
            <7> QED  BY <3>1, <4>1, <7>1
          <6>2. CASE i = p
            BY <3>1, <3>4, <6>2
          <6>3. CASE i > p
            <7>1. i \in (p + 1)..(count + 1) /\ i - 1 \in 1..count
              BY <1>0, <6>3
            <7> QED  BY <3>1, <4>1, <7>1
          <6> QED  BY <1>0, <6>1, <6>2, <6>3
        <5>2. u[j] = Absent
          BY <1>u, <3>1, <5>1
        <5>3. t[j] = Absent
          BY <1>0, <1>t, <4>1
        <5> QED  BY <5>2, <5>3
      <4>2. CASE \E i \in 1..count : datas[i].key = j
        <5>1. PICK i \in 1..count : datas[i].key = j
          BY <4>2
        <5>2. t[j] = datas[i].data
          BY <1>0, <1>t, <5>1
        <5>3. CASE i < p
          <6>1. i \in 1..(p - 1) /\ i \in 1..(count + 1)
            BY <1>0, <5>3
          <6> QED  BY <1>u, <3>1, <5>1, <5>2, <6>1
        <5>4. CASE ~(i < p)
          <6>1. i + 1 \in (p + 1)..(count + 1) /\ i + 1 \in 1..(count + 1) /\ (i + 1) - 1 = i
            BY <1>0, <5>4
          <6>2. datas'[i + 1] = datas[i]
            BY <3>1, <6>1
          <6> QED  BY <1>u, <3>1, <5>1, <5>2, <6>1, <6>2
        <5> QED  BY <5>3, <5>4
      <4> QED  BY <4>1, <4>2
    <3> QED  BY <1>t, <1>u, <3>2, <3>3, <3>4
  <2> QED  BY <2>2, <2>3
<1>2. ASSUME NEW k \in Keys, associative_remove(k)
      PROVE  u = [t EXCEPT ![k] = Absent]
  <2>1. FoundHere(k)
    BY <1>0, KeyIsFound, KeysAssumption
  <2>2. CASE FoundIndex(k) = -1
    <3>1. datas' = datas
      BY <1>2, <2>2 DEF associative_remove
    <3>2. t[k] = Absent
      BY <1>0, <1>t, <2>1, <2>2 DEF FoundHere
    <3>3. u = t
      BY <1>same, <3>1
    <3> QED  BY <1>t, <3>2, <3>3
  <2>3. CASE FoundIndex(k) # -1
    <3>1. PICK p \in 1..count :
            /\ datas' \in Seq(Entry) /\ Len(datas') = count - 1
            /\ datas[p].key = k
            /\ \A j \in 1..(p - 1) : datas'[j] = datas[j]
            /\ \A j \in p..(count - 1) : datas'[j] = datas[j + 1]
      BY <1>2, <2>3, RemovedWhere
    <3>2. \A i \in 1..count : datas[i].key = k => i = p
      <4>1. ASSUME NEW i \in 1..count, datas[i].key = k, i # p PROVE FALSE
        <5>1. i < p \/ p < i
          BY <1>0, <4>1
        <5>2. i < p => datas[i].key < datas[p].key
          BY <1>0
        <5>3. p < i => datas[p].key < datas[i].key
          BY <1>0
        <5>4. k \in Int
          BY KeysAssumption
        <5> QED  BY <3>1, <4>1, <5>1, <5>2, <5>3, <5>4
      <4> QED  BY <4>1
    <3>3. u[k] = Absent
      <4>1. ASSUME NEW i \in 1..(count - 1) PROVE datas'[i].key # k
        <5>1. CASE i < p
          <6>1. i \in 1..(p - 1) /\ i \in 1..count /\ i # p
            BY <1>0, <5>1
          <6> QED  BY <3>1, <3>2, <6>1
        <5>2. CASE ~(i < p)
          <6>1. i \in p..(count - 1) /\ i + 1 \in 1..count /\ i + 1 # p
            BY <1>0, <5>2
          <6> QED  BY <3>1, <3>2, <6>1
        <5> QED  BY <5>1, <5>2
      <4> QED  BY <1>u, <3>1, <4>1
    <3>4. ASSUME NEW j \in Keys, j # k PROVE u[j] = t[j]
      <4>1. CASE \A i \in 1..count : datas[i].key # j
        <5>1. ASSUME NEW i \in 1..(count - 1) PROVE datas'[i].key # j
          <6>1. CASE i < p
            <7>1. i \in 1..(p - 1) /\ i \in 1..count
              BY <1>0, <6>1
            <7> QED  BY <3>1, <4>1, <7>1
          <6>2. CASE ~(i < p)
            <7>1. i \in p..(count - 1) /\ i + 1 \in 1..count
              BY <1>0, <6>2
            <7> QED  BY <3>1, <4>1, <7>1
          <6> QED  BY <6>1, <6>2
        <5>2. u[j] = Absent
          BY <1>u, <3>1, <5>1
        <5>3. t[j] = Absent
          BY <1>0, <1>t, <4>1
        <5> QED  BY <5>2, <5>3
      <4>2. CASE \E i \in 1..count : datas[i].key = j
        <5>1. PICK i \in 1..count : datas[i].key = j
          BY <4>2
        <5>2. t[j] = datas[i].data /\ i # p
          BY <1>0, <1>t, <3>1, <3>4, <5>1
        <5>3. CASE i < p
          <6>1. i \in 1..(p - 1) /\ i \in 1..(count - 1)
            BY <1>0, <5>3
          <6> QED  BY <1>u, <3>1, <5>1, <5>2, <6>1
        <5>4. CASE ~(i < p)
          <6>1. i - 1 \in p..(count - 1) /\ i - 1 \in 1..(count - 1) /\ (i - 1) + 1 = i
            BY <1>0, <5>2, <5>4
          <6>2. datas'[i - 1] = datas[i]
            BY <3>1, <6>1
          <6> QED  BY <1>u, <3>1, <5>1, <5>2, <6>1, <6>2
        <5> QED  BY <5>3, <5>4
      <4> QED  BY <4>1, <4>2
    <3> QED  BY <1>t, <1>u, <3>3, <3>4
  <2> QED  BY <2>2, <2>3
<1>3. ASSUME associative_clear PROVE u = [k \in Keys |-> Absent]
  <2>1. datas' = <<>>
    BY <1>3 DEF associative_clear
  <2>2. Len(datas') = 0
    BY <2>1
  <2>3. \A k \in Keys : u[k] = Absent
    BY <1>u, <2>2
  <2> QED  BY <1>u, <2>3
<1>4. ASSUME UNCHANGED associativeVars PROVE u = t
  <2>1. datas' = datas
    BY <1>4 DEF associativeVars
  <2> QED  BY <1>same, <2>1
<1> QED  BY <1>1, <1>2, <1>3, <1>4 DEF AssociativeNext

(* While no more than six entries are stored, whatever their keys and      *)
(* datas, the array implements a table: an insertion adds one key, or      *)
(* keeps the data of a key already there, a removal takes one key away,    *)
(* and neither changes what a lookup of another key returns.               *)
THEOREM SmallArraysImplementTable ==
  ASSUME MaxCount <= 6
  PROVE  AssociativeSpec => ImplementsKeyTable
<1>1. AssociativeInit => Table!TableInit
  <2> SUFFICES ASSUME AssociativeInit
               PROVE  [k \in Keys |-> associative_lookup(k)] = [k \in Keys |-> Absent]
    BY DEF Table!TableInit
  <2>1. datas = <<>> /\ count = 0 /\ datas \in Seq(Entry)
    BY DEF AssociativeInit, count
  <2>2. ASSUME NEW k \in Keys PROVE associative_lookup(k) = Absent
    <3>1. FoundIndex(k) = -1
      BY <2>1, FoundIsIndex
    <3> QED  BY <3>1 DEF associative_lookup
  <2> QED  BY <2>2
<1>2. ASSUME Bounded, LookupsAreEntries, LookupsAreEntries', [AssociativeNext]_associativeVars
      PROVE  [Table!TableNext]_([k \in Keys |-> associative_lookup(k)])
  <2>1. PICK t, u : /\ t = [k \in Keys |-> associative_lookup(k)]
                    /\ u = [k \in Keys |-> associative_lookup(k)]'
    OBVIOUS
  <2>2. \/ \E k \in Keys, d \in Values : u = [t EXCEPT ![k] = IF @ = Absent THEN d ELSE @]
        \/ \E k \in Keys : u = [t EXCEPT ![k] = Absent]
        \/ u = [k \in Keys |-> Absent]
        \/ u = t
    BY <1>2, <2>1, StepsOfTable
  <2> QED  BY <2>1, <2>2, Zenon DEF Table!TableNext, Table!TableInsert, Table!TableRemove, Table!TableClear
<1> QED  BY <1>1, <1>2, AlwaysBounded, LookupsFindEntries, PTL
         DEF AssociativeSpec, ImplementsKeyTable, Table!TableSpec
=============================================================================
