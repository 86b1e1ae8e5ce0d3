-------------------------- MODULE Operators_proofs --------------------------
(***************************************************************************)
(* Lemmas about operators without a state, for the proofs about the        *)
(* modules that use them: induction over numbers, the existence of         *)
(* recursive functions, sequences that are put together, and what the      *)
(* operations of the two-way map return, for every set of keys, of datas   *)
(* and every size.                                                         *)
(***************************************************************************)
EXTENDS BimapOps, Sequences, SequencesExt, FiniteSetTheorems, WellFoundedInduction, TLAPS

(* Numbers have a least one, which makes induction a matter of sets: what  *)
(* holds for 0 and with n for n + 1 is a set.                              *)
LEMMA LeastOfNaturals ==
  ASSUME NEW T \in SUBSET Nat, T # {}
  PROVE  \E n \in T : \A k \in T : n <= k
<1> DEFINE R == OpToRel(<, Nat)
<1>1. IsWellFoundedOn(R, Nat)
  BY NatLessThanWellFounded
<1>2. \A k, n \in Nat : <<k, n>> \in R <=> k < n
  BY DEF OpToRel
<1> HIDE DEF R
<1>3. PICK n \in T : \A k \in T : ~ <<k, n>> \in R
  BY <1>1, WFMin
<1>4. \A k \in T : ~(k < n)
  BY <1>2, <1>3
<1> QED BY <1>3, <1>4

LEMMA SetInduction ==
  ASSUME NEW N \in Nat, NEW T, 0 \in T, \A n \in 1..N : n - 1 \in T => n \in T
  PROVE  \A n \in 0..N : n \in T
<1>1. SUFFICES ASSUME NEW x \in 0..N, x \notin T PROVE FALSE
  OBVIOUS
<1> DEFINE U == {n \in 0..N : n \notin T}
<1>2. U \in SUBSET Nat /\ U # {}
  BY <1>1
<1>3. PICK n \in U : \A k \in U : n <= k
  <2> HIDE DEF U
  <2> QED  BY <1>2, LeastOfNaturals
<1>4. n # 0 /\ n \in 1..N /\ n \notin T
  BY <1>3
<1>5. n - 1 \in 0..N /\ ~(n <= n - 1)
  BY <1>4
<1>6. n - 1 \in T
  <2>1. n - 1 \notin U
    BY <1>3, <1>5
  <2> QED  BY <2>1, <1>5
<1> QED BY <1>4, <1>6

(* f is what the steps g make of v0, in a set V.                           *)
Iterates(f, V, v0, g, N) ==
  /\ f \in [0..N -> V]
  /\ f[0] = v0
  /\ \A n \in 1..N : f[n] = g[n][f[n - 1]]

(* A recursive function exists.                                            *)
LEMMA Recursion ==
  ASSUME NEW V, NEW v0 \in V, NEW g \in [Nat -> [V -> V]], NEW N \in Nat
  PROVE  \E f : Iterates(f, V, v0, g, N)
<1> DEFINE T == {m \in 0..N : \E f : Iterates(f, V, v0, g, m)}
<1>1. 0 \in T
  <2>1. [n \in 0..0 |-> v0] \in [0..0 -> V]
    OBVIOUS
  <2>2. [n \in 0..0 |-> v0][0] = v0
    OBVIOUS
  <2>3. Iterates([n \in 0..0 |-> v0], V, v0, g, 0)
    BY <2>1, <2>2 DEF Iterates
  <2> QED  BY <2>3
<1>2. ASSUME NEW m \in 1..N, m - 1 \in T PROVE m \in T
  <2>1. PICK f : Iterates(f, V, v0, g, m - 1)
    BY <1>2
  <2>2. /\ f \in [0..(m - 1) -> V] /\ f[0] = v0
        /\ \A n \in 1..(m - 1) : f[n] = g[n][f[n - 1]]
    BY <2>1 DEF Iterates
  <2> DEFINE v == g[m][f[m - 1]]
             h == [n \in 0..m |-> IF n = m THEN v ELSE f[n]]
  <2>3. v \in V
    BY <2>2
  <2>4. h \in [0..m -> V]
    BY <2>2, <2>3
  <2>5. h[0] = v0 /\ \A n \in 1..(m - 1) : h[n] = f[n] /\ h[n - 1] = f[n - 1]
    BY <2>2
  <2>6. h[m] = v /\ h[m - 1] = f[m - 1]
    OBVIOUS
  <2> HIDE DEF h
  <2>7. ASSUME NEW n \in 1..m PROVE h[n] = g[n][h[n - 1]]
    <3>1. CASE n \in 1..(m - 1)
      BY <2>2, <2>5, <3>1
    <3>2. CASE n = m
      BY <2>6, <3>2
    <3> QED  BY <3>1, <3>2
  <2>8. Iterates(h, V, v0, g, m)
    BY <2>4, <2>5, <2>7 DEF Iterates
  <2> QED  BY <2>8
<1>3. N \in T
  <2> HIDE DEF T
  <2>1. \A n \in 0..N : n \in T
    BY <1>1, <1>2, SetInduction
  <2> QED  BY <2>1
<1> QED  BY <1>3

(* Concatenating sequences of one set gives a sequence of it.              *)
Flat(f, s, N) == [i \in 1..N |-> IF i = 1 THEN s[i] ELSE f[i - 1] \o s[i]]

LEMMA FlattenSteps ==
  ASSUME NEW S, NEW N \in Nat \ {0}, NEW s \in [1..N -> Seq(S)]
  PROVE  \E f : f = Flat(f, s, N)
<1> DEFINE V == Seq(S)
           e == <<>>
           g == [n \in Nat |-> [v \in V |-> IF n \in 1..N THEN v \o s[n] ELSE v]]
<1>1. g \in [Nat -> [V -> V]]
  OBVIOUS
<1>2. ASSUME NEW n \in 1..N, NEW v \in V PROVE g[n][v] = v \o s[n]
  OBVIOUS
<1>3. e \in V /\ \A n \in 1..N : e \o s[n] = s[n] /\ s[n] \in V
  OBVIOUS
<1> HIDE DEF g, V, e
<1>4. PICK f : Iterates(f, V, e, g, N)
  BY <1>1, <1>3, Recursion
<1>5. \A n \in 1..N : f[n - 1] \in V /\ f[n] = f[n - 1] \o s[n]
  <2>1. \A n \in 1..N : f[n - 1] \in V /\ f[n] = g[n][f[n - 1]]
    BY <1>4 DEF Iterates
  <2> QED  BY <1>2, <2>1
<1>6. f[1] = s[1]
  <2>1. 1 \in 1..N /\ f[1 - 1] = e
    BY <1>4 DEF Iterates
  <2>2. f[1] = e \o s[1]
    BY <1>5, <2>1
  <2> QED  BY <1>3, <2>1, <2>2
<1> DEFINE h == [i \in 1..N |-> f[i]]
<1>7. ASSUME NEW i \in 1..N PROVE f[i] = IF i = 1 THEN s[i] ELSE h[i - 1] \o s[i]
  <2>1. CASE i = 1
    BY <1>6, <2>1
  <2>2. CASE i # 1
    <3>1. i - 1 \in 1..N
      BY <2>2
    <3> QED  BY <1>5, <2>2, <3>1
  <2> QED  BY <2>1, <2>2
<1>8. h = Flat(h, s, N)
  BY <1>7 DEF Flat
<1> QED  BY <1>8

LEMMA FlattenIsSeq ==
  ASSUME NEW S, NEW s \in Seq(Seq(S))
  PROVE  FlattenSeq(s) \in Seq(S)
<1> DEFINE N == Len(s)
<1>0. N \in Nat /\ s \in [1..N -> Seq(S)]
  OBVIOUS
<1>1. CASE N = 0
  BY <1>1 DEF FlattenSeq
<1>2. CASE N # 0
  <2> DEFINE c == CHOOSE f : f = Flat(f, s, N)
  <2>1. FlattenSeq(s) = c[N]
    BY <1>2 DEF FlattenSeq, Flat
  <2>2. \E f : f = Flat(f, s, N)
    <3> HIDE DEF N, c
    <3>1. N \in Nat \ {0}
      BY <1>0, <1>2
    <3> QED  BY <1>0, <3>1, FlattenSteps
  <2>3. c = Flat(c, s, N)
    BY <2>2
  <2> HIDE DEF c, N
  <2>4. \A i \in 1..N : c[i] = IF i = 1 THEN s[i] ELSE c[i - 1] \o s[i]
    BY <2>3 DEF Flat
  <2> DEFINE T == {n \in 0..N : n > 0 => c[n] \in Seq(S)}
  <2>5. 0 \in T
    BY <1>0
  <2>6. ASSUME NEW n \in 1..N, n - 1 \in T PROVE n \in T
    <3>1. n > 0 /\ (n # 1 => n - 1 > 0)
      BY <1>0
    <3>2. s[n] \in Seq(S) /\ (n # 1 => c[n - 1] \in Seq(S))
      BY <1>0, <2>6, <3>1
    <3>3. c[n] = IF n = 1 THEN s[n] ELSE c[n - 1] \o s[n]
      BY <2>4, Zenon
    <3>4. c[n] \in Seq(S)
      BY <3>2, <3>3
    <3> QED  BY <1>0, <3>4
  <2>7. \A n \in 0..N : n \in T
    <3> HIDE DEF T
    <3> QED  BY <1>0, <2>5, <2>6, SetInduction
  <2> QED  BY <1>0, <1>2, <2>1, <2>7
<1> QED  BY <1>1, <1>2

-----------------------------------------------------------------------------
(* The state of a map that leads every key to its value.                   *)
Sound(b) == SlotsAgree(b) /\ CountIsStored(b)

(* No two keys share a slot: the slot tells the key.                       *)
LEMMA LiveKeysAreInjective ==
  ASSUME NEW b, SlotsAgree(b), NEW k \in Live1(b), NEW h \in Live1(b),
         b.key_1_map[k] = b.key_1_map[h]
  PROVE  k = h
BY DEF SlotsAgree

(* A new map is sound and has no hole.                                     *)
LEMMA AllocIsSound ==
  ASSUME NEW Key1, NEW Key2, NEW Data, NEW junk, NEW size \in Nat,
         IsFiniteSet(Key1)
  PROVE  LET b == bimap_alloc(Key1, Key2, junk, size)
         IN /\ b \in BimapType(Key1, Key2, Data, junk, size)
            /\ Sound(b)
            /\ Live1(b) = {}
            /\ Live2(b) = {}
<1> DEFINE b == bimap_alloc(Key1, Key2, junk, size)
<1>1. b \in BimapType(Key1, Key2, Data, junk, size)
  BY DEF bimap_alloc, BimapType, NoIndex
<1>2. Live1(b) = {} /\ Live2(b) = {}
  BY DEF bimap_alloc, Live1, Live2, NoIndex
<1>3. SlotsAgree(b)
  BY <1>2 DEF SlotsAgree
<1>4. CountIsStored(b)
  BY <1>2, FS_EmptySet DEF CountIsStored, bimap_alloc
<1> QED
  BY <1>1, <1>2, <1>3, <1>4 DEF Sound

(* The fields of a map after an insertion.                                 *)
LEMMA InsertFields ==
  ASSUME NEW Key1, NEW Key2, NEW Data, NEW junk, NEW size \in Nat,
         NEW b \in BimapType(Key1, Key2, Data, junk, size),
         NEW k1 \in Key1, NEW k2 \in Key2, NEW d \in Data,
         CanInsert(b, k1, k2),
         NEW c, c = bimap_insert(b, k1, k2, d)
  PROVE  /\ b.count \in 0..(size - 1)
         /\ c \in BimapType(Key1, Key2, Data, junk, size)
         /\ c.count = b.count + 1
         /\ c.key_1_map = [b.key_1_map EXCEPT ![k1] = b.count]
         /\ c.key_2_map = [b.key_2_map EXCEPT ![k2] = b.count]
         /\ c.datas = [b.datas EXCEPT ![b.count] =
                         [k1 |-> k1, k2 |-> k2, data |-> d]]
         /\ Live1(c) = Live1(b) \cup {k1}
         /\ Live2(c) = Live2(b) \cup {k2}
         /\ k1 \notin Live1(b)
         /\ k2 \notin Live2(b)
<1> DEFINE slot == [k1 |-> k1, k2 |-> k2, data |-> d]
<1>1. b.count \in 0..(size - 1)
  BY DEF CanInsert, BimapType
<1>2. /\ c.count = b.count + 1
      /\ c.size = b.size
      /\ c.key_1_map = [b.key_1_map EXCEPT ![k1] = b.count]
      /\ c.key_2_map = [b.key_2_map EXCEPT ![k2] = b.count]
      /\ c.datas = [b.datas EXCEPT ![b.count] = slot]
  BY DEF bimap_insert
<1>3. slot \in Slot(Key1, Key2, Data)
  BY DEF Slot
<1>4. /\ c.key_1_map \in [Key1 -> NoIndex..(size - 1)]
      /\ c.key_2_map \in [Key2 -> NoIndex..(size - 1)]
  BY <1>1, <1>2 DEF BimapType, NoIndex
<1>5. c.datas \in [0..(size - 1) -> Slot(Key1, Key2, Data) \cup {junk}]
  BY <1>1, <1>2, <1>3 DEF BimapType
<1>6. c \in BimapType(Key1, Key2, Data, junk, size)
  BY <1>1, <1>2, <1>4, <1>5 DEF BimapType, bimap_insert
<1>7. Live1(c) = Live1(b) \cup {k1}
  BY <1>1, <1>2 DEF Live1, NoIndex, BimapType
<1>8. Live2(c) = Live2(b) \cup {k2}
  BY <1>1, <1>2 DEF Live2, NoIndex, BimapType
<1> QED
  BY <1>1, <1>2, <1>6, <1>7, <1>8 DEF CanInsert

(* What an insertion into a map without holes makes of map b.              *)
SoundlyInserted(b, k1, k2, d, c) ==
  /\ Sound(c)
  /\ Compact(c)
  /\ Live1(c) = Live1(b) \cup {k1}
  /\ Live2(c) = Live2(b) \cup {k2}
  /\ c.datas[c.key_1_map[k1]] = [k1 |-> k1, k2 |-> k2, data |-> d]
  /\ \A k \in Live1(b) :
       /\ c.key_1_map[k] = b.key_1_map[k]
       /\ c.datas[c.key_1_map[k]] = b.datas[b.key_1_map[k]]

(* Inserting where there is no hole keeps a map sound: the slot written    *)
(* holds no stored data, so every other key keeps its value.               *)
LEMMA InsertIsSound ==
  ASSUME NEW Key1, NEW Key2, NEW Data, NEW junk, NEW size \in Nat,
         IsFiniteSet(Key1),
         NEW b \in BimapType(Key1, Key2, Data, junk, size),
         NEW k1 \in Key1, NEW k2 \in Key2, NEW d \in Data,
         CanInsert(b, k1, k2), Sound(b), Compact(b),
         NEW c, c = bimap_insert(b, k1, k2, d)
  PROVE  SoundlyInserted(b, k1, k2, d, c)
<1> DEFINE slot == [k1 |-> k1, k2 |-> k2, data |-> d]
<1>1. /\ b.count \in 0..(size - 1)
      /\ c.count = b.count + 1
      /\ c.key_1_map = [b.key_1_map EXCEPT ![k1] = b.count]
      /\ c.key_2_map = [b.key_2_map EXCEPT ![k2] = b.count]
      /\ c.datas = [b.datas EXCEPT ![b.count] = slot]
      /\ Live1(c) = Live1(b) \cup {k1}
      /\ Live2(c) = Live2(b) \cup {k2}
      /\ k1 \notin Live1(b)
      /\ k2 \notin Live2(b)
  BY InsertFields
<1>2. /\ b.key_1_map \in [Key1 -> NoIndex..(size - 1)]
      /\ b.key_2_map \in [Key2 -> NoIndex..(size - 1)]
      /\ b.datas \in [0..(size - 1) -> Slot(Key1, Key2, Data) \cup {junk}]
      /\ Live1(b) \subseteq Key1
      /\ Live2(b) \subseteq Key2
  BY DEF BimapType, Live1, Live2
<1>3. /\ c.key_1_map[k1] = b.count
      /\ c.key_2_map[k2] = b.count
      /\ c.datas[b.count] = slot
  BY <1>1, <1>2
<1>4. ASSUME NEW k \in Live1(b)
      PROVE  /\ c.key_1_map[k] = b.key_1_map[k]
             /\ b.key_1_map[k] \in 0..(b.count - 1)
             /\ c.datas[c.key_1_map[k]] = b.datas[b.key_1_map[k]]
             /\ b.datas[b.key_1_map[k]].k1 = k
             /\ b.key_2_map[b.datas[b.key_1_map[k]].k2] = b.key_1_map[k]
  <2>1. k # k1 /\ k \in Key1
    BY <1>1, <1>2
  <2>2. b.key_1_map[k] \in 0..(b.count - 1)
    BY <2>1, <1>1, <1>2 DEF Compact, Live1, NoIndex
  <2>3. c.key_1_map[k] = b.key_1_map[k]
    BY <2>1, <1>1, <1>2
  <2>4. c.datas[b.key_1_map[k]] = b.datas[b.key_1_map[k]]
    BY <2>2, <1>1, <1>2
  <2>5. /\ b.datas[b.key_1_map[k]].k1 = k
        /\ b.key_2_map[b.datas[b.key_1_map[k]].k2] = b.key_1_map[k]
    BY DEF Sound, SlotsAgree
  <2> QED
    BY <2>2, <2>3, <2>4, <2>5
<1>5. ASSUME NEW k \in Live2(b)
      PROVE  /\ c.key_2_map[k] = b.key_2_map[k]
             /\ b.key_2_map[k] \in 0..(b.count - 1)
             /\ c.datas[c.key_2_map[k]] = b.datas[b.key_2_map[k]]
             /\ b.datas[b.key_2_map[k]].k2 = k
             /\ b.datas[b.key_2_map[k]].k1 \in Live1(b)
             /\ b.key_1_map[b.datas[b.key_2_map[k]].k1] = b.key_2_map[k]
  <2>1. k # k2 /\ k \in Key2
    BY <1>1, <1>2
  <2>2. /\ b.datas[b.key_2_map[k]].k2 = k
        /\ b.datas[b.key_2_map[k]].k1 \in Live1(b)
        /\ b.key_1_map[b.datas[b.key_2_map[k]].k1] = b.key_2_map[k]
    BY DEF Sound, SlotsAgree
  <2>3. b.key_2_map[k] \in 0..(b.count - 1)
    BY <2>2, <1>4
  <2>4. c.key_2_map[k] = b.key_2_map[k]
    BY <2>1, <1>1, <1>2
  <2> QED
    BY <2>2, <2>3, <2>4, <1>1, <1>2
<1>6. SlotsAgree(c)
  <2>1. ASSUME NEW k \in Live1(c)
        PROVE  LET s == c.datas[c.key_1_map[k]]
               IN /\ s.k1 = k
                  /\ s.k2 \in Live2(c)
                  /\ c.key_2_map[s.k2] = c.key_1_map[k]
    <3>1. CASE k = k1
      BY <3>1, <1>1, <1>3
    <3>2. CASE k \in Live1(b)
      BY <3>2, <1>1, <1>4, <1>5 DEF Sound, SlotsAgree
    <3> QED
      BY <3>1, <3>2, <1>1
  <2>2. ASSUME NEW k \in Live2(c)
        PROVE  LET s == c.datas[c.key_2_map[k]]
               IN /\ s.k2 = k
                  /\ s.k1 \in Live1(c)
                  /\ c.key_1_map[s.k1] = c.key_2_map[k]
    <3>1. CASE k = k2
      BY <3>1, <1>1, <1>3
    <3>2. CASE k \in Live2(b)
      BY <3>2, <1>1, <1>4, <1>5
    <3> QED
      BY <3>1, <3>2, <1>1
  <2> QED
    BY <2>1, <2>2 DEF SlotsAgree
<1>7. CountIsStored(c)
  <2>1. IsFiniteSet(Live1(b))
    BY <1>2, FS_Subset
  <2> QED
    BY <2>1, <1>1, FS_AddElement DEF Sound, CountIsStored
<1>8. Compact(c)
  BY <1>1, <1>3, <1>4 DEF Compact
<1> QED
  BY <1>1, <1>3, <1>4, <1>6, <1>7, <1>8 DEF Sound, SoundlyInserted

(* Removing keys keeps a map sound, and the keys that stay keep their      *)
(* value.                                                                  *)
LEMMA RemoveAllIsSound ==
  ASSUME NEW Key1, NEW Key2, NEW Data, NEW junk, NEW size \in Nat,
         IsFiniteSet(Key1),
         NEW b \in BimapType(Key1, Key2, Data, junk, size),
         NEW K, Sound(b),
         NEW c, c = RemoveAllByKey1(b, K)
  PROVE  /\ c \in BimapType(Key1, Key2, Data, junk, size)
         /\ Sound(c)
         /\ Live1(c) = Live1(b) \ K
         /\ Live2(c) = Live2(b) \
                         {b.datas[b.key_1_map[k]].k2 : k \in K \cap Live1(b)}
         /\ \A k \in Live1(c) : c.key_1_map[k] = b.key_1_map[k]
         /\ c.datas = b.datas
<1> DEFINE gone1 == K \cap Live1(b)
           gone2 == {b.datas[b.key_1_map[k]].k2 : k \in gone1}
<1>1. /\ c.count = b.count - Cardinality(gone1)
      /\ c.size = b.size
      /\ c.key_1_map = [k \in DOMAIN b.key_1_map |->
                          IF k \in gone1 THEN NoIndex ELSE b.key_1_map[k]]
      /\ c.key_2_map = [k \in DOMAIN b.key_2_map |->
                          IF k \in gone2 THEN NoIndex ELSE b.key_2_map[k]]
      /\ c.datas = b.datas
  BY DEF RemoveAllByKey1, bimap_get_value_by_key_1
<1>2. /\ b.key_1_map \in [Key1 -> NoIndex..(size - 1)]
      /\ b.key_2_map \in [Key2 -> NoIndex..(size - 1)]
      /\ b.datas \in [0..(size - 1) -> Slot(Key1, Key2, Data) \cup {junk}]
      /\ b.count \in 0..size
      /\ b.size = size
      /\ DOMAIN b.key_1_map = Key1
      /\ DOMAIN b.key_2_map = Key2
  BY DEF BimapType
<1>3. Live1(c) = Live1(b) \ K
  BY <1>1, <1>2 DEF Live1
<1>4. Live2(c) = Live2(b) \ gone2
  BY <1>1, <1>2 DEF Live2
<1>5. /\ \A k \in Live1(c) : c.key_1_map[k] = b.key_1_map[k]
      /\ \A k \in Live2(c) : c.key_2_map[k] = b.key_2_map[k]
  BY <1>1, <1>2, <1>3, <1>4 DEF Live1, Live2
<1>6. SlotsAgree(c)
  <2>1. ASSUME NEW k \in Live1(c)
        PROVE  LET s == c.datas[c.key_1_map[k]]
               IN /\ s.k1 = k
                  /\ s.k2 \in Live2(c)
                  /\ c.key_2_map[s.k2] = c.key_1_map[k]
    <3> DEFINE s == b.datas[b.key_1_map[k]]
    <3>1. /\ k \in Live1(b)
          /\ s.k1 = k
          /\ s.k2 \in Live2(b)
          /\ b.key_2_map[s.k2] = b.key_1_map[k]
      BY <1>3 DEF Sound, SlotsAgree
    <3>2. s.k2 \notin gone2
      <4>1. SUFFICES ASSUME NEW h \in gone1, s.k2 = b.datas[b.key_1_map[h]].k2
                     PROVE  FALSE
        OBVIOUS
      <4>2. b.key_1_map[h] = b.key_1_map[k]
        BY <4>1, <3>1 DEF Sound, SlotsAgree
      <4>3. h = k
        BY <4>2, <3>1, LiveKeysAreInjective DEF Sound
      <4> QED
        BY <4>3, <1>3
    <3>3. c.datas[c.key_1_map[k]] = s
      BY <1>1, <1>5
    <3>4. s.k2 \in Live2(c)
      BY <3>1, <3>2, <1>4
    <3>5. c.key_2_map[s.k2] = c.key_1_map[k]
      BY <3>1, <3>4, <1>5
    <3> QED
      BY <3>1, <3>3, <3>4, <3>5
  <2>2. ASSUME NEW k \in Live2(c)
        PROVE  LET s == c.datas[c.key_2_map[k]]
               IN /\ s.k2 = k
                  /\ s.k1 \in Live1(c)
                  /\ c.key_1_map[s.k1] = c.key_2_map[k]
    <3> DEFINE s == b.datas[b.key_2_map[k]]
    <3>1. /\ k \in Live2(b)
          /\ k \notin gone2
          /\ s.k2 = k
          /\ s.k1 \in Live1(b)
          /\ b.key_1_map[s.k1] = b.key_2_map[k]
      BY <1>4 DEF Sound, SlotsAgree
    <3>2. s.k1 \notin gone1
      BY <3>1
    <3> QED
      BY <3>1, <3>2, <1>1, <1>3, <1>5
  <2> QED
    BY <2>1, <2>2 DEF SlotsAgree
<1>7. IsFiniteSet(Live1(b)) /\ IsFiniteSet(gone1)
  <2>1. Live1(b) \subseteq Key1
    BY <1>2 DEF Live1
  <2>2. IsFiniteSet(Live1(b))
    BY <2>1, FS_Subset
  <2> QED
    BY <2>2, FS_Subset
<1>8. CountIsStored(c) /\ c.count \in 0..size
  <2>1. Live1(c) = Live1(b) \ gone1 /\ Live1(b) \cap gone1 = gone1
    BY <1>3
  <2>2. Cardinality(Live1(c)) = Cardinality(Live1(b)) - Cardinality(gone1)
    <3> HIDE DEF gone1
    <3>1. Cardinality(Live1(b) \ gone1) =
            Cardinality(Live1(b)) - Cardinality(Live1(b) \cap gone1)
      BY <1>7, FS_Difference
    <3> QED
      BY <3>1, <2>1
  <2>3. IsFiniteSet(Live1(c))
    BY <2>1, <1>7, FS_Subset
  <2>4. Cardinality(Live1(c)) \in Nat /\ Cardinality(gone1) \in Nat
    BY <2>3, <1>7, FS_CardinalityType
  <2> QED
    BY <2>2, <2>4, <1>1, <1>2 DEF Sound, CountIsStored
<1>9. c \in BimapType(Key1, Key2, Data, junk, size)
  <2>1. /\ c.key_1_map \in [Key1 -> NoIndex..(size - 1)]
        /\ c.key_2_map \in [Key2 -> NoIndex..(size - 1)]
    BY <1>1, <1>2 DEF NoIndex
  <2> QED
    BY <2>1, <1>1, <1>2, <1>8 DEF BimapType, RemoveAllByKey1
<1> QED
  BY <1>1, <1>3, <1>4, <1>5, <1>6, <1>8, <1>9 DEF Sound

(* The first naturals, counted.                                            *)
LEMMA InitialSegment ==
  ASSUME NEW n \in Nat
  PROVE  IsFiniteSet(0..(n - 1)) /\ Cardinality(0..(n - 1)) = n
<1>1. 0 \in Int /\ n - 1 \in Int
  OBVIOUS
<1>2. /\ IsFiniteSet(0..(n - 1))
      /\ Cardinality(0..(n - 1)) = IF 0 > n - 1 THEN 0 ELSE (n - 1) - 0 + 1
  BY <1>1, FS_Interval
<1> QED
  BY <1>2

(* In a map without holes the stored datas fill the slots 0 .. count-1.    *)
LEMMA CompactFillsSlots ==
  ASSUME NEW Key1, NEW Key2, NEW Data, NEW junk, NEW size \in Nat,
         IsFiniteSet(Key1),
         NEW b \in BimapType(Key1, Key2, Data, junk, size),
         Sound(b), Compact(b),
         NEW i \in 0..(b.count - 1)
  PROVE  \E k \in Live1(b) : b.key_1_map[k] = i
<1> DEFINE slotOf == [k \in Live1(b) |-> b.key_1_map[k]]
           slots  == 0..(b.count - 1)
<1>1. /\ b.count \in Nat
      /\ Live1(b) \subseteq Key1
      /\ \A k \in Live1(b) : b.key_1_map[k] \in slots
  BY DEF BimapType, Live1, Compact, NoIndex
<1>2. slotOf \in Injection(Live1(b), slots)
  BY <1>1, LiveKeysAreInjective DEF Injection, IsInjective, Sound
<1>3. IsFiniteSet(slots) /\ Cardinality(slots) = b.count
  BY <1>1, InitialSegment
<1>4. slotOf \in Surjection(Live1(b), slots)
  BY <1>2, <1>3, FS_Injection DEF Sound, CountIsStored
<1> QED
  BY <1>4 DEF Surjection

(* Removing the keys in the highest slots leaves no hole.                  *)
LEMMA RemoveTopIsCompact ==
  ASSUME NEW Key1, NEW Key2, NEW Data, NEW junk, NEW size \in Nat,
         IsFiniteSet(Key1),
         NEW b \in BimapType(Key1, Key2, Data, junk, size),
         Sound(b), Compact(b), NEW K,
         \A h \in Live1(b) \cap K, k \in Live1(b) \ K :
           b.key_1_map[k] < b.key_1_map[h],
         NEW c, c = RemoveAllByKey1(b, K)
  PROVE  Compact(c)
<1>1. SUFFICES ASSUME NEW k \in Live1(c)
               PROVE  c.key_1_map[k] < c.count
  BY DEF Compact
<1>2. /\ Live1(c) = Live1(b) \ K
      /\ \A h \in Live1(c) : c.key_1_map[h] = b.key_1_map[h]
      /\ CountIsStored(c)
      /\ c \in BimapType(Key1, Key2, Data, junk, size)
  BY RemoveAllIsSound DEF Sound
<1>3. /\ b.key_1_map[k] \in 0..(b.count - 1)
      /\ b.count \in Nat
  BY <1>2 DEF BimapType, Live1, Compact, NoIndex
<1> DEFINE below == 0..((b.key_1_map[k] + 1) - 1)
           holder == [i \in below |-> CHOOSE h \in Live1(c) : b.key_1_map[h] = i]
<1>4. ASSUME NEW i \in below
      PROVE  \E h \in Live1(c) : b.key_1_map[h] = i
  <2>1. i \in 0..(b.count - 1)
    BY <1>3
  <2>2. PICK h \in Live1(b) : b.key_1_map[h] = i
    BY <2>1, CompactFillsSlots
  <2>3. h \notin K
    BY <2>2, <1>2, <1>3
  <2> QED
    BY <2>2, <2>3, <1>2
<1>5. \A i \in below : holder[i] \in Live1(c) /\ b.key_1_map[holder[i]] = i
  BY <1>4
<1>6. holder \in Injection(below, Live1(c))
  BY <1>5 DEF Injection, IsInjective
<1>7. IsFiniteSet(Live1(c))
  BY <1>2, FS_Subset DEF BimapType, Live1
<1>8. Cardinality(below) <= Cardinality(Live1(c))
  BY <1>6, <1>7, FS_Injection
<1>9. Cardinality(below) = b.key_1_map[k] + 1
  BY <1>3, InitialSegment
<1> QED
  BY <1>2, <1>3, <1>7, <1>8, <1>9, FS_CardinalityType DEF CountIsStored

(* Removal by key 1 is the removal of a set of one key.                    *)
LEMMA RemoveByKey1 ==
  ASSUME NEW b, NEW k \in Live1(b)
  PROVE  bimap_remove_by_key_1(b, k) = RemoveAllByKey1(b, {k})
<1> DEFINE k2 == bimap_get_value_by_key_1(b, k).k2
<1>1. {k} \cap Live1(b) = {k}
  OBVIOUS
<1>2. Cardinality({k}) = 1
  BY FS_Singleton
<1>3. {bimap_get_value_by_key_1(b, h).k2 : h \in {k}} = {k2}
  OBVIOUS
<1>4. /\ [b.key_1_map EXCEPT ![k] = NoIndex] =
           [h \in DOMAIN b.key_1_map |->
              IF h \in {k} THEN NoIndex ELSE b.key_1_map[h]]
      /\ [b.key_2_map EXCEPT ![k2] = NoIndex] =
           [h \in DOMAIN b.key_2_map |->
              IF h \in {k2} THEN NoIndex ELSE b.key_2_map[h]]
  OBVIOUS
<1> QED
  BY <1>1, <1>2, <1>3, <1>4 DEF bimap_remove_by_key_1, DropPair, RemoveAllByKey1

(* In a sound map removal by key 2 removes the pair of that key.           *)
LEMMA RemoveByKey2 ==
  ASSUME NEW b, SlotsAgree(b), NEW k2 \in Live2(b),
         NEW k1, k1 = bimap_get_value_by_key_2(b, k2).k1
  PROVE  /\ k1 \in Live1(b)
         /\ bimap_remove_by_key_2(b, k2) = bimap_remove_by_key_1(b, k1)
<1>1. /\ k1 \in Live1(b)
      /\ b.key_1_map[k1] = b.key_2_map[k2]
      /\ bimap_get_value_by_key_2(b, k2).k2 = k2
  BY DEF SlotsAgree, bimap_get_value_by_key_2
<1>2. bimap_get_value_by_key_1(b, k1).k2 = k2
  BY <1>1 DEF bimap_get_value_by_key_1, bimap_get_value_by_key_2
<1> QED
  BY <1>1, <1>2 DEF bimap_remove_by_key_1, bimap_remove_by_key_2

(* Removing a key more.                                                    *)
LEMMA OneMoreRemoved ==
  ASSUME NEW H, IsFiniteSet(H), NEW b, Live1(b) \subseteq H, b.count \in Int,
         NEW L, NEW k
  PROVE  bimap_remove_by_key_1(RemoveAllByKey1(b, L), k) = RemoveAllByKey1(b, L \cup {k})
<1> DEFINE gone == L \cap Live1(b)
           value(h) == b.datas[b.key_1_map[h]].k2
           gone2 == {value(h) : h \in gone}
           c == RemoveAllByKey1(b, L)
<1>1. c = [count     |-> b.count - Cardinality(gone),
           size      |-> b.size,
           key_1_map |-> [h \in DOMAIN b.key_1_map |->
                            IF h \in gone THEN NoIndex ELSE b.key_1_map[h]],
           key_2_map |-> [h \in DOMAIN b.key_2_map |->
                            IF h \in gone2 THEN NoIndex ELSE b.key_2_map[h]],
           datas     |-> b.datas]
  BY DEF RemoveAllByKey1, bimap_get_value_by_key_1
<1>2. Live1(c) = Live1(b) \ L
  BY <1>1 DEF Live1
<1>3. CASE k \notin Live1(c)
  <2>1. bimap_remove_by_key_1(c, k) = c
    BY <1>3 DEF bimap_remove_by_key_1
  <2>2. (L \cup {k}) \cap Live1(b) = gone
    BY <1>2, <1>3
  <2> QED  BY <2>1, <2>2 DEF RemoveAllByKey1
<1>4. CASE k \in Live1(c)
  <2> DEFINE more == gone \cup {k}
             more2 == {value(h) : h \in more}
  <2>1. k \notin gone /\ k \in Live1(b) /\ (L \cup {k}) \cap Live1(b) = more
    BY <1>2, <1>4
  <2>2. Cardinality(more) = Cardinality(gone) + 1 /\ Cardinality(gone) \in Nat
    <3>1. IsFiniteSet(gone)
      <4>1. gone \subseteq H
        OBVIOUS
      <4> QED  BY <4>1, FS_Subset
    <3> QED  BY <2>1, <3>1, FS_AddElement, FS_CardinalityType
  <2>3. RemoveAllByKey1(b, L \cup {k})
          = [count     |-> b.count - Cardinality(more),
             size      |-> b.size,
             key_1_map |-> [h \in DOMAIN b.key_1_map |->
                              IF h \in more THEN NoIndex ELSE b.key_1_map[h]],
             key_2_map |-> [h \in DOMAIN b.key_2_map |->
                              IF h \in more2 THEN NoIndex ELSE b.key_2_map[h]],
             datas     |-> b.datas]
    BY <2>1 DEF RemoveAllByKey1, bimap_get_value_by_key_1
  <2>4. c.key_1_map[k] = b.key_1_map[k]
    BY <1>1, <2>1 DEF Live1
  <2>5. bimap_get_value_by_key_1(c, k).k2 = value(k)
    BY <1>1, <2>4 DEF bimap_get_value_by_key_1
  <2>6. bimap_remove_by_key_1(c, k) = DropPair(c, k, value(k))
    BY <1>4, <2>5 DEF bimap_remove_by_key_1
  <2>7. c.count - 1 = b.count - Cardinality(more)
    <3>1. c.count = b.count - Cardinality(gone)
      BY <1>1
    <3>2. PICK n \in Nat : n = Cardinality(gone)
      BY <2>2
    <3> QED  BY <2>2, <3>1, <3>2
  <2>8. [c.key_1_map EXCEPT ![k] = NoIndex]
          = [h \in DOMAIN b.key_1_map |-> IF h \in more THEN NoIndex ELSE b.key_1_map[h]]
    BY <1>1
  <2>9. [c.key_2_map EXCEPT ![value(k)] = NoIndex]
          = [h \in DOMAIN b.key_2_map |-> IF h \in more2 THEN NoIndex ELSE b.key_2_map[h]]
    <3>1. more2 = gone2 \cup {value(k)}
      OBVIOUS
    <3> HIDE DEF more2, gone2, value
    <3> QED  BY <1>1, <3>1
  <2>10. c.size = b.size /\ c.datas = b.datas
    BY <1>1
  <2>11. PICK m1 : m1 = [c.key_1_map EXCEPT ![k] = NoIndex]
    OBVIOUS
  <2>12. PICK m2 : m2 = [c.key_2_map EXCEPT ![value(k)] = NoIndex]
    OBVIOUS
  <2>13. DropPair(c, k, value(k))
           = [count |-> b.count - Cardinality(more), size |-> b.size,
              key_1_map |-> m1, key_2_map |-> m2, datas |-> b.datas]
    <3> HIDE DEF c, more, value
    <3> QED  BY <2>7, <2>10, <2>11, <2>12, Zenon DEF DropPair
  <2>14. RemoveAllByKey1(b, L \cup {k})
           = [count |-> b.count - Cardinality(more), size |-> b.size,
              key_1_map |-> m1, key_2_map |-> m2, datas |-> b.datas]
    <3> HIDE DEF c, more, more2, value
    <3> QED  BY <2>3, <2>8, <2>9, <2>11, <2>12, Zenon
  <2> QED  BY <2>6, <2>13, <2>14, Zenon
<1> QED  BY <1>3, <1>4

(* Removing nothing changes nothing.                                       *)
LEMMA NoneRemoved ==
  ASSUME NEW K1, NEW K2, NEW D, NEW junk, NEW size \in Nat,
         NEW b \in BimapType(K1, K2, D, junk, size)
  PROVE  RemoveAllByKey1(b, {}) = b
<1>1. /\ b.count \in Nat
      /\ b.key_1_map = [k \in DOMAIN b.key_1_map |-> b.key_1_map[k]]
      /\ b.key_2_map = [k \in DOMAIN b.key_2_map |-> b.key_2_map[k]]
  BY DEF BimapType
<1>2. b = [count |-> b.count, size |-> b.size, key_1_map |-> b.key_1_map,
           key_2_map |-> b.key_2_map, datas |-> b.datas]
  BY DEF BimapType
<1>3. /\ {} \cap Live1(b) = {}
      /\ {bimap_get_value_by_key_1(b, k).k2 : k \in {}} = {}
  OBVIOUS
<1>4. b.count - Cardinality({}) = b.count
  BY <1>1, FS_EmptySet
<1>5. RemoveAllByKey1(b, {})
        = [count |-> b.count - Cardinality({}), size |-> b.size,
           key_1_map |-> [k \in DOMAIN b.key_1_map |-> IF k \in {} THEN NoIndex ELSE b.key_1_map[k]],
           key_2_map |-> [k \in DOMAIN b.key_2_map |-> IF k \in {} THEN NoIndex ELSE b.key_2_map[k]],
           datas |-> b.datas]
  BY <1>3 DEF RemoveAllByKey1
<1>6. /\ [k \in DOMAIN b.key_1_map |-> IF k \in {} THEN NoIndex ELSE b.key_1_map[k]]
             = b.key_1_map
      /\ [k \in DOMAIN b.key_2_map |-> IF k \in {} THEN NoIndex ELSE b.key_2_map[k]]
             = b.key_2_map
  BY <1>1
<1> QED  BY <1>2, <1>4, <1>5, <1>6, Zenon

(* An order of the keys of a set names each of them.                       *)
LEMMA OrdersNameAll ==
  ASSUME NEW K, IsFiniteSet(K), NEW keys \in SetToSeqs(K)
  PROVE  /\ keys \in Seq(K) /\ Len(keys) = Cardinality(K) /\ Cardinality(K) \in Nat
         /\ {keys[i] : i \in 1..Cardinality(K)} = K
<1> DEFINE n == Cardinality(K)
           named == {keys[i] : i \in 1..n}
<1>1. n \in Nat
  BY FS_CardinalityType
<1>2. keys \in [1..n -> K] /\ \A i, j \in 1..n : i # j => keys[i] # keys[j]
  BY DEF SetToSeqs
<1> HIDE DEF n
<1>3. named \subseteq K
  BY <1>2
<1>4. keys \in Injection(1..n, named)
  BY <1>2 DEF Injection, IsInjective
<1>5. IsFiniteSet(named)
  BY <1>3, FS_Subset
<1>6. Cardinality(1..n) = n
  <2>1. Cardinality(1..n) = IF 1 > n THEN 0 ELSE n - 1 + 1
    BY <1>1, FS_Interval
  <2> QED  BY <1>1, <2>1
<1>7. n <= Cardinality(named)
  BY <1>4, <1>5, <1>6, FS_Injection
<1>8. Cardinality(named) <= Cardinality(K) /\ (Cardinality(named) = Cardinality(K) => named = K)
  <2> HIDE DEF named
  <2> QED  BY <1>3, FS_Subset
<1>9. named = K
  <2>1. Cardinality(named) \in Nat
    BY <1>5, FS_CardinalityType
  <2> HIDE DEF named
  <2> QED  BY <1>1, <1>7, <1>8, <2>1 DEF n
<1> QED  BY <1>1, <1>2, <1>9 DEF n
=============================================================================
