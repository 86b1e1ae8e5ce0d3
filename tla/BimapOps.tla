------------------------------ MODULE BimapOps ------------------------------
(***************************************************************************)
(* The two-way map of utils/containers/bimap.c, as operators on its value. *)
(* Stored datas live in the slots 0 .. size-1 of an array; two maps give   *)
(* the slot of each key.  The maps are the containers of map.c, that is of *)
(* associative.c: here they are the tables Associative shows them to be    *)
(* as long as they have no more than six entries (Searchable), with -1 for *)
(* a missing key, as bimap_get_index_by_key_* returns it.                  *)
(***************************************************************************)
EXTENDS Integers, FiniteSets

NoIndex == -1

(* A slot holds a data and the two keys it was stored under.  A slot of a  *)
(* new array holds junk: whatever malloc returned.                         *)
Slot(Key1, Key2, Data) == [k1 : Key1, k2 : Key2, data : Data]

BimapType(Key1, Key2, Data, junk, size) ==
  [count     : 0..size,
   size      : {size},
   key_1_map : [Key1 -> NoIndex..(size - 1)],
   key_2_map : [Key2 -> NoIndex..(size - 1)],
   datas     : [0..(size - 1) -> Slot(Key1, Key2, Data) \cup {junk}]]

bimap_alloc(Key1, Key2, junk, size) ==
  [count     |-> 0,
   size      |-> size,
   key_1_map |-> [k \in Key1 |-> NoIndex],
   key_2_map |-> [k \in Key2 |-> NoIndex],
   datas     |-> [i \in 0..(size - 1) |-> junk]]

Live1(b) == {k \in DOMAIN b.key_1_map : b.key_1_map[k] # NoIndex}
Live2(b) == {k \in DOMAIN b.key_2_map : b.key_2_map[k] # NoIndex}

(* What a binary search of associative.c finds for certain; with a seventh *)
(* entry it can miss a key that is there (AssociativeSevenKeys).  Clients  *)
(* of this module are explored up to this bound.                           *)
SearchableEntries == 6

Searchable(b) ==
  /\ Cardinality(Live1(b)) <= SearchableEntries
  /\ Cardinality(Live2(b)) <= SearchableEntries

(* The slot a key leads to.                                                *)
bimap_get_value_by_key_1(b, k1) == b.datas[b.key_1_map[k1]]
bimap_get_value_by_key_2(b, k2) == b.datas[b.key_2_map[k2]]

(* Mutant: no assertion on key 1.                                          *)
CanInsert_key_1(b, k1, k2) == k2 \notin Live2(b) /\ b.count # b.size

(* bimap_insert asserts that neither key is there and that a slot is left. *)
CanInsert(b, k1, k2) ==
  k1 \notin Live1(b) /\ k2 \notin Live2(b) /\ b.count # b.size

(* The data goes to slot number count, which both keys then lead to.       *)
bimap_insert(b, k1, k2, data) ==
  [count     |-> b.count + 1,
   size      |-> b.size,
   key_1_map |-> [b.key_1_map EXCEPT ![k1] = b.count],
   key_2_map |-> [b.key_2_map EXCEPT ![k2] = b.count],
   datas     |-> [b.datas EXCEPT ![b.count] =
                    [k1 |-> k1, k2 |-> k2, data |-> data]]]

(* Mutants: key 2 stays; the count does.                                   *)
DropPair_key_2(b, k1, k2) ==
  [b EXCEPT !.count = @ - 1, !.key_1_map[k1] = NoIndex]
DropPair_count(b, k1, k2) ==
  [b EXCEPT !.key_1_map[k1] = NoIndex, !.key_2_map[k2] = NoIndex]

(* Both keys are dropped and one data less is counted; the slot stays as   *)
(* it is.                                                                  *)
DropPair(b, k1, k2) ==
  [count     |-> b.count - 1,
   size      |-> b.size,
   key_1_map |-> [b.key_1_map EXCEPT ![k1] = NoIndex],
   key_2_map |-> [b.key_2_map EXCEPT ![k2] = NoIndex],
   datas     |-> b.datas]

(* Mutant: a missing key is counted as removed.                            *)
bimap_remove_by_key_1_missing(b, k1) ==
  IF k1 \notin Live1(b) THEN [b EXCEPT !.count = @ - 1]
  ELSE DropPair(b, k1, bimap_get_value_by_key_1(b, k1).k2)

(* Removal by one key takes the other key from the slot.                   *)
bimap_remove_by_key_1(b, k1) ==
  IF k1 \notin Live1(b) THEN b
  ELSE DropPair(b, k1, bimap_get_value_by_key_1(b, k1).k2)

bimap_remove_by_key_2(b, k2) ==
  IF k2 \notin Live2(b) THEN b
  ELSE DropPair(b, bimap_get_value_by_key_2(b, k2).k1, k2)

(* What removing all the keys of K by key 1 amounts to, in any order: a    *)
(* removal changes neither a slot nor where another key 1 leads.           *)
RemoveAllByKey1(b, K) ==
  LET gone1 == K \cap Live1(b)
      gone2 == {bimap_get_value_by_key_1(b, k).k2 : k \in gone1}
  IN [count     |-> b.count - Cardinality(gone1),
      size      |-> b.size,
      key_1_map |-> [k \in DOMAIN b.key_1_map |->
                       IF k \in gone1 THEN NoIndex ELSE b.key_1_map[k]],
      key_2_map |-> [k \in DOMAIN b.key_2_map |->
                       IF k \in gone2 THEN NoIndex ELSE b.key_2_map[k]],
      datas     |-> b.datas]

-----------------------------------------------------------------------------
(* bimap.h: each map leads from a key to the slot of the value stored      *)
(* under that key; the slot names both keys of the pair.                   *)
SlotsAgree(b) ==
  /\ \A k \in Live1(b) :
       LET s == b.datas[b.key_1_map[k]]
       IN s.k1 = k /\ s.k2 \in Live2(b) /\ b.key_2_map[s.k2] = b.key_1_map[k]
  /\ \A k \in Live2(b) :
       LET s == b.datas[b.key_2_map[k]]
       IN s.k2 = k /\ s.k1 \in Live1(b) /\ b.key_1_map[s.k1] = b.key_2_map[k]

(* bimap.h: count is the number of stored datas.                           *)
CountIsStored(b) == b.count = Cardinality(Live1(b))

(* No data is stored at or past count: the next insertion finds a free     *)
(* slot.                                                                   *)
Compact(b) == \A k \in Live1(b) : b.key_1_map[k] < b.count

(* The pairs stored, with their data.                                      *)
Stored(b) == {b.datas[b.key_1_map[k]] : k \in Live1(b)}
=============================================================================
