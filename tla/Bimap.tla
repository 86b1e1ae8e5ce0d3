------------------------------- MODULE Bimap --------------------------------
(***************************************************************************)
(* The two-way map as a component: any client that inserts and removes.    *)
(*                                                                         *)
(* Two specifications.  In Spec a client may insert at any time.  In       *)
(* CompactSpec it inserts only when the datas it stored fill the first     *)
(* slots, with no hole left by a removal; this is how the data constructs  *)
(* of a program use the map (see DataEnv).                                 *)
(*                                                                         *)
(* In both the key maps have at most six entries at a time: with more the  *)
(* containers they are do not find every key (see Associative).            *)
(***************************************************************************)
EXTENDS BimapOps, SequencesExt

CONSTANTS
  Key1,   \* host pointers, for the memory manager
  Key2,   \* device pointers
  Data,
  Size,   \* slots of the array, which never grows
  Junk    \* what an array slot holds before it is written

ASSUME SizeAssumption == Size \in Nat
ASSUME KeysAreFinite == IsFiniteSet(Key1)

VARIABLES
  bimap,
  aborted   \* whether an assertion of bimap_insert stopped the program

vars == <<bimap, aborted>>

Init ==
  /\ bimap = bimap_alloc(Key1, Key2, Junk, Size)
  /\ aborted = FALSE

Insert(k1, k2, d) ==
  /\ ~aborted
  /\ IF CanInsert(bimap, k1, k2)
     THEN bimap' = bimap_insert(bimap, k1, k2, d) /\ UNCHANGED aborted
     ELSE aborted' = TRUE /\ UNCHANGED bimap

Remove1(k1) ==
  /\ ~aborted
  /\ bimap' = bimap_remove_by_key_1(bimap, k1)
  /\ UNCHANGED aborted

Remove2(k2) ==
  /\ ~aborted
  /\ bimap' = bimap_remove_by_key_2(bimap, k2)
  /\ UNCHANGED aborted

(* The runtime removes by key 1 only (mem-manager.c).                      *)
Next ==
  /\ \/ \E k1 \in Key1, k2 \in Key2, d \in Data : Insert(k1, k2, d)
     \/ \E k1 \in Key1 : Remove1(k1)
  /\ Searchable(bimap)'

CompactNext ==
  /\ \/ \E k1 \in Key1, k2 \in Key2, d \in Data :
          Compact(bimap) /\ Insert(k1, k2, d)
     \/ \E k1 \in Key1 : Remove1(k1)
     \/ \E k2 \in Key2 : Remove2(k2)
  /\ Searchable(bimap)'

Spec == Init /\ [][Next]_vars

CompactSpec == Init /\ [][CompactNext]_vars

-----------------------------------------------------------------------------
TypeOK ==
  /\ bimap \in BimapType(Key1, Key2, Data, Junk, Size)
  /\ aborted \in BOOLEAN

(* The comment of bimap.h over the two maps: a key leads to the slot of    *)
(* the value stored under it.  So a lookup never returns another key's     *)
(* allocation.                                                             *)
KeysLeadToTheirValue == SlotsAgree(bimap)

(* The comment of bimap.h over count: it is the number of stored datas,    *)
(* so the map is neither full too early nor written past its array.        *)
CountsStoredDatas == CountIsStored(bimap)

(* The loop of acc_clear_data_environment: key after key.                  *)
RemoveOneByOne(b, keys) ==
  LET removed[n \in 0..Len(keys)] ==
        IF n = 0 THEN b ELSE bimap_remove_by_key_1(removed[n - 1], keys[n])
  IN removed[Len(keys)]

(* Removing a set of keys one by one, in any order, is removing them at    *)
(* once: that loop is one step of DataEnv.                                 *)
RemovalsCommute ==
  \A K \in SUBSET Key1 : \A keys \in SetToSeqs(K) :
    RemoveOneByOne(bimap, keys) = RemoveAllByKey1(bimap, K)

(* The two-way map is a set of pairs: insertion adds one, removal by       *)
(* either key takes out the pair of that key and no other.                 *)
Pairs == INSTANCE PairTable WITH pairs <- Stored(bimap)

ImplementsPairTable == Pairs!PairSpec
=============================================================================
