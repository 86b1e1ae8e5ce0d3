----------------------------- MODULE PairTable ------------------------------
(***************************************************************************)
(* What a two-way map promises: a set of pairs of keys, each with its      *)
(* data, in which no key occurs twice, and from which either key removes   *)
(* its pair.                                                               *)
(***************************************************************************)
CONSTANTS Key1, Key2, Data

VARIABLE pairs

PairInit == pairs = {}

PairInsert(k1, k2, d) ==
  /\ \A p \in pairs : p.k1 # k1 /\ p.k2 # k2
  /\ pairs' = pairs \cup {[k1 |-> k1, k2 |-> k2, data |-> d]}

PairRemove1(k1) == pairs' = {p \in pairs : p.k1 # k1}
PairRemove2(k2) == pairs' = {p \in pairs : p.k2 # k2}

PairNext ==
  \/ \E k1 \in Key1, k2 \in Key2, d \in Data : PairInsert(k1, k2, d)
  \/ \E k1 \in Key1 : PairRemove1(k1)
  \/ \E k2 \in Key2 : PairRemove2(k2)

PairSpec == PairInit /\ [][PairNext]_pairs
=============================================================================
