------------------------------ MODULE KeyTable ------------------------------
(***************************************************************************)
(* What an associative container promises its clients: a table that maps   *)
(* each present key to one data.  The container of                         *)
(* utils/containers/associative.c is shown to implement this               *)
(* specification (see Associative).                                        *)
(***************************************************************************)
CONSTANTS
  Keys,     \* the keys a client may use
  Data,     \* the data a client may store
  Absent    \* what a lookup of a missing key returns (NULL in the code)

VARIABLE table  \* the data of every key, or Absent

TableInit == table = [k \in Keys |-> Absent]

(* Inserting an existing key leaves the table alone: the first data wins.  *)
TableInsert(k, d) ==
  table' = [table EXCEPT ![k] = IF @ = Absent THEN d ELSE @]

TableRemove(k) == table' = [table EXCEPT ![k] = Absent]

TableClear == table' = [k \in Keys |-> Absent]

TableNext ==
  \/ \E k \in Keys, d \in Data : TableInsert(k, d)
  \/ \E k \in Keys : TableRemove(k)
  \/ TableClear

TableSpec == TableInit /\ [][TableNext]_table
=============================================================================
