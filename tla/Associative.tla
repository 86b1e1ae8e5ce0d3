---------------------------- MODULE Associative ----------------------------
(***************************************************************************)
(* The sorted-array container under every map and set of the runtime       *)
(* (utils/containers/associative.c).  Entries are kept in ascending key    *)
(* order; a binary search that returns the position of the largest key not *)
(* above the one looked for serves lookup, removal and insertion.          *)
(*                                                                         *)
(* Entry i of the C array is datas[i + 1] here.  An index is an integer    *)
(* and the (size_t)-1 of the code is -1: it is compared with -1 or found   *)
(* to be >= count, which is the same test.                                 *)
(***************************************************************************)
EXTENDS Integers, Sequences, SequencesExt

CONSTANTS
  Keys,      \* the keys clients use: pointers, ordered as integers
  Values,    \* the data clients store
  Absent,    \* NULL, what a lookup of a missing key returns
  InitSize,  \* number of entries the array is allocated for
  MaxCount   \* bound on the number of entries explored

ASSUME KeysAssumption == Keys \subseteq Int
ASSUME InitSizeAssumption == InitSize \in Nat \ {0} /\ MaxCount \in Nat
ASSUME AbsentAssumption == Absent \notin Values

VARIABLES
  datas,     \* the entries, in array order
  size       \* number of entries the array has room for

associativeVars == <<datas, size>>

Entry == [key : Keys, data : Values]

count == Len(datas)

KeyAt(idx) == datas[idx + 1].key

(* The end of the search: one or two entries left, from start.             *)
OneLeft_equal(key, start) ==   \* mutant: an equal key is looked for before
  IF key <= KeyAt(start) THEN start - 1 ELSE start

OneLeft(key, start) == IF key < KeyAt(start) THEN start - 1 ELSE start

TwoLeft_second(key, start) ==  \* mutant: the first key is not compared
  IF key < KeyAt(start + 1) THEN start ELSE start + 1

TwoLeft(key, start) ==
  IF key < KeyAt(start) THEN start - 1
  ELSE IF key < KeyAt(start + 1) THEN start
  ELSE start + 1

(* The ranges <<start, n>> of the array; the code asserts start + n <= count. *)
Ranges == {r \in (0..count) \X (1..count) : r[1] + r[2] <= count}

(* One call of the binary search, over the n entries from start; find is   *)
(* the search of the smaller ranges.  The position returned when the pivot *)
(* holds the key is the one the code returns: relative to start, not to    *)
(* the array.                                                              *)
Turn(find, key, r) ==
  LET start == r[1]
      n == r[2]
      pivot == n \div 2
  IN CASE n = 1 -> OneLeft(key, start)
       [] n = 2 -> TwoLeft(key, start)
       [] n > 2 /\ key < KeyAt(start + pivot) -> find[<<start, pivot>>]
       [] n > 2 /\ key > KeyAt(start + pivot) ->
            find[<<start + pivot + 1, n - pivot - 1>>]
       [] n > 2 /\ key = KeyAt(start + pivot) -> pivot

associative_lookup_(key) ==
  LET find[r \in Ranges] == Turn(find, key, r)
  IN IF count = 0 THEN -1 ELSE find[<<0, count>>]

(* The index of key, or -1: the search followed by the comparison of the   *)
(* key found, as lookup, remove and insert all do it.                      *)
FoundIndex(key) ==
  LET idx == associative_lookup_(key)
  IN IF idx \in 0..(count - 1) /\ KeyAt(idx) = key THEN idx ELSE -1

associative_lookup(key) ==
  IF FoundIndex(key) = -1 THEN Absent ELSE datas[FoundIndex(key) + 1].data

-----------------------------------------------------------------------------
AssociativeInit == datas = <<>> /\ size = InitSize

(* Mutants: the data of a key already there is replaced; a full array does *)
(* not grow.                                                               *)
associative_insert_replace(key, data) ==
  /\ count < MaxCount
  /\ IF FoundIndex(key) # -1
     THEN /\ datas' = [datas EXCEPT ![FoundIndex(key) + 1].data = data]
          /\ UNCHANGED size
     ELSE /\ size' = IF count = size THEN 2 * size ELSE size
          /\ datas' = InsertAt(datas, associative_lookup_(key) + 2,
                               [key |-> key, data |-> data])

associative_insert_full(key, data) ==
  /\ count < MaxCount
  /\ IF FoundIndex(key) # -1
     THEN UNCHANGED associativeVars
     ELSE /\ datas' = InsertAt(datas, associative_lookup_(key) + 2,
                               [key |-> key, data |-> data])
          /\ UNCHANGED size

(* A key already there is left alone; otherwise the array grows when full  *)
(* and the entry goes after the position the search returned.              *)
associative_insert(key, data) ==
  /\ count < MaxCount
  /\ IF FoundIndex(key) # -1
     THEN UNCHANGED associativeVars
     ELSE /\ size' = IF count = size THEN 2 * size ELSE size
          /\ datas' = InsertAt(datas, associative_lookup_(key) + 2,
                               [key |-> key, data |-> data])

associative_remove(key) ==
  /\ datas' = IF FoundIndex(key) = -1 THEN datas
              ELSE RemoveAt(datas, FoundIndex(key) + 1)
  /\ UNCHANGED size

associative_clear == datas' = <<>> /\ UNCHANGED size

AssociativeNext ==
  \/ \E k \in Keys, d \in Values : associative_insert(k, d)
  \/ \E k \in Keys : associative_remove(k)
  \/ associative_clear

AssociativeSpec == AssociativeInit /\ [][AssociativeNext]_associativeVars

-----------------------------------------------------------------------------
(* The array holds entries, and never more of them than it was allocated   *)
(* for: associative_insert_ never writes past the end of datas.            *)
AssociativeTypeOK ==
  /\ datas \in Seq(Entry)
  /\ size \in Nat
  /\ count <= size

(* The keys are strictly ascending, so no key is stored twice: insertion   *)
(* puts an entry where the binary search will look for it.                 *)
StrictlyAscending ==
  \A i, j \in 1..count : i < j => datas[i].key < datas[j].key

(* The contract in the comment over associative_lookup_: the search        *)
(* returns the position of the largest key that is not above the key       *)
(* looked for, or the position before the first one.                       *)
SearchContract ==
  \A k \in Keys :
    LET idx == associative_lookup_(k) IN
    /\ idx \in -1..(count - 1)
    /\ \A i \in 0..(count - 1) : KeyAt(i) <= k <=> i <= idx

(* Through lookups the container is a table: insertion adds one key, or    *)
(* keeps the data of a key already there, and removal takes one key away,  *)
(* without a change to what lookups of the others return.                  *)
Table == INSTANCE KeyTable
           WITH Data <- Values, table <- [k \in Keys |-> associative_lookup(k)]

ImplementsKeyTable == Table!TableSpec
=============================================================================
