-------------------------- MODULE Experiments_proofs --------------------------
(***************************************************************************)
(* What the programs of an experiment may do to each other's files, for    *)
(* every data base of versions, every list of launches, of parameters and  *)
(* of durations, any number of starts and of programs at a time.           *)
(***************************************************************************)
EXTENDS Experiments, Operators_proofs, SequenceTheorems

-----------------------------------------------------------------------------
(* The elements selected of the first n.                                   *)
OneIf(x, wanted) == IF x \in wanted THEN <<x>> ELSE <<>>

Selecting(c, seq, wanted) ==
  [n \in 0..Len(seq) |->
     IF n = 0 THEN <<>>
     ELSE c[n - 1] \o OneIf(seq[n], wanted)]

LEMMA SelectedExists ==
  ASSUME NEW S, NEW seq \in Seq(S), NEW wanted
  PROVE  \E c : c = Selecting(c, seq, wanted)
<1> DEFINE V == Seq(S)
           N == Len(seq)
           e == <<>>
           own(n) == OneIf(seq[n], wanted)
           g == [n \in Nat |-> [v \in V |-> IF n \in 1..N THEN v \o own(n) ELSE v]]
<1>1. N \in Nat /\ \A n \in 1..N : own(n) \in V
  BY DEF OneIf
<1>2. g \in [Nat -> [V -> V]]
  <2> HIDE DEF own, N
  <2> QED  BY <1>1
<1>3. ASSUME NEW n \in 1..N, NEW v \in V PROVE g[n][v] = v \o own(n)
  OBVIOUS
<1>4. e \in V
  OBVIOUS
<1> HIDE DEF g, V, e, own, N
<1>5. PICK f : Iterates(f, V, e, g, N)
  BY <1>1, <1>2, <1>4, Recursion
<1>6. f \in [0..N -> V] /\ f[0] = e /\ \A n \in 1..N : f[n] = g[n][f[n - 1]]
  BY <1>5 DEF Iterates
<1>7. \A n \in 1..N : f[n] = f[n - 1] \o own(n)
  <2>1. \A n \in 1..N : f[n - 1] \in V
    BY <1>1, <1>6
  <2> QED  BY <1>3, <1>6, <2>1
<1>8. \A n \in 0..N : f[n] = IF n = 0 THEN e ELSE f[n - 1] \o own(n)
  BY <1>1, <1>6, <1>7
<1>9. f = [n \in 0..N |-> IF n = 0 THEN e ELSE f[n - 1] \o own(n)]
  BY <1>6, <1>8
<1> QED  BY <1>9 DEF Selecting, e, own, N

LEMMA SelectedSteps ==
  ASSUME NEW S, NEW seq \in Seq(S), NEW wanted
  PROVE  \E c : /\ Selected(seq, wanted) = c[Len(seq)]
                /\ c[0] = <<>>
                /\ \A n \in 1..Len(seq) :
                     c[n] = c[n - 1] \o OneIf(seq[n], wanted)
<1> DEFINE c == CHOOSE f : f = Selecting(f, seq, wanted)
<1>1. c = Selecting(c, seq, wanted)
  BY SelectedExists
<1>2. Selected(seq, wanted) = c[Len(seq)]
  BY DEF Selected, Selecting, OneIf
<1> HIDE DEF c
<1>3. Len(seq) \in Nat
  OBVIOUS
<1>4. \A n \in 0..Len(seq) :
        c[n] = IF n = 0 THEN <<>>
               ELSE c[n - 1] \o OneIf(seq[n], wanted)
  BY <1>1 DEF Selecting
<1>5. c[0] = <<>>
  BY <1>3, <1>4
<1>6. ASSUME NEW n \in 1..Len(seq) PROVE c[n] = c[n - 1] \o OneIf(seq[n], wanted)
  <2>1. n \in 0..Len(seq) /\ n # 0
    BY <1>3
  <2> QED  BY <1>4, <2>1, Zenon
<1> QED  BY <1>2, <1>5, <1>6

(* What is selected is of the sequence and wanted, in the same order.      *)
Ascending(idx) == \A a, b \in DOMAIN idx : a < b => idx[a] < idx[b]

LEMMA SelectedOrder ==
  ASSUME NEW S, NEW seq \in Seq(S), NEW wanted
  PROVE  /\ Selected(seq, wanted) \in Seq(S)
         /\ \E idx \in [DOMAIN Selected(seq, wanted) -> 1..Len(seq)] :
              /\ Ascending(idx)
              /\ \A a \in DOMAIN idx : /\ Selected(seq, wanted)[a] = seq[idx[a]]
                                       /\ seq[idx[a]] \in wanted
<1> DEFINE N == Len(seq)
           Of(s, n) == /\ s \in Seq(S)
                       /\ \E idx \in [1..Len(s) -> 1..n] :
                            /\ Ascending(idx)
                            /\ \A a \in 1..Len(s) : s[a] = seq[idx[a]] /\ seq[idx[a]] \in wanted
<1>1. N \in Nat /\ \A n \in 1..N : seq[n] \in S
  OBVIOUS
<1>2. PICK c : /\ Selected(seq, wanted) = c[N]
               /\ c[0] = <<>>
               /\ \A n \in 1..N :
                    c[n] = c[n - 1] \o OneIf(seq[n], wanted)
  BY SelectedSteps
<1> HIDE DEF N
<1> DEFINE T == {n \in 0..N : Of(c[n], n)}
<1>3. 0 \in T
  <2>1. c[0] \in Seq(S) /\ Len(c[0]) = 0
    BY <1>2
  <2>2. [a \in 1..0 |-> a] \in [1..Len(c[0]) -> 1..0] /\ Ascending([a \in 1..0 |-> a])
    BY <2>1 DEF Ascending
  <2>3. Of(c[0], 0)
    BY <2>1, <2>2
  <2> HIDE DEF Of
  <2> QED  BY <1>1, <2>3
<1>4. ASSUME NEW n \in 1..N, n - 1 \in T PROVE n \in T
  <2>1. n \in Nat \ {0} /\ n - 1 \in Nat
    BY <1>1
  <2>2. c[n] = c[n - 1] \o OneIf(seq[n], wanted)
    BY <1>2, Zenon
  <2>3. c[n - 1] \in Seq(S)
    BY <1>4
  <2>4. PICK idx \in [1..Len(c[n - 1]) -> 1..(n - 1)] :
          /\ Ascending(idx)
          /\ \A a \in 1..Len(c[n - 1]) :
               c[n - 1][a] = seq[idx[a]] /\ seq[idx[a]] \in wanted
    BY <1>4
  <2>5. CASE seq[n] \in wanted
    <3> DEFINE L == Len(c[n - 1])
               new == [a \in 1..(L + 1) |-> IF a = L + 1 THEN n ELSE idx[a]]
    <3>1. L \in Nat
      BY <2>3
    <3>2. c[n] = Append(c[n - 1], seq[n])
      BY <2>2, <2>3, <2>5 DEF OneIf
    <3>3. /\ c[n] \in Seq(S) /\ Len(c[n]) = L + 1
          /\ c[n][L + 1] = seq[n]
          /\ \A a \in 1..L : c[n][a] = c[n - 1][a]
      BY <1>1, <2>1, <2>3, <3>2
    <3> HIDE DEF L
    <3>4. \A a \in 1..L : idx[a] \in 1..(n - 1)
      BY <2>4 DEF L
    <3>5. new \in [1..(L + 1) -> 1..n]
      BY <2>1, <3>1, <3>4
    <3>6. Ascending(new)
      <4>1. ASSUME NEW a \in 1..(L + 1), NEW b \in 1..(L + 1), a < b PROVE new[a] < new[b]
        <5>1. a \in 1..L
          BY <3>1, <4>1
        <5>2. new[a] = idx[a]
          BY <3>1, <5>1
        <5>3. CASE b = L + 1
          BY <2>1, <3>4, <5>1, <5>2, <5>3
        <5>4. CASE b # L + 1
          <6>1. b \in 1..L /\ new[b] = idx[b]
            BY <3>1, <5>4
          <6> QED  BY <2>4, <4>1, <5>1, <5>2, <6>1 DEF Ascending, L
        <5> QED  BY <5>3, <5>4
      <4> QED  BY <4>1 DEF Ascending
    <3>7. ASSUME NEW a \in 1..(L + 1)
          PROVE  c[n][a] = seq[new[a]] /\ seq[new[a]] \in wanted
      <4>1. CASE a = L + 1
        BY <2>5, <3>3, <4>1
      <4>2. CASE a # L + 1
        <5>1. a \in 1..L /\ new[a] = idx[a]
          BY <3>1, <4>2
        <5> QED  BY <2>4, <3>3, <5>1 DEF L
      <4> QED  BY <4>1, <4>2
    <3> HIDE DEF new
    <3>8. Of(c[n], n)
      BY <3>3, <3>5, <3>6, <3>7
    <3> HIDE DEF Of
    <3> QED  BY <1>1, <2>1, <3>8
  <2>6. CASE seq[n] \notin wanted
    <3>1. c[n] = c[n - 1]
      BY <2>2, <2>3, <2>6 DEF OneIf
    <3>2. idx \in [1..Len(c[n - 1]) -> 1..n]
      BY <2>1, <2>3
    <3>3. Of(c[n], n)
      BY <2>3, <2>4, <3>1, <3>2
    <3> HIDE DEF Of
    <3> QED  BY <1>1, <2>1, <3>3
  <2> QED  BY <2>5, <2>6
<1>5. N \in T
  <2> HIDE DEF T
  <2>1. \A n \in 0..N : n \in T
    BY <1>1, <1>3, <1>4, SetInduction
  <2> QED  BY <1>1, <2>1
<1>6. Of(Selected(seq, wanted), N)
  BY <1>2, <1>5
<1>7. DOMAIN Selected(seq, wanted) = 1..Len(Selected(seq, wanted))
  BY <1>6
<1> QED  BY <1>6, <1>7 DEF N

(* Something is selected if it is there.                                   *)
LEMMA SelectedSome ==
  ASSUME NEW S, NEW seq \in Seq(S), NEW wanted, NEW k \in DOMAIN seq, seq[k] \in wanted
  PROVE  Selected(seq, wanted) # <<>>
<1> DEFINE N == Len(seq)
<1>1. N \in Nat /\ k \in 1..N
  OBVIOUS
<1>2. PICK c : /\ Selected(seq, wanted) = c[N]
               /\ c[0] = <<>>
               /\ \A n \in 1..N :
                    c[n] = c[n - 1] \o OneIf(seq[n], wanted)
  BY SelectedSteps
<1> HIDE DEF N
<1> DEFINE T == {n \in 0..N : c[n] \in Seq(S) /\ (n >= k => Len(c[n]) > 0)}
<1>3. 0 \in T
  <2>1. c[0] \in Seq(S) /\ ~(0 >= k)
    BY <1>1, <1>2
  <2> QED  BY <1>1, <2>1
<1>4. ASSUME NEW n \in 1..N, n - 1 \in T PROVE n \in T
  <2>1. n \in Nat /\ seq[n] \in S
    BY <1>1 DEF N
  <2>2. c[n] = c[n - 1] \o OneIf(seq[n], wanted)
    BY <1>2, Zenon
  <2>3. c[n - 1] \in Seq(S) /\ (n - 1 >= k => Len(c[n - 1]) > 0) /\ Len(c[n - 1]) \in Nat
    BY <1>4
  <2>4. CASE seq[n] \in wanted
    <3>1. c[n] = Append(c[n - 1], seq[n])
      BY <2>2, <2>3, <2>4 DEF OneIf
    <3>2. c[n] \in Seq(S) /\ Len(c[n]) = Len(c[n - 1]) + 1
      BY <2>1, <2>3, <3>1
    <3> QED  BY <1>1, <2>1, <2>3, <3>2
  <2>5. CASE seq[n] \notin wanted
    <3>1. c[n] = c[n - 1]
      BY <2>2, <2>3, <2>5 DEF OneIf
    <3>2. n # k
      BY <2>5
    <3> QED  BY <1>1, <2>1, <2>3, <3>1, <3>2
  <2> QED  BY <2>4, <2>5
<1>5. \A n \in 0..N : n \in T
  <2> HIDE DEF T
  <2> QED  BY <1>1, <1>3, <1>4, SetInduction
<1>6. Len(c[N]) > 0
  BY <1>1, <1>5
<1> QED  BY <1>2, <1>6

-----------------------------------------------------------------------------
(* A program that has the files to itself.  The connections are records of *)
(* four fields; nothing is said of the tables.                             *)
IsConnection(c) ==
  /\ c = [open |-> c.open, memory |-> c.memory, tables |-> c.tables, loaded |-> c.loaded]
  /\ c.memory \in BOOLEAN

Connections ==
  /\ db = [p \in Programs |-> [f \in Files |-> db[p][f]]]
  /\ \A p \in Programs, f \in Files : IsConnection(db[p][f])

(* What a program may do to its connections and to a file.                 *)
Uses(p) ==
  \E f \in Files :
    \/ \E memory \in BOOLEAN : acc_sqlite_open(p, f, memory)
    \/ \E new : Execute(p, f, new)
    \/ acc_sqlite_save(p, f)
    \/ acc_sqlite_close(p, f)

(* A copy in memory is of the file as it is.                               *)
Fresh(p, f) == db[p][f].memory => db[p][f].loaded = Content(f)

LEMMA WriteContent ==
  ASSUME NEW f, NEW tables, Write(f, tables)
  PROVE  Content(f)' = tables /\ \A g : g # f => Content(g)' = Content(g)
<1>1. /\ DOMAIN disk' = DOMAIN disk \cup {f} /\ disk'[f] = tables
      /\ \A g \in DOMAIN disk : g # f => disk'[g] = disk[g]
  BY DEF Write
<1>2. Content(f)' = tables
  BY <1>1 DEF Content, FileExists
<1>3. ASSUME NEW g, g # f PROVE Content(g)' = Content(g)
  BY <1>1, <1>3 DEF Content, FileExists
<1> QED  BY <1>2, <1>3

(* An entry of the connections is replaced.                                *)
Replaces(p, f, c) == db' = [db EXCEPT ![p][f] = c]

LEMMA ReplaceConnection ==
  ASSUME Connections, NEW p \in Programs, NEW f \in Files, NEW c, IsConnection(c),
         Replaces(p, f, c)
  PROVE  /\ Connections'
         /\ db'[p][f] = c
         /\ \A q \in Programs, g \in Files : <<q, g>> # <<p, f>> => db'[q][g] = db[q][g]
<1>1. /\ db' = [q \in Programs |-> IF q = p THEN [db[p] EXCEPT ![f] = c] ELSE db[q]]
  BY DEF Connections, Replaces
<1>2. \A q \in Programs : db[q] = [g \in Files |-> db[q][g]]
  BY DEF Connections
<1>3. \A g \in Files : [db[p] EXCEPT ![f] = c][g] = IF g = f THEN c ELSE db[p][g]
  BY <1>2
<1>4. [db[p] EXCEPT ![f] = c] = [g \in Files |-> IF g = f THEN c ELSE db[p][g]]
  BY <1>2
<1>5. db'[p] = [g \in Files |-> IF g = f THEN c ELSE db[p][g]]
  BY <1>1, <1>4
<1>6. \A q \in Programs : q # p => db'[q] = db[q]
  BY <1>1
<1>7. db'[p][f] = c
  BY <1>5
<1>8. ASSUME NEW q \in Programs, NEW g \in Files, <<q, g>> # <<p, f>>
      PROVE  db'[q][g] = db[q][g]
  <2>1. CASE q # p
    BY <1>6, <2>1
  <2>2. CASE q = p /\ g # f
    BY <1>5, <2>2
  <2> QED  BY <1>8, <2>1, <2>2
<1>9. ASSUME NEW q \in Programs PROVE db'[q] = [g \in Files |-> db'[q][g]]
  <2>1. CASE q # p
    BY <1>2, <1>6, <2>1
  <2>2. CASE q = p
    BY <1>5, <2>2
  <2> QED  BY <2>1, <2>2
<1>10. db' = [q \in Programs |-> [g \in Files |-> db'[q][g]]]
  BY <1>1, <1>9
<1>11. \A q \in Programs, g \in Files : IsConnection(db'[q][g])
  BY <1>7, <1>8 DEF Connections
<1>12. Connections'
  BY <1>10, <1>11 DEF Connections, IsConnection
<1> QED  BY <1>7, <1>8, <1>12

(* The operations, as far as the programs can tell.                        *)
Only(p, f) ==
  /\ Connections'
  /\ \A q \in Programs, g \in Files : <<q, g>> # <<p, f>> => db'[q][g] = db[q][g]
  /\ \A g : g # f => Content(g)' = Content(g)

LEMMA OpenEffect ==
  ASSUME Connections, NEW p \in Programs, NEW f \in Files, NEW memory \in BOOLEAN,
         acc_sqlite_open(p, f, memory)
  PROVE  /\ Only(p, f)
         /\ Content(f)' = Content(f) /\ lost' = lost
         /\ db'[p][f].memory = memory
         /\ db'[p][f].tables = IF memory THEN Content(f) ELSE NoTables
         /\ db'[p][f].loaded = db'[p][f].tables
<1> DEFINE copy == IF memory THEN Content(f) ELSE NoTables
           c == [open |-> TRUE, memory |-> memory, tables |-> copy, loaded |-> copy]
<1>1. Write(f, Content(f)) /\ db' = [db EXCEPT ![p][f] = c] /\ lost' = lost
  BY DEF acc_sqlite_open
<1>2. IsConnection(c) /\ c.memory = memory /\ c.tables = copy /\ c.loaded = copy
  BY DEF IsConnection
<1> HIDE DEF c
<1>3. /\ Connections' /\ db'[p][f] = c
      /\ \A q \in Programs, g \in Files : <<q, g>> # <<p, f>> => db'[q][g] = db[q][g]
  <2>1. IsConnection(c) /\ Replaces(p, f, c)
    BY <1>1, <1>2 DEF Replaces
  <2> QED  BY <2>1, ReplaceConnection
<1>4. Content(f)' = Content(f) /\ \A g : g # f => Content(g)' = Content(g)
  BY <1>1, WriteContent
<1> QED  BY <1>1, <1>2, <1>3, <1>4 DEF Only

LEMMA ChangedCopy ==
  ASSUME NEW c, IsConnection(c), NEW new
  PROVE  /\ IsConnection([c EXCEPT !.tables = new])
         /\ [c EXCEPT !.tables = new].memory = c.memory
         /\ [c EXCEPT !.tables = new].tables = new
         /\ [c EXCEPT !.tables = new].loaded = c.loaded
BY DEF IsConnection

LEMMA SavedCopy ==
  ASSUME NEW c, IsConnection(c)
  PROVE  /\ IsConnection([c EXCEPT !.loaded = c.tables])
         /\ [c EXCEPT !.loaded = c.tables].memory = c.memory
         /\ [c EXCEPT !.loaded = c.tables].tables = c.tables
         /\ [c EXCEPT !.loaded = c.tables].loaded = c.tables
BY DEF IsConnection

LEMMA ExecuteInMemory ==
  ASSUME Connections, NEW p \in Programs, NEW f \in Files, NEW new, Execute(p, f, new),
         db[p][f].memory
  PROVE  /\ Only(p, f) /\ lost' = lost
         /\ db'[p][f].memory = db[p][f].memory /\ db'[p][f].loaded = db[p][f].loaded
         /\ db'[p][f].tables = new /\ Content(f)' = Content(f)
<1> DEFINE c == [db[p][f] EXCEPT !.tables = new]
<1>1. db' = [db EXCEPT ![p][f] = c] /\ disk' = disk /\ lost' = lost
  BY DEF Execute
<1>2. IsConnection(db[p][f])
  BY DEF Connections
<1>3. /\ IsConnection(c) /\ c.memory = db[p][f].memory
      /\ c.tables = new /\ c.loaded = db[p][f].loaded
  BY <1>2, ChangedCopy
<1> HIDE DEF c
<1>4. /\ Connections' /\ db'[p][f] = c
      /\ \A q \in Programs, g \in Files : <<q, g>> # <<p, f>> => db'[q][g] = db[q][g]
  <2>1. IsConnection(c) /\ Replaces(p, f, c)
    BY <1>1, <1>3 DEF Replaces
  <2> QED  BY <2>1, ReplaceConnection
<1>5. \A g : Content(g)' = Content(g)
  BY <1>1 DEF Content, FileExists
<1> QED  BY <1>1, <1>3, <1>4, <1>5 DEF Only

LEMMA ExecuteEffect ==
  ASSUME Connections, NEW p \in Programs, NEW f \in Files, NEW new, Execute(p, f, new)
  PROVE  /\ Only(p, f) /\ lost' = lost
         /\ db'[p][f].memory = db[p][f].memory /\ db'[p][f].loaded = db[p][f].loaded
         /\ IF db[p][f].memory
            THEN db'[p][f].tables = new /\ Content(f)' = Content(f)
            ELSE Content(f)' = new /\ db' = db
<1>1. CASE db[p][f].memory
  BY <1>1, ExecuteInMemory
<1>2. CASE ~db[p][f].memory
  <2>1. Write(f, new) /\ db' = db /\ lost' = lost
    BY <1>2 DEF Execute
  <2>2. Content(f)' = new /\ \A g : g # f => Content(g)' = Content(g)
    BY <2>1, WriteContent
  <2>3. Connections'
    BY <2>1 DEF Connections
  <2> QED  BY <1>2, <2>1, <2>2, <2>3 DEF Only
<1> QED  BY <1>1, <1>2

(* A copy that is written is lost time if it is not of the file as it is.  *)
WrittenBack(p, f) ==
  /\ db[p][f].memory
  /\ Content(f)' = db[p][f].tables
  /\ lost' = IF db[p][f].loaded # Content(f) THEN lost \cup {f} ELSE lost

LEMMA WriteBackEffect ==
  ASSUME NEW p, NEW f, db[p][f].memory, acc_sqlite_load_or_save_db(p, f)
  PROVE  WrittenBack(p, f) /\ \A g : g # f => Content(g)' = Content(g)
<1>1. Write(f, db[p][f].tables)
  BY DEF acc_sqlite_load_or_save_db
<1>2. Content(f)' = db[p][f].tables /\ \A g : g # f => Content(g)' = Content(g)
  BY <1>1, WriteContent
<1> QED  BY <1>2 DEF WrittenBack, acc_sqlite_load_or_save_db

LEMMA SaveEffect ==
  ASSUME Connections, NEW p \in Programs, NEW f \in Files, acc_sqlite_save(p, f)
  PROVE  \/ UNCHANGED dbVars
         \/ /\ Only(p, f) /\ WrittenBack(p, f)
            /\ db'[p][f].memory
            /\ db'[p][f].tables = db[p][f].tables
            /\ db'[p][f].loaded = db[p][f].tables
<1> SUFFICES ASSUME ~UNCHANGED dbVars
             PROVE  /\ Only(p, f) /\ WrittenBack(p, f)
                    /\ db'[p][f].memory
                    /\ db'[p][f].tables = db[p][f].tables
                    /\ db'[p][f].loaded = db[p][f].tables
  OBVIOUS
<1> DEFINE c == [db[p][f] EXCEPT !.loaded = db[p][f].tables]
<1>1. /\ db[p][f].memory /\ acc_sqlite_load_or_save_db(p, f)
      /\ db' = [db EXCEPT ![p][f] = c]
  BY DEF acc_sqlite_save
<1>2. IsConnection(db[p][f])
  BY DEF Connections
<1>3. /\ IsConnection(c) /\ c.memory = db[p][f].memory
      /\ c.tables = db[p][f].tables /\ c.loaded = db[p][f].tables
  BY <1>2, SavedCopy
<1> HIDE DEF c
<1>4. /\ Connections' /\ db'[p][f] = c
      /\ \A q \in Programs, g \in Files : <<q, g>> # <<p, f>> => db'[q][g] = db[q][g]
  <2>1. IsConnection(c) /\ Replaces(p, f, c)
    BY <1>1, <1>3 DEF Replaces
  <2> QED  BY <2>1, ReplaceConnection
<1>5. WrittenBack(p, f) /\ \A g : g # f => Content(g)' = Content(g)
  BY <1>1, WriteBackEffect
<1> QED  BY <1>1, <1>3, <1>4, <1>5 DEF Only

LEMMA CloseEffect ==
  ASSUME Connections, NEW p \in Programs, NEW f \in Files, acc_sqlite_close(p, f)
  PROVE  /\ Only(p, f)
         /\ ~db'[p][f].memory /\ db'[p][f].tables = NoTables /\ db'[p][f].loaded = NoTables
         /\ \/ WrittenBack(p, f)
            \/ Content(f)' = Content(f) /\ lost' = lost
<1>1. db' = [db EXCEPT ![p][f] = Closed]
  BY DEF acc_sqlite_close
<1>2. /\ IsConnection(Closed) /\ Closed.memory = FALSE
      /\ Closed.tables = NoTables /\ Closed.loaded = NoTables
  BY DEF IsConnection, Closed
<1>3. /\ Connections' /\ db'[p][f] = Closed
      /\ \A q \in Programs, g \in Files : <<q, g>> # <<p, f>> => db'[q][g] = db[q][g]
  <2>1. IsConnection(Closed) /\ Replaces(p, f, Closed)
    BY <1>1, <1>2 DEF Replaces
  <2> QED  BY <2>1, ReplaceConnection
<1>4. /\ \A g : g # f => Content(g)' = Content(g)
      /\ \/ WrittenBack(p, f)
         \/ Content(f)' = Content(f) /\ lost' = lost
  <2>1. CASE db[p][f].memory /\ acc_sqlite_load_or_save_db(p, f)
    BY <2>1, WriteBackEffect
  <2>2. CASE UNCHANGED <<disk, lost>>
    BY <2>2 DEF Content, FileExists
  <2> QED  BY <2>1, <2>2 DEF acc_sqlite_close
<1> QED  BY <1>2, <1>3, <1>4 DEF Only

-----------------------------------------------------------------------------
(* Which programs may have a copy in memory: none that is not running, the *)
(* executor only of the versions, and only while it is at a group.         *)
GeneratorCopies ==
  /\ gpc = "off" => ~db["generate"]["versions"].memory /\ ~db["generate"]["profile"].memory
  /\ gpc = "exit" => ~db["generate"]["versions"].memory

AnalysisCopies ==
  apc = "off" => ~db["process"]["versions"].memory /\ ~db["process"]["profile"].memory

ExecutorCopies ==
  /\ xpc \in {"off", "select", "unmark"} => ~db["execute"]["versions"].memory
  /\ ~db["execute"]["profile"].memory

CopiesInv ==
  /\ Connections
  /\ GeneratorCopies /\ AnalysisCopies /\ ExecutorCopies

OneRuns == \A p, q \in Programs : Running(p) /\ Running(q) => p = q

AllFresh == \A p \in Programs, f \in Files : Fresh(p, f)

AloneInv ==
  /\ CopiesInv
  /\ overlapped \/ (lost = {} /\ OneRuns /\ AllFresh)

LEMMA OwnersRun ==
  ASSUME CopiesInv
  PROVE  \A p \in Programs, f \in Files : db[p][f].memory => Running(p)
BY ProgramsAssumption, FilesAssumption
DEF CopiesInv, GeneratorCopies, AnalysisCopies, ExecutorCopies, Running

(* A program that alone has copies, which are of the files as they are,    *)
(* loses nothing.                                                          *)
LEMMA UsesAlone ==
  ASSUME Connections, NEW p \in Programs, Uses(p), lost = {}, AllFresh,
         \A q \in Programs, g \in Files : db[q][g].memory => q = p
  PROVE  lost' = {} /\ AllFresh'
<1>1. PICK f \in Files :
        \/ \E memory \in BOOLEAN : acc_sqlite_open(p, f, memory)
        \/ \E new : Execute(p, f, new)
        \/ acc_sqlite_save(p, f)
        \/ acc_sqlite_close(p, f)
  BY DEF Uses
<1>2. SUFFICES \/ UNCHANGED dbVars
               \/ Only(p, f) /\ lost' = {}
                  /\ (db'[p][f].memory => db'[p][f].loaded = Content(f)')
  <2>1. CASE UNCHANGED dbVars
    BY <2>1 DEF dbVars, AllFresh, Fresh, Content, FileExists
  <2>2. CASE Only(p, f) /\ lost' = {} /\ (db'[p][f].memory => db'[p][f].loaded = Content(f)')
    <3>1. ASSUME NEW q \in Programs, NEW g \in Files, db'[q][g].memory
          PROVE  db'[q][g].loaded = Content(g)'
      <4>1. CASE q = p /\ g = f
        BY <2>2, <3>1, <4>1
      <4>2. CASE ~(q = p /\ g = f)
        <5>1. db'[q][g] = db[q][g]
          BY <2>2, <4>2 DEF Only
        <5>2. q = p /\ db[q][g].loaded = Content(g)
          BY <3>1, <5>1 DEF AllFresh, Fresh
        <5>3. Content(g)' = Content(g)
          BY <2>2, <4>2, <5>2 DEF Only
        <5> QED  BY <5>1, <5>2, <5>3
      <4> QED  BY <4>1, <4>2
    <3> QED  BY <2>2, <3>1 DEF AllFresh, Fresh
  <2> QED  BY <1>2, <2>1, <2>2
<1>3. db[p][f].memory => db[p][f].loaded = Content(f)
  BY DEF AllFresh, Fresh
<1>4. ASSUME NEW memory \in BOOLEAN, acc_sqlite_open(p, f, memory)
      PROVE  Only(p, f) /\ lost' = {} /\ (db'[p][f].memory => db'[p][f].loaded = Content(f)')
  <2>1. /\ Only(p, f) /\ Content(f)' = Content(f) /\ lost' = lost /\ db'[p][f].memory = memory
        /\ db'[p][f].tables = IF memory THEN Content(f) ELSE NoTables
        /\ db'[p][f].loaded = db'[p][f].tables
    BY <1>4, OpenEffect
  <2> QED  BY <2>1
<1>5. ASSUME NEW new, Execute(p, f, new)
      PROVE  Only(p, f) /\ lost' = {} /\ (db'[p][f].memory => db'[p][f].loaded = Content(f)')
  <2>1. /\ Only(p, f) /\ lost' = lost
        /\ db'[p][f].memory = db[p][f].memory /\ db'[p][f].loaded = db[p][f].loaded
        /\ db[p][f].memory => Content(f)' = Content(f)
    BY <1>5, ExecuteEffect
  <2> QED  BY <1>3, <2>1
<1>6. CASE acc_sqlite_save(p, f)
  <2>1. \/ UNCHANGED dbVars
        \/ /\ Only(p, f) /\ WrittenBack(p, f)
           /\ db'[p][f].loaded = db[p][f].tables
    BY <1>6, SaveEffect
  <2> QED  BY <1>3, <2>1 DEF WrittenBack
<1>7. CASE acc_sqlite_close(p, f)
  <2>1. /\ Only(p, f) /\ ~db'[p][f].memory
        /\ WrittenBack(p, f) \/ lost' = lost
    BY <1>7, CloseEffect
  <2> QED  BY <1>3, <2>1 DEF WrittenBack
<1> QED  BY <1>1, <1>4, <1>5, <1>6, <1>7

(* Each program has connections of its own, and uses them while it runs.   *)
LEMMA GenerateUses ==
  ASSUME Generate
  PROVE  gpc # "off" /\ (Uses("generate") \/ UNCHANGED dbVars)
<1>1. "versions" \in Files /\ "profile" \in Files /\ TRUE \in BOOLEAN
  BY FilesAssumption
<1>2. CASE OpenVersions
  BY <1>1, <1>2 DEF OpenVersions, GenerationGoes, Uses
<1>3. CASE OpenProfile
  BY <1>1, <1>3 DEF OpenProfile, GenerationGoes, Uses
<1>4. CASE LoadGenData
  <2>1. gpc = "load" /\ \E new : Execute("generate", "profile", new)
    BY <1>4 DEF LoadGenData, GenerationGoes
  <2> QED  BY <1>1, <2>1 DEF Uses
<1>5. CASE acc_tuning_generate
  <2>1. gpc = "generate" /\ \E new : Execute("generate", "profile", new)
    BY <1>5 DEF acc_tuning_generate
  <2> QED  BY <1>1, <2>1 DEF Uses
<1>6. CASE CloseVersions
  BY <1>1, <1>6 DEF CloseVersions, GenerationGoes, Uses
<1>7. CASE acc_profiling_exit
  BY <1>1, <1>7 DEF acc_profiling_exit, GenerationGoes, Uses
<1> QED  BY <1>2, <1>3, <1>4, <1>5, <1>6, <1>7 DEF Generate

LEMMA AnalyseUses ==
  ASSUME Analyse
  PROVE  apc # "off" /\ (Uses("process") \/ UNCHANGED dbVars)
<1>1. "versions" \in Files /\ "profile" \in Files /\ TRUE \in BOOLEAN
  BY FilesAssumption
<1>2. CASE OpenAnalysedVersions
  BY <1>1, <1>2 DEF OpenAnalysedVersions, AnalysisGoes, Uses
<1>3. CASE OpenAnalysedProfile
  BY <1>1, <1>3 DEF OpenAnalysedProfile, AnalysisGoes, Uses
<1>4. CASE InitAnalysis
  <2>1. apc = "profiling_init" /\ \E new : Execute("process", "profile", new)
    BY <1>4 DEF InitAnalysis, AnalysisGoes
  <2> QED  BY <1>1, <2>1 DEF Uses
<1>5. CASE ReadExecutedRuns
  <2>1. apc = "read_runs" /\ \E new : Execute("process", "versions", new)
    BY <1>5 DEF ReadExecutedRuns
  <2> QED  BY <1>1, <2>1 DEF Uses
<1>6. ASSUME NEW th \in Threads, EvaluateRun(th)
      PROVE  apc # "off" /\ UNCHANGED dbVars
  BY <1>6 DEF EvaluateRun
<1>7. ASSUME NEW th \in Threads, InsertBatch(th)
      PROVE  apc # "off" /\ Uses("process")
  <2>1. apc = "evaluate" /\ \E new : Execute("process", "versions", new)
    BY <1>7 DEF InsertBatch
  <2> QED  BY <1>1, <2>1 DEF Uses
<1>8. CASE SavePerformances
  BY <1>1, <1>8 DEF SavePerformances, Uses
<1>9. CASE Summarise
  <2>1. apc = "summarise" /\ \E new : Execute("process", "versions", new)
    BY <1>9 DEF Summarise, AnalysisGoes
  <2> QED  BY <1>1, <2>1 DEF Uses
<1>10. CASE SaveSummaries
  BY <1>1, <1>10 DEF SaveSummaries, AnalysisGoes, Uses
<1>11. CASE ExitAnalysis
  BY <1>1, <1>11 DEF ExitAnalysis, AnalysisGoes, Uses
<1> QED
  BY <1>2, <1>3, <1>4, <1>5, <1>6, <1>7, <1>8, <1>9, <1>10, <1>11 DEF Analyse

LEMMA ScriptUses ==
  ASSUME ExecutorCopies, Script \/ Mark
  PROVE  xpc # "off" /\ (Uses("execute") \/ UNCHANGED dbVars)
<1>1. "versions" \in Files /\ "profile" \in Files /\ TRUE \in BOOLEAN /\ FALSE \in BOOLEAN
  BY FilesAssumption
<1>2. ASSUME NEW new, Write("profile", new), UNCHANGED <<db, lost>>
      PROVE  Execute("execute", "profile", new)
  BY <1>2 DEF Execute, ExecutorCopies
<1>3. CASE Mark
  <2>1. xpc = "select" /\ UNCHANGED <<db, lost>> /\ \E new : Write("profile", new)
    BY <1>3 DEF Mark
  <2> QED  BY <1>1, <1>2, <2>1 DEF Uses
<1>4. CASE Unmark
  <2>1. /\ xpc = "unmark" /\ UNCHANGED <<db, lost>>
        /\ UNCHANGED disk \/ \E new : Write("profile", new)
    BY <1>4 DEF Unmark
  <2> QED  BY <1>1, <1>2, <2>1 DEF Uses, dbVars
<1>5. CASE ScriptEnds
  BY <1>5 DEF ScriptEnds
<1>6. CASE OpenExecutedVersions
  BY <1>1, <1>6 DEF OpenExecutedVersions, ExecutorGoes, Uses
<1>7. CASE OpenExecutedProfile
  BY <1>1, <1>7 DEF OpenExecutedProfile, ExecutorGoes, Uses
<1>8. CASE InitExecution
  <2>1. xpc = "profiling_init" /\ \E new : Execute("execute", "profile", new)
    BY <1>8 DEF InitExecution, ExecutorGoes
  <2> QED  BY <1>1, <2>1 DEF Uses
<1>9. CASE LoadVersion \/ ReadMarkedRuns
  BY <1>9 DEF LoadVersion, ReadMarkedRuns, ExecutorGoes
<1>10. CASE Claim \/ Complete
  <2>1. xpc # "off" /\ \E new : Execute("execute", "profile", new)
    BY <1>10 DEF Claim, Complete, ExecutorGoes, SetCurrent
  <2> QED  BY <1>1, <2>1 DEF Uses
<1>11. CASE Launch
  <2>1. xpc # "off" /\ \E new : Execute("execute", "profile", new)
    BY <1>11 DEF Launch, ExecutorGoes
  <2> QED  BY <1>1, <2>1 DEF Uses
<1>12. CASE ExitExecution
  BY <1>1, <1>12 DEF ExitExecution, ExecutorGoes, Uses
<1> QED
  BY <1>3, <1>4, <1>5, <1>6, <1>7, <1>8, <1>9, <1>10, <1>11, <1>12 DEF Script

(* What a step of the whole is, for the files.                             *)
LEMMA DisconnectEffect ==
  ASSUME Connections, NEW p \in Programs, Disconnect(p)
  PROVE  /\ Connections'
         /\ \A f \in Files : db'[p][f] = Closed
         /\ \A q \in Programs : q # p => db'[q] = db[q]
<1>1. /\ \A q \in Programs : db'[q] = IF q = p THEN [f \in Files |-> Closed] ELSE db[q]
      /\ db' = [q \in Programs |-> db'[q]]
  BY DEF Connections, Disconnect
<1>2. \A f \in Files : db'[p][f] = Closed
  BY <1>1
<1>3. \A q \in Programs : q # p => db'[q] = db[q]
  BY <1>1
<1>4. IsConnection(Closed)
  BY DEF IsConnection, Closed
<1>5. \A q \in Programs, f \in Files : IsConnection(db'[q][f])
  BY <1>2, <1>3, <1>4 DEF Connections
<1>6. ASSUME NEW q \in Programs PROVE db'[q] = [f \in Files |-> db'[q][f]]
  BY <1>1 DEF Connections
<1>7. db' = [q \in Programs |-> [f \in Files |-> db'[q][f]]]
  BY <1>1, <1>6
<1>8. Connections'
  BY <1>5, <1>7 DEF Connections, IsConnection
<1> QED  BY <1>2, <1>3, <1>8

LEMMA UsesOwn ==
  ASSUME Connections, NEW p \in Programs, Uses(p)
  PROVE  Connections' /\ \A q \in Programs, f \in Files : q # p => db'[q][f] = db[q][f]
<1>1. PICK f \in Files :
        \/ \E memory \in BOOLEAN : acc_sqlite_open(p, f, memory)
        \/ \E new : Execute(p, f, new)
        \/ acc_sqlite_save(p, f)
        \/ acc_sqlite_close(p, f)
  BY DEF Uses
<1>2. Only(p, f) \/ UNCHANGED dbVars
  <2>1. ASSUME NEW memory \in BOOLEAN, acc_sqlite_open(p, f, memory) PROVE Only(p, f)
    BY <2>1, OpenEffect
  <2>2. ASSUME NEW new, Execute(p, f, new) PROVE Only(p, f)
    BY <2>2, ExecuteEffect
  <2>3. CASE acc_sqlite_save(p, f)
    BY <2>3, SaveEffect
  <2>4. CASE acc_sqlite_close(p, f)
    BY <2>4, CloseEffect
  <2> QED  BY <1>1, <2>1, <2>2, <2>3, <2>4
<1>3. CASE Only(p, f)
  BY <1>3 DEF Only
<1>4. CASE UNCHANGED dbVars
  BY <1>4 DEF dbVars, Connections, IsConnection
<1> QED  BY <1>2, <1>3, <1>4

LEMMA GenerateCopies ==
  ASSUME CopiesInv, Generate
  PROVE  GeneratorCopies'
<1>0. "generate" \in Programs /\ "versions" \in Files /\ "profile" \in Files /\ Connections
  BY ProgramsAssumption, FilesAssumption DEF CopiesInv
<1>1. CASE CloseVersions
  <2>1. acc_sqlite_close("generate", "versions") /\ gpc' = "exit"
    BY <1>1 DEF CloseVersions, GenerationGoes
  <2>2. ~db'["generate"]["versions"].memory
    BY <1>0, <2>1, CloseEffect
  <2> QED  BY <2>1, <2>2 DEF GeneratorCopies
<1>2. CASE acc_profiling_exit
  <2>1. acc_sqlite_close("generate", "profile") /\ gpc = "exit"
    BY <1>2 DEF acc_profiling_exit, GenerationGoes
  <2>2. ~db'["generate"]["profile"].memory /\ Only("generate", "profile")
    BY <1>0, <2>1, CloseEffect
  <2>3. db'["generate"]["versions"] = db["generate"]["versions"]
    BY <1>0, <2>2 DEF Only
  <2> QED  BY <2>1, <2>2, <2>3 DEF GeneratorCopies, CopiesInv
<1>3. CASE ~CloseVersions /\ ~acc_profiling_exit
  <2>1. gpc' \notin {"off", "exit"}
    BY <1>3 DEF Generate, OpenVersions, OpenProfile, LoadGenData, acc_tuning_generate,
                GenerationGoes
  <2> QED  BY <2>1 DEF GeneratorCopies
<1> QED  BY <1>1, <1>2, <1>3

LEMMA AnalyseCopies ==
  ASSUME Analyse
  PROVE  AnalysisCopies'
<1>1. apc' # "off"
  <2>1. ASSUME NEW th \in Threads, EvaluateRun(th) \/ InsertBatch(th) PROVE apc' # "off"
    BY <2>1 DEF EvaluateRun, InsertBatch
  <2> QED
    BY <2>1 DEF Analyse, OpenAnalysedVersions, OpenAnalysedProfile, InitAnalysis,
                ReadExecutedRuns, SavePerformances, Summarise, SaveSummaries, ExitAnalysis,
                AnalysisGoes
<1> QED  BY <1>1 DEF AnalysisCopies

LEMMA ScriptCopies ==
  ASSUME CopiesInv, Script \/ Mark
  PROVE  ExecutorCopies'
<1>0. /\ "execute" \in Programs /\ "versions" \in Files /\ "profile" \in Files
      /\ Connections /\ ExecutorCopies /\ FALSE \in BOOLEAN /\ TRUE \in BOOLEAN
  BY ProgramsAssumption, FilesAssumption DEF CopiesInv
<1>1. CASE ExitExecution
  <2>1. acc_sqlite_close("execute", "versions")
    BY <1>1 DEF ExitExecution
  <2>2. ~db'["execute"]["versions"].memory /\ Only("execute", "versions")
    BY <1>0, <2>1, CloseEffect
  <2>3. db'["execute"]["profile"] = db["execute"]["profile"]
    BY <1>0, <2>2 DEF Only
  <2> QED  BY <1>0, <2>2, <2>3 DEF ExecutorCopies
<1>2. CASE OpenExecutedVersions
  <2>1. acc_sqlite_open("execute", "versions", TRUE) /\ xpc' = "open_profile"
    BY <1>2 DEF OpenExecutedVersions, ExecutorGoes
  <2>2. Only("execute", "versions")
    BY <1>0, <2>1, OpenEffect
  <2>3. db'["execute"]["profile"] = db["execute"]["profile"]
    BY <1>0, <2>2 DEF Only
  <2> QED  BY <1>0, <2>1, <2>3 DEF ExecutorCopies
<1>3. CASE OpenExecutedProfile
  <2>1. acc_sqlite_open("execute", "profile", FALSE) /\ xpc' = "profiling_init"
    BY <1>3 DEF OpenExecutedProfile, ExecutorGoes
  <2>2. ~db'["execute"]["profile"].memory
    BY <1>0, <2>1, OpenEffect
  <2> QED  BY <2>1, <2>2 DEF ExecutorCopies
<1>4. CASE ~ExitExecution /\ ~OpenExecutedVersions /\ ~OpenExecutedProfile
  <2>1. ASSUME NEW new, Execute("execute", "profile", new) PROVE db' = db
    BY <1>0, <2>1 DEF Execute, ExecutorCopies
  <2>2. db' = db
    <3>1. CASE Mark \/ Unmark \/ ScriptEnds \/ LoadVersion \/ ReadMarkedRuns
      BY <3>1 DEF Mark, Unmark, ScriptEnds, LoadVersion, ReadMarkedRuns, dbVars
    <3>2. CASE InitExecution \/ Claim \/ Launch \/ Complete
      <4>1. \E new : Execute("execute", "profile", new)
        BY <3>2 DEF InitExecution, Claim, Launch, Complete, SetCurrent
      <4> QED  BY <2>1, <4>1
    <3> QED  BY <1>4, <3>1, <3>2 DEF Script
  <2>3. xpc' \in {"off", "select", "unmark"} => xpc \in {"off", "select", "unmark"}
    BY <1>4 DEF Script, Mark, Unmark, ScriptEnds, LoadVersion, ReadMarkedRuns,
                InitExecution, Claim, Launch, Complete, ExecutorGoes
  <2> QED  BY <1>0, <2>2, <2>3 DEF ExecutorCopies
<1> QED  BY <1>1, <1>2, <1>3, <1>4

(* The other programs' connections stay.                                   *)
LEMMA OthersCopies ==
  ASSUME CopiesInv, NEW p \in Programs,
         \A q \in Programs, f \in Files : q # p => db'[q][f] = db[q][f]
  PROVE  /\ p # "generate" /\ gpc' = gpc => GeneratorCopies'
         /\ p # "process" /\ apc' = apc => AnalysisCopies'
         /\ p # "execute" /\ xpc' = xpc => ExecutorCopies'
BY ProgramsAssumption, FilesAssumption
DEF CopiesInv, GeneratorCopies, AnalysisCopies, ExecutorCopies

LEMMA CopiesStep == CopiesInv /\ [Next]_vars => CopiesInv'
<1> SUFFICES ASSUME CopiesInv, [Next]_vars PROVE CopiesInv'
  OBVIOUS
<1>0. /\ Programs = {"generate", "execute", "process"} /\ Files = {"versions", "profile"}
      /\ Connections /\ ExecutorCopies
  BY ProgramsAssumption, FilesAssumption DEF CopiesInv
<1>1. CASE Generate /\ UNCHANGED <<analysisVars, executorVars, userVars>>
  <2>1. Uses("generate") \/ UNCHANGED dbVars
    BY <1>1, GenerateUses
  <2>2. Connections' /\ \A q \in Programs, f \in Files : q # "generate" => db'[q][f] = db[q][f]
    BY <1>0, <2>1, UsesOwn DEF dbVars, Connections, IsConnection
  <2>3. apc' = apc /\ xpc' = xpc
    BY <1>1 DEF analysisVars, executorVars
  <2> QED  BY <1>0, <1>1, <2>2, <2>3, OthersCopies, GenerateCopies DEF CopiesInv
<1>2. CASE Analyse /\ UNCHANGED <<generationVars, executorVars, userVars>>
  <2>1. Uses("process") \/ UNCHANGED dbVars
    BY <1>2, AnalyseUses
  <2>2. Connections' /\ \A q \in Programs, f \in Files : q # "process" => db'[q][f] = db[q][f]
    BY <1>0, <2>1, UsesOwn DEF dbVars, Connections, IsConnection
  <2>3. gpc' = gpc /\ xpc' = xpc
    BY <1>2 DEF generationVars, executorVars
  <2> QED  BY <1>0, <1>2, <2>2, <2>3, OthersCopies, AnalyseCopies DEF CopiesInv
<1>3. CASE (Script \/ Mark) /\ UNCHANGED <<generationVars, analysisVars>>
  <2>1. Uses("execute") \/ UNCHANGED dbVars
    BY <1>0, <1>3, ScriptUses
  <2>2. Connections' /\ \A q \in Programs, f \in Files : q # "execute" => db'[q][f] = db[q][f]
    BY <1>0, <2>1, UsesOwn DEF dbVars, Connections, IsConnection
  <2>3. gpc' = gpc /\ apc' = apc
    BY <1>3 DEF generationVars, analysisVars
  <2> QED  BY <1>0, <1>3, <2>2, <2>3, OthersCopies, ScriptCopies DEF CopiesInv
<1>4. CASE StartGeneration \/ StartAnalysis \/ StartScript
  <2>1. /\ db' = db
        /\ gpc' \in {gpc, "open_versions"} /\ apc' \in {apc, "open_versions"}
        /\ xpc' = xpc \/ xpc = "off"
    BY <1>4 DEF StartGeneration, StartAnalysis, StartScript, Start, dbVars, Running,
                generationVars, analysisVars, executorVars
  <2>2. Connections'
    BY <1>0, <2>1 DEF Connections, IsConnection
  <2>3. GeneratorCopies' /\ AnalysisCopies'
    BY <2>1 DEF CopiesInv, GeneratorCopies, AnalysisCopies
  <2>4. ExecutorCopies'
    BY <2>1 DEF CopiesInv, ExecutorCopies
  <2> QED  BY <2>2, <2>3, <2>4 DEF CopiesInv
<1>5. CASE EndGeneration \/ EndAnalysis \/ EndExecution
  <2>0. ASSUME NEW p \in Programs, Disconnect(p)
        PROVE  /\ Connections'
               /\ ~db'[p]["versions"].memory /\ ~db'[p]["profile"].memory
               /\ \A q \in Programs, f \in Files : q # p => db'[q][f] = db[q][f]
    BY <1>0, <2>0, DisconnectEffect DEF Closed
  <2>1. CASE EndGeneration
    <3>1. Disconnect("generate") /\ apc' = apc /\ xpc' = xpc
      BY <2>1 DEF EndGeneration, analysisVars, executorVars
    <3>2. GeneratorCopies'
      BY <1>0, <2>0, <3>1 DEF GeneratorCopies
    <3> QED  BY <1>0, <2>0, <3>1, <3>2, OthersCopies DEF CopiesInv
  <2>2. CASE EndAnalysis
    <3>1. Disconnect("process") /\ gpc' = gpc /\ xpc' = xpc
      BY <2>2 DEF EndAnalysis, generationVars, executorVars
    <3>2. AnalysisCopies'
      BY <1>0, <2>0, <3>1 DEF AnalysisCopies
    <3> QED  BY <1>0, <2>0, <3>1, <3>2, OthersCopies DEF CopiesInv
  <2>3. CASE EndExecution
    <3>1. Disconnect("execute") /\ gpc' = gpc /\ apc' = apc
      BY <2>3 DEF EndExecution, generationVars, analysisVars
    <3>2. ExecutorCopies'
      BY <1>0, <2>0, <3>1 DEF ExecutorCopies
    <3> QED  BY <1>0, <2>0, <3>1, <3>2, OthersCopies DEF CopiesInv
  <2> QED  BY <1>5, <2>1, <2>2, <2>3
<1>6. CASE UNCHANGED vars
  <2>1. db' = db /\ gpc' = gpc /\ apc' = apc /\ xpc' = xpc
    BY <1>6 DEF vars, dbVars, generationVars, analysisVars, executorVars
  <2> QED
    BY <2>1 DEF CopiesInv, Connections, IsConnection, GeneratorCopies, AnalysisCopies,
                ExecutorCopies
<1> QED  BY <1>1, <1>2, <1>3, <1>4, <1>5, <1>6 DEF Next

-----------------------------------------------------------------------------
(* Who runs at the beginning and the end of a step.                        *)
LEMMA RunningIs ==
  /\ Running("generate") <=> gpc # "off"
  /\ Running("process") <=> apc # "off"
  /\ Running("execute") <=> xpc # "off"
BY DEF Running

LEMMA AloneStart == Init => AloneInv
<1> SUFFICES ASSUME Init PROVE AloneInv
  OBVIOUS
<1>1. /\ db = [p \in Programs |-> [f \in Files |-> Closed]] /\ lost = {}
      /\ gpc = "off" /\ apc = "off" /\ xpc = "off"
  BY DEF Init
<1>2. \A p \in Programs, f \in Files : db[p][f] = Closed
  BY <1>1
<1>3. IsConnection(Closed) /\ ~Closed.memory
  BY DEF IsConnection, Closed
<1>4. \A p \in Programs : db[p] = [f \in Files |-> db[p][f]]
  BY <1>1
<1>5. Connections
  BY <1>1, <1>2, <1>3, <1>4 DEF Connections
<1>6. CopiesInv
  BY <1>2, <1>3, <1>5, ProgramsAssumption, FilesAssumption
  DEF CopiesInv, GeneratorCopies, AnalysisCopies, ExecutorCopies
<1>7. OneRuns
  BY <1>1, ProgramsAssumption, RunningIs DEF OneRuns
<1>8. AllFresh
  BY <1>2, <1>3 DEF AllFresh, Fresh
<1> QED  BY <1>1, <1>6, <1>7, <1>8 DEF AloneInv

(* What the programs do while they run.                                    *)
LEMMA RunningUses ==
  ASSUME CopiesInv, OneRuns, lost = {}, AllFresh, NEW p \in Programs, Running(p),
         Uses(p) \/ UNCHANGED dbVars
  PROVE  lost' = {} /\ AllFresh'
<1>1. CASE Uses(p)
  <2>1. \A q \in Programs, f \in Files : db[q][f].memory => q = p
    BY OwnersRun DEF OneRuns
  <2> QED  BY <1>1, <2>1, UsesAlone DEF CopiesInv
<1>2. CASE UNCHANGED dbVars
  BY <1>2 DEF dbVars, AllFresh, Fresh, Content, FileExists
<1> QED  BY <1>1, <1>2

LEMMA AloneStep == AloneInv /\ [Next]_vars => AloneInv'
<1> SUFFICES ASSUME AloneInv, [Next]_vars, ~overlapped'
             PROVE  lost' = {} /\ OneRuns' /\ AllFresh'
  BY CopiesStep DEF AloneInv
<1>0. /\ Programs = {"generate", "execute", "process"} /\ Files = {"versions", "profile"}
      /\ CopiesInv
  BY ProgramsAssumption, FilesAssumption DEF AloneInv
<1>1. ~overlapped
  BY DEF Next, userVars, StartGeneration, StartAnalysis, StartScript, Start, Mark,
         EndGeneration, EndAnalysis, EndExecution, vars
<1>2. lost = {} /\ OneRuns /\ AllFresh
  BY <1>1 DEF AloneInv
<1>3. ASSUME UNCHANGED <<disk, lost>>, \A p \in Programs, f \in Files :
               db'[p][f].memory => db'[p][f] = db[p][f]
      PROVE  lost' = {} /\ AllFresh'
  BY <1>2, <1>3 DEF AllFresh, Fresh, Content, FileExists
<1>4. ASSUME \A p \in Programs : Running(p)' => Running(p)
      PROVE  OneRuns'
  BY <1>2, <1>4 DEF OneRuns
<1>5. CASE Generate /\ UNCHANGED <<analysisVars, executorVars, userVars>>
  <2>1. gpc # "off" /\ (Uses("generate") \/ UNCHANGED dbVars)
    BY <1>5, GenerateUses
  <2>2. apc' = apc /\ xpc' = xpc
    BY <1>5 DEF analysisVars, executorVars
  <2>3. \A p \in Programs : Running(p)' => Running(p)
    BY <1>0, <2>1, <2>2 DEF Running
  <2>4. Running("generate")
    BY <2>1, RunningIs
  <2> QED  BY <1>0, <1>2, <1>4, <2>1, <2>3, <2>4, RunningUses
<1>6. CASE Analyse /\ UNCHANGED <<generationVars, executorVars, userVars>>
  <2>1. apc # "off" /\ (Uses("process") \/ UNCHANGED dbVars)
    BY <1>6, AnalyseUses
  <2>2. gpc' = gpc /\ xpc' = xpc
    BY <1>6 DEF generationVars, executorVars
  <2>3. \A p \in Programs : Running(p)' => Running(p)
    BY <1>0, <2>1, <2>2 DEF Running
  <2>4. Running("process")
    BY <2>1, RunningIs
  <2> QED  BY <1>0, <1>2, <1>4, <2>1, <2>3, <2>4, RunningUses
<1>7. CASE (Script \/ Mark) /\ UNCHANGED <<generationVars, analysisVars>>
  <2>1. xpc # "off" /\ (Uses("execute") \/ UNCHANGED dbVars)
    BY <1>0, <1>7, ScriptUses DEF CopiesInv
  <2>2. gpc' = gpc /\ apc' = apc
    BY <1>7 DEF generationVars, analysisVars
  <2>3. \A p \in Programs : Running(p)' => Running(p)
    BY <1>0, <2>1, <2>2 DEF Running
  <2>4. Running("execute")
    BY <2>1, RunningIs
  <2> QED  BY <1>0, <1>2, <1>4, <2>1, <2>3, <2>4, RunningUses
<1>8. CASE StartGeneration \/ StartAnalysis \/ StartScript
  <2>1. PICK p \in Programs : Start(p) /\ \A q \in Programs : q # p => Running(q)' = Running(q)
    <3>1. CASE StartGeneration
      <4>1. Start("generate") /\ apc' = apc /\ xpc' = xpc
        BY <3>1 DEF StartGeneration, analysisVars, executorVars
      <4> QED  BY <1>0, <4>1 DEF Running
    <3>2. CASE StartAnalysis
      <4>1. Start("process") /\ gpc' = gpc /\ xpc' = xpc
        BY <3>2 DEF StartAnalysis, generationVars, executorVars
      <4> QED  BY <1>0, <4>1 DEF Running
    <3>3. CASE StartScript
      <4>1. Start("execute") /\ gpc' = gpc /\ apc' = apc
        BY <3>3 DEF StartScript, generationVars, analysisVars
      <4> QED  BY <1>0, <4>1 DEF Running
    <3> QED  BY <1>8, <3>1, <3>2, <3>3
  <2>2. (\A q \in Programs : ~Running(q)) /\ UNCHANGED dbVars
    BY <2>1 DEF Start
  <2>3. \A q \in Programs : Running(q)' => q = p
    BY <2>1, <2>2
  <2>4. OneRuns'
    BY <2>3 DEF OneRuns
  <2> QED  BY <1>3, <2>2, <2>4 DEF dbVars
<1>9. CASE EndGeneration \/ EndAnalysis \/ EndExecution
  <2>1. PICK p \in Programs :
          /\ Disconnect(p) /\ UNCHANGED <<disk, lost>>
          /\ \A q \in Programs : Running(q)' => Running(q)
    <3>1. CASE EndGeneration
      <4>1. /\ Disconnect("generate") /\ UNCHANGED <<disk, lost>>
            /\ apc' = apc /\ xpc' = xpc /\ gpc' = "off"
        BY <3>1 DEF EndGeneration, analysisVars, executorVars
      <4> QED  BY <1>0, <4>1 DEF Running
    <3>2. CASE EndAnalysis
      <4>1. /\ Disconnect("process") /\ UNCHANGED <<disk, lost>>
            /\ gpc' = gpc /\ xpc' = xpc /\ apc' = "off"
        BY <3>2 DEF EndAnalysis, generationVars, executorVars
      <4> QED  BY <1>0, <4>1 DEF Running
    <3>3. CASE EndExecution
      <4>1. /\ Disconnect("execute") /\ UNCHANGED <<disk, lost>>
            /\ gpc' = gpc /\ apc' = apc /\ xpc # "off"
        BY <3>3 DEF EndExecution, generationVars, analysisVars
      <4> QED  BY <1>0, <4>1 DEF Running
    <3> QED  BY <1>9, <3>1, <3>2, <3>3
  <2>2. /\ \A f \in Files : db'[p][f] = Closed
        /\ \A q \in Programs : q # p => db'[q] = db[q]
    BY <1>0, <2>1, DisconnectEffect DEF CopiesInv
  <2>3. \A q \in Programs, f \in Files : db'[q][f].memory => db'[q][f] = db[q][f]
    BY <2>2 DEF Closed
  <2> QED  BY <1>3, <1>4, <2>1, <2>3
<1>10. CASE UNCHANGED vars
  <2>1. UNCHANGED dbVars /\ gpc' = gpc /\ apc' = apc /\ xpc' = xpc
    BY <1>10 DEF vars, generationVars, analysisVars, executorVars
  <2>2. \A p \in Programs : Running(p)' => Running(p)
    BY <1>0, <2>1 DEF Running
  <2> QED  BY <1>3, <1>4, <2>1, <2>2 DEF dbVars
<1> QED  BY <1>5, <1>6, <1>7, <1>8, <1>9, <1>10 DEF Next

(* Programs that never run at the same time lose nothing of what is in the *)
(* files, wherever each of them may fail: none writes back a copy that is  *)
(* older than its file, of all their ways to open, save and close.         *)
THEOREM AloneNothingIsEverLost == Spec => []AloneNothingIsLost
<1>1. AloneInv => AloneNothingIsLost
  BY DEF AloneInv, AloneNothingIsLost
<1> QED  BY <1>1, AloneStart, AloneStep, PTL DEF Spec

-----------------------------------------------------------------------------
(* Sequences of whatever they hold.                                        *)
IsSequence(s) == s \in Seq(Range(s))

LEMMA SequenceOf ==
  ASSUME NEW S, NEW s \in Seq(S)
  PROVE  IsSequence(s) /\ Range(s) \subseteq S
<1>1. Len(s) \in Nat /\ DOMAIN s = 1..Len(s) /\ \A i \in 1..Len(s) : s[i] \in S
  OBVIOUS
<1>2. \A i \in 1..Len(s) : s[i] \in Range(s)
  BY <1>1 DEF Range
<1>3. s = [i \in 1..Len(s) |-> s[i]]
  OBVIOUS
<1>4. s \in [1..Len(s) -> Range(s)]
  BY <1>2, <1>3
<1>5. s \in Seq(Range(s))
  BY <1>1, <1>4
<1>6. Range(s) \subseteq S
  BY <1>1 DEF Range
<1> QED  BY <1>5, <1>6 DEF IsSequence

LEMMA SequenceFacts ==
  ASSUME NEW s, IsSequence(s)
  PROVE  Len(s) \in Nat /\ DOMAIN s = 1..Len(s) /\ s = [i \in 1..Len(s) |-> s[i]]
BY DEF IsSequence

LEMMA Joined ==
  ASSUME NEW s, NEW t, IsSequence(s), IsSequence(t)
  PROVE  /\ IsSequence(s \o t) /\ Len(s \o t) = Len(s) + Len(t)
         /\ \A i \in 1..Len(s) : (s \o t)[i] = s[i]
         /\ \A i \in 1..Len(t) : (s \o t)[Len(s) + i] = t[i]
<1> DEFINE S == Range(s) \cup Range(t)
<1>1. /\ Len(s) \in Nat /\ s = [i \in 1..Len(s) |-> s[i]] /\ DOMAIN s = 1..Len(s)
      /\ Len(t) \in Nat /\ t = [i \in 1..Len(t) |-> t[i]] /\ DOMAIN t = 1..Len(t)
  BY SequenceFacts
<1>2. (\A i \in 1..Len(s) : s[i] \in S) /\ (\A i \in 1..Len(t) : t[i] \in S)
  BY <1>1 DEF Range
<1> HIDE DEF S
<1>3. s \in [1..Len(s) -> S] /\ t \in [1..Len(t) -> S]
  BY <1>1, <1>2
<1>4. s \in Seq(S) /\ t \in Seq(S)
  BY <1>1, <1>3
<1>5. s \o t \in Seq(S)
  BY <1>4
<1>6. IsSequence(s \o t)
  BY <1>5, SequenceOf
<1> QED  BY <1>4, <1>6

IsJoin(all, s, t) == all = s \o t

LEMMA JoinedRows ==
  ASSUME NEW all, NEW s, NEW t, IsSequence(s), IsSequence(t), IsJoin(all, s, t)
  PROVE  /\ IsSequence(all) /\ Len(all) = Len(s) + Len(t)
         /\ \A i \in 1..Len(s) : all[i] = s[i]
         /\ \A i \in 1..Len(t) : all[Len(s) + i] = t[i]
BY Joined DEF IsJoin

(* The combinations take their elements from the lists.                    *)
Extended(shorter, list) ==
  FlattenSeq([i \in DOMAIN shorter |-> [j \in DOMAIN list |-> Append(shorter[i], list[j])]])

Combining(c, lists) ==
  [n \in 0..Len(lists) |->
     IF n = 0 THEN << <<>> >> ELSE Extended(c[n - 1], lists[n])]

LEMMA ExtendedCombinations ==
  ASSUME NEW A, NEW T \in SUBSET Seq(A), NEW U \in SUBSET Seq(A),
         NEW v \in Seq(T), NEW list \in Seq(A),
         \A e \in T, a \in Range(list) : Append(e, a) \in U
  PROVE  Extended(v, list) \in Seq(U)
<1>1. /\ Len(v) \in Nat /\ DOMAIN v = 1..Len(v) /\ Len(list) \in Nat
      /\ DOMAIN list = 1..Len(list)
  OBVIOUS
<1>2. ASSUME NEW i \in DOMAIN v PROVE [j \in DOMAIN list |-> Append(v[i], list[j])] \in Seq(U)
  <2>1. \A j \in DOMAIN list : Append(v[i], list[j]) \in U
    BY DEF Range
  <2> QED  BY <1>1, <2>1
<1>3. [i \in DOMAIN v |-> [j \in DOMAIN list |-> Append(v[i], list[j])]] \in Seq(Seq(U))
  BY <1>1, <1>2
<1> QED  BY <1>3, FlattenIsSeq DEF Extended

LEMMA CombiningExists ==
  ASSUME NEW A, NEW lists \in Seq(Seq(A))
  PROVE  \E c : c = Combining(c, lists)
<1> DEFINE V == Seq(Seq(A))
           N == Len(lists)
           e == << <<>> >>
           own(n, v) == Extended(v, lists[n])
           g == [n \in Nat |-> [v \in V |-> IF n \in 1..N THEN own(n, v) ELSE v]]
<1>1. N \in Nat /\ \A n \in 1..N, v \in V : own(n, v) \in V
  <2>1. N \in Nat
    OBVIOUS
  <2>2. ASSUME NEW n \in 1..N, NEW v \in V PROVE own(n, v) \in V
    <3>1. lists[n] \in Seq(A)
      OBVIOUS
    <3>2. \A x \in Seq(A), a \in Range(lists[n]) : Append(x, a) \in Seq(A)
      <4>1. Range(lists[n]) \subseteq A
        BY <3>1, SequenceOf
      <4> QED  BY <4>1
    <3>3. Seq(A) \in SUBSET Seq(A)
      OBVIOUS
    <3> QED  BY <3>1, <3>2, <3>3, ExtendedCombinations
  <2> QED  BY <2>1, <2>2
<1>2. g \in [Nat -> [V -> V]]
  <2> HIDE DEF own, N, V
  <2> QED  BY <1>1
<1>3. ASSUME NEW n \in 1..N, NEW v \in V PROVE g[n][v] = own(n, v)
  <2> HIDE DEF own, V
  <2> QED  OBVIOUS
<1>4. e \in V
  OBVIOUS
<1> HIDE DEF g, V, e, own, N
<1>5. PICK f : Iterates(f, V, e, g, N)
  BY <1>1, <1>2, <1>4, Recursion
<1>6. f \in [0..N -> V] /\ f[0] = e /\ \A n \in 1..N : f[n] = g[n][f[n - 1]]
  BY <1>5 DEF Iterates
<1>7. \A n \in 1..N : f[n] = own(n, f[n - 1])
  <2>1. \A n \in 1..N : f[n - 1] \in V
    BY <1>1, <1>6
  <2> QED  BY <1>3, <1>6, <2>1
<1>8. \A n \in 0..N : f[n] = IF n = 0 THEN e ELSE own(n, f[n - 1])
  BY <1>1, <1>6, <1>7
<1>9. f = [n \in 0..N |-> IF n = 0 THEN e ELSE own(n, f[n - 1])]
  BY <1>6, <1>8
<1>10. f = Combining(f, lists)
  BY <1>9 DEF Combining, e, own, N
<1> QED  BY <1>10

LEMMA ProductIsOfLists ==
  ASSUME NEW A, NEW lists \in Seq(Seq(A))
  PROVE  /\ IsSequence(Product(lists))
         /\ \A e \in Range(Product(lists)) :
              /\ e \in Seq(A) /\ Len(e) = Len(lists)
              /\ \A k \in 1..Len(lists) : e[k] \in Range(lists[k])
<1> DEFINE N == Len(lists)
           c == CHOOSE f : f = Combining(f, lists)
           Tuples(n) == {e \in Seq(A) : /\ Len(e) = n
                                        /\ \A k \in 1..n : e[k] \in Range(lists[k])}
<1>0. N \in Nat /\ \A n \in 1..N : lists[n] \in Seq(A)
  OBVIOUS
<1>1. c = Combining(c, lists)
  BY CombiningExists
<1>2. Product(lists) = c[N]
  BY DEF Product, Combining, Extended
<1> HIDE DEF c
<1>3. c[0] = << <<>> >>
  BY <1>0, <1>1 DEF Combining
<1>4. ASSUME NEW n \in 1..N
      PROVE  c[n] = Extended(c[n - 1], lists[n])
  <2>1. n \in 0..N /\ n # 0
    BY <1>0
  <2>2. Combining(c, lists)[n] = Extended(c[n - 1], lists[n])
    BY <2>1, Zenon DEF Combining
  <2> QED  BY <1>1, <2>2, Zenon
<1> DEFINE T == {n \in 0..N : c[n] \in Seq(Tuples(n))}
<1>5. 0 \in T
  <2>1. <<>> \in Tuples(0)
    OBVIOUS
  <2>2. c[0] \in Seq(Tuples(0))
    <3> HIDE DEF Tuples
    <3> QED  BY <1>3, <2>1
  <2> QED  BY <1>0, <2>2
<1>6. ASSUME NEW n \in 1..N, n - 1 \in T PROVE n \in T
  <2>1. c[n - 1] \in Seq(Tuples(n - 1)) /\ n \in Nat /\ n - 1 \in Nat /\ n \in 0..N
    <3> HIDE DEF Tuples
    <3> QED  BY <1>0, <1>6
  <2>2. lists[n] \in Seq(A) /\ Range(lists[n]) \subseteq A
    BY <1>0, SequenceOf
  <2>3. ASSUME NEW e \in Tuples(n - 1), NEW a \in Range(lists[n])
        PROVE  Append(e, a) \in Tuples(n)
    <3>1. e \in Seq(A) /\ Len(e) = n - 1 /\ \A k \in 1..(n - 1) : e[k] \in Range(lists[k])
      OBVIOUS
    <3>2. a \in A
      BY <2>2
    <3>3. Append(e, a) \in Seq(A) /\ Len(Append(e, a)) = n
      BY <2>1, <3>1, <3>2
    <3>4. ASSUME NEW k \in 1..n PROVE Append(e, a)[k] \in Range(lists[k])
      <4>1. CASE k = n
        BY <2>1, <3>1, <4>1
      <4>2. CASE k # n
        <5>1. k \in 1..(n - 1)
          BY <2>1, <4>2
        <5>2. Append(e, a)[k] = e[k]
          BY <3>1, <5>1
        <5> QED  BY <3>1, <5>1, <5>2
      <4> QED  BY <4>1, <4>2
    <3> QED  BY <3>3, <3>4
  <2>4. Tuples(n - 1) \in SUBSET Seq(A) /\ Tuples(n) \in SUBSET Seq(A)
    OBVIOUS
  <2> HIDE DEF Tuples
  <2>5. Extended(c[n - 1], lists[n]) \in Seq(Tuples(n))
    BY <2>1, <2>2, <2>3, <2>4, ExtendedCombinations
  <2>6. c[n] \in Seq(Tuples(n))
    BY <1>4, <2>5, Zenon
  <2> QED  BY <2>1, <2>6
<1>7. N \in T
  <2> HIDE DEF T
  <2>1. \A n \in 0..N : n \in T
    BY <1>0, <1>5, <1>6, SetInduction
  <2> QED  BY <1>0, <2>1
<1>8. Product(lists) \in Seq(Tuples(N))
  BY <1>2, <1>7
<1>9. IsSequence(Product(lists)) /\ Range(Product(lists)) \subseteq Tuples(N)
  <2> HIDE DEF Tuples
  <2> QED  BY <1>8, SequenceOf
<1> QED  BY <1>9

Offsetting(c, run) ==
  [i \in DOMAIN RunValues(run) |->
     IF i = 1 \/ (i = 2 /\ Len(run.devices) > 1) THEN 0
     ELSE c[i - 1] + FieldSize(run, i - 1)]

(* The values of a run on one device, and the place of each.               *)
LEMMA RunValuesAre ==
  ASSUME NEW run, IsSequence(run.devices), Len(run.devices) = 1, IsSequence(run.params)
  PROVE  /\ IsSequence(RunValues(run)) /\ Len(RunValues(run)) = 6 + Len(run.params)
         /\ RunValues(run)[1] = run.rowid /\ RunValues(run)[2] = run.devices[1].version
         /\ RunValues(run)[4] = run.devices[1].gang /\ RunValues(run)[5] = run.devices[1].worker
         /\ \A j \in 1..Len(run.params) : RunValues(run)[6 + j] = run.params[j]
<1> DEFINE d == run.devices[1]
           first == <<run.rowid>>
           fields == <<d.version, d.type, d.gang, d.worker, d.vector>>
<1>1. RunValues(run) = (first \o fields) \o run.params
  BY DEF RunValues
<1>2. /\ IsSequence(first) /\ Len(first) = 1 /\ first[1] = run.rowid
      /\ IsSequence(fields) /\ Len(fields) = 5
      /\ fields[1] = d.version /\ fields[3] = d.gang /\ fields[4] = d.worker
  <2>1. first \in Seq({run.rowid})
    OBVIOUS
  <2>2. fields \in Seq({d.version, d.type, d.gang, d.worker, d.vector})
    OBVIOUS
  <2>3. /\ Len(first) = 1 /\ first[1] = run.rowid
        /\ Len(fields) = 5 /\ fields[1] = d.version /\ fields[3] = d.gang /\ fields[4] = d.worker
    OBVIOUS
  <2> HIDE DEF first, fields
  <2>4. IsSequence(first)
    BY <2>1, SequenceOf
  <2>5. IsSequence(fields)
    BY <2>2, SequenceOf
  <2> QED  BY <2>3, <2>4, <2>5
<1> HIDE DEF first, fields, d
<1>3. PICK joined : joined = first \o fields
  OBVIOUS
<1>4. PICK values : values = joined \o run.params
  OBVIOUS
<1>5. RunValues(run) = values
  BY <1>1, <1>3, <1>4, Zenon
<1>6. IsJoin(joined, first, fields) /\ IsJoin(values, joined, run.params)
  BY <1>3, <1>4 DEF IsJoin
<1>7. /\ IsSequence(joined) /\ Len(joined) = Len(first) + Len(fields)
      /\ \A i \in 1..Len(first) : joined[i] = first[i]
      /\ \A i \in 1..Len(fields) : joined[Len(first) + i] = fields[i]
  <2>1. IsSequence(first) /\ IsSequence(fields) /\ IsJoin(joined, first, fields)
    BY <1>2, <1>6
  <2> QED  BY <2>1, JoinedRows
<1>8. /\ Len(joined) = 6 /\ joined[1] = run.rowid /\ joined[2] = d.version
      /\ joined[4] = d.gang /\ joined[5] = d.worker
  BY <1>2, <1>7
<1>9. /\ IsSequence(values) /\ Len(values) = Len(joined) + Len(run.params)
      /\ \A i \in 1..Len(joined) : values[i] = joined[i]
      /\ \A i \in 1..Len(run.params) : values[Len(joined) + i] = run.params[i]
  <2>1. IsSequence(joined) /\ IsSequence(run.params) /\ IsJoin(values, joined, run.params)
    BY <1>6, <1>7
  <2> QED  BY <2>1, JoinedRows
<1> QED  BY <1>5, <1>8, <1>9 DEF d

PlaceOf(i) == 8 * (i - 1) + (IF i > 3 THEN 32 ELSE 0)

LEMMA OffsetsAre ==
  ASSUME NEW run, IsSequence(run.devices), Len(run.devices) = 1, IsSequence(RunValues(run))
  PROVE  /\ DOMAIN RunOffsets(run) = 1..Len(RunValues(run))
         /\ \A i \in 1..Len(RunValues(run)) : RunOffsets(run)[i] = PlaceOf(i)
<1> DEFINE L == Len(RunValues(run))
<1>1. L \in Nat /\ DOMAIN RunValues(run) = 1..L
  BY SequenceFacts
<1>2. \A i \in Nat : FieldSize(run, i) = IF i = 3 THEN 40 ELSE 8
  <2>1. DOMAIN run.devices = {1}
    BY SequenceFacts
  <2>2. DeviceTypes(run) = {3}
    BY <2>1 DEF DeviceTypes
  <2> QED  BY <2>2 DEF FieldSize
<1>3. ASSUME NEW i \in Nat \ {0}
      PROVE  PlaceOf(i) = IF i = 1 \/ (i = 2 /\ Len(run.devices) > 1) THEN 0
                          ELSE PlaceOf(i - 1) + FieldSize(run, i - 1)
  <2>1. CASE i = 1
    BY <2>1 DEF PlaceOf
  <2>2. CASE i # 1
    <3>1. i - 1 \in Nat
      BY <2>2
    <3>2. FieldSize(run, i - 1) = IF i - 1 = 3 THEN 40 ELSE 8
      BY <1>2, <3>1
    <3> QED  BY <2>2, <3>1, <3>2 DEF PlaceOf
  <2> QED  BY <2>1, <2>2
<1> HIDE DEF L
<1>4. \E c : c = Offsetting(c, run)
  <2> DEFINE c == [i \in 1..L |-> PlaceOf(i)]
  <2>1. ASSUME NEW i \in 1..L
        PROVE  PlaceOf(i) = IF i = 1 \/ (i = 2 /\ Len(run.devices) > 1) THEN 0
                            ELSE c[i - 1] + FieldSize(run, i - 1)
    <3>1. CASE i = 1
      BY <1>3, <3>1
    <3>2. CASE i # 1
      <4>1. i - 1 \in 1..L /\ i \in Nat \ {0}
        BY <1>1, <3>2
      <4>2. c[i - 1] = PlaceOf(i - 1)
        BY <4>1
      <4> QED  BY <1>3, <3>2, <4>1, <4>2
    <3> QED  BY <3>1, <3>2
  <2>2. c = [i \in 1..L |-> IF i = 1 \/ (i = 2 /\ Len(run.devices) > 1) THEN 0
                            ELSE c[i - 1] + FieldSize(run, i - 1)]
    BY <2>1
  <2> HIDE DEF c
  <2> QED  BY <1>1, <2>2 DEF Offsetting
<1> DEFINE offset == CHOOSE c : c = Offsetting(c, run)
<1>5. offset = Offsetting(offset, run)
  BY <1>4
<1>6. RunOffsets(run) = offset
  BY DEF RunOffsets, Offsetting
<1> HIDE DEF offset
<1>7. /\ DOMAIN offset = 1..L
      /\ \A i \in 1..L : offset[i] = IF i = 1 \/ (i = 2 /\ Len(run.devices) > 1) THEN 0
                                     ELSE offset[i - 1] + FieldSize(run, i - 1)
  BY <1>1, <1>5 DEF Offsetting
<1> DEFINE T == {n \in 0..L : n > 0 => offset[n] = PlaceOf(n)}
<1>8. 0 \in T
  BY <1>1
<1>9. ASSUME NEW n \in 1..L, n - 1 \in T PROVE n \in T
  <2>1. n \in Nat \ {0} /\ n \in 0..L
    BY <1>1
  <2>2. PlaceOf(n) = IF n = 1 \/ (n = 2 /\ Len(run.devices) > 1) THEN 0
                     ELSE PlaceOf(n - 1) + FieldSize(run, n - 1)
    BY <1>3, <2>1
  <2>3. offset[n] = IF n = 1 \/ (n = 2 /\ Len(run.devices) > 1) THEN 0
                    ELSE offset[n - 1] + FieldSize(run, n - 1)
    BY <1>7
  <2>4. n # 1 => offset[n - 1] = PlaceOf(n - 1)
    BY <1>9, <2>1
  <2> QED  BY <2>1, <2>2, <2>3, <2>4
<1>10. \A n \in 0..L : n \in T
  <2> HIDE DEF T
  <2> QED  BY <1>1, <1>8, <1>9, SetInduction
<1>11. \A i \in 1..L : offset[i] = PlaceOf(i)
  BY <1>1, <1>10
<1> QED  BY <1>6, <1>7, <1>11 DEF L

(* With one device each field is read from its own place.                  *)
LEMMA FieldIsRead ==
  ASSUME NEW run, IsSequence(run.devices), Len(run.devices) = 1, IsSequence(RunValues(run)),
         NEW i \in Nat, i + 1 \in 1..Len(RunValues(run))
  PROVE  RunField(run, i) = RunValues(run)[i + 1]
<1> DEFINE offset == RunOffsets(run)
           last == CHOOSE j \in DOMAIN offset :
                     /\ offset[j] = offset[i + 1]
                     /\ \A k \in DOMAIN offset : offset[k] = offset[j] => k <= j
<1>1. Len(RunValues(run)) \in Nat
  BY SequenceFacts
<1>2. /\ DOMAIN offset = 1..Len(RunValues(run))
      /\ \A k \in 1..Len(RunValues(run)) : offset[k] = PlaceOf(k)
  BY OffsetsAre
<1>3. \A j, k \in Nat : PlaceOf(j) = PlaceOf(k) => j = k
  BY DEF PlaceOf
<1>4. RunField(run, i) = RunValues(run)[last]
  BY DEF RunField
<1> HIDE DEF offset
<1>5. \A k \in DOMAIN offset : offset[k] = offset[i + 1] => k = i + 1
  BY <1>1, <1>2, <1>3
<1>6. last = i + 1
  BY <1>2, <1>5
<1> QED  BY <1>4, <1>6

LEMMA FieldsAreRead ==
  ASSUME NEW run, IsSequence(run.devices), Len(run.devices) = 1, IsSequence(run.params)
  PROVE  /\ RunField(run, 0) = run.rowid /\ RunField(run, 1) = run.devices[1].version
         /\ RunField(run, 3) = run.devices[1].gang /\ RunField(run, 4) = run.devices[1].worker
         /\ \A j \in 1..Len(run.params) : RunField(run, 5 + j) = run.params[j]
<1>1. /\ IsSequence(RunValues(run)) /\ Len(RunValues(run)) = 6 + Len(run.params)
      /\ Len(run.params) \in Nat
  BY RunValuesAre, SequenceFacts
<1>2. \A i \in 0..5 : RunField(run, i) = RunValues(run)[i + 1]
  BY <1>1, FieldIsRead
<1>3. ASSUME NEW j \in 1..Len(run.params) PROVE RunField(run, 5 + j) = run.params[j]
  <2>1. 5 + j \in Nat /\ (5 + j) + 1 \in 1..Len(RunValues(run)) /\ (5 + j) + 1 = 6 + j
    BY <1>1
  <2>2. RunField(run, 5 + j) = RunValues(run)[(5 + j) + 1]
    BY <1>1, <2>1, FieldIsRead
  <2> QED  BY <2>1, <2>2, RunValuesAre
<1>4. /\ RunField(run, 0) = RunValues(run)[1] /\ RunField(run, 1) = RunValues(run)[2]
      /\ RunField(run, 3) = RunValues(run)[4] /\ RunField(run, 4) = RunValues(run)[5]
  BY <1>2
<1> QED  BY <1>3, <1>4, RunValuesAre

-----------------------------------------------------------------------------
(* Tables that have grown have all the rows they had.                      *)
Extends(old, new) ==
  /\ DOMAIN old \subseteq DOMAIN new
  /\ \A name : \A i \in DOMAIN Rows(old, name) :
       /\ i \in DOMAIN Rows(new, name)
       /\ Rows(new, name)[i] = Rows(old, name)[i]

(* Only rows of runs that nobody has executed are added.                   *)
RunsAreNew(old, new) ==
  \A i \in DOMAIN Rows(new, "Runs") :
    i \in DOMAIN Rows(old, "Runs") \/ Rows(new, "Runs")[i].executed = 0

Grown(f, old, new) == Extends(old, new) /\ (f = "profile" => RunsAreNew(old, new))

Good(f, tables, devices) ==
  IsTables(tables) /\ (f = "profile" => HoldsRuns(tables, devices))

LEMMA TablesFacts ==
  ASSUME NEW tables, IsTables(tables), NEW name
  PROVE  IsSequence(Rows(tables, name))
<1>1. CASE name \in DOMAIN tables
  BY <1>1 DEF IsTables, Rows, IsSequence
<1>2. CASE name \notin DOMAIN tables
  <2>1. <<>> \in Seq({})
    OBVIOUS
  <2>2. IsSequence(<<>>)
    BY <2>1, SequenceOf
  <2> QED  BY <1>2, <2>2 DEF Rows
<1> QED  BY <1>1, <1>2

LEMMA ExtendsTransitive ==
  ASSUME NEW a, NEW b, NEW c, Extends(a, b), Extends(b, c)
  PROVE  Extends(a, c)
BY DEF Extends

LEMMA GrownReflexive ==
  ASSUME NEW f, NEW a
  PROVE  Grown(f, a, a)
BY DEF Grown, Extends, RunsAreNew

LEMMA GrownTransitive ==
  ASSUME NEW f, NEW a, NEW b, NEW c, Grown(f, a, b), Grown(f, b, c)
  PROVE  Grown(f, a, c)
<1>1. Extends(a, c)
  BY ExtendsTransitive DEF Grown
<1>2. ASSUME f = "profile" PROVE RunsAreNew(a, c)
  <2>1. Extends(b, c) /\ RunsAreNew(a, b) /\ RunsAreNew(b, c)
    BY <1>2 DEF Grown
  <2> QED  BY <2>1 DEF Extends, RunsAreNew
<1> QED  BY <1>1, <1>2 DEF Grown

LEMMA KeepsExtended ==
  ASSUME NEW old, NEW new, IsTables(old), IsTables(new), Extends(old, new)
  PROVE  Keeps(old, new)
<1>1. ASSUME NEW name \in DOMAIN old
      PROVE  /\ Len(old[name]) <= Len(Rows(new, name))
             /\ \A i \in DOMAIN old[name] : SameRow(old[name][i], Rows(new, name)[i])
  <2>1. Rows(old, name) = old[name]
    BY DEF Rows
  <2>2. /\ Len(old[name]) \in Nat /\ DOMAIN old[name] = 1..Len(old[name])
        /\ Len(Rows(new, name)) \in Nat /\ DOMAIN Rows(new, name) = 1..Len(Rows(new, name))
    BY <2>1, TablesFacts, SequenceFacts
  <2>3. \A i \in DOMAIN old[name] : /\ i \in DOMAIN Rows(new, name)
                                    /\ Rows(new, name)[i] = old[name][i]
    BY <2>1 DEF Extends
  <2>4. \A i \in 1..Len(old[name]) : i \in 1..Len(Rows(new, name))
    BY <2>2, <2>3
  <2>5. Len(old[name]) <= Len(Rows(new, name))
    BY <2>2, <2>4
  <2>6. \A i \in DOMAIN old[name] : SameRow(old[name][i], Rows(new, name)[i])
    BY <2>3 DEF SameRow
  <2> QED  BY <2>5, <2>6
<1> QED  BY <1>1 DEF Keeps

LEMMA CreatedTable ==
  ASSUME NEW tables, IsTables(tables), NEW name
  PROVE  LET new == acc_sqlite_create_table(tables, name)
         IN /\ IsTables(new) /\ Extends(tables, new) /\ name \in DOMAIN new
            /\ \A other : Rows(new, other) = Rows(tables, other)
<1> DEFINE new == acc_sqlite_create_table(tables, name)
<1>1. CASE name \in DOMAIN tables
  <2>1. new = tables
    BY <1>1 DEF acc_sqlite_create_table, acc_sqlite_table_exists
  <2> QED  BY <1>1, <2>1 DEF Extends
<1>2. CASE name \notin DOMAIN tables
  <2>1. new = [n \in DOMAIN tables \cup {name} |-> IF n = name THEN <<>> ELSE tables[n]]
    BY <1>2 DEF acc_sqlite_create_table, acc_sqlite_table_exists
  <2>2. <<>> \in Seq({})
    OBVIOUS
  <2>3. IsSequence(<<>>)
    BY <2>2, SequenceOf
  <2> HIDE DEF new
  <2>4. /\ DOMAIN new = DOMAIN tables \cup {name} /\ new[name] = <<>>
        /\ \A n \in DOMAIN tables : new[n] = tables[n]
    BY <1>2, <2>1
  <2>5. \A n \in DOMAIN new : IsSequence(new[n])
    BY <2>3, <2>4 DEF IsTables, IsSequence
  <2>6. new = [n \in DOMAIN new |-> new[n]]
    BY <2>1
  <2>7. IsTables(new)
    BY <2>5, <2>6 DEF IsTables, IsSequence
  <2>8. ASSUME NEW other PROVE Rows(new, other) = Rows(tables, other)
    BY <1>2, <2>4 DEF Rows
  <2>9. Extends(tables, new)
    BY <2>4, <2>8 DEF Extends
  <2> QED  BY <2>4, <2>7, <2>8, <2>9 DEF new
<1> QED  BY <1>1, <1>2

LEMMA InsertedRows ==
  ASSUME NEW tables, IsTables(tables), NEW name, NEW rows, IsSequence(rows)
  PROVE  LET new == Insert(tables, name, rows)
         IN /\ IsTables(new) /\ Extends(tables, new)
            /\ \A other : other # name => Rows(new, other) = Rows(tables, other)
            /\ name \in DOMAIN tables => IsJoin(Rows(new, name), Rows(tables, name), rows)
            /\ name \notin DOMAIN tables => new = tables
<1> DEFINE new == Insert(tables, name, rows)
           all == tables[name] \o rows
<1>1. CASE name \notin DOMAIN tables
  <2>1. new = tables
    BY <1>1 DEF Insert, IsTables
  <2> QED  BY <1>1, <2>1 DEF Extends
<1>2. CASE name \in DOMAIN tables
  <2>1. Rows(tables, name) = tables[name] /\ IsSequence(tables[name])
    BY <1>2, TablesFacts DEF Rows
  <2>2. PICK joined : joined = all
    OBVIOUS
  <2>3. new = [n \in DOMAIN tables |-> IF n = name THEN joined ELSE tables[n]]
    BY <1>2, <2>2 DEF Insert, IsTables
  <2>4. joined = all
    BY <2>2
  <2>5. /\ IsSequence(joined) /\ Len(joined) = Len(tables[name]) + Len(rows)
        /\ \A i \in 1..Len(tables[name]) : joined[i] = tables[name][i]
    BY <2>1, <2>4, Joined, Zenon
  <2> HIDE DEF new, all
  <2>6. /\ DOMAIN new = DOMAIN tables /\ new[name] = joined
        /\ \A n \in DOMAIN tables : n # name => new[n] = tables[n]
    BY <1>2, <2>3
  <2>7. \A n \in DOMAIN new : IsSequence(new[n])
    BY <2>5, <2>6 DEF IsTables, IsSequence
  <2>8. new = [n \in DOMAIN new |-> new[n]]
    BY <2>3
  <2>9. IsTables(new)
    BY <2>7, <2>8 DEF IsTables, IsSequence
  <2>10. ASSUME NEW other, other # name PROVE Rows(new, other) = Rows(tables, other)
    BY <2>6, <2>10 DEF Rows
  <2>11. Rows(new, name) = joined
    BY <1>2, <2>6 DEF Rows
  <2>12. ASSUME NEW other, NEW i \in DOMAIN Rows(tables, other)
         PROVE  i \in DOMAIN Rows(new, other) /\ Rows(new, other)[i] = Rows(tables, other)[i]
    <3>1. CASE other # name
      BY <2>10, <3>1
    <3>2. CASE other = name
      <4>1. /\ Len(tables[name]) \in Nat /\ DOMAIN tables[name] = 1..Len(tables[name])
            /\ Len(rows) \in Nat /\ DOMAIN joined = 1..Len(joined)
        BY <2>1, <2>5, SequenceFacts
      <4>2. i \in 1..Len(tables[name])
        BY <2>1, <3>2, <4>1
      <4>3. i \in DOMAIN joined
        BY <2>5, <4>1, <4>2
      <4> QED  BY <2>1, <2>5, <2>11, <3>2, <4>2, <4>3
    <3> QED  BY <3>1, <3>2
  <2>13. Extends(tables, new)
    BY <2>6, <2>12 DEF Extends
  <2>14. Rows(new, name) = Rows(tables, name) \o rows
    BY <2>1, <2>4, <2>11 DEF all
  <2>15. IsJoin(Rows(new, name), Rows(tables, name), rows)
    BY <2>14, Zenon DEF IsJoin
  <2> QED  BY <1>2, <2>9, <2>10, <2>13, <2>15 DEF new
<1> QED  BY <1>1, <1>2

(* Tables whose runs stay.                                                 *)
LEMMA SameRunsAreGood ==
  ASSUME NEW f, NEW old, NEW new, NEW devices, Good(f, old, devices), IsTables(new),
         Extends(old, new), Rows(new, "Runs") = Rows(old, "Runs")
  PROVE  Good(f, new, devices) /\ Grown(f, old, new)
BY DEF Good, Grown, HoldsRuns, RunsAreNew

LEMMA ProfilingTables ==
  ASSUME NEW f, NEW tables, NEW devices, Good(f, tables, devices)
  PROVE  LET new == acc_profiling_init_db(tables)
         IN Good(f, new, devices) /\ Grown(f, tables, new) /\ "Events" \in DOMAIN new
<1>1. PICK a : a = acc_sqlite_create_table(tables, "Devices")
  OBVIOUS
<1>2. PICK b : b = acc_sqlite_create_table(a, "Events")
  OBVIOUS
<1>3. PICK new : new = Insert(b, "Devices", DeviceRows)
  OBVIOUS
<1>4. new = acc_profiling_init_db(tables)
  BY <1>1, <1>2, <1>3 DEF acc_profiling_init_db
<1>5. IsTables(a) /\ Extends(tables, a) /\ Rows(a, "Runs") = Rows(tables, "Runs")
  BY <1>1, CreatedTable DEF Good
<1>6. /\ IsTables(b) /\ Extends(a, b) /\ Rows(b, "Runs") = Rows(a, "Runs")
      /\ "Events" \in DOMAIN b
  BY <1>2, <1>5, CreatedTable
<1>7. IsSequence(DeviceRows)
  <2> DEFINE row(i) == [device_id |-> i - 1]
  <2>1. DeviceRows = [i \in 1..NumOpenCLDevices |-> row(i)]
    BY DEF DeviceRows
  <2> HIDE DEF row
  <2>2. DeviceRows \in Seq({row(i) : i \in 1..NumOpenCLDevices})
    BY <2>1, NumDevicesAssumption
  <2> QED  BY <2>2, SequenceOf
<1>8. IsTables(new) /\ Extends(b, new) /\ Rows(new, "Runs") = Rows(b, "Runs")
  BY <1>3, <1>6, <1>7, InsertedRows
<1>9. Extends(tables, new) /\ "Events" \in DOMAIN new
  BY <1>5, <1>6, <1>8 DEF Extends
<1>10. Good(f, new, devices) /\ Grown(f, tables, new)
  BY <1>5, <1>6, <1>8, <1>9, SameRunsAreGood
<1> QED  BY <1>4, <1>9, <1>10

LEMMA CreatedRuns ==
  ASSUME NEW f, NEW tables, NEW devices, NEW name, Good(f, tables, devices)
  PROVE  LET new == acc_sqlite_create_table(tables, name)
         IN Good(f, new, devices) /\ Grown(f, tables, new)
<1>1. PICK new : new = acc_sqlite_create_table(tables, name)
  OBVIOUS
<1>2. IsTables(new) /\ Extends(tables, new) /\ Rows(new, "Runs") = Rows(tables, "Runs")
  BY <1>1, CreatedTable DEF Good
<1> QED  BY <1>1, <1>2, SameRunsAreGood

(* Rows are inserted in a table that is not that of the runs.              *)
LEMMA InsertedElsewhere ==
  ASSUME NEW f, NEW tables, NEW devices, NEW name, NEW rows, Good(f, tables, devices),
         name # "Runs", IsSequence(rows)
  PROVE  LET new == Insert(tables, name, rows)
         IN Good(f, new, devices) /\ Grown(f, tables, new)
<1>1. PICK new : new = Insert(tables, name, rows)
  OBVIOUS
<1>2. IsTables(new) /\ Extends(tables, new) /\ Rows(new, "Runs") = Rows(tables, "Runs")
  BY <1>1, InsertedRows DEF Good
<1> QED  BY <1>1, <1>2, SameRunsAreGood

(* The runs of the generator.                                              *)
IsNewRun(run, devices) ==
  /\ IsSequence(run.devices) /\ Len(run.devices) = devices
  /\ IsSequence(run.params) /\ run.executed = 0

LEMMA InsertedRuns ==
  ASSUME NEW tables, NEW devices, NEW rows, Good("profile", tables, devices),
         IsSequence(rows), \A i \in 1..Len(rows) : IsNewRun(rows[i], devices)
  PROVE  LET new == Insert(tables, "Runs", WithRowids(rows, tables["Runs"]))
         IN Good("profile", new, devices) /\ Grown("profile", tables, new)
<1>1. PICK numbered : numbered = WithRowids(rows, tables["Runs"])
  OBVIOUS
<1>2. PICK new : new = Insert(tables, "Runs", numbered)
  OBVIOUS
<1> DEFINE old == tables["Runs"]
           row(i) == [rowid |-> Len(old) + i, devices |-> rows[i].devices,
                      params |-> rows[i].params, executed |-> rows[i].executed]
<1>3. Len(rows) \in Nat /\ DOMAIN rows = 1..Len(rows)
  BY SequenceFacts
<1>4. numbered = [i \in 1..Len(rows) |-> row(i)]
  BY <1>1, <1>3 DEF WithRowids
<1>5. IsSequence(numbered) /\ Len(numbered) = Len(rows)
      /\ \A i \in 1..Len(rows) : numbered[i] = row(i)
  <2>1. numbered \in Seq({row(i) : i \in 1..Len(rows)})
    <3> HIDE DEF row
    <3> QED  BY <1>3, <1>4
  <2>2. Len(numbered) = Len(rows)
    <3> HIDE DEF row
    <3> QED  BY <1>3, <1>4
  <2> QED  BY <1>4, <2>1, <2>2, SequenceOf
<1>6. /\ IsTables(new) /\ Extends(tables, new)
      /\ "Runs" \in DOMAIN tables => IsJoin(Rows(new, "Runs"), Rows(tables, "Runs"), numbered)
      /\ "Runs" \notin DOMAIN tables => new = tables
  BY <1>2, <1>5, InsertedRows DEF Good
<1>7. CASE "Runs" \notin DOMAIN tables
  BY <1>1, <1>2, <1>6, <1>7, GrownReflexive
<1>8. CASE "Runs" \in DOMAIN tables
  <2>1. Rows(tables, "Runs") = old /\ IsSequence(old)
    BY <1>8, TablesFacts DEF Rows, Good
  <2> HIDE DEF old
  <2>2. PICK all : all = Rows(new, "Runs")
    OBVIOUS
  <2>3. IsJoin(all, old, numbered)
    BY <1>6, <1>8, <2>1, <2>2
  <2>4. /\ IsSequence(all) /\ Len(all) = Len(old) + Len(numbered)
        /\ \A i \in 1..Len(old) : all[i] = old[i]
        /\ \A i \in 1..Len(numbered) : all[Len(old) + i] = numbered[i]
    <3>1. IsSequence(old) /\ IsSequence(numbered)
      BY <1>5, <2>1
    <3> HIDE DEF row
    <3> QED  BY <2>3, <3>1, JoinedRows
  <2>5. /\ Len(old) \in Nat /\ DOMAIN old = 1..Len(old)
        /\ DOMAIN all = 1..Len(all)
    BY <2>1, <2>4, SequenceFacts
  <2>6. ASSUME NEW i \in 1..Len(all)
        PROVE  IsRun(all[i], i, devices) /\ (i \in 1..Len(old) \/ all[i].executed = 0)
    <3>1. CASE i \in 1..Len(old)
      <4>1. IsRun(old[i], i, devices)
        BY <2>1, <2>5, <3>1 DEF Good, HoldsRuns
      <4> QED  BY <2>4, <3>1, <4>1
    <3>2. CASE i \notin 1..Len(old)
      <4> DEFINE k == i - Len(old)
      <4>1. k \in 1..Len(rows) /\ i = Len(old) + k
        BY <1>3, <1>5, <2>4, <2>5, <3>2
      <4> HIDE DEF k
      <4>2. all[Len(old) + k] = numbered[k]
        BY <1>5, <2>4, <4>1
      <4>3. all[i] = row(k)
        BY <1>5, <4>1, <4>2
      <4>4. IsNewRun(rows[k], devices)
        BY <4>1
      <4>5. row(k).rowid = i
        BY <4>1
      <4>6. IsRun(row(k), i, devices)
        BY <4>4, <4>5 DEF IsRun, IsNewRun, IsSequence
      <4>7. row(k).executed = 0
        BY <4>4 DEF IsNewRun
      <4> QED  BY <4>3, <4>6, <4>7
    <3> QED  BY <3>1, <3>2
  <2>7. HoldsRuns(new, devices)
    BY <2>2, <2>5, <2>6 DEF HoldsRuns
  <2>8. RunsAreNew(tables, new)
    BY <2>1, <2>2, <2>5, <2>6 DEF RunsAreNew
  <2> QED  BY <1>1, <1>2, <1>6, <2>7, <2>8 DEF Good, Grown
<1> QED  BY <1>7, <1>8

(* Combinations and selections of sequences.                               *)
LEMMA ProductFacts ==
  ASSUME NEW n \in Nat, NEW lists, lists = [k \in 1..n |-> lists[k]],
         \A k \in 1..n : IsSequence(lists[k])
  PROVE  /\ IsSequence(Product(lists))
         /\ \A e \in Range(Product(lists)) :
              IsSequence(e) /\ Len(e) = n /\ \A k \in 1..n : e[k] \in Range(lists[k])
<1> DEFINE A == UNION {Range(lists[k]) : k \in 1..n}
<1>1. ASSUME NEW k \in 1..n PROVE lists[k] \in Seq(A)
  <2>1. /\ Len(lists[k]) \in Nat /\ DOMAIN lists[k] = 1..Len(lists[k])
        /\ lists[k] = [i \in 1..Len(lists[k]) |-> lists[k][i]]
    BY SequenceFacts
  <2>2. \A i \in 1..Len(lists[k]) : lists[k][i] \in Range(lists[k])
    BY <2>1 DEF Range
  <2>3. Range(lists[k]) \subseteq A
    OBVIOUS
  <2>4. \A i \in 1..Len(lists[k]) : lists[k][i] \in A
    BY <2>2, <2>3
  <2> HIDE DEF A
  <2> QED  BY <2>1, <2>4
<1> HIDE DEF A
<1>2. lists \in Seq(Seq(A)) /\ Len(lists) = n
  BY <1>1
<1>3. /\ IsSequence(Product(lists))
      /\ \A e \in Range(Product(lists)) :
           /\ e \in Seq(A) /\ Len(e) = n
           /\ \A k \in 1..n : e[k] \in Range(lists[k])
  BY <1>2, ProductIsOfLists
<1> QED  BY <1>3, SequenceOf

LEMMA SelectedFacts ==
  ASSUME NEW seq, NEW wanted, IsSequence(seq)
  PROVE  IsSequence(Selected(seq, wanted)) /\ Range(Selected(seq, wanted)) \subseteq Range(seq)
<1>1. Selected(seq, wanted) \in Seq(Range(seq))
  BY SelectedOrder DEF IsSequence
<1> QED  BY <1>1, SequenceOf

(* The powers of 2 are numbers, and each is greater than the one before.   *)
Doubling(f) == [exp \in 0..MaxExp |-> IF exp = 0 THEN 1 ELSE 2 * f[exp - 1]]

LEMMA PowersOf2 ==
  /\ \A exp \in 0..MaxExp : power_of_2[exp] \in Nat \ {0}
  /\ \A a, b \in 0..MaxExp : power_of_2[a] = power_of_2[b] => a = b
<1> DEFINE V == Nat \ {0}
           g == [n \in Nat |-> [v \in V |-> 2 * v]]
<1>0. MaxExp \in Nat
  BY DEF MaxExp
<1>1. g \in [Nat -> [V -> V]] /\ 1 \in V /\ \A n \in Nat, v \in V : g[n][v] = 2 * v
  OBVIOUS
<1> HIDE DEF g
<1>2. PICK f : Iterates(f, V, 1, g, MaxExp)
  BY <1>0, <1>1, Recursion
<1>3. f \in [0..MaxExp -> V] /\ f[0] = 1 /\ \A n \in 1..MaxExp : f[n] = g[n][f[n - 1]]
  BY <1>2 DEF Iterates
<1>4. \A n \in 1..MaxExp : f[n] = 2 * f[n - 1]
  <2>1. \A n \in 1..MaxExp : n \in Nat /\ f[n - 1] \in V
    BY <1>0, <1>3
  <2> QED  BY <1>1, <1>3, <2>1
<1>5. \A n \in 0..MaxExp : f[n] = IF n = 0 THEN 1 ELSE 2 * f[n - 1]
  BY <1>0, <1>3, <1>4
<1>6. f = Doubling(f)
  BY <1>3, <1>5 DEF Doubling
<1>7. power_of_2 = Doubling(power_of_2)
  <2> DEFINE p == CHOOSE h : h = Doubling(h)
  <2>1. p = Doubling(p)
    BY <1>6
  <2>2. power_of_2 = p
    BY DEF power_of_2, Doubling
  <2> QED  BY <2>1, <2>2
<1> DEFINE T == {n \in 0..MaxExp : /\ power_of_2[n] \in V
                                   /\ \A k \in 0..n : power_of_2[k] \in V
                                   /\ \A k \in 0..n : k # n => power_of_2[k] < power_of_2[n]}
<1>8. 0 \in T
  <2>1. 0 \in 0..MaxExp
    BY <1>0
  <2>2. power_of_2[0] = 1
    BY <1>7, <2>1 DEF Doubling
  <2> QED  BY <2>1, <2>2
<1>9. ASSUME NEW n \in 1..MaxExp, n - 1 \in T PROVE n \in T
  <2>1. n \in 0..MaxExp /\ n # 0 /\ n \in Nat /\ n - 1 \in Nat
    BY <1>0
  <2>2. power_of_2[n] = 2 * power_of_2[n - 1]
    BY <1>7, <2>1 DEF Doubling
  <2>3. power_of_2[n] \in V /\ power_of_2[n - 1] \in V /\ power_of_2[n - 1] < power_of_2[n]
    BY <1>9, <2>2
  <2>4. ASSUME NEW k \in 0..n, k # n
        PROVE  power_of_2[k] \in V /\ power_of_2[k] < power_of_2[n]
    <3>1. k \in 0..(n - 1)
      BY <2>1, <2>4
    <3>2. power_of_2[k] \in V /\ (k = n - 1 \/ power_of_2[k] < power_of_2[n - 1])
      BY <1>9, <3>1
    <3> QED  BY <2>3, <3>2
  <2> QED  BY <2>1, <2>3, <2>4
<1>10. \A n \in 0..MaxExp : n \in T
  <2> HIDE DEF T
  <2> QED  BY <1>0, <1>8, <1>9, SetInduction
<1>11. \A n \in 0..MaxExp : power_of_2[n] \in V
  BY <1>10
<1>12. ASSUME NEW a \in 0..MaxExp, NEW b \in 0..MaxExp, a < b
       PROVE  power_of_2[a] # power_of_2[b]
  <2>1. a \in 0..b /\ a # b
    BY <1>0, <1>12
  <2>2. power_of_2[a] < power_of_2[b]
    BY <1>10, <2>1
  <2> QED  BY <1>11, <2>2
<1>13. ASSUME NEW a \in 0..MaxExp, NEW b \in 0..MaxExp, power_of_2[a] = power_of_2[b]
       PROVE  a = b
  BY <1>0, <1>12, <1>13
<1> QED  BY <1>11, <1>13

LEMMA PowersFacts ==
  ASSUME NEW exps \in {GangExps, WorkerExps, VectorExps, ParamExps}
  PROVE  /\ IsSequence(Powers(exps)) /\ IsInjective(Powers(exps))
         /\ Range(Powers(exps)) \subseteq Nat \ {0}
<1>1. exps \in Seq(0..MaxExp) /\ IsInjective(exps)
  BY ExpsAssumption
<1>2. Len(exps) \in Nat /\ DOMAIN exps = 1..Len(exps) /\ \A i \in 1..Len(exps) : exps[i] \in 0..MaxExp
  <2> DEFINE S == 0..MaxExp
  <2>1. exps \in Seq(S)
    BY <1>1
  <2> HIDE DEF S
  <2>2. Len(exps) \in Nat /\ DOMAIN exps = 1..Len(exps) /\ \A i \in 1..Len(exps) : exps[i] \in S
    BY <2>1
  <2> QED  BY <2>2 DEF S
<1>3. Powers(exps) = [i \in 1..Len(exps) |-> power_of_2[exps[i]]]
  BY <1>2 DEF Powers
<1>4. Powers(exps) \in Seq(Nat \ {0})
  BY <1>2, <1>3, PowersOf2
<1>5. IsInjective(Powers(exps))
  BY <1>1, <1>2, <1>3, PowersOf2 DEF IsInjective
<1> QED  BY <1>4, <1>5, SequenceOf

LEMMA LaunchesFacts == IsSequence(Launches)
<1> DEFINE lists == <<Powers(GangExps), Powers(WorkerExps), Powers(VectorExps)>>
<1>1. \A k \in 1..3 : IsSequence(lists[k])
  BY PowersFacts
<1>2. lists = [k \in 1..3 |-> lists[k]]
  OBVIOUS
<1> HIDE DEF lists
<1>3. IsSequence(Product(lists))
  BY <1>1, <1>2, ProductFacts
<1> QED  BY <1>3 DEF Launches, lists

(* All programs are for one device.                                        *)
LEMMA OneDevice == num_devices = 1 /\ num_devices \in Nat
BY DevicesAssumption

LEMMA RunsOfAreNew ==
  ASSUME num_devices \in Nat, NEW tables, NEW combo, IsSequence(combo.params)
  PROVE  /\ IsSequence(RunsOf(tables, combo))
         /\ \A i \in 1..Len(RunsOf(tables, combo)) :
              IsNewRun(RunsOf(tables, combo)[i], num_devices)
<1> DEFINE fits(d) == Selected(Launches, {gwv \in Range(Launches) :
                        LaunchFits(LoopsOf(tables, 0, 0, combo.versions[d]), gwv, combo.params)})
           lists == [d \in 1..num_devices |-> fits(d)]
           valid == ValidCombinaisons(tables, combo)
           gwv == FlattenSeq(valid)
           device(i, d) == [version |-> combo.versions[d], type |-> "device", gang |-> gwv[i][1],
                            worker |-> gwv[i][2], vector |-> gwv[i][3],
                            portion |-> combo.portions[d]]
           run(i) == [devices |-> [d \in 1..num_devices |-> device(i, d)],
                      params |-> combo.params, executed |-> 0]
<1>1. valid = Product(lists)
  BY DEF ValidCombinaisons
<1>2. RunsOf(tables, combo) = [i \in DOMAIN valid |-> run(i)]
  BY DEF RunsOf
<1>3. \A d \in 1..num_devices : IsSequence(fits(d))
  BY LaunchesFacts, SelectedFacts
<1> HIDE DEF fits, device, valid
<1>4. \A d \in 1..num_devices : IsSequence(lists[d])
  BY <1>3
<1>5. lists = [d \in 1..num_devices |-> lists[d]]
  OBVIOUS
<1> HIDE DEF lists
<1>6. IsSequence(valid)
  BY <1>1, <1>4, <1>5, ProductFacts
<1>7. Len(valid) \in Nat /\ DOMAIN valid = 1..Len(valid)
  BY <1>6, SequenceFacts
<1>8. ASSUME NEW i PROVE IsNewRun(run(i), num_devices)
  <2> DEFINE devices == [d \in 1..num_devices |-> device(i, d)]
  <2>1. devices \in Seq({device(i, d) : d \in 1..num_devices}) /\ Len(devices) = num_devices
    OBVIOUS
  <2>2. IsSequence(devices)
    <3> HIDE DEF devices
    <3> QED  BY <2>1, SequenceOf
  <2>3. run(i).devices = devices /\ run(i).params = combo.params /\ run(i).executed = 0
    OBVIOUS
  <2> HIDE DEF devices, run
  <2> QED  BY <2>1, <2>2, <2>3 DEF IsNewRun
<1> HIDE DEF run
<1>9. RunsOf(tables, combo) \in Seq({run(i) : i \in 1..Len(valid)})
  BY <1>2, <1>7
<1>10. /\ Len(RunsOf(tables, combo)) = Len(valid)
       /\ \A i \in 1..Len(valid) : RunsOf(tables, combo)[i] = run(i)
  BY <1>2, <1>7
<1> QED  BY <1>8, <1>9, <1>10, SequenceOf

(* The combinations of the generator.                                      *)
CombosInv ==
  IsSequence(combos) /\ \A i \in DOMAIN combos : IsSequence(combos[i].params)

LEMMA CombinationsFacts ==
  ASSUME num_devices \in Nat, NEW tables, IsTables(tables), "Versions" \in DOMAIN tables,
         NEW list,
         list = Product(<<VersionCombinaisons(tables), ParamsValues, PortionCombinaisons>>)
  PROVE  /\ IsSequence(list)
         /\ \A i \in DOMAIN list : IsSequence(list[i][2]) /\ list[i][2] \in Range(ParamsValues)
         /\ \A i \in DOMAIN list : list[i][3] \in Range(PortionCombinaisons)
<1>1. IsSequence(VersionCombinaisons(tables))
  <2> DEFINE ids == VersionIds(tables)
             n == Len(VersionsOf(tables, [region_id |-> 0, kernel_id |-> 0]))
             lists == [d \in 1..num_devices |-> ids]
  <2>1. IsSequence(tables["Versions"])
    BY DEF IsTables, IsSequence
  <2>2. n \in Nat
    BY <2>1, SelectedFacts, SequenceFacts DEF VersionsOf, acc_sqlite_read_table
  <2>3. ids = [i \in 1..n |-> i - 1]
    BY DEF VersionIds
  <2> HIDE DEF n, ids
  <2>4. ids \in Seq(Int)
    BY <2>2, <2>3
  <2>5. IsSequence(ids)
    BY <2>4, SequenceOf
  <2>6. (\A d \in 1..num_devices : IsSequence(lists[d])) /\ lists = [d \in 1..num_devices |-> lists[d]]
    BY <2>5
  <2> HIDE DEF lists
  <2>7. IsSequence(Product(lists))
    BY <2>6, ProductFacts
  <2> QED  BY <2>7 DEF VersionCombinaisons, lists, ids
<1>2. IsSequence(ParamsValues) /\ \A params \in Range(ParamsValues) : IsSequence(params)
  <2> DEFINE n == IF test = "109" THEN 3 ELSE 1
             lists == [i \in 1..n |-> Powers(ParamExps)]
  <2>1. n \in Nat /\ \A i \in 1..n : IsSequence(Powers(ParamExps))
    BY PowersFacts
  <2> HIDE DEF n
  <2>2. (\A i \in 1..n : IsSequence(lists[i])) /\ lists = [i \in 1..n |-> lists[i]]
    BY <2>1
  <2> HIDE DEF lists
  <2>3. IsSequence(Product(lists)) /\ \A params \in Range(Product(lists)) : IsSequence(params)
    BY <2>1, <2>2, ProductFacts
  <2>4. \E wanted : ParamsValues = Selected(Product(lists), wanted)
    BY DEF ParamsValues, lists, n
  <2> QED  BY <2>3, <2>4, SelectedFacts
<1>3. IsSequence(PortionCombinaisons)
  <2> DEFINE values == [i \in 1..(num_portions + 1) |-> i - 1]
             lists == [d \in 1..num_devices |-> values]
  <2>1. values \in Seq(Int)
    BY DEF num_portions
  <2>2. IsSequence(values)
    <3> HIDE DEF values
    <3> QED  BY <2>1, SequenceOf
  <2> HIDE DEF values
  <2>3. (\A d \in 1..num_devices : IsSequence(lists[d])) /\ lists = [d \in 1..num_devices |-> lists[d]]
    BY <2>2
  <2> HIDE DEF lists
  <2>4. IsSequence(Product(lists))
    BY <2>3, ProductFacts
  <2>5. \E wanted : PortionCombinaisons = Selected(Product(lists), wanted)
    BY DEF PortionCombinaisons, lists, values
  <2> QED  BY <2>4, <2>5, SelectedFacts
<1> DEFINE lists == <<VersionCombinaisons(tables), ParamsValues, PortionCombinaisons>>
<1>4. (\A k \in 1..3 : IsSequence(lists[k])) /\ lists = [k \in 1..3 |-> lists[k]]
  BY <1>1, <1>2, <1>3
<1>5. lists[2] = ParamsValues /\ lists[3] = PortionCombinaisons
  OBVIOUS
<1>6. list = Product(lists)
  OBVIOUS
<1> HIDE DEF lists
<1>7. /\ IsSequence(list)
      /\ \A e \in Range(list) : e[2] \in Range(ParamsValues) /\ e[3] \in Range(PortionCombinaisons)
  <2>1. 3 \in Nat /\ 2 \in 1..3 /\ 3 \in 1..3
    OBVIOUS
  <2>2. /\ IsSequence(Product(lists))
        /\ \A e \in Range(Product(lists)) : \A k \in 1..3 : e[k] \in Range(lists[k])
    BY <1>4, <2>1, ProductFacts
  <2> QED  BY <1>5, <1>6, <2>1, <2>2, Zenon
<1>8. \A i \in DOMAIN list : list[i] \in Range(list)
  BY DEF Range
<1> QED  BY <1>2, <1>7, <1>8

-----------------------------------------------------------------------------
(* The events of the executed runs.                                        *)
HasEvent(tables, run_id) ==
  \E k \in DOMAIN Rows(tables, "Events") : Rows(tables, "Events")[k].run_id = run_id

NoneMissed(tables) ==
  \A i \in DOMAIN Rows(tables, "Runs") :
    Rows(tables, "Runs")[i].executed = 3 => HasEvent(tables, i)

LEMMA EventsSelected ==
  ASSUME NEW tables, NEW run_id, IsTables(tables), "Events" \in DOMAIN tables
  PROVE  EventsOf(tables, run_id) # <<>> <=> HasEvent(tables, run_id)
<1> DEFINE events == tables["Events"]
           conds == [run_id |-> run_id]
           wanted == {row \in Range(events) :
                        \A field \in DOMAIN conds : row[field] = conds[field]}
<1>1. Rows(tables, "Events") = events /\ IsSequence(events)
  BY TablesFacts DEF Rows
<1>2. EventsOf(tables, run_id) = Selected(events, wanted)
  BY DEF EventsOf, acc_sqlite_read_table
<1>3. \A row : row \in wanted <=> row \in Range(events) /\ row.run_id = run_id
  OBVIOUS
<1> HIDE DEF events, wanted
<1>4. ASSUME HasEvent(tables, run_id) PROVE EventsOf(tables, run_id) # <<>>
  <2>1. PICK k \in DOMAIN events : events[k].run_id = run_id
    BY <1>1, <1>4 DEF HasEvent
  <2>2. events[k] \in wanted
    BY <1>3, <2>1 DEF Range
  <2> QED  BY <1>1, <1>2, <2>1, <2>2, SelectedSome DEF IsSequence
<1>5. ASSUME EventsOf(tables, run_id) # <<>> PROVE HasEvent(tables, run_id)
  <2> DEFINE chosen == Selected(events, wanted)
  <2>1. PICK idx \in [DOMAIN chosen -> 1..Len(events)] :
          \A a \in DOMAIN idx : chosen[a] = events[idx[a]] /\ events[idx[a]] \in wanted
    BY <1>1, SelectedOrder DEF IsSequence
  <2>2. IsSequence(chosen) /\ chosen # <<>>
    BY <1>1, <1>2, <1>5, SelectedFacts
  <2> HIDE DEF chosen
  <2>3. 1 \in DOMAIN chosen
    <3>1. Len(chosen) \in Nat /\ DOMAIN chosen = 1..Len(chosen) /\ chosen \in Seq(Range(chosen))
      BY <2>2, SequenceFacts DEF IsSequence
    <3>2. Len(chosen) # 0
      BY <2>2, <3>1
    <3> QED  BY <3>1, <3>2
  <2>4. idx[1] \in DOMAIN events /\ events[idx[1]] \in wanted
    BY <1>1, <2>1, <2>3, SequenceFacts
  <2> QED  BY <1>1, <1>3, <2>4 DEF HasEvent
<1> QED  BY <1>4, <1>5

LEMMA NoneIsMissed ==
  ASSUME NEW tables, NEW devices, IsTables(tables), HoldsRuns(tables, devices)
  PROVE  ExecutedHaveEvents(tables) <=> NoneMissed(tables)
<1>1. \A i \in DOMAIN Rows(tables, "Runs") : Rows(tables, "Runs")[i].rowid = i
  BY DEF HoldsRuns, IsRun
<1>2. ASSUME NEW run_id
      PROVE  HasEvent(tables, run_id)
               <=> "Events" \in DOMAIN tables /\ EventsOf(tables, run_id) # <<>>
  <2>1. HasEvent(tables, run_id) => "Events" \in DOMAIN tables
    BY DEF HasEvent, Rows
  <2> QED  BY <2>1, EventsSelected
<1> QED  BY <1>1, <1>2 DEF ExecutedHaveEvents, NoneMissed

LEMMA EventStays ==
  ASSUME NEW old, NEW new, Extends(old, new), NEW run_id, HasEvent(old, run_id)
  PROVE  HasEvent(new, run_id)
BY DEF Extends, HasEvent

LEMMA GrownMissesNone ==
  ASSUME NEW old, NEW new, Grown("profile", old, new), NoneMissed(old)
  PROVE  NoneMissed(new)
<1>1. Extends(old, new) /\ RunsAreNew(old, new)
  BY DEF Grown
<1>2. ASSUME NEW i \in DOMAIN Rows(new, "Runs"), Rows(new, "Runs")[i].executed = 3
      PROVE  HasEvent(new, i)
  <2>1. i \in DOMAIN Rows(old, "Runs")
    BY <1>1, <1>2 DEF RunsAreNew
  <2>2. Rows(old, "Runs")[i].executed = 3
    BY <1>1, <1>2, <2>1 DEF Extends
  <2> QED  BY <1>1, <2>1, <2>2, EventStays DEF NoneMissed
<1> QED  BY <1>2 DEF NoneMissed

(* The summaries are added to the data base of versions.                   *)
LEMMA FlattenedRows ==
  ASSUME NEW n \in Nat, NEW parts, parts = [i \in 1..n |-> parts[i]],
         \A i \in 1..n : IsSequence(parts[i])
  PROVE  IsSequence(FlattenSeq(parts))
<1> DEFINE S == UNION {Range(parts[i]) : i \in 1..n}
<1>1. ASSUME NEW i \in 1..n PROVE parts[i] \in Seq(S)
  <2>1. /\ Len(parts[i]) \in Nat /\ DOMAIN parts[i] = 1..Len(parts[i])
        /\ parts[i] = [k \in 1..Len(parts[i]) |-> parts[i][k]]
    BY SequenceFacts
  <2>2. \A k \in 1..Len(parts[i]) : parts[i][k] \in S
    BY <2>1 DEF Range
  <2> HIDE DEF S
  <2> QED  BY <2>1, <2>2
<1> HIDE DEF S
<1>2. parts \in Seq(Seq(S))
  BY <1>1
<1> QED  BY <1>2, FlattenIsSeq, SequenceOf

LEMMA VersionPerfTables ==
  ASSUME NEW tables, IsTables(tables)
  PROVE  /\ IsTables(VersionPerf(tables)) /\ Extends(tables, VersionPerf(tables))
         /\ \A other : other # "VersionPerf" => Rows(VersionPerf(tables), other) = Rows(tables, other)
<1>1. PICK new : new = acc_sqlite_create_table(tables, "VersionPerf")
  OBVIOUS
<1> DEFINE row(v) == VersionPerfRow(new, v - 1)
           rows == [v \in 1..NumVersionIds |-> row(v)]
<1>2. VersionPerf(tables) = Insert(new, "VersionPerf", FlattenSeq(rows))
  BY <1>1 DEF VersionPerf
<1>3. ASSUME NEW v PROVE IsSequence(row(v))
  <2>1. \E r : row(v) = <<>> \/ row(v) = <<r>>
    BY Zenon DEF VersionPerfRow
  <2>2. PICK r : row(v) = <<>> \/ row(v) = <<r>>
    BY <2>1
  <2>3. row(v) \in Seq({r})
    <3>1. <<>> \in Seq({r}) /\ <<r>> \in Seq({r})
      OBVIOUS
    <3> QED  BY <2>2, <3>1, Zenon
  <2> QED  BY <2>3, SequenceOf
<1> HIDE DEF row
<1>4. (\A v \in 1..NumVersionIds : IsSequence(rows[v])) /\ rows = [v \in 1..NumVersionIds |-> rows[v]]
  BY <1>3
<1> HIDE DEF rows
<1>5. IsSequence(FlattenSeq(rows))
  BY <1>4, AnalysisAssumption, FlattenedRows
<1>6. /\ IsTables(new) /\ Extends(tables, new)
      /\ \A other : Rows(new, other) = Rows(tables, other)
  BY <1>1, CreatedTable
<1>7. PICK all : all = Insert(new, "VersionPerf", FlattenSeq(rows))
  OBVIOUS
<1>8. /\ IsTables(all) /\ Extends(new, all)
      /\ \A other : other # "VersionPerf" => Rows(all, other) = Rows(new, other)
  BY <1>5, <1>6, <1>7, InsertedRows
<1> QED  BY <1>2, <1>6, <1>7, <1>8, ExtendsTransitive

LEMMA ParamPerfTables ==
  ASSUME NEW tables, IsTables(tables)
  PROVE  /\ IsTables(ParamPerf(tables)) /\ Extends(tables, ParamPerf(tables))
         /\ \A other : other # "ParamPerf" => Rows(ParamPerf(tables), other) = Rows(tables, other)
<1>1. PICK new : new = acc_sqlite_create_table(tables, "ParamPerf")
  OBVIOUS
<1> DEFINE row(i) == ParamPerfRow(new, AnalysedParams[i])
           n == Len(AnalysedParams)
           rows == [i \in 1..n |-> row(i)]
<1>2. n \in Nat /\ DOMAIN AnalysedParams = 1..n
  BY AnalysisAssumption
<1>3. ParamPerf(tables) = Insert(new, "ParamPerf", FlattenSeq(rows))
  BY <1>1, <1>2 DEF ParamPerf
<1>4. ASSUME NEW i PROVE IsSequence(row(i))
  <2>1. \E r : row(i) = <<>> \/ row(i) = <<r>>
    BY Zenon DEF ParamPerfRow
  <2>2. PICK r : row(i) = <<>> \/ row(i) = <<r>>
    BY <2>1
  <2>3. row(i) \in Seq({r})
    <3>1. <<>> \in Seq({r}) /\ <<r>> \in Seq({r})
      OBVIOUS
    <3> QED  BY <2>2, <3>1, Zenon
  <2> QED  BY <2>3, SequenceOf
<1> HIDE DEF row, n
<1>5. (\A i \in 1..n : IsSequence(rows[i])) /\ rows = [i \in 1..n |-> rows[i]]
  BY <1>4
<1> HIDE DEF rows
<1>6. IsSequence(FlattenSeq(rows))
  BY <1>2, <1>5, FlattenedRows
<1>7. /\ IsTables(new) /\ Extends(tables, new)
      /\ \A other : Rows(new, other) = Rows(tables, other)
  BY <1>1, CreatedTable
<1>8. PICK all : all = Insert(new, "ParamPerf", FlattenSeq(rows))
  OBVIOUS
<1>9. /\ IsTables(all) /\ Extends(new, all)
      /\ \A other : other # "ParamPerf" => Rows(all, other) = Rows(new, other)
  BY <1>6, <1>7, <1>8, InsertedRows
<1> QED  BY <1>3, <1>7, <1>8, <1>9, ExtendsTransitive

-----------------------------------------------------------------------------
(* Files and copies hold what they should; a copy has grown since it was   *)
(* of the file.                                                            *)
FilesGood ==
  /\ \A f \in Files : Good(f, Content(f), num_devices)
  /\ \A p \in Programs, f \in Files :
       /\ Good(f, db[p][f].tables, num_devices)
       /\ Grown(f, db[p][f].loaded, db[p][f].tables)

NothingMissed ==
  /\ NoneMissed(Content("profile"))
  /\ \A p \in Programs : NoneMissed(db[p]["profile"].tables)

(* A program adds to the tables it has.                                    *)
Adds(p) ==
  \E f \in Files :
    \/ \E memory \in BOOLEAN : acc_sqlite_open(p, f, memory)
    \/ \E new : /\ Execute(p, f, new)
                /\ Good(f, new, num_devices) /\ Grown(f, Tables(p, f), new)
    \/ acc_sqlite_save(p, f)
    \/ acc_sqlite_close(p, f)

(* The files after a step, as far as nothing was lost.                     *)
FilesGrow ==
  /\ lost \subseteq lost'
  /\ \A f \in Files : f \notin lost' => Grown(f, Content(f), Content(f)')

LEMMA NoTablesAreGood ==
  ASSUME NEW f, NEW devices
  PROVE  Good(f, NoTables, devices) /\ Grown(f, NoTables, NoTables) /\ NoneMissed(NoTables)
<1>1. DOMAIN NoTables = {} /\ NoTables = [name \in DOMAIN NoTables |-> NoTables[name]]
  BY DEF NoTables
<1>2. \A name : Rows(NoTables, name) = <<>>
  BY <1>1 DEF Rows
<1>3. \A i : i \notin DOMAIN <<>>
  OBVIOUS
<1>4. IsTables(NoTables)
  BY <1>1 DEF IsTables
<1> QED  BY <1>2, <1>3, <1>4, GrownReflexive DEF Good, HoldsRuns, NoneMissed

(* What is to be shown of one file.                                        *)
LEMMA OneFileChanges ==
  ASSUME FilesGood, NEW p \in Programs, NEW f \in Files,
         Only(p, f), Good(f, Content(f)', num_devices),
         Good(f, db'[p][f].tables, num_devices),
         Grown(f, db'[p][f].loaded, db'[p][f].tables)
  PROVE  FilesGood'
<1>1. ASSUME NEW g \in Files PROVE Good(g, Content(g)', num_devices)
  <2>1. CASE g = f
    BY <2>1
  <2>2. CASE g # f
    <3>1. Content(g)' = Content(g)
      BY <2>2 DEF Only
    <3>2. Good(g, Content(g), num_devices)
      BY DEF FilesGood
    <3> QED  BY <3>1, <3>2
  <2> QED  BY <2>1, <2>2
<1>2. ASSUME NEW q \in Programs, NEW g \in Files
      PROVE  /\ Good(g, db'[q][g].tables, num_devices)
             /\ Grown(g, db'[q][g].loaded, db'[q][g].tables)
  <2>1. CASE q = p /\ g = f
    BY <2>1
  <2>2. CASE ~(q = p /\ g = f)
    <3>1. db'[q][g] = db[q][g]
      BY <2>2 DEF Only
    <3>2. Good(g, db[q][g].tables, num_devices) /\ Grown(g, db[q][g].loaded, db[q][g].tables)
      BY DEF FilesGood
    <3> QED  BY <3>1, <3>2
  <2> QED  BY <2>1, <2>2
<1> QED  BY <1>1, <1>2 DEF FilesGood

LEMMA ProfileMissesNone ==
  ASSUME NothingMissed, NEW p \in Programs, NEW f \in Files, Only(p, f),
         f = "profile" => NoneMissed(Content("profile")') /\ NoneMissed(db'[p]["profile"].tables)
  PROVE  NothingMissed'
<1>0. "profile" \in Files
  BY FilesAssumption
<1>1. NoneMissed(Content("profile")')
  BY DEF NothingMissed, Only
<1>2. ASSUME NEW q \in Programs PROVE NoneMissed(db'[q]["profile"].tables)
  <2>1. CASE q = p /\ f = "profile"
    BY <2>1
  <2>2. CASE ~(q = p /\ f = "profile")
    <3>1. db'[q]["profile"] = db[q]["profile"]
      BY <1>0, <2>2 DEF Only
    <3> QED  BY <3>1 DEF NothingMissed
  <2> QED  BY <2>1, <2>2
<1> QED  BY <1>1, <1>2 DEF NothingMissed

FilesStep ==
  /\ FilesGood' /\ FilesGrow
  /\ NothingMissed /\ "profile" \notin lost' => NothingMissed'

LEMMA WriteBackStep ==
  ASSUME Connections, FilesGood, NEW p \in Programs, NEW f \in Files,
         Only(p, f), WrittenBack(p, f),
         \/ db'[p][f].tables = db[p][f].tables /\ db'[p][f].loaded = db[p][f].tables
         \/ db'[p][f].tables = NoTables /\ db'[p][f].loaded = NoTables
  PROVE  FilesStep
<1>1. /\ Good(f, db[p][f].tables, num_devices)
      /\ Grown(f, db[p][f].loaded, db[p][f].tables)
  BY DEF FilesGood
<1>2. /\ Good(f, db'[p][f].tables, num_devices)
      /\ Grown(f, db'[p][f].loaded, db'[p][f].tables)
  BY <1>1, NoTablesAreGood, GrownReflexive
<1>3. Content(f)' = db[p][f].tables
  BY DEF WrittenBack
<1>4. FilesGood'
  BY <1>1, <1>2, <1>3, OneFileChanges
<1>5. lost \subseteq lost' /\ (f \notin lost' => db[p][f].loaded = Content(f))
  BY DEF WrittenBack
<1>6. ASSUME NEW g \in Files, g \notin lost' PROVE Grown(g, Content(g), Content(g)')
  <2>1. CASE g = f
    BY <1>1, <1>3, <1>5, <1>6, <2>1
  <2>2. CASE g # f
    BY <2>2, GrownReflexive DEF Only
  <2> QED  BY <2>1, <2>2
<1>7. ASSUME NothingMissed PROVE NothingMissed'
  <2>1. ASSUME f = "profile"
        PROVE  NoneMissed(Content("profile")') /\ NoneMissed(db'[p]["profile"].tables)
    <3>1. NoneMissed(db[p]["profile"].tables)
      BY <1>7 DEF NothingMissed
    <3> QED  BY <1>3, <2>1, <3>1, NoTablesAreGood
  <2> QED  BY <1>7, <2>1, ProfileMissesNone
<1> QED  BY <1>4, <1>5, <1>6, <1>7 DEF FilesStep, FilesGrow

LEMMA UnchangedFiles ==
  ASSUME FilesGood, UNCHANGED dbVars
  PROVE  FilesStep
<1>1. db' = db /\ lost' = lost /\ \A f : Content(f)' = Content(f)
  BY DEF dbVars, Content, FileExists
<1>2. FilesGood'
  BY <1>1 DEF FilesGood
<1>3. FilesGrow
  BY <1>1, GrownReflexive DEF FilesGrow
<1>4. NothingMissed => NothingMissed'
  BY <1>1 DEF NothingMissed
<1> QED  BY <1>2, <1>3, <1>4 DEF FilesStep

LEMMA OpenStep ==
  ASSUME Connections, FilesGood, NEW p \in Programs, NEW f \in Files,
         NEW memory \in BOOLEAN, acc_sqlite_open(p, f, memory)
  PROVE  FilesStep
<1>1. /\ Only(p, f) /\ Content(f)' = Content(f) /\ lost' = lost
      /\ db'[p][f].tables = IF memory THEN Content(f) ELSE NoTables
      /\ db'[p][f].loaded = db'[p][f].tables
  BY OpenEffect
<1>2. Good(f, Content(f), num_devices)
  BY DEF FilesGood
<1>3. Good(f, db'[p][f].tables, num_devices) /\ Grown(f, db'[p][f].loaded, db'[p][f].tables)
  BY <1>1, <1>2, NoTablesAreGood, GrownReflexive
<1>4. FilesGood'
  BY <1>1, <1>2, <1>3, OneFileChanges
<1>5. \A g : Content(g)' = Content(g)
  BY <1>1 DEF Only
<1>6. FilesGrow
  BY <1>1, <1>5, GrownReflexive DEF FilesGrow
<1>7. ASSUME NothingMissed PROVE NothingMissed'
  <2>1. NoneMissed(Content("profile"))
    BY <1>7 DEF NothingMissed
  <2>2. f = "profile" => NoneMissed(Content("profile")') /\ NoneMissed(db'[p]["profile"].tables)
    BY <1>1, <2>1, NoTablesAreGood
  <2> QED  BY <1>1, <1>7, <2>2, ProfileMissesNone
<1> QED  BY <1>4, <1>6, <1>7 DEF FilesStep

LEMMA ExecuteStep ==
  ASSUME Connections, FilesGood, NEW p \in Programs, NEW f \in Files,
         NEW new, Execute(p, f, new), Good(f, new, num_devices), Grown(f, Tables(p, f), new)
  PROVE  FilesStep
<1>1. /\ Only(p, f) /\ lost' = lost
      /\ db'[p][f].loaded = db[p][f].loaded
      /\ IF db[p][f].memory
         THEN db'[p][f].tables = new /\ Content(f)' = Content(f)
         ELSE Content(f)' = new /\ db' = db
  BY ExecuteEffect
<1>2. /\ Good(f, Content(f), num_devices) /\ Good(f, db[p][f].tables, num_devices)
      /\ Grown(f, db[p][f].loaded, db[p][f].tables)
  BY DEF FilesGood
<1>3. CASE db[p][f].memory
  <2>1. Grown(f, db[p][f].tables, new)
    BY <1>3 DEF Tables
  <2>2. Grown(f, db[p][f].loaded, new)
    BY <1>2, <2>1, GrownTransitive
  <2>3. FilesGood'
    BY <1>1, <1>2, <1>3, <2>2, OneFileChanges
  <2>4. \A g : Content(g)' = Content(g)
    BY <1>1, <1>3 DEF Only
  <2>5. FilesGrow
    BY <1>1, <2>4, GrownReflexive DEF FilesGrow
  <2>6. ASSUME NothingMissed PROVE NothingMissed'
    <3>1. NoneMissed(Content("profile")) /\ NoneMissed(db[p]["profile"].tables)
      BY <2>6 DEF NothingMissed
    <3>2. f = "profile" => NoneMissed(Content("profile")') /\ NoneMissed(db'[p]["profile"].tables)
      BY <1>1, <1>3, <2>1, <3>1, GrownMissesNone
    <3> QED  BY <1>1, <2>6, <3>2, ProfileMissesNone
  <2> QED  BY <2>3, <2>5, <2>6 DEF FilesStep
<1>4. CASE ~db[p][f].memory
  <2>1. Grown(f, Content(f), new) /\ Content(f)' = new /\ db' = db
    BY <1>1, <1>4 DEF Tables
  <2>2. FilesGood'
    BY <1>1, <1>2, <2>1, OneFileChanges
  <2>3. FilesGrow
    BY <1>1, <2>1, GrownReflexive DEF FilesGrow, Only
  <2>4. ASSUME NothingMissed PROVE NothingMissed'
    <3>1. NoneMissed(Content("profile")) /\ NoneMissed(db[p]["profile"].tables)
      BY <2>4 DEF NothingMissed
    <3>2. f = "profile" => NoneMissed(Content("profile")') /\ NoneMissed(db'[p]["profile"].tables)
      BY <2>1, <3>1, GrownMissesNone
    <3> QED  BY <1>1, <2>4, <3>2, ProfileMissesNone
  <2> QED  BY <2>2, <2>3, <2>4 DEF FilesStep
<1> QED  BY <1>3, <1>4

LEMMA AddsStep ==
  ASSUME Connections, FilesGood, NEW p \in Programs, Adds(p)
  PROVE  FilesStep
<1>1. PICK f \in Files :
        \/ \E memory \in BOOLEAN : acc_sqlite_open(p, f, memory)
        \/ \E new : /\ Execute(p, f, new)
                    /\ Good(f, new, num_devices) /\ Grown(f, Tables(p, f), new)
        \/ acc_sqlite_save(p, f)
        \/ acc_sqlite_close(p, f)
  BY DEF Adds
<1>2. ASSUME NEW memory \in BOOLEAN, acc_sqlite_open(p, f, memory) PROVE FilesStep
  BY <1>2, OpenStep
<1>3. ASSUME NEW new, Execute(p, f, new), Good(f, new, num_devices),
             Grown(f, Tables(p, f), new)
      PROVE  FilesStep
  BY <1>3, ExecuteStep
<1>4. CASE acc_sqlite_save(p, f)
  <2>1. \/ UNCHANGED dbVars
        \/ /\ Only(p, f) /\ WrittenBack(p, f)
           /\ db'[p][f].tables = db[p][f].tables
           /\ db'[p][f].loaded = db[p][f].tables
    BY <1>4, SaveEffect
  <2> QED  BY <2>1, UnchangedFiles, WriteBackStep
<1>5. CASE acc_sqlite_close(p, f)
  <2>1. /\ Only(p, f)
        /\ db'[p][f].tables = NoTables /\ db'[p][f].loaded = NoTables
        /\ WrittenBack(p, f) \/ (Content(f)' = Content(f) /\ lost' = lost)
    BY <1>5, CloseEffect
  <2>2. CASE WrittenBack(p, f)
    BY <2>1, <2>2, WriteBackStep
  <2>3. CASE Content(f)' = Content(f) /\ lost' = lost
    <3>1. Good(f, Content(f), num_devices)
      BY DEF FilesGood
    <3>2. FilesGood'
      BY <2>1, <2>3, <3>1, NoTablesAreGood, OneFileChanges
    <3>3. FilesGrow
      BY <2>1, <2>3, GrownReflexive DEF FilesGrow, Only
    <3>4. ASSUME NothingMissed PROVE NothingMissed'
      <4>1. f = "profile" => /\ NoneMissed(Content("profile")')
                             /\ NoneMissed(db'[p]["profile"].tables)
        BY <2>1, <2>3, <3>4, NoTablesAreGood DEF NothingMissed
      <4> QED  BY <2>1, <3>4, <4>1, ProfileMissesNone
    <3> QED  BY <3>2, <3>3, <3>4 DEF FilesStep
  <2> QED  BY <2>1, <2>2, <2>3
<1> QED  BY <1>1, <1>2, <1>3, <1>4, <1>5

-----------------------------------------------------------------------------
(* The generator and the analysis add to what there is.                    *)
BatchInv ==
  /\ batch = [t \in Threads |-> batch[t]]
  /\ \A t \in Threads : IsSequence(batch[t])

LEMMA TablesAreGood ==
  ASSUME FilesGood, NEW p \in Programs, NEW f \in Files
  PROVE  Good(f, Tables(p, f), num_devices)
BY DEF FilesGood, Tables

LEMMA NoRows == IsSequence(<<>>) /\ \A x : IsSequence(<<x>>)
<1>1. <<>> \in Seq({})
  OBVIOUS
<1>2. ASSUME NEW x PROVE IsSequence(<<x>>)
  <2>1. <<x>> \in Seq({x})
    OBVIOUS
  <2> QED  BY <2>1, SequenceOf
<1> QED  BY <1>1, <1>2, SequenceOf

LEMMA TailFacts ==
  ASSUME NEW s, IsSequence(s), s # <<>>
  PROVE  /\ IsSequence(Tail(s)) /\ Head(s) = s[1] /\ 1 \in DOMAIN s
         /\ \A i \in DOMAIN Tail(s) : i + 1 \in DOMAIN s /\ Tail(s)[i] = s[i + 1] /\ i \in Nat \ {0}
<1>1. s \in Seq(Range(s))
  BY DEF IsSequence
<1>2. /\ Tail(s) \in Seq(Range(s)) /\ Len(Tail(s)) = Len(s) - 1 /\ Len(s) \in Nat \ {0}
      /\ Head(s) = s[1] /\ DOMAIN s = 1..Len(s)
      /\ \A i \in 1..(Len(s) - 1) : Tail(s)[i] = s[i + 1]
  BY <1>1
<1>3. DOMAIN Tail(s) = 1..(Len(s) - 1)
  BY <1>2
<1>4. IsSequence(Tail(s))
  BY <1>2, SequenceOf
<1>5. Head(s) = s[1] /\ 1 \in DOMAIN s
  BY <1>2
<1>6. ASSUME NEW i \in DOMAIN Tail(s)
      PROVE  i + 1 \in DOMAIN s /\ Tail(s)[i] = s[i + 1] /\ i \in Nat \ {0}
  <2>1. i \in 1..(Len(s) - 1)
    BY <1>3
  <2> QED  BY <1>2, <2>1
<1> QED  BY <1>4, <1>5, <1>6

LEMMA GenerateAdds ==
  ASSUME FilesGood, CombosInv, Generate
  PROVE  Adds("generate") /\ CombosInv'
<1>1. "versions" \in Files /\ "profile" \in Files /\ TRUE \in BOOLEAN /\ "generate" \in Programs
  BY FilesAssumption, ProgramsAssumption
<1>2. CASE OpenVersions
  BY <1>1, <1>2 DEF OpenVersions, Adds, CombosInv
<1>3. CASE OpenProfile
  BY <1>1, <1>3 DEF OpenProfile, Adds, CombosInv
<1>4. CASE LoadGenData
  <2>1. PICK versions : versions = Tables("generate", "versions")
    OBVIOUS
  <2>2. PICK list :
          list = Product(<<VersionCombinaisons(versions), ParamsValues, PortionCombinaisons>>)
    OBVIOUS
  <2>3. PICK profile : profile = Tables("generate", "profile")
    OBVIOUS
  <2>4. PICK a : a = acc_profiling_init_db(profile)
    OBVIOUS
  <2>5. PICK new : new = acc_tuning_create_experiment(a)
    OBVIOUS
  <2>6. /\ "Versions" \in DOMAIN versions
        /\ Execute("generate", "profile", new)
        /\ combos' = IF test = "109" THEN <<>>
                     ELSE [i \in DOMAIN list |-> [versions |-> list[i][1],
                             params |-> list[i][2], portions |-> list[i][3]]]
    BY <1>4, <2>1, <2>2, <2>3, <2>4, <2>5 DEF LoadGenData, acc_sqlite_table_exists
  <2>7. Good("profile", profile, num_devices) /\ IsTables(versions)
    BY <1>1, <2>1, <2>3, TablesAreGood DEF Good
  <2>8. Good("profile", a, num_devices) /\ Grown("profile", profile, a)
    BY <2>4, <2>7, ProfilingTables
  <2>9. Good("profile", new, num_devices) /\ Grown("profile", a, new)
    BY <2>5, <2>8, CreatedRuns DEF acc_tuning_create_experiment
  <2>10. Grown("profile", profile, new)
    BY <2>8, <2>9, GrownTransitive
  <2>11. Adds("generate")
    BY <1>1, <2>3, <2>6, <2>9, <2>10 DEF Adds
  <2>12. IsSequence(list) /\ \A i \in DOMAIN list : IsSequence(list[i][2])
    BY <2>2, <2>6, <2>7, OneDevice, CombinationsFacts
  <2>13. CombosInv'
    <3>1. CASE test = "109"
      <4>1. combos' = <<>>
        BY <2>6, <3>1
      <4> QED  BY <4>1, NoRows DEF CombosInv
    <3>2. CASE test # "109"
      <4> DEFINE combo(i) == [versions |-> list[i][1], params |-> list[i][2],
                              portions |-> list[i][3]]
                 n == Len(list)
      <4>1. n \in Nat /\ DOMAIN list = 1..n
        BY <2>12, SequenceFacts
      <4>2. combos' = [i \in 1..n |-> combo(i)]
        BY <2>6, <3>2, <4>1
      <4>3. \A i : combo(i).params = list[i][2]
        OBVIOUS
      <4> HIDE DEF combo, n
      <4>4. combos' \in Seq({combo(i) : i \in 1..n})
        BY <4>1, <4>2
      <4>5. IsSequence(combos')
        BY <4>4, SequenceOf
      <4>6. \A i \in DOMAIN combos' : IsSequence(combos'[i].params)
        BY <2>12, <4>1, <4>2, <4>3
      <4> QED  BY <4>5, <4>6 DEF CombosInv
    <3> QED  BY <3>1, <3>2
  <2> QED  BY <2>11, <2>13
<1>5. CASE acc_tuning_generate
  <2>1. PICK profile : profile = Tables("generate", "profile")
    OBVIOUS
  <2>2. PICK combo : combo = Head(combos)
    OBVIOUS
  <2>3. PICK rows : rows = RunsOf(Tables("generate", "versions"), combo)
    OBVIOUS
  <2>4. PICK new : new = Insert(profile, "Runs", WithRowids(rows, profile["Runs"]))
    OBVIOUS
  <2>5. /\ combos # <<>> /\ combos' = Tail(combos)
        /\ Execute("generate", "profile", new)
    BY <1>5, <2>1, <2>2, <2>3, <2>4 DEF acc_tuning_generate
  <2>6. /\ combo = combos[1] /\ 1 \in DOMAIN combos /\ IsSequence(Tail(combos))
        /\ \A i \in DOMAIN Tail(combos) : /\ i + 1 \in DOMAIN combos
                                          /\ Tail(combos)[i] = combos[i + 1]
    BY <2>2, <2>5, TailFacts DEF CombosInv
  <2>7. IsSequence(combo.params) /\ CombosInv'
    BY <2>5, <2>6 DEF CombosInv
  <2>8. IsSequence(rows) /\ \A i \in 1..Len(rows) : IsNewRun(rows[i], num_devices)
    BY <2>3, <2>7, OneDevice, RunsOfAreNew
  <2>9. Good("profile", profile, num_devices)
    BY <1>1, <2>1, TablesAreGood
  <2>10. Good("profile", new, num_devices) /\ Grown("profile", profile, new)
    BY <2>4, <2>8, <2>9, InsertedRuns
  <2> QED  BY <1>1, <2>1, <2>5, <2>7, <2>10 DEF Adds
<1>6. CASE CloseVersions
  BY <1>1, <1>6 DEF CloseVersions, Adds, CombosInv
<1>7. CASE acc_profiling_exit
  BY <1>1, <1>7 DEF acc_profiling_exit, Adds, CombosInv
<1> QED  BY <1>2, <1>3, <1>4, <1>5, <1>6, <1>7 DEF Generate

LEMMA AnalyseAdds ==
  ASSUME FilesGood, BatchInv, Analyse
  PROVE  (Adds("process") \/ UNCHANGED dbVars) /\ BatchInv'
<1>1. "versions" \in Files /\ "profile" \in Files /\ TRUE \in BOOLEAN /\ "process" \in Programs
  BY FilesAssumption, ProgramsAssumption
<1>2. /\ Good("versions", AnalysisVersions, num_devices)
      /\ Good("profile", AnalysisProfile, num_devices)
  BY <1>1, TablesAreGood DEF AnalysisVersions, AnalysisProfile
<1>3. ASSUME NEW new, Execute("process", "versions", new), Good("versions", new, num_devices),
             Grown("versions", AnalysisVersions, new)
      PROVE  Adds("process")
  BY <1>1, <1>3 DEF Adds, AnalysisVersions
<1>4. ASSUME UNCHANGED batch PROVE BatchInv'
  BY <1>4 DEF BatchInv
<1>5. CASE OpenAnalysedVersions
  BY <1>1, <1>4, <1>5 DEF OpenAnalysedVersions, AnalysisGoes, Adds
<1>6. CASE OpenAnalysedProfile
  BY <1>1, <1>4, <1>6 DEF OpenAnalysedProfile, AnalysisGoes, Adds
<1>7. CASE InitAnalysis
  <2>1. PICK new : new = acc_profiling_init_db(AnalysisProfile)
    OBVIOUS
  <2>2. Execute("process", "profile", new) /\ UNCHANGED batch
    BY <1>7, <2>1 DEF InitAnalysis, AnalysisGoes
  <2>3. Good("profile", new, num_devices) /\ Grown("profile", AnalysisProfile, new)
    BY <1>2, <2>1, ProfilingTables
  <2> QED  BY <1>1, <1>4, <2>2, <2>3 DEF Adds, AnalysisProfile
<1>8. CASE ReadExecutedRuns
  <2>1. PICK new : new = acc_sqlite_create_table(AnalysisVersions, "Performances")
    OBVIOUS
  <2>2. Execute("process", "versions", new) /\ UNCHANGED batch
    BY <1>8, <2>1 DEF ReadExecutedRuns
  <2>3. Good("versions", new, num_devices) /\ Grown("versions", AnalysisVersions, new)
    BY <1>2, <2>1, CreatedRuns
  <2> QED  BY <1>3, <1>4, <2>2, <2>3
<1>9. ASSUME NEW th \in Threads, EvaluateRun(th)
      PROVE  UNCHANGED dbVars /\ BatchInv'
  <2>1. PICK row : batch' = [batch EXCEPT ![th] = Append(@, row)]
    BY <1>9 DEF EvaluateRun
  <2>2. IsSequence(Append(batch[th], row))
    <3>1. /\ Len(batch[th]) \in Nat /\ batch[th] = [i \in 1..Len(batch[th]) |-> batch[th][i]]
          /\ DOMAIN batch[th] = 1..Len(batch[th])
      BY SequenceFacts DEF BatchInv
    <3> DEFINE S == Range(batch[th]) \cup {row}
    <3>2. \A i \in 1..Len(batch[th]) : batch[th][i] \in S
      BY <3>1 DEF Range
    <3>3. row \in S
      OBVIOUS
    <3> HIDE DEF S
    <3>4. batch[th] \in Seq(S)
      BY <3>1, <3>2
    <3>5. Append(batch[th], row) \in Seq(S)
      BY <3>3, <3>4
    <3> QED  BY <3>5, SequenceOf
  <2>3. PICK longer : longer = Append(batch[th], row)
    OBVIOUS
  <2>4. batch' = [t \in Threads |-> IF t = th THEN longer ELSE batch[t]]
    BY <2>1, <2>3 DEF BatchInv
  <2> QED  BY <1>9, <2>2, <2>3, <2>4 DEF BatchInv, EvaluateRun
<1>10. ASSUME NEW th \in Threads, InsertBatch(th)
      PROVE  Adds("process") /\ BatchInv'
  <2>1. PICK new : new = Insert(AnalysisVersions, "Performances", batch[th])
    OBVIOUS
  <2>2. /\ Execute("process", "versions", new)
        /\ batch' = [batch EXCEPT ![th] = <<>>]
    BY <1>10, <2>1 DEF InsertBatch
  <2>3. Good("versions", new, num_devices) /\ Grown("versions", AnalysisVersions, new)
    BY <1>2, <2>1, InsertedElsewhere DEF BatchInv
  <2>4. BatchInv'
    BY <2>2, NoRows DEF BatchInv
  <2> QED  BY <1>3, <2>2, <2>3, <2>4
<1>11. CASE SavePerformances
  BY <1>1, <1>4, <1>11 DEF SavePerformances, Adds
<1>12. CASE Summarise
  <2>1. PICK a : a = VersionPerf(AnalysisVersions)
    OBVIOUS
  <2>2. PICK new : new = ParamPerf(a)
    OBVIOUS
  <2>3. Execute("process", "versions", new) /\ UNCHANGED batch
    BY <1>12, <2>1, <2>2 DEF Summarise, AnalysisGoes
  <2>4. IsTables(a) /\ Extends(AnalysisVersions, a)
    BY <1>2, <2>1, VersionPerfTables DEF Good
  <2>5. IsTables(new) /\ Extends(a, new)
    BY <2>2, <2>4, ParamPerfTables
  <2>6. Good("versions", new, num_devices) /\ Grown("versions", AnalysisVersions, new)
    BY <2>4, <2>5, ExtendsTransitive DEF Good, Grown
  <2> QED  BY <1>3, <1>4, <2>3, <2>6
<1>13. CASE SaveSummaries
  BY <1>1, <1>4, <1>13 DEF SaveSummaries, AnalysisGoes, Adds
<1>14. CASE ExitAnalysis
  BY <1>1, <1>4, <1>14 DEF ExitAnalysis, AnalysisGoes, Adds
<1> QED
  BY <1>5, <1>6, <1>7, <1>8, <1>9, <1>10, <1>11, <1>12, <1>13, <1>14 DEF Analyse

-----------------------------------------------------------------------------
(* The marks of the runs.                                                  *)
Marked(run, status) == [run EXCEPT !.executed = status]

LEMMA MarkedRun ==
  ASSUME NEW run, NEW rowid, NEW devices, IsRun(run, rowid, devices), NEW status \in 0..3
  PROVE  /\ IsRun(Marked(run, status), rowid, devices)
         /\ Marked(run, status).executed = status
         /\ run.executed < 2 \/ run.executed <= status => SameRow(run, Marked(run, status))
<1> DEFINE new == Marked(run, status)
           record(x) == [rowid |-> rowid, devices |-> run.devices, params |-> run.params,
                         executed |-> x]
<1>1. run = record(run.executed)
  BY DEF IsRun
<1>2. new = record(status)
  BY <1>1 DEF Marked
<1>3. /\ new.rowid = rowid /\ new.devices = run.devices /\ new.params = run.params
      /\ new.executed = status
  BY <1>2
<1>4. "executed" \in DOMAIN run /\ "executed" \in DOMAIN new
  BY <1>1, <1>2
<1>5. ASSUME NEW x PROVE [record(x) EXCEPT !.executed = 0] = record(0)
  OBVIOUS
<1> HIDE DEF new, record
<1>6. [run EXCEPT !.executed = 0] = record(0) /\ [new EXCEPT !.executed = 0] = record(0)
  <2>1. [record(run.executed) EXCEPT !.executed = 0] = record(0)
    BY <1>5
  <2>2. [record(status) EXCEPT !.executed = 0] = record(0)
    BY <1>5
  <2> QED  BY <1>1, <1>2, <2>1, <2>2, Zenon
<1>7. IsRun(new, rowid, devices)
  <2>1. new = [rowid |-> rowid, devices |-> new.devices, params |-> new.params,
               executed |-> new.executed]
    BY <1>2, <1>3 DEF record
  <2> QED  BY <1>3, <2>1 DEF IsRun
<1>8. ASSUME run.executed < 2 \/ run.executed <= status PROVE SameRow(run, new)
  <2>1. run.executed < 2 \/ run.executed <= new.executed
    BY <1>3, <1>8
  <2> QED  BY <1>4, <1>6, <2>1, Zenon DEF SameRow
<1> QED  BY <1>3, <1>7, <1>8 DEF new

LEMMA StatusFacts ==
  ASSUME NEW tables, NEW devices, Good("profile", tables, devices), NEW runs,
         NEW status \in 0..3, NEW new, new = SetStatus(tables, runs, status)
  PROVE  /\ Good("profile", new, devices) /\ DOMAIN new = DOMAIN tables
         /\ \A other : other # "Runs" => Rows(new, other) = Rows(tables, other)
         /\ DOMAIN Rows(new, "Runs") = DOMAIN Rows(tables, "Runs")
         /\ \A i \in DOMAIN Rows(tables, "Runs") :
              Rows(new, "Runs")[i] = IF Rows(tables, "Runs")[i] \in runs
                                     THEN Marked(Rows(tables, "Runs")[i], status)
                                     ELSE Rows(tables, "Runs")[i]
<1> DEFINE old == tables["Runs"]
           row(i) == IF old[i] \in runs THEN Marked(old[i], status) ELSE old[i]
<1>0. IsTables(tables) /\ HoldsRuns(tables, devices)
  BY DEF Good
<1>1. CASE "Runs" \notin DOMAIN tables
  <2>1. new = tables
    BY <1>0, <1>1 DEF SetStatus, IsTables
  <2>2. Rows(tables, "Runs") = <<>> /\ DOMAIN <<>> = {}
    BY <1>1 DEF Rows
  <2> QED  BY <2>1, <2>2
<1>2. CASE "Runs" \in DOMAIN tables
  <2>1. Rows(tables, "Runs") = old /\ IsSequence(old)
    BY <1>0, <1>2, TablesFacts DEF Rows
  <2>2. PICK all : all = [i \in DOMAIN old |-> row(i)]
    OBVIOUS
  <2>3. new = [name \in DOMAIN tables |-> IF name = "Runs" THEN all ELSE tables[name]]
    <3>1. new = [tables EXCEPT !["Runs"] = all]
      BY <2>2 DEF SetStatus, Marked
    <3> QED  BY <1>0, <3>1 DEF IsTables
  <2>4. Len(old) \in Nat /\ DOMAIN old = 1..Len(old)
    BY <2>1, SequenceFacts
  <2>5. \A i \in 1..Len(old) : IsRun(old[i], i, devices)
    BY <1>0, <2>1, <2>4 DEF HoldsRuns
  <2> HIDE DEF old
  <2>6. \A i \in 1..Len(old) : IsRun(row(i), i, devices)
    BY <2>5, MarkedRun
  <2> HIDE DEF row
  <2>7. all \in Seq({row(i) : i \in 1..Len(old)})
    BY <2>2, <2>4
  <2>8. DOMAIN all = 1..Len(old) /\ (\A i \in 1..Len(old) : all[i] = row(i))
    BY <2>2, <2>4
  <2>9. /\ DOMAIN new = DOMAIN tables /\ new["Runs"] = all
        /\ \A name \in DOMAIN tables : name # "Runs" => new[name] = tables[name]
    BY <1>2, <2>3
  <2>10. \A name \in DOMAIN new : IsSequence(new[name])
    BY <1>0, <2>7, <2>9, SequenceOf DEF IsTables, IsSequence
  <2>11. new = [name \in DOMAIN new |-> new[name]]
    BY <2>3
  <2>12. IsTables(new)
    BY <2>10, <2>11 DEF IsTables, IsSequence
  <2>13. Rows(new, "Runs") = all /\ \A other : other # "Runs" => Rows(new, other) = Rows(tables, other)
    BY <1>2, <2>9 DEF Rows
  <2>14. HoldsRuns(new, devices)
    BY <2>6, <2>8, <2>13 DEF HoldsRuns
  <2>15. \A i \in 1..Len(old) : all[i] = IF old[i] \in runs THEN Marked(old[i], status) ELSE old[i]
    BY <2>8 DEF row
  <2> QED  BY <2>1, <2>4, <2>8, <2>9, <2>12, <2>13, <2>14, <2>15 DEF Good
<1> QED  BY <1>1, <1>2

(* A mark keeps the rows, if the rows are not claimed or get on.           *)
LEMMA StatusKeeps ==
  ASSUME NEW tables, NEW devices, Good("profile", tables, devices), NEW runs,
         NEW status \in 0..3, NEW new, new = SetStatus(tables, runs, status),
         \A i \in DOMAIN Rows(tables, "Runs") :
           LET run == Rows(tables, "Runs")[i]
           IN run \in runs => run.executed < 2 \/ run.executed <= status
  PROVE  Keeps(tables, new)
<1>1. /\ Good("profile", new, devices) /\ DOMAIN new = DOMAIN tables
      /\ \A other : other # "Runs" => Rows(new, other) = Rows(tables, other)
      /\ DOMAIN Rows(new, "Runs") = DOMAIN Rows(tables, "Runs")
      /\ \A i \in DOMAIN Rows(tables, "Runs") :
           Rows(new, "Runs")[i] = IF Rows(tables, "Runs")[i] \in runs
                                  THEN Marked(Rows(tables, "Runs")[i], status)
                                  ELSE Rows(tables, "Runs")[i]
  BY StatusFacts
<1>2. IsTables(tables) /\ HoldsRuns(tables, devices) /\ IsTables(new)
  BY <1>1 DEF Good
<1>3. ASSUME NEW name \in DOMAIN tables
      PROVE  /\ Len(tables[name]) <= Len(Rows(new, name))
             /\ \A i \in DOMAIN tables[name] : SameRow(tables[name][i], Rows(new, name)[i])
  <2>1. Rows(tables, name) = tables[name] /\ IsSequence(tables[name])
    BY <1>2, TablesFacts DEF Rows
  <2>2. IsSequence(Rows(new, name))
    BY <1>2, TablesFacts
  <2>3. DOMAIN Rows(new, name) = DOMAIN tables[name]
    <3>1. CASE name = "Runs"
      BY <1>1, <2>1, <3>1
    <3>2. CASE name # "Runs"
      BY <1>1, <2>1, <3>2
    <3> QED  BY <3>1, <3>2
  <2>4. Len(tables[name]) <= Len(Rows(new, name))
    <3>1. /\ Len(tables[name]) \in Nat /\ DOMAIN tables[name] = 1..Len(tables[name])
          /\ Len(Rows(new, name)) \in Nat /\ DOMAIN Rows(new, name) = 1..Len(Rows(new, name))
      BY <2>1, <2>2, SequenceFacts
    <3>2. \A i \in 1..Len(tables[name]) : i \in 1..Len(Rows(new, name))
      BY <2>3, <3>1
    <3> QED  BY <3>1, <3>2
  <2>5. ASSUME NEW i \in DOMAIN tables[name]
        PROVE  SameRow(tables[name][i], Rows(new, name)[i])
    <3>1. CASE name # "Runs"
      BY <1>1, <2>1, <3>1 DEF SameRow
    <3>2. CASE name = "Runs"
      <4> DEFINE run == Rows(tables, "Runs")[i]
      <4>1. i \in DOMAIN Rows(tables, "Runs") /\ run = tables[name][i]
        BY <2>1, <3>2
      <4>2. CASE run \notin runs
        BY <1>1, <3>2, <4>1, <4>2 DEF SameRow
      <4>3. CASE run \in runs
        <5>1. Rows(new, name)[i] = Marked(run, status)
          BY <1>1, <3>2, <4>1, <4>3
        <5>2. IsRun(run, i, devices) /\ (run.executed < 2 \/ run.executed <= status)
          BY <1>2, <4>1, <4>3 DEF HoldsRuns
        <5> HIDE DEF run
        <5>3. SameRow(run, Marked(run, status))
          BY <5>2, MarkedRun
        <5> QED  BY <4>1, <5>1, <5>3
      <4> QED  BY <4>2, <4>3
    <3> QED  BY <3>1, <3>2
  <2> QED  BY <2>4, <2>5
<1> QED  BY <1>3 DEF Keeps

(* No run is told to be executed without an event.                         *)
LEMMA StatusMissesNone ==
  ASSUME NEW tables, NEW devices, Good("profile", tables, devices), NEW runs,
         NEW status \in 0..3, NEW new, new = SetStatus(tables, runs, status),
         NoneMissed(tables),
         status = 3 => \A i \in DOMAIN Rows(tables, "Runs") :
                         Rows(tables, "Runs")[i] \in runs => HasEvent(tables, i)
  PROVE  NoneMissed(new)
<1>1. /\ \A other : other # "Runs" => Rows(new, other) = Rows(tables, other)
      /\ DOMAIN Rows(new, "Runs") = DOMAIN Rows(tables, "Runs")
      /\ \A i \in DOMAIN Rows(tables, "Runs") :
           Rows(new, "Runs")[i] = IF Rows(tables, "Runs")[i] \in runs
                                  THEN Marked(Rows(tables, "Runs")[i], status)
                                  ELSE Rows(tables, "Runs")[i]
  BY StatusFacts
<1>2. \A run_id : HasEvent(new, run_id) <=> HasEvent(tables, run_id)
  BY <1>1 DEF HasEvent
<1>3. ASSUME NEW i \in DOMAIN Rows(new, "Runs"), Rows(new, "Runs")[i].executed = 3
      PROVE  HasEvent(tables, i)
  <2> DEFINE run == Rows(tables, "Runs")[i]
  <2>1. i \in DOMAIN Rows(tables, "Runs") /\ IsRun(run, i, devices)
    BY <1>1 DEF Good, HoldsRuns
  <2>2. CASE run \in runs
    <3>1. Rows(new, "Runs")[i] = Marked(run, status)
      BY <1>1, <2>1, <2>2
    <3> HIDE DEF run
    <3>2. status = 3
      BY <1>3, <2>1, <3>1, MarkedRun
    <3> QED  BY <2>1, <2>2, <3>2 DEF run
  <2>3. CASE run \notin runs
    BY <1>1, <1>3, <2>1, <2>3 DEF NoneMissed
  <2> QED  BY <2>2, <2>3
<1> QED  BY <1>2, <1>3 DEF NoneMissed

-----------------------------------------------------------------------------
(* What the executor has to do: runs in ascending order, none of which has *)
(* been executed.  The one it completes has its event.                     *)
TodoInv ==
  /\ IsSequence(todo)
  /\ \A a \in DOMAIN todo : IsRun(todo[a], todo[a].rowid, 1) /\ todo[a].rowid \in Nat
  /\ \A a, b \in DOMAIN todo : a < b => todo[a].rowid < todo[b].rowid
  /\ xpc \notin {"claim", "launch", "complete"} => todo = <<>>
  /\ xpc \in {"launch", "complete"} => todo # <<>>

TodoFits(tables) ==
  /\ \A a \in DOMAIN todo :
       /\ todo[a].rowid \in DOMAIN Rows(tables, "Runs")
       /\ Rows(tables, "Runs")[todo[a].rowid].executed < 3
  /\ xpc \in {"load", "read_runs", "claim", "launch", "complete"} => "Events" \in DOMAIN tables
  /\ xpc = "complete" => HasEvent(tables, todo[1].rowid)

ScriptInv == TodoInv /\ ("profile" \in lost \/ TodoFits(Profile))

ExperimentInv ==
  /\ CopiesInv
  /\ CombosInv /\ BatchInv
  /\ FilesGood /\ ("profile" \in lost \/ NothingMissed)
  /\ ScriptInv

StepKeeps == \A f \in Files : f \notin lost' => Keeps(Content(f), Content(f)')

StepGoes ==
  /\ FilesGood' /\ lost \subseteq lost' /\ StepKeeps
  /\ NothingMissed /\ "profile" \notin lost' => NothingMissed'

LEMMA FilesStepGoes ==
  ASSUME FilesGood, FilesStep
  PROVE  StepGoes /\ ("profile" \notin lost' => Extends(Profile, Profile'))
<1>1. FilesGood' /\ FilesGrow
  BY DEF FilesStep
<1>2. ASSUME NEW f \in Files, f \notin lost' PROVE Keeps(Content(f), Content(f)')
  <2>1. Good(f, Content(f), num_devices) /\ Good(f, Content(f)', num_devices)
    BY <1>1 DEF FilesGood
  <2>2. Grown(f, Content(f), Content(f)')
    BY <1>1, <1>2 DEF FilesGrow
  <2> QED  BY <2>1, <2>2, KeepsExtended DEF Good, Grown
<1>3. ASSUME "profile" \notin lost' PROVE Extends(Profile, Profile')
  BY <1>1, <1>3, FilesAssumption DEF FilesGrow, Grown, Profile
<1> QED  BY <1>1, <1>2, <1>3 DEF StepGoes, StepKeeps, FilesStep, FilesGrow

LEMMA TodoStays ==
  ASSUME ScriptInv, xpc' = xpc, todo' = todo, lost \subseteq lost',
         "profile" \notin lost' => Extends(Profile, Profile')
  PROVE  ScriptInv'
<1>1. TodoInv'
  BY DEF ScriptInv, TodoInv
<1>2. ASSUME "profile" \notin lost' PROVE TodoFits(Profile)'
  <2>1. TodoFits(Profile) /\ Extends(Profile, Profile')
    BY <1>2 DEF ScriptInv
  <2>2. PICK new : new = Profile'
    OBVIOUS
  <2>3. \A run_id : HasEvent(Profile, run_id) => HasEvent(new, run_id)
    BY <2>1, <2>2, EventStays
  <2>4. /\ \A a \in DOMAIN todo : /\ todo[a].rowid \in DOMAIN Rows(new, "Runs")
                                  /\ Rows(new, "Runs")[todo[a].rowid].executed < 3
        /\ "Events" \in DOMAIN Profile => "Events" \in DOMAIN new
    BY <2>1, <2>2 DEF TodoFits, Extends
  <2> QED  BY <2>1, <2>2, <2>3, <2>4 DEF TodoFits
<1> QED  BY <1>1, <1>2 DEF ScriptInv

(* The run the executor is at.                                             *)
LEMMA HeadIsRead ==
  ASSUME TodoInv, todo # <<>>
  PROVE  RunField(Head(todo), 0) = todo[1].rowid /\ 1 \in DOMAIN todo
<1>1. Head(todo) = todo[1] /\ 1 \in DOMAIN todo
  BY TailFacts DEF TodoInv
<1>2. IsRun(todo[1], todo[1].rowid, 1)
  BY <1>1 DEF TodoInv
<1> QED  BY <1>1, <1>2, FieldsAreRead DEF IsRun, IsSequence

LEMMA CurrentIsHead ==
  ASSUME FilesGood, TodoInv, todo # <<>>, NEW i \in DOMAIN Rows(Profile, "Runs"),
         Rows(Profile, "Runs")[i] \in Current
  PROVE  i = todo[1].rowid
<1>1. Rows(Profile, "Runs")[i].rowid = todo[1].rowid
  BY HeadIsRead DEF Current
<1>2. Good("profile", Profile, num_devices)
  BY FilesAssumption DEF FilesGood, Profile
<1> QED  BY <1>1, <1>2 DEF Good, HoldsRuns, IsRun

LEMMA StatusStep ==
  ASSUME FilesGood, NEW runs, NEW status \in 0..3,
         Write("profile", SetStatus(Profile, runs, status)), UNCHANGED <<db, lost>>,
         "profile" \notin lost =>
           \A i \in DOMAIN Rows(Profile, "Runs") :
             LET run == Rows(Profile, "Runs")[i]
             IN run \in runs =>
                  /\ run.executed < 2 \/ run.executed <= status
                  /\ status = 3 => HasEvent(Profile, i)
  PROVE  StepGoes
<1>0. "profile" \in Files
  BY FilesAssumption
<1>1. PICK new : new = SetStatus(Profile, runs, status)
  OBVIOUS
<1>2. Content("profile")' = new /\ \A g : g # "profile" => Content(g)' = Content(g)
  BY <1>1, WriteContent
<1>3. Good("profile", Profile, num_devices)
  BY <1>0 DEF FilesGood, Profile
<1>4. Good("profile", new, num_devices)
  BY <1>1, <1>3, StatusFacts
<1>5. FilesGood'
  <2>1. ASSUME NEW f \in Files PROVE Good(f, Content(f)', num_devices)
    BY <1>2, <1>4 DEF FilesGood
  <2> QED  BY <2>1 DEF FilesGood
<1>6. ASSUME NEW f \in Files, f \notin lost' PROVE Keeps(Content(f), Content(f)')
  <2>1. CASE f = "profile"
    <3>1. Keeps(Profile, new)
      BY <1>1, <1>3, <1>6, <2>1, StatusKeeps
    <3> QED  BY <1>2, <2>1, <3>1 DEF Profile
  <2>2. CASE f # "profile"
    <3>1. IsTables(Content(f))
      BY DEF FilesGood, Good
    <3>2. Keeps(Content(f), Content(f))
      BY <3>1, KeepsExtended, GrownReflexive DEF Grown
    <3> QED  BY <1>2, <2>2, <3>2
  <2> QED  BY <2>1, <2>2
<1>7. ASSUME NothingMissed, "profile" \notin lost' PROVE NothingMissed'
  <2>1. NoneMissed(Profile)
    BY <1>7 DEF NothingMissed, Profile
  <2>2. NoneMissed(new)
    BY <1>1, <1>3, <1>7, <2>1, StatusMissesNone
  <2> QED  BY <1>2, <1>7, <2>2 DEF NothingMissed
<1> QED  BY <1>5, <1>6, <1>7 DEF StepGoes, StepKeeps

(* The executor uses the file of the profile itself.                       *)
LEMMA ExecutorWrites ==
  ASSUME ExecutorCopies, NEW new, Execute("execute", "profile", new)
  PROVE  /\ Write("profile", new) /\ UNCHANGED <<db, lost>>
         /\ Tables("execute", "profile") = Profile /\ Profile' = new
<1>1. Write("profile", new) /\ UNCHANGED <<db, lost>>
  BY DEF Execute, ExecutorCopies
<1>2. Content("profile")' = new
  BY <1>1, WriteContent
<1> QED  BY <1>1, <1>2 DEF Tables, Profile, ExecutorCopies

LEMMA InsertedEvent ==
  ASSUME NEW tables, IsTables(tables), "Events" \in DOMAIN tables, NEW event,
         NEW new, new = Insert(tables, "Events", <<event>>)
  PROVE  HasEvent(new, event.run_id)
<1> DEFINE events == Rows(tables, "Events")
           one == <<event>>
<1>1. IsSequence(events) /\ IsSequence(one) /\ Len(one) = 1 /\ one[1] = event
  BY TablesFacts, NoRows
<1>2. new = Insert(tables, "Events", one)
  OBVIOUS
<1> HIDE DEF one, events
<1>3. PICK all : all = Rows(new, "Events")
  OBVIOUS
<1>4. IsJoin(all, events, one)
  <2>1. IsSequence(one)
    BY <1>1
  <2> QED  BY <1>2, <1>3, <2>1, InsertedRows DEF events
<1>5. /\ IsSequence(all) /\ Len(all) = Len(events) + 1
      /\ all[Len(events) + 1] = event
  <2>1. /\ IsSequence(all) /\ Len(all) = Len(events) + Len(one)
        /\ \A i \in 1..Len(one) : all[Len(events) + i] = one[i]
    <3>1. IsSequence(events) /\ IsSequence(one)
      BY <1>1
    <3> QED  BY <1>4, <3>1, JoinedRows
  <2>2. 1 \in 1..Len(one)
    BY <1>1
  <2>3. all[Len(events) + 1] = one[1]
    BY <2>1, <2>2
  <2> QED  BY <1>1, <2>1, <2>3
<1>6. Len(events) + 1 \in DOMAIN all
  BY <1>1, <1>5, SequenceFacts
<1>7. all[Len(events) + 1].run_id = event.run_id
  BY <1>5
<1> QED  BY <1>3, <1>6, <1>7 DEF HasEvent

(* Each step of the script.                                                *)
ScriptGoes == StepGoes /\ ScriptInv'

LEMMA NothingTodo ==
  ASSUME todo' = <<>>, xpc' \notin {"load", "read_runs", "claim", "launch", "complete"}
  PROVE  ScriptInv'
<1>1. IsSequence(todo') /\ DOMAIN todo' = {}
  BY NoRows
<1>2. TodoInv'
  BY <1>1 DEF TodoInv
<1>3. TodoFits(Profile)'
  BY <1>1 DEF TodoFits
<1> QED  BY <1>2, <1>3 DEF ScriptInv

LEMMA MarkGoes ==
  ASSUME ExperimentInv, Mark
  PROVE  ScriptGoes
<1>1. PICK g : g = group'
  OBVIOUS
<1>2. /\ xpc = "select" /\ xpc' = "open_versions" /\ todo' = todo
      /\ Write("profile", SetStatus(Profile, InGroup(Profile, g, 0), 1))
      /\ UNCHANGED <<db, lost>>
  BY <1>1 DEF Mark
<1>3. \A run : run \in InGroup(Profile, g, 0) => run.executed = 0
  BY DEF InGroup
<1>4. StepGoes
  BY <1>2, <1>3, StatusStep DEF ExperimentInv
<1>5. todo' = <<>>
  BY <1>2 DEF ExperimentInv, ScriptInv, TodoInv
<1> QED  BY <1>2, <1>4, <1>5, NothingTodo DEF ScriptGoes

LEMMA UnmarkGoes ==
  ASSUME ExperimentInv, Unmark
  PROVE  ScriptGoes
<1>1. xpc = "unmark" /\ xpc' = "select" /\ todo' = todo /\ UNCHANGED <<db, lost>>
  BY DEF Unmark
<1>2. StepGoes
  <2>1. CASE HasRuns
    <3>1. Write("profile", SetStatus(Profile, InGroup(Profile, group, 1), 0))
      BY <2>1 DEF Unmark
    <3>2. \A run : run \in InGroup(Profile, group, 1) => run.executed = 1
      BY DEF InGroup
    <3> QED  BY <1>1, <3>1, <3>2, StatusStep DEF ExperimentInv
  <2>2. CASE ~HasRuns
    <3>1. UNCHANGED dbVars
      BY <1>1, <2>2 DEF Unmark, dbVars
    <3> QED  BY <3>1, UnchangedFiles, FilesStepGoes DEF ExperimentInv
  <2> QED  BY <2>1, <2>2
<1>3. todo' = <<>>
  BY <1>1 DEF ExperimentInv, ScriptInv, TodoInv
<1> QED  BY <1>1, <1>2, <1>3, NothingTodo DEF ScriptGoes

LEMMA ClaimGoes ==
  ASSUME ExperimentInv, Claim
  PROVE  ScriptGoes
<1>0. /\ FilesGood /\ ScriptInv /\ TodoInv /\ ExecutorCopies
      /\ Good("profile", Profile, num_devices)
  BY FilesAssumption DEF ExperimentInv, ScriptInv, CopiesInv, FilesGood, Profile
<1>1. PICK new : new = SetStatus(Profile, Current, 2)
  OBVIOUS
<1>2. todo # <<>> /\ xpc = "claim" /\ xpc' = "launch" /\ todo' = todo
      /\ Execute("execute", "profile", new)
  BY <1>1 DEF Claim, ExecutorGoes, SetCurrent
<1>3. Write("profile", new) /\ UNCHANGED <<db, lost>> /\ Profile' = new
  BY <1>0, <1>2, ExecutorWrites
<1>4. \A i \in DOMAIN Rows(Profile, "Runs") :
        Rows(Profile, "Runs")[i] \in Current => i = todo[1].rowid
  BY <1>0, <1>2, CurrentIsHead
<1>5. 1 \in DOMAIN todo
  BY <1>0, <1>2, HeadIsRead
<1>6. ASSUME "profile" \notin lost, NEW i \in DOMAIN Rows(Profile, "Runs"),
             Rows(Profile, "Runs")[i] \in Current
      PROVE  Rows(Profile, "Runs")[i].executed <= 2
  <2>1. Rows(Profile, "Runs")[i].executed < 3
    BY <1>0, <1>4, <1>5, <1>6 DEF ScriptInv, TodoFits
  <2>2. Rows(Profile, "Runs")[i].executed \in 0..3
    BY <1>0 DEF Good, HoldsRuns, IsRun
  <2> QED  BY <2>1, <2>2
<1>7. StepGoes
  BY <1>0, <1>1, <1>3, <1>6, StatusStep
<1>8. TodoInv'
  BY <1>0, <1>2 DEF TodoInv
<1>9. ASSUME "profile" \notin lost PROVE TodoFits(Profile)'
  <2>1. TodoFits(Profile)
    BY <1>0, <1>9 DEF ScriptInv
  <2>2. /\ DOMAIN new = DOMAIN Profile /\ DOMAIN Rows(new, "Runs") = DOMAIN Rows(Profile, "Runs")
        /\ \A i \in DOMAIN Rows(Profile, "Runs") :
             Rows(new, "Runs")[i] = IF Rows(Profile, "Runs")[i] \in Current
                                    THEN Marked(Rows(Profile, "Runs")[i], 2)
                                    ELSE Rows(Profile, "Runs")[i]
    BY <1>0, <1>1, StatusFacts
  <2>3. ASSUME NEW a \in DOMAIN todo
        PROVE  /\ todo[a].rowid \in DOMAIN Rows(new, "Runs")
               /\ Rows(new, "Runs")[todo[a].rowid].executed < 3
    <3> DEFINE i == todo[a].rowid
    <3>1. i \in DOMAIN Rows(Profile, "Runs") /\ Rows(Profile, "Runs")[i].executed < 3
      BY <2>1 DEF TodoFits
    <3>2. CASE Rows(Profile, "Runs")[i] \in Current
      <4>1. IsRun(Rows(Profile, "Runs")[i], i, num_devices)
        BY <1>0, <3>1 DEF Good, HoldsRuns
      <4>2. Marked(Rows(Profile, "Runs")[i], 2).executed = 2
        BY <4>1, MarkedRun
      <4> QED  BY <2>2, <3>1, <3>2, <4>2
    <3>3. CASE Rows(Profile, "Runs")[i] \notin Current
      BY <2>2, <3>1, <3>3
    <3> QED  BY <3>2, <3>3
  <2>4. "Events" \in DOMAIN new
    BY <1>2, <2>1, <2>2 DEF TodoFits
  <2> QED  BY <1>2, <1>3, <2>3, <2>4 DEF TodoFits
<1>10. ScriptInv'
  BY <1>3, <1>8, <1>9 DEF ScriptInv
<1> QED  BY <1>7, <1>10 DEF ScriptGoes

LEMMA LaunchGoes ==
  ASSUME ExperimentInv, Launch
  PROVE  ScriptGoes
<1>0. /\ FilesGood /\ ScriptInv /\ TodoInv /\ ExecutorCopies /\ Connections
      /\ Good("profile", Profile, num_devices)
      /\ "execute" \in Programs /\ "profile" \in Files
  BY FilesAssumption, ProgramsAssumption
  DEF ExperimentInv, ScriptInv, CopiesInv, FilesGood, Profile
<1>1. PICK duration \in Durations :
        Execute("execute", "profile",
                Insert(Tables("execute", "profile"), "Events",
                  << [run_id |-> RunField(Head(todo), 0), device_id |-> 0,
                      duration |-> duration] >>))
  BY DEF Launch
<1>2. xpc = "launch" /\ xpc' = "complete" /\ todo' = todo /\ todo # <<>>
  BY <1>0 DEF Launch, ExecutorGoes, TodoInv
<1>3. PICK event : event = [run_id |-> RunField(Head(todo), 0), device_id |-> 0,
                            duration |-> duration]
  OBVIOUS
<1>4. event.run_id = todo[1].rowid
  BY <1>0, <1>2, <1>3, HeadIsRead
<1>5. PICK new : new = Insert(Tables("execute", "profile"), "Events", <<event>>)
  OBVIOUS
<1>6. Execute("execute", "profile", new)
  BY <1>1, <1>3, <1>5
<1>7. /\ UNCHANGED <<db, lost>> /\ Profile' = new
      /\ Tables("execute", "profile") = Profile
  BY <1>0, <1>6, ExecutorWrites
<1>8. new = Insert(Profile, "Events", <<event>>)
  BY <1>5, <1>7
<1>9. Good("profile", new, num_devices) /\ Grown("profile", Profile, new)
  BY <1>0, <1>8, InsertedElsewhere, NoRows
<1>10. FilesStep
  BY <1>0, <1>6, <1>7, <1>9, ExecuteStep
<1>11. StepGoes
  BY <1>0, <1>10, FilesStepGoes
<1>12. TodoInv'
  BY <1>0, <1>2 DEF TodoInv
<1>13. ASSUME "profile" \notin lost PROVE TodoFits(Profile)'
  <2>1. TodoFits(Profile) /\ Extends(Profile, new)
    BY <1>0, <1>9, <1>13 DEF ScriptInv, Grown
  <2>2. "Events" \in DOMAIN Profile
    BY <1>2, <2>1 DEF TodoFits
  <2>3. HasEvent(new, todo[1].rowid)
    BY <1>0, <1>4, <1>8, <2>2, InsertedEvent DEF Good
  <2>4. /\ \A a \in DOMAIN todo : /\ todo[a].rowid \in DOMAIN Rows(new, "Runs")
                                  /\ Rows(new, "Runs")[todo[a].rowid].executed < 3
        /\ "Events" \in DOMAIN new
    BY <2>1, <2>2 DEF TodoFits, Extends
  <2> QED  BY <1>2, <1>7, <2>3, <2>4 DEF TodoFits
<1>14. ScriptInv'
  BY <1>7, <1>12, <1>13 DEF ScriptInv
<1> QED  BY <1>11, <1>14 DEF ScriptGoes

LEMMA CompleteGoes ==
  ASSUME ExperimentInv, Complete
  PROVE  ScriptGoes
<1>0. /\ FilesGood /\ ScriptInv /\ TodoInv /\ ExecutorCopies
      /\ Good("profile", Profile, num_devices)
  BY FilesAssumption DEF ExperimentInv, ScriptInv, CopiesInv, FilesGood, Profile
<1>1. PICK new : new = SetStatus(Profile, Current, 3)
  OBVIOUS
<1>2. xpc = "complete" /\ xpc' = "claim" /\ todo' = Tail(todo) /\ todo # <<>>
      /\ Execute("execute", "profile", new)
  BY <1>0, <1>1 DEF Complete, SetCurrent, TodoInv
<1>3. Write("profile", new) /\ UNCHANGED <<db, lost>> /\ Profile' = new
  BY <1>0, <1>2, ExecutorWrites
<1>4. \A i \in DOMAIN Rows(Profile, "Runs") :
        Rows(Profile, "Runs")[i] \in Current => i = todo[1].rowid
  BY <1>0, <1>2, CurrentIsHead
<1>5. /\ IsSequence(Tail(todo)) /\ 1 \in DOMAIN todo
      /\ \A a \in DOMAIN Tail(todo) : /\ a + 1 \in DOMAIN todo /\ Tail(todo)[a] = todo[a + 1]
                                      /\ a \in Nat \ {0}
  BY <1>0, <1>2, TailFacts DEF TodoInv
<1>6. ASSUME "profile" \notin lost, NEW i \in DOMAIN Rows(Profile, "Runs"),
             Rows(Profile, "Runs")[i] \in Current
      PROVE  Rows(Profile, "Runs")[i].executed <= 3 /\ HasEvent(Profile, i)
  <2>1. HasEvent(Profile, i)
    BY <1>0, <1>2, <1>4, <1>6 DEF ScriptInv, TodoFits
  <2>2. Rows(Profile, "Runs")[i].executed \in 0..3
    BY <1>0 DEF Good, HoldsRuns, IsRun
  <2> QED  BY <2>1, <2>2
<1>7. StepGoes
  BY <1>0, <1>1, <1>3, <1>6, StatusStep
<1>8. TodoInv'
  <2>1. \A a, b \in DOMAIN Tail(todo) : a < b => Tail(todo)[a].rowid < Tail(todo)[b].rowid
    <3>1. SUFFICES ASSUME NEW a \in DOMAIN Tail(todo), NEW b \in DOMAIN Tail(todo), a < b
                   PROVE  Tail(todo)[a].rowid < Tail(todo)[b].rowid
      OBVIOUS
    <3>2. /\ a + 1 \in DOMAIN todo /\ b + 1 \in DOMAIN todo /\ a + 1 < b + 1
          /\ Tail(todo)[a] = todo[a + 1] /\ Tail(todo)[b] = todo[b + 1]
      BY <1>5, <3>1
    <3> QED  BY <1>0, <3>2 DEF TodoInv
  <2>2. \A a \in DOMAIN Tail(todo) : /\ IsRun(Tail(todo)[a], Tail(todo)[a].rowid, 1)
                                     /\ Tail(todo)[a].rowid \in Nat
    BY <1>0, <1>5 DEF TodoInv
  <2> QED  BY <1>2, <1>5, <2>1, <2>2 DEF TodoInv
<1>9. ASSUME "profile" \notin lost PROVE TodoFits(Profile)'
  <2>1. TodoFits(Profile)
    BY <1>0, <1>9 DEF ScriptInv
  <2>2. /\ DOMAIN new = DOMAIN Profile /\ DOMAIN Rows(new, "Runs") = DOMAIN Rows(Profile, "Runs")
        /\ \A i \in DOMAIN Rows(Profile, "Runs") :
             Rows(new, "Runs")[i] = IF Rows(Profile, "Runs")[i] \in Current
                                    THEN Marked(Rows(Profile, "Runs")[i], 3)
                                    ELSE Rows(Profile, "Runs")[i]
    BY <1>0, <1>1, StatusFacts
  <2>3. ASSUME NEW a \in DOMAIN Tail(todo)
        PROVE  /\ Tail(todo)[a].rowid \in DOMAIN Rows(new, "Runs")
               /\ Rows(new, "Runs")[Tail(todo)[a].rowid].executed < 3
    <3> DEFINE i == todo[a + 1].rowid
    <3>1. a + 1 \in DOMAIN todo /\ Tail(todo)[a] = todo[a + 1] /\ 1 < a + 1
      BY <1>5
    <3>2. i \in DOMAIN Rows(Profile, "Runs") /\ Rows(Profile, "Runs")[i].executed < 3
      BY <2>1, <3>1 DEF TodoFits
    <3>3. i # todo[1].rowid
      <4>1. todo[1].rowid < i /\ i \in Nat /\ todo[1].rowid \in Nat
        BY <1>0, <1>5, <3>1 DEF TodoInv
      <4> QED  BY <4>1
    <3>4. Rows(Profile, "Runs")[i] \notin Current
      BY <1>4, <3>2, <3>3
    <3> QED  BY <2>2, <3>1, <3>2, <3>4
  <2>4. "Events" \in DOMAIN new
    BY <1>2, <2>1, <2>2 DEF TodoFits
  <2> QED  BY <1>2, <1>3, <2>3, <2>4 DEF TodoFits
<1>10. ScriptInv'
  BY <1>3, <1>8, <1>9 DEF ScriptInv
<1> QED  BY <1>7, <1>10 DEF ScriptGoes

LEMMA AddingGoes ==
  ASSUME ExperimentInv, NEW p \in Programs,
         Adds(p) \/ UNCHANGED dbVars
  PROVE  StepGoes /\ ("profile" \notin lost' => Extends(Profile, Profile'))
<1>1. Connections /\ FilesGood
  BY DEF ExperimentInv, CopiesInv
<1>2. FilesStep
  BY <1>1, AddsStep, UnchangedFiles
<1> QED  BY <1>1, <1>2, FilesStepGoes

(* The steps of the executor before it knows its runs and after it has     *)
(* executed them.                                                          *)
LEMMA InitExecutionGoes ==
  ASSUME ExperimentInv, InitExecution
  PROVE  ScriptGoes
<1>0. /\ FilesGood /\ ScriptInv /\ TodoInv /\ ExecutorCopies
      /\ Good("profile", Profile, num_devices)
      /\ "execute" \in Programs /\ "profile" \in Files
  BY FilesAssumption, ProgramsAssumption
  DEF ExperimentInv, ScriptInv, CopiesInv, FilesGood, Profile
<1>1. PICK new : new = acc_profiling_init_db(Tables("execute", "profile"))
  OBVIOUS
<1>2. xpc = "profiling_init" /\ xpc' = "load" /\ todo' = todo /\ Execute("execute", "profile", new)
  BY <1>1 DEF InitExecution, ExecutorGoes
<1>3. Tables("execute", "profile") = Profile /\ Profile' = new
  BY <1>0, <1>2, ExecutorWrites
<1>4. /\ Good("profile", new, num_devices) /\ Grown("profile", Profile, new)
      /\ "Events" \in DOMAIN new
  BY <1>0, <1>1, <1>3, ProfilingTables
<1>5. Adds("execute")
  BY <1>0, <1>2, <1>3, <1>4 DEF Adds
<1>6. StepGoes
  BY <1>0, <1>5, AddingGoes
<1>7. todo' = <<>> /\ DOMAIN <<>> = {} /\ IsSequence(<<>>)
  BY <1>0, <1>2, NoRows DEF TodoInv
<1>8. TodoInv' /\ TodoFits(Profile)'
  BY <1>2, <1>3, <1>4, <1>7 DEF TodoInv, TodoFits
<1> QED  BY <1>6, <1>8 DEF ScriptGoes, ScriptInv

LEMMA LoadVersionGoes ==
  ASSUME ExperimentInv, LoadVersion
  PROVE  ScriptGoes
<1>0. ScriptInv /\ TodoInv /\ "execute" \in Programs
  BY ProgramsAssumption DEF ExperimentInv, ScriptInv
<1>1. xpc = "load" /\ xpc' = "read_runs" /\ todo' = todo /\ UNCHANGED dbVars
  BY DEF LoadVersion, ExecutorGoes
<1>2. StepGoes
  BY <1>0, <1>1, AddingGoes
<1>3. todo' = <<>> /\ DOMAIN <<>> = {} /\ IsSequence(<<>>)
  BY <1>0, <1>1, NoRows DEF TodoInv
<1>4. Profile' = Profile /\ lost' = lost
  BY <1>1 DEF Profile, Content, FileExists, dbVars
<1>5. TodoInv'
  BY <1>1, <1>3 DEF TodoInv
<1>6. ASSUME "profile" \notin lost PROVE TodoFits(Profile)'
  <2>1. "Events" \in DOMAIN Profile
    BY <1>0, <1>1, <1>6 DEF ScriptInv, TodoFits
  <2> QED  BY <1>1, <1>3, <1>4, <2>1 DEF TodoFits
<1> QED  BY <1>2, <1>4, <1>5, <1>6 DEF ScriptGoes, ScriptInv

(* What is marked for the executor is selected in the order of the rows.   *)
LEMMA ReadMarkedRunsGoes ==
  ASSUME ExperimentInv, ReadMarkedRuns
  PROVE  ScriptGoes
<1>0. /\ FilesGood /\ ScriptInv /\ TodoInv /\ Good("profile", Profile, num_devices)
      /\ "execute" \in Programs
  BY FilesAssumption, ProgramsAssumption DEF ExperimentInv, ScriptInv, FilesGood, Profile
<1>1. PICK marked : marked = InGroup(Profile, group, 1)
  OBVIOUS
<1>2. /\ xpc = "read_runs" /\ xpc' = "claim" /\ UNCHANGED dbVars
      /\ "Runs" \in DOMAIN Profile
      /\ todo' = Selected(Profile["Runs"], marked)
  BY <1>1 DEF ReadMarkedRuns, HasRuns
<1>3. PICK runs : runs = Profile["Runs"]
  OBVIOUS
<1>4. runs = Rows(Profile, "Runs") /\ IsSequence(runs)
  BY <1>0, <1>2, <1>3, TablesFacts DEF Rows, Good
<1>5. num_devices = 1
  BY OneDevice
<1>6. \A i \in DOMAIN runs : IsRun(runs[i], i, 1)
  BY <1>0, <1>4, <1>5 DEF Good, HoldsRuns
<1>7. \A run : run \in marked => run.executed = 1
  BY <1>1 DEF InGroup
<1>8. PICK chosen : chosen = todo'
  OBVIOUS
<1>9. chosen = Selected(runs, marked)
  BY <1>2, <1>3, <1>8
<1>10. PICK idx \in [DOMAIN chosen -> 1..Len(runs)] :
         Ascending(idx) /\ \A a \in DOMAIN idx : chosen[a] = runs[idx[a]] /\ runs[idx[a]] \in marked
  BY <1>4, <1>9, SelectedOrder DEF IsSequence
<1>11. DOMAIN runs = 1..Len(runs) /\ Len(runs) \in Nat /\ IsSequence(chosen)
  BY <1>4, <1>9, SequenceFacts, SelectedFacts
<1>12. \A a \in DOMAIN chosen : /\ idx[a] \in 1..Len(runs)
                                /\ chosen[a] = runs[idx[a]] /\ runs[idx[a]] \in marked
  BY <1>10
<1>13. \A i \in DOMAIN runs : runs[i].rowid = i
  BY <1>6 DEF IsRun
<1>14. \A a \in DOMAIN chosen : chosen[a].rowid = idx[a] /\ IsRun(chosen[a], idx[a], 1)
  BY <1>6, <1>11, <1>12, <1>13
<1>15. \A a, b \in DOMAIN chosen : a < b => chosen[a].rowid < chosen[b].rowid
  BY <1>10, <1>14 DEF Ascending
<1>16. TodoInv'
  BY <1>2, <1>8, <1>11, <1>12, <1>14, <1>15 DEF TodoInv
<1>17. Profile' = Profile /\ lost' = lost
  BY <1>2 DEF Profile, Content, FileExists, dbVars
<1>18. ASSUME "profile" \notin lost PROVE TodoFits(Profile)'
  <2>1. "Events" \in DOMAIN Profile
    BY <1>0, <1>2, <1>18 DEF ScriptInv, TodoFits
  <2>2. \A a \in DOMAIN chosen : /\ chosen[a].rowid \in DOMAIN runs
                                 /\ runs[chosen[a].rowid].executed < 3
    BY <1>7, <1>11, <1>12, <1>14
  <2> QED  BY <1>2, <1>4, <1>8, <1>17, <2>1, <2>2 DEF TodoFits
<1>19. StepGoes
  BY <1>0, <1>2, AddingGoes
<1> QED  BY <1>16, <1>17, <1>18, <1>19 DEF ScriptGoes, ScriptInv

LEMMA ScriptGoesOn ==
  ASSUME ExperimentInv, Script \/ Mark
  PROVE  ScriptGoes
<1>0. /\ "execute" \in Programs /\ "versions" \in Files /\ "profile" \in Files
      /\ TodoInv
  BY FilesAssumption, ProgramsAssumption DEF ExperimentInv, ScriptInv
<1>1. ASSUME Adds("execute") \/ UNCHANGED dbVars, todo' = <<>>,
             xpc' \notin {"load", "read_runs", "claim", "launch", "complete"}
      PROVE  ScriptGoes
  BY <1>0, <1>1, AddingGoes, NothingTodo DEF ScriptGoes
<1>2. CASE ScriptEnds
  BY <1>0, <1>1, <1>2 DEF ScriptEnds, TodoInv
<1>3. CASE OpenExecutedVersions
  BY <1>0, <1>1, <1>3 DEF OpenExecutedVersions, ExecutorGoes, TodoInv, Adds
<1>4. CASE OpenExecutedProfile
  BY <1>0, <1>1, <1>4 DEF OpenExecutedProfile, ExecutorGoes, TodoInv, Adds
<1>5. CASE ExitExecution
  BY <1>0, <1>1, <1>5 DEF ExitExecution, ExecutorGoes, Adds
<1> QED
  BY <1>2, <1>3, <1>4, <1>5, UnmarkGoes, InitExecutionGoes, LoadVersionGoes,
     ReadMarkedRunsGoes, ClaimGoes, LaunchGoes, CompleteGoes, MarkGoes DEF Script

-----------------------------------------------------------------------------
LEMMA ExperimentStart == Init => ExperimentInv
<1> SUFFICES ASSUME Init PROVE ExperimentInv
  OBVIOUS
<1>0. /\ Programs = {"generate", "execute", "process"} /\ Files = {"versions", "profile"}
      /\ CopiesInv
  BY ProgramsAssumption, FilesAssumption, AloneStart DEF AloneInv
<1>1. /\ db = [p \in Programs |-> [f \in Files |-> Closed]]
      /\ xpc = "off" /\ combos = <<>> /\ batch = NoBatches /\ todo = <<>>
  BY DEF Init
<1>2. \A p \in Programs, f \in Files :
        db[p][f].tables = NoTables /\ db[p][f].loaded = NoTables
  BY <1>1 DEF Closed
<1>3. \/ /\ Content("versions") = UserVersions /\ Content("profile") = NoTables
      \/ /\ Content("versions") = UserVersions /\ Content("profile") = Earlier
  <2>1. CASE disk = [f \in {"versions"} |-> UserVersions]
    BY <2>1 DEF Content, FileExists
  <2>2. CASE disk = [f \in Files |-> IF f = "versions" THEN UserVersions ELSE Earlier]
    BY <1>0, <2>2 DEF Content, FileExists
  <2> QED  BY <2>1, <2>2 DEF Init
<1>4. Good("versions", Content("versions"), num_devices)
  BY <1>3, VersionsAssumption DEF Good
<1>5. Good("profile", Content("profile"), num_devices) /\ NoneMissed(Content("profile"))
  <2>1. CASE Content("profile") = NoTables
    BY <2>1, NoTablesAreGood
  <2>2. CASE Content("profile") = Earlier
    BY <2>2, EarlierAssumption, OneDevice, NoneIsMissed DEF Good
  <2> QED  BY <1>3, <2>1, <2>2
<1>6. FilesGood
  <2>1. \A f \in Files : Good(f, Content(f), num_devices)
    BY <1>0, <1>4, <1>5
  <2>2. \A p \in Programs, f \in Files : /\ Good(f, db[p][f].tables, num_devices)
                                         /\ Grown(f, db[p][f].loaded, db[p][f].tables)
    BY <1>2, NoTablesAreGood
  <2> QED  BY <2>1, <2>2 DEF FilesGood
<1>7. NothingMissed
  BY <1>0, <1>2, <1>5, NoTablesAreGood DEF NothingMissed
<1>8. CombosInv
  BY <1>1, NoRows DEF CombosInv
<1>9. BatchInv
  BY <1>1, NoRows DEF BatchInv, NoBatches
<1>10. ScriptInv
  <2>1. DOMAIN <<>> = {} /\ IsSequence(<<>>)
    BY NoRows
  <2> QED  BY <1>1, <2>1 DEF ScriptInv, TodoInv, TodoFits
<1> QED  BY <1>0, <1>1, <1>6, <1>7, <1>8, <1>9, <1>10 DEF ExperimentInv

(* A program that has ended leaves the files as they are.                  *)
LEMMA DisconnectGoes ==
  ASSUME Connections, FilesGood, NEW p \in Programs,
         Disconnect(p), UNCHANGED <<disk, lost>>
  PROVE  StepGoes /\ Profile' = Profile
<1>1. /\ \A f \in Files : db'[p][f] = Closed
      /\ \A q \in Programs : q # p => db'[q] = db[q]
  BY DisconnectEffect
<1>2. \A f : Content(f)' = Content(f)
  BY DEF Content, FileExists
<1>3. \A q \in Programs, f \in Files :
        \/ db'[q][f] = db[q][f]
        \/ db'[q][f].tables = NoTables /\ db'[q][f].loaded = NoTables
  BY <1>1 DEF Closed
<1>4. FilesGood'
  <2>1. \A f \in Files : Good(f, Content(f)', num_devices)
    BY <1>2 DEF FilesGood
  <2>2. \A q \in Programs, f \in Files : /\ Good(f, db'[q][f].tables, num_devices)
                                         /\ Grown(f, db'[q][f].loaded, db'[q][f].tables)
    <3>1. SUFFICES ASSUME NEW q \in Programs, NEW f \in Files
                   PROVE  /\ Good(f, db'[q][f].tables, num_devices)
                          /\ Grown(f, db'[q][f].loaded, db'[q][f].tables)
      OBVIOUS
    <3>2. /\ Good(f, db[q][f].tables, num_devices)
          /\ Grown(f, db[q][f].loaded, db[q][f].tables)
      BY DEF FilesGood
    <3>3. CASE db'[q][f] = db[q][f]
      BY <3>2, <3>3
    <3>4. CASE db'[q][f].tables = NoTables /\ db'[q][f].loaded = NoTables
      BY <3>4, NoTablesAreGood
    <3> QED  BY <1>3, <3>3, <3>4
  <2> QED  BY <2>1, <2>2 DEF FilesGood
<1>5. ASSUME NothingMissed PROVE NothingMissed'
  <2>1. NoneMissed(Content("profile")')
    BY <1>2, <1>5 DEF NothingMissed
  <2>2. \A q \in Programs : NoneMissed(db'[q]["profile"].tables)
    BY <1>3, <1>5, NoTablesAreGood, FilesAssumption DEF NothingMissed
  <2> QED  BY <2>1, <2>2 DEF NothingMissed
<1>6. \A f \in Files : Keeps(Content(f), Content(f)')
  <2>1. \A f \in Files : IsTables(Content(f))
    BY DEF FilesGood, Good
  <2> QED  BY <1>2, <2>1, KeepsExtended, GrownReflexive DEF Grown
<1> QED  BY <1>2, <1>4, <1>5, <1>6 DEF StepGoes, StepKeeps, Profile

(* Each step of the whole.                                                 *)
LEMMA ExperimentStep == ExperimentInv /\ [Next]_vars => ExperimentInv' /\ StepKeeps
<1> SUFFICES ASSUME ExperimentInv, [Next]_vars PROVE ExperimentInv' /\ StepKeeps
  OBVIOUS
<1>0. /\ Programs = {"generate", "execute", "process"}
      /\ CopiesInv' /\ Connections /\ FilesGood /\ ScriptInv /\ CombosInv /\ BatchInv
      /\ "profile" \in lost \/ NothingMissed
  BY ProgramsAssumption, CopiesStep DEF ExperimentInv, CopiesInv
<1>1. SUFFICES StepGoes /\ ScriptInv' /\ CombosInv' /\ BatchInv'
  BY <1>0, <1>1 DEF ExperimentInv, StepGoes
<1>2. ASSUME UNCHANGED dbVars
      PROVE  StepGoes /\ Profile' = Profile
  BY <1>0, <1>2, UnchangedFiles, FilesStepGoes DEF Profile, Content, FileExists, dbVars
<1>3. ASSUME Profile' = Profile, lost' = lost, xpc' = xpc, todo' = todo
      PROVE  ScriptInv'
  BY <1>0, <1>3, TodoStays, GrownReflexive DEF Grown
<1>4. ASSUME combos' = combos PROVE CombosInv'
  BY <1>0, <1>4 DEF CombosInv
<1>5. ASSUME batch' = batch PROVE BatchInv'
  BY <1>0, <1>5 DEF BatchInv
<1>6. BatchInv' \/ batch' # NoBatches
  BY NoRows DEF BatchInv, NoBatches
<1>7. CombosInv' \/ combos' # <<>>
  BY NoRows DEF CombosInv
<1>8. CASE Generate /\ UNCHANGED <<analysisVars, executorVars, userVars>>
  <2>1. Adds("generate") /\ CombosInv'
    BY <1>0, <1>8, GenerateAdds
  <2>2. batch' = batch /\ xpc' = xpc /\ todo' = todo
    BY <1>8 DEF Generate, OpenVersions, OpenProfile, LoadGenData, acc_tuning_generate,
                CloseVersions, acc_profiling_exit, GenerationGoes, analysisVars, executorVars
  <2>3. StepGoes /\ ("profile" \notin lost' => Extends(Profile, Profile'))
    BY <1>0, <2>1, <2>2, AddingGoes
  <2>4. ScriptInv'
    BY <1>0, <2>2, <2>3, TodoStays DEF StepGoes
  <2> QED  BY <1>0, <1>5, <2>1, <2>2, <2>3, <2>4
<1>9. CASE Analyse /\ UNCHANGED <<generationVars, executorVars, userVars>>
  <2>1. (Adds("process") \/ UNCHANGED dbVars) /\ BatchInv'
    BY <1>0, <1>9, AnalyseAdds
  <2>2. combos' = combos /\ xpc' = xpc /\ todo' = todo
    BY <1>9 DEF generationVars, executorVars
  <2>3. StepGoes /\ ("profile" \notin lost' => Extends(Profile, Profile'))
    BY <1>0, <2>1, <2>2, AddingGoes
  <2>4. ScriptInv'
    BY <1>0, <2>2, <2>3, TodoStays DEF StepGoes
  <2> QED  BY <1>0, <1>4, <2>1, <2>2, <2>3, <2>4
<1>10. CASE (Script \/ Mark) /\ UNCHANGED <<generationVars, analysisVars>>
  <2>1. combos' = combos /\ batch' = batch
    BY <1>10 DEF generationVars, analysisVars
  <2>2. StepGoes /\ ScriptInv'
    BY <1>10, <2>1, ScriptGoesOn DEF ScriptGoes
  <2> QED  BY <1>0, <1>4, <1>5, <2>1, <2>2
<1>11. CASE StartGeneration
  <2>1. /\ UNCHANGED dbVars /\ combos' = <<>>
        /\ batch' = batch /\ xpc' = xpc /\ todo' = todo /\ lost' = lost
    BY <1>11 DEF StartGeneration, Start, analysisVars, executorVars, dbVars
  <2> QED  BY <1>0, <1>2, <1>3, <1>5, <1>7, <2>1
<1>12. CASE StartAnalysis
  <2>1. /\ UNCHANGED dbVars /\ combos' = combos
        /\ batch' = NoBatches /\ xpc' = xpc /\ todo' = todo /\ lost' = lost
    BY <1>12 DEF StartAnalysis, Start, generationVars, executorVars, dbVars
  <2> QED  BY <1>0, <1>2, <1>3, <1>4, <1>6, <2>1
<1>13. CASE StartScript
  <2>1. /\ UNCHANGED dbVars /\ combos' = combos
        /\ batch' = batch /\ xpc' = "select" /\ todo' = <<>>
    BY <1>13 DEF StartScript, Start, generationVars, analysisVars, dbVars
  <2> QED  BY <1>0, <1>2, <1>4, <1>5, <2>1, NothingTodo
<1>14. CASE EndGeneration
  <2>1. /\ Disconnect("generate") /\ UNCHANGED <<disk, lost>>
        /\ combos' = <<>> /\ batch' = batch /\ xpc' = xpc /\ todo' = todo
    BY <1>14 DEF EndGeneration, analysisVars, executorVars
  <2>2. StepGoes /\ Profile' = Profile
    BY <1>0, <2>1, DisconnectGoes
  <2> QED  BY <1>0, <1>3, <1>5, <1>7, <2>1, <2>2
<1>15. CASE EndAnalysis
  <2>1. /\ Disconnect("process") /\ UNCHANGED <<disk, lost>>
        /\ combos' = combos /\ batch' = NoBatches /\ xpc' = xpc /\ todo' = todo
    BY <1>15 DEF EndAnalysis, generationVars, executorVars
  <2>2. StepGoes /\ Profile' = Profile
    BY <1>0, <2>1, DisconnectGoes
  <2> QED  BY <1>0, <1>3, <1>4, <1>6, <2>1, <2>2
<1>16. CASE EndExecution
  <2>1. /\ Disconnect("execute") /\ UNCHANGED <<disk, lost>>
        /\ combos' = combos /\ batch' = batch
        /\ xpc' \in {"unmark", "off"} /\ todo' = <<>>
    BY <1>16 DEF EndExecution, generationVars, analysisVars
  <2>2. StepGoes
    BY <1>0, <2>1, DisconnectGoes
  <2>3. ScriptInv'
    BY <2>1, NothingTodo
  <2> QED  BY <1>0, <1>4, <1>5, <2>1, <2>2, <2>3
<1>17. CASE UNCHANGED vars
  <2>1. /\ UNCHANGED dbVars /\ combos' = combos
        /\ batch' = batch /\ xpc' = xpc /\ todo' = todo /\ lost' = lost
    BY <1>17 DEF vars, generationVars, analysisVars, executorVars, dbVars
  <2> QED  BY <1>0, <1>2, <1>3, <1>4, <1>5, <2>1
<1> QED
  BY <1>8, <1>9, <1>10, <1>11, <1>12, <1>13, <1>14, <1>15, <1>16, <1>17 DEF Next

LEMMA ExperimentAlways == Spec => []ExperimentInv
<1> QED  BY ExperimentStart, ExperimentStep, PTL DEF Spec

(* Whatever programs run at the same time, wherever they fail: each step   *)
(* keeps every row of both files, except that a copy may be written back   *)
(* that is older than the file.  The marks of the executor go up from a    *)
(* claim on.                                                               *)
THEOREM OnlyStaleCopiesEverLose == Spec => OnlyStaleCopiesLose
<1>1. ExperimentInv /\ [Next]_vars =>
        [\A f \in Files : f \notin lost' => Keeps(Content(f), Content(f)')]_vars
  BY ExperimentStep DEF StepKeeps
<1> QED  BY <1>1, ExperimentAlways, PTL DEF Spec, OnlyStaleCopiesLose

(* As long as no profile is written over by an older copy, each run that   *)
(* is told to be executed has an event, in the file and in every copy of   *)
(* it: the analysis finds what it asserts.                                 *)
THEOREM ExecutedRunsAlwaysHaveEvents == Spec => []ExecutedRunsHaveEvents
<1>1. ASSUME ExperimentInv PROVE ExecutedRunsHaveEvents
  <2>1. ASSUME "profile" \notin lost,
               NEW tables \in {Profile} \cup {db[p]["profile"].tables : p \in Programs}
        PROVE  ExecutedHaveEvents(tables)
    <3>1. NothingMissed /\ FilesGood /\ "profile" \in Files
      BY <1>1, <2>1, FilesAssumption DEF ExperimentInv
    <3>2. NoneMissed(tables) /\ Good("profile", tables, num_devices)
      <4>1. CASE tables = Profile
        BY <3>1, <4>1 DEF NothingMissed, FilesGood, Profile
      <4>2. ASSUME NEW p \in Programs, tables = db[p]["profile"].tables
            PROVE  NoneMissed(tables) /\ Good("profile", tables, num_devices)
        BY <3>1, <4>2 DEF NothingMissed, FilesGood
      <4> QED  BY <2>1, <4>1, <4>2
    <3> QED  BY <3>2, NoneIsMissed DEF Good
  <2> QED  BY <2>1 DEF ExecutedRunsHaveEvents
<1> QED  BY <1>1, ExperimentAlways, PTL

-----------------------------------------------------------------------------
(* The performance of a run: the highest or the average of its events.     *)
Rising(f, values) ==
  [n \in 0..Len(values) |->
     IF n = 0 THEN 0 ELSE IF values[n] > f[n - 1] THEN values[n] ELSE f[n - 1]]

LEMMA HighestSteps ==
  ASSUME NEW values \in Seq(Nat)
  PROVE  \E c : /\ Highest(values) = c[Len(values)] /\ c[0] = 0
                /\ \A n \in 1..Len(values) :
                     c[n] = IF values[n] > c[n - 1] THEN values[n] ELSE c[n - 1]
<1> DEFINE N == Len(values)
           g == [n \in Nat |-> [v \in Nat |->
                   IF n \in 1..N THEN (IF values[n] > v THEN values[n] ELSE v) ELSE v]]
           c == CHOOSE f : f = Rising(f, values)
<1>1. N \in Nat /\ \A n \in 1..N : values[n] \in Nat
  OBVIOUS
<1>2. g \in [Nat -> [Nat -> Nat]]
  <2> HIDE DEF N
  <2> QED  BY <1>1
<1>3. ASSUME NEW n \in 1..N, NEW v \in Nat
      PROVE  g[n][v] = IF values[n] > v THEN values[n] ELSE v
  OBVIOUS
<1> HIDE DEF g, N, c
<1>4. PICK f : Iterates(f, Nat, 0, g, N)
  BY <1>1, <1>2, Recursion
<1>5. f \in [0..N -> Nat] /\ f[0] = 0 /\ \A n \in 1..N : f[n] = g[n][f[n - 1]]
  BY <1>4 DEF Iterates
<1>6. \A n \in 1..N : f[n] = IF values[n] > f[n - 1] THEN values[n] ELSE f[n - 1]
  <2>1. \A n \in 1..N : f[n - 1] \in Nat
    BY <1>1, <1>5
  <2> QED  BY <1>3, <1>5, <2>1
<1>7. \A n \in 0..N :
        f[n] = IF n = 0 THEN 0 ELSE IF values[n] > f[n - 1] THEN values[n] ELSE f[n - 1]
  BY <1>1, <1>5, <1>6
<1>8. f = [n \in 0..N |->
             IF n = 0 THEN 0 ELSE IF values[n] > f[n - 1] THEN values[n] ELSE f[n - 1]]
  BY <1>5, <1>7
<1>9. f = Rising(f, values)
  BY <1>8 DEF Rising, N
<1>10. c = Rising(c, values)
  BY <1>9 DEF c
<1>11. Highest(values) = c[N]
  BY DEF Highest, Rising, c, N
<1>12. \A n \in 0..N :
         c[n] = IF n = 0 THEN 0 ELSE IF values[n] > c[n - 1] THEN values[n] ELSE c[n - 1]
  BY <1>10 DEF Rising, N
<1>13. c[0] = 0
  BY <1>1, <1>12
<1>14. ASSUME NEW n \in 1..N
       PROVE  c[n] = IF values[n] > c[n - 1] THEN values[n] ELSE c[n - 1]
  <2>1. n \in 0..N /\ n # 0
    BY <1>1
  <2> QED  BY <1>12, <2>1, Zenon
<1> QED  BY <1>11, <1>13, <1>14 DEF N

LEMMA HighestIsHighest ==
  ASSUME NEW values \in Seq(Nat), values # <<>>
  PROVE  /\ \E k \in 1..Len(values) : Highest(values) = values[k]
         /\ \A k \in 1..Len(values) : values[k] <= Highest(values)
<1> DEFINE N == Len(values)
<1>1. N \in Nat \ {0} /\ \A n \in 1..N : values[n] \in Nat
  OBVIOUS
<1>2. PICK c : /\ Highest(values) = c[N] /\ c[0] = 0
               /\ \A n \in 1..N : c[n] = IF values[n] > c[n - 1] THEN values[n] ELSE c[n - 1]
  BY HighestSteps
<1> HIDE DEF N
<1> DEFINE T == {n \in 0..N : /\ c[n] \in Nat /\ \A k \in 1..n : values[k] <= c[n]
                              /\ n = 0 \/ \E k \in 1..n : c[n] = values[k]}
<1>3. 0 \in T
  BY <1>1, <1>2
<1>4. ASSUME NEW n \in 1..N, n - 1 \in T PROVE n \in T
  <2>1. /\ c[n - 1] \in Nat /\ \A k \in 1..(n - 1) : values[k] <= c[n - 1]
        /\ n - 1 = 0 \/ \E k \in 1..(n - 1) : c[n - 1] = values[k]
    BY <1>4
  <2>2. c[n] = IF values[n] > c[n - 1] THEN values[n] ELSE c[n - 1]
    BY <1>2, Zenon
  <2>3. values[n] \in Nat /\ n \in Nat \ {0} /\ n \in 0..N
    BY <1>1
  <2>4. \A k \in 1..n : k = n \/ k \in 1..(n - 1)
    BY <2>3
  <2>5. c[n] \in Nat /\ c[n - 1] <= c[n] /\ values[n] <= c[n]
    BY <2>1, <2>2, <2>3
  <2>6. \A k \in 1..(n - 1) : values[k] \in Nat
    BY <1>1
  <2>7. \A k \in 1..n : values[k] <= c[n]
    BY <2>1, <2>3, <2>4, <2>5, <2>6
  <2>8. \E k \in 1..n : c[n] = values[k]
    <3>1. CASE values[n] > c[n - 1]
      BY <2>2, <2>3, <3>1
    <3>2. CASE ~(values[n] > c[n - 1])
      <4>1. c[n] = c[n - 1]
        BY <2>2, <3>2
      <4>2. CASE n - 1 = 0
        <5>1. c[n - 1] = 0
          BY <1>2, <4>2
        <5>2. values[n] = 0
          BY <2>3, <3>2, <5>1
        <5> QED  BY <2>3, <4>1, <5>1, <5>2
      <4>3. CASE n - 1 # 0
        <5>1. PICK k \in 1..(n - 1) : c[n - 1] = values[k]
          BY <2>1, <4>3
        <5>2. k \in 1..n
          BY <2>3
        <5> QED  BY <4>1, <5>1, <5>2
      <4> QED  BY <4>2, <4>3
    <3> QED  BY <3>1, <3>2
  <2> QED  BY <2>3, <2>5, <2>7, <2>8
<1>5. N \in T
  <2> HIDE DEF T
  <2>1. \A n \in 0..N : n \in T
    BY <1>1, <1>3, <1>4, SetInduction
  <2> QED  BY <1>1, <2>1
<1> QED  BY <1>1, <1>2, <1>5 DEF N

Adding(f, values) ==
  [n \in 0..Len(values) |-> IF n = 0 THEN 0 ELSE f[n - 1] + values[n]]

LEMMA TotalSteps ==
  ASSUME NEW values \in Seq(Nat)
  PROVE  \E c : /\ Total(values) = c[Len(values)] /\ c[0] = 0
                /\ \A n \in 1..Len(values) : c[n] = c[n - 1] + values[n]
<1> DEFINE N == Len(values)
           g == [n \in Nat |-> [v \in Nat |-> IF n \in 1..N THEN v + values[n] ELSE v]]
           c == CHOOSE f : f = Adding(f, values)
<1>1. N \in Nat /\ \A n \in 1..N : values[n] \in Nat
  OBVIOUS
<1>2. g \in [Nat -> [Nat -> Nat]]
  <2> HIDE DEF N
  <2> QED  BY <1>1
<1>3. ASSUME NEW n \in 1..N, NEW v \in Nat PROVE g[n][v] = v + values[n]
  OBVIOUS
<1> HIDE DEF g, N, c
<1>4. PICK f : Iterates(f, Nat, 0, g, N)
  BY <1>1, <1>2, Recursion
<1>5. f \in [0..N -> Nat] /\ f[0] = 0 /\ \A n \in 1..N : f[n] = g[n][f[n - 1]]
  BY <1>4 DEF Iterates
<1>6. \A n \in 1..N : f[n] = f[n - 1] + values[n]
  <2>1. \A n \in 1..N : f[n - 1] \in Nat
    BY <1>1, <1>5
  <2> QED  BY <1>3, <1>5, <2>1
<1>7. \A n \in 0..N : f[n] = IF n = 0 THEN 0 ELSE f[n - 1] + values[n]
  BY <1>1, <1>5, <1>6
<1>8. f = [n \in 0..N |-> IF n = 0 THEN 0 ELSE f[n - 1] + values[n]]
  BY <1>5, <1>7
<1>9. f = Adding(f, values)
  BY <1>8 DEF Adding, N
<1>10. c = Adding(c, values)
  BY <1>9 DEF c
<1>11. Total(values) = c[N]
  BY DEF Total, Adding, c, N
<1>12. \A n \in 0..N : c[n] = IF n = 0 THEN 0 ELSE c[n - 1] + values[n]
  BY <1>10 DEF Adding, N
<1>13. c[0] = 0
  BY <1>1, <1>12
<1>14. ASSUME NEW n \in 1..N PROVE c[n] = c[n - 1] + values[n]
  <2>1. n \in 0..N /\ n # 0
    BY <1>1
  <2> QED  BY <1>12, <2>1, Zenon
<1> QED  BY <1>11, <1>13, <1>14 DEF N

(* Sums of numbers that have a bound, and their quotients.                 *)
LEMMA LowerSum ==
  ASSUME NEW n \in Nat \ {0}, NEW low \in Nat, NEW new \in Nat, NEW value \in Nat, NEW sum \in Nat,
         (n - 1) * low <= sum, new <= low, new <= value
  PROVE  n * new <= sum + value
<1>1. (n - 1) * new <= (n - 1) * low
  OBVIOUS
<1>2. n * new = (n - 1) * new + new
  OBVIOUS
<1> QED  BY <1>1, <1>2

LEMMA UpperSum ==
  ASSUME NEW n \in Nat \ {0}, NEW high \in Nat, NEW new \in Nat, NEW value \in Nat, NEW sum \in Nat,
         sum <= (n - 1) * high, high <= new, value <= new
  PROVE  sum + value <= n * new
<1>1. (n - 1) * high <= (n - 1) * new
  OBVIOUS
<1>2. n * new = (n - 1) * new + new
  OBVIOUS
<1> QED  BY <1>1, <1>2

LEMMA AverageBounds ==
  ASSUME NEW n \in Nat \ {0}, NEW low \in Nat, NEW high \in Nat, NEW sum \in Nat,
         n * low <= sum, sum <= n * high
  PROVE  sum \div n \in Nat /\ low <= sum \div n /\ sum \div n <= high
<1> DEFINE q == sum \div n
<1>1. q \in Int /\ n * q <= sum /\ sum < n * (q + 1)
  OBVIOUS
<1> HIDE DEF q
<1>2. low <= q
  <2>1. SUFFICES ASSUME q + 1 <= low PROVE FALSE
    BY <1>1
  <2>2. n * (q + 1) <= n * low
    BY <1>1, <2>1
  <2> QED  BY <1>1, <2>2
<1>3. q <= high
  <2>1. SUFFICES ASSUME high + 1 <= q PROVE FALSE
    BY <1>1
  <2>2. n * (high + 1) <= n * q
    BY <1>1, <2>1
  <2>3. n * (high + 1) = n * high + n
    OBVIOUS
  <2> QED  BY <1>1, <2>2, <2>3
<1> QED  BY <1>1, <1>2, <1>3 DEF q

LEMMA TotalIsBetween ==
  ASSUME NEW values \in Seq(Nat), values # <<>>
  PROVE  /\ Total(values) \in Nat
         /\ \E l, h \in 1..Len(values) : /\ Len(values) * values[l] <= Total(values)
                                         /\ Total(values) <= Len(values) * values[h]
<1> DEFINE N == Len(values)
<1>1. N \in Nat \ {0} /\ \A n \in 1..N : values[n] \in Nat
  OBVIOUS
<1>2. PICK c : /\ Total(values) = c[N] /\ c[0] = 0
               /\ \A n \in 1..N : c[n] = c[n - 1] + values[n]
  BY TotalSteps
<1> HIDE DEF N
<1> DEFINE T == {n \in 0..N : /\ c[n] \in Nat
                              /\ n = 0 \/ \E l, h \in 1..n : /\ n * values[l] <= c[n]
                                                             /\ c[n] <= n * values[h]}
<1>3. 0 \in T
  BY <1>1, <1>2
<1>4. ASSUME NEW n \in 1..N, n - 1 \in T PROVE n \in T
  <2>1. /\ c[n - 1] \in Nat
        /\ n - 1 = 0 \/ \E l, h \in 1..(n - 1) : /\ (n - 1) * values[l] <= c[n - 1]
                                                 /\ c[n - 1] <= (n - 1) * values[h]
    BY <1>4
  <2>2. c[n] = c[n - 1] + values[n]
    BY <1>2, Zenon
  <2>3. values[n] \in Nat /\ n \in Nat \ {0} /\ n \in 0..N /\ n \in 1..n
    BY <1>1
  <2>4. CASE n - 1 = 0
    <3>1. n = 1 /\ c[n] = values[n]
      BY <1>2, <2>2, <2>3, <2>4
    <3>2. n * values[n] = values[n]
      BY <2>3, <3>1
    <3> QED  BY <2>3, <3>1, <3>2
  <2>5. CASE n - 1 # 0
    <3>1. PICK l \in 1..(n - 1), h \in 1..(n - 1) :
            (n - 1) * values[l] <= c[n - 1] /\ c[n - 1] <= (n - 1) * values[h]
      BY <2>1, <2>5
    <3>2. l \in 1..n /\ h \in 1..n /\ values[l] \in Nat /\ values[h] \in Nat
      BY <1>1, <2>3
    <3>3. PICK l2 \in 1..n : values[l2] \in Nat /\ values[l2] <= values[l] /\ values[l2] <= values[n]
      <4>1. CASE values[n] <= values[l]
        BY <2>3, <4>1
      <4>2. CASE ~(values[n] <= values[l])
        BY <2>3, <3>2, <4>2
      <4> QED  BY <4>1, <4>2
    <3>4. PICK h2 \in 1..n : values[h2] \in Nat /\ values[h] <= values[h2] /\ values[n] <= values[h2]
      <4>1. CASE values[h] <= values[n]
        BY <2>3, <4>1
      <4>2. CASE ~(values[h] <= values[n])
        BY <2>3, <3>2, <4>2
      <4> QED  BY <4>1, <4>2
    <3>5. n * values[l2] <= c[n - 1] + values[n]
      BY <2>1, <2>3, <3>1, <3>2, <3>3, LowerSum
    <3>6. c[n - 1] + values[n] <= n * values[h2]
      BY <2>1, <2>3, <3>1, <3>2, <3>4, UpperSum
    <3>7. c[n] \in Nat
      BY <2>1, <2>2, <2>3
    <3> QED  BY <2>2, <2>3, <3>5, <3>6, <3>7
  <2> QED  BY <2>4, <2>5
<1>5. N \in T
  <2> HIDE DEF T
  <2>1. \A n \in 0..N : n \in T
    BY <1>1, <1>3, <1>4, SetInduction
  <2> QED  BY <1>1, <2>1
<1> QED  BY <1>1, <1>2, <1>5 DEF N

-----------------------------------------------------------------------------
(* What a run does per unit of time is less than what is taken for         *)
(* impossible; its parameters and the time of an event say how much.       *)
NumParams(t) == IF t = "109" THEN 3 ELSE 1

Work(params, t) ==
  IF t = "109" THEN 2 * params[1] * params[2] * params[3] ELSE params[1]

Measurable(params, t) ==
  params \in Seq(Nat) /\ Len(params) = NumParams(t) /\ Work(params, t) < TooFast

IsGflops(g) == g \in Nat /\ g < TooFast

Value(params, duration) ==
  IF test = "109" THEN eval_matmul_performance(params, duration)
  ELSE eval_vectadd_performance(params, duration)

LEMMA QuotientIsLess ==
  ASSUME NEW work \in Nat, NEW duration \in Nat \ {0}
  PROVE  work \div duration \in Nat /\ work \div duration <= work
OBVIOUS

LEMMA WorkIsNatural ==
  ASSUME NEW params, Measurable(params, test)
  PROVE  Work(params, test) \in Nat /\ Work(params, test) < TooFast
<1>1. CASE test = "109"
  <2>1. params[1] \in Nat /\ params[2] \in Nat /\ params[3] \in Nat
    <3>1. Len(params) = 3
      BY <1>1, Zenon DEF Measurable, NumParams
    <3>2. \A i \in 1..Len(params) : params[i] \in Nat
      <4>1. params \in Seq(Nat)
        BY DEF Measurable
      <4> QED  BY <4>1
    <3>3. 1 \in 1..3 /\ 2 \in 1..3 /\ 3 \in 1..3
      OBVIOUS
    <3> QED  BY <3>1, <3>2, <3>3
  <2>2. \A x, y \in Nat : x * y \in Nat
    OBVIOUS
  <2>3. 2 * params[1] * params[2] \in Nat
    <3>1. 2 * params[1] \in Nat
      BY <2>1
    <3> QED  BY <2>1, <2>2, <3>1, Zenon
  <2>4. 2 * params[1] * params[2] * params[3] \in Nat
    BY <2>1, <2>2, <2>3, Zenon
  <2>5. Work(params, test) = 2 * params[1] * params[2] * params[3]
    BY <1>1 DEF Work
  <2> QED  BY <2>4, <2>5 DEF Measurable
<1>2. CASE test # "109"
  BY <1>2 DEF Measurable, NumParams, Work
<1> QED  BY <1>1, <1>2

LEMMA ValueIsBounded ==
  ASSUME NEW params, Measurable(params, test), NEW duration \in Nat \ {0}
  PROVE  IsGflops(Value(params, duration))
<1>1. Value(params, duration) = Work(params, test) \div duration
  BY DEF Value, Work, eval_matmul_performance, eval_vectadd_performance
<1>2. Work(params, test) \in Nat /\ Work(params, test) < TooFast /\ TooFast \in Nat
  BY WorkIsNatural, TooFastAssumption
<1>3. Work(params, test) \div duration \in Nat /\ Work(params, test) \div duration <= Work(params, test)
  BY <1>2, QuotientIsLess
<1> QED  BY <1>1, <1>2, <1>3 DEF IsGflops

LEMMA GflopsAreBetween ==
  ASSUME NEW params, Measurable(params, test), NEW durations \in Seq(Nat \ {0}), durations # <<>>
  PROVE  /\ IsGflops(Gflops(params, durations))
         /\ \E low, high \in DOMAIN durations :
              /\ Value(params, durations[low]) <= Gflops(params, durations)
              /\ Gflops(params, durations) <= Value(params, durations[high])
         /\ test # "109" => \A i \in DOMAIN durations :
              Value(params, durations[i]) <= Gflops(params, durations)
<1> DEFINE value(i) == Value(params, durations[i])
           values == [i \in DOMAIN durations |-> value(i)]
<1>1. /\ Len(durations) \in Nat \ {0} /\ DOMAIN durations = 1..Len(durations)
      /\ \A i \in 1..Len(durations) : durations[i] \in Nat \ {0}
  OBVIOUS
<1>2. \A i \in 1..Len(durations) : IsGflops(value(i))
  BY <1>1, ValueIsBounded
<1>3. Gflops(params, durations) = IF test = "109" THEN Total(values) \div Len(durations)
                                  ELSE Highest(values)
  <2>1. Len(params) = 1 <=> test # "109"
    BY DEF Measurable, NumParams
  <2>2. CASE test = "109"
    <3>1. values = [i \in DOMAIN durations |-> eval_matmul_performance(params, durations[i])]
      BY <2>2 DEF Value
    <3> QED  BY <2>1, <2>2, <3>1, Zenon DEF Gflops
  <2>3. CASE test # "109"
    <3>1. values = [i \in DOMAIN durations |-> eval_vectadd_performance(params, durations[i])]
      BY <2>3 DEF Value
    <3> QED  BY <2>1, <2>3, <3>1, Zenon DEF Gflops
  <2> QED  BY <2>2, <2>3
<1> HIDE DEF value
<1>4. \A i \in 1..Len(durations) : value(i) \in Nat /\ value(i) < TooFast
  BY <1>2 DEF IsGflops
<1>5. /\ values \in Seq(Nat) /\ values # <<>> /\ Len(values) = Len(durations)
      /\ \A i \in 1..Len(durations) : values[i] = value(i)
  BY <1>1, <1>4
<1> HIDE DEF values
<1>6. CASE test = "109"
  <2>1. PICK low, high \in 1..Len(values) : /\ Len(values) * values[low] <= Total(values)
                                            /\ Total(values) <= Len(values) * values[high]
    BY <1>5, TotalIsBetween
  <2>2. Total(values) \in Nat
    BY <1>5, TotalIsBetween
  <2>3. values[low] \in Nat /\ values[high] \in Nat /\ values[high] < TooFast
    BY <1>4, <1>5
  <2>4. /\ Total(values) \div Len(values) \in Nat
        /\ values[low] <= Total(values) \div Len(values)
        /\ Total(values) \div Len(values) <= values[high]
    BY <1>1, <1>5, <2>1, <2>2, <2>3, AverageBounds
  <2>5. Gflops(params, durations) = Total(values) \div Len(values)
    BY <1>3, <1>5, <1>6
  <2>6. IsGflops(Gflops(params, durations))
    BY <2>3, <2>4, <2>5, TooFastAssumption DEF IsGflops
  <2> QED  BY <1>1, <1>5, <1>6, <2>4, <2>5, <2>6 DEF value
<1>7. CASE test # "109"
  <2>1. PICK k \in 1..Len(values) : Highest(values) = values[k]
    BY <1>5, HighestIsHighest
  <2>2. \A i \in 1..Len(values) : values[i] <= Highest(values)
    BY <1>5, HighestIsHighest
  <2>3. Gflops(params, durations) = Highest(values)
    BY <1>3, <1>7
  <2>4. values[k] = value(k) /\ value(k) \in Nat /\ k \in DOMAIN durations
    BY <1>1, <1>4, <1>5
  <2>5. value(k) <= Gflops(params, durations) /\ Gflops(params, durations) <= value(k)
    BY <2>1, <2>3, <2>4
  <2>6. IsGflops(Gflops(params, durations))
    BY <1>2, <1>5, <2>1, <2>3, <2>4
  <2>7. \A i \in DOMAIN durations : value(i) <= Gflops(params, durations)
    BY <1>1, <1>5, <2>2, <2>3
  <2> QED  BY <2>4, <2>5, <2>6, <2>7 DEF value
<1> QED  BY <1>6, <1>7

(* An event takes time; a run of one device can be measured.               *)
EventsTakeTime(tables) ==
  \A i \in DOMAIN Rows(tables, "Events") : Rows(tables, "Events")[i].duration \in Nat \ {0}

IsRunAt(run, t) ==
  IsSequence(run.devices) /\ Len(run.devices) = 1 /\ Measurable(run.params, t)

LEMMA EventsFacts ==
  ASSUME NEW tables, IsTables(tables), "Events" \in DOMAIN tables, EventsTakeTime(tables), NEW run_id
  PROVE  /\ IsSequence(EventsOf(tables, run_id))
         /\ \A i \in DOMAIN EventsOf(tables, run_id) :
              EventsOf(tables, run_id)[i].duration \in Nat \ {0}
<1> DEFINE table == tables["Events"]
<1>1. Rows(tables, "Events") = table /\ IsSequence(table)
  BY TablesFacts DEF Rows
<1>2. \E wanted : EventsOf(tables, run_id) = Selected(table, wanted)
  BY Zenon DEF EventsOf, acc_sqlite_read_table
<1>3. PICK events : events = EventsOf(tables, run_id)
  OBVIOUS
<1>4. IsSequence(events) /\ Range(events) \subseteq Range(table)
  BY <1>1, <1>2, <1>3, SelectedFacts
<1> HIDE DEF table
<1>5. \A event \in Range(table) : event.duration \in Nat \ {0}
  BY <1>1 DEF EventsTakeTime, Range
<1>6. \A i \in DOMAIN events : events[i] \in Range(events)
  BY DEF Range
<1> QED  BY <1>3, <1>4, <1>5, <1>6

LEMMA PerformanceIsOfRun ==
  ASSUME NEW tables, IsTables(tables), "Events" \in DOMAIN tables, EventsTakeTime(tables),
         NEW run, IsRunAt(run, test), EventsOf(tables, RunField(run, 0)) # <<>>
  PROVE  /\ IsPerformanceOf(PerformanceOf(tables, run), run, EventsOf(tables, run.rowid))
         /\ IsGflops(PerformanceOf(tables, run).gflops)
<1>1. /\ RunField(run, 0) = run.rowid /\ RunField(run, 1) = run.devices[1].version
      /\ RunField(run, 3) = run.devices[1].gang /\ RunField(run, 4) = run.devices[1].worker
      /\ ParamsOf(run) = run.params
  <2>1. IsSequence(run.params) /\ IsSequence(run.devices) /\ Len(run.devices) = 1
    BY SequenceOf DEF IsRunAt, Measurable
  <2>2. \A j \in 1..Len(run.params) : RunField(run, 5 + j) = run.params[j]
    BY <2>1, FieldsAreRead
  <2>3. DOMAIN run.params = 1..Len(run.params) /\ run.params = [j \in DOMAIN run.params |-> run.params[j]]
    BY <2>1, SequenceFacts
  <2>4. ParamsOf(run) = run.params
    BY <2>2, <2>3 DEF ParamsOf
  <2> QED  BY <2>1, <2>4, FieldsAreRead
<1>2. PICK events : events = EventsOf(tables, run.rowid)
  OBVIOUS
<1>3. /\ IsSequence(events) /\ events # <<>>
      /\ \A i \in DOMAIN events : events[i].duration \in Nat \ {0}
  BY <1>1, <1>2, EventsFacts
<1> DEFINE duration(i) == events[i].duration
           durations == [i \in DOMAIN events |-> duration(i)]
           gflops == Gflops(run.params, durations)
           row == PerformanceOf(tables, run)
<1>4. /\ row.run_id = run.rowid
      /\ row.version_id = run.devices[1].version
      /\ row.gang = run.devices[1].gang
      /\ row.worker = run.devices[1].worker
      /\ row.params = run.params
      /\ row.gflops = gflops
  BY <1>1, <1>2 DEF PerformanceOf
<1>5. /\ Len(events) \in Nat /\ DOMAIN events = 1..Len(events) /\ Len(events) # 0
  BY <1>3, SequenceFacts DEF IsSequence
<1>6. \A i \in DOMAIN events : duration(i) \in Nat \ {0}
  BY <1>3
<1> HIDE DEF duration
<1>7. /\ durations \in Seq(Nat \ {0}) /\ durations # <<>>
      /\ DOMAIN durations = DOMAIN events
      /\ \A i \in DOMAIN events : durations[i] = duration(i)
  BY <1>5, <1>6
<1> HIDE DEF durations
<1>8. /\ IsGflops(gflops)
      /\ \E low, high \in DOMAIN durations :
              /\ Value(run.params, durations[low]) <= gflops
              /\ gflops <= Value(run.params, durations[high])
      /\ test # "109" => \A i \in DOMAIN durations :
              Value(run.params, durations[i]) <= gflops
  BY <1>7, GflopsAreBetween DEF IsRunAt
<1> HIDE DEF gflops, row
<1> DEFINE values == {Value(run.params, e.duration) : e \in Range(events)}
<1>9. values = {IF test = "109" THEN eval_matmul_performance(run.params, e.duration)
                ELSE eval_vectadd_performance(run.params, e.duration) : e \in Range(events)}
  BY DEF Value
<1>10. \A i \in DOMAIN events : Value(run.params, duration(i)) \in values
  BY DEF duration, Range
<1>11. \A value \in values : \E i \in DOMAIN events : value = Value(run.params, duration(i))
  BY DEF duration, Range
<1> HIDE DEF values
<1>12. \E low, high \in values : low <= gflops /\ gflops <= high
  BY <1>7, <1>8, <1>10
<1>13. test # "109" => \A value \in values : value <= gflops
  BY <1>7, <1>8, <1>11
<1>14. ASSUME test # "109" \/ Len(events) = 1 PROVE gflops \in values
  <2>1. PICK low, high \in values : low <= gflops /\ gflops <= high
    BY <1>12
  <2>2. low \in Nat /\ high \in Nat /\ gflops \in Nat
    <3>1. \A i \in DOMAIN events : IsGflops(Value(run.params, duration(i)))
      BY <1>6, ValueIsBounded DEF IsRunAt
    <3> QED  BY <1>8, <1>11, <3>1 DEF IsGflops
  <2>3. CASE test # "109"
    <3>1. high <= gflops
      BY <1>13, <2>3
    <3> QED  BY <2>1, <2>2, <3>1
  <2>4. CASE Len(events) = 1
    <3>1. \A i \in DOMAIN events : i = 1
      BY <1>5, <2>4
    <3>2. low = Value(run.params, duration(1)) /\ high = Value(run.params, duration(1))
      BY <1>11, <3>1
    <3> QED  BY <2>1, <2>2, <3>2
  <2> QED  BY <1>14, <2>3, <2>4
<1>15. IsPerformanceOf(row, run, events)
  BY <1>4, <1>9, <1>13, <1>14 DEF IsPerformanceOf
<1> QED  BY <1>2, <1>4, <1>8, <1>15 DEF row

-----------------------------------------------------------------------------
(* A summary grows with every row.                                         *)
PerfSet(R) ==
  [min_run_id : R, min_version_id : R, min_gflops : Nat,
   max_run_id : R, max_version_id : R, max_gflops : Nat, cnt : Nat]

LEMMA PerfSteps ==
  ASSUME NEW R, NEW perf \in PerfSet(R), NEW row,
         row.run_id \in R, row.version_id \in R, row.gflops \in Nat
  PROVE  LET new == perf_callback(perf, row)
             lower == row.gflops < perf.min_gflops
             higher == row.gflops > perf.max_gflops
         IN /\ new \in PerfSet(R)
            /\ new.cnt = perf.cnt + 1
            /\ IF lower THEN /\ new.min_run_id = row.run_id
                             /\ new.min_version_id = row.version_id
                             /\ new.min_gflops = row.gflops
               ELSE /\ new.min_run_id = perf.min_run_id
                    /\ new.min_version_id = perf.min_version_id
                    /\ new.min_gflops = perf.min_gflops
            /\ IF higher THEN /\ new.max_run_id = row.run_id
                              /\ new.max_version_id = row.version_id
                              /\ new.max_gflops = row.gflops
               ELSE /\ new.max_run_id = perf.max_run_id
                    /\ new.max_version_id = perf.max_version_id
                    /\ new.max_gflops = perf.max_gflops
<1> DEFINE lower == row.gflops < perf.min_gflops
           higher == row.gflops > perf.max_gflops
           new == perf_callback(perf, row)
<1>1. new = [min_run_id |-> IF lower THEN row.run_id ELSE perf.min_run_id,
             min_version_id |-> IF lower THEN row.version_id ELSE perf.min_version_id,
             min_gflops |-> IF lower THEN row.gflops ELSE perf.min_gflops,
             max_run_id |-> IF higher THEN row.run_id ELSE perf.max_run_id,
             max_version_id |-> IF higher THEN row.version_id ELSE perf.max_version_id,
             max_gflops |-> IF higher THEN row.gflops ELSE perf.max_gflops,
             cnt |-> perf.cnt + 1]
  <2>1. CASE lower /\ higher
    BY <2>1 DEF perf_callback, PerfSet
  <2>2. CASE lower /\ ~higher
    BY <2>2 DEF perf_callback, PerfSet
  <2>3. CASE ~lower /\ higher
    BY <2>3 DEF perf_callback, PerfSet
  <2>4. CASE ~lower /\ ~higher
    BY <2>4 DEF perf_callback, PerfSet
  <2> QED  BY <2>1, <2>2, <2>3, <2>4
<1> HIDE DEF new
<1>2. new \in PerfSet(R)
  BY <1>1 DEF PerfSet
<1> QED  BY <1>1, <1>2 DEF new

Summing(c, rows) ==
  [n \in 0..Len(rows) |-> IF n = 0 THEN NoPerf ELSE perf_callback(c[n - 1], rows[n])]

IdsOf(rows) ==
  {-1} \cup {rows[n].run_id : n \in DOMAIN rows} \cup {rows[n].version_id : n \in DOMAIN rows}

LEMMA PerfExists ==
  ASSUME NEW tables, NEW conds, NEW rows,
         rows = acc_sqlite_read_table(tables, "Performances", conds), IsSequence(rows),
         \A n \in DOMAIN rows : IsGflops(rows[n].gflops)
  PROVE  \E c : /\ Perf(tables, conds) = c[Len(rows)] /\ c[0] = NoPerf
                /\ NoPerf \in PerfSet(IdsOf(rows))
                /\ \A n \in 1..Len(rows) : c[n] = perf_callback(c[n - 1], rows[n])
<1> DEFINE N == Len(rows)
           V == PerfSet(IdsOf(rows))
           g == [n \in Nat |-> [v \in V |->
                   IF n \in 1..N THEN perf_callback(v, rows[n]) ELSE v]]
           c == CHOOSE f : f = Summing(f, rows)
<1>1. N \in Nat /\ DOMAIN rows = 1..N
  BY SequenceFacts
<1>2. NoPerf \in V
  BY TooFastAssumption DEF NoPerf, PerfSet, IdsOf
<1>3. ASSUME NEW n \in 1..N, NEW v \in V PROVE perf_callback(v, rows[n]) \in V
  <2>1. /\ rows[n].run_id \in IdsOf(rows) /\ rows[n].version_id \in IdsOf(rows)
        /\ rows[n].gflops \in Nat
    BY <1>1 DEF IdsOf, IsGflops
  <2> QED  BY <2>1, PerfSteps
<1>4. g \in [Nat -> [V -> V]]
  <2> HIDE DEF N, V
  <2> QED  BY <1>3
<1>5. ASSUME NEW n \in 1..N, NEW v \in V PROVE g[n][v] = perf_callback(v, rows[n])
  BY <1>1
<1> HIDE DEF g, N, c, V
<1>6. PICK f : Iterates(f, V, NoPerf, g, N)
  BY <1>1, <1>2, <1>4, Recursion
<1>7. f \in [0..N -> V] /\ f[0] = NoPerf /\ \A n \in 1..N : f[n] = g[n][f[n - 1]]
  BY <1>6 DEF Iterates
<1>8. \A n \in 1..N : f[n] = perf_callback(f[n - 1], rows[n])
  <2>1. \A n \in 1..N : f[n - 1] \in V
    BY <1>1, <1>7
  <2> QED  BY <1>5, <1>7, <2>1
<1>9. \A n \in 0..N : f[n] = IF n = 0 THEN NoPerf ELSE perf_callback(f[n - 1], rows[n])
  BY <1>1, <1>7, <1>8
<1>10. f = [n \in 0..N |-> IF n = 0 THEN NoPerf ELSE perf_callback(f[n - 1], rows[n])]
  BY <1>7, <1>9
<1>11. f = Summing(f, rows)
  BY <1>10 DEF Summing, N
<1>12. c = Summing(c, rows)
  BY <1>11 DEF c
<1>13. Perf(tables, conds) = c[N]
  BY DEF Perf, Summing, c, N
<1>14. \A n \in 0..N : c[n] = IF n = 0 THEN NoPerf ELSE perf_callback(c[n - 1], rows[n])
  BY <1>12 DEF Summing, N
<1>15. c[0] = NoPerf
  BY <1>1, <1>14
<1>16. ASSUME NEW n \in 1..N PROVE c[n] = perf_callback(c[n - 1], rows[n])
  <2>1. n \in 0..N /\ n # 0
    BY <1>1
  <2> QED  BY <1>14, <2>1, Zenon
<1> QED  BY <1>2, <1>13, <1>15, <1>16 DEF N, V

(* The n rows before a summary; its lowest and its highest is one of them. *)
Lowest(perf, rows, n) ==
  \E k \in 1..n : /\ perf.min_run_id = rows[k].run_id
                  /\ perf.min_version_id = rows[k].version_id
                  /\ perf.min_gflops = rows[k].gflops

HighestOf(perf, rows, n) ==
  \/ \E k \in 1..n : /\ perf.max_run_id = rows[k].run_id
                     /\ perf.max_version_id = rows[k].version_id
                     /\ perf.max_gflops = rows[k].gflops
  \/ perf.max_run_id = -1 /\ perf.max_gflops = 0

SummaryOf(perf, rows, n) ==
  /\ perf \in PerfSet(IdsOf(rows)) /\ perf.cnt = n
  /\ IF n = 0 THEN perf.min_gflops = TooFast ELSE Lowest(perf, rows, n)
  /\ HighestOf(perf, rows, n)

LEMMA SummaryStart ==
  ASSUME NEW rows, NoPerf \in PerfSet(IdsOf(rows))
  PROVE  SummaryOf(NoPerf, rows, 0)
<1>1. /\ NoPerf.cnt = 0 /\ NoPerf.min_gflops = TooFast /\ NoPerf.max_run_id = -1
      /\ NoPerf.max_gflops = 0
  BY DEF NoPerf
<1> QED  BY <1>1 DEF SummaryOf, HighestOf

LEMMA SummaryStep ==
  ASSUME NEW rows, NEW n \in Nat \ {0}, n \in DOMAIN rows, IsGflops(rows[n].gflops),
         NEW perf, SummaryOf(perf, rows, n - 1)
  PROVE  SummaryOf(perf_callback(perf, rows[n]), rows, n)
<1> DEFINE new == perf_callback(perf, rows[n])
           g == rows[n].gflops
<1>1. /\ perf \in PerfSet(IdsOf(rows)) /\ perf.cnt = n - 1
      /\ IF n - 1 = 0 THEN perf.min_gflops = TooFast ELSE Lowest(perf, rows, n - 1)
      /\ HighestOf(perf, rows, n - 1)
  BY DEF SummaryOf
<1>2. g \in Nat /\ g < TooFast
  BY DEF IsGflops
<1>3. rows[n].run_id \in IdsOf(rows) /\ rows[n].version_id \in IdsOf(rows)
  BY DEF IdsOf
<1>4. /\ new \in PerfSet(IdsOf(rows))
      /\ new.cnt = perf.cnt + 1
      /\ IF g < perf.min_gflops THEN /\ new.min_run_id = rows[n].run_id
                                     /\ new.min_version_id = rows[n].version_id
                                     /\ new.min_gflops = g
         ELSE /\ new.min_run_id = perf.min_run_id
              /\ new.min_version_id = perf.min_version_id
              /\ new.min_gflops = perf.min_gflops
      /\ IF g > perf.max_gflops THEN /\ new.max_run_id = rows[n].run_id
                                     /\ new.max_version_id = rows[n].version_id
                                     /\ new.max_gflops = g
         ELSE /\ new.max_run_id = perf.max_run_id
              /\ new.max_version_id = perf.max_version_id
              /\ new.max_gflops = perf.max_gflops
  BY <1>1, <1>2, <1>3, PerfSteps
<1>5. perf.min_gflops \in Nat /\ perf.max_gflops \in Nat /\ perf.cnt \in Nat
  BY <1>1 DEF PerfSet
<1> HIDE DEF new
<1>7. n \in 1..n /\ \A k \in 1..(n - 1) : k \in 1..n
  OBVIOUS
<1>8. Lowest(new, rows, n)
  <2>1. CASE g < perf.min_gflops
    BY <1>4, <1>7, <2>1 DEF Lowest
  <2>2. CASE ~(g < perf.min_gflops)
    <3>1. n - 1 # 0
      BY <1>1, <1>2, <2>2
    <3> QED  BY <1>1, <1>4, <1>7, <2>2, <3>1 DEF Lowest
  <2> QED  BY <2>1, <2>2
<1>9. HighestOf(new, rows, n)
  <2>1. CASE g > perf.max_gflops
    BY <1>4, <1>7, <2>1 DEF HighestOf
  <2>2. CASE ~(g > perf.max_gflops)
    BY <1>1, <1>4, <1>7, <2>2 DEF HighestOf
  <2> QED  BY <2>1, <2>2
<1>10. new.cnt = n
  BY <1>1, <1>4, <1>5
<1>11. SummaryOf(new, rows, n)
  BY <1>4, <1>8, <1>9, <1>10 DEF SummaryOf
<1> QED  BY <1>11 DEF new

LEMMA PerfIsSummary ==
  ASSUME NEW tables, NEW conds, NEW rows,
         rows = acc_sqlite_read_table(tables, "Performances", conds), IsSequence(rows),
         \A n \in DOMAIN rows : IsGflops(rows[n].gflops)
  PROVE  SummaryOf(Perf(tables, conds), rows, Len(rows))
<1> DEFINE N == Len(rows)
<1>1. N \in Nat /\ DOMAIN rows = 1..N
  BY SequenceFacts
<1>2. PICK c : /\ Perf(tables, conds) = c[N] /\ c[0] = NoPerf
               /\ NoPerf \in PerfSet(IdsOf(rows))
               /\ \A n \in 1..N : c[n] = perf_callback(c[n - 1], rows[n])
  BY PerfExists
<1> HIDE DEF N
<1> DEFINE T == {n \in 0..N : SummaryOf(c[n], rows, n)}
<1>3. 0 \in T
  BY <1>1, <1>2, SummaryStart
<1>4. ASSUME NEW n \in 1..N, n - 1 \in T PROVE n \in T
  <2>1. SummaryOf(c[n - 1], rows, n - 1)
    BY <1>4
  <2>2. n \in Nat \ {0} /\ n \in DOMAIN rows /\ n \in 0..N /\ IsGflops(rows[n].gflops)
    BY <1>1
  <2>3. SummaryOf(perf_callback(c[n - 1], rows[n]), rows, n)
    BY <2>1, <2>2, SummaryStep
  <2>4. c[n] = perf_callback(c[n - 1], rows[n])
    BY <1>2, Zenon
  <2> QED  BY <2>2, <2>3, <2>4
<1>5. N \in T
  <2> HIDE DEF T
  <2>1. \A n \in 0..N : n \in T
    BY <1>1, <1>3, <1>4, SetInduction
  <2> QED  BY <1>1, <2>1
<1> QED  BY <1>2, <1>5 DEF N

-----------------------------------------------------------------------------
(* What can be in the table of performances.                               *)
PerformancesBounded(tables) ==
  \A i \in DOMAIN Rows(tables, "Performances") :
    IsGflops(Rows(tables, "Performances")[i].gflops)

(* What a summary tells of the rows it names.                              *)
Named(rows, run_id, version_id, gflops) ==
  \E row \in rows : row.run_id = run_id /\ row.version_id = version_id /\ row.gflops = gflops

NamedBest(rows, run_id, version_id, gflops) ==
  Named(rows, run_id, version_id, gflops) \/ (run_id = -1 /\ gflops = 0)

VersionRefers(rows, s) ==
  /\ Named(rows, s.min_run_id, s.version_id, s.min_gflops)
  /\ NamedBest(rows, s.max_run_id, s.version_id, s.max_gflops)

ParamRefers(rows, s) ==
  /\ Named(rows, s.min_run_id, s.min_version_id, s.min_gflops)
  /\ NamedBest(rows, s.max_run_id, s.max_version_id, s.max_gflops)

LEMMA RefersIs ==
  ASSUME NEW tables
  PROVE  ReferToPerformances(tables) <=>
           /\ \A s \in Range(Rows(tables, "VersionPerf")) :
                VersionRefers(Range(Rows(tables, "Performances")), s)
           /\ \A s \in Range(Rows(tables, "ParamPerf")) :
                ParamRefers(Range(Rows(tables, "Performances")), s)
BY DEF ReferToPerformances, VersionRefers, ParamRefers, Named, NamedBest

Meets(row, conds) == \A field \in DOMAIN conds : row[field] = conds[field]

LEMMA PerfRefers ==
  ASSUME NEW tables, IsTables(tables), "Performances" \in DOMAIN tables,
         PerformancesBounded(tables), NEW conds, Perf(tables, conds).cnt # 0
  PROVE  LET perf == Perf(tables, conds)
             met == {row \in Range(Rows(tables, "Performances")) : Meets(row, conds)}
         IN /\ Named(met, perf.min_run_id, perf.min_version_id, perf.min_gflops)
            /\ NamedBest(met, perf.max_run_id, perf.max_version_id, perf.max_gflops)
<1> DEFINE table == tables["Performances"]
           met == {row \in Range(table) : Meets(row, conds)}
           wanted == {row \in Range(table) :
                        \A field \in DOMAIN conds : row[field] = conds[field]}
<1>1. Rows(tables, "Performances") = table /\ IsSequence(table)
  BY TablesFacts DEF Rows
<1>2. PICK rows : rows = acc_sqlite_read_table(tables, "Performances", conds)
  OBVIOUS
<1>3. rows = Selected(table, wanted)
  BY <1>2 DEF acc_sqlite_read_table
<1>4. PICK perf : perf = Perf(tables, conds)
  OBVIOUS
<1>5. met = wanted
  BY DEF Meets
<1> HIDE DEF table, met, wanted
<1>6. PICK idx \in [DOMAIN rows -> 1..Len(table)] :
        \A a \in DOMAIN idx : rows[a] = table[idx[a]] /\ table[idx[a]] \in wanted
  BY <1>1, <1>3, SelectedOrder DEF IsSequence
<1>7. IsSequence(rows) /\ Len(rows) \in Nat /\ DOMAIN rows = 1..Len(rows)
  BY <1>1, <1>3, SelectedFacts, SequenceFacts
<1>8. \A k \in 1..Len(rows) : rows[k] \in met
  BY <1>5, <1>6, <1>7
<1>9. \A k \in 1..Len(rows) : IsGflops(rows[k].gflops)
  <2>1. DOMAIN table = 1..Len(table)
    BY <1>1, SequenceFacts
  <2> QED  BY <1>1, <1>6, <1>7, <2>1 DEF PerformancesBounded
<1>10. SummaryOf(perf, rows, Len(rows))
  BY <1>2, <1>4, <1>7, <1>9, PerfIsSummary
<1>11. perf.cnt = Len(rows) /\ Len(rows) # 0 /\ perf \in PerfSet(IdsOf(rows))
  BY <1>4, <1>10 DEF SummaryOf
<1>12. Named(met, perf.min_run_id, perf.min_version_id, perf.min_gflops)
  <2>1. Lowest(perf, rows, Len(rows))
    BY <1>10, <1>11 DEF SummaryOf
  <2> QED  BY <1>8, <2>1 DEF Lowest, Named
<1>13. NamedBest(met, perf.max_run_id, perf.max_version_id, perf.max_gflops)
  <2>1. HighestOf(perf, rows, Len(rows))
    BY <1>10 DEF SummaryOf
  <2> QED  BY <1>8, <2>1 DEF HighestOf, Named, NamedBest
<1> QED  BY <1>1, <1>4, <1>12, <1>13 DEF met

LEMMA VersionRowRefers ==
  ASSUME NEW tables, IsTables(tables), "Performances" \in DOMAIN tables,
         PerformancesBounded(tables), NEW version_id
  PROVE  /\ IsSequence(VersionPerfRow(tables, version_id))
         /\ \A s \in Range(VersionPerfRow(tables, version_id)) :
              VersionRefers(Range(Rows(tables, "Performances")), s)
<1>1. PICK perf : perf = Perf(tables, [version_id |-> version_id])
  OBVIOUS
<1>2. PICK row : row = VersionPerfRow(tables, version_id)
  OBVIOUS
<1>3. CASE perf.cnt = 0
  <2>1. row = <<>>
    BY <1>1, <1>2, <1>3, Zenon DEF VersionPerfRow
  <2>2. Range(<<>>) = {}
    BY DEF Range
  <2> QED  BY <1>2, <2>1, <2>2, NoRows
<1>4. CASE perf.cnt # 0
  <2> DEFINE s == [version_id |-> version_id, min_run_id |-> perf.min_run_id,
                   min_gflops |-> perf.min_gflops, max_run_id |-> perf.max_run_id,
                   max_gflops |-> perf.max_gflops]
             rows == Range(Rows(tables, "Performances"))
             met == {r \in rows : Meets(r, [version_id |-> version_id])}
  <2>1. row = <<s>>
    BY <1>1, <1>2, <1>4, Zenon DEF VersionPerfRow
  <2>2. /\ Named(met, perf.min_run_id, perf.min_version_id, perf.min_gflops)
        /\ NamedBest(met, perf.max_run_id, perf.max_version_id, perf.max_gflops)
    BY <1>1, <1>4, PerfRefers
  <2>3. \A r \in met : r \in rows /\ r.version_id = version_id
    BY DEF Meets
  <2>4. /\ s.version_id = version_id /\ s.min_run_id = perf.min_run_id
        /\ s.min_gflops = perf.min_gflops /\ s.max_run_id = perf.max_run_id
        /\ s.max_gflops = perf.max_gflops
    OBVIOUS
  <2> HIDE DEF s, met, rows
  <2>5. VersionRefers(rows, s)
    BY <2>2, <2>3, <2>4 DEF VersionRefers, Named, NamedBest
  <2>6. IsSequence(<<s>>) /\ Range(<<s>>) = {s}
    BY NoRows DEF Range
  <2> QED  BY <1>2, <2>1, <2>5, <2>6 DEF rows
<1> QED  BY <1>3, <1>4

LEMMA ParamRowRefers ==
  ASSUME NEW tables, IsTables(tables), "Performances" \in DOMAIN tables,
         PerformancesBounded(tables), NEW params
  PROVE  /\ IsSequence(ParamPerfRow(tables, params))
         /\ \A s \in Range(ParamPerfRow(tables, params)) :
              ParamRefers(Range(Rows(tables, "Performances")), s)
<1>1. PICK perf : perf = Perf(tables, [params |-> params])
  OBVIOUS
<1>2. PICK row : row = ParamPerfRow(tables, params)
  OBVIOUS
<1>3. CASE perf.cnt = 0
  <2>1. row = <<>>
    BY <1>1, <1>2, <1>3, Zenon DEF ParamPerfRow
  <2>2. Range(<<>>) = {}
    BY DEF Range
  <2> QED  BY <1>2, <2>1, <2>2, NoRows
<1>4. CASE perf.cnt # 0
  <2> DEFINE s == [params |-> params, min_run_id |-> perf.min_run_id,
                   min_version_id |-> perf.min_version_id, min_gflops |-> perf.min_gflops,
                   max_run_id |-> perf.max_run_id, max_version_id |-> perf.max_version_id,
                   max_gflops |-> perf.max_gflops]
             rows == Range(Rows(tables, "Performances"))
             met == {r \in rows : Meets(r, [params |-> params])}
  <2>1. row = <<s>>
    BY <1>1, <1>2, <1>4, Zenon DEF ParamPerfRow
  <2>2. /\ Named(met, perf.min_run_id, perf.min_version_id, perf.min_gflops)
        /\ NamedBest(met, perf.max_run_id, perf.max_version_id, perf.max_gflops)
    BY <1>1, <1>4, PerfRefers
  <2>3. \A r \in met : r \in rows
    OBVIOUS
  <2>4. /\ s.min_run_id = perf.min_run_id /\ s.min_version_id = perf.min_version_id
        /\ s.min_gflops = perf.min_gflops /\ s.max_run_id = perf.max_run_id
        /\ s.max_version_id = perf.max_version_id
        /\ s.max_gflops = perf.max_gflops
    OBVIOUS
  <2> HIDE DEF s, met, rows
  <2>5. ParamRefers(rows, s)
    BY <2>2, <2>3, <2>4 DEF ParamRefers, Named, NamedBest
  <2>6. IsSequence(<<s>>) /\ Range(<<s>>) = {s}
    BY NoRows DEF Range
  <2> QED  BY <1>2, <2>1, <2>5, <2>6 DEF rows
<1> QED  BY <1>3, <1>4

(* The rows of a table that is made of parts.                              *)
LEMMA FlattenedRange ==
  ASSUME NEW n \in Nat, NEW parts, parts = [i \in 1..n |-> parts[i]],
         \A i \in 1..n : IsSequence(parts[i]), NEW s \in Range(FlattenSeq(parts))
  PROVE  \E i \in 1..n : s \in Range(parts[i])
<1> DEFINE S == UNION {Range(parts[i]) : i \in 1..n}
<1>1. ASSUME NEW i \in 1..n PROVE parts[i] \in Seq(S)
  <2>1. /\ Len(parts[i]) \in Nat /\ DOMAIN parts[i] = 1..Len(parts[i])
        /\ parts[i] = [k \in 1..Len(parts[i]) |-> parts[i][k]]
    BY SequenceFacts
  <2>2. \A k \in 1..Len(parts[i]) : parts[i][k] \in S
    BY <2>1 DEF Range
  <2> HIDE DEF S
  <2> QED  BY <2>1, <2>2
<1> HIDE DEF S
<1>2. parts \in Seq(Seq(S))
  BY <1>1
<1>3. Range(FlattenSeq(parts)) \subseteq S
  BY <1>2, FlattenIsSeq, SequenceOf
<1> QED  BY <1>3 DEF S

LEMMA JoinedRange ==
  ASSUME NEW all, NEW s, NEW t, IsSequence(s), IsSequence(t), IsJoin(all, s, t)
  PROVE  Range(all) = Range(s) \cup Range(t)
<1>1. /\ IsSequence(all) /\ Len(all) = Len(s) + Len(t)
      /\ \A i \in 1..Len(s) : all[i] = s[i]
      /\ \A i \in 1..Len(t) : all[Len(s) + i] = t[i]
  BY JoinedRows
<1>2. /\ DOMAIN all = 1..Len(all) /\ DOMAIN s = 1..Len(s) /\ DOMAIN t = 1..Len(t)
      /\ Len(s) \in Nat /\ Len(t) \in Nat /\ Len(all) \in Nat
  BY <1>1, SequenceFacts
<1>3. ASSUME NEW x \in Range(all) PROVE x \in Range(s) \cup Range(t)
  <2>1. PICK i \in 1..Len(all) : x = all[i]
    BY <1>2 DEF Range
  <2>2. CASE i <= Len(s)
    <3>1. i \in 1..Len(s)
      BY <1>2, <2>2
    <3> QED  BY <1>1, <1>2, <2>1, <3>1 DEF Range
  <2>3. CASE ~(i <= Len(s))
    <3>1. i - Len(s) \in 1..Len(t) /\ Len(s) + (i - Len(s)) = i
      BY <1>1, <1>2, <2>3
    <3> QED  BY <1>1, <1>2, <2>1, <3>1 DEF Range
  <2> QED  BY <2>2, <2>3
<1>4. ASSUME NEW x \in Range(s) PROVE x \in Range(all)
  <2>1. PICK i \in 1..Len(s) : x = s[i]
    BY <1>2 DEF Range
  <2>2. i \in 1..Len(all)
    BY <1>1, <1>2
  <2> QED  BY <1>1, <1>2, <2>1, <2>2 DEF Range
<1>5. ASSUME NEW x \in Range(t) PROVE x \in Range(all)
  <2>1. PICK i \in 1..Len(t) : x = t[i]
    BY <1>2 DEF Range
  <2>2. Len(s) + i \in 1..Len(all)
    BY <1>1, <1>2
  <2> QED  BY <1>1, <1>2, <2>1, <2>2 DEF Range
<1> QED  BY <1>3, <1>4, <1>5

-----------------------------------------------------------------------------
RunsMeasurable(tables, t) ==
  \A i \in DOMAIN Rows(tables, "Runs") : Measurable(Rows(tables, "Runs")[i].params, t)

(* What the numbers in the tables of the test t are worth.                 *)
Correct(f, tables, t) ==
  /\ f = "profile" => RunsMeasurable(tables, t) /\ EventsTakeTime(tables)
  /\ f = "versions" => PerformancesBounded(tables) /\ ReferToPerformances(tables)

LEMMA SameRowsAreCorrect ==
  ASSUME NEW f, NEW t, NEW old, NEW new, Correct(f, old, t),
         \A name \in {"Runs", "Events", "Performances", "VersionPerf", "ParamPerf"} :
           Rows(new, name) = Rows(old, name)
  PROVE  Correct(f, new, t)
<1>1. /\ Rows(new, "Runs") = Rows(old, "Runs") /\ Rows(new, "Events") = Rows(old, "Events")
      /\ Rows(new, "Performances") = Rows(old, "Performances")
      /\ Rows(new, "VersionPerf") = Rows(old, "VersionPerf")
      /\ Rows(new, "ParamPerf") = Rows(old, "ParamPerf")
  OBVIOUS
<1>2. ReferToPerformances(new) <=> ReferToPerformances(old)
  BY <1>1, RefersIs
<1> QED  BY <1>1, <1>2 DEF Correct, RunsMeasurable, EventsTakeTime, PerformancesBounded

LEMMA NoRowsAreCorrect ==
  ASSUME NEW f, NEW t, NEW tables,
         \A name \in {"Runs", "Events", "Performances", "VersionPerf", "ParamPerf"} :
           Rows(tables, name) = <<>>
  PROVE  Correct(f, tables, t)
<1>1. DOMAIN <<>> = {} /\ Range(<<>>) = {}
  BY DEF Range
<1>2. ReferToPerformances(tables)
  BY <1>1, RefersIs
<1> QED  BY <1>1, <1>2 DEF Correct, RunsMeasurable, EventsTakeTime, PerformancesBounded

LEMMA NoTablesAreCorrect ==
  ASSUME NEW f, NEW t
  PROVE  Correct(f, NoTables, t)
<1>1. DOMAIN NoTables = {}
  BY DEF NoTables
<1> QED  BY <1>1, NoRowsAreCorrect DEF Rows

LEMMA CreatedIsCorrect ==
  ASSUME NEW f, NEW t, NEW tables, NEW name, IsTables(tables), Correct(f, tables, t),
         NEW new, new = acc_sqlite_create_table(tables, name)
  PROVE  Correct(f, new, t)
<1>1. \A other : Rows(new, other) = Rows(tables, other)
  BY CreatedTable
<1> QED  BY <1>1, SameRowsAreCorrect

LEMMA ProfilingIsCorrect ==
  ASSUME NEW f, NEW t, NEW tables, IsTables(tables), Correct(f, tables, t),
         NEW new, new = acc_profiling_init_db(tables)
  PROVE  Correct(f, new, t)
<1>1. PICK a : a = acc_sqlite_create_table(tables, "Devices")
  OBVIOUS
<1>2. PICK b : b = acc_sqlite_create_table(a, "Events")
  OBVIOUS
<1>3. new = Insert(b, "Devices", DeviceRows)
  BY <1>1, <1>2 DEF acc_profiling_init_db
<1>4. IsTables(a) /\ Correct(f, a, t)
  BY <1>1, CreatedTable, CreatedIsCorrect
<1>5. IsTables(b) /\ Correct(f, b, t)
  BY <1>2, <1>4, CreatedTable, CreatedIsCorrect
<1>6. IsSequence(DeviceRows)
  <2> DEFINE row(i) == [device_id |-> i - 1]
  <2>1. DeviceRows = [i \in 1..NumOpenCLDevices |-> row(i)]
    BY DEF DeviceRows
  <2> HIDE DEF row
  <2>2. DeviceRows \in Seq({row(i) : i \in 1..NumOpenCLDevices})
    BY <2>1, NumDevicesAssumption
  <2> QED  BY <2>2, SequenceOf
<1>7. \A other : other # "Devices" => Rows(new, other) = Rows(b, other)
  BY <1>3, <1>5, <1>6, InsertedRows
<1> QED  BY <1>5, <1>7, SameRowsAreCorrect

(* What is of all rows of a table and of those that are inserted is of all *)
(* rows then.                                                              *)
LEMMA InsertedRange ==
  ASSUME NEW tables, IsTables(tables), NEW name, NEW rows, IsSequence(rows),
         NEW new, new = Insert(tables, name, rows)
  PROVE  /\ Range(Rows(new, name)) \subseteq Range(Rows(tables, name)) \cup Range(rows)
         /\ Range(Rows(tables, name)) \subseteq Range(Rows(new, name))
         /\ \A other : other # name => Rows(new, other) = Rows(tables, other)
<1>1. /\ \A other : other # name => Rows(new, other) = Rows(tables, other)
      /\ name \in DOMAIN tables => IsJoin(Rows(new, name), Rows(tables, name), rows)
      /\ name \notin DOMAIN tables => new = tables
  BY InsertedRows
<1>2. CASE name \in DOMAIN tables
  <2>1. PICK all : all = Rows(new, name)
    OBVIOUS
  <2>2. PICK old : old = Rows(tables, name)
    OBVIOUS
  <2>3. IsJoin(all, old, rows) /\ IsSequence(old)
    BY <1>1, <1>2, <2>1, <2>2, TablesFacts
  <2>4. Range(all) = Range(old) \cup Range(rows)
    BY <2>3, JoinedRange
  <2> QED  BY <1>1, <2>1, <2>2, <2>4
<1>3. CASE name \notin DOMAIN tables
  BY <1>1, <1>3
<1> QED  BY <1>2, <1>3

LEMMA CorrectIs ==
  ASSUME NEW f, NEW t, NEW tables
  PROVE  Correct(f, tables, t) <=>
           /\ f = "profile" =>
                /\ \A run \in Range(Rows(tables, "Runs")) : Measurable(run.params, t)
                /\ \A e \in Range(Rows(tables, "Events")) : e.duration \in Nat \ {0}
           /\ f = "versions" =>
                /\ \A row \in Range(Rows(tables, "Performances")) : IsGflops(row.gflops)
                /\ ReferToPerformances(tables)
BY DEF Correct, RunsMeasurable, EventsTakeTime, PerformancesBounded, Range

LEMMA InsertedRunsAreCorrect ==
  ASSUME NEW t, NEW tables, IsTables(tables), Correct("profile", tables, t), NEW rows,
         IsSequence(rows), \A i \in DOMAIN rows : Measurable(rows[i].params, t),
         NEW new, new = Insert(tables, "Runs", WithRowids(rows, tables["Runs"]))
  PROVE  Correct("profile", new, t)
<1>1. PICK numbered : numbered = WithRowids(rows, tables["Runs"])
  OBVIOUS
<1> DEFINE row(i) == [rowid |-> Len(tables["Runs"]) + i, devices |-> rows[i].devices,
                      params |-> rows[i].params, executed |-> rows[i].executed]
<1>2. Len(rows) \in Nat /\ DOMAIN rows = 1..Len(rows)
  BY SequenceFacts
<1>3. numbered = [i \in 1..Len(rows) |-> row(i)]
  BY <1>1, <1>2 DEF WithRowids
<1>4. \A i \in 1..Len(rows) : Measurable(row(i).params, t)
  BY <1>2
<1> HIDE DEF row
<1>5. numbered \in Seq({row(i) : i \in 1..Len(rows)})
  BY <1>2, <1>3
<1>6. IsSequence(numbered) /\ \A run \in Range(numbered) : Measurable(run.params, t)
  BY <1>4, <1>5, SequenceOf
<1>7. new = Insert(tables, "Runs", numbered)
  BY <1>1
<1>8. /\ Range(Rows(new, "Runs")) \subseteq Range(Rows(tables, "Runs")) \cup Range(numbered)
      /\ Rows(new, "Events") = Rows(tables, "Events")
  BY <1>6, <1>7, InsertedRange
<1>9. /\ \A run \in Range(Rows(tables, "Runs")) : Measurable(run.params, t)
      /\ \A e \in Range(Rows(tables, "Events")) : e.duration \in Nat \ {0}
  BY CorrectIs
<1>10. \A run \in Range(Rows(new, "Runs")) : Measurable(run.params, t)
  BY <1>6, <1>8, <1>9
<1> QED  BY <1>8, <1>9, <1>10, CorrectIs

LEMMA InsertedEventIsCorrect ==
  ASSUME NEW t, NEW tables, IsTables(tables), Correct("profile", tables, t), NEW event,
         event.duration \in Nat \ {0}, NEW new, new = Insert(tables, "Events", <<event>>)
  PROVE  Correct("profile", new, t)
<1>1. IsSequence(<<event>>) /\ Range(<<event>>) = {event}
  BY NoRows DEF Range
<1>2. PICK one : one = <<event>>
  OBVIOUS
<1>3. /\ Range(Rows(new, "Events")) \subseteq Range(Rows(tables, "Events")) \cup Range(one)
      /\ Rows(new, "Runs") = Rows(tables, "Runs")
  BY <1>1, <1>2, InsertedRange
<1> QED  BY <1>1, <1>2, <1>3, CorrectIs

(* A summary goes on to name rows of performances when others are added.   *)
LEMMA MoreAreNamed ==
  ASSUME NEW old, NEW new, old \subseteq new, NEW s
  PROVE  /\ VersionRefers(old, s) => VersionRefers(new, s)
         /\ ParamRefers(old, s) => ParamRefers(new, s)
<1>1. \A r, v, g : Named(old, r, v, g) => Named(new, r, v, g)
  BY DEF Named
<1> QED  BY <1>1 DEF VersionRefers, ParamRefers, NamedBest

LEMMA InsertedPerformancesAreCorrect ==
  ASSUME NEW t, NEW tables, IsTables(tables), Correct("versions", tables, t), NEW rows,
         IsSequence(rows), \A i \in DOMAIN rows : IsGflops(rows[i].gflops),
         NEW new, new = Insert(tables, "Performances", rows)
  PROVE  Correct("versions", new, t)
<1>1. /\ Range(Rows(new, "Performances"))
           \subseteq Range(Rows(tables, "Performances")) \cup Range(rows)
      /\ Range(Rows(tables, "Performances")) \subseteq Range(Rows(new, "Performances"))
      /\ Rows(new, "VersionPerf") = Rows(tables, "VersionPerf")
      /\ Rows(new, "ParamPerf") = Rows(tables, "ParamPerf")
  BY InsertedRange
<1>2. \A row \in Range(rows) : IsGflops(row.gflops)
  BY DEF Range
<1>3. /\ \A row \in Range(Rows(tables, "Performances")) : IsGflops(row.gflops)
      /\ ReferToPerformances(tables)
  BY CorrectIs
<1>4. \A row \in Range(Rows(new, "Performances")) : IsGflops(row.gflops)
  BY <1>1, <1>2, <1>3
<1>5. /\ \A s \in Range(Rows(tables, "VersionPerf")) :
           VersionRefers(Range(Rows(tables, "Performances")), s)
      /\ \A s \in Range(Rows(tables, "ParamPerf")) :
           ParamRefers(Range(Rows(tables, "Performances")), s)
  BY <1>3, RefersIs
<1>6. /\ \A s \in Range(Rows(new, "VersionPerf")) :
           VersionRefers(Range(Rows(new, "Performances")), s)
      /\ \A s \in Range(Rows(new, "ParamPerf")) :
           ParamRefers(Range(Rows(new, "Performances")), s)
  BY <1>1, <1>5, MoreAreNamed
<1>7. ReferToPerformances(new)
  BY <1>6, RefersIs
<1> QED  BY <1>4, <1>7, CorrectIs

-----------------------------------------------------------------------------
(* The two tables of summaries.                                            *)
LEMMA VersionPerfIsCorrect ==
  ASSUME NEW t, NEW tables, IsTables(tables), Correct("versions", tables, t),
         "Performances" \in DOMAIN tables, NEW all, all = VersionPerf(tables)
  PROVE  Correct("versions", all, t)
<1>1. PICK new : new = acc_sqlite_create_table(tables, "VersionPerf")
  OBVIOUS
<1> DEFINE row(v) == VersionPerfRow(new, v - 1)
           parts == [v \in 1..NumVersionIds |-> row(v)]
<1>2. all = Insert(new, "VersionPerf", FlattenSeq(parts))
  BY <1>1 DEF VersionPerf
<1>3. IsTables(new) /\ Extends(tables, new)
  BY <1>1, CreatedTable
<1>4. Correct("versions", new, t)
  BY <1>1, CreatedIsCorrect
<1>5. "Performances" \in DOMAIN new
  BY <1>3 DEF Extends
<1> DEFINE performances == Range(Rows(new, "Performances"))
<1>6. PerformancesBounded(new) /\ ReferToPerformances(new)
  BY <1>4 DEF Correct
<1>7. \A v : /\ IsSequence(row(v))
             /\ \A s \in Range(row(v)) : VersionRefers(performances, s)
  BY <1>3, <1>5, <1>6, VersionRowRefers
<1> HIDE DEF row
<1>8. /\ \A v \in 1..NumVersionIds : /\ IsSequence(parts[v])
                                     /\ \A s \in Range(parts[v]) : VersionRefers(performances, s)
      /\ parts = [v \in 1..NumVersionIds |-> parts[v]]
  BY <1>7
<1> HIDE DEF parts, performances
<1>9. PICK rows : rows = FlattenSeq(parts)
  OBVIOUS
<1>10. IsSequence(rows)
  BY <1>8, <1>9, AnalysisAssumption, FlattenedRows
<1>11. \A s \in Range(rows) : VersionRefers(performances, s)
  <2>1. \A s \in Range(rows) : \E v \in 1..NumVersionIds : s \in Range(parts[v])
    BY <1>8, <1>9, AnalysisAssumption, FlattenedRange
  <2> QED  BY <1>8, <2>1
<1>12. /\ Range(Rows(all, "VersionPerf")) \subseteq Range(Rows(new, "VersionPerf")) \cup Range(rows)
       /\ Rows(all, "Performances") = Rows(new, "Performances")
       /\ Rows(all, "ParamPerf") = Rows(new, "ParamPerf")
  BY <1>2, <1>3, <1>9, <1>10, InsertedRange
<1>13. /\ \A s \in Range(Rows(new, "VersionPerf")) : VersionRefers(performances, s)
       /\ \A s \in Range(Rows(new, "ParamPerf")) : ParamRefers(performances, s)
  BY <1>6, RefersIs DEF performances
<1>14. /\ \A s \in Range(Rows(all, "VersionPerf")) : VersionRefers(performances, s)
       /\ \A s \in Range(Rows(all, "ParamPerf")) : ParamRefers(performances, s)
  BY <1>11, <1>12, <1>13
<1>15. ReferToPerformances(all)
  BY <1>12, <1>14, RefersIs DEF performances
<1>16. PerformancesBounded(all)
  BY <1>6, <1>12 DEF PerformancesBounded
<1> QED  BY <1>15, <1>16 DEF Correct

LEMMA ParamPerfIsCorrect ==
  ASSUME NEW t, NEW tables, IsTables(tables), Correct("versions", tables, t),
         "Performances" \in DOMAIN tables, NEW all, all = ParamPerf(tables)
  PROVE  Correct("versions", all, t)
<1>1. PICK new : new = acc_sqlite_create_table(tables, "ParamPerf")
  OBVIOUS
<1> DEFINE row(i) == ParamPerfRow(new, AnalysedParams[i])
           n == Len(AnalysedParams)
           parts == [i \in 1..n |-> row(i)]
<1>0. n \in Nat /\ DOMAIN AnalysedParams = 1..n
  BY AnalysisAssumption
<1>2. all = Insert(new, "ParamPerf", FlattenSeq(parts))
  BY <1>0, <1>1 DEF ParamPerf
<1>3. IsTables(new) /\ Extends(tables, new)
  BY <1>1, CreatedTable
<1>4. Correct("versions", new, t)
  BY <1>1, CreatedIsCorrect
<1>5. "Performances" \in DOMAIN new
  BY <1>3 DEF Extends
<1> DEFINE performances == Range(Rows(new, "Performances"))
<1>6. PerformancesBounded(new) /\ ReferToPerformances(new)
  BY <1>4 DEF Correct
<1>7. \A i : /\ IsSequence(row(i))
             /\ \A s \in Range(row(i)) : ParamRefers(performances, s)
  BY <1>3, <1>5, <1>6, ParamRowRefers
<1> HIDE DEF row, n
<1>8. /\ \A i \in 1..n : /\ IsSequence(parts[i])
                         /\ \A s \in Range(parts[i]) : ParamRefers(performances, s)
      /\ parts = [i \in 1..n |-> parts[i]]
  BY <1>7
<1> HIDE DEF parts, performances
<1>9. PICK rows : rows = FlattenSeq(parts)
  OBVIOUS
<1>10. IsSequence(rows)
  BY <1>0, <1>8, <1>9, FlattenedRows
<1>11. \A s \in Range(rows) : ParamRefers(performances, s)
  <2>1. \A s \in Range(rows) : \E i \in 1..n : s \in Range(parts[i])
    BY <1>0, <1>8, <1>9, FlattenedRange
  <2> QED  BY <1>8, <2>1
<1>12. /\ Range(Rows(all, "ParamPerf")) \subseteq Range(Rows(new, "ParamPerf")) \cup Range(rows)
       /\ Rows(all, "Performances") = Rows(new, "Performances")
       /\ Rows(all, "VersionPerf") = Rows(new, "VersionPerf")
  BY <1>2, <1>3, <1>9, <1>10, InsertedRange
<1>13. /\ \A s \in Range(Rows(new, "VersionPerf")) : VersionRefers(performances, s)
       /\ \A s \in Range(Rows(new, "ParamPerf")) : ParamRefers(performances, s)
  BY <1>6, RefersIs DEF performances
<1>14. /\ \A s \in Range(Rows(all, "VersionPerf")) : VersionRefers(performances, s)
       /\ \A s \in Range(Rows(all, "ParamPerf")) : ParamRefers(performances, s)
  BY <1>11, <1>12, <1>13
<1>15. ReferToPerformances(all)
  BY <1>12, <1>14, RefersIs DEF performances
<1>16. PerformancesBounded(all)
  BY <1>6, <1>12 DEF PerformancesBounded
<1> QED  BY <1>15, <1>16 DEF Correct

LEMMA StatusIsCorrect ==
  ASSUME NEW t, NEW tables, NEW devices, Good("profile", tables, devices),
         Correct("profile", tables, t), NEW runs, NEW status \in 0..3,
         NEW new, new = SetStatus(tables, runs, status)
  PROVE  Correct("profile", new, t)
<1>1. /\ \A other : other # "Runs" => Rows(new, other) = Rows(tables, other)
      /\ DOMAIN Rows(new, "Runs") = DOMAIN Rows(tables, "Runs")
      /\ \A i \in DOMAIN Rows(tables, "Runs") :
           Rows(new, "Runs")[i] = IF Rows(tables, "Runs")[i] \in runs
                                  THEN Marked(Rows(tables, "Runs")[i], status)
                                  ELSE Rows(tables, "Runs")[i]
  BY StatusFacts
<1>2. ASSUME NEW i \in DOMAIN Rows(tables, "Runs")
      PROVE  Rows(new, "Runs")[i].params = Rows(tables, "Runs")[i].params
  <2>1. PICK run : run = Rows(tables, "Runs")[i]
    OBVIOUS
  <2>2. IsRun(run, i, devices)
    BY <2>1 DEF Good, HoldsRuns
  <2>3. Marked(run, status).params = run.params
    BY <2>2 DEF IsRun, Marked
  <2>4. Rows(new, "Runs")[i] = Marked(run, status) \/ Rows(new, "Runs")[i] = run
    BY <1>1, <2>1
  <2> QED  BY <2>1, <2>3, <2>4
<1>3. RunsMeasurable(new, t)
  BY <1>1, <1>2 DEF Correct, RunsMeasurable
<1>4. EventsTakeTime(new)
  BY <1>1 DEF Correct, EventsTakeTime
<1> QED  BY <1>3, <1>4 DEF Correct

(* The vectors of the generator can be allocated.                          *)
LEMMA ParamsAreMeasurable ==
  ASSUME test # "109", NEW params \in Range(ParamsValues)
  PROVE  Measurable(params, test)
<1> DEFINE lists == [i \in 1..1 |-> Powers(ParamExps)]
           all == Product(lists)
           wanted == {p \in Range(all) : Allocated(p) <= power_of_2[MaxAllocExp]}
<1>1. ParamsValues = Selected(all, wanted)
  <2>1. (IF test = "109" THEN 3 ELSE 1) = 1
    OBVIOUS
  <2> QED  BY <2>1, Zenon DEF ParamsValues
<1>2. IsSequence(Powers(ParamExps))
  BY PowersFacts
<1>3. (\A k \in 1..1 : IsSequence(lists[k])) /\ lists = [k \in 1..1 |-> lists[k]] /\ lists[1] = Powers(ParamExps)
  BY <1>2
<1> HIDE DEF lists
<1>4. /\ IsSequence(all)
      /\ \A e \in Range(all) :
           IsSequence(e) /\ Len(e) = 1 /\ \A k \in 1..1 : e[k] \in Range(lists[k])
  BY <1>3, ProductFacts
<1> HIDE DEF all
<1>5. params \in wanted
  <2>1. PICK chosen : chosen = ParamsValues
    OBVIOUS
  <2> HIDE DEF wanted
  <2>2. PICK idx \in [DOMAIN chosen -> 1..Len(all)] :
          \A a \in DOMAIN idx : chosen[a] = all[idx[a]] /\ all[idx[a]] \in wanted
    BY <1>1, <1>4, <2>1, SelectedOrder DEF IsSequence
  <2> QED  BY <2>1, <2>2 DEF Range
<1>6. /\ IsSequence(params) /\ Len(params) = 1 /\ params[1] \in Range(Powers(ParamExps))
      /\ Allocated(params) <= power_of_2[MaxAllocExp]
  BY <1>3, <1>4, <1>5
<1>7. params[1] \in Nat
  BY <1>6, PowersFacts
<1>8. Allocated(params) = 4 * params[1]
  BY DEF Allocated
<1>9. params[1] < TooFast
  <2>1. /\ 4 * params[1] <= power_of_2[MaxAllocExp]
        /\ power_of_2[MaxAllocExp] \in Nat /\ power_of_2[MaxAllocExp] < 4 * TooFast /\ TooFast \in Nat
    BY <1>6, <1>8, TooFastAssumption, MaxAllocAssumption, PowersOf2
  <2>2. PICK most : most = power_of_2[MaxAllocExp]
    OBVIOUS
  <2>3. 4 * params[1] <= most /\ most \in Nat /\ most < 4 * TooFast /\ TooFast \in Nat
    BY <2>1, <2>2, Zenon
  <2> QED  BY <1>7, <2>3
<1>10. params \in Seq(Nat)
  <2>1. params = [i \in 1..1 |-> params[i]] /\ \A i \in 1..1 : params[i] \in Nat
    BY <1>6, <1>7, SequenceFacts
  <2> QED  BY <2>1
<1> QED  BY <1>6, <1>9, <1>10 DEF Measurable, NumParams, Work

(* Files and copies hold numbers that are right.                           *)
TablesCorrect ==
  /\ \A f \in Files : Correct(f, Content(f), test)
  /\ \A p \in Programs, f \in Files : Correct(f, db[p][f].tables, test)

AddsCorrect(p) ==
  \E f \in Files :
    \/ \E memory \in BOOLEAN : acc_sqlite_open(p, f, memory)
    \/ \E new : Execute(p, f, new) /\ Correct(f, new, test)
    \/ acc_sqlite_save(p, f)
    \/ acc_sqlite_close(p, f)

LEMMA OneFileIsCorrect ==
  ASSUME TablesCorrect, test' = test, NEW p \in Programs, NEW f \in Files, Only(p, f),
         Correct(f, Content(f)', test), Correct(f, db'[p][f].tables, test)
  PROVE  TablesCorrect'
<1>1. ASSUME NEW g \in Files PROVE Correct(g, Content(g)', test')
  <2>1. CASE g = f
    BY <2>1
  <2>2. CASE g # f
    <3>1. Content(g)' = Content(g)
      BY <2>2 DEF Only
    <3>2. Correct(g, Content(g), test)
      BY DEF TablesCorrect
    <3> QED  BY <3>1, <3>2
  <2> QED  BY <2>1, <2>2
<1>2. ASSUME NEW q \in Programs, NEW g \in Files PROVE Correct(g, db'[q][g].tables, test')
  <2>1. CASE q = p /\ g = f
    BY <2>1
  <2>2. CASE ~(q = p /\ g = f)
    <3>1. db'[q][g] = db[q][g]
      BY <2>2 DEF Only
    <3>2. Correct(g, db[q][g].tables, test)
      BY DEF TablesCorrect
    <3> QED  BY <3>1, <3>2
  <2> QED  BY <2>1, <2>2
<1> QED  BY <1>1, <1>2 DEF TablesCorrect

LEMMA UnchangedIsCorrect ==
  ASSUME TablesCorrect, test' = test, UNCHANGED dbVars
  PROVE  TablesCorrect'
<1>1. db' = db /\ \A f : Content(f)' = Content(f)
  BY DEF dbVars, Content, FileExists
<1> QED  BY <1>1 DEF TablesCorrect

LEMMA AddsCorrectStep ==
  ASSUME Connections, TablesCorrect, test' = test, NEW p \in Programs, AddsCorrect(p)
  PROVE  TablesCorrect'
<1>1. PICK f \in Files :
        \/ \E memory \in BOOLEAN : acc_sqlite_open(p, f, memory)
        \/ \E new : Execute(p, f, new) /\ Correct(f, new, test)
        \/ acc_sqlite_save(p, f)
        \/ acc_sqlite_close(p, f)
  BY DEF AddsCorrect
<1>2. Correct(f, Content(f), test) /\ Correct(f, db[p][f].tables, test)
  BY DEF TablesCorrect
<1>3. ASSUME NEW memory \in BOOLEAN, acc_sqlite_open(p, f, memory) PROVE TablesCorrect'
  <2>1. /\ Only(p, f) /\ Content(f)' = Content(f)
        /\ db'[p][f].tables = IF memory THEN Content(f) ELSE NoTables
    BY <1>3, OpenEffect
  <2>2. Correct(f, Content(f)', test) /\ Correct(f, db'[p][f].tables, test)
    BY <1>2, <2>1, NoTablesAreCorrect
  <2> QED  BY <2>1, <2>2, OneFileIsCorrect
<1>4. ASSUME NEW new, Execute(p, f, new), Correct(f, new, test) PROVE TablesCorrect'
  <2>1. /\ Only(p, f)
        /\ IF db[p][f].memory
           THEN db'[p][f].tables = new /\ Content(f)' = Content(f)
           ELSE Content(f)' = new /\ db' = db
    BY <1>4, ExecuteEffect
  <2>2. Correct(f, Content(f)', test) /\ Correct(f, db'[p][f].tables, test)
    BY <1>2, <1>4, <2>1
  <2> QED  BY <2>1, <2>2, OneFileIsCorrect
<1>5. CASE acc_sqlite_save(p, f)
  <2>1. \/ UNCHANGED dbVars
        \/ Only(p, f) /\ WrittenBack(p, f) /\ db'[p][f].tables = db[p][f].tables
    BY <1>5, SaveEffect
  <2>2. CASE UNCHANGED dbVars
    BY <2>2, UnchangedIsCorrect
  <2>3. CASE Only(p, f) /\ WrittenBack(p, f) /\ db'[p][f].tables = db[p][f].tables
    <3>1. Correct(f, Content(f)', test) /\ Correct(f, db'[p][f].tables, test)
      BY <1>2, <2>3 DEF WrittenBack
    <3> QED  BY <2>3, <3>1, OneFileIsCorrect
  <2> QED  BY <2>1, <2>2, <2>3
<1>6. CASE acc_sqlite_close(p, f)
  <2>1. /\ Only(p, f) /\ db'[p][f].tables = NoTables
        /\ WrittenBack(p, f) \/ Content(f)' = Content(f)
    BY <1>6, CloseEffect
  <2>2. Correct(f, Content(f)', test) /\ Correct(f, db'[p][f].tables, test)
    BY <1>2, <2>1, NoTablesAreCorrect DEF WrittenBack
  <2> QED  BY <2>1, <2>2, OneFileIsCorrect
<1> QED  BY <1>1, <1>3, <1>4, <1>5, <1>6

LEMMA DisconnectedIsCorrect ==
  ASSUME Connections, TablesCorrect, test' = test, NEW p \in Programs,
         Disconnect(p), UNCHANGED disk
  PROVE  TablesCorrect'
<1>1. \A f : Content(f)' = Content(f)
  BY DEF Content, FileExists
<1>2. \A q \in Programs, f \in Files :
        db'[q][f] = db[q][f] \/ db'[q][f].tables = NoTables
  BY DisconnectEffect DEF Closed
<1>3. \A q \in Programs, f \in Files : Correct(f, db'[q][f].tables, test)
  BY <1>2, NoTablesAreCorrect DEF TablesCorrect
<1> QED  BY <1>1, <1>3 DEF TablesCorrect

LEMMA TablesAreCorrect ==
  ASSUME TablesCorrect, NEW p \in Programs, NEW f \in Files
  PROVE  Correct(f, Tables(p, f), test)
BY DEF TablesCorrect, Tables

-----------------------------------------------------------------------------
(* The generator.                                                          *)
CombosMeasurable == \A i \in DOMAIN combos : Measurable(combos[i].params, test)

LEMMA GenerateIsCorrect ==
  ASSUME FilesGood, CombosInv, TablesCorrect, CombosMeasurable, Generate
  PROVE  AddsCorrect("generate") /\ test' = test /\ CombosMeasurable'
<1>1. "versions" \in Files /\ "profile" \in Files /\ TRUE \in BOOLEAN /\ "generate" \in Programs
  BY FilesAssumption, ProgramsAssumption
<1>2. CASE OpenVersions
  BY <1>1, <1>2 DEF OpenVersions, GenerationGoes, AddsCorrect, CombosMeasurable
<1>3. CASE OpenProfile
  BY <1>1, <1>3 DEF OpenProfile, GenerationGoes, AddsCorrect, CombosMeasurable
<1>4. CASE LoadGenData
  <2>1. PICK versions : versions = Tables("generate", "versions")
    OBVIOUS
  <2>2. PICK list :
          list = Product(<<VersionCombinaisons(versions), ParamsValues, PortionCombinaisons>>)
    OBVIOUS
  <2>3. PICK profile : profile = Tables("generate", "profile")
    OBVIOUS
  <2>4. PICK a : a = acc_profiling_init_db(profile)
    OBVIOUS
  <2>5. PICK new : new = acc_tuning_create_experiment(a)
    OBVIOUS
  <2>6. /\ "Versions" \in DOMAIN versions /\ test' = test
        /\ Execute("generate", "profile", new)
        /\ combos' = IF test = "109" THEN <<>>
                     ELSE [i \in DOMAIN list |-> [versions |-> list[i][1],
                             params |-> list[i][2], portions |-> list[i][3]]]
    BY <1>4, <2>1, <2>2, <2>3, <2>4, <2>5
    DEF LoadGenData, acc_sqlite_table_exists, GenerationGoes
  <2>7. /\ Good("profile", profile, num_devices) /\ IsTables(versions)
        /\ Correct("profile", profile, test)
    BY <1>1, <2>1, <2>3, TablesAreGood, TablesAreCorrect DEF Good
  <2>8. IsTables(a) /\ Correct("profile", a, test)
    BY <2>4, <2>7, ProfilingTables, ProfilingIsCorrect DEF Good
  <2>9. Correct("profile", new, test)
    BY <2>5, <2>8, CreatedIsCorrect DEF acc_tuning_create_experiment
  <2>10. AddsCorrect("generate")
    BY <1>1, <2>6, <2>9 DEF AddsCorrect
  <2>11. \A i \in DOMAIN list : list[i][2] \in Range(ParamsValues)
    BY <2>2, <2>6, <2>7, OneDevice, CombinationsFacts
  <2>12. CombosMeasurable'
    <3>1. CASE test = "109"
      <4>1. combos' = <<>> /\ DOMAIN <<>> = {}
        BY <2>6, <3>1
      <4> QED  BY <4>1 DEF CombosMeasurable
    <3>2. CASE test # "109"
      <4> DEFINE combo(i) == [versions |-> list[i][1], params |-> list[i][2],
                              portions |-> list[i][3]]
      <4>1. combos' = [i \in DOMAIN list |-> combo(i)]
        BY <2>6, <3>2
      <4>2. \A i : combo(i).params = list[i][2]
        OBVIOUS
      <4> HIDE DEF combo
      <4>3. DOMAIN combos' = DOMAIN list /\ \A i \in DOMAIN list : combos'[i].params = list[i][2]
        BY <4>1, <4>2
      <4>4. \A i \in DOMAIN list : Measurable(list[i][2], test)
        BY <2>11, <3>2, ParamsAreMeasurable
      <4> QED  BY <2>6, <4>3, <4>4 DEF CombosMeasurable
    <3> QED  BY <3>1, <3>2
  <2> QED  BY <2>6, <2>10, <2>12
<1>5. CASE acc_tuning_generate
  <2>1. PICK profile : profile = Tables("generate", "profile")
    OBVIOUS
  <2>2. PICK combo : combo = Head(combos)
    OBVIOUS
  <2>3. PICK rows : rows = RunsOf(Tables("generate", "versions"), combo)
    OBVIOUS
  <2>4. PICK new : new = Insert(profile, "Runs", WithRowids(rows, profile["Runs"]))
    OBVIOUS
  <2>5. /\ combos # <<>> /\ combos' = Tail(combos) /\ test' = test
        /\ Execute("generate", "profile", new)
    BY <1>5, <2>1, <2>2, <2>3, <2>4 DEF acc_tuning_generate
  <2>6. /\ combo = combos[1] /\ 1 \in DOMAIN combos
        /\ \A i \in DOMAIN Tail(combos) : /\ i + 1 \in DOMAIN combos
                                          /\ Tail(combos)[i] = combos[i + 1]
    BY <2>2, <2>5, TailFacts DEF CombosInv
  <2>7. IsSequence(combo.params) /\ Measurable(combo.params, test) /\ CombosMeasurable'
    BY <2>5, <2>6 DEF CombosInv, CombosMeasurable
  <2>8. IsSequence(rows) /\ \A i \in DOMAIN rows : Measurable(rows[i].params, test)
    <3>1. IsSequence(rows)
      BY <2>3, <2>7, OneDevice, RunsOfAreNew
    <3>2. \A i \in DOMAIN rows : rows[i].params = combo.params
      BY <2>3, Zenon DEF RunsOf
    <3> QED  BY <2>7, <3>1, <3>2
  <2>9. IsTables(profile) /\ Correct("profile", profile, test)
    BY <1>1, <2>1, TablesAreGood, TablesAreCorrect DEF Good
  <2>10. Correct("profile", new, test)
    BY <2>4, <2>8, <2>9, InsertedRunsAreCorrect
  <2> QED  BY <1>1, <2>5, <2>7, <2>10 DEF AddsCorrect
<1>6. CASE CloseVersions
  BY <1>1, <1>6 DEF CloseVersions, GenerationGoes, AddsCorrect, CombosMeasurable
<1>7. CASE acc_profiling_exit
  BY <1>1, <1>7 DEF acc_profiling_exit, GenerationGoes, AddsCorrect, CombosMeasurable
<1> QED  BY <1>2, <1>3, <1>4, <1>5, <1>6, <1>7 DEF Generate

-----------------------------------------------------------------------------
(* The script and the executor.                                            *)
LEMMA WrittenIsCorrect ==
  ASSUME TablesCorrect, test' = test, NEW new, Write("profile", new), UNCHANGED db,
         Correct("profile", new, test)
  PROVE  TablesCorrect'
<1>1. Content("profile")' = new /\ \A f : f # "profile" => Content(f)' = Content(f)
  BY WriteContent
<1>2. \A f \in Files : Correct(f, Content(f)', test)
  BY <1>1 DEF TablesCorrect
<1> QED  BY <1>2 DEF TablesCorrect

LEMMA ScriptIsCorrect ==
  ASSUME ExperimentInv, TablesCorrect, test' = test, Script \/ Mark
  PROVE  TablesCorrect'
<1>0. /\ "execute" \in Programs /\ "versions" \in Files /\ "profile" \in Files
      /\ Connections /\ ExecutorCopies /\ FilesGood
      /\ Good("profile", Profile, num_devices) /\ Correct("profile", Profile, test)
      /\ TRUE \in BOOLEAN /\ FALSE \in BOOLEAN
  BY FilesAssumption, ProgramsAssumption
  DEF ExperimentInv, CopiesInv, FilesGood, Profile, TablesCorrect
<1>1. ASSUME NEW runs, NEW status \in 0..3, NEW new, new = SetStatus(Profile, runs, status)
      PROVE  Correct("profile", new, test)
  BY <1>0, <1>1, StatusIsCorrect
<1>2. ASSUME NEW new, Execute("execute", "profile", new), Correct("profile", new, test)
      PROVE  TablesCorrect'
  <2>1. Write("profile", new) /\ UNCHANGED db
    BY <1>0, <1>2, ExecutorWrites
  <2> QED  BY <1>2, <2>1, WrittenIsCorrect
<1>3. ASSUME NEW new, Execute("execute", "profile", new)
      PROVE  Tables("execute", "profile") = Profile
  BY <1>0, <1>3, ExecutorWrites
<1>4. CASE Mark
  <2>1. PICK new : new = SetStatus(Profile, InGroup(Profile, group', 0), 1)
    OBVIOUS
  <2>2. Write("profile", new) /\ UNCHANGED db
    BY <1>4, <2>1 DEF Mark
  <2> QED  BY <1>1, <2>1, <2>2, WrittenIsCorrect
<1>5. CASE Unmark
  <2>1. PICK new : new = SetStatus(Profile, InGroup(Profile, group, 1), 0)
    OBVIOUS
  <2>2. UNCHANGED <<db, lost>> /\ (Write("profile", new) \/ UNCHANGED disk)
    BY <1>5, <2>1 DEF Unmark
  <2>3. CASE Write("profile", new)
    BY <1>1, <2>1, <2>2, <2>3, WrittenIsCorrect
  <2>4. CASE UNCHANGED disk
    BY <2>2, <2>4, UnchangedIsCorrect DEF dbVars
  <2> QED  BY <2>2, <2>3, <2>4
<1>6. CASE InitExecution
  <2>1. PICK new : new = acc_profiling_init_db(Tables("execute", "profile"))
    OBVIOUS
  <2>2. Execute("execute", "profile", new)
    BY <1>6, <2>1 DEF InitExecution
  <2>3. Correct("profile", new, test)
    BY <1>0, <1>3, <2>1, <2>2, ProfilingIsCorrect DEF Good
  <2> QED  BY <1>2, <2>2, <2>3
<1>7. CASE Claim
  <2>1. PICK new : new = SetStatus(Profile, Current, 2)
    OBVIOUS
  <2> QED  BY <1>1, <1>2, <1>7, <2>1 DEF Claim, SetCurrent
<1>8. CASE Complete
  <2>1. PICK new : new = SetStatus(Profile, Current, 3)
    OBVIOUS
  <2> QED  BY <1>1, <1>2, <1>8, <2>1 DEF Complete, SetCurrent
<1>9. CASE Launch
  <2>1. PICK duration \in Durations :
          Execute("execute", "profile",
                  Insert(Tables("execute", "profile"), "Events",
                    << [run_id |-> RunField(Head(todo), 0), device_id |-> 0,
                        duration |-> duration] >>))
    BY <1>9 DEF Launch
  <2>2. PICK event : event = [run_id |-> RunField(Head(todo), 0), device_id |-> 0,
                              duration |-> duration]
    OBVIOUS
  <2>3. PICK new : new = Insert(Tables("execute", "profile"), "Events", <<event>>)
    OBVIOUS
  <2>4. Execute("execute", "profile", new) /\ new = Insert(Profile, "Events", <<event>>)
    BY <1>3, <2>1, <2>2, <2>3
  <2>5. event.duration \in Nat \ {0}
    BY <2>2, DurationsAssumption
  <2>6. Correct("profile", new, test)
    BY <1>0, <2>4, <2>5, InsertedEventIsCorrect DEF Good
  <2> QED  BY <1>2, <2>4, <2>6
<1>10. CASE OpenExecutedVersions \/ OpenExecutedProfile \/ ExitExecution
  <2>1. AddsCorrect("execute")
    BY <1>0, <1>10 DEF OpenExecutedVersions, OpenExecutedProfile, ExitExecution, AddsCorrect
  <2> QED  BY <1>0, <2>1, AddsCorrectStep
<1>11. CASE ScriptEnds \/ LoadVersion \/ ReadMarkedRuns
  <2>1. UNCHANGED dbVars
    BY <1>11 DEF ScriptEnds, LoadVersion, ReadMarkedRuns
  <2> QED  BY <2>1, UnchangedIsCorrect
<1> QED
  BY <1>4, <1>5, <1>6, <1>7, <1>8, <1>9, <1>10, <1>11 DEF Script

-----------------------------------------------------------------------------
(* Each of the placed elements has its row in one of the sequences that    *)
(* are held, and each row is that of one element.                          *)
PlacedBy(owner, at, placed, row, held) ==
  /\ \A i \in placed : /\ owner[i] \in DOMAIN held /\ at[i] \in DOMAIN held[owner[i]]
                       /\ held[owner[i]][at[i]] = row[i]
  /\ \A i, j \in placed : owner[i] = owner[j] /\ at[i] = at[j] => i = j
  /\ \A o \in DOMAIN held : \A k \in DOMAIN held[o] :
       \E i \in placed : owner[i] = o /\ at[i] = k

Placed(placed, row, held) == \E owner, at : PlacedBy(owner, at, placed, row, held)

Sequences(held) == \A o \in DOMAIN held : IsSequence(held[o])

LEMMA NonePlaced ==
  ASSUME NEW row, NEW held, \A o \in DOMAIN held : DOMAIN held[o] = {}
  PROVE  Placed({}, row, held)
BY DEF Placed, PlacedBy

LEMMA OneMorePlaced ==
  ASSUME NEW placed, NEW row, NEW held, Sequences(held), Placed(placed, row, held),
         NEW o \in DOMAIN held, NEW new, new \notin placed,
         NEW more, DOMAIN more = DOMAIN held, \A p \in DOMAIN held : p # o => more[p] = held[p],
         IsSequence(more[o]), Len(more[o]) = Len(held[o]) + 1,
         \A k \in 1..Len(held[o]) : more[o][k] = held[o][k],
         more[o][Len(held[o]) + 1] = row[new]
  PROVE  Placed(placed \cup {new}, row, more)
<1>1. PICK owner, at : PlacedBy(owner, at, placed, row, held)
  BY DEF Placed
<1> DEFINE n == Len(held[o]) + 1
           owner2 == [i \in placed \cup {new} |-> IF i = new THEN o ELSE owner[i]]
           at2 == [i \in placed \cup {new} |-> IF i = new THEN n ELSE at[i]]
<1>2. /\ Len(held[o]) \in Nat /\ DOMAIN held[o] = 1..Len(held[o])
      /\ DOMAIN more[o] = 1..n /\ n \in Nat /\ n \notin DOMAIN held[o]
      /\ DOMAIN more[o] = DOMAIN held[o] \cup {n}
  BY SequenceFacts DEF Sequences
<1>3. /\ owner2[new] = o /\ at2[new] = n
      /\ \A i \in placed : owner2[i] = owner[i] /\ at2[i] = at[i]
  OBVIOUS
<1>4. \A p \in DOMAIN held : \A k \in DOMAIN held[p] :
        k \in DOMAIN more[p] /\ more[p][k] = held[p][k]
  BY <1>2
<1>5. more[o][n] = row[new]
  OBVIOUS
<1> HIDE DEF n, owner2, at2
<1>6. \A i \in placed : /\ owner[i] \in DOMAIN held /\ at[i] \in DOMAIN held[owner[i]]
                        /\ held[owner[i]][at[i]] = row[i]
  BY <1>1 DEF PlacedBy
<1>7. \A i \in placed \cup {new} :
        /\ owner2[i] \in DOMAIN more /\ at2[i] \in DOMAIN more[owner2[i]]
        /\ more[owner2[i]][at2[i]] = row[i]
  BY <1>2, <1>3, <1>4, <1>5, <1>6
<1>8. \A i, j \in placed \cup {new} : owner2[i] = owner2[j] /\ at2[i] = at2[j] => i = j
  <2>1. \A i \in placed : ~(owner2[i] = owner2[new] /\ at2[i] = at2[new])
    BY <1>2, <1>3, <1>6
  <2>2. \A i, j \in placed : owner2[i] = owner2[j] /\ at2[i] = at2[j] => i = j
    BY <1>1, <1>3 DEF PlacedBy
  <2> QED  BY <2>1, <2>2
<1>9. ASSUME NEW p \in DOMAIN more, NEW k \in DOMAIN more[p]
      PROVE  \E i \in placed \cup {new} : owner2[i] = p /\ at2[i] = k
  <2>1. CASE p = o /\ k = n
    BY <1>3, <2>1
  <2>2. CASE ~(p = o /\ k = n)
    <3>1. k \in DOMAIN held[p]
      BY <1>2, <1>9, <2>2
    <3>2. PICK i \in placed : owner[i] = p /\ at[i] = k
      BY <1>1, <1>9, <3>1 DEF PlacedBy
    <3> QED  BY <1>3, <3>2
  <2> QED  BY <2>1, <2>2
<1>10. PlacedBy(owner2, at2, placed \cup {new}, row, more)
  BY <1>7, <1>8, <1>9 DEF PlacedBy
<1> QED  BY <1>10 DEF Placed

(* The sequence b is moved behind the sequence a.                          *)
LEMMA MovedPlaced ==
  ASSUME NEW placed, NEW row, NEW held, Sequences(held), Placed(placed, row, held),
         NEW a \in DOMAIN held, NEW b \in DOMAIN held, a # b,
         NEW moved, DOMAIN moved = DOMAIN held,
         \A p \in DOMAIN held : p # a /\ p # b => moved[p] = held[p],
         DOMAIN moved[b] = {},
         IsSequence(moved[a]), Len(moved[a]) = Len(held[a]) + Len(held[b]),
         \A k \in 1..Len(held[a]) : moved[a][k] = held[a][k],
         \A k \in 1..Len(held[b]) : moved[a][Len(held[a]) + k] = held[b][k]
  PROVE  Placed(placed, row, moved)
<1>1. PICK owner, at : PlacedBy(owner, at, placed, row, held)
  BY DEF Placed
<1> DEFINE n == Len(held[a])
           m == Len(held[b])
           owner2 == [i \in placed |-> IF owner[i] = b THEN a ELSE owner[i]]
           at2 == [i \in placed |-> IF owner[i] = b THEN n + at[i] ELSE at[i]]
<1>2. /\ n \in Nat /\ DOMAIN held[a] = 1..n /\ m \in Nat /\ DOMAIN held[b] = 1..m
      /\ DOMAIN moved[a] = 1..(n + m)
      /\ \A k \in 1..n : moved[a][k] = held[a][k]
      /\ \A k \in 1..m : moved[a][n + k] = held[b][k]
  BY SequenceFacts DEF Sequences
<1>3. \A i \in placed : /\ owner[i] = b => owner2[i] = a /\ at2[i] = n + at[i]
                        /\ owner[i] # b => owner2[i] = owner[i] /\ at2[i] = at[i]
  OBVIOUS
<1> HIDE DEF n, m, owner2, at2
<1>4. \A i \in placed : /\ owner[i] \in DOMAIN held /\ at[i] \in DOMAIN held[owner[i]]
                        /\ held[owner[i]][at[i]] = row[i]
  BY <1>1 DEF PlacedBy
<1>5. ASSUME NEW i \in placed
      PROVE  /\ owner2[i] \in DOMAIN moved /\ at2[i] \in DOMAIN moved[owner2[i]]
             /\ moved[owner2[i]][at2[i]] = row[i]
  <2>1. CASE owner[i] = b
    <3>1. owner2[i] = a /\ at2[i] = n + at[i] /\ at[i] \in 1..m
      BY <1>2, <1>3, <1>4, <2>1
    <3>2. moved[a][n + at[i]] = held[b][at[i]]
      BY <1>2, <3>1, Zenon
    <3>3. PICK k : k = at[i]
      OBVIOUS
    <3>4. n \in Nat /\ m \in Nat /\ k \in 1..m
      BY <1>2, <3>1, <3>3, Zenon
    <3>5. n + k \in 1..(n + m)
      BY <3>4
    <3> QED  BY <1>2, <1>4, <2>1, <3>1, <3>2, <3>3, <3>5, Zenon
  <2>2. CASE owner[i] = a
    <3>1. owner2[i] = a /\ at2[i] = at[i] /\ at[i] \in 1..n
      BY <1>2, <1>3, <1>4, <2>2
    <3>2. moved[a][at[i]] = held[a][at[i]]
      BY <1>2, <3>1, Zenon
    <3>3. PICK k : k = at[i]
      OBVIOUS
    <3>4. n \in Nat /\ m \in Nat /\ k \in 1..n
      BY <1>2, <3>1, <3>3, Zenon
    <3>5. k \in 1..(n + m)
      BY <3>4
    <3> QED  BY <1>2, <1>4, <2>2, <3>1, <3>2, <3>3, <3>5, Zenon
  <2>3. CASE owner[i] # a /\ owner[i] # b
    BY <1>3, <1>4, <2>3
  <2> QED  BY <2>1, <2>2, <2>3
<1>6. ASSUME NEW i \in placed, NEW j \in placed, owner2[i] = owner2[j], at2[i] = at2[j]
      PROVE  i = j
  <2>1. owner[i] = owner[j] /\ at[i] = at[j] => i = j
    BY <1>1 DEF PlacedBy
  <2>2. CASE owner[i] = b /\ owner[j] = b
    <3>1. at[i] \in 1..m /\ at[j] \in 1..m /\ n + at[i] = n + at[j]
      BY <1>2, <1>3, <1>4, <1>6, <2>2
    <3>2. at[i] = at[j]
      BY <1>2, <3>1
    <3> QED  BY <2>1, <2>2, <3>2
  <2>3. CASE owner[i] = b /\ owner[j] # b
    <3>1. owner[j] = a /\ at[j] = n + at[i] /\ at[i] \in 1..m /\ at[j] \in 1..n
      BY <1>2, <1>3, <1>4, <1>6, <2>3
    <3> QED  BY <1>2, <3>1
  <2>4. CASE owner[i] # b /\ owner[j] = b
    <3>1. owner[i] = a /\ at[i] = n + at[j] /\ at[j] \in 1..m /\ at[i] \in 1..n
      BY <1>2, <1>3, <1>4, <1>6, <2>4
    <3> QED  BY <1>2, <3>1
  <2>5. CASE owner[i] # b /\ owner[j] # b
    BY <1>3, <1>6, <2>1, <2>5
  <2> QED  BY <2>2, <2>3, <2>4, <2>5
<1>7. ASSUME NEW p \in DOMAIN moved, NEW k \in DOMAIN moved[p]
      PROVE  \E i \in placed : owner2[i] = p /\ at2[i] = k
  <2>1. \A o \in DOMAIN held : \A l \in DOMAIN held[o] :
          \E i \in placed : owner[i] = o /\ at[i] = l
    BY <1>1 DEF PlacedBy
  <2>2. CASE p = a /\ k \in 1..n
    <3>1. PICK i \in placed : owner[i] = a /\ at[i] = k
      <4>1. \A l \in DOMAIN held[a] : \E i \in placed : owner[i] = a /\ at[i] = l
        BY <2>1
      <4> QED  BY <1>2, <2>2, <4>1
    <3> QED  BY <1>3, <2>2, <3>1
  <2>3. CASE p = a /\ k \notin 1..n
    <3>1. k - n \in 1..m /\ k = n + (k - n)
      BY <1>2, <1>7, <2>3
    <3>2. PICK i \in placed : owner[i] = b /\ at[i] = k - n
      <4>1. \A l \in DOMAIN held[b] : \E i \in placed : owner[i] = b /\ at[i] = l
        BY <2>1
      <4> QED  BY <1>2, <3>1, <4>1
    <3>3. owner2[i] = a /\ at2[i] = n + (k - n)
      BY <1>3, <3>2
    <3> QED  BY <2>3, <3>1, <3>3
  <2>4. CASE p # a
    <3>1. p # b /\ k \in DOMAIN held[p]
      BY <1>7, <2>4
    <3>2. PICK i \in placed : owner[i] = p /\ at[i] = k
      BY <1>7, <2>1, <3>1
    <3> QED  BY <1>3, <3>1, <3>2
  <2> QED  BY <2>2, <2>3, <2>4
<1>8. PlacedBy(owner2, at2, placed, row, moved)
  BY <1>5, <1>6, <1>7 DEF PlacedBy
<1> QED  BY <1>8 DEF Placed

(* When one sequence holds all rows there are as many as elements.         *)
LEMMA AllPlaced ==
  ASSUME NEW n \in Nat, NEW row, NEW held, Sequences(held), Placed(1..n, row, held),
         NEW a \in DOMAIN held, \A o \in DOMAIN held : o # a => DOMAIN held[o] = {}
  PROVE  /\ Len(held[a]) = n
         /\ \A i \in 1..n : \E k \in DOMAIN held[a] : held[a][k] = row[i]
<1>1. PICK owner, at : PlacedBy(owner, at, 1..n, row, held)
  BY DEF Placed
<1>2. PICK m : m = Len(held[a])
  OBVIOUS
<1>3. m \in Nat /\ DOMAIN held[a] = 1..m
  BY <1>2, SequenceFacts DEF Sequences
<1>4. \A i \in 1..n : owner[i] = a /\ at[i] \in 1..m /\ held[a][at[i]] = row[i]
  BY <1>1, <1>3 DEF PlacedBy
<1>5. \A i, j \in 1..n : at[i] = at[j] => i = j
  BY <1>1, <1>4 DEF PlacedBy
<1>6. \A k \in 1..m : \E i \in 1..n : at[i] = k
  <2>1. \A k \in DOMAIN held[a] : \E i \in 1..n : owner[i] = a /\ at[i] = k
    BY <1>1, Zenon DEF PlacedBy
  <2> QED  BY <1>3, <2>1
<1> DEFINE f == [i \in 1..n |-> at[i]]
<1>7. f \in [1..n -> 1..m] /\ \A i \in 1..n : f[i] = at[i]
  BY <1>4
<1> HIDE DEF f
<1>8. f \in Bijection(1..n, 1..m)
  <2>1. \A i, j \in DOMAIN f : f[i] = f[j] => i = j
    BY <1>5, <1>7
  <2>2. \A k \in 1..m : \E i \in 1..n : f[i] = k
    BY <1>6, <1>7
  <2>3. f \in Injection(1..n, 1..m)
    BY <1>7, <2>1, Zenon DEF Injection, IsInjective
  <2>4. f \in Surjection(1..n, 1..m)
    BY <1>7, <2>2, Zenon DEF Surjection
  <2> QED  BY <2>3, <2>4 DEF Bijection
<1>9. ExistsBijection(1..n, 1..m)
  BY <1>8 DEF ExistsBijection
<1>10. /\ IsFiniteSet(1..n) /\ Cardinality(1..n) = n /\ Cardinality(1..m) = m
  <2>1. \A k \in Nat : IsFiniteSet(1..k) /\ Cardinality(1..k) = IF 1 > k THEN 0 ELSE k - 1 + 1
    BY FS_Interval
  <2>2. \A k \in Nat : (IF 1 > k THEN 0 ELSE k - 1 + 1) = k
    OBVIOUS
  <2> QED  BY <1>3, <2>1, <2>2
<1>11. m = n
  BY <1>9, <1>10, FS_Bijection
<1> QED  BY <1>2, <1>3, <1>4, <1>11

(* The end of a sequence.                                                  *)
IsEnd(end, s, n) == end = SubSeq(s, n + 1, Len(s))

LEMMA EndFacts ==
  ASSUME NEW s, IsSequence(s), NEW n \in Nat, n <= Len(s), NEW end, IsEnd(end, s, n)
  PROVE  /\ IsSequence(end) /\ Len(end) = Len(s) - n
         /\ \A k \in 1..(Len(s) - n) : end[k] = s[n + k]
<1>1. Len(s) \in Nat /\ DOMAIN s = 1..Len(s) /\ s \in Seq(Range(s))
  BY SequenceFacts DEF IsSequence
<1>2. /\ end \in Seq(Range(s)) /\ Len(end) = Len(s) - n
      /\ \A k \in 1..(Len(s) - n) : end[k] = s[n + k]
  <2>1. n + 1 \in Int /\ Len(s) \in Int /\ \A i \in (n + 1)..Len(s) : s[i] \in Range(s)
    BY <1>1 DEF Range
  <2>2. /\ end \in Seq(Range(s))
        /\ Len(end) = IF n + 1 <= Len(s) THEN Len(s) - (n + 1) + 1 ELSE 0
        /\ \A k \in 1..(Len(s) - (n + 1) + 1) : end[k] = s[(n + 1) + k - 1]
    BY <2>1, SubSeqProperties DEF IsEnd
  <2>3. Len(s) \in Nat
    BY <1>1
  <2>4. /\ (IF n + 1 <= Len(s) THEN Len(s) - (n + 1) + 1 ELSE 0) = Len(s) - n
        /\ Len(s) - (n + 1) + 1 = Len(s) - n
        /\ \A k \in 1..(Len(s) - n) : (n + 1) + k - 1 = n + k
    BY <2>3
  <2> QED  BY <2>2, <2>4, Zenon
<1> QED  BY <1>2, SequenceOf

-----------------------------------------------------------------------------
(* The connections of the analysis.                                        *)
AnalysisOpen ==
  /\ apc \in {"open_profile", "profiling_init", "read_runs", "evaluate", "summarise"} =>
       db["process"]["versions"].memory
  /\ apc \in {"profiling_init", "read_runs", "evaluate"} => db["process"]["profile"].memory
  /\ apc \in {"open_profile", "profiling_init", "read_runs"} =>
       db["process"]["versions"].tables = db["process"]["versions"].loaded
  /\ apc \in {"evaluate", "summarise"} =>
       "Performances" \in DOMAIN db["process"]["versions"].tables
  /\ apc # "evaluate" => batch = NoBatches

(* The rows for the runs that are evaluated: what is inserted, of no       *)
(* thread, and what the threads keep.                                      *)
Before == Len(Rows(db["process"]["versions"].loaded, "Performances"))
AllRows == Rows(db["process"]["versions"].tables, "Performances")
NewRows == SubSeq(AllRows, Before + 1, Len(AllRows))

Owners == {{}} \cup {{t} : t \in Threads}

HeldBy(new, rows) ==
  [o \in Owners |-> IF o = {} THEN new ELSE rows[CHOOSE t \in Threads : o = {t}]]

Evaluated(tables, runs) == [i \in DOMAIN runs |-> PerformanceOf(tables, runs[i])]

Evaluable(tables, runs) ==
  /\ "Events" \in DOMAIN tables
  /\ IsSequence(runs) /\ \A i \in DOMAIN runs : IsRunAt(runs[i], test)

Evaluating ==
  apc = "evaluate" =>
    LET profile == db["process"]["profile"].tables
    IN /\ Evaluable(profile, entries) /\ pending \subseteq DOMAIN entries
       /\ Before \in 0..Len(AllRows)
       /\ \A i \in DOMAIN entries \ pending :
            EventsOf(profile, RunField(entries[i], 0)) # <<>>
       /\ Placed(DOMAIN entries \ pending, Evaluated(profile, entries), HeldBy(NewRows, batch))

AnalysisInv == AnalysisOpen /\ Evaluating

LEMMA HeldFacts ==
  ASSUME NEW new, NEW rows
  PROVE  /\ DOMAIN HeldBy(new, rows) = Owners
         /\ {} \in Owners /\ HeldBy(new, rows)[{}] = new
         /\ \A t \in Threads : {t} \in Owners /\ HeldBy(new, rows)[{t}] = rows[t]
         /\ \A o \in Owners : o # {} => \E t \in Threads : o = {t}
<1>1. /\ DOMAIN HeldBy(new, rows) = Owners /\ {} \in Owners
      /\ \A o \in Owners : o # {} => \E t \in Threads : o = {t}
      /\ \A t \in Threads : {t} \in Owners /\ {t} # {}
  BY DEF HeldBy, Owners
<1>2. HeldBy(new, rows)[{}] = new
  BY <1>1 DEF HeldBy
<1>3. ASSUME NEW t \in Threads PROVE HeldBy(new, rows)[{t}] = rows[t]
  <2>1. (CHOOSE u \in Threads : {t} = {u}) = t
    <3>1. \E u \in Threads : {t} = {u}
      OBVIOUS
    <3>2. {t} = {CHOOSE u \in Threads : {t} = {u}}
      BY <3>1
    <3> QED  BY <3>2
  <2>2. HeldBy(new, rows)[{t}] = rows[CHOOSE u \in Threads : {t} = {u}]
    BY <1>1 DEF HeldBy
  <2> QED  BY <2>1, <2>2
<1> QED  BY <1>1, <1>2, <1>3

LEMMA HeldSequences ==
  ASSUME BatchInv, NEW new, IsSequence(new)
  PROVE  Sequences(HeldBy(new, batch))
<1>1. ASSUME NEW o \in DOMAIN HeldBy(new, batch) PROVE IsSequence(HeldBy(new, batch)[o])
  <2>1. CASE o = {}
    BY <2>1, HeldFacts
  <2>2. CASE o # {}
    <3>1. PICK t \in Threads : o = {t}
      BY <1>1, <2>2, HeldFacts
    <3>2. HeldBy(new, batch)[o] = batch[t]
      BY <3>1, HeldFacts
    <3> QED  BY <3>2 DEF BatchInv
  <2> QED  BY <2>1, <2>2
<1> QED  BY <1>1 DEF Sequences

LEMMA NewRowsFacts ==
  ASSUME FilesGood, Before \in 0..Len(AllRows)
  PROVE  /\ IsSequence(AllRows) /\ Len(AllRows) \in Nat /\ Before \in Nat
         /\ IsSequence(NewRows) /\ Len(NewRows) = Len(AllRows) - Before
         /\ \A k \in 1..(Len(AllRows) - Before) : NewRows[k] = AllRows[Before + k]
<1>1. "process" \in Programs /\ "versions" \in Files
  BY ProgramsAssumption, FilesAssumption
<1>2. IsTables(db["process"]["versions"].tables)
  BY <1>1 DEF FilesGood, Good
<1>3. PICK all : all = AllRows
  OBVIOUS
<1>4. IsSequence(all) /\ Len(all) \in Nat /\ Before \in Nat /\ Before <= Len(all)
  <2>1. IsSequence(all)
    BY <1>2, <1>3, TablesFacts DEF AllRows
  <2>2. Len(all) \in Nat
    BY <2>1, SequenceFacts
  <2> QED  BY <1>3, <2>1, <2>2
<1>5. PICK n : n = Before
  OBVIOUS
<1>6. PICK new : new = NewRows
  OBVIOUS
<1>7. IsEnd(new, all, n)
  BY <1>3, <1>5, <1>6, Zenon DEF NewRows, IsEnd
<1>8. /\ IsSequence(new) /\ Len(new) = Len(all) - n
      /\ \A k \in 1..(Len(all) - n) : new[k] = all[n + k]
  BY <1>4, <1>5, <1>7, EndFacts
<1> QED  BY <1>3, <1>4, <1>5, <1>6, <1>8

(* The connections and the variables of the analysis stay.                 *)
LEMMA AnalysisStays ==
  ASSUME AnalysisInv, UNCHANGED analysisVars, test' = test,
         \A f \in Files : db'["process"][f] = db["process"][f]
  PROVE  AnalysisInv'
<1>1. /\ apc' = apc /\ entries' = entries /\ pending' = pending /\ batch' = batch
      /\ db'["process"]["versions"] = db["process"]["versions"]
      /\ db'["process"]["profile"] = db["process"]["profile"]
  BY FilesAssumption DEF analysisVars
<1>2. AnalysisOpen'
  BY <1>1 DEF AnalysisInv, AnalysisOpen, NoBatches
<1>3. Before' = Before /\ AllRows' = AllRows /\ NewRows' = NewRows
  BY <1>1 DEF Before, AllRows, NewRows
<1>4. HeldBy(NewRows, batch)' = HeldBy(NewRows, batch)
  BY <1>1, <1>3 DEF HeldBy
<1>5. /\ Evaluable(db["process"]["profile"].tables, entries)'
           <=> Evaluable(db["process"]["profile"].tables, entries)
      /\ Evaluated(db["process"]["profile"].tables, entries)'
           = Evaluated(db["process"]["profile"].tables, entries)
  BY <1>1 DEF Evaluable, Evaluated
<1>6. Evaluating'
  BY <1>1, <1>3, <1>4, <1>5 DEF AnalysisInv, Evaluating
<1> QED  BY <1>2, <1>6 DEF AnalysisInv

LEMMA AnalysisElsewhere ==
  ASSUME apc' # "evaluate", AnalysisOpen'
  PROVE  AnalysisInv'
BY DEF AnalysisInv, Evaluating

(* The analysis before it evaluates runs and after it has done so.         *)
LEMMA OpeningKeepsAnalysis ==
  ASSUME Connections, AnalysisInv,
         OpenAnalysedVersions \/ OpenAnalysedProfile \/ InitAnalysis
  PROVE  AnalysisInv'
<1>0. "process" \in Programs /\ "versions" \in Files /\ "profile" \in Files /\ TRUE \in BOOLEAN
  BY ProgramsAssumption, FilesAssumption
<1>1. CASE OpenAnalysedVersions
  <2>1. /\ apc = "open_versions" /\ apc' = "open_profile" /\ batch' = batch
        /\ acc_sqlite_open("process", "versions", TRUE)
    BY <1>1 DEF OpenAnalysedVersions, AnalysisGoes
  <2>2. /\ db'["process"]["versions"].memory
        /\ db'["process"]["versions"].tables = db'["process"]["versions"].loaded
    BY <1>0, <2>1, OpenEffect
  <2>3. AnalysisOpen'
    BY <2>1, <2>2 DEF AnalysisInv, AnalysisOpen, NoBatches
  <2> QED  BY <2>1, <2>3, AnalysisElsewhere
<1>2. CASE OpenAnalysedProfile
  <2>1. /\ apc = "open_profile" /\ apc' = "profiling_init" /\ batch' = batch
        /\ acc_sqlite_open("process", "profile", TRUE)
    BY <1>2 DEF OpenAnalysedProfile, AnalysisGoes
  <2>2. db'["process"]["profile"].memory /\ Only("process", "profile")
    BY <1>0, <2>1, OpenEffect
  <2>3. db'["process"]["versions"] = db["process"]["versions"]
    BY <1>0, <2>2 DEF Only
  <2>4. AnalysisOpen'
    BY <2>1, <2>2, <2>3 DEF AnalysisInv, AnalysisOpen, NoBatches
  <2> QED  BY <2>1, <2>4, AnalysisElsewhere
<1>3. CASE InitAnalysis
  <2>1. PICK new : new = acc_profiling_init_db(AnalysisProfile)
    OBVIOUS
  <2>2. /\ apc = "profiling_init" /\ apc' = "read_runs" /\ batch' = batch
        /\ Execute("process", "profile", new)
    BY <1>3, <2>1 DEF InitAnalysis, AnalysisGoes
  <2>3. db'["process"]["profile"].memory = db["process"]["profile"].memory
        /\ Only("process", "profile")
    BY <1>0, <2>2, ExecuteEffect
  <2>4. db'["process"]["versions"] = db["process"]["versions"]
    BY <1>0, <2>3 DEF Only
  <2>5. AnalysisOpen'
    BY <2>2, <2>3, <2>4 DEF AnalysisInv, AnalysisOpen, NoBatches
  <2> QED  BY <2>2, <2>5, AnalysisElsewhere
<1> QED  BY <1>1, <1>2, <1>3

LEMMA ClosingKeepsAnalysis ==
  ASSUME Connections, AnalysisInv,
         SavePerformances \/ Summarise \/ SaveSummaries \/ ExitAnalysis
  PROVE  AnalysisInv'
<1>0. "process" \in Programs /\ "versions" \in Files
  BY ProgramsAssumption, FilesAssumption
<1>1. CASE SavePerformances
  <2>1. /\ apc = "evaluate" /\ apc' = "summarise" /\ batch = NoBatches /\ batch' = batch
        /\ acc_sqlite_save("process", "versions")
    BY <1>1 DEF SavePerformances
  <2>2. \/ UNCHANGED dbVars
        \/ /\ db'["process"]["versions"].memory
           /\ db'["process"]["versions"].tables = db["process"]["versions"].tables
    BY <1>0, <2>1, SaveEffect
  <2>3. AnalysisOpen'
    BY <2>1, <2>2 DEF AnalysisInv, AnalysisOpen, NoBatches, dbVars
  <2> QED  BY <2>1, <2>3, AnalysisElsewhere
<1>2. CASE Summarise \/ SaveSummaries \/ ExitAnalysis
  <2>1. /\ apc \in {"summarise", "save", "exit"} /\ apc' \in {"save", "exit", "end"}
        /\ batch' = batch
    BY <1>2 DEF Summarise, SaveSummaries, ExitAnalysis, AnalysisGoes
  <2>2. AnalysisOpen'
    BY <2>1 DEF AnalysisInv, AnalysisOpen, NoBatches
  <2> QED  BY <2>1, <2>2, AnalysisElsewhere
<1> QED  BY <1>1, <1>2

(* Reading the executed runs: nothing is placed yet, and each of them can  *)
(* be measured.                                                            *)
LEMMA ReadingKeepsAnalysis ==
  ASSUME ExperimentInv, TablesCorrect, AnalysisInv, test' = test,
         ReadExecutedRuns
  PROVE  AnalysisInv'
<1>0. /\ "process" \in Programs /\ "versions" \in Files /\ "profile" \in Files
      /\ Connections /\ FilesGood /\ BatchInv
  BY ProgramsAssumption, FilesAssumption DEF ExperimentInv, CopiesInv
<1>1. /\ apc = "read_runs" /\ apc' = "evaluate" /\ batch' = batch
      /\ {"Runs", "Events"} \subseteq DOMAIN AnalysisProfile
      /\ entries' = acc_sqlite_read_table(AnalysisProfile, "Runs", [executed |-> 3])
      /\ pending' = DOMAIN entries'
  BY DEF ReadExecutedRuns
<1>2. /\ db["process"]["versions"].memory /\ db["process"]["profile"].memory
      /\ db["process"]["versions"].tables = db["process"]["versions"].loaded
      /\ batch = NoBatches
  BY <1>1 DEF AnalysisInv, AnalysisOpen
<1>3. PICK profile : profile = db["process"]["profile"].tables
  OBVIOUS
<1>4. PICK versions : versions = db["process"]["versions"].tables
  OBVIOUS
<1>5. PICK new : new = acc_sqlite_create_table(versions, "Performances")
  OBVIOUS
<1>6. AnalysisProfile = profile /\ AnalysisVersions = versions
  BY <1>2, <1>3, <1>4 DEF AnalysisProfile, AnalysisVersions, Tables
<1>7. Execute("process", "versions", new)
  BY <1>5, <1>6 DEF ReadExecutedRuns
<1>8. /\ Only("process", "versions")
      /\ db'["process"]["versions"].memory
      /\ db'["process"]["versions"].tables = new
      /\ db'["process"]["versions"].loaded = versions
  BY <1>0, <1>2, <1>4, <1>7, ExecuteEffect
<1>9. db'["process"]["profile"] = db["process"]["profile"]
  BY <1>0, <1>8 DEF Only
<1>10. IsTables(versions)
  BY <1>0, <1>4 DEF FilesGood, Good
<1>11. "Performances" \in DOMAIN new /\ Rows(new, "Performances") = Rows(versions, "Performances")
  BY <1>5, <1>10, CreatedTable
<1>12. AnalysisOpen'
  BY <1>1, <1>2, <1>8, <1>9, <1>11 DEF AnalysisInv, AnalysisOpen
<1>13. PICK all : all = Rows(versions, "Performances")
  OBVIOUS
<1>14. AllRows' = all /\ Before' = Len(all)
  BY <1>8, <1>11, <1>13 DEF AllRows, Before
<1>15. IsSequence(all) /\ Len(all) \in Nat
  BY <1>10, <1>13, TablesFacts, SequenceFacts
<1>16. DOMAIN NewRows' = {}
  <2>1. PICK end : IsEnd(end, all, Len(all))
    BY DEF IsEnd
  <2>2. Len(all) <= Len(all)
    BY <1>15
  <2>3. IsSequence(end) /\ Len(end) = Len(all) - Len(all)
    BY <1>15, <2>1, <2>2, EndFacts
  <2>4. DOMAIN end = 1..Len(end) /\ Len(end) = 0
    BY <1>15, <2>3, SequenceFacts
  <2>5. NewRows' = end
    BY <1>14, <2>1, Zenon DEF NewRows, IsEnd
  <2> QED  BY <2>4, <2>5
<1>17. PICK runs : runs = entries'
  OBVIOUS
<1>18. Evaluable(profile, runs)
  <2>1. Good("profile", profile, 1) /\ Correct("profile", profile, test)
    BY <1>0, <1>2, <1>3, OneDevice DEF FilesGood, TablesCorrect
  <2>2. PICK table : table = profile["Runs"]
    OBVIOUS
  <2>3. table = Rows(profile, "Runs") /\ IsSequence(table)
    BY <1>1, <1>6, <2>1, <2>2, TablesFacts DEF Rows, Good
  <2>4. ASSUME NEW run \in Range(table) PROVE IsRunAt(run, test)
    <3>1. PICK i \in DOMAIN table : run = table[i]
      BY <2>4 DEF Range
    <3>2. IsRun(run, i, 1) /\ Measurable(run.params, test)
      BY <2>1, <2>3, <3>1 DEF Good, HoldsRuns, Correct, RunsMeasurable
    <3> QED  BY <3>2 DEF IsRunAt, IsRun, IsSequence
  <2>5. \E wanted : runs = Selected(table, wanted)
    BY <1>1, <1>6, <1>17, <2>2, Zenon DEF acc_sqlite_read_table
  <2>6. IsSequence(runs) /\ Range(runs) \subseteq Range(table)
    BY <2>3, <2>5, SelectedFacts
  <2>7. \A i \in DOMAIN runs : runs[i] \in Range(runs)
    BY DEF Range
  <2> QED  BY <1>1, <1>6, <2>4, <2>6, <2>7 DEF Evaluable
<1>19. PICK held : held = HeldBy(NewRows', batch)
  OBVIOUS
<1>20. \A o \in DOMAIN held : DOMAIN held[o] = {}
  <2>1. ASSUME NEW o \in DOMAIN held PROVE DOMAIN held[o] = {}
    <3>1. CASE o = {}
      BY <1>16, <1>19, <3>1, HeldFacts
    <3>2. CASE o # {}
      <4>1. PICK t \in Threads : o = {t}
        BY <1>19, <2>1, <3>2, HeldFacts
      <4>2. held[o] = batch[t] /\ batch[t] = <<>> /\ DOMAIN <<>> = {}
        BY <1>2, <1>19, <4>1, HeldFacts DEF NoBatches
      <4> QED  BY <4>2
    <3> QED  BY <3>1, <3>2
  <2> QED  BY <2>1
<1>21. \A row : Placed({}, row, held)
  BY <1>20, NonePlaced
<1>22. Before' \in 0..Len(AllRows')
  BY <1>14, <1>15
<1>23. /\ db'["process"]["profile"].tables = profile /\ entries' = runs
       /\ pending' = DOMAIN runs /\ HeldBy(NewRows, batch)' = held
  <2>1. HeldBy(NewRows, batch)' = held
    BY <1>1, <1>19 DEF HeldBy
  <2> QED  BY <1>1, <1>3, <1>9, <1>17, <2>1
<1>24. Evaluating'
  <2>1. DOMAIN runs \ DOMAIN runs = {}
    OBVIOUS
  <2>2. Placed({}, Evaluated(profile, runs), held)
    BY <1>21
  <2>3. /\ Evaluable(db["process"]["profile"].tables, entries)'
        /\ Evaluated(db["process"]["profile"].tables, entries)' = Evaluated(profile, runs)
    BY <1>18, <1>23 DEF Evaluable, Evaluated
  <2> QED  BY <1>22, <1>23, <2>1, <2>2, <2>3 DEF Evaluating
<1> QED  BY <1>12, <1>24 DEF AnalysisInv

(* The row a thread appends for a run.                                     *)
LEMMA EvaluatingKeepsAnalysis ==
  ASSUME ExperimentInv, AnalysisInv, test' = test,
         NEW th \in Threads, EvaluateRun(th)
  PROVE  AnalysisInv'
<1>0. BatchInv
  BY DEF ExperimentInv
<1>1. PICK i \in pending :
        /\ EventsOf(AnalysisProfile, RunField(entries[i], 0)) # <<>>
        /\ batch' = [batch EXCEPT ![th] = Append(@, PerformanceOf(AnalysisProfile, entries[i]))]
        /\ pending' = pending \ {i}
  BY DEF EvaluateRun
<1>2. apc = "evaluate" /\ apc' = apc /\ entries' = entries /\ UNCHANGED dbVars
  BY DEF EvaluateRun
<1>3. PICK profile : profile = db["process"]["profile"].tables
  OBVIOUS
<1>4. AnalysisProfile = profile
  BY <1>2, <1>3 DEF AnalysisProfile, Tables, AnalysisInv, AnalysisOpen
<1>5. /\ Evaluable(profile, entries) /\ pending \subseteq DOMAIN entries
      /\ Before \in 0..Len(AllRows)
      /\ \A j \in DOMAIN entries \ pending : EventsOf(profile, RunField(entries[j], 0)) # <<>>
      /\ Placed(DOMAIN entries \ pending, Evaluated(profile, entries), HeldBy(NewRows, batch))
  BY <1>2, <1>3 DEF AnalysisInv, Evaluating
<1>6. PICK row : row = PerformanceOf(profile, entries[i])
  OBVIOUS
<1>7. PICK longer : longer = Append(batch[th], row)
  OBVIOUS
<1>8. batch' = [t \in Threads |-> IF t = th THEN longer ELSE batch[t]]
  BY <1>0, <1>1, <1>4, <1>6, <1>7 DEF BatchInv
<1>9. /\ IsSequence(longer) /\ Len(longer) = Len(batch[th]) + 1
      /\ \A k \in 1..Len(batch[th]) : longer[k] = batch[th][k]
      /\ longer[Len(batch[th]) + 1] = row
  <2>1. IsSequence(batch[th]) /\ IsSequence(<<row>>)
    BY <1>0, NoRows DEF BatchInv
  <2>2. longer = batch[th] \o <<row>>
    <3>1. batch[th] \in Seq(Range(batch[th]) \cup {row}) /\ row \in Range(batch[th]) \cup {row}
      BY <2>1 DEF IsSequence
    <3> QED  BY <1>7, <3>1
  <2>3. PICK one : one = <<row>>
    OBVIOUS
  <2>4. Len(one) = 1 /\ one[1] = row /\ IsSequence(one) /\ IsJoin(longer, batch[th], one)
    BY <2>1, <2>2, <2>3 DEF IsJoin
  <2>5. /\ IsSequence(longer) /\ Len(longer) = Len(batch[th]) + Len(one)
        /\ \A k \in 1..Len(batch[th]) : longer[k] = batch[th][k]
        /\ \A k \in 1..Len(one) : longer[Len(batch[th]) + k] = one[k]
    <3>1. PICK s : s = batch[th]
      OBVIOUS
    <3>2. IsSequence(s) /\ IsSequence(one) /\ IsJoin(longer, s, one)
      BY <2>1, <2>4, <3>1
    <3>3. /\ IsSequence(longer) /\ Len(longer) = Len(s) + Len(one)
          /\ \A k \in 1..Len(s) : longer[k] = s[k]
          /\ \A k \in 1..Len(one) : longer[Len(s) + k] = one[k]
      BY <3>2, JoinedRows
    <3> QED  BY <3>1, <3>3, Zenon
  <2>6. 1 \in 1..Len(one)
    BY <2>4
  <2>7. longer[Len(batch[th]) + 1] = one[1]
    BY <2>5, <2>6
  <2> QED  BY <2>4, <2>5, <2>7
<1>10. PICK new : new = NewRows
  OBVIOUS
<1>11. IsSequence(new) /\ NewRows' = new
  <2>1. IsSequence(new)
    BY <1>5, <1>10, NewRowsFacts DEF ExperimentInv
  <2>2. AllRows' = AllRows /\ Before' = Before
    BY <1>2 DEF AllRows, Before, dbVars
  <2>3. NewRows' = NewRows
    BY <2>2 DEF NewRows
  <2> QED  BY <1>10, <2>1, <2>3
<1>12. PICK held : held = HeldBy(new, batch)
  OBVIOUS
<1>13. PICK more : more = HeldBy(new, batch')
  OBVIOUS
<1>14. /\ DOMAIN held = Owners /\ DOMAIN more = Owners /\ {th} \in Owners
       /\ held[{th}] = batch[th] /\ more[{th}] = longer
       /\ \A p \in Owners : p # {th} => more[p] = held[p]
  <2>1. /\ DOMAIN held = Owners /\ DOMAIN more = Owners /\ {th} \in Owners
        /\ held[{th}] = batch[th] /\ more[{th}] = batch'[th] /\ held[{}] = more[{}]
    BY <1>12, <1>13, HeldFacts
  <2>2. ASSUME NEW p \in Owners, p # {th} PROVE more[p] = held[p]
    <3>1. CASE p = {}
      BY <2>1, <3>1
    <3>2. CASE p # {}
      <4>1. PICK t \in Threads : p = {t}
        BY <3>2, HeldFacts
      <4>2. t # th
        BY <2>2, <4>1
      <4>3. held[p] = batch[t] /\ more[p] = batch'[t]
        BY <1>12, <1>13, <4>1, HeldFacts
      <4> QED  BY <1>8, <4>2, <4>3
    <3> QED  BY <3>1, <3>2
  <2> QED  BY <1>8, <2>1, <2>2
<1>15. PICK rows : rows = Evaluated(profile, entries)
  OBVIOUS
<1>16. rows[i] = row /\ i \in DOMAIN entries
  BY <1>5, <1>6, <1>15 DEF Evaluated
<1>17. PICK done : done = DOMAIN entries \ pending
  OBVIOUS
<1>18. i \notin done /\ DOMAIN entries \ pending' = done \cup {i}
  BY <1>1, <1>5, <1>17
<1>19. Sequences(held) /\ Placed(done, rows, held)
  BY <1>0, <1>5, <1>10, <1>11, <1>12, <1>15, <1>17, HeldSequences
<1>20. /\ IsSequence(more[{th}]) /\ Len(more[{th}]) = Len(held[{th}]) + 1
       /\ \A k \in 1..Len(held[{th}]) : more[{th}][k] = held[{th}][k]
       /\ more[{th}][Len(held[{th}]) + 1] = rows[i]
  BY <1>9, <1>14, <1>16
<1>21. Placed(done \cup {i}, rows, more)
  BY <1>14, <1>18, <1>19, <1>20, OneMorePlaced
<1>22. /\ db'["process"]["profile"].tables = profile
       /\ Before' \in 0..Len(AllRows') /\ HeldBy(NewRows, batch)' = more
       /\ Evaluated(db["process"]["profile"].tables, entries)' = rows
       /\ Evaluable(db["process"]["profile"].tables, entries)'
  <2>1. db' = db
    BY <1>2 DEF dbVars
  <2>2. Before' = Before /\ AllRows' = AllRows
    BY <2>1 DEF Before, AllRows
  <2>3. HeldBy(NewRows, batch)' = more
    BY <1>11, <1>13 DEF HeldBy
  <2>4. Evaluated(db["process"]["profile"].tables, entries)' = rows
    BY <1>2, <1>3, <1>15, <2>1 DEF Evaluated
  <2>5. Evaluable(db["process"]["profile"].tables, entries)'
    BY <1>2, <1>3, <1>5, <2>1 DEF Evaluable
  <2> QED  BY <1>3, <1>5, <2>1, <2>2, <2>3, <2>4, <2>5
<1>23. \A j \in DOMAIN entries \ pending' : EventsOf(profile, RunField(entries[j], 0)) # <<>>
  BY <1>1, <1>4, <1>5
<1>24. Evaluating'
  BY <1>1, <1>2, <1>5, <1>18, <1>21, <1>22, <1>23 DEF Evaluating
<1>25. AnalysisOpen'
  BY <1>2 DEF AnalysisInv, AnalysisOpen, dbVars
<1> QED  BY <1>24, <1>25 DEF AnalysisInv

(* The rows of a thread are inserted.                                      *)
LEMMA InsertingKeepsAnalysis ==
  ASSUME ExperimentInv, AnalysisInv, test' = test,
         NEW th \in Threads, InsertBatch(th)
  PROVE  AnalysisInv'
<1>0. /\ "process" \in Programs /\ "versions" \in Files /\ "profile" \in Files
      /\ Connections /\ FilesGood /\ BatchInv
  BY ProgramsAssumption, FilesAssumption DEF ExperimentInv, CopiesInv
<1>1. /\ apc = "evaluate" /\ apc' = apc /\ entries' = entries /\ pending' = pending
      /\ batch' = [batch EXCEPT ![th] = <<>>]
  BY DEF InsertBatch
<1>2. PICK profile : profile = db["process"]["profile"].tables
  OBVIOUS
<1>3. PICK versions : versions = db["process"]["versions"].tables
  OBVIOUS
<1>4. /\ db["process"]["versions"].memory /\ "Performances" \in DOMAIN versions
      /\ IsTables(versions) /\ AnalysisVersions = versions
  BY <1>0, <1>1, <1>3 DEF AnalysisInv, AnalysisOpen, FilesGood, Good, AnalysisVersions, Tables
<1>5. /\ Evaluable(profile, entries) /\ pending \subseteq DOMAIN entries
      /\ Before \in 0..Len(AllRows)
      /\ \A j \in DOMAIN entries \ pending : EventsOf(profile, RunField(entries[j], 0)) # <<>>
      /\ Placed(DOMAIN entries \ pending, Evaluated(profile, entries), HeldBy(NewRows, batch))
  BY <1>1, <1>2 DEF AnalysisInv, Evaluating
<1>6. PICK rows : rows = batch[th]
  OBVIOUS
<1>7. PICK tables : tables = Insert(versions, "Performances", rows)
  OBVIOUS
<1>8. Execute("process", "versions", tables)
  BY <1>4, <1>6, <1>7 DEF InsertBatch
<1>9. /\ Only("process", "versions")
      /\ db'["process"]["versions"].memory
      /\ db'["process"]["versions"].tables = tables
      /\ db'["process"]["versions"].loaded = db["process"]["versions"].loaded
  BY <1>0, <1>4, <1>8, ExecuteEffect
<1>10. db'["process"]["profile"] = db["process"]["profile"]
  BY <1>0, <1>9 DEF Only
<1>11. IsSequence(rows) /\ IsSequence(AllRows)
  BY <1>0, <1>5, <1>6, NewRowsFacts DEF BatchInv
<1>12. DOMAIN versions \subseteq DOMAIN tables
       /\ IsJoin(Rows(tables, "Performances"), Rows(versions, "Performances"), rows)
  BY <1>4, <1>7, <1>11, InsertedRows DEF Extends
<1>13. PICK all : all = AllRows'
  OBVIOUS
<1>14. /\ IsSequence(all) /\ Len(all) = Len(AllRows) + Len(rows)
       /\ \A k \in 1..Len(AllRows) : all[k] = AllRows[k]
       /\ \A k \in 1..Len(rows) : all[Len(AllRows) + k] = rows[k]
  <2>1. all = Rows(tables, "Performances") /\ AllRows = Rows(versions, "Performances")
    BY <1>3, <1>9, <1>13 DEF AllRows
  <2> QED  BY <1>11, <1>12, <2>1, JoinedRows
<1>15. Before' = Before
  BY <1>9 DEF Before
<1>16. /\ Len(AllRows) \in Nat /\ Before \in Nat /\ Before <= Len(AllRows)
       /\ IsSequence(NewRows) /\ Len(NewRows) = Len(AllRows) - Before
       /\ \A k \in 1..(Len(AllRows) - Before) : NewRows[k] = AllRows[Before + k]
       /\ Len(rows) \in Nat
  <2>1. /\ Len(AllRows) \in Nat /\ Before \in Nat /\ IsSequence(NewRows)
        /\ Len(NewRows) = Len(AllRows) - Before
        /\ \A k \in 1..(Len(AllRows) - Before) : NewRows[k] = AllRows[Before + k]
    BY <1>0, <1>5, NewRowsFacts
  <2> QED  BY <1>5, <1>11, <2>1, SequenceFacts
<1>17. PICK before, n, m : before = Before /\ n = Len(AllRows) /\ m = Len(rows)
  OBVIOUS
<1>18. PICK new : new = NewRows'
  OBVIOUS
<1>19. /\ IsSequence(new) /\ Len(new) = n + m - before
       /\ \A k \in 1..(n + m - before) : new[k] = all[before + k]
  <2>1. IsEnd(new, all, before) /\ Len(all) = n + m
    BY <1>13, <1>14, <1>15, <1>17, <1>18, Zenon DEF NewRows, IsEnd
  <2>2. before \in Nat /\ before <= Len(all) /\ IsSequence(all)
    BY <1>14, <1>16, <1>17, <2>1
  <2>3. /\ IsSequence(new) /\ Len(new) = Len(all) - before
        /\ \A k \in 1..(Len(all) - before) : new[k] = all[before + k]
    BY <2>1, <2>2, EndFacts
  <2>4. Len(all) - before = n + m - before
    <3>1. n \in Nat /\ m \in Nat /\ before \in Nat
      BY <1>16, <1>17
    <3>2. Len(all) = n + m
      BY <2>1
    <3> QED  BY <3>1, <3>2
  <2> QED  BY <2>3, <2>4
<1>20. /\ Len(new) = Len(NewRows) + Len(rows)
       /\ \A k \in 1..Len(NewRows) : new[k] = NewRows[k]
       /\ \A k \in 1..Len(rows) : new[Len(NewRows) + k] = rows[k]
  <2>1. Len(NewRows) = n - before /\ n \in Nat /\ m \in Nat /\ before \in Nat /\ before <= n
    BY <1>16, <1>17
  <2>2. ASSUME NEW k \in 1..(n - before) PROVE new[k] = NewRows[k]
    <3>1. k \in 1..(n + m - before) /\ before + k \in 1..n
      BY <2>1
    <3>2. new[k] = all[before + k] /\ all[before + k] = AllRows[before + k]
      BY <1>14, <1>17, <1>19, <3>1
    <3> QED  BY <1>16, <1>17, <2>2, <3>2
  <2>3. ASSUME NEW k \in 1..m PROVE new[(n - before) + k] = rows[k]
    <3>1. (n - before) + k \in 1..(n + m - before) /\ before + ((n - before) + k) = n + k
      BY <2>1
    <3>2. new[(n - before) + k] = all[n + k]
      BY <1>19, <3>1
    <3> QED  BY <1>14, <1>17, <3>2
  <2>4. n + m - before = (n - before) + m
    BY <2>1
  <2> QED  BY <1>17, <1>19, <2>1, <2>2, <2>3, <2>4
<1>21. PICK held : held = HeldBy(NewRows, batch)
  OBVIOUS
<1>22. PICK moved : moved = HeldBy(new, batch')
  OBVIOUS
<1>23. \A t \in Threads : batch'[t] = IF t = th THEN <<>> ELSE batch[t]
  BY <1>0, <1>1 DEF BatchInv
<1>24. /\ DOMAIN held = Owners /\ DOMAIN moved = Owners /\ {th} \in Owners /\ {} \in Owners
       /\ held[{th}] = rows /\ held[{}] = NewRows /\ moved[{}] = new
       /\ DOMAIN moved[{th}] = {}
       /\ \A p \in Owners : p # {} /\ p # {th} => moved[p] = held[p]
  <2>1. /\ DOMAIN held = Owners /\ DOMAIN moved = Owners /\ {th} \in Owners /\ {} \in Owners
        /\ held[{th}] = batch[th] /\ moved[{th}] = batch'[th]
        /\ held[{}] = NewRows /\ moved[{}] = new
    BY <1>21, <1>22, HeldFacts
  <2>2. ASSUME NEW p \in Owners, p # {}, p # {th} PROVE moved[p] = held[p]
    <3>1. PICK t \in Threads : p = {t}
      BY <2>2, HeldFacts
    <3>2. t # th
      BY <2>2, <3>1
    <3>3. held[p] = batch[t] /\ moved[p] = batch'[t]
      BY <1>21, <1>22, <3>1, HeldFacts
    <3> QED  BY <1>23, <3>2, <3>3
  <2>3. DOMAIN batch'[th] = {}
    <3>1. batch'[th] = <<>> /\ DOMAIN <<>> = {}
      BY <1>23
    <3> QED  BY <3>1
  <2> QED  BY <1>6, <2>1, <2>2, <2>3
<1>25. PICK results : results = Evaluated(profile, entries)
  OBVIOUS
<1>26. PICK done : done = DOMAIN entries \ pending
  OBVIOUS
<1>27. Sequences(held) /\ Placed(done, results, held)
  BY <1>0, <1>5, <1>16, <1>21, <1>25, <1>26, HeldSequences
<1>28. {} # {th}
  OBVIOUS
<1>29. /\ IsSequence(moved[{}]) /\ Len(moved[{}]) = Len(held[{}]) + Len(held[{th}])
       /\ \A k \in 1..Len(held[{}]) : moved[{}][k] = held[{}][k]
       /\ \A k \in 1..Len(held[{th}]) : moved[{}][Len(held[{}]) + k] = held[{th}][k]
  BY <1>19, <1>20, <1>24
<1>30. Placed(done, results, moved)
  <2>1. /\ DOMAIN moved = DOMAIN held /\ {} \in DOMAIN held /\ {th} \in DOMAIN held
        /\ \A p \in DOMAIN held : p # {} /\ p # {th} => moved[p] = held[p]
        /\ DOMAIN moved[{th}] = {}
    BY <1>24
  <2> QED  BY <1>27, <1>28, <1>29, <2>1, MovedPlaced
<1>31. /\ db'["process"]["profile"].tables = profile
       /\ Before' \in 0..Len(AllRows') /\ HeldBy(NewRows, batch)' = moved
       /\ Evaluated(db["process"]["profile"].tables, entries)' = results
       /\ Evaluable(db["process"]["profile"].tables, entries)'
  <2>1. Before' \in 0..Len(AllRows')
    <3>1. Before \in 0..Len(all)
      BY <1>14, <1>16
    <3> QED  BY <1>13, <1>15, <3>1
  <2>2. HeldBy(NewRows, batch)' = moved
    BY <1>18, <1>22 DEF HeldBy
  <2>3. Evaluated(db["process"]["profile"].tables, entries)' = results
    BY <1>1, <1>2, <1>10, <1>25 DEF Evaluated
  <2>4. Evaluable(db["process"]["profile"].tables, entries)'
    BY <1>1, <1>2, <1>5, <1>10 DEF Evaluable
  <2> QED  BY <1>2, <1>10, <2>1, <2>2, <2>3, <2>4
<1>32. Evaluating'
  BY <1>1, <1>5, <1>26, <1>30, <1>31 DEF Evaluating
<1>33. AnalysisOpen'
  <2>1. "Performances" \in DOMAIN tables
    BY <1>4, <1>12
  <2> QED  BY <1>1, <1>9, <1>10, <2>1 DEF AnalysisInv, AnalysisOpen
<1> QED  BY <1>32, <1>33 DEF AnalysisInv

-----------------------------------------------------------------------------
(* What the threads keep comes from runs that can be measured.             *)
LEMMA BatchesAreMeasured ==
  ASSUME ExperimentInv, TablesCorrect, AnalysisInv, apc = "evaluate", NEW t \in Threads
  PROVE  \A k \in DOMAIN batch[t] : IsGflops(batch[t][k].gflops)
<1>1. SUFFICES ASSUME NEW k \in DOMAIN batch[t] PROVE IsGflops(batch[t][k].gflops)
  OBVIOUS
<1>2. PICK profile : profile = db["process"]["profile"].tables
  OBVIOUS
<1>3. /\ Evaluable(profile, entries)
      /\ \A i \in DOMAIN entries \ pending : EventsOf(profile, RunField(entries[i], 0)) # <<>>
      /\ Placed(DOMAIN entries \ pending, Evaluated(profile, entries), HeldBy(NewRows, batch))
  BY <1>2 DEF AnalysisInv, Evaluating
<1>4. PICK held : held = HeldBy(NewRows, batch)
  OBVIOUS
<1>5. PICK rows : rows = Evaluated(profile, entries)
  OBVIOUS
<1>6. {t} \in DOMAIN held /\ held[{t}] = batch[t]
  BY <1>4, HeldFacts
<1>7. PICK i \in DOMAIN entries \ pending : batch[t][k] = rows[i]
  <2>1. PICK owner, at : PlacedBy(owner, at, DOMAIN entries \ pending, rows, held)
    BY <1>3, <1>4, <1>5 DEF Placed
  <2>2. PICK i \in DOMAIN entries \ pending : owner[i] = {t} /\ at[i] = k
    BY <1>6, <2>1 DEF PlacedBy
  <2>3. held[owner[i]][at[i]] = rows[i]
    BY <2>1 DEF PlacedBy
  <2> QED  BY <1>6, <2>2, <2>3
<1>8. rows[i] = PerformanceOf(profile, entries[i])
  BY <1>5 DEF Evaluated
<1>9. IsTables(profile) /\ Correct("profile", profile, test)
  BY <1>2, ProgramsAssumption, FilesAssumption DEF ExperimentInv, FilesGood, Good, TablesCorrect
<1>10. /\ IsTables(profile) /\ "Events" \in DOMAIN profile /\ EventsTakeTime(profile)
       /\ IsRunAt(entries[i], test) /\ EventsOf(profile, RunField(entries[i], 0)) # <<>>
  BY <1>3, <1>9 DEF Evaluable, Correct
<1>11. IsGflops(PerformanceOf(profile, entries[i]).gflops)
  BY <1>10, PerformanceIsOfRun
<1> QED  BY <1>7, <1>8, <1>11

LEMMA AnalyseIsCorrect ==
  ASSUME ExperimentInv, TablesCorrect, AnalysisInv, Analyse
  PROVE  AddsCorrect("process") \/ UNCHANGED dbVars
<1>1. /\ "versions" \in Files /\ "profile" \in Files /\ TRUE \in BOOLEAN /\ "process" \in Programs
      /\ FilesGood /\ BatchInv
  BY FilesAssumption, ProgramsAssumption DEF ExperimentInv
<1>2. /\ IsTables(AnalysisVersions) /\ Correct("versions", AnalysisVersions, test)
      /\ IsTables(AnalysisProfile) /\ Correct("profile", AnalysisProfile, test)
  BY <1>1, TablesAreGood, TablesAreCorrect DEF AnalysisVersions, AnalysisProfile, Good
<1>3. ASSUME NEW new, Execute("process", "versions", new), Correct("versions", new, test)
      PROVE  AddsCorrect("process")
  BY <1>1, <1>3 DEF AddsCorrect
<1>4. CASE OpenAnalysedVersions \/ OpenAnalysedProfile \/ SavePerformances \/ SaveSummaries
           \/ ExitAnalysis
  BY <1>1, <1>4
  DEF OpenAnalysedVersions, OpenAnalysedProfile, SavePerformances, SaveSummaries, ExitAnalysis,
      AddsCorrect
<1>5. CASE InitAnalysis
  <2>1. PICK new : new = acc_profiling_init_db(AnalysisProfile)
    OBVIOUS
  <2>2. Execute("process", "profile", new)
    BY <1>5, <2>1 DEF InitAnalysis
  <2>3. Correct("profile", new, test)
    BY <1>2, <2>1, ProfilingIsCorrect
  <2> QED  BY <1>1, <2>2, <2>3 DEF AddsCorrect
<1>6. CASE ReadExecutedRuns
  <2>1. PICK new : new = acc_sqlite_create_table(AnalysisVersions, "Performances")
    OBVIOUS
  <2>2. Execute("process", "versions", new)
    BY <1>6, <2>1 DEF ReadExecutedRuns
  <2>3. Correct("versions", new, test)
    BY <1>2, <2>1, CreatedIsCorrect
  <2> QED  BY <1>3, <2>2, <2>3
<1>7. ASSUME NEW th \in Threads, EvaluateRun(th)
      PROVE  UNCHANGED dbVars
  BY <1>7 DEF EvaluateRun
<1>8. ASSUME NEW th \in Threads, InsertBatch(th)
      PROVE  AddsCorrect("process")
  <2>1. PICK new : new = Insert(AnalysisVersions, "Performances", batch[th])
    OBVIOUS
  <2>2. Execute("process", "versions", new) /\ apc = "evaluate"
    BY <1>8, <2>1 DEF InsertBatch
  <2>3. IsSequence(batch[th]) /\ \A k \in DOMAIN batch[th] : IsGflops(batch[th][k].gflops)
    BY <1>1, <2>2, BatchesAreMeasured DEF BatchInv
  <2>4. Correct("versions", new, test)
    BY <1>2, <2>1, <2>3, InsertedPerformancesAreCorrect
  <2> QED  BY <1>3, <2>2, <2>4
<1>9. CASE Summarise
  <2>1. PICK a : a = VersionPerf(AnalysisVersions)
    OBVIOUS
  <2>2. PICK new : new = ParamPerf(a)
    OBVIOUS
  <2>3. apc = "summarise" /\ Execute("process", "versions", new)
    BY <1>9, <2>1, <2>2 DEF Summarise, AnalysisGoes
  <2>4. "Performances" \in DOMAIN AnalysisVersions
    BY <2>3 DEF AnalysisInv, AnalysisOpen, AnalysisVersions, Tables
  <2>5. Correct("versions", a, test)
    BY <1>2, <2>1, <2>4, VersionPerfIsCorrect
  <2>6. IsTables(a) /\ Extends(AnalysisVersions, a)
    BY <1>2, <2>1, VersionPerfTables
  <2>7. "Performances" \in DOMAIN a
    BY <2>4, <2>6 DEF Extends
  <2>8. Correct("versions", new, test)
    BY <2>2, <2>5, <2>6, <2>7, ParamPerfIsCorrect
  <2> QED  BY <1>3, <2>3, <2>8
<1> QED  BY <1>4, <1>5, <1>6, <1>7, <1>8, <1>9 DEF Analyse

-----------------------------------------------------------------------------
(* What the numbers in the tables rest on.                                 *)
NumbersInv == TablesCorrect /\ CombosMeasurable /\ AnalysisInv

LEMMA UserVersionsAreCorrect ==
  ASSUME NEW t
  PROVE  Correct("versions", UserVersions, t)
<1>1. \A name \in {"Performances", "VersionPerf", "ParamPerf"} :
        Range(Rows(UserVersions, name)) = {}
  <2>1. \A name \in {"Performances", "VersionPerf", "ParamPerf"} : Rows(UserVersions, name) = <<>>
    BY VersionsAssumption DEF Rows
  <2>2. Range(<<>>) = {}
    BY DEF Range
  <2> QED  BY <2>1, <2>2
<1>2. ReferToPerformances(UserVersions)
  BY <1>1, RefersIs
<1> QED  BY <1>1, <1>2, CorrectIs

LEMMA EarlierIsCorrect == Correct("profile", Earlier, "109")
<1>1. ASSUME NEW run \in Range(Rows(Earlier, "Runs")) PROVE Measurable(run.params, "109")
  <2>1. /\ run.params \in Seq(Nat) /\ Len(run.params) = 3
        /\ 2 * run.params[1] * run.params[2] * run.params[3] < TooFast
    BY TooFastAssumption
  <2> QED  BY <2>1 DEF Measurable, NumParams, Work
<1> QED  BY <1>1, DurationsAssumption, CorrectIs

LEMMA NumbersStart == Init => NumbersInv
<1> SUFFICES ASSUME Init PROVE NumbersInv
  OBVIOUS
<1>1. /\ db = [p \in Programs |-> [f \in Files |-> Closed]]
      /\ combos = <<>> /\ apc = "off" /\ batch = NoBatches
  BY DEF Init
<1>2. ASSUME NEW f \in Files PROVE Correct(f, Content(f), test)
  <2>1. CASE disk = [g \in {"versions"} |-> UserVersions]
    <3>1. Content("versions") = UserVersions /\ Content("profile") = NoTables
      BY <2>1 DEF Content, FileExists
    <3> QED  BY <3>1, FilesAssumption, UserVersionsAreCorrect, NoTablesAreCorrect
  <2>2. CASE test = "109" /\ disk = [g \in Files |-> IF g = "versions" THEN UserVersions ELSE Earlier]
    <3>1. Content("versions") = UserVersions /\ Content("profile") = Earlier
      BY <2>2, FilesAssumption DEF Content, FileExists
    <3> QED  BY <2>2, <3>1, FilesAssumption, UserVersionsAreCorrect, EarlierIsCorrect
  <2> QED  BY <2>1, <2>2 DEF Init
<1>3. \A p \in Programs, f \in Files : Correct(f, db[p][f].tables, test)
  BY <1>1, NoTablesAreCorrect DEF Closed
<1>4. CombosMeasurable
  BY <1>1 DEF CombosMeasurable
<1>5. AnalysisInv
  BY <1>1 DEF AnalysisInv, AnalysisOpen, Evaluating
<1> QED  BY <1>2, <1>3, <1>4, <1>5 DEF NumbersInv, TablesCorrect

(* Another program does not touch the connections of the analysis.         *)
LEMMA OthersKeepAnalysis ==
  ASSUME Connections, AnalysisInv, UNCHANGED analysisVars,
         test' = test, NEW p \in Programs, p # "process", Uses(p) \/ UNCHANGED dbVars
  PROVE  AnalysisInv'
<1>1. "process" \in Programs
  BY ProgramsAssumption
<1>2. \A f \in Files : db'["process"][f] = db["process"][f]
  BY <1>1, UsesOwn DEF dbVars
<1> QED  BY <1>2, AnalysisStays

LEMMA AnalyseKeepsNumbers ==
  ASSUME ExperimentInv, NumbersInv, Analyse, UNCHANGED generationVars
  PROVE  NumbersInv'
<1>0. /\ TablesCorrect /\ CombosMeasurable /\ AnalysisInv /\ Connections
      /\ test' = test /\ combos' = combos
      /\ "process" \in Programs
  BY ProgramsAssumption DEF NumbersInv, ExperimentInv, CopiesInv, generationVars
<1>1. AddsCorrect("process") \/ UNCHANGED dbVars
  BY <1>0, AnalyseIsCorrect
<1>2. TablesCorrect'
  BY <1>0, <1>1, AddsCorrectStep, UnchangedIsCorrect
<1>3. CASE OpenAnalysedVersions \/ OpenAnalysedProfile \/ InitAnalysis
  BY <1>0, <1>2, <1>3, OpeningKeepsAnalysis DEF NumbersInv, CombosMeasurable
<1>4. CASE SavePerformances \/ Summarise \/ SaveSummaries \/ ExitAnalysis
  BY <1>0, <1>2, <1>4, ClosingKeepsAnalysis DEF NumbersInv, CombosMeasurable
<1>5. CASE ReadExecutedRuns
  BY <1>0, <1>2, <1>5, ReadingKeepsAnalysis DEF NumbersInv, CombosMeasurable
<1>6. ASSUME NEW th \in Threads, EvaluateRun(th) PROVE NumbersInv'
  BY <1>0, <1>2, <1>6, EvaluatingKeepsAnalysis DEF NumbersInv, CombosMeasurable
<1>7. ASSUME NEW th \in Threads, InsertBatch(th) PROVE NumbersInv'
  BY <1>0, <1>2, <1>7, InsertingKeepsAnalysis DEF NumbersInv, CombosMeasurable
<1> QED  BY <1>3, <1>4, <1>5, <1>6, <1>7 DEF Analyse

LEMMA NumbersStep == ExperimentInv /\ NumbersInv /\ [Next]_vars => NumbersInv'
<1> SUFFICES ASSUME ExperimentInv, NumbersInv, [Next]_vars PROVE NumbersInv'
  OBVIOUS
<1>0. /\ TablesCorrect /\ CombosMeasurable /\ AnalysisInv /\ Connections /\ ExecutorCopies
      /\ FilesGood /\ CombosInv
      /\ "generate" \in Programs /\ "process" \in Programs /\ "execute" \in Programs
  BY ProgramsAssumption DEF NumbersInv, ExperimentInv, CopiesInv
<1>1. ASSUME combos' = combos \/ combos' = <<>>, test' = test PROVE CombosMeasurable'
  BY <1>0, <1>1 DEF CombosMeasurable
<1>2. ASSUME UNCHANGED dbVars, test' = test
      PROVE  /\ TablesCorrect'
             /\ UNCHANGED analysisVars => AnalysisInv'
  BY <1>0, <1>2, UnchangedIsCorrect, OthersKeepAnalysis
<1>3. CASE Generate /\ UNCHANGED <<analysisVars, executorVars, userVars>>
  <2>1. AddsCorrect("generate") /\ test' = test /\ CombosMeasurable'
    BY <1>0, <1>3, GenerateIsCorrect
  <2>2. TablesCorrect'
    BY <1>0, <2>1, AddsCorrectStep
  <2>3. Uses("generate") \/ UNCHANGED dbVars
    BY <1>3, GenerateUses
  <2>4. UNCHANGED analysisVars
    BY <1>3 DEF Generate, OpenVersions, OpenProfile, LoadGenData, acc_tuning_generate,
                CloseVersions, acc_profiling_exit, GenerationGoes
  <2>5. AnalysisInv'
    BY <1>0, <2>1, <2>3, <2>4, OthersKeepAnalysis
  <2> QED  BY <2>1, <2>2, <2>5 DEF NumbersInv
<1>4. CASE Analyse /\ UNCHANGED <<generationVars, executorVars, userVars>>
  BY <1>4, AnalyseKeepsNumbers
<1>5. CASE (Script \/ Mark) /\ UNCHANGED <<generationVars, analysisVars>>
  <2>1. /\ test' = test /\ combos' = combos
        /\ UNCHANGED analysisVars
    BY <1>5 DEF generationVars
  <2>2. TablesCorrect'
    BY <1>0, <1>5, <2>1, ScriptIsCorrect
  <2>3. Uses("execute") \/ UNCHANGED dbVars
    BY <1>0, <1>5, ScriptUses
  <2>4. AnalysisInv'
    BY <1>0, <2>1, <2>3, OthersKeepAnalysis
  <2> QED  BY <1>1, <2>1, <2>2, <2>4 DEF NumbersInv
<1>6. CASE StartGeneration \/ StartScript
  <2>1. /\ UNCHANGED dbVars /\ test' = test
        /\ UNCHANGED analysisVars /\ (combos' = combos \/ combos' = <<>>)
    BY <1>6 DEF StartGeneration, StartScript, Start, generationVars
  <2> QED  BY <1>1, <1>2, <2>1 DEF NumbersInv
<1>7. CASE StartAnalysis
  <2>1. /\ UNCHANGED dbVars /\ test' = test
        /\ combos' = combos
        /\ apc' = "open_versions" /\ batch' = NoBatches
    BY <1>7 DEF StartAnalysis, Start, generationVars
  <2>2. AnalysisOpen'
    BY <2>1 DEF AnalysisOpen, NoBatches
  <2>3. AnalysisInv'
    BY <2>1, <2>2, AnalysisElsewhere
  <2> QED  BY <1>1, <1>2, <2>1, <2>3 DEF NumbersInv
<1>8. CASE EndGeneration \/ EndExecution
  <2>1. PICK p \in Programs : p # "process" /\ Disconnect(p)
    BY <1>0, <1>8 DEF EndGeneration, EndExecution
  <2>2. /\ UNCHANGED disk /\ test' = test
        /\ UNCHANGED analysisVars /\ (combos' = combos \/ combos' = <<>>)
    BY <1>8 DEF EndGeneration, EndExecution, generationVars
  <2>3. TablesCorrect'
    BY <1>0, <2>1, <2>2, DisconnectedIsCorrect
  <2>4. \A f \in Files : db'["process"][f] = db["process"][f]
    BY <1>0, <2>1, DisconnectEffect
  <2>5. AnalysisInv'
    BY <1>0, <2>2, <2>4, AnalysisStays
  <2> QED  BY <1>1, <2>2, <2>3, <2>5 DEF NumbersInv
<1>9. CASE EndAnalysis
  <2>1. /\ Disconnect("process") /\ UNCHANGED disk /\ test' = test /\ combos' = combos
        /\ apc' = "off" /\ batch' = NoBatches
    BY <1>9 DEF EndAnalysis, generationVars
  <2>2. TablesCorrect'
    BY <1>0, <2>1, DisconnectedIsCorrect
  <2>3. AnalysisOpen'
    BY <2>1 DEF AnalysisOpen, NoBatches
  <2>4. AnalysisInv'
    BY <2>1, <2>3, AnalysisElsewhere
  <2> QED  BY <1>1, <2>1, <2>2, <2>4 DEF NumbersInv
<1>10. CASE UNCHANGED vars
  <2>1. /\ UNCHANGED dbVars /\ test' = test
        /\ UNCHANGED analysisVars /\ combos' = combos
    BY <1>10 DEF vars, generationVars
  <2> QED  BY <1>1, <1>2, <2>1 DEF NumbersInv
<1> QED
  BY <1>3, <1>4, <1>5, <1>6, <1>7, <1>8, <1>9, <1>10 DEF Next

LEMMA NumbersAlways == Spec => []NumbersInv
<1> QED  BY ExperimentAlways, NumbersStart, NumbersStep, PTL DEF Spec

(* Each summary in the file of versions names runs that have in the table  *)
(* of performances what it tells of them, whatever programs ran at the     *)
(* same time and wherever they failed.                                     *)
THEOREM SummariesAlwaysReferToPerformances == Spec => []SummariesReferToPerformances
<1>1. NumbersInv => SummariesReferToPerformances
  BY FilesAssumption DEF NumbersInv, TablesCorrect, Correct, SummariesReferToPerformances
<1> QED  BY <1>1, NumbersAlways, PTL

(* When the threads of the analysis have met behind the loop, the table of *)
(* performances has got as many rows as there are executed runs and a      *)
(* right one for each, whichever threads took which runs and in which      *)
(* order they inserted.                                                    *)
THEOREM EveryExecutedRunIsEvaluatedOnce == Spec => []EveryExecutedRunOnce
<1>1. ASSUME ExperimentInv, NumbersInv PROVE EveryExecutedRunOnce
  <2>1. SUFFICES ASSUME apc = "evaluate", pending = {}, batch = NoBatches
                 PROVE  /\ Len(NewRows) = Len(entries)
                        /\ \A i \in DOMAIN entries : \E j \in DOMAIN NewRows :
                             IsPerformanceOf(NewRows[j], entries[i],
                                             EventsOf(AnalysisProfile, entries[i].rowid))
    <3>1. AnalysisInv
      BY <1>1 DEF NumbersInv
    <3>2. apc = "evaluate" => AnalysisVersions["Performances"] = AllRows
      BY <3>1 DEF AnalysisInv, AnalysisOpen, AnalysisVersions, Tables, AllRows, Rows
    <3> QED  BY <2>1, <3>2, Zenon DEF EveryExecutedRunOnce, NewRows, Before
  <2>2. /\ AnalysisInv /\ TablesCorrect /\ FilesGood /\ BatchInv
        /\ "process" \in Programs /\ "profile" \in Files
    BY <1>1, ProgramsAssumption, FilesAssumption DEF NumbersInv, ExperimentInv
  <2>3. PICK profile : profile = db["process"]["profile"].tables
    OBVIOUS
  <2>4. AnalysisProfile = profile
    BY <2>1, <2>2, <2>3 DEF AnalysisInv, AnalysisOpen, AnalysisProfile, Tables
  <2>5. /\ Evaluable(profile, entries) /\ Before \in 0..Len(AllRows)
        /\ \A i \in DOMAIN entries : EventsOf(profile, RunField(entries[i], 0)) # <<>>
        /\ Placed(DOMAIN entries, Evaluated(profile, entries), HeldBy(NewRows, batch))
    BY <2>1, <2>2, <2>3 DEF AnalysisInv, Evaluating
  <2>6. IsTables(profile) /\ EventsTakeTime(profile) /\ "Events" \in DOMAIN profile
    BY <2>2, <2>3, <2>5 DEF FilesGood, Good, TablesCorrect, Correct, Evaluable
  <2>7. PICK held : held = HeldBy(NewRows, batch)
    OBVIOUS
  <2>8. PICK rows : rows = Evaluated(profile, entries)
    OBVIOUS
  <2>9. /\ Sequences(held) /\ {} \in DOMAIN held /\ held[{}] = NewRows
        /\ \A o \in DOMAIN held : o # {} => DOMAIN held[o] = {}
    <3>1. Sequences(held)
      BY <2>2, <2>5, <2>7, NewRowsFacts, HeldSequences
    <3>2. ASSUME NEW o \in DOMAIN held, o # {} PROVE DOMAIN held[o] = {}
      <4>1. PICK t \in Threads : o = {t}
        BY <2>7, <3>2, HeldFacts
      <4>2. held[o] = batch[t] /\ batch[t] = <<>> /\ DOMAIN <<>> = {}
        BY <2>1, <2>7, <4>1, HeldFacts DEF NoBatches
      <4> QED  BY <4>2
    <3> QED  BY <2>7, <3>1, <3>2, HeldFacts
  <2>10. PICK n \in Nat : n = Len(entries) /\ DOMAIN entries = 1..n
    BY <2>5, SequenceFacts DEF Evaluable
  <2>11. Placed(1..n, rows, held)
    BY <2>5, <2>7, <2>8, <2>10
  <2>12. /\ Len(held[{}]) = n
         /\ \A i \in 1..n : \E k \in DOMAIN held[{}] : held[{}][k] = rows[i]
    BY <2>9, <2>11, AllPlaced
  <2>13. ASSUME NEW i \in DOMAIN entries
         PROVE  IsPerformanceOf(rows[i], entries[i], EventsOf(profile, entries[i].rowid))
    <3>1. IsRunAt(entries[i], test) /\ EventsOf(profile, RunField(entries[i], 0)) # <<>>
      BY <2>5 DEF Evaluable
    <3>2. rows[i] = PerformanceOf(profile, entries[i])
      BY <2>8 DEF Evaluated
    <3> QED  BY <2>6, <3>1, <3>2, PerformanceIsOfRun
  <2> QED  BY <2>4, <2>9, <2>10, <2>12, <2>13
<1> QED  BY <1>1, ExperimentAlways, NumbersAlways, PTL

-----------------------------------------------------------------------------
(* What the products of the generator hold: every combination, and each of *)
(* them once.  First, that a selection takes each element that is wanted.  *)
LEMMA SelectedEach ==
  ASSUME NEW S, NEW seq \in Seq(S), NEW wanted, NEW k \in DOMAIN seq, seq[k] \in wanted
  PROVE  seq[k] \in Range(Selected(seq, wanted))
<1> DEFINE N == Len(seq)
<1>1. N \in Nat /\ k \in 1..N
  OBVIOUS
<1>2. PICK c : /\ Selected(seq, wanted) = c[N]
               /\ c[0] = <<>>
               /\ \A n \in 1..N :
                    c[n] = c[n - 1] \o OneIf(seq[n], wanted)
  BY SelectedSteps
<1> HIDE DEF N
<1> DEFINE Has(s) == \E a \in 1..Len(s) : s[a] = seq[k]
           T == {n \in 0..N : c[n] \in Seq(S) /\ (n >= k => Has(c[n]))}
<1>3. 0 \in T
  <2>1. c[0] \in Seq(S) /\ ~(0 >= k)
    BY <1>1, <1>2
  <2> QED  BY <1>1, <2>1
<1>4. ASSUME NEW n \in 1..N, n - 1 \in T PROVE n \in T
  <2>1. n \in Nat /\ seq[n] \in S
    BY <1>1 DEF N
  <2>2. c[n] = c[n - 1] \o OneIf(seq[n], wanted)
    BY <1>2, Zenon
  <2>3. c[n - 1] \in Seq(S) /\ (n - 1 >= k => Has(c[n - 1])) /\ Len(c[n - 1]) \in Nat
    BY <1>4
  <2>4. CASE seq[n] \in wanted
    <3>1. c[n] = Append(c[n - 1], seq[n])
      BY <2>2, <2>3, <2>4 DEF OneIf
    <3>2. /\ c[n] \in Seq(S) /\ Len(c[n]) = Len(c[n - 1]) + 1
          /\ c[n][Len(c[n - 1]) + 1] = seq[n]
          /\ \A a \in 1..Len(c[n - 1]) : c[n][a] = c[n - 1][a]
      BY <2>1, <2>3, <3>1
    <3>3. CASE n = k
      <4>1. Len(c[n - 1]) + 1 \in 1..Len(c[n])
        BY <2>3, <3>2
      <4>2. Has(c[n])
        BY <3>2, <3>3, <4>1
      <4> QED  BY <1>1, <3>2, <4>2
    <3>4. CASE n # k
      <4>1. n >= k => n - 1 >= k
        BY <1>1, <2>1, <3>4
      <4>2. Has(c[n - 1]) => Has(c[n])
        BY <2>3, <3>2
      <4> QED  BY <1>1, <2>3, <3>2, <4>1, <4>2
    <3> QED  BY <3>3, <3>4
  <2>5. CASE seq[n] \notin wanted
    <3>1. c[n] = c[n - 1]
      BY <2>2, <2>3, <2>5 DEF OneIf
    <3>2. n # k
      BY <2>5
    <3>3. n >= k => n - 1 >= k
      BY <1>1, <2>1, <3>2
    <3> QED  BY <1>1, <2>3, <3>1, <3>3
  <2> QED  BY <2>4, <2>5
<1>5. \A n \in 0..N : n \in T
  <2> HIDE DEF T
  <2> QED  BY <1>1, <1>3, <1>4, SetInduction
<1>6. c[N] \in Seq(S) /\ Has(c[N])
  BY <1>1, <1>5
<1>7. PICK a \in 1..Len(c[N]) : c[N][a] = seq[k]
  BY <1>6
<1>8. a \in DOMAIN c[N]
  BY <1>6, <1>7
<1> QED  BY <1>2, <1>7, <1>8 DEF Range

(* What is selected is what is there and wanted, once each if it is there  *)
(* once.                                                                   *)
LEMMA SelectedIs ==
  ASSUME NEW seq, IsSequence(seq), NEW wanted
  PROVE  /\ IsSequence(Selected(seq, wanted))
         /\ Range(Selected(seq, wanted)) = Range(seq) \cap wanted
         /\ IsInjective(seq) => IsInjective(Selected(seq, wanted))
<1>1. PICK s : s = Selected(seq, wanted)
  OBVIOUS
<1>2. seq \in Seq(Range(seq)) /\ DOMAIN seq = 1..Len(seq)
  BY SequenceFacts DEF IsSequence
<1>3. PICK idx \in [DOMAIN s -> 1..Len(seq)] :
        /\ Ascending(idx)
        /\ \A a \in DOMAIN idx : s[a] = seq[idx[a]] /\ seq[idx[a]] \in wanted
  BY <1>1, <1>2, SelectedOrder
<1>4. DOMAIN idx = DOMAIN s /\ \A a \in DOMAIN s : idx[a] \in DOMAIN seq
  BY <1>2, <1>3
<1>5. IsSequence(s) /\ DOMAIN s = 1..Len(s) /\ Len(s) \in Nat /\ Len(seq) \in Nat
  BY <1>1, SelectedFacts, SequenceFacts
<1>6. Range(s) \subseteq Range(seq) \cap wanted
  BY <1>3, <1>4 DEF Range
<1>7. ASSUME NEW x \in Range(seq) \cap wanted PROVE x \in Range(s)
  <2>1. PICK k \in DOMAIN seq : seq[k] = x
    BY <1>7 DEF Range
  <2>2. seq[k] \in wanted
    BY <1>7, <2>1
  <2>3. seq[k] \in Range(Selected(seq, wanted))
    BY <1>2, <2>2, SelectedEach
  <2> QED  BY <1>1, <2>1, <2>3
<1>8. ASSUME IsInjective(seq) PROVE IsInjective(s)
  <2>1. ASSUME NEW a \in DOMAIN s, NEW b \in DOMAIN s, a < b PROVE s[a] # s[b]
    <3>1. idx[a] < idx[b] /\ idx[a] \in DOMAIN seq /\ idx[b] \in DOMAIN seq
      BY <1>3, <1>4, <2>1 DEF Ascending
    <3>2. idx[a] # idx[b]
      BY <1>2, <3>1
    <3>3. seq[idx[a]] # seq[idx[b]]
      BY <1>8, <3>1, <3>2 DEF IsInjective
    <3> QED  BY <1>3, <1>4, <3>3
  <2>2. \A a, b \in DOMAIN s : a # b => a < b \/ b < a
    BY <1>5
  <2> QED  BY <2>1, <2>2 DEF IsInjective
<1> QED  BY <1>1, <1>5, <1>6, <1>7, <1>8

(* Sequences that have nothing in common are joined.                       *)
LEMMA JoinedInjective ==
  ASSUME NEW all, NEW s, NEW t, IsSequence(s), IsSequence(t), IsJoin(all, s, t),
         IsInjective(s), IsInjective(t), Range(s) \cap Range(t) = {}
  PROVE  IsInjective(all)
<1>1. /\ IsSequence(all) /\ Len(all) = Len(s) + Len(t)
      /\ \A i \in 1..Len(s) : all[i] = s[i]
      /\ \A i \in 1..Len(t) : all[Len(s) + i] = t[i]
  BY JoinedRows
<1>2. /\ DOMAIN all = 1..Len(all) /\ DOMAIN s = 1..Len(s) /\ DOMAIN t = 1..Len(t)
      /\ Len(s) \in Nat /\ Len(t) \in Nat /\ Len(all) \in Nat
  BY <1>1, SequenceFacts
<1>3. ASSUME NEW i \in DOMAIN all
      PROVE  \/ i \in DOMAIN s /\ all[i] = s[i] /\ all[i] \in Range(s)
             \/ /\ i - Len(s) \in DOMAIN t
                /\ all[i] = t[i - Len(s)] /\ all[i] \in Range(t)
  <2>1. CASE i <= Len(s)
    <3>1. i \in DOMAIN s
      BY <1>2, <2>1
    <3> QED  BY <1>1, <1>2, <3>1 DEF Range
  <2>2. CASE ~(i <= Len(s))
    <3>1. i - Len(s) \in 1..Len(t) /\ Len(s) + (i - Len(s)) = i
      BY <1>1, <1>2, <2>2
    <3>2. all[i] = t[i - Len(s)]
      BY <1>1, <3>1
    <3> QED  BY <1>2, <3>1, <3>2 DEF Range
  <2> QED  BY <2>1, <2>2
<1>4. ASSUME NEW i \in DOMAIN all, NEW j \in DOMAIN all, all[i] = all[j] PROVE i = j
  <2>1. i \in Nat /\ j \in Nat
    BY <1>2
  <2>2. CASE i \in DOMAIN s /\ all[i] = s[i] /\ all[i] \in Range(s)
    <3>1. j \in DOMAIN s /\ all[j] = s[j]
      BY <1>3, <1>4, <2>2
    <3> QED  BY <1>4, <2>2, <3>1 DEF IsInjective
  <2>3. CASE i - Len(s) \in DOMAIN t /\ all[i] = t[i - Len(s)] /\ all[i] \in Range(t)
    <3>1. j - Len(s) \in DOMAIN t /\ all[j] = t[j - Len(s)]
      BY <1>3, <1>4, <2>3
    <3>2. i - Len(s) = j - Len(s)
      BY <1>4, <2>3, <3>1 DEF IsInjective
    <3> QED  BY <1>2, <2>1, <3>2
  <2> QED  BY <1>3, <2>2, <2>3
<1> QED  BY <1>4 DEF IsInjective

(* Parts are put together one after the other.                             *)
Joins(c, parts, n) ==
  /\ c[0] = <<>>
  /\ \A i \in 1..n : IsSequence(c[i - 1]) /\ IsJoin(c[i], c[i - 1], parts[i])

LEMMA FlattenedJoins ==
  ASSUME NEW n \in Nat, NEW parts, parts = [i \in 1..n |-> parts[i]],
         \A i \in 1..n : IsSequence(parts[i])
  PROVE  \E c : Joins(c, parts, n) /\ FlattenSeq(parts) = c[n]
<1> DEFINE S == UNION {Range(parts[i]) : i \in 1..n}
<1>1. ASSUME NEW i \in 1..n PROVE parts[i] \in Seq(S)
  <2>1. /\ Len(parts[i]) \in Nat /\ DOMAIN parts[i] = 1..Len(parts[i])
        /\ parts[i] = [k \in 1..Len(parts[i]) |-> parts[i][k]]
    BY SequenceFacts
  <2>2. \A k \in 1..Len(parts[i]) : parts[i][k] \in S
    BY <2>1 DEF Range
  <2> HIDE DEF S
  <2> QED  BY <2>1, <2>2
<1> HIDE DEF S
<1>2. parts \in [1..n -> Seq(S)] /\ parts \in Seq(Seq(S)) /\ Len(parts) = n
  BY <1>1
<1>3. CASE n = 0
  <2>1. parts = <<>>
    BY <1>2, <1>3
  <2>2. FlattenSeq(parts) = <<>>
    BY <2>1 DEF FlattenSeq
  <2> DEFINE c == [i \in 0..0 |-> <<>>]
  <2>3. c[0] = <<>>
    OBVIOUS
  <2> HIDE DEF c
  <2>4. Joins(c, parts, 0)
    BY <2>3 DEF Joins
  <2> QED  BY <1>3, <2>2, <2>3, <2>4
<1>4. CASE n # 0
  <2> DEFINE f == CHOOSE h : h = Flat(h, parts, n)
  <2>1. n \in Nat \ {0}
    BY <1>4
  <2>2. FlattenSeq(parts) = f[n]
    BY <1>2, <1>4 DEF FlattenSeq, Flat
  <2>3. f = Flat(f, parts, n)
    BY <1>2, <2>1, FlattenSteps
  <2> HIDE DEF f
  <2>4. \A i \in 1..n : f[i] = IF i = 1 THEN parts[i] ELSE f[i - 1] \o parts[i]
    BY <2>3 DEF Flat
  <2> DEFINE c == [i \in 0..n |-> IF i = 0 THEN <<>> ELSE f[i]]
  <2>5. c[0] = <<>> /\ \A i \in 1..n : c[i] = f[i]
    <3>1. c[0] = <<>>
      BY <2>1
    <3>2. ASSUME NEW i \in 1..n PROVE c[i] = f[i]
      BY <2>1
    <3> QED  BY <3>1, <3>2
  <2> HIDE DEF c
  <2> DEFINE T == {i \in 0..n : c[i] \in Seq(S)}
  <2>6. 0 \in T
    <3>1. <<>> \in Seq(S)
      OBVIOUS
    <3>2. c[0] \in Seq(S) /\ 0 \in 0..n
      BY <2>1, <2>5, <3>1
    <3> QED  BY <3>2
  <2>7. ASSUME NEW i \in 1..n, c[i - 1] \in Seq(S) PROVE c[i] = c[i - 1] \o parts[i]
    <3>1. c[i] = IF i = 1 THEN parts[i] ELSE f[i - 1] \o parts[i]
      BY <2>4, <2>5, Zenon
    <3>2. CASE i = 1
      <4>1. c[i - 1] = <<>>
        BY <2>5, <3>2
      <4>2. parts[i] \in Seq(S)
        BY <1>2
      <4>3. <<>> \o parts[i] = parts[i]
        BY <4>2
      <4> QED  BY <3>1, <3>2, <4>1, <4>3
    <3>3. CASE i # 1
      <4>1. i - 1 \in 1..n
        BY <2>1, <3>3
      <4>2. c[i - 1] = f[i - 1]
        BY <2>5, <4>1
      <4> QED  BY <3>1, <3>3, <4>2
    <3> QED  BY <3>2, <3>3
  <2>8. ASSUME NEW i \in 1..n, i - 1 \in T PROVE i \in T
    <3>1. c[i - 1] \in Seq(S) /\ parts[i] \in Seq(S)
      BY <1>2, <2>8
    <3>2. c[i] = c[i - 1] \o parts[i]
      BY <2>7, <3>1
    <3>3. c[i] \in Seq(S)
      BY <3>1, <3>2
    <3> QED  BY <2>1, <3>3
  <2>9. \A i \in 0..n : i \in T
    <3> HIDE DEF T
    <3> QED  BY <2>1, <2>6, <2>8, SetInduction
  <2>10. ASSUME NEW i \in 1..n PROVE IsSequence(c[i - 1]) /\ IsJoin(c[i], c[i - 1], parts[i])
    <3>1. i - 1 \in 0..n
      BY <2>1
    <3>2. c[i - 1] \in Seq(S)
      BY <2>9, <3>1
    <3> QED  BY <2>7, <3>2, SequenceOf DEF IsJoin
  <2>11. FlattenSeq(parts) = c[n]
    BY <2>1, <2>2, <2>5
  <2>12. Joins(c, parts, n)
    BY <2>5, <2>10 DEF Joins
  <2> QED  BY <2>11, <2>12
<1> QED  BY <1>3, <1>4

(* The whole has what the parts have, once each if no two have the same.   *)
Apart(parts, n) ==
  /\ \A i \in 1..n : IsInjective(parts[i])
  /\ \A i, j \in 1..n : i # j => Range(parts[i]) \cap Range(parts[j]) = {}

LEMMA FlattenedIs ==
  ASSUME NEW n \in Nat, NEW parts, parts = [i \in 1..n |-> parts[i]],
         \A i \in 1..n : IsSequence(parts[i])
  PROVE  /\ IsSequence(FlattenSeq(parts))
         /\ Range(FlattenSeq(parts)) = UNION {Range(parts[i]) : i \in 1..n}
         /\ Apart(parts, n) => IsInjective(FlattenSeq(parts))
<1>1. PICK c : Joins(c, parts, n) /\ FlattenSeq(parts) = c[n]
  BY FlattenedJoins
<1>2. c[0] = <<>> /\ \A i \in 1..n : IsSequence(c[i - 1]) /\ IsJoin(c[i], c[i - 1], parts[i])
  BY <1>1 DEF Joins
<1> DEFINE T == {i \in 0..n : /\ IsSequence(c[i])
                              /\ Range(c[i]) = UNION {Range(parts[k]) : k \in 1..i}
                              /\ Apart(parts, n) => IsInjective(c[i])}
<1>3. 0 \in T
  <2>1. IsSequence(<<>>) /\ Range(<<>>) = {} /\ IsInjective(<<>>)
    BY NoRows DEF Range, IsInjective
  <2>2. UNION {Range(parts[k]) : k \in 1..0} = {}
    OBVIOUS
  <2> QED  BY <1>2, <2>1, <2>2
<1>4. ASSUME NEW i \in 1..n, i - 1 \in T PROVE i \in T
  <2>1. /\ IsSequence(c[i - 1]) /\ Range(c[i - 1]) = UNION {Range(parts[k]) : k \in 1..(i - 1)}
        /\ Apart(parts, n) => IsInjective(c[i - 1])
    BY <1>4
  <2>2. IsSequence(parts[i]) /\ IsJoin(c[i], c[i - 1], parts[i])
    BY <1>2
  <2>3. IsSequence(c[i]) /\ Range(c[i]) = Range(c[i - 1]) \cup Range(parts[i])
    BY <2>1, <2>2, JoinedRows, JoinedRange
  <2>4. \A k : k \in 1..i <=> k \in 1..(i - 1) \/ k = i
    OBVIOUS
  <2>5. Range(c[i]) = UNION {Range(parts[k]) : k \in 1..i}
    BY <2>1, <2>3, <2>4
  <2>6. ASSUME Apart(parts, n) PROVE IsInjective(c[i])
    <3>1. IsInjective(c[i - 1]) /\ IsInjective(parts[i])
      BY <2>1, <2>6 DEF Apart
    <3>2. \A k \in 1..(i - 1) : k \in 1..n /\ k # i
      OBVIOUS
    <3>3. Range(c[i - 1]) \cap Range(parts[i]) = {}
      BY <2>1, <2>6, <3>2 DEF Apart
    <3> QED  BY <2>1, <2>2, <3>1, <3>3, JoinedInjective
  <2>7. i \in 0..n
    OBVIOUS
  <2> QED  BY <2>3, <2>5, <2>6, <2>7
<1>5. \A i \in 0..n : i \in T
  <2> HIDE DEF T
  <2> QED  BY <1>3, <1>4, SetInduction
<1>6. n \in T
  <2> HIDE DEF T
  <2> QED  BY <1>5
<1> QED  BY <1>1, <1>6

LEMMA ProductSteps ==
  ASSUME NEW A, NEW lists \in Seq(Seq(A))
  PROVE  \E c : /\ Product(lists) = c[Len(lists)]
                /\ c[0] = << <<>> >>
                /\ \A n \in 1..Len(lists) : c[n] = Extended(c[n - 1], lists[n])
<1> DEFINE N == Len(lists)
           c == CHOOSE f : f = Combining(f, lists)
<1>0. N \in Nat
  OBVIOUS
<1>1. c = Combining(c, lists)
  BY CombiningExists
<1>2. Product(lists) = c[N]
  BY DEF Product, Combining, Extended
<1> HIDE DEF c
<1>3. c[0] = << <<>> >>
  BY <1>0, <1>1 DEF Combining
<1>4. ASSUME NEW n \in 1..N
      PROVE  c[n] = Extended(c[n - 1], lists[n])
  <2>1. n \in 0..N /\ n # 0
    BY <1>0
  <2>2. Combining(c, lists)[n] = Extended(c[n - 1], lists[n])
    BY <2>1, Zenon DEF Combining
  <2> QED  BY <1>1, <2>2, Zenon
<1> QED  BY <1>2, <1>3, <1>4

LEMMA AppendedOnce ==
  ASSUME NEW A, NEW e \in Seq(A), NEW f \in Seq(A), NEW a \in A, NEW b \in A,
         Append(e, a) = Append(f, b)
  PROVE  e = f /\ a = b
<1>1. /\ Len(e) \in Nat /\ Len(f) \in Nat
      /\ e = [k \in 1..Len(e) |-> e[k]] /\ f = [k \in 1..Len(f) |-> f[k]]
  OBVIOUS
<1>2. PICK x : x = Append(e, a)
  OBVIOUS
<1>3. x = Append(f, b)
  BY <1>2
<1>4. Len(x) = Len(e) + 1 /\ x[Len(e) + 1] = a /\ \A k \in 1..Len(e) : x[k] = e[k]
  BY <1>2
<1>5. Len(x) = Len(f) + 1 /\ x[Len(f) + 1] = b /\ \A k \in 1..Len(f) : x[k] = f[k]
  BY <1>3
<1>6. Len(e) = Len(f)
  <2>1. Len(e) + 1 = Len(f) + 1
    BY <1>4, <1>5
  <2>2. Len(e) \in Nat /\ Len(f) \in Nat
    OBVIOUS
  <2> QED  BY <2>1, <2>2
<1>7. \A k \in 1..Len(e) : e[k] = f[k]
  BY <1>4, <1>5, <1>6
<1>8. e = f
  BY <1>1, <1>6, <1>7
<1> QED  BY <1>4, <1>5, <1>6, <1>8

(* One row of the combinations: e with each element of the list.           *)
WithEach(e, list) == [j \in DOMAIN list |-> Append(e, list[j])]

LEMMA WithEachIs ==
  ASSUME NEW A, NEW e \in Seq(A), NEW list \in Seq(A)
  PROVE  /\ IsSequence(WithEach(e, list))
         /\ \A x : x \in Range(WithEach(e, list)) <=> \E a \in Range(list) : x = Append(e, a)
         /\ IsInjective(list) => IsInjective(WithEach(e, list))
<1>1. Len(list) \in Nat /\ DOMAIN list = 1..Len(list) /\ \A j \in 1..Len(list) : list[j] \in A
  OBVIOUS
<1> DEFINE x(j) == Append(e, list[j])
<1>2. PICK row : row = WithEach(e, list)
  OBVIOUS
<1>3. row = [j \in 1..Len(list) |-> x(j)]
  BY <1>1, <1>2 DEF WithEach
<1>4. ASSUME NEW i \in DOMAIN list, NEW j \in DOMAIN list, x(i) = x(j) PROVE list[i] = list[j]
  BY <1>1, <1>4, AppendedOnce
<1>5. \A a \in Range(list) : \E j \in DOMAIN list : Append(e, a) = x(j)
  BY DEF Range
<1>6. \A j \in DOMAIN list : \E a \in Range(list) : x(j) = Append(e, a)
  BY DEF Range
<1> HIDE DEF x
<1>7. row \in Seq({x(j) : j \in 1..Len(list)}) /\ DOMAIN row = DOMAIN list
  BY <1>1, <1>3
<1>8. \A j \in DOMAIN list : row[j] = x(j)
  BY <1>1, <1>3
<1>9. IsSequence(row)
  BY <1>7, SequenceOf
<1>10. ASSUME NEW y PROVE y \in Range(row) <=> \E a \in Range(list) : y = Append(e, a)
  <2>1. y \in Range(row) <=> \E j \in DOMAIN list : y = x(j)
    BY <1>7, <1>8 DEF Range
  <2> QED  BY <1>5, <1>6, <2>1
<1>11. ASSUME IsInjective(list) PROVE IsInjective(row)
  BY <1>4, <1>7, <1>8, <1>11 DEF IsInjective
<1> QED  BY <1>2, <1>9, <1>10, <1>11

LEMMA ExtendedIs ==
  ASSUME NEW A, NEW v \in Seq(Seq(A)), NEW list \in Seq(A)
  PROVE  /\ IsSequence(Extended(v, list))
         /\ \A x : x \in Range(Extended(v, list)) <=>
                     \E e \in Range(v), a \in Range(list) : x = Append(e, a)
         /\ IsInjective(v) /\ IsInjective(list) => IsInjective(Extended(v, list))
<1>1. Len(v) \in Nat /\ DOMAIN v = 1..Len(v) /\ \A i \in 1..Len(v) : v[i] \in Seq(A)
  OBVIOUS
<1> DEFINE parts == [i \in 1..Len(v) |-> WithEach(v[i], list)]
<1>2. Extended(v, list) = FlattenSeq(parts)
  BY <1>1 DEF Extended, WithEach
<1>3. \A i \in 1..Len(v) : parts[i] = WithEach(v[i], list)
  OBVIOUS
<1>4. parts = [i \in 1..Len(v) |-> parts[i]]
  OBVIOUS
<1> HIDE DEF parts
<1>5. \A i \in 1..Len(v) : IsSequence(parts[i])
  BY <1>1, <1>3, WithEachIs
<1>6. /\ IsSequence(FlattenSeq(parts))
      /\ Range(FlattenSeq(parts)) = UNION {Range(parts[i]) : i \in 1..Len(v)}
      /\ Apart(parts, Len(v)) => IsInjective(FlattenSeq(parts))
  BY <1>1, <1>4, <1>5, FlattenedIs
<1>7. ASSUME NEW i \in 1..Len(v), NEW x
      PROVE  x \in Range(parts[i]) <=> \E a \in Range(list) : x = Append(v[i], a)
  BY <1>1, <1>3, WithEachIs
<1>8. ASSUME NEW x
      PROVE  x \in Range(Extended(v, list)) <=>
               \E e \in Range(v), a \in Range(list) : x = Append(e, a)
  <2>1. x \in Range(Extended(v, list)) <=> \E i \in 1..Len(v) : x \in Range(parts[i])
    BY <1>2, <1>6
  <2>2. x \in Range(Extended(v, list)) <=>
          \E i \in 1..Len(v) : \E a \in Range(list) : x = Append(v[i], a)
    BY <1>7, <2>1
  <2>3. ASSUME NEW P
        PROVE  (\E i \in 1..Len(v) : v[i] = P) <=> P \in Range(v)
    BY <1>1 DEF Range
  <2> QED  BY <2>2, <2>3
<1>9. ASSUME IsInjective(v), IsInjective(list) PROVE Apart(parts, Len(v))
  <2>1. \A i \in 1..Len(v) : IsInjective(parts[i])
    BY <1>1, <1>3, <1>9, WithEachIs
  <2>2. ASSUME NEW i \in 1..Len(v), NEW j \in 1..Len(v), NEW x,
               x \in Range(parts[i]), x \in Range(parts[j])
        PROVE  i = j
    <3>1. PICK a \in Range(list) : x = Append(v[i], a)
      BY <1>7, <2>2
    <3>2. PICK b \in Range(list) : x = Append(v[j], b)
      BY <1>7, <2>2
    <3>3. a \in A /\ b \in A
      BY SequenceOf
    <3>4. v[i] = v[j]
      <4>1. PICK first \in Seq(A) : first = v[i]
        BY <1>1
      <4>2. PICK second \in Seq(A) : second = v[j]
        BY <1>1
      <4>3. Append(first, a) = Append(second, b)
        BY <3>1, <3>2, <4>1, <4>2
      <4> QED  BY <3>3, <4>1, <4>2, <4>3, AppendedOnce
    <3> QED  BY <1>1, <1>9, <3>4 DEF IsInjective
  <2> QED  BY <2>1, <2>2 DEF Apart
<1> QED  BY <1>2, <1>6, <1>8, <1>9

LEMMA AllButLast ==
  ASSUME NEW A, NEW e \in Seq(A), Len(e) # 0
  PROVE  \E f \in Seq(A) : /\ e = Append(f, e[Len(e)]) /\ Len(f) = Len(e) - 1
                           /\ \A k \in 1..Len(f) : f[k] = e[k]
<1>1. Len(e) \in Nat \ {0} /\ e = [k \in 1..Len(e) |-> e[k]] /\ \A k \in 1..Len(e) : e[k] \in A
  OBVIOUS
<1> DEFINE m == Len(e) - 1
           f == [k \in 1..m |-> e[k]]
<1>2. m \in Nat /\ Len(e) = m + 1
  BY <1>1
<1>3. \A k \in 1..m : e[k] \in A
  BY <1>1
<1> HIDE DEF m
<1>4. f \in Seq(A) /\ Len(f) = m /\ \A k \in 1..m : f[k] = e[k]
  BY <1>2, <1>3
<1> HIDE DEF f
<1>5. PICK g : g = Append(f, e[Len(e)])
  OBVIOUS
<1>6. e[Len(e)] \in A
  BY <1>1
<1>7. /\ g \in Seq(A) /\ Len(g) = m + 1 /\ g[m + 1] = e[Len(e)]
      /\ \A k \in 1..m : g[k] = f[k]
  BY <1>4, <1>5, <1>6
<1>8. \A k \in 1..(m + 1) : g[k] = e[k]
  BY <1>2, <1>4, <1>7
<1>9. g = [k \in 1..(m + 1) |-> g[k]]
  BY <1>7
<1>10. g = e
  BY <1>1, <1>2, <1>8, <1>9
<1> QED  BY <1>2, <1>4, <1>5, <1>10 DEF m

(* All combinations are there, once each if the elements of each list are. *)
LEMMA ProductIs ==
  ASSUME NEW A, NEW lists \in Seq(Seq(A))
  PROVE  /\ \A e \in Seq(A) :
              Len(e) = Len(lists) /\ (\A k \in 1..Len(lists) : e[k] \in Range(lists[k])) =>
                e \in Range(Product(lists))
         /\ (\A k \in 1..Len(lists) : IsInjective(lists[k])) => IsInjective(Product(lists))
<1> DEFINE N == Len(lists)
           Tuple(e, n) == Len(e) = n /\ \A k \in 1..n : e[k] \in Range(lists[k])
           Distinct == \A k \in 1..N : IsInjective(lists[k])
<1>0. N \in Nat /\ \A n \in 1..N : lists[n] \in Seq(A)
  OBVIOUS
<1>1. PICK c : /\ Product(lists) = c[N]
               /\ c[0] = << <<>> >>
               /\ \A n \in 1..N : c[n] = Extended(c[n - 1], lists[n])
  BY ProductSteps
<1> HIDE DEF N
<1> DEFINE T == {n \in 0..N : /\ c[n] \in Seq(Seq(A))
                              /\ \A e \in Seq(A) : Tuple(e, n) => e \in Range(c[n])
                              /\ Distinct => IsInjective(c[n])}
<1>2. 0 \in T
  <2>1. c[0] \in Seq(Seq(A)) /\ Range(c[0]) = {<<>>} /\ IsInjective(c[0])
    BY <1>1 DEF Range, IsInjective
  <2>2. \A e \in Seq(A) : Len(e) = 0 => e = <<>>
    OBVIOUS
  <2>3. \A e \in Seq(A) : Tuple(e, 0) => e \in Range(c[0])
    BY <2>1, <2>2
  <2> QED  BY <1>0, <2>1, <2>3
<1>3. ASSUME NEW n \in 1..N, n - 1 \in T PROVE n \in T
  <2>1. n \in 0..N /\ n \in Nat \ {0} /\ n - 1 \in Nat
    BY <1>0
  <2>2. /\ c[n - 1] \in Seq(Seq(A)) /\ \A e \in Seq(A) : Tuple(e, n - 1) => e \in Range(c[n - 1])
        /\ Distinct => IsInjective(c[n - 1])
    BY <1>3
  <2>3. PICK v \in Seq(Seq(A)) : v = c[n - 1]
    BY <2>2
  <2>4. PICK list \in Seq(A) : list = lists[n]
    BY <1>0
  <2>5. c[n] = Extended(v, list)
    BY <1>1, <2>3, <2>4, Zenon
  <2>6. c[n] \in Seq(Seq(A))
    <3>1. \A e \in Seq(A), a \in Range(list) : Append(e, a) \in Seq(A)
      <4>1. Range(list) \subseteq A
        BY SequenceOf
      <4> QED  BY <4>1
    <3>2. PICK U \in SUBSET Seq(A) : U = Seq(A)
      OBVIOUS
    <3>3. v \in Seq(U)
      BY <2>3, <3>2
    <3>4. \A e \in U, a \in Range(list) : Append(e, a) \in U
      BY <3>1, <3>2
    <3>5. Extended(v, list) \in Seq(U)
      BY <3>3, <3>4, ExtendedCombinations
    <3> QED  BY <2>5, <3>2, <3>5
  <2>7. ASSUME NEW e \in Seq(A), Tuple(e, n) PROVE e \in Range(c[n])
    <3>1. Len(e) = n /\ \A k \in 1..n : e[k] \in Range(lists[k])
      BY <2>7
    <3>2. PICK f \in Seq(A) : /\ e = Append(f, e[n]) /\ Len(f) = n - 1
                              /\ \A k \in 1..(n - 1) : f[k] = e[k]
      <4>1. Len(e) # 0 /\ Len(e) = n
        BY <2>1, <3>1
      <4>2. PICK f \in Seq(A) : /\ e = Append(f, e[Len(e)]) /\ Len(f) = Len(e) - 1
                                /\ \A k \in 1..Len(f) : f[k] = e[k]
        BY <4>1, AllButLast
      <4>3. e = Append(f, e[n]) /\ Len(f) = n - 1
        BY <4>1, <4>2
      <4> QED  BY <4>2, <4>3
    <3>3. \A k \in 1..(n - 1) : f[k] \in Range(lists[k])
      BY <2>1, <3>1, <3>2
    <3>4. f \in Range(v)
      BY <2>2, <2>3, <3>2, <3>3
    <3>5. e[n] \in Range(list)
      BY <2>1, <2>4, <3>1
    <3> QED  BY <2>5, <3>2, <3>4, <3>5, ExtendedIs
  <2>8. ASSUME Distinct PROVE IsInjective(c[n])
    <3>1. IsInjective(v) /\ IsInjective(list)
      BY <2>2, <2>3, <2>4, <2>8
    <3> QED  BY <2>5, <3>1, ExtendedIs
  <2> HIDE DEF Tuple, Distinct
  <2> QED  BY <2>1, <2>6, <2>7, <2>8
<1>4. \A n \in 0..N : n \in T
  <2> HIDE DEF T
  <2> QED  BY <1>0, <1>2, <1>3, SetInduction
<1>5. N \in T
  <2> HIDE DEF T
  <2> QED  BY <1>0, <1>4
<1>6. Distinct => IsInjective(c[N])
  BY <1>5
<1>7. \A e \in Seq(A) : Tuple(e, N) => e \in Range(c[N])
  BY <1>5
<1> QED  BY <1>1, <1>6, <1>7 DEF N

(* So it is of lists of whatever they hold.                                *)
LEMMA ProductHas ==
  ASSUME NEW n \in Nat, NEW lists, lists = [k \in 1..n |-> lists[k]],
         \A k \in 1..n : IsSequence(lists[k])
  PROVE  /\ \A e : IsSequence(e) /\ Len(e) = n /\ (\A k \in 1..n : e[k] \in Range(lists[k])) =>
                     e \in Range(Product(lists))
         /\ (\A k \in 1..n : IsInjective(lists[k])) => IsInjective(Product(lists))
<1> DEFINE A == UNION {Range(lists[k]) : k \in 1..n}
<1>1. ASSUME NEW k \in 1..n PROVE lists[k] \in Seq(A) /\ Range(lists[k]) \subseteq A
  <2>1. /\ Len(lists[k]) \in Nat /\ DOMAIN lists[k] = 1..Len(lists[k])
        /\ lists[k] = [i \in 1..Len(lists[k]) |-> lists[k][i]]
    BY SequenceFacts
  <2>2. \A i \in 1..Len(lists[k]) : lists[k][i] \in Range(lists[k])
    BY <2>1 DEF Range
  <2>3. Range(lists[k]) \subseteq A
    OBVIOUS
  <2>4. \A i \in 1..Len(lists[k]) : lists[k][i] \in A
    BY <2>2, <2>3
  <2> HIDE DEF A
  <2> QED  BY <2>1, <2>3, <2>4
<1> HIDE DEF A
<1>2. lists \in Seq(Seq(A)) /\ Len(lists) = n
  BY <1>1
<1>3. ASSUME NEW e, IsSequence(e), Len(e) = n, \A k \in 1..n : e[k] \in Range(lists[k])
      PROVE  e \in Range(Product(lists))
  <2>1. e = [k \in 1..n |-> e[k]]
    BY <1>3, SequenceFacts
  <2>2. \A k \in 1..n : e[k] \in A
    BY <1>1, <1>3
  <2>3. e \in Seq(A)
    BY <2>1, <2>2
  <2> QED  BY <1>2, <1>3, <2>3, ProductIs
<1>4. ASSUME \A k \in 1..n : IsInjective(lists[k]) PROVE IsInjective(Product(lists))
  BY <1>2, <1>4, ProductIs
<1> QED  BY <1>3, <1>4

(* Sequences of one element each.                                          *)
LEMMA FlattenedOnes ==
  ASSUME NEW n \in Nat, NEW s, s = [i \in 1..n |-> s[i]],
         \A i \in 1..n : s[i] = <<s[i][1]>>
  PROVE  FlattenSeq(s) = [i \in 1..n |-> s[i][1]]
<1> DEFINE x(i) == s[i][1]
           Firsts(m) == [i \in 1..m |-> x(i)]
           S == {x(i) : i \in 1..n}
<1>1. \A i \in 1..n : s[i] = <<x(i)>> /\ IsSequence(s[i]) /\ x(i) \in S
  BY NoRows
<1>2. PICK c : Joins(c, s, n) /\ FlattenSeq(s) = c[n]
  BY <1>1, FlattenedJoins
<1>3. c[0] = <<>> /\ \A i \in 1..n : c[i] = c[i - 1] \o s[i]
  BY <1>2 DEF Joins, IsJoin
<1> HIDE DEF x, S
<1> DEFINE T == {m \in 0..n : c[m] \in Seq(S) /\ Len(c[m]) = m /\ \A i \in 1..m : c[m][i] = x(i)}
<1>4. 0 \in T
  <2>1. c[0] \in Seq(S) /\ Len(c[0]) = 0 /\ 0 \in 0..n
    BY <1>3
  <2> QED  BY <2>1
<1>5. ASSUME NEW m \in 1..n, m - 1 \in T PROVE m \in T
  <2>1. m \in Nat /\ m - 1 \in Nat /\ m \in 0..n
    OBVIOUS
  <2>2. c[m - 1] \in Seq(S) /\ Len(c[m - 1]) = m - 1 /\ \A i \in 1..(m - 1) : c[m - 1][i] = x(i)
    BY <1>5
  <2>3. PICK before \in Seq(S) : before = c[m - 1]
    BY <2>2
  <2>4. PICK last \in S : last = x(m)
    BY <1>1
  <2>5. c[m] = before \o <<last>>
    BY <1>1, <1>3, <2>3, <2>4
  <2>6. c[m] = Append(before, last)
    BY <2>5
  <2>7. /\ c[m] \in Seq(S) /\ Len(c[m]) = m /\ c[m][m] = last
        /\ \A i \in 1..(m - 1) : c[m][i] = before[i]
    BY <2>1, <2>2, <2>3, <2>6
  <2>8. \A i \in 1..m : c[m][i] = x(i)
    <3>1. \A i \in 1..m : i = m \/ i \in 1..(m - 1)
      BY <2>1
    <3> QED  BY <2>2, <2>3, <2>4, <2>7, <3>1
  <2> QED  BY <2>1, <2>7, <2>8
<1>6. \A m \in 0..n : m \in T
  <2> HIDE DEF T
  <2> QED  BY <1>4, <1>5, SetInduction
<1>7. n \in T
  <2> HIDE DEF T
  <2> QED  BY <1>6
<1>8. c[n] \in Seq(S) /\ Len(c[n]) = n /\ \A i \in 1..n : c[n][i] = x(i)
  BY <1>7
<1>9. c[n] = [i \in 1..n |-> x(i)]
  BY <1>8
<1> QED  BY <1>2, <1>9 DEF x

-----------------------------------------------------------------------------
(* The launches: three powers of 2 each.                                   *)
LEMMA LaunchesAre ==
  /\ IsSequence(Launches) /\ IsInjective(Launches)
  /\ \A gwv \in Range(Launches) :
       gwv = <<gwv[1], gwv[2], gwv[3]>> /\ \A k \in 1..3 : gwv[k] \in Nat \ {0}
<1> DEFINE lists == <<Powers(GangExps), Powers(WorkerExps), Powers(VectorExps)>>
<1>1. \A k \in 1..3 : /\ IsSequence(lists[k]) /\ IsInjective(lists[k])
                      /\ Range(lists[k]) \subseteq Nat \ {0}
  BY PowersFacts
<1>2. lists = [k \in 1..3 |-> lists[k]]
  OBVIOUS
<1> HIDE DEF lists
<1>3. IsSequence(Product(lists)) /\ IsInjective(Product(lists))
  BY <1>1, <1>2, ProductFacts, ProductHas
<1>4. ASSUME NEW gwv \in Range(Product(lists))
      PROVE  gwv = <<gwv[1], gwv[2], gwv[3]>> /\ \A k \in 1..3 : gwv[k] \in Nat \ {0}
  <2>1. IsSequence(gwv) /\ Len(gwv) = 3 /\ \A k \in 1..3 : gwv[k] \in Range(lists[k])
    BY <1>1, <1>2, ProductFacts
  <2>2. gwv = [k \in 1..3 |-> gwv[k]]
    BY <2>1, SequenceFacts
  <2>3. gwv = <<gwv[1], gwv[2], gwv[3]>>
    BY <2>2
  <2> QED  BY <1>1, <2>1, <2>3
<1> QED  BY <1>3, <1>4 DEF Launches, lists

LEMMA VersionIdsAre ==
  ASSUME NEW tables, IsTables(tables), "Versions" \in DOMAIN tables
  PROVE  IsSequence(VersionIds(tables)) /\ IsInjective(VersionIds(tables))
<1> DEFINE n == Len(VersionsOf(tables, [region_id |-> 0, kernel_id |-> 0]))
<1>1. IsSequence(tables["Versions"])
  BY DEF IsTables, IsSequence
<1>2. n \in Nat
  BY <1>1, SelectedFacts, SequenceFacts DEF VersionsOf, acc_sqlite_read_table
<1>3. VersionIds(tables) = [i \in 1..n |-> i - 1]
  BY DEF VersionIds
<1> HIDE DEF n
<1>4. VersionIds(tables) \in Seq(Int) /\ IsInjective(VersionIds(tables))
  BY <1>2, <1>3 DEF IsInjective
<1> QED  BY <1>4, SequenceOf

(* Each combination of versions, parameters and portions is there once.    *)
LEMMA VersionCombinationsAre ==
  ASSUME num_devices \in Nat, NEW tables, IsTables(tables), "Versions" \in DOMAIN tables
  PROVE  LET all == VersionCombinaisons(tables)
         IN /\ IsSequence(all) /\ IsInjective(all)
            /\ \A e : e \in Range(all) <=>
                 /\ IsSequence(e) /\ Len(e) = num_devices
                 /\ \A d \in 1..num_devices : e[d] \in Range(VersionIds(tables))
<1> DEFINE lists == [d \in 1..num_devices |-> VersionIds(tables)]
<1>1. \A d \in 1..num_devices : /\ lists[d] = VersionIds(tables)
                                /\ IsSequence(lists[d]) /\ IsInjective(lists[d])
  BY VersionIdsAre
<1>2. lists = [d \in 1..num_devices |-> lists[d]]
  OBVIOUS
<1>3. VersionCombinaisons(tables) = Product(lists)
  BY DEF VersionCombinaisons
<1> HIDE DEF lists
<1>4. IsSequence(Product(lists)) /\ IsInjective(Product(lists))
  BY <1>1, <1>2, ProductFacts, ProductHas
<1>5. ASSUME NEW e, e \in Range(Product(lists))
      PROVE  /\ IsSequence(e) /\ Len(e) = num_devices
             /\ \A d \in 1..num_devices : e[d] \in Range(VersionIds(tables))
  BY <1>1, <1>2, <1>5, ProductFacts
<1>6. ASSUME NEW e, IsSequence(e), Len(e) = num_devices,
             \A d \in 1..num_devices : e[d] \in Range(VersionIds(tables))
      PROVE  e \in Range(Product(lists))
  BY <1>1, <1>2, <1>6, ProductHas
<1> QED  BY <1>3, <1>4, <1>5, <1>6

LEMMA PortionCombinationsAre ==
  ASSUME num_devices \in Nat
  PROVE  /\ IsSequence(PortionCombinaisons) /\ IsInjective(PortionCombinaisons)
         /\ \A e \in Range(PortionCombinaisons) :
              IsSequence(e) /\ Len(e) = num_devices /\ Sum(e) = num_portions
<1> DEFINE values == [i \in 1..(num_portions + 1) |-> i - 1]
           lists == [d \in 1..num_devices |-> values]
           all == Product(lists)
<1>1. values \in Seq(Int) /\ IsInjective(values)
  BY DEF num_portions, IsInjective
<1>2. IsSequence(values) /\ IsInjective(values)
  <2> HIDE DEF values
  <2> QED  BY <1>1, SequenceOf
<1> HIDE DEF values
<1>3. /\ \A d \in 1..num_devices : IsSequence(lists[d]) /\ IsInjective(lists[d])
      /\ lists = [d \in 1..num_devices |-> lists[d]]
  BY <1>2
<1>4. PortionCombinaisons = Selected(all, {portions \in Range(all) : Sum(portions) = num_portions})
  BY DEF PortionCombinaisons, values
<1> HIDE DEF lists
<1>5. /\ IsSequence(all) /\ IsInjective(all)
      /\ \A e \in Range(all) : IsSequence(e) /\ Len(e) = num_devices
  BY <1>3, ProductFacts, ProductHas
<1> HIDE DEF all
<1> DEFINE wanted == {portions \in Range(all) : Sum(portions) = num_portions}
<1>6. \A e \in wanted : e \in Range(all) /\ Sum(e) = num_portions
  OBVIOUS
<1> HIDE DEF wanted
<1>7. /\ IsSequence(Selected(all, wanted)) /\ IsInjective(Selected(all, wanted))
      /\ Range(Selected(all, wanted)) = Range(all) \cap wanted
  BY <1>5, SelectedIs
<1> QED  BY <1>4, <1>5, <1>6, <1>7 DEF wanted

LEMMA ParamsValuesAre ==
  IsSequence(ParamsValues) /\ IsInjective(ParamsValues)
<1> DEFINE n == IF test = "109" THEN 3 ELSE 1
           lists == [i \in 1..n |-> Powers(ParamExps)]
<1>1. n \in Nat /\ \A i \in 1..n : IsSequence(Powers(ParamExps)) /\ IsInjective(Powers(ParamExps))
  BY PowersFacts
<1> HIDE DEF n
<1>2. /\ \A i \in 1..n : IsSequence(lists[i]) /\ IsInjective(lists[i])
      /\ lists = [i \in 1..n |-> lists[i]]
  BY <1>1
<1> HIDE DEF lists
<1>3. IsSequence(Product(lists)) /\ IsInjective(Product(lists))
  BY <1>1, <1>2, ProductFacts, ProductHas
<1>4. \E wanted : ParamsValues = Selected(Product(lists), wanted)
  BY DEF ParamsValues, lists, n
<1> QED  BY <1>3, <1>4, SelectedIs

(* Sets whose elements are in pairs have as many.                          *)
LEMMA AsMany ==
  ASSUME NEW S, NEW T, IsFiniteSet(S), NEW f \in [S -> T],
         \A i, j \in S : f[i] = f[j] => i = j, \A t \in T : \E i \in S : f[i] = t
  PROVE  IsFiniteSet(T) /\ Cardinality(T) = Cardinality(S)
<1>1. f \in Injection(S, T)
  BY DEF Injection, IsInjective
<1>2. f \in Surjection(S, T)
  BY DEF Surjection
<1>3. ExistsBijection(S, T)
  BY <1>1, <1>2 DEF Bijection, ExistsBijection
<1> QED  BY <1>3, FS_Bijection

LEMMA RangeIsFinite ==
  ASSUME NEW s, IsSequence(s)
  PROVE  IsFiniteSet(DOMAIN s) /\ IsFiniteSet(Range(s))
<1>1. Len(s) \in Nat /\ DOMAIN s = 1..Len(s) /\ s = [i \in 1..Len(s) |-> s[i]]
  BY SequenceFacts
<1>2. s \in Surjection(1..Len(s), Range(s))
  BY <1>1 DEF Surjection, Range
<1>3. IsFiniteSet(1..Len(s))
  BY <1>1, FS_Interval
<1> QED  BY <1>1, <1>2, <1>3, FS_Surjection

(* What the generator makes of them.                                       *)
Combined(list) ==
  [i \in DOMAIN list |->
     [versions |-> list[i][1], params |-> list[i][2], portions |-> list[i][3]]]

Makes(combo, r) == combo.versions[1] = r.version /\ combo.params = r.params

Coming(rest, r) == {i \in DOMAIN rest : Makes(rest[i], r)}

(* A launch of a version with a problem size that exists is in as many     *)
(* combinations as every other.                                            *)
LEMMA EachIsComing ==
  ASSUME num_devices = 1, NEW tables, IsTables(tables), "Versions" \in DOMAIN tables,
         NEW list,
         list = Product(<<VersionCombinaisons(tables), ParamsValues, PortionCombinaisons>>)
  PROVE  /\ IsSequence(list)
         /\ \A i \in DOMAIN list :
              /\ list[i][1][1] \in Range(VersionIds(tables)) /\ list[i][2] \in Range(ParamsValues)
              /\ list[i][3] \in Range(PortionCombinaisons)
         /\ Cardinality(Range(PortionCombinaisons)) \in Nat
         /\ \A r : r.version \in Range(VersionIds(tables)) /\ r.params \in Range(ParamsValues) =>
              Cardinality(Coming(Combined(list), r)) = Cardinality(Range(PortionCombinaisons))
<1>0. num_devices \in Nat /\ 1 \in 1..num_devices /\ 3 \in Nat
  OBVIOUS
<1>1. PICK versions : versions = VersionCombinaisons(tables)
  OBVIOUS
<1>2. /\ IsSequence(versions) /\ IsInjective(versions)
      /\ \A e : e \in Range(versions) <=>
           /\ IsSequence(e) /\ Len(e) = num_devices
           /\ \A d \in 1..num_devices : e[d] \in Range(VersionIds(tables))
  BY <1>0, <1>1, VersionCombinationsAre
<1>3. PICK portions : portions = PortionCombinaisons
  OBVIOUS
<1>4. IsSequence(portions) /\ IsInjective(portions)
  BY <1>0, <1>3, PortionCombinationsAre
<1>5. PICK sizes : sizes = ParamsValues
  OBVIOUS
<1>6. IsSequence(sizes) /\ IsInjective(sizes)
  BY <1>5, ParamsValuesAre
<1> DEFINE lists == <<versions, sizes, portions>>
<1>7. lists[1] = versions /\ lists[2] = sizes /\ lists[3] = portions
  OBVIOUS
<1>8. lists = [k \in 1..3 |-> lists[k]] /\ list = Product(lists)
  BY <1>1, <1>3, <1>5
<1> HIDE DEF lists
<1>9. \A k \in 1..3 : IsSequence(lists[k]) /\ IsInjective(lists[k])
  <2>1. \A k \in 1..3 : k = 1 \/ k = 2 \/ k = 3
    OBVIOUS
  <2> QED  BY <1>2, <1>4, <1>6, <1>7, <2>1
<1>10. IsSequence(list) /\ IsInjective(list)
  BY <1>0, <1>8, <1>9, ProductFacts, ProductHas
<1>11. ASSUME NEW e
       PROVE  e \in Range(list) <=> 
                /\ IsSequence(e) /\ Len(e) = 3
                /\ e[1] \in Range(versions) /\ e[2] \in Range(sizes) /\ e[3] \in Range(portions)
  <2>1. (\A k \in 1..3 : e[k] \in Range(lists[k])) <=>
          e[1] \in Range(versions) /\ e[2] \in Range(sizes) /\ e[3] \in Range(portions)
    <3>1. \A k : k \in 1..3 <=> k = 1 \/ k = 2 \/ k = 3
      OBVIOUS
    <3> QED  BY <1>7, <3>1
  <2>2. e \in Range(list) => IsSequence(e) /\ Len(e) = 3 /\ \A k \in 1..3 : e[k] \in Range(lists[k])
    BY <1>0, <1>8, <1>9, ProductFacts
  <2>3. IsSequence(e) /\ Len(e) = 3 /\ (\A k \in 1..3 : e[k] \in Range(lists[k])) =>
          e \in Range(list)
    BY <1>0, <1>8, <1>9, ProductHas
  <2> QED  BY <2>1, <2>2, <2>3
<1>12. Len(list) \in Nat /\ DOMAIN list = 1..Len(list)
  BY <1>10, SequenceFacts
<1>13. \A i \in DOMAIN list : list[i] \in Range(list)
  BY DEF Range
<1>14. IsFiniteSet(Range(portions))
  BY <1>4, RangeIsFinite
<1>15. Cardinality(Range(portions)) \in Nat
  BY <1>14, FS_CardinalityType
<1>16. ASSUME NEW r, r.version \in Range(VersionIds(tables)), r.params \in Range(sizes)
       PROVE  Cardinality(Coming(Combined(list), r)) = Cardinality(Range(portions))
  <2>1. PICK C : C = Coming(Combined(list), r)
    OBVIOUS
  <2>2. \A i : i \in C <=> i \in DOMAIN list /\ list[i][1][1] = r.version /\ list[i][2] = r.params
    BY <2>1 DEF Coming, Combined, Makes
  <2> DEFINE f == [i \in C |-> list[i][3]]
             first == <<r.version>>
  <2>3. f \in [C -> Range(portions)]
    BY <1>11, <1>13, <2>2
  <2>4. ASSUME NEW i \in C PROVE list[i] = <<first, r.params, f[i]>>
    <3>1. PICK e : e = list[i]
      OBVIOUS
    <3>2. IsSequence(e) /\ Len(e) = 3 /\ e[1] \in Range(versions) /\ e[1][1] = r.version /\ e[2] = r.params
      BY <1>11, <1>13, <2>2, <3>1
    <3>3. IsSequence(e[1]) /\ Len(e[1]) = 1
      BY <1>2, <3>2
    <3>4. e[1] = [k \in 1..1 |-> e[1][k]]
      BY <3>3, SequenceFacts
    <3>5. e[1] = first
      BY <3>2, <3>4
    <3>6. e = [k \in 1..3 |-> e[k]]
      BY <3>2, SequenceFacts
    <3>7. e = <<e[1], e[2], e[3]>>
      BY <3>6
    <3>8. f[i] = e[3]
      BY <3>1
    <3> HIDE DEF f, first
    <3> QED  BY <3>1, <3>2, <3>5, <3>7, <3>8
  <2>5. ASSUME NEW i \in C, NEW j \in C, f[i] = f[j] PROVE i = j
    <3>1. list[i] = list[j]
      BY <2>4, <2>5
    <3> QED  BY <1>10, <2>2, <3>1 DEF IsInjective
  <2>6. ASSUME NEW p \in Range(portions) PROVE \E i \in C : f[i] = p
    <3>1. PICK e : e = <<first, r.params, p>>
      OBVIOUS
    <3>2. IsSequence(e) /\ Len(e) = 3 /\ e[1] = first /\ e[2] = r.params /\ e[3] = p
      <4>1. e \in Seq({first, r.params, p})
        BY <3>1
      <4>2. IsSequence(e)
        BY <4>1, SequenceOf
      <4> QED  BY <3>1, <4>2
    <3>3. IsSequence(first) /\ Len(first) = 1 /\ first[1] = r.version
      <4>1. first \in Seq({r.version})
        OBVIOUS
      <4>2. IsSequence(first)
        <5> HIDE DEF first
        <5> QED  BY <4>1, SequenceOf
      <4> QED  BY <4>2
    <3> HIDE DEF first
    <3>4. first \in Range(versions)
      <4>1. \A d \in 1..num_devices : d = 1
        OBVIOUS
      <4> QED  BY <1>2, <1>16, <3>3, <4>1
    <3>5. e \in Range(list)
      BY <1>11, <1>16, <3>2, <3>4
    <3>6. PICK i \in DOMAIN list : list[i] = e
      BY <3>5 DEF Range
    <3>7. i \in C
      BY <2>2, <3>2, <3>3, <3>6
    <3>8. f[i] = e[3]
      BY <3>6, <3>7
    <3> QED  BY <3>2, <3>7, <3>8
  <2> HIDE DEF f
  <2>8. IsFiniteSet(C)
    <3>1. IsFiniteSet(1..Len(list))
      BY <1>10, <1>12, RangeIsFinite
    <3>2. C \subseteq 1..Len(list)
      BY <1>12, <2>2
    <3> QED  BY <3>1, <3>2, FS_Subset
  <2> HIDE DEF f
  <2> QED  BY <1>14, <2>1, <2>3, <2>5, <2>6, <2>8, AsMany
<1>17. ASSUME NEW i \in DOMAIN list
       PROVE  /\ list[i][1][1] \in Range(VersionIds(tables)) /\ list[i][2] \in Range(sizes)
              /\ list[i][3] \in Range(portions)
  BY <1>0, <1>2, <1>11, <1>13
<1> QED  BY <1>3, <1>5, <1>10, <1>15, <1>16, <1>17

-----------------------------------------------------------------------------
(* The order in which the code multiplies the tiles does not matter.       *)
LEMMA Reordered ==
  ASSUME NEW a \in Int, NEW b \in Int, NEW c \in Int, NEW d \in Int,
         NEW e \in Int, NEW f \in Int, NEW g \in Int
  PROVE  a * b * c * d * e * f * g = a * e * b * f * c * g * d
OBVIOUS

(* What the generator asks of a loop is that the launch fits it.           *)
LEMMA FitsLoopIs ==
  ASSUME NEW loop, loop.tiles \in [0..6 -> Nat], NEW gwv, \A k \in 1..3 : gwv[k] \in Nat \ {0},
         NEW length
  PROVE  FitsLoop(loop, gwv, length) <=> Fits(loop, gwv, length)
<1> DEFINE tiles == loop.tiles
           filled(t) == IF tiles[t] = 0 THEN 1 ELSE tiles[t]
           level(t, n) == IF tiles[t] = 0 THEN n ELSE 1
           size(t) == IF tiles[t] = 0
                      THEN CASE t = 1 -> gwv[1] [] t = 3 -> gwv[2] [] t = 5 -> gwv[3]
                             [] OTHER -> 1
                      ELSE IF t \in {1, 3, 5} THEN 1 ELSE tiles[t]
           tile == size(0) * size(1) * size(2) * size(3) * size(4) * size(5) * size(6)
           static == \A t \in {0, 2, 4, 6} : tiles[t] # 0
           shared == \E t \in {1, 3, 5} : tiles[t] # 1
           tiled == filled(0) * filled(2) * filled(4) * filled(6)
                      * level(1, gwv[1]) * level(3, gwv[2]) * level(5, gwv[3])
<1>1. /\ filled(0) \in Int /\ filled(2) \in Int /\ filled(4) \in Int /\ filled(6) \in Int
      /\ level(1, gwv[1]) \in Int /\ level(3, gwv[2]) \in Int /\ level(5, gwv[3]) \in Int
  <2>1. gwv[1] \in Int /\ gwv[2] \in Int /\ gwv[3] \in Int
    OBVIOUS
  <2>2. \A t \in {0, 1, 2, 3, 4, 5, 6} : tiles[t] \in Int
    OBVIOUS
  <2> HIDE DEF tiles
  <2> QED  BY <2>1, <2>2
<1>2. /\ size(0) = filled(0) /\ size(2) = filled(2) /\ size(4) = filled(4) /\ size(6) = filled(6)
      /\ size(1) = level(1, gwv[1]) /\ size(3) = level(3, gwv[2]) /\ size(5) = level(5, gwv[3])
  <2> HIDE DEF tiles
  <2> QED  OBVIOUS
<1>3. tile = tiled
  <2> HIDE DEF size, filled, level
  <2> QED  BY <1>1, <1>2, Reordered
<1>4. FitsLoop(loop, gwv, length) <=>
        (~shared \/ (tiled <= length /\ (~static \/ tiled = length)))
  BY DEF FitsLoop, TiledLength, LevelTiles, FillingTiles
<1>5. Fits(loop, gwv, length) <=> (shared => tile <= length /\ (static => tile = length))
  BY DEF Fits
<1> HIDE DEF tile, tiled, shared, static
<1> QED  BY <1>3, <1>4, <1>5

(* No program changes the versions and loops of the user.                  *)
SameVersions(tables) ==
  \A name \in {"Versions", "Loops"} : name \in DOMAIN tables /\ tables[name] = UserVersions[name]

LEMMA SameLoops ==
  ASSUME NEW tables, SameVersions(tables)
  PROVE  /\ VersionIds(tables) = VersionIds(UserVersions)
         /\ \A v : LoopsOf(tables, 0, 0, v) = LoopsOf(UserVersions, 0, 0, v)
BY DEF SameVersions, VersionIds, VersionsOf, LoopsOf, acc_sqlite_read_table

(* The generator selects the launches that fit all loops of the version.   *)
FitsAll(version, gwv, params) ==
  \A loop \in Range(LoopsOf(UserVersions, 0, 0, version)) :
    Fits(loop, gwv, params[loop.loop_id + 1])

LEMMA LoopsAreInOrder ==
  ASSUME NEW version, NEW loops, loops = LoopsOf(UserVersions, 0, 0, version),
         NEW i \in DOMAIN loops
  PROVE  i = loops[i].loop_id + 1
<1> DEFINE table == UserVersions["Loops"]
           conds == [region_id |-> 0, kernel_id |-> 0, version_id |-> version]
           wanted == {row \in Range(table) :
                        \A field \in DOMAIN conds : row[field] = conds[field]}
<1>1. IsSequence(table)
  BY VersionsAssumption DEF IsTables, IsSequence
<1>2. loops = Selected(table, wanted)
  BY DEF LoopsOf, acc_sqlite_read_table
<1> HIDE DEF table, wanted
<1>3. PICK idx \in [DOMAIN loops -> 1..Len(table)] :
        \A a \in DOMAIN idx : loops[a] = table[idx[a]] /\ table[idx[a]] \in wanted
  BY <1>1, <1>2, SelectedOrder DEF IsSequence
<1>4. IsSequence(loops) /\ Len(loops) \in Nat /\ DOMAIN loops = 1..Len(loops)
  BY <1>1, <1>2, SelectedFacts, SequenceFacts
<1>5. loops[i] \in Range(UserVersions["Loops"]) /\ loops[i].version_id = version
  <2>1. loops[i] \in wanted
    BY <1>3
  <2>2. "version_id" \in DOMAIN conds /\ conds["version_id"] = version
    OBVIOUS
  <2> HIDE DEF conds
  <2> QED  BY <2>1, <2>2 DEF table, wanted
<1>6. loops[i].loop_id = i - 1
  BY <1>5, LoopOrderAssumption
<1> QED  BY <1>4, <1>6

LEMMA LaunchFitsIs ==
  ASSUME NEW tables, SameVersions(tables), NEW version, NEW params, NEW gwv \in Range(Launches)
  PROVE  LaunchFits(LoopsOf(tables, 0, 0, version), gwv, params) <=> FitsAll(version, gwv, params)
<1>1. PICK loops : loops = LoopsOf(UserVersions, 0, 0, version)
  OBVIOUS
<1>2. loops = LoopsOf(tables, 0, 0, version)
  BY <1>1, SameLoops
<1>3. \A k \in 1..3 : gwv[k] \in Nat \ {0}
  BY LaunchesAre
<1>4. \A loop \in Range(loops) : loop.tiles \in [0..6 -> Nat]
  <2>1. IsSequence(UserVersions["Loops"])
    BY VersionsAssumption DEF IsTables, IsSequence
  <2>2. Range(loops) \subseteq Range(UserVersions["Loops"])
    BY <1>1, <2>1, SelectedFacts DEF LoopsOf, acc_sqlite_read_table
  <2> QED  BY <2>2, VersionsAssumption
<1>5. \A i \in DOMAIN loops : loops[i] \in Range(loops)
  BY DEF Range
<1>6. ASSUME NEW i \in DOMAIN loops PROVE i = loops[i].loop_id + 1
  BY <1>1, LoopsAreInOrder
<1>7. \A loop \in Range(loops) : \E i \in DOMAIN loops : loops[i] = loop
  BY DEF Range
<1>8. \A loop \in Range(loops) :
        FitsLoop(loop, gwv, params[loop.loop_id + 1]) <=> Fits(loop, gwv, params[loop.loop_id + 1])
  BY <1>3, <1>4, FitsLoopIs
<1>9. LaunchFits(loops, gwv, params) <=>
        \A i \in DOMAIN loops : FitsLoop(loops[i], gwv, params[loops[i].loop_id + 1])
  BY <1>6 DEF LaunchFits
<1>10. FitsAll(version, gwv, params) <=>
        \A loop \in Range(loops) : Fits(loop, gwv, params[loop.loop_id + 1])
  BY <1>1 DEF FitsAll
<1> QED  BY <1>2, <1>5, <1>7, <1>8, <1>9, <1>10, Zenon

(* The launches of a version and a size.                                   *)
LEMMA ValidCombinaisonsAre ==
  ASSUME num_devices = 1, NEW tables, SameVersions(tables), NEW combo, NEW valid,
         valid = ValidCombinaisons(tables, combo)
  PROVE  /\ IsSequence(valid)
         /\ \A i \in DOMAIN valid :
              /\ valid[i] = <<valid[i][1]>> /\ valid[i][1] \in Range(Launches)
              /\ FitsAll(combo.versions[1], valid[i][1], combo.params)
         /\ \A i, j \in DOMAIN valid : valid[i][1] = valid[j][1] => i = j
         /\ \A gwv \in Range(Launches) :
              FitsAll(combo.versions[1], gwv, combo.params) =>
                \E i \in DOMAIN valid : valid[i][1] = gwv
         /\ FlattenSeq(valid) = [i \in DOMAIN valid |-> valid[i][1]]
<1> DEFINE wanted(d) == {gwv \in Range(Launches) :
                           LaunchFits(LoopsOf(tables, 0, 0, combo.versions[d]), gwv, combo.params)}
           lists == [d \in 1..num_devices |-> Selected(Launches, wanted(d))]
<1>1. valid = Product(lists)
  BY DEF ValidCombinaisons
<1>2. lists[1] = Selected(Launches, wanted(1)) /\ lists = [k \in 1..1 |-> lists[k]]
  OBVIOUS
<1> HIDE DEF lists
<1>3. \A gwv : gwv \in wanted(1) <=>
        gwv \in Range(Launches) /\ FitsAll(combo.versions[1], gwv, combo.params)
  BY LaunchFitsIs
<1> HIDE DEF wanted
<1>4. /\ IsSequence(lists[1]) /\ IsInjective(lists[1])
      /\ \A gwv : gwv \in Range(lists[1]) <=>
           gwv \in Range(Launches) /\ FitsAll(combo.versions[1], gwv, combo.params)
  <2>1. /\ IsSequence(lists[1]) /\ IsInjective(lists[1])
        /\ Range(lists[1]) = Range(Launches) \cap wanted(1)
    BY <1>2, LaunchesAre, SelectedIs
  <2> QED  BY <1>3, <2>1
<1>5. /\ 1 \in Nat /\ \A k \in 1..1 : k = 1 /\ IsSequence(lists[k]) /\ IsInjective(lists[k])
      /\ 1 \in 1..1
  BY <1>4
<1>6. IsSequence(valid) /\ IsInjective(valid)
  BY <1>1, <1>2, <1>5, ProductFacts, ProductHas
<1>7. ASSUME NEW e \in Range(valid) PROVE e = <<e[1]>> /\ e[1] \in Range(lists[1])
  <2>1. IsSequence(e) /\ Len(e) = 1 /\ \A k \in 1..1 : e[k] \in Range(lists[k])
    BY <1>1, <1>2, <1>5, ProductFacts
  <2>2. e = [k \in 1..1 |-> e[k]]
    BY <2>1, SequenceFacts
  <2> QED  BY <1>5, <2>1, <2>2
<1>8. \A i \in DOMAIN valid : valid[i] \in Range(valid)
  BY DEF Range
<1>9. ASSUME NEW i \in DOMAIN valid, NEW j \in DOMAIN valid, valid[i][1] = valid[j][1]
      PROVE  i = j
  <2>1. valid[i] = valid[j]
    BY <1>7, <1>8, <1>9
  <2> QED  BY <1>6, <2>1 DEF IsInjective
<1>10. ASSUME NEW gwv \in Range(lists[1]) PROVE \E i \in DOMAIN valid : valid[i][1] = gwv
  <2>1. PICK e : e = <<gwv>>
    OBVIOUS
  <2>2. e \in Seq({gwv}) /\ Len(e) = 1 /\ e[1] = gwv
    BY <2>1
  <2>3. IsSequence(e)
    BY <2>2, SequenceOf
  <2>4. \A k \in 1..1 : e[k] \in Range(lists[k])
    BY <1>5, <2>2
  <2>5. e \in Range(valid)
    BY <1>1, <1>2, <1>5, <2>2, <2>3, <2>4, ProductHas
  <2> QED  BY <2>2, <2>5 DEF Range
<1>11. FlattenSeq(valid) = [i \in DOMAIN valid |-> valid[i][1]]
  <2>1. Len(valid) \in Nat /\ DOMAIN valid = 1..Len(valid) /\ valid = [i \in 1..Len(valid) |-> valid[i]]
    BY <1>6, SequenceFacts
  <2>2. \A i \in 1..Len(valid) : valid[i] = <<valid[i][1]>>
    BY <1>7, <1>8, <2>1
  <2> QED  BY <2>1, <2>2, FlattenedOnes
<1> QED  BY <1>4, <1>6, <1>7, <1>8, <1>9, <1>10, <1>11

(* The portions of a run are those of its combination.                     *)
LEMMA PortionsOfRuns ==
  ASSUME num_devices \in Nat, NEW tables, NEW combo, IsSequence(combo.portions),
         Len(combo.portions) = num_devices, Sum(combo.portions) = num_portions
  PROVE  \A i \in DOMAIN RunsOf(tables, combo) : PortionsAddUp(RunsOf(tables, combo)[i])
<1> DEFINE valid == ValidCombinaisons(tables, combo)
           gwv == FlattenSeq(valid)
           device(i, d) == [version |-> combo.versions[d], type |-> "device", gang |-> gwv[i][1],
                            worker |-> gwv[i][2], vector |-> gwv[i][3],
                            portion |-> combo.portions[d]]
           run(i) == [devices |-> [d \in 1..num_devices |-> device(i, d)],
                      params |-> combo.params, executed |-> 0]
<1>1. RunsOf(tables, combo) = [i \in DOMAIN valid |-> run(i)]
  BY DEF RunsOf
<1>2. combo.portions = [d \in 1..num_devices |-> combo.portions[d]]
  BY SequenceFacts
<1>3. \A i, d : device(i, d).portion = combo.portions[d]
  OBVIOUS
<1>4. \A i : run(i).devices = [d \in 1..num_devices |-> device(i, d)]
  OBVIOUS
<1> HIDE DEF valid, device, run
<1>5. ASSUME NEW i PROVE PortionsAddUp(run(i))
  <2>1. run(i).devices = [d \in 1..num_devices |-> device(i, d)]
    BY <1>4
  <2>2. PICK devices : devices = run(i).devices
    OBVIOUS
  <2>3. DOMAIN devices = 1..num_devices /\ \A d \in 1..num_devices : devices[d] = device(i, d)
    BY <2>1, <2>2
  <2>4. PICK portions : portions = combo.portions
    OBVIOUS
  <2>5. \A d \in 1..num_devices : devices[d].portion = portions[d]
    BY <1>3, <2>3, <2>4
  <2>6. [d \in DOMAIN devices |-> devices[d].portion] = portions
    BY <1>2, <2>3, <2>4, <2>5
  <2> QED  BY <2>2, <2>4, <2>6 DEF PortionsAddUp
<1> QED  BY <1>1, <1>5

Made(runs, r) == {i \in DOMAIN runs : AsValid(runs[i]) = r}

IsCombo(combo) ==
  combo.versions[1] \in Range(VersionIds(UserVersions)) /\ combo.params \in Range(ParamsValues)

(* For one device a combination makes each launch that fits once.          *)
LEMMA OneRunEach ==
  ASSUME num_devices = 1, NEW tables, SameVersions(tables), NEW combo, IsCombo(combo),
         NEW runs, runs = RunsOf(tables, combo)
  PROVE  /\ \A i \in DOMAIN runs : AsValid(runs[i]) \in FittingRuns
         /\ \A r \in FittingRuns :
              Cardinality(Made(runs, r)) = IF Makes(combo, r) THEN 1 ELSE 0
<1>0. PICK valid : valid = ValidCombinaisons(tables, combo)
  OBVIOUS
<1> DEFINE gwv == FlattenSeq(valid)
           device(i, d) == [version |-> combo.versions[d], type |-> "device", gang |-> gwv[i][1],
                            worker |-> gwv[i][2], vector |-> gwv[i][3],
                            portion |-> combo.portions[d]]
           run(i) == [devices |-> [d \in 1..num_devices |-> device(i, d)],
                      params |-> combo.params, executed |-> 0]
           launch(i) == [version |-> combo.versions[1], gwv |-> valid[i][1],
                         params |-> combo.params]
<1>1. runs = [i \in DOMAIN valid |-> run(i)]
  BY <1>0 DEF RunsOf
<1>2. \A i : run(i).params = combo.params
  OBVIOUS
<1>3. \A i : /\ device(i, 1).version = combo.versions[1] /\ device(i, 1).gang = gwv[i][1]
             /\ device(i, 1).worker = gwv[i][2] /\ device(i, 1).vector = gwv[i][3]
  OBVIOUS
<1>4. ASSUME NEW i PROVE run(i).devices[1] = device(i, 1)
  <2>1. run(i).devices = [d \in 1..num_devices |-> device(i, d)] /\ 1 \in 1..num_devices
    OBVIOUS
  <2> HIDE DEF device, run
  <2> QED  BY <2>1
<1> HIDE DEF run, device
<1>5. /\ \A i \in DOMAIN valid :
           /\ valid[i][1] \in Range(Launches)
           /\ FitsAll(combo.versions[1], valid[i][1], combo.params)
      /\ \A i, j \in DOMAIN valid : valid[i][1] = valid[j][1] => i = j
      /\ \A g \in Range(Launches) :
           FitsAll(combo.versions[1], g, combo.params) =>
             \E i \in DOMAIN valid : valid[i][1] = g
      /\ gwv = [i \in DOMAIN valid |-> valid[i][1]]
  <2> HIDE DEF launch
  <2>1. FlattenSeq(valid) = [i \in DOMAIN valid |-> valid[i][1]]
    BY <1>0, ValidCombinaisonsAre
  <2>2. \A i \in DOMAIN valid : /\ valid[i][1] \in Range(Launches)
                                /\ FitsAll(combo.versions[1], valid[i][1], combo.params)
    BY <1>0, ValidCombinaisonsAre
  <2>3. \A i, j \in DOMAIN valid : valid[i][1] = valid[j][1] => i = j
    BY <1>0, ValidCombinaisonsAre
  <2>4. \A g \in Range(Launches) :
           FitsAll(combo.versions[1], g, combo.params) =>
             \E i \in DOMAIN valid : valid[i][1] = g
    BY <1>0, ValidCombinaisonsAre
  <2> QED  BY <2>1, <2>2, <2>3, <2>4
<1> HIDE DEF gwv
<1>6. \A i \in DOMAIN valid : gwv[i] = valid[i][1]
  BY <1>5
<1>7. ASSUME NEW i \in DOMAIN valid PROVE AsValid(run(i)) = launch(i)
  <2>1. AsValid(run(i)) = [version |-> combo.versions[1], params |-> combo.params,
                           gwv |-> <<gwv[i][1], gwv[i][2], gwv[i][3]>>]
    BY <1>2, <1>3, <1>4 DEF AsValid
  <2>2. <<gwv[i][1], gwv[i][2], gwv[i][3]>> = gwv[i]
    <3>1. PICK g : g = gwv[i]
      OBVIOUS
    <3>2. g \in Range(Launches)
      BY <1>5, <1>6, <3>1
    <3>3. g = <<g[1], g[2], g[3]>>
      BY <3>2, LaunchesAre
    <3> QED  BY <3>1, <3>3
  <2> QED  BY <1>6, <2>1, <2>2
<1>8. ASSUME NEW r
      PROVE  r \in FittingRuns <=>
               \E v \in Range(VersionIds(UserVersions)), g \in Range(Launches),
                  params \in Range(ParamsValues) :
                 /\ r = [version |-> v, gwv |-> g, params |-> params]
                 /\ FitsAll(v, g, params)
  <2>1. r \in FittingRuns <=> r \in ValidRuns /\ FitsAll(r.version, r.gwv, r.params)
    BY DEF FittingRuns, FitsAll
  <2>2. r \in ValidRuns <=>
          \E v \in Range(VersionIds(UserVersions)), g \in Range(Launches),
             params \in Range(ParamsValues) : r = [version |-> v, gwv |-> g, params |-> params]
    BY DEF ValidRuns
  <2> QED  BY <2>1, <2>2
<1>9. ASSUME NEW i \in DOMAIN valid PROVE launch(i) \in FittingRuns
  <2>1. PICK v \in Range(VersionIds(UserVersions)) : v = combo.versions[1]
    BY DEF IsCombo
  <2>2. PICK params \in Range(ParamsValues) : params = combo.params
    BY DEF IsCombo
  <2>3. PICK g \in Range(Launches) : g = valid[i][1]
    BY <1>5
  <2>4. launch(i) = [version |-> v, gwv |-> g, params |-> params]
    BY <2>1, <2>2, <2>3
  <2>5. FitsAll(v, g, params)
    BY <1>5, <2>1, <2>2, <2>3
  <2> HIDE DEF launch
  <2> QED  BY <1>8, <2>4, <2>5
<1>10. DOMAIN runs = DOMAIN valid /\ \A i \in DOMAIN runs : AsValid(runs[i]) = launch(i)
  BY <1>1, <1>7
<1>11. ASSUME NEW r \in FittingRuns
       PROVE  Cardinality(Made(runs, r)) = IF Makes(combo, r) THEN 1 ELSE 0
  <2>1. PICK v \in Range(VersionIds(UserVersions)), g \in Range(Launches),
             params \in Range(ParamsValues) :
          r = [version |-> v, gwv |-> g, params |-> params] /\ FitsAll(v, g, params)
    BY <1>8
  <2>2. r.version = v /\ r.gwv = g /\ r.params = params
    BY <2>1
  <2>3. \A i : i \in Made(runs, r) <=> i \in DOMAIN valid /\ launch(i) = r
    BY <1>10 DEF Made
  <2>4. \A i : launch(i).version = combo.versions[1] /\ launch(i).params = combo.params
    OBVIOUS
  <2>5. CASE Makes(combo, r)
    <3>1. combo.versions[1] = v /\ combo.params = params
      BY <2>2, <2>5 DEF Makes
    <3>2. \A i : launch(i) = r <=> valid[i][1] = g
      <4>1. \A i : launch(i).gwv = valid[i][1]
        OBVIOUS
      <4> QED  BY <2>1, <3>1, <4>1
    <3> HIDE DEF launch
    <3>3. PICK i \in DOMAIN valid : valid[i][1] = g
      BY <1>5, <2>1, <3>1
    <3>4. Made(runs, r) = {i}
      BY <1>5, <2>3, <3>2, <3>3
    <3> QED  BY <2>5, <3>4, FS_Singleton
  <2>6. CASE ~Makes(combo, r)
    <3>1. \A i : launch(i) # r
      <4>1. combo.versions[1] # v \/ combo.params # params
        BY <2>2, <2>6 DEF Makes
      <4> HIDE DEF launch
      <4> QED  BY <2>2, <2>4, <4>1
    <3>2. Made(runs, r) = {}
      BY <2>3, <3>1
    <3> QED  BY <2>6, <3>2, FS_EmptySet
  <2> QED  BY <2>5, <2>6
<1> HIDE DEF launch
<1> QED  BY <1>9, <1>10, <1>11

(* The numbers of rows of two tables that are put together add up.         *)
Follows(A, B, C, m, n) ==
  /\ A \subseteq 1..m /\ B \subseteq 1..n /\ C \subseteq 1..(m + n)
  /\ \A i \in 1..(m + n) : i \in C <=> i \in A \/ (m < i /\ i - m \in B)

LEMMA ShiftedCount ==
  ASSUME NEW m \in Nat, NEW n \in Nat, NEW A, NEW B, NEW C, Follows(A, B, C, m, n)
  PROVE  /\ Cardinality(C) = Cardinality(A) + Cardinality(B)
         /\ Cardinality(A) \in Nat /\ Cardinality(B) \in Nat
<1> DEFINE D == {i \in (m + 1)..(m + n) : i - m \in B}
           f == [i \in D |-> i - m]
<1>0. /\ A \subseteq 1..m /\ B \subseteq 1..n /\ C \subseteq 1..(m + n)
      /\ \A i \in 1..(m + n) : i \in C <=> i \in A \/ (m < i /\ i - m \in B)
  BY DEF Follows
<1>1. IsFiniteSet(A) /\ IsFiniteSet(B) /\ IsFiniteSet(D)
  <2>1. IsFiniteSet(1..m) /\ IsFiniteSet(1..n) /\ IsFiniteSet((m + 1)..(m + n))
    BY FS_Interval
  <2>2. A \subseteq 1..m /\ B \subseteq 1..n /\ D \subseteq (m + 1)..(m + n)
    BY <1>0
  <2> HIDE DEF D
  <2> QED  BY <2>1, <2>2, FS_Subset
<1>2. f \in [D -> B] /\ \A i \in D : f[i] = i - m
  OBVIOUS
<1>3. \A i \in D, j \in D : i - m = j - m => i = j
  OBVIOUS
<1>4. ASSUME NEW t \in B PROVE m + t \in D /\ (m + t) - m = t
  <2>1. t \in 1..n
    BY <1>0
  <2>2. m + t \in (m + 1)..(m + n) /\ (m + t) - m = t
    BY <2>1
  <2> QED  BY <2>2
<1>5. \A i : i \in D <=> i \in (m + 1)..(m + n) /\ i - m \in B
  OBVIOUS
<1>6. A \cap D = {}
  <2>1. ASSUME NEW i \in A, i \in (m + 1)..(m + n) PROVE FALSE
    BY <1>0, <2>1
  <2> QED  BY <1>5, <2>1
<1> HIDE DEF D, f
<1>7. Cardinality(B) = Cardinality(D)
  <2>1. \A i, j \in D : f[i] = f[j] => i = j
    BY <1>2, <1>3
  <2>2. \A t \in B : \E i \in D : f[i] = t
    BY <1>2, <1>4
  <2> QED  BY <1>1, <1>2, <2>1, <2>2, AsMany
<1>8. C = A \cup D
  <2>1. \A i : i \in A \/ i \in D => i \in 1..(m + n)
    <3>1. \A i \in (m + 1)..(m + n) : i \in 1..(m + n)
      OBVIOUS
    <3>2. \A i \in 1..m : i \in 1..(m + n)
      OBVIOUS
    <3> QED  BY <1>0, <1>5, <3>1, <3>2
  <2>2. \A i \in 1..(m + n) : i \in D <=> m < i /\ i - m \in B
    BY <1>5
  <2> QED  BY <1>0, <2>1, <2>2
<1>9. Cardinality(A \cup D) = Cardinality(A) + Cardinality(D) - 0
  BY <1>1, <1>6, FS_Union, FS_EmptySet
<1>10. Cardinality(A) \in Nat /\ Cardinality(D) \in Nat
  BY <1>1, FS_CardinalityType
<1> QED  BY <1>7, <1>8, <1>9, <1>10

LEMMA JoinedMade ==
  ASSUME NEW all, NEW s, NEW t, IsSequence(s), IsSequence(t), IsJoin(all, s, t), NEW r
  PROVE  /\ Cardinality(Made(all, r)) = Cardinality(Made(s, r)) + Cardinality(Made(t, r))
         /\ Cardinality(Made(s, r)) \in Nat /\ Cardinality(Made(t, r)) \in Nat
<1>1. /\ IsSequence(all) /\ Len(all) = Len(s) + Len(t)
      /\ \A i \in 1..Len(s) : all[i] = s[i]
      /\ \A i \in 1..Len(t) : all[Len(s) + i] = t[i]
  BY JoinedRows
<1>2. PICK m \in Nat : m = Len(s)
  BY SequenceFacts
<1>3. PICK n \in Nat : n = Len(t)
  BY SequenceFacts
<1>4. DOMAIN s = 1..m /\ DOMAIN t = 1..n /\ DOMAIN all = 1..(m + n)
  BY <1>1, <1>2, <1>3, SequenceFacts
<1> DEFINE A == Made(s, r)
           B == Made(t, r)
           C == Made(all, r)
<1>5. A \in SUBSET (1..m) /\ B \in SUBSET (1..n) /\ C \in SUBSET (1..(m + n))
  BY <1>4 DEF Made
<1>6. ASSUME NEW i \in 1..(m + n)
      PROVE  \/ i \in 1..m /\ ~(m < i) /\ all[i] = s[i]
             \/ i \notin 1..m /\ m < i /\ i - m \in 1..n /\ all[i] = t[i - m]
  <2>1. CASE i <= m
    <3>1. i \in 1..m /\ ~(m < i)
      BY <2>1
    <3> QED  BY <1>1, <1>2, <3>1
  <2>2. CASE ~(i <= m)
    <3>1. i \notin 1..m /\ m < i /\ i - m \in 1..n /\ m + (i - m) = i
      BY <2>2
    <3>2. all[m + (i - m)] = t[i - m]
      BY <1>1, <1>2, <1>3, <3>1
    <3> QED  BY <3>1, <3>2
  <2> QED  BY <2>1, <2>2
<1>9. /\ \A i : i \in C <=> i \in 1..(m + n) /\ AsValid(all[i]) = r
      /\ \A i : i \in A <=> i \in 1..m /\ AsValid(s[i]) = r
      /\ \A i : i \in B <=> i \in 1..n /\ AsValid(t[i]) = r
  BY <1>4 DEF Made
<1> HIDE DEF A, B, C
<1>10. ASSUME NEW i \in 1..(m + n)
       PROVE  i \in C <=> i \in A \/ (m < i /\ i - m \in B)
  <2>1. i \in C <=> AsValid(all[i]) = r
    BY <1>9
  <2>2. CASE i \in 1..m /\ ~(m < i) /\ all[i] = s[i]
    <3>1. i \in A <=> AsValid(all[i]) = r
      BY <1>9, <2>2
    <3> QED  BY <2>1, <2>2, <3>1, Zenon
  <2>3. CASE i \notin 1..m /\ m < i /\ i - m \in 1..n /\ all[i] = t[i - m]
    <3>1. i \notin A
      BY <1>9, <2>3, Zenon
    <3>2. i - m \in B <=> AsValid(all[i]) = r
      BY <1>9, <2>3, Zenon
    <3> QED  BY <2>1, <2>3, <3>1, <3>2, Zenon
  <2> QED  BY <1>6, <2>2, <2>3, Zenon
<1>11. /\ Cardinality(C) = Cardinality(A) + Cardinality(B)
       /\ Cardinality(A) \in Nat /\ Cardinality(B) \in Nat
  <2>1. Follows(A, B, C, m, n)
    BY <1>5, <1>10 DEF Follows
  <2> QED  BY <2>1, ShiftedCount
<1> QED  BY <1>11 DEF A, B, C

LEMMA HeadComes ==
  ASSUME NEW rest, IsSequence(rest), rest # <<>>, NEW r
  PROVE  /\ Cardinality(Coming(rest, r)) =
              (IF Makes(Head(rest), r) THEN 1 ELSE 0) + Cardinality(Coming(Tail(rest), r))
         /\ Cardinality(Coming(Tail(rest), r)) \in Nat
<1>1. /\ Len(rest) \in Nat \ {0} /\ DOMAIN rest = 1..Len(rest)
      /\ Head(rest) = rest[1] /\ Len(Tail(rest)) = Len(rest) - 1
      /\ DOMAIN Tail(rest) = 1..(Len(rest) - 1)
      /\ \A i \in 1..(Len(rest) - 1) : Tail(rest)[i] = rest[i + 1]
  BY DEF IsSequence
<1>2. PICK n \in Nat : Len(rest) = n + 1
  <2>1. Len(rest) - 1 \in Nat /\ Len(rest) = (Len(rest) - 1) + 1
    BY <1>1
  <2> QED  BY <2>1
<1>3. PICK tail : tail = Tail(rest)
  OBVIOUS
<1>4. DOMAIN tail = 1..n /\ \A i \in 1..n : tail[i] = rest[i + 1]
  BY <1>1, <1>2, <1>3
<1> DEFINE A == IF Makes(rest[1], r) THEN {1} ELSE {}
           B == Coming(tail, r)
           C == Coming(rest, r)
<1>5. /\ 1 \in Nat /\ A \in SUBSET (1..1) /\ B \in SUBSET (1..n)
      /\ C \in SUBSET (1..(1 + n))
  BY <1>1, <1>2, <1>4 DEF Coming
<1>6. /\ \A i : i \in C <=> i \in 1..(n + 1) /\ Makes(rest[i], r)
      /\ \A i : i \in A <=> i = 1 /\ Makes(rest[1], r)
      /\ \A i : i \in B <=> i \in 1..n /\ Makes(tail[i], r)
  BY <1>1, <1>2, <1>4 DEF Coming
<1>7. Cardinality(A) = IF Makes(rest[1], r) THEN 1 ELSE 0
  BY FS_Singleton, FS_EmptySet
<1> HIDE DEF A, B, C
<1>8. ASSUME NEW i \in 1..(1 + n)
      PROVE  i \in C <=> i \in A \/ (1 < i /\ i - 1 \in B)
  <2>1. i \in 1..(n + 1)
    OBVIOUS
  <2>2. CASE i = 1
    <3>1. ~(1 < i)
      BY <2>2
    <3> QED  BY <1>6, <2>1, <2>2, <3>1
  <2>3. CASE i # 1
    <3>1. i - 1 \in 1..n /\ (i - 1) + 1 = i /\ 1 < i
      BY <2>3
    <3>2. tail[i - 1] = rest[i]
      BY <1>4, <3>1
    <3> QED  BY <1>6, <2>1, <2>3, <3>1, <3>2
  <2> QED  BY <2>2, <2>3
<1>9. Cardinality(C) = Cardinality(A) + Cardinality(B) /\ Cardinality(B) \in Nat
  <2>1. Follows(A, B, C, 1, n)
    BY <1>5, <1>8 DEF Follows
  <2> QED  BY <2>1, ShiftedCount
<1>10. Cardinality(C) = (IF Makes(rest[1], r) THEN 1 ELSE 0) + Cardinality(B)
  BY <1>7, <1>9
<1> QED  BY <1>1, <1>3, <1>9, <1>10 DEF B, C

-----------------------------------------------------------------------------
(* The runs of a profile, with those that are still to come.  Only one of  *)
(* the two generators makes any.                                           *)
Vectors == test = "103"

(* Of each launch that fits as many runs are there or to come.             *)
Balanced(runs, rest, fitting) ==
  \E c \in Nat : \A r \in fitting : Cardinality(Made(runs, r)) + Cardinality(Coming(rest, r)) = c

RunsFit(tables, rest, vectors, fitting) ==
  /\ \A i \in DOMAIN Rows(tables, "Runs") : PortionsAddUp(Rows(tables, "Runs")[i])
  /\ vectors => /\ \A i \in DOMAIN Rows(tables, "Runs") : AsValid(Rows(tables, "Runs")[i]) \in fitting
            /\ Balanced(Rows(tables, "Runs"), rest, fitting)

Even(f, tables, rest, vectors, fitting) ==
  /\ f = "versions" => SameVersions(tables)
  /\ f = "profile" => RunsFit(tables, rest, vectors, fitting)

LEMMA SameRunsAreEven ==
  ASSUME NEW f, NEW old, NEW new, NEW rest, NEW vectors, NEW fitting,
         Even(f, old, rest, vectors, fitting), DOMAIN old \subseteq DOMAIN new,
         \A name \in {"Runs", "Versions", "Loops"} : Rows(new, name) = Rows(old, name)
  PROVE  Even(f, new, rest, vectors, fitting)
<1>1. RunsFit(old, rest, vectors, fitting) => RunsFit(new, rest, vectors, fitting)
  <2>1. Rows(new, "Runs") = Rows(old, "Runs")
    OBVIOUS
  <2> QED  BY <2>1 DEF RunsFit
<1>2. SameVersions(old) => SameVersions(new)
  <2>1. SUFFICES ASSUME SameVersions(old), NEW name \in {"Versions", "Loops"}
                 PROVE  name \in DOMAIN new /\ new[name] = UserVersions[name]
    BY DEF SameVersions
  <2>2. name \in DOMAIN old /\ old[name] = UserVersions[name] /\ Rows(new, name) = Rows(old, name)
    BY <2>1 DEF SameVersions
  <2> QED  BY <2>2 DEF Rows
<1> QED  BY <1>1, <1>2 DEF Even

LEMMA CreatedIsEven ==
  ASSUME NEW f, NEW tables, NEW name, IsTables(tables), NEW rest, NEW vectors, NEW fitting,
         Even(f, tables, rest, vectors, fitting),
         NEW new, new = acc_sqlite_create_table(tables, name)
  PROVE  IsTables(new) /\ Even(f, new, rest, vectors, fitting) /\ name \in DOMAIN new
<1>1. /\ IsTables(new) /\ Extends(tables, new) /\ name \in DOMAIN new
      /\ \A other : Rows(new, other) = Rows(tables, other)
  BY CreatedTable
<1>2. DOMAIN tables \subseteq DOMAIN new
  BY <1>1 DEF Extends
<1> QED  BY <1>1, <1>2, SameRunsAreEven

LEMMA InsertedIsEven ==
  ASSUME NEW f, NEW tables, NEW name, IsTables(tables), NEW rest, NEW vectors, NEW fitting,
         Even(f, tables, rest, vectors, fitting), name \notin {"Runs", "Versions", "Loops"},
         NEW rows, IsSequence(rows), NEW new, new = Insert(tables, name, rows)
  PROVE  IsTables(new) /\ Even(f, new, rest, vectors, fitting) /\ DOMAIN tables \subseteq DOMAIN new
<1>1. /\ IsTables(new) /\ Extends(tables, new)
      /\ \A other : other # name => Rows(new, other) = Rows(tables, other)
  BY InsertedRows
<1>2. DOMAIN tables \subseteq DOMAIN new
  BY <1>1 DEF Extends
<1>3. \A other \in {"Runs", "Versions", "Loops"} : Rows(new, other) = Rows(tables, other)
  BY <1>1
<1> QED  BY <1>1, <1>2, <1>3, SameRunsAreEven

LEMMA ProfilingIsEven ==
  ASSUME NEW f, NEW tables, IsTables(tables), NEW rest, NEW vectors, NEW fitting,
         Even(f, tables, rest, vectors, fitting), NEW new, new = acc_profiling_init_db(tables)
  PROVE  IsTables(new) /\ Even(f, new, rest, vectors, fitting)
<1>1. PICK a : a = acc_sqlite_create_table(tables, "Devices")
  OBVIOUS
<1>2. PICK b : b = acc_sqlite_create_table(a, "Events")
  OBVIOUS
<1>3. new = Insert(b, "Devices", DeviceRows)
  BY <1>1, <1>2 DEF acc_profiling_init_db
<1>4. IsTables(a) /\ Even(f, a, rest, vectors, fitting)
  BY <1>1, CreatedIsEven
<1>5. IsTables(b) /\ Even(f, b, rest, vectors, fitting)
  BY <1>2, <1>4, CreatedIsEven
<1>6. IsSequence(DeviceRows)
  <2> DEFINE row(i) == [device_id |-> i - 1]
  <2>1. DeviceRows = [i \in 1..NumOpenCLDevices |-> row(i)]
    BY DEF DeviceRows
  <2> HIDE DEF row
  <2>2. DeviceRows \in Seq({row(i) : i \in 1..NumOpenCLDevices})
    BY <2>1, NumDevicesAssumption
  <2> QED  BY <2>2, SequenceOf
<1>7. "Devices" \notin {"Runs", "Versions", "Loops"}
  OBVIOUS
<1> QED  BY <1>3, <1>5, <1>6, <1>7, InsertedIsEven

(* A mark is none of what the runs are compared by.                        *)
LEMMA StatusIsEven ==
  ASSUME NEW tables, NEW devices, Good("profile", tables, devices), NEW rest, NEW vectors,
         NEW fitting, Even("profile", tables, rest, vectors, fitting), NEW runs,
         NEW status \in 0..3, NEW new, new = SetStatus(tables, runs, status)
  PROVE  Even("profile", new, rest, vectors, fitting)
<1>1. /\ DOMAIN Rows(new, "Runs") = DOMAIN Rows(tables, "Runs")
      /\ \A i \in DOMAIN Rows(tables, "Runs") :
           Rows(new, "Runs")[i] = IF Rows(tables, "Runs")[i] \in runs
                                  THEN Marked(Rows(tables, "Runs")[i], status)
                                  ELSE Rows(tables, "Runs")[i]
  BY StatusFacts
<1>2. ASSUME NEW i \in DOMAIN Rows(tables, "Runs")
      PROVE  /\ Rows(new, "Runs")[i].params = Rows(tables, "Runs")[i].params
             /\ Rows(new, "Runs")[i].devices = Rows(tables, "Runs")[i].devices
  <2>1. PICK run : run = Rows(tables, "Runs")[i]
    OBVIOUS
  <2>2. IsRun(run, i, devices)
    BY <2>1 DEF Good, HoldsRuns
  <2>3. Marked(run, status).params = run.params /\ Marked(run, status).devices = run.devices
    BY <2>2 DEF IsRun, Marked
  <2>4. Rows(new, "Runs")[i] = Marked(run, status) \/ Rows(new, "Runs")[i] = run
    BY <1>1, <2>1
  <2> QED  BY <2>1, <2>3, <2>4
<1>3. ASSUME NEW i \in DOMAIN Rows(tables, "Runs")
      PROVE  /\ AsValid(Rows(new, "Runs")[i]) = AsValid(Rows(tables, "Runs")[i])
             /\ PortionsAddUp(Rows(new, "Runs")[i]) <=> PortionsAddUp(Rows(tables, "Runs")[i])
  BY <1>2 DEF AsValid, PortionsAddUp
<1>4. \A r : Made(Rows(new, "Runs"), r) = Made(Rows(tables, "Runs"), r)
  BY <1>1, <1>3 DEF Made
<1>5. Balanced(Rows(tables, "Runs"), rest, fitting) => Balanced(Rows(new, "Runs"), rest, fitting)
  BY <1>4 DEF Balanced
<1> QED  BY <1>1, <1>3, <1>5 DEF Even, RunsFit

(* The summaries.                                                          *)
LEMMA SummariesAreEven ==
  ASSUME NEW tables, IsTables(tables), NEW rest, NEW vectors, NEW fitting,
         Even("versions", tables, rest, vectors, fitting)
  PROVE  Even("versions", ParamPerf(VersionPerf(tables)), rest, vectors, fitting)
<1>1. PICK a : a = VersionPerf(tables)
  OBVIOUS
<1>2. PICK b : b = ParamPerf(a)
  OBVIOUS
<1>3. /\ IsTables(a) /\ Extends(tables, a)
      /\ \A other : other # "VersionPerf" => Rows(a, other) = Rows(tables, other)
  BY <1>1, VersionPerfTables
<1>4. /\ IsTables(b) /\ Extends(a, b)
      /\ \A other : other # "ParamPerf" => Rows(b, other) = Rows(a, other)
  BY <1>2, <1>3, ParamPerfTables
<1>5. DOMAIN tables \subseteq DOMAIN b
  BY <1>3, <1>4 DEF Extends
<1>6. \A other \in {"Runs", "Versions", "Loops"} : Rows(b, other) = Rows(tables, other)
  BY <1>3, <1>4
<1> QED  BY <1>1, <1>2, <1>5, <1>6, SameRunsAreEven

(* Each launch that fits is in every file as often as every other, and so  *)
(* it is in every copy, counting what the generator will add to its own.   *)
Rest(p) == IF p = "generate" THEN combos ELSE <<>>

EvenFiles ==
  /\ \A f \in Files : Even(f, Content(f), <<>>, Vectors, FittingRuns)
  /\ \A p \in Programs, f \in Files :
       db[p][f].memory => Even(f, db[p][f].tables, Rest(p), Vectors, FittingRuns)

SameExperiment == test' = test

LEMMA SameFitting ==
  ASSUME SameExperiment
  PROVE  (Vectors' <=> Vectors) /\ FittingRuns' = FittingRuns
<1>1. test' = test
  BY DEF SameExperiment
<1>2. FittingRuns' = FittingRuns
  BY <1>1 DEF FittingRuns, ValidRuns, ParamsValues, Allocated
<1> QED  BY <1>1, <1>2 DEF Vectors

(* What is told of a file and the copies of it, after a step.              *)
LEMMA EvenAfter ==
  ASSUME SameExperiment,
         \A f \in Files : Even(f, Content(f)', <<>>, Vectors, FittingRuns),
         \A p \in Programs, f \in Files :
           db'[p][f].memory => Even(f, db'[p][f].tables, Rest(p)', Vectors, FittingRuns)
  PROVE  EvenFiles'
<1>1. PICK fitting : fitting = FittingRuns
  OBVIOUS
<1>2. FittingRuns' = fitting /\ (Vectors' <=> Vectors)
  BY <1>1, SameFitting
<1>3. CASE Vectors
  <2>1. \A f, tables, rest : Even(f, tables, rest, Vectors, fitting) => Even(f, tables, rest, Vectors', fitting)
    BY <1>2, <1>3 DEF Even, RunsFit
  <2> QED  BY <1>1, <1>2, <2>1 DEF EvenFiles
<1>4. CASE ~Vectors
  <2>1. \A f, tables, rest : Even(f, tables, rest, Vectors, fitting) => Even(f, tables, rest, Vectors', fitting)
    BY <1>2, <1>4 DEF Even, RunsFit
  <2> QED  BY <1>1, <1>2, <2>1 DEF EvenFiles
<1> QED  BY <1>3, <1>4

LEMMA UnchangedIsEven ==
  ASSUME EvenFiles, SameExperiment, UNCHANGED dbVars, combos' = combos
  PROVE  EvenFiles'
<1>1. db' = db /\ (\A f : Content(f)' = Content(f)) /\ \A p : Rest(p)' = Rest(p)
  BY DEF dbVars, Content, FileExists, Rest
<1> QED  BY <1>1, EvenAfter DEF EvenFiles

LEMMA OneFileIsEven ==
  ASSUME EvenFiles, SameExperiment, NEW p \in Programs, NEW f \in Files, Only(p, f),
         combos' = combos \/ (p = "generate" /\ f = "profile"),
         Even(f, Content(f)', <<>>, Vectors, FittingRuns),
         db'[p][f].memory => Even(f, db'[p][f].tables, Rest(p)', Vectors, FittingRuns)
  PROVE  EvenFiles'
<1>1. ASSUME NEW g \in Files PROVE Even(g, Content(g)', <<>>, Vectors, FittingRuns)
  <2>1. CASE g = f
    BY <2>1
  <2>2. CASE g # f
    <3>1. Content(g)' = Content(g)
      BY <2>2 DEF Only
    <3>2. Even(g, Content(g), <<>>, Vectors, FittingRuns)
      BY DEF EvenFiles
    <3> QED  BY <3>1, <3>2
  <2> QED  BY <2>1, <2>2
<1>2. ASSUME NEW q \in Programs, NEW g \in Files, db'[q][g].memory
      PROVE  Even(g, db'[q][g].tables, Rest(q)', Vectors, FittingRuns)
  <2>1. CASE q = p /\ g = f
    BY <1>2, <2>1
  <2>2. CASE ~(q = p /\ g = f)
    <3>1. db'[q][g] = db[q][g]
      BY <2>2 DEF Only
    <3>2. Even(g, db[q][g].tables, Rest(q), Vectors, FittingRuns)
      BY <1>2, <3>1 DEF EvenFiles
    <3>3. Rest(q)' = Rest(q) \/ g # "profile"
      BY <2>2 DEF Rest
    <3>4. CASE Rest(q)' = Rest(q)
      BY <3>1, <3>2, <3>4
    <3>5. CASE g # "profile"
      BY <3>1, <3>2, <3>5 DEF Even
    <3> QED  BY <3>3, <3>4, <3>5
  <2> QED  BY <2>1, <2>2
<1> QED  BY <1>1, <1>2, EvenAfter

(* A program writes only copies to which nothing is to be added any more.  *)
AddsEven(p) ==
  \E f \in Files :
    /\ Rest(p) = <<>> \/ f = "versions"
    /\ \/ \E memory \in BOOLEAN : acc_sqlite_open(p, f, memory)
       \/ \E new : Execute(p, f, new) /\ Even(f, new, <<>>, Vectors, FittingRuns)
       \/ acc_sqlite_save(p, f)
       \/ acc_sqlite_close(p, f)

LEMMA AddsEvenStep ==
  ASSUME Connections, EvenFiles, SameExperiment, combos' = combos,
         NEW p \in Programs, AddsEven(p)
  PROVE  EvenFiles'
<1>1. PICK f \in Files :
        /\ Rest(p) = <<>> \/ f = "versions"
        /\ \/ \E memory \in BOOLEAN : acc_sqlite_open(p, f, memory)
           \/ \E new : Execute(p, f, new) /\ Even(f, new, <<>>, Vectors, FittingRuns)
           \/ acc_sqlite_save(p, f)
           \/ acc_sqlite_close(p, f)
  BY DEF AddsEven
<1>2. Rest(p)' = Rest(p)
  BY DEF Rest
<1>3. ASSUME NEW tables
      PROVE  Even(f, tables, Rest(p), Vectors, FittingRuns) <=> Even(f, tables, <<>>, Vectors, FittingRuns)
  BY <1>1 DEF Even
<1>4. /\ Even(f, Content(f), <<>>, Vectors, FittingRuns)
      /\ db[p][f].memory => Even(f, db[p][f].tables, <<>>, Vectors, FittingRuns)
  BY <1>3 DEF EvenFiles
<1>5. ASSUME Only(p, f), Even(f, Content(f)', <<>>, Vectors, FittingRuns),
             db'[p][f].memory => Even(f, db'[p][f].tables, <<>>, Vectors, FittingRuns)
      PROVE  EvenFiles'
  BY <1>2, <1>3, <1>5, OneFileIsEven
<1>6. ASSUME NEW memory \in BOOLEAN, acc_sqlite_open(p, f, memory) PROVE EvenFiles'
  <2>1. /\ Only(p, f) /\ Content(f)' = Content(f) /\ db'[p][f].memory = memory
        /\ db'[p][f].tables = IF memory THEN Content(f) ELSE NoTables
    BY <1>6, OpenEffect
  <2>2. Even(f, Content(f)', <<>>, Vectors, FittingRuns)
    BY <1>4, <2>1
  <2>3. db'[p][f].memory => Even(f, db'[p][f].tables, <<>>, Vectors, FittingRuns)
    BY <1>4, <2>1
  <2> QED  BY <1>5, <2>1, <2>2, <2>3
<1>7. ASSUME NEW new, Execute(p, f, new), Even(f, new, <<>>, Vectors, FittingRuns)
      PROVE  EvenFiles'
  <2>1. /\ Only(p, f) /\ db'[p][f].memory = db[p][f].memory
        /\ IF db[p][f].memory
           THEN db'[p][f].tables = new /\ Content(f)' = Content(f)
           ELSE Content(f)' = new /\ db' = db
    BY <1>7, ExecuteEffect
  <2>2. Even(f, Content(f)', <<>>, Vectors, FittingRuns)
    BY <1>4, <1>7, <2>1
  <2>3. db'[p][f].memory => Even(f, db'[p][f].tables, <<>>, Vectors, FittingRuns)
    BY <1>7, <2>1
  <2> QED  BY <1>5, <2>1, <2>2, <2>3
<1>8. CASE acc_sqlite_save(p, f)
  <2>1. \/ UNCHANGED dbVars
        \/ Only(p, f) /\ WrittenBack(p, f) /\ db'[p][f].tables = db[p][f].tables
    BY <1>8, SaveEffect
  <2>2. CASE UNCHANGED dbVars
    BY <2>2, UnchangedIsEven
  <2>3. CASE Only(p, f) /\ WrittenBack(p, f) /\ db'[p][f].tables = db[p][f].tables
    <3>1. Even(f, Content(f)', <<>>, Vectors, FittingRuns)
      BY <1>4, <2>3 DEF WrittenBack
    <3>2. Even(f, db'[p][f].tables, <<>>, Vectors, FittingRuns)
      BY <1>4, <2>3 DEF WrittenBack
    <3> QED  BY <1>5, <2>3, <3>1, <3>2
  <2> QED  BY <2>1, <2>2, <2>3
<1>9. CASE acc_sqlite_close(p, f)
  <2>1. /\ Only(p, f) /\ ~db'[p][f].memory
        /\ WrittenBack(p, f) \/ Content(f)' = Content(f)
    BY <1>9, CloseEffect
  <2>2. Even(f, Content(f)', <<>>, Vectors, FittingRuns)
    BY <1>4, <2>1 DEF WrittenBack
  <2> QED  BY <1>5, <2>1, <2>2
<1> QED  BY <1>1, <1>6, <1>7, <1>8, <1>9

LEMMA DisconnectedIsEven ==
  ASSUME Connections, EvenFiles, SameExperiment, NEW p \in Programs, Disconnect(p),
         UNCHANGED disk, combos' = combos \/ p = "generate"
  PROVE  EvenFiles'
<1>1. \A f : Content(f)' = Content(f)
  BY DEF Content, FileExists
<1>2. /\ \A f \in Files : db'[p][f] = Closed
      /\ \A q \in Programs : q # p => db'[q] = db[q]
  BY DisconnectEffect
<1>3. ASSUME NEW q \in Programs, NEW f \in Files, db'[q][f].memory
      PROVE  Even(f, db'[q][f].tables, Rest(q)', Vectors, FittingRuns)
  <2>1. q # p
    BY <1>2, <1>3 DEF Closed
  <2>2. db'[q] = db[q] /\ Rest(q)' = Rest(q)
    BY <1>2, <2>1 DEF Rest
  <2> QED  BY <1>3, <2>2 DEF EvenFiles
<1>4. \A f \in Files : Even(f, Content(f)', <<>>, Vectors, FittingRuns)
  BY <1>1 DEF EvenFiles
<1> QED  BY <1>3, <1>4, EvenAfter

LEMMA TablesAreEven ==
  ASSUME EvenFiles, NEW p \in Programs, NEW f \in Files, Rest(p) = <<>> \/ f = "versions"
  PROVE  Even(f, Tables(p, f), <<>>, Vectors, FittingRuns)
<1>1. \A tables : Even(f, tables, Rest(p), Vectors, FittingRuns) => Even(f, tables, <<>>, Vectors, FittingRuns)
  BY DEF Even
<1>2. Even(f, Content(f), <<>>, Vectors, FittingRuns)
  BY DEF EvenFiles
<1>3. db[p][f].memory => Even(f, db[p][f].tables, <<>>, Vectors, FittingRuns)
  BY <1>1 DEF EvenFiles
<1> QED  BY <1>2, <1>3 DEF Tables

-----------------------------------------------------------------------------
(* The generator adds the runs to a copy of its own, and knows what is     *)
(* left to be added.                                                       *)
GeneratorHolds ==
  /\ gpc \in {"load", "generate"} => db["generate"]["profile"].memory
  /\ gpc = "generate" => "Runs" \in DOMAIN db["generate"]["profile"].tables
  /\ gpc # "generate" => combos = <<>>

ComboFits(combo) ==
  /\ IsSequence(combo.portions) /\ Len(combo.portions) = num_devices
  /\ Sum(combo.portions) = num_portions
  /\ Vectors => IsCombo(combo)

CombosFit == \A i \in DOMAIN combos : ComboFits(combos[i])

EvenInv == EvenFiles /\ GeneratorHolds /\ CombosFit

LEMMA ComboStays ==
  ASSUME SameExperiment, NEW combo, ComboFits(combo)
  PROVE  ComboFits(combo)'
<1>1. test' = test
  BY DEF SameExperiment
<1>2. ParamsValues' = ParamsValues
  BY <1>1 DEF ParamsValues, Allocated
<1>3. IsCombo(combo) => IsCombo(combo)'
  BY <1>2 DEF IsCombo
<1>4. Vectors' => Vectors
  BY <1>1 DEF Vectors
<1> QED  BY <1>1, <1>3, <1>4 DEF ComboFits

LEMMA CombosStay ==
  ASSUME CombosFit, CombosInv, SameExperiment,
         combos' \in {combos, <<>>} \/ (combos # <<>> /\ combos' = Tail(combos))
  PROVE  CombosFit'
<1>1. CASE combos' = combos
  BY <1>1, ComboStays DEF CombosFit
<1>2. CASE combos' = <<>>
  BY <1>2 DEF CombosFit
<1>3. CASE combos # <<>> /\ combos' = Tail(combos)
  <2>1. ASSUME NEW i \in DOMAIN combos' PROVE ComboFits(combos[i])'
    <3>1. i + 1 \in DOMAIN combos /\ combos'[i] = combos[i + 1]
      BY <1>3, <2>1, TailFacts DEF CombosInv
    <3>2. PICK combo : combo = combos[i + 1]
      OBVIOUS
    <3>3. ComboFits(combo)
      BY <3>1, <3>2 DEF CombosFit
    <3>4. ComboFits(combo)'
      BY <3>3, ComboStays
    <3> QED  BY <3>1, <3>2, <3>4 DEF ComboFits, IsCombo
  <2> QED  BY <2>1 DEF CombosFit
<1> QED  BY <1>1, <1>2, <1>3

(* Other programs leave the copy of the generator alone.                   *)
LEMMA GeneratorStays ==
  ASSUME GeneratorHolds, gpc' = gpc, combos' = combos,
         \A f \in Files : db'["generate"][f] = db["generate"][f]
  PROVE  GeneratorHolds'
BY FilesAssumption DEF GeneratorHolds

LEMMA OthersKeepEven ==
  ASSUME Connections, CombosInv, EvenFiles', GeneratorHolds, CombosFit,
         UNCHANGED generationVars, NEW p \in Programs, p # "generate",
         Uses(p) \/ UNCHANGED dbVars
  PROVE  EvenInv'
<1>1. /\ gpc' = gpc /\ combos' = combos /\ SameExperiment /\ "generate" \in Programs
  BY ProgramsAssumption DEF generationVars, SameExperiment
<1>2. \A f \in Files : db'["generate"][f] = db["generate"][f]
  BY <1>1, UsesOwn DEF dbVars
<1>3. GeneratorHolds'
  BY <1>1, <1>2, GeneratorStays
<1>4. CombosFit'
  BY <1>1, CombosStay
<1> QED  BY <1>3, <1>4 DEF EvenInv

(* The generator opens and closes its files.                               *)
LEMMA OpeningIsEven ==
  ASSUME Connections, CombosInv, EvenInv,
         OpenVersions \/ OpenProfile \/ CloseVersions \/ acc_profiling_exit
  PROVE  EvenInv'
<1>1. "versions" \in Files /\ "profile" \in Files /\ TRUE \in BOOLEAN /\ "generate" \in Programs
  BY FilesAssumption, ProgramsAssumption
<1>2. /\ SameExperiment /\ combos' = combos /\ gpc # "load" /\ gpc' # "generate"
      /\ combos = <<>>
  BY DEF EvenInv, GeneratorHolds, OpenVersions, OpenProfile, CloseVersions,
         acc_profiling_exit, GenerationGoes, SameExperiment
<1>3. Rest("generate") = <<>>
  BY <1>2 DEF Rest
<1>4. AddsEven("generate")
  <2>1. CASE OpenVersions
    BY <1>1, <2>1 DEF OpenVersions, AddsEven
  <2>2. CASE OpenProfile
    BY <1>1, <1>3, <2>2 DEF OpenProfile, AddsEven
  <2>3. CASE CloseVersions
    BY <1>1, <2>3 DEF CloseVersions, AddsEven
  <2>4. CASE acc_profiling_exit
    BY <1>1, <1>3, <2>4 DEF acc_profiling_exit, AddsEven
  <2> QED  BY <2>1, <2>2, <2>3, <2>4
<1>5. EvenFiles'
  BY <1>1, <1>2, <1>4, AddsEvenStep DEF EvenInv
<1>6. gpc' = "load" => db'["generate"]["profile"].memory
  <2>1. SUFFICES ASSUME gpc' = "load" PROVE db'["generate"]["profile"].memory
    OBVIOUS
  <2>2. OpenProfile
    BY <2>1 DEF OpenVersions, CloseVersions, acc_profiling_exit, GenerationGoes
  <2>3. acc_sqlite_open("generate", "profile", TRUE)
    BY <2>2 DEF OpenProfile
  <2> QED  BY <1>1, <2>3, OpenEffect
<1>7. GeneratorHolds'
  BY <1>2, <1>6 DEF GeneratorHolds
<1>8. CombosFit'
  BY <1>2, CombosStay DEF EvenInv
<1> QED  BY <1>5, <1>7, <1>8 DEF EvenInv

NothingComes == \A r : Cardinality(Coming(<<>>, r)) = 0

LEMMA NothingIsComing == NothingComes
<1>1. \A r : Coming(<<>>, r) = {}
  BY DEF Coming
<1> QED  BY <1>1, FS_EmptySet DEF NothingComes

LEMMA MadeIsFinite ==
  ASSUME NEW runs, IsSequence(runs), NEW r
  PROVE  Cardinality(Made(runs, r)) \in Nat
<1>1. Made(runs, r) \subseteq DOMAIN runs
  BY DEF Made
<1>2. IsFiniteSet(Made(runs, r))
  BY <1>1, RangeIsFinite, FS_Subset
<1> QED  BY <1>2, FS_CardinalityType

(* Each launch is as often among the combinations.                         *)
LEMMA CombinedIsEven ==
  ASSUME Vectors, NEW versions, IsTables(versions), SameVersions(versions),
         NEW list,
         list = Product(<<VersionCombinaisons(versions), ParamsValues, PortionCombinaisons>>),
         NEW runs, IsSequence(runs), Balanced(runs, <<>>, FittingRuns)
  PROVE  Balanced(runs, Combined(list), FittingRuns)
<1>1. num_devices = 1 /\ "Versions" \in DOMAIN versions
  BY OneDevice DEF SameVersions
<1>2. PICK m : m = Cardinality(Range(PortionCombinaisons))
  OBVIOUS
<1>3. /\ m \in Nat
      /\ \A r : r.version \in Range(VersionIds(versions)) /\ r.params \in Range(ParamsValues) =>
           Cardinality(Coming(Combined(list), r)) = m
  BY <1>1, <1>2, EachIsComing
<1>4. VersionIds(versions) = VersionIds(UserVersions)
  BY SameLoops
<1>5. \A r \in FittingRuns : r.version \in Range(VersionIds(versions)) /\ r.params \in Range(ParamsValues)
  BY <1>4 DEF FittingRuns, ValidRuns
<1>6. PICK c \in Nat :
        \A r \in FittingRuns : Cardinality(Made(runs, r)) + Cardinality(Coming(<<>>, r)) = c
  BY DEF Balanced
<1>7. ASSUME NEW r \in FittingRuns
      PROVE  Cardinality(Made(runs, r)) + Cardinality(Coming(Combined(list), r)) = c + m
  <2>1. Cardinality(Made(runs, r)) + 0 = c
    BY <1>6, NothingIsComing DEF NothingComes
  <2>2. Cardinality(Coming(Combined(list), r)) = m
    BY <1>3, <1>5
  <2>3. Cardinality(Made(runs, r)) \in Nat
    BY MadeIsFinite
  <2> QED  BY <1>3, <2>1, <2>2, <2>3
<1>8. c + m \in Nat
  BY <1>3
<1> QED  BY <1>7, <1>8 DEF Balanced

LEMMA CombinedFits ==
  ASSUME NEW versions, IsTables(versions), SameVersions(versions),
         NEW list,
         list = Product(<<VersionCombinaisons(versions), ParamsValues, PortionCombinaisons>>)
  PROVE  /\ DOMAIN Combined(list) = DOMAIN list
         /\ \A i \in DOMAIN list : ComboFits(Combined(list)[i])
<1>1. "Versions" \in DOMAIN versions
  BY DEF SameVersions
<1> DEFINE combo(i) == [versions |-> list[i][1], params |-> list[i][2], portions |-> list[i][3]]
<1>2. Combined(list) = [i \in DOMAIN list |-> combo(i)]
  BY DEF Combined
<1>3. \A i : /\ combo(i).versions = list[i][1] /\ combo(i).params = list[i][2]
             /\ combo(i).portions = list[i][3]
  OBVIOUS
<1> HIDE DEF combo
<1>4. ASSUME NEW i \in DOMAIN list PROVE ComboFits(Combined(list)[i])
  <2>1. PICK new : new = Combined(list)[i]
    OBVIOUS
  <2>2. new.versions = list[i][1] /\ new.params = list[i][2] /\ new.portions = list[i][3]
    BY <1>2, <1>3, <2>1
  <2>3. list[i][3] \in Range(PortionCombinaisons)
    BY <1>1, OneDevice, CombinationsFacts
  <2>4. /\ IsSequence(new.portions) /\ Len(new.portions) = num_devices
        /\ Sum(new.portions) = num_portions
    BY <2>2, <2>3, OneDevice, PortionCombinationsAre
  <2>5. ASSUME Vectors PROVE IsCombo(new)
    <3>1. list[i][1][1] \in Range(VersionIds(versions)) /\ list[i][2] \in Range(ParamsValues)
      BY <1>1, OneDevice, EachIsComing
    <3>2. VersionIds(versions) = VersionIds(UserVersions)
      BY SameLoops
    <3> QED  BY <2>2, <3>1, <3>2 DEF IsCombo
  <2> QED  BY <2>1, <2>4, <2>5 DEF ComboFits
<1> QED  BY <1>2, <1>4

LEMMA LoadIsEven ==
  ASSUME Connections, FilesGood, EvenInv, LoadGenData
  PROVE  EvenInv'
<1>1. "versions" \in Files /\ "profile" \in Files /\ "generate" \in Programs
  BY FilesAssumption, ProgramsAssumption
<1>2. PICK versions : versions = Tables("generate", "versions")
  OBVIOUS
<1>3. PICK list :
        list = Product(<<VersionCombinaisons(versions), ParamsValues, PortionCombinaisons>>)
  OBVIOUS
<1>4. PICK profile : profile = Tables("generate", "profile")
  OBVIOUS
<1>5. PICK a : a = acc_profiling_init_db(profile)
  OBVIOUS
<1>6. PICK new : new = acc_tuning_create_experiment(a)
  OBVIOUS
<1>7. /\ SameExperiment /\ gpc = "load" /\ gpc' = "generate"
      /\ Execute("generate", "profile", new)
      /\ combos' = IF test = "109" THEN <<>> ELSE Combined(list)
  BY <1>2, <1>3, <1>4, <1>5, <1>6 DEF LoadGenData, GenerationGoes, SameExperiment, Combined
<1>8. combos = <<>> /\ db["generate"]["profile"].memory /\ EvenFiles /\ Rest("generate") = <<>>
  BY <1>7 DEF EvenInv, GeneratorHolds, Rest
<1>9. /\ IsTables(versions) /\ SameVersions(versions)
      /\ IsTables(profile) /\ Even("profile", profile, <<>>, Vectors, FittingRuns)
  BY <1>1, <1>2, <1>4, <1>8, TablesAreGood, TablesAreEven DEF Good, Even
<1>10. IsTables(a) /\ Even("profile", a, <<>>, Vectors, FittingRuns)
  BY <1>5, <1>9, ProfilingIsEven
<1>11. IsTables(new) /\ Even("profile", new, <<>>, Vectors, FittingRuns) /\ "Runs" \in DOMAIN new
  BY <1>6, <1>10, CreatedIsEven DEF acc_tuning_create_experiment
<1>12. PICK runs : runs = Rows(new, "Runs")
  OBVIOUS
<1>13. /\ IsSequence(runs) /\ RunsFit(new, <<>>, Vectors, FittingRuns)
  BY <1>11, <1>12, TablesFacts DEF Even
<1>14. ASSUME Vectors PROVE Balanced(runs, combos', FittingRuns)
  <2>1. combos' = Combined(list)
    BY <1>7, <1>14 DEF Vectors
  <2>2. Balanced(runs, <<>>, FittingRuns)
    BY <1>12, <1>13, <1>14 DEF RunsFit
  <2> QED  BY <1>3, <1>9, <1>13, <1>14, <2>1, <2>2, CombinedIsEven
<1>15. Even("profile", new, combos', Vectors, FittingRuns)
  BY <1>12, <1>13, <1>14 DEF RunsFit, Even
<1>16. /\ Only("generate", "profile") /\ db'["generate"]["profile"].memory
       /\ db'["generate"]["profile"].tables = new /\ Content("profile")' = Content("profile")
  BY <1>1, <1>7, <1>8, ExecuteEffect
<1>17. EvenFiles'
  <2>1. Even("profile", Content("profile")', <<>>, Vectors, FittingRuns)
    BY <1>1, <1>8, <1>16 DEF EvenFiles
  <2>2. Rest("generate")' = combos'
    BY DEF Rest
  <2> QED  BY <1>1, <1>7, <1>8, <1>15, <1>16, <2>1, <2>2, OneFileIsEven
<1>18. GeneratorHolds'
  BY <1>7, <1>11, <1>16 DEF GeneratorHolds
<1>19. CombosFit'
  <2>1. CASE combos' = <<>>
    BY <2>1 DEF CombosFit
  <2>2. CASE combos' = Combined(list)
    <3>1. /\ DOMAIN combos' = DOMAIN list
          /\ \A i \in DOMAIN list : ComboFits(combos'[i])
      BY <1>3, <1>9, <2>2, CombinedFits
    <3>2. ASSUME NEW i \in DOMAIN combos' PROVE ComboFits(combos[i])'
      <4>1. PICK combo : combo = combos'[i]
        OBVIOUS
      <4>2. ComboFits(combo)'
        BY <1>7, <3>1, <3>2, <4>1, ComboStays
      <4> QED  BY <4>1, <4>2 DEF ComboFits, IsCombo
    <3> QED  BY <3>2 DEF CombosFit
  <2> QED  BY <1>7, <2>1, <2>2
<1> QED  BY <1>17, <1>18, <1>19 DEF EvenInv

(* The identifiers of the rows change no launch.                           *)
LEMMA RowidsKeep ==
  ASSUME NEW rows, IsSequence(rows), NEW table, NEW new, new = WithRowids(rows, table)
  PROVE  /\ IsSequence(new) /\ DOMAIN new = DOMAIN rows
         /\ \A i \in DOMAIN rows : /\ AsValid(new[i]) = AsValid(rows[i])
                                   /\ PortionsAddUp(new[i]) <=> PortionsAddUp(rows[i])
<1> DEFINE row(i) == [rowid |-> Len(table) + i, devices |-> rows[i].devices,
                      params |-> rows[i].params, executed |-> rows[i].executed]
           n == Len(rows)
<1>1. n \in Nat /\ DOMAIN rows = 1..n
  BY SequenceFacts
<1>2. new = [i \in 1..n |-> row(i)]
  BY <1>1 DEF WithRowids
<1>3. \A i : row(i).devices = rows[i].devices /\ row(i).params = rows[i].params
  OBVIOUS
<1> HIDE DEF row, n
<1>4. new \in Seq({row(i) : i \in 1..n})
  BY <1>1, <1>2
<1>5. IsSequence(new)
  BY <1>4, SequenceOf
<1>6. DOMAIN new = 1..n
  BY <1>2
<1>7. ASSUME NEW i \in DOMAIN rows
      PROVE  /\ AsValid(new[i]) = AsValid(rows[i])
             /\ PortionsAddUp(new[i]) <=> PortionsAddUp(rows[i])
  <2>1. new[i].devices = rows[i].devices /\ new[i].params = rows[i].params
    BY <1>1, <1>2, <1>3
  <2> QED  BY <2>1 DEF AsValid, PortionsAddUp
<1> QED  BY <1>1, <1>5, <1>6, <1>7

(* A combination is done: what it makes has come.                          *)
LEMMA DoneIsEven ==
  ASSUME NEW runs, IsSequence(runs), NEW rows, IsSequence(rows), NEW all, IsJoin(all, runs, rows),
         IsSequence(combos), combos # <<>>, NEW fitting,
         \A r \in fitting :
           Cardinality(Made(rows, r)) = IF Makes(Head(combos), r) THEN 1 ELSE 0,
         Balanced(runs, combos, fitting)
  PROVE  Balanced(all, Tail(combos), fitting)
<1>1. PICK c \in Nat :
        \A r \in fitting : Cardinality(Made(runs, r)) + Cardinality(Coming(combos, r)) = c
  BY DEF Balanced
<1>2. ASSUME NEW r \in fitting
      PROVE  Cardinality(Made(all, r)) + Cardinality(Coming(Tail(combos), r)) = c
  <2>1. /\ Cardinality(Made(all, r)) = Cardinality(Made(runs, r)) + Cardinality(Made(rows, r))
        /\ Cardinality(Made(runs, r)) \in Nat /\ Cardinality(Made(rows, r)) \in Nat
    BY JoinedMade
  <2>2. /\ Cardinality(Coming(combos, r)) =
             (IF Makes(Head(combos), r) THEN 1 ELSE 0) + Cardinality(Coming(Tail(combos), r))
        /\ Cardinality(Coming(Tail(combos), r)) \in Nat
    BY HeadComes
  <2>3. /\ Cardinality(Made(rows, r)) = IF Makes(Head(combos), r) THEN 1 ELSE 0
        /\ Cardinality(Made(runs, r)) + Cardinality(Coming(combos, r)) = c
    BY <1>1
  <2>4. Cardinality(Coming(combos, r)) =
          Cardinality(Made(rows, r)) + Cardinality(Coming(Tail(combos), r))
    BY <2>2, <2>3
  <2> QED  BY <2>1, <2>2, <2>3, <2>4
<1> QED  BY <1>2 DEF Balanced

LEMMA AddedIsEven ==
  ASSUME CombosInv, CombosFit, combos # <<>>,
         NEW versions, SameVersions(versions),
         NEW profile, IsTables(profile), "Runs" \in DOMAIN profile,
         RunsFit(profile, combos, Vectors, FittingRuns), NEW new,
         new = Insert(profile, "Runs", WithRowids(RunsOf(versions, Head(combos)), profile["Runs"]))
  PROVE  RunsFit(new, Tail(combos), Vectors, FittingRuns)
<1>1. PICK combo : combo = Head(combos)
  OBVIOUS
<1>2. /\ combo = combos[1] /\ 1 \in DOMAIN combos /\ IsSequence(combos)
  BY <1>1, TailFacts DEF CombosInv
<1>3. ComboFits(combo) /\ IsSequence(combo.params)
  BY <1>2 DEF CombosFit, CombosInv
<1>4. PICK made : made = RunsOf(versions, combo)
  OBVIOUS
<1>5. IsSequence(made) /\ \A i \in DOMAIN made : PortionsAddUp(made[i])
  BY <1>3, <1>4, OneDevice, RunsOfAreNew, PortionsOfRuns DEF ComboFits
<1>6. PICK rows : rows = WithRowids(made, profile["Runs"])
  OBVIOUS
<1>7. /\ IsSequence(rows) /\ DOMAIN rows = DOMAIN made
      /\ \A i \in DOMAIN made : /\ AsValid(rows[i]) = AsValid(made[i])
                                /\ PortionsAddUp(rows[i]) <=> PortionsAddUp(made[i])
  BY <1>5, <1>6, RowidsKeep
<1>8. PICK runs : runs = Rows(profile, "Runs")
  OBVIOUS
<1>9. PICK all : all = Rows(new, "Runs")
  OBVIOUS
<1>10. IsJoin(all, runs, rows) /\ IsSequence(runs)
  BY <1>1, <1>4, <1>6, <1>7, <1>8, <1>9, InsertedRows, TablesFacts
<1>11. Range(all) = Range(runs) \cup Range(rows)
  BY <1>7, <1>10, JoinedRange
<1>12. \A i \in DOMAIN all : all[i] \in Range(runs) \cup Range(rows)
  BY <1>11 DEF Range
<1>13. \A i \in DOMAIN all : PortionsAddUp(all[i])
  <2>1. \A run \in Range(runs) : PortionsAddUp(run)
    BY <1>8 DEF RunsFit, Range
  <2>2. \A run \in Range(rows) : PortionsAddUp(run)
    BY <1>5, <1>7 DEF Range
  <2> QED  BY <1>12, <2>1, <2>2
<1>14. ASSUME Vectors
       PROVE  /\ \A i \in DOMAIN all : AsValid(all[i]) \in FittingRuns
              /\ Balanced(all, Tail(combos), FittingRuns)
  <2>1. num_devices = 1 /\ IsCombo(combo)
    BY <1>3, <1>14, OneDevice DEF ComboFits
  <2>2. /\ \A i \in DOMAIN made : AsValid(made[i]) \in FittingRuns
        /\ \A r \in FittingRuns : Cardinality(Made(made, r)) = IF Makes(combo, r) THEN 1 ELSE 0
    BY <1>4, <2>1, OneRunEach
  <2>3. \A i \in DOMAIN all : AsValid(all[i]) \in FittingRuns
    <3>1. \A run \in Range(runs) : AsValid(run) \in FittingRuns
      BY <1>8, <1>14 DEF RunsFit, Range
    <3>2. \A run \in Range(rows) : AsValid(run) \in FittingRuns
      BY <1>7, <2>2 DEF Range
    <3> QED  BY <1>12, <3>1, <3>2
  <2>4. \A r : Made(rows, r) = Made(made, r)
    BY <1>7 DEF Made
  <2>5. Balanced(runs, combos, FittingRuns)
    BY <1>8, <1>14 DEF RunsFit
  <2>6. \A r \in FittingRuns :
          Cardinality(Made(rows, r)) = IF Makes(Head(combos), r) THEN 1 ELSE 0
    BY <1>1, <2>2, <2>4
  <2>7. Balanced(all, Tail(combos), FittingRuns)
    BY <1>2, <1>7, <1>10, <2>5, <2>6, DoneIsEven
  <2> QED  BY <2>3, <2>7
<1> QED  BY <1>9, <1>13, <1>14 DEF RunsFit

LEMMA GeneratedIsEven ==
  ASSUME Connections, FilesGood, CombosInv, EvenInv, acc_tuning_generate
  PROVE  EvenInv'
<1>1. "versions" \in Files /\ "profile" \in Files /\ "generate" \in Programs
  BY FilesAssumption, ProgramsAssumption
<1>2. PICK versions : versions = Tables("generate", "versions")
  OBVIOUS
<1>3. PICK profile : profile = Tables("generate", "profile")
  OBVIOUS
<1>4. PICK new :
        new = Insert(profile, "Runs", WithRowids(RunsOf(versions, Head(combos)), profile["Runs"]))
  OBVIOUS
<1>5. /\ SameExperiment /\ gpc = "generate" /\ gpc' = "generate"
      /\ combos # <<>> /\ combos' = Tail(combos)
      /\ Execute("generate", "profile", new)
  BY <1>2, <1>3, <1>4 DEF acc_tuning_generate, SameExperiment
<1>6. /\ EvenFiles /\ CombosFit
      /\ db["generate"]["profile"].memory /\ profile = db["generate"]["profile"].tables
      /\ "Runs" \in DOMAIN profile
  BY <1>3, <1>5 DEF EvenInv, GeneratorHolds, Tables
<1>7. RunsFit(profile, combos, Vectors, FittingRuns)
  <2>1. Rest("generate") = combos
    BY DEF Rest
  <2>2. Even("profile", profile, combos, Vectors, FittingRuns)
    BY <1>1, <1>6, <2>1 DEF EvenFiles
  <2> QED  BY <2>2 DEF Even
<1>8. IsTables(profile) /\ SameVersions(versions)
  <2>1. IsTables(profile)
    BY <1>1, <1>3, TablesAreGood DEF Good
  <2>2. Even("versions", versions, <<>>, Vectors, FittingRuns)
    BY <1>1, <1>2, <1>6, TablesAreEven
  <2> QED  BY <2>1, <2>2 DEF Even
<1>9. IsTables(new) /\ "Runs" \in DOMAIN new
  <2>1. PICK rows : rows = WithRowids(RunsOf(versions, Head(combos)), profile["Runs"])
    OBVIOUS
  <2>2. IsSequence(rows)
    <3>1. PICK made : made = RunsOf(versions, Head(combos))
      OBVIOUS
    <3>2. Head(combos) = combos[1] /\ 1 \in DOMAIN combos
      BY <1>5, TailFacts DEF CombosInv
    <3>3. IsSequence(made)
      BY <3>1, <3>2, OneDevice, RunsOfAreNew DEF CombosInv
    <3> QED  BY <2>1, <3>1, <3>3, RowidsKeep
  <2>3. IsTables(new) /\ Extends(profile, new)
    BY <1>4, <1>8, <2>1, <2>2, InsertedRows
  <2> QED  BY <1>6, <2>3 DEF Extends
<1>10. RunsFit(new, Tail(combos), Vectors, FittingRuns)
  BY <1>4, <1>5, <1>6, <1>7, <1>8, AddedIsEven
<1>11. /\ Only("generate", "profile") /\ db'["generate"]["profile"].memory
       /\ db'["generate"]["profile"].tables = new /\ Content("profile")' = Content("profile")
  BY <1>1, <1>5, <1>6, ExecuteEffect
<1>12. EvenFiles'
  <2>1. Even("profile", Content("profile")', <<>>, Vectors, FittingRuns)
    BY <1>1, <1>6, <1>11 DEF EvenFiles
  <2>2. Rest("generate")' = combos'
    BY DEF Rest
  <2>3. Even("profile", new, combos', Vectors, FittingRuns)
    BY <1>5, <1>10 DEF Even
  <2> QED  BY <1>1, <1>5, <1>6, <1>11, <2>1, <2>2, <2>3, OneFileIsEven
<1>13. GeneratorHolds'
  BY <1>5, <1>9, <1>11 DEF GeneratorHolds
<1>14. CombosFit'
  BY <1>5, <1>6, CombosStay
<1> QED  BY <1>12, <1>13, <1>14 DEF EvenInv

LEMMA GenerateIsEven ==
  ASSUME Connections, FilesGood, CombosInv, EvenInv, Generate
  PROVE  EvenInv'
BY OpeningIsEven, LoadIsEven, GeneratedIsEven DEF Generate

-----------------------------------------------------------------------------
(* Script and executor change no run but its mark, the analysis none.      *)
LEMMA WrittenIsEven ==
  ASSUME EvenFiles, SameExperiment, combos' = combos, NEW new, Write("profile", new),
         UNCHANGED db, Even("profile", new, <<>>, Vectors, FittingRuns)
  PROVE  EvenFiles'
<1>1. Content("profile")' = new /\ \A f : f # "profile" => Content(f)' = Content(f)
  BY WriteContent
<1>2. \A f \in Files : Even(f, Content(f)', <<>>, Vectors, FittingRuns)
  BY <1>1 DEF EvenFiles
<1>3. \A p : Rest(p)' = Rest(p)
  BY DEF Rest
<1>4. \A p \in Programs, f \in Files :
        db'[p][f].memory => Even(f, db'[p][f].tables, Rest(p)', Vectors, FittingRuns)
  BY <1>3 DEF EvenFiles
<1> QED  BY <1>2, <1>4, EvenAfter

LEMMA ScriptIsEven ==
  ASSUME ExperimentInv, EvenFiles, SameExperiment, combos' = combos, Script \/ Mark
  PROVE  EvenFiles'
<1>0. /\ "execute" \in Programs /\ "versions" \in Files /\ "profile" \in Files
      /\ Connections /\ ExecutorCopies /\ FilesGood
      /\ Good("profile", Profile, num_devices)
      /\ Even("profile", Profile, <<>>, Vectors, FittingRuns)
      /\ TRUE \in BOOLEAN /\ FALSE \in BOOLEAN
  BY FilesAssumption, ProgramsAssumption
  DEF ExperimentInv, CopiesInv, FilesGood, Profile, EvenFiles
<1>1. ASSUME NEW runs, NEW status \in 0..3, NEW new, new = SetStatus(Profile, runs, status)
      PROVE  Even("profile", new, <<>>, Vectors, FittingRuns)
  BY <1>0, <1>1, StatusIsEven
<1>2. ASSUME NEW new, Execute("execute", "profile", new),
             Even("profile", new, <<>>, Vectors, FittingRuns)
      PROVE  EvenFiles'
  <2>1. Write("profile", new) /\ UNCHANGED db
    BY <1>0, <1>2, ExecutorWrites
  <2> QED  BY <1>2, <2>1, WrittenIsEven
<1>3. ASSUME NEW new, Execute("execute", "profile", new)
      PROVE  Tables("execute", "profile") = Profile
  BY <1>0, <1>3, ExecutorWrites
<1>4. CASE Mark
  <2>1. PICK new : new = SetStatus(Profile, InGroup(Profile, group', 0), 1)
    OBVIOUS
  <2>2. Write("profile", new) /\ UNCHANGED db
    BY <1>4, <2>1 DEF Mark
  <2> QED  BY <1>1, <2>1, <2>2, WrittenIsEven
<1>5. CASE Unmark
  <2>1. PICK new : new = SetStatus(Profile, InGroup(Profile, group, 1), 0)
    OBVIOUS
  <2>2. UNCHANGED <<db, lost>> /\ (Write("profile", new) \/ UNCHANGED disk)
    BY <1>5, <2>1 DEF Unmark
  <2>3. CASE Write("profile", new)
    BY <1>1, <2>1, <2>2, <2>3, WrittenIsEven
  <2>4. CASE UNCHANGED disk
    BY <2>2, <2>4, UnchangedIsEven DEF dbVars
  <2> QED  BY <2>2, <2>3, <2>4
<1>6. CASE InitExecution
  <2>1. PICK new : new = acc_profiling_init_db(Tables("execute", "profile"))
    OBVIOUS
  <2>2. Execute("execute", "profile", new)
    BY <1>6, <2>1 DEF InitExecution
  <2>3. Even("profile", new, <<>>, Vectors, FittingRuns)
    BY <1>0, <1>3, <2>1, <2>2, ProfilingIsEven DEF Good
  <2> QED  BY <1>2, <2>2, <2>3
<1>7. CASE Claim
  <2>1. PICK new : new = SetStatus(Profile, Current, 2)
    OBVIOUS
  <2> QED  BY <1>1, <1>2, <1>7, <2>1 DEF Claim, SetCurrent
<1>8. CASE Complete
  <2>1. PICK new : new = SetStatus(Profile, Current, 3)
    OBVIOUS
  <2> QED  BY <1>1, <1>2, <1>8, <2>1 DEF Complete, SetCurrent
<1>9. CASE Launch
  <2>1. PICK duration \in Durations :
          Execute("execute", "profile",
                  Insert(Tables("execute", "profile"), "Events",
                    << [run_id |-> RunField(Head(todo), 0), device_id |-> 0,
                        duration |-> duration] >>))
    BY <1>9 DEF Launch
  <2>2. PICK event : event = [run_id |-> RunField(Head(todo), 0), device_id |-> 0,
                              duration |-> duration]
    OBVIOUS
  <2>3. PICK new : new = Insert(Tables("execute", "profile"), "Events", <<event>>)
    OBVIOUS
  <2>4. Execute("execute", "profile", new) /\ new = Insert(Profile, "Events", <<event>>)
    BY <1>3, <2>1, <2>2, <2>3
  <2>5. "Events" \notin {"Runs", "Versions", "Loops"} /\ IsSequence(<<event>>)
    BY NoRows
  <2>6. Even("profile", new, <<>>, Vectors, FittingRuns)
    BY <1>0, <2>4, <2>5, InsertedIsEven DEF Good
  <2> QED  BY <1>2, <2>4, <2>6
<1>10. CASE OpenExecutedVersions \/ OpenExecutedProfile \/ ExitExecution
  <2>1. Rest("execute") = <<>>
    BY DEF Rest
  <2>2. AddsEven("execute")
    BY <1>0, <1>10, <2>1 DEF OpenExecutedVersions, OpenExecutedProfile, ExitExecution, AddsEven
  <2> QED  BY <1>0, <2>2, AddsEvenStep
<1>11. CASE ScriptEnds \/ LoadVersion \/ ReadMarkedRuns
  <2>1. UNCHANGED dbVars
    BY <1>11 DEF ScriptEnds, LoadVersion, ReadMarkedRuns
  <2> QED  BY <2>1, UnchangedIsEven
<1> QED
  BY <1>4, <1>5, <1>6, <1>7, <1>8, <1>9, <1>10, <1>11 DEF Script

LEMMA AnalyseIsEven ==
  ASSUME FilesGood, BatchInv, EvenFiles, Analyse
  PROVE  AddsEven("process") \/ UNCHANGED dbVars
<1>1. /\ "versions" \in Files /\ "profile" \in Files /\ TRUE \in BOOLEAN /\ "process" \in Programs
      /\ Rest("process") = <<>>
  BY FilesAssumption, ProgramsAssumption DEF Rest
<1>2. /\ IsTables(AnalysisVersions) /\ Even("versions", AnalysisVersions, <<>>, Vectors, FittingRuns)
      /\ IsTables(AnalysisProfile) /\ Even("profile", AnalysisProfile, <<>>, Vectors, FittingRuns)
  BY <1>1, TablesAreGood, TablesAreEven DEF AnalysisVersions, AnalysisProfile, Good
<1>3. ASSUME NEW f \in Files, NEW new, Execute("process", f, new),
             Even(f, new, <<>>, Vectors, FittingRuns)
      PROVE  AddsEven("process")
  BY <1>1, <1>3 DEF AddsEven
<1>4. CASE OpenAnalysedVersions \/ OpenAnalysedProfile \/ SavePerformances \/ SaveSummaries
           \/ ExitAnalysis
  BY <1>1, <1>4
  DEF OpenAnalysedVersions, OpenAnalysedProfile, SavePerformances, SaveSummaries, ExitAnalysis,
      AddsEven
<1>5. CASE InitAnalysis
  <2>1. PICK new : new = acc_profiling_init_db(AnalysisProfile)
    OBVIOUS
  <2>2. Execute("process", "profile", new)
    BY <1>5, <2>1 DEF InitAnalysis
  <2>3. Even("profile", new, <<>>, Vectors, FittingRuns)
    BY <1>2, <2>1, ProfilingIsEven
  <2> QED  BY <1>1, <1>3, <2>2, <2>3
<1>6. CASE ReadExecutedRuns
  <2>1. PICK new : new = acc_sqlite_create_table(AnalysisVersions, "Performances")
    OBVIOUS
  <2>2. Execute("process", "versions", new)
    BY <1>6, <2>1 DEF ReadExecutedRuns
  <2>3. Even("versions", new, <<>>, Vectors, FittingRuns)
    BY <1>2, <2>1, CreatedIsEven
  <2> QED  BY <1>1, <1>3, <2>2, <2>3
<1>7. ASSUME NEW th \in Threads, EvaluateRun(th)
      PROVE  UNCHANGED dbVars
  BY <1>7 DEF EvaluateRun
<1>8. ASSUME NEW th \in Threads, InsertBatch(th)
      PROVE  AddsEven("process")
  <2>1. PICK new : new = Insert(AnalysisVersions, "Performances", batch[th])
    OBVIOUS
  <2>2. Execute("process", "versions", new)
    BY <1>8, <2>1 DEF InsertBatch
  <2>3. "Performances" \notin {"Runs", "Versions", "Loops"} /\ IsSequence(batch[th])
    BY DEF BatchInv
  <2>4. Even("versions", new, <<>>, Vectors, FittingRuns)
    BY <1>2, <2>1, <2>3, InsertedIsEven
  <2> QED  BY <1>1, <1>3, <2>2, <2>4
<1>9. CASE Summarise
  <2>1. PICK new : new = ParamPerf(VersionPerf(AnalysisVersions))
    OBVIOUS
  <2>2. Execute("process", "versions", new)
    BY <1>9, <2>1 DEF Summarise
  <2>3. Even("versions", new, <<>>, Vectors, FittingRuns)
    BY <1>2, <2>1, SummariesAreEven
  <2> QED  BY <1>1, <1>3, <2>2, <2>3
<1> QED  BY <1>4, <1>5, <1>6, <1>7, <1>8, <1>9 DEF Analyse

-----------------------------------------------------------------------------
(* Each step of the whole keeps the files even.                            *)
LEMMA NoTablesAreEven ==
  ASSUME NEW vectors, NEW fitting
  PROVE  Even("profile", NoTables, <<>>, vectors, fitting)
<1>1. PICK runs : runs = Rows(NoTables, "Runs")
  OBVIOUS
<1>2. runs = <<>>
  BY <1>1 DEF NoTables, Rows
<1>3. \A r : Cardinality(Made(runs, r)) = 0
  <2>1. \A r : Made(runs, r) = {}
    BY <1>2 DEF Made
  <2> QED  BY <2>1, FS_EmptySet
<1>4. \A r : Cardinality(Made(runs, r)) + Cardinality(Coming(<<>>, r)) = 0
  BY <1>3, NothingIsComing DEF NothingComes
<1>5. Balanced(runs, <<>>, fitting)
  BY <1>4 DEF Balanced
<1>6. DOMAIN runs = {}
  BY <1>2
<1> QED  BY <1>1, <1>5, <1>6 DEF Even, RunsFit

LEMMA EvenStart == Init => EvenInv
<1> SUFFICES ASSUME Init PROVE EvenInv
  OBVIOUS
<1>1. /\ db = [p \in Programs |-> [f \in Files |-> Closed]]
      /\ combos = <<>> /\ gpc = "off"
  BY DEF Init
<1>2. Even("versions", UserVersions, <<>>, Vectors, FittingRuns)
  BY VersionsAssumption DEF Even, SameVersions
<1>3. ASSUME NEW f \in Files PROVE Even(f, Content(f), <<>>, Vectors, FittingRuns)
  <2>1. CASE disk = [g \in {"versions"} |-> UserVersions]
    <3>1. Content("versions") = UserVersions /\ Content("profile") = NoTables
      BY <2>1 DEF Content, FileExists
    <3> QED  BY <1>2, <3>1, FilesAssumption, NoTablesAreEven
  <2>2. CASE test = "109" /\ disk = [g \in Files |-> IF g = "versions" THEN UserVersions ELSE Earlier]
    <3>1. Content("versions") = UserVersions /\ Content("profile") = Earlier
      BY <2>2, FilesAssumption DEF Content, FileExists
    <3>2. ~Vectors
      BY <2>2 DEF Vectors
    <3>3. \A i \in DOMAIN Rows(Earlier, "Runs") : PortionsAddUp(Rows(Earlier, "Runs")[i])
      BY EarlierAssumption DEF Range
    <3>4. Even("profile", Earlier, <<>>, Vectors, FittingRuns)
      BY <3>2, <3>3 DEF Even, RunsFit
    <3> QED  BY <1>2, <3>1, <3>4, FilesAssumption
  <2> QED  BY <2>1, <2>2 DEF Init
<1>4. \A p \in Programs, f \in Files : ~db[p][f].memory
  BY <1>1 DEF Closed
<1>5. EvenFiles
  BY <1>3, <1>4 DEF EvenFiles
<1>6. GeneratorHolds
  BY <1>1 DEF GeneratorHolds
<1>7. CombosFit
  BY <1>1 DEF CombosFit
<1> QED  BY <1>5, <1>6, <1>7 DEF EvenInv

LEMMA EvenStep == ExperimentInv /\ EvenInv /\ [Next]_vars => EvenInv'
<1> SUFFICES ASSUME ExperimentInv, EvenInv, [Next]_vars PROVE EvenInv'
  OBVIOUS
<1>0. /\ EvenFiles /\ GeneratorHolds /\ CombosFit /\ Connections /\ ExecutorCopies
      /\ FilesGood /\ CombosInv /\ BatchInv
      /\ "generate" \in Programs /\ "process" \in Programs /\ "execute" \in Programs
  BY ProgramsAssumption DEF EvenInv, ExperimentInv, CopiesInv
<1>1. CASE Generate /\ UNCHANGED <<analysisVars, executorVars, userVars>>
  BY <1>0, <1>1, GenerateIsEven
<1>2. CASE Analyse /\ UNCHANGED <<generationVars, executorVars, userVars>>
  <2>1. SameExperiment /\ combos' = combos /\ UNCHANGED generationVars
    BY <1>2 DEF generationVars, SameExperiment
  <2>2. AddsEven("process") \/ UNCHANGED dbVars
    BY <1>0, <1>2, AnalyseIsEven
  <2>3. EvenFiles'
    BY <1>0, <2>1, <2>2, AddsEvenStep, UnchangedIsEven
  <2>4. Uses("process") \/ UNCHANGED dbVars
    BY <1>2, AnalyseUses
  <2> QED  BY <1>0, <2>1, <2>3, <2>4, OthersKeepEven
<1>3. CASE (Script \/ Mark) /\ UNCHANGED <<generationVars, analysisVars>>
  <2>1. SameExperiment /\ combos' = combos /\ UNCHANGED generationVars
    BY <1>3 DEF generationVars, SameExperiment
  <2>2. EvenFiles'
    BY <1>0, <1>3, <2>1, ScriptIsEven
  <2>3. Uses("execute") \/ UNCHANGED dbVars
    BY <1>0, <1>3, ScriptUses
  <2> QED  BY <1>0, <2>1, <2>2, <2>3, OthersKeepEven
<1>4. CASE StartAnalysis \/ StartScript \/ UNCHANGED vars
  <2>1. UNCHANGED dbVars /\ SameExperiment /\ combos' = combos /\ UNCHANGED generationVars
    BY <1>4 DEF StartAnalysis, StartScript, Start, vars, generationVars, SameExperiment
  <2>2. EvenFiles'
    BY <1>0, <2>1, UnchangedIsEven
  <2> QED  BY <1>0, <2>1, <2>2, OthersKeepEven
<1>5. CASE StartGeneration
  <2>1. /\ UNCHANGED dbVars /\ SameExperiment /\ gpc = "off"
        /\ gpc' = "open_versions" /\ combos' = <<>>
    BY <1>5 DEF StartGeneration, Start, Running, SameExperiment
  <2>2. combos' = combos
    BY <1>0, <2>1 DEF GeneratorHolds
  <2>3. EvenFiles'
    BY <1>0, <2>1, <2>2, UnchangedIsEven
  <2>4. GeneratorHolds'
    BY <2>1 DEF GeneratorHolds
  <2>5. CombosFit'
    BY <1>0, <2>1, CombosStay
  <2> QED  BY <2>3, <2>4, <2>5 DEF EvenInv
<1>6. CASE EndGeneration
  <2>1. /\ Disconnect("generate") /\ UNCHANGED disk /\ SameExperiment
        /\ gpc' = "off" /\ combos' = <<>>
    BY <1>6 DEF EndGeneration, SameExperiment
  <2>2. EvenFiles'
    BY <1>0, <2>1, DisconnectedIsEven
  <2>3. GeneratorHolds'
    BY <2>1 DEF GeneratorHolds
  <2>4. CombosFit'
    BY <1>0, <2>1, CombosStay
  <2> QED  BY <2>2, <2>3, <2>4 DEF EvenInv
<1>7. CASE EndAnalysis \/ EndExecution
  <2>1. PICK p \in Programs : p # "generate" /\ Disconnect(p)
    BY <1>0, <1>7 DEF EndAnalysis, EndExecution
  <2>2. /\ UNCHANGED disk /\ SameExperiment /\ combos' = combos /\ gpc' = gpc
    BY <1>7 DEF EndAnalysis, EndExecution, generationVars, SameExperiment
  <2>3. EvenFiles'
    BY <1>0, <2>1, <2>2, DisconnectedIsEven
  <2>4. \A f \in Files : db'["generate"][f] = db["generate"][f]
    BY <1>0, <2>1, DisconnectEffect
  <2>5. GeneratorHolds'
    BY <1>0, <2>2, <2>4, GeneratorStays
  <2>6. CombosFit'
    BY <1>0, <2>2, CombosStay
  <2> QED  BY <2>3, <2>5, <2>6 DEF EvenInv
<1> QED  BY <1>1, <1>2, <1>3, <1>4, <1>5, <1>6, <1>7 DEF Next

(* The file of an experiment holds the runs of all launches that fit and   *)
(* of no other, each as often as every other, wherever the generators      *)
(* failed, in whatever order they wrote the file and whatever the other    *)
(* programs wrote meanwhile; its runs are numbered as their rows are.      *)
THEOREM RunsAreAlwaysTheFittingLaunches == Spec => []RunsAreTheFittingLaunches
<1>1. ASSUME ExperimentInv, EvenInv PROVE RunsAreTheFittingLaunches
  <2>1. PICK runs : runs = Rows(Profile, "Runs")
    OBVIOUS
  <2>2. /\ RunsFit(Profile, <<>>, Vectors, FittingRuns)
        /\ Good("profile", Profile, num_devices)
    BY <1>1, FilesAssumption DEF EvenInv, EvenFiles, Even, ExperimentInv, FilesGood, Profile
  <2>3. IsSequence(runs)
    BY <2>1, <2>2, TablesFacts DEF Good
  <2>4. ASSUME NEW i \in DOMAIN runs PROVE runs[i].rowid = i /\ PortionsAddUp(runs[i])
    <3>1. IsRun(runs[i], i, num_devices)
      BY <2>1, <2>2 DEF Good, HoldsRuns
    <3> QED  BY <2>1, <2>2, <3>1 DEF IsRun, RunsFit
  <2>5. ASSUME Vectors
        PROVE  /\ \A i \in DOMAIN runs : AsValid(runs[i]) \in FittingRuns
               /\ \A r, s \in FittingRuns : Cardinality(Made(runs, r)) = Cardinality(Made(runs, s))
    <3>1. PICK c \in Nat :
            \A r \in FittingRuns : Cardinality(Made(runs, r)) + Cardinality(Coming(<<>>, r)) = c
      BY <2>1, <2>2, <2>5 DEF RunsFit, Balanced
    <3>2. ASSUME NEW r \in FittingRuns PROVE Cardinality(Made(runs, r)) = c
      <4>1. Cardinality(Made(runs, r)) + 0 = c
        BY <3>1, NothingIsComing DEF NothingComes
      <4>2. Cardinality(Made(runs, r)) \in Nat
        BY <2>3, MadeIsFinite
      <4> QED  BY <4>1, <4>2
    <3> QED  BY <2>1, <2>2, <2>5, <3>2 DEF RunsFit
  <2> QED  BY <2>1, <2>4, <2>5 DEF RunsAreTheFittingLaunches, Made, Vectors
<1>2. ExperimentInv /\ EvenInv /\ [Next]_vars => EvenInv'
  BY EvenStep
<1> QED  BY <1>1, <1>2, EvenStart, ExperimentAlways, PTL DEF Spec
=============================================================================
