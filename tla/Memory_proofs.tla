---------------------------- MODULE Memory_proofs ---------------------------
(***************************************************************************)
(* The data environments of a structured program, for every number of      *)
(* devices, host pointers and buffers, every capacity of the two-way maps  *)
(* and every nesting depth, as long as no map or set has more than the six *)
(* entries its search can cope with (FewEntries); then the transfers over  *)
(* them, for any distribution of the arrays and any length of the queues.  *)
(***************************************************************************)
EXTENDS Transfers, Operators_proofs, SequenceTheorems

SlotOf(d, h) == bimaps[d].key_1_map[h]

MapsAreSound == \A d \in Devices : Sound(bimaps[d]) /\ Compact(bimaps[d])

(* The environments hold the mapped host pointers and nothing else.        *)
OwnersAreExact ==
  \A d \in Devices, h \in HostPtrs :
    h \in Live1(bimaps[d]) <=> \E i \in 1..Depth : h \in envs[i][d]

(* The maps are filled like stacks: an inner environment holds the higher  *)
(* slots, so leaving it uncovers no hole.                                  *)
OldestFirst ==
  \A d \in Devices, i, j \in 1..Depth :
    i < j => \A h \in envs[i][d], g \in envs[j][d] : SlotOf(d, h) < SlotOf(d, g)

BuffersAreExclusive ==
  \A d, e \in Devices : d # e => Live2(bimaps[d]) \cap Live2(bimaps[e]) = {}

(* A slot a host pointer leads to has been written.                        *)
SlotsAreWritten ==
  \A d \in Devices : \A h \in Live1(bimaps[d]) :
    bimap_get_value_by_key_1(bimaps[d], h) \in Slot(HostPtrs, DevPtrs, Sizes)

EnvInv ==
  /\ TypeOK
  /\ NoSpuriousHalt
  /\ MapsAreSound
  /\ SlotsAreWritten
  /\ OwnersAreExact
  /\ OldestFirst
  /\ BuffersAreExclusive
  /\ NoBufferLeak

-----------------------------------------------------------------------------
(* The environments after an update of the current one, and after one is   *)
(* opened or closed.                                                       *)
HostSets == [Devices -> SUBSET HostPtrs]

LEMMA UpdatedEnvs ==
  ASSUME TypeOK, NEW d \in Devices, NEW H \in SUBSET HostPtrs,
         NEW after, after = EnvUpdate(d, H)
  PROVE  /\ after \in Seq(HostSets)
         /\ Len(after) = Depth
         /\ \A i \in 1..Depth, e \in Devices :
              after[i][e] = IF i = Depth /\ e = d THEN H ELSE envs[i][e]
<1>1. /\ envs \in Seq(HostSets)
      /\ Depth \in 1..Len(envs)
      /\ envs[Depth] \in HostSets
  BY ElementOfSeq DEF TypeOK, HostSets, Depth
<1> DEFINE top == [envs[Depth] EXCEPT ![d] = H]
<1>2. top \in HostSets
  BY <1>1 DEF HostSets
<1>3. /\ after = [envs EXCEPT ![Depth] = top]
      /\ after \in Seq(HostSets)
      /\ Len(after) = Depth
      /\ \A i \in 1..Depth : after[i] = IF i = Depth THEN top ELSE envs[i]
  BY <1>1, <1>2, ExceptSeq DEF EnvUpdate, Depth
<1>4. \A e \in Devices : top[e] = IF e = d THEN H ELSE envs[Depth][e]
  BY <1>1 DEF HostSets
<1> QED
  BY <1>3, <1>4

LEMMA PushedEnvs ==
  ASSUME TypeOK, NEW after, after = Append(envs, NoHostPtrs)
  PROVE  /\ after \in Seq(HostSets)
         /\ Len(after) = Depth + 1
         /\ \A i \in 1..Depth : after[i] = envs[i]
         /\ \A e \in Devices : after[Depth + 1][e] = {}
<1>1. NoHostPtrs \in HostSets /\ \A e \in Devices : NoHostPtrs[e] = {}
  BY DEF NoHostPtrs, HostSets
<1>2. envs \in Seq(HostSets)
  BY DEF TypeOK, HostSets
<1> QED
  BY <1>1, <1>2, AppendProperties DEF Depth

LEMMA PoppedEnvs ==
  ASSUME TypeOK, NEW after,
         after = IF Depth > 1 THEN SubSeq(envs, 1, Depth - 1) ELSE <<NoHostPtrs>>
  PROVE  /\ after \in Seq(HostSets)
         /\ Len(after) \in 1..Depth
         /\ Depth > 1 => /\ Len(after) = Depth - 1
                         /\ \A i \in 1..(Depth - 1) : after[i] = envs[i]
         /\ Depth = 1 => /\ Len(after) = 1
                         /\ \A e \in Devices : after[1][e] = {}
<1>1. /\ envs \in Seq(HostSets)
      /\ Depth \in Nat \ {0}
      /\ Len(envs) = Depth
  BY DepthAssumption DEF TypeOK, HostSets, Depth
<1>2. CASE Depth > 1
  <2>1. /\ 1 \in 1..(Len(envs) + 1)
        /\ Depth - 1 \in 0..Len(envs)
        /\ after = SubSeq(envs, 1, Depth - 1)
    BY <1>1, <1>2
  <2>2. /\ after \in Seq(HostSets)
        /\ Len(after) = Depth - 1
        /\ \A i \in 1..((Depth - 1) - 1 + 1) : after[i] = envs[1 + i - 1]
    BY <1>1, <1>2, <2>1, SubSeqProperties
  <2> QED
    BY <1>1, <1>2, <2>2
<1>3. CASE Depth = 1
  <2>1. NoHostPtrs \in HostSets /\ \A e \in Devices : NoHostPtrs[e] = {}
    BY DEF NoHostPtrs, HostSets
  <2> QED
    BY <1>3, <2>1
<1> QED
  BY <1>1, <1>2, <1>3

-----------------------------------------------------------------------------
(* What the invariant says of one map and of one environment.              *)
LEMMA EnvFacts ==
  ASSUME EnvInv, NEW d \in Devices
  PROVE  /\ bimaps[d] \in BimapType(HostPtrs, DevPtrs, Sizes, Junk, Capacity)
         /\ Sound(bimaps[d])
         /\ Compact(bimaps[d])
         /\ Live1(bimaps[d]) \subseteq HostPtrs
         /\ Live2(bimaps[d]) \subseteq DevPtrs
         /\ Live2(bimaps[d]) \subseteq buffers
         /\ Depth \in Nat \ {0}
         /\ \A i \in 1..Depth : envs[i] \in HostSets
         /\ \A i \in 1..Depth : envs[i][d] \subseteq Live1(bimaps[d])
<1>1. bimaps[d] \in BimapType(HostPtrs, DevPtrs, Sizes, Junk, Capacity)
  BY DEF EnvInv, TypeOK
<1>2. Live1(bimaps[d]) \subseteq HostPtrs /\ Live2(bimaps[d]) \subseteq DevPtrs
  BY <1>1 DEF BimapType, Live1, Live2
<1>3. Live2(bimaps[d]) \subseteq buffers
  BY DEF EnvInv, NoBufferLeak
<1>4. Depth \in Nat \ {0} /\ Depth = Len(envs) /\ envs \in Seq(HostSets)
  BY DepthAssumption DEF EnvInv, TypeOK, HostSets, Depth
<1>5. \A i \in 1..Depth : envs[i] \in HostSets
  BY <1>4, ElementOfSeq
<1>6. \A i \in 1..Depth : envs[i][d] \subseteq Live1(bimaps[d])
  BY <1>5 DEF EnvInv, OwnersAreExact, HostSets
<1> QED
  BY <1>1, <1>2, <1>3, <1>4, <1>5, <1>6 DEF EnvInv, MapsAreSound

(* The data of a mapped host pointer is an allocation of that pointer.     *)
LEMMA AllocationOf ==
  ASSUME EnvInv, NEW d \in Devices, NEW h \in Live1(bimaps[d]),
         NEW a, a = bimap_get_value_by_key_1(bimaps[d], h)
  PROVE  /\ a \in [k1 : HostPtrs, k2 : DevPtrs, data : Sizes]
         /\ a.k1 = h
         /\ a.k2 \in Live2(bimaps[d])
         /\ bimaps[d].key_2_map[a.k2] = SlotOf(d, h)
         /\ a # None
<1>1. a.k1 = h /\ a.k2 \in Live2(bimaps[d])
      /\ bimaps[d].key_2_map[a.k2] = SlotOf(d, h)
  BY EnvFacts DEF Sound, SlotsAgree, bimap_get_value_by_key_1, SlotOf
<1>2. a \in Slot(HostPtrs, DevPtrs, Sizes)
  BY DEF EnvInv, SlotsAreWritten
<1> QED
  BY <1>1, <1>2, NoneAssumption DEF Slot

(* Two mapped host pointers lead to different buffers, on one device or on *)
(* two.                                                                    *)
LEMMA BuffersTellHostPtrs ==
  ASSUME EnvInv, NEW d \in Devices, NEW e \in Devices,
         NEW h \in Live1(bimaps[d]), NEW g \in Live1(bimaps[e]),
         acc_get_deviceptr(d, h) = acc_get_deviceptr(e, g)
  PROVE  d = e /\ h = g
<1>1. /\ acc_get_deviceptr(d, h) \in Live2(bimaps[d])
      /\ acc_get_deviceptr(e, g) \in Live2(bimaps[e])
      /\ bimaps[d].key_2_map[acc_get_deviceptr(d, h)] = SlotOf(d, h)
      /\ bimaps[e].key_2_map[acc_get_deviceptr(e, g)] = SlotOf(e, g)
  BY AllocationOf DEF acc_get_deviceptr
<1>2. d = e
  BY <1>1 DEF EnvInv, BuffersAreExclusive
<1>3. h = g
  BY <1>1, <1>2, EnvFacts, LiveKeysAreInjective DEF Sound, SlotOf
<1> QED
  BY <1>2, <1>3

(* A step moves no allocation that stays: its host pointer leads to the     *)
(* same data.                                                              *)
AllocationsKept ==
  \A x \in Devices : \A g \in Live1(bimaps[x]) \cap Live1(bimaps'[x]) :
    bimap_get_value_by_key_1(bimaps'[x], g) = bimap_get_value_by_key_1(bimaps[x], g)

(* A step that allocates buffer b, of size n, for h in the current scope.  *)
Allocates(d, h, b, n) ==
  /\ b \in DevPtrs \ buffers
  /\ envs' = EnvWith(d, h)
  /\ bimap_get_value_by_key_1(bimaps'[d], h) = [k1 |-> h, k2 |-> b, data |-> n]

(* Nothing but h, with buffer b, is added to the map of d; nothing is added *)
(* to any map.                                                             *)
Grows(d, h, b) ==
  \A x \in Devices :
    /\ Live1(bimaps'[x]) = IF x = d THEN Live1(bimaps[x]) \cup {h} ELSE Live1(bimaps[x])
    /\ Live2(bimaps'[x]) = IF x = d THEN Live2(bimaps[x]) \cup {b} ELSE Live2(bimaps[x])

Shrinks ==
  \A x \in Devices :
    /\ Live1(bimaps'[x]) \subseteq Live1(bimaps[x])
    /\ Live2(bimaps'[x]) \subseteq Live2(bimaps[x])

-----------------------------------------------------------------------------
LEMMA EnvInvInitially == Init => EnvInv
<1> SUFFICES ASSUME Init PROVE EnvInv
  OBVIOUS
<1>1. ASSUME NEW d \in Devices
      PROVE  /\ bimaps[d] \in BimapType(HostPtrs, DevPtrs, Sizes, Junk, Capacity)
             /\ Sound(bimaps[d])
             /\ Live1(bimaps[d]) = {}
             /\ Live2(bimaps[d]) = {}
  BY AllocIsSound, CapacityAssumption, HostPtrsAreFinite DEF Init
<1>2. /\ envs \in Seq(HostSets)
      /\ Depth = 1
      /\ \A d \in Devices : envs[1][d] = {}
  BY DEF Init, NoHostPtrs, HostSets, Depth
<1>3. TypeOK
  BY <1>1, <1>2, DepthAssumption DEF Init, TypeOK, HostSets
<1>4. MapsAreSound
  BY <1>1 DEF MapsAreSound, Compact
<1>5. OwnersAreExact
  BY <1>1, <1>2 DEF OwnersAreExact
<1>7. OldestFirst
  BY <1>2 DEF OldestFirst
<1>6. NoBufferLeak /\ BuffersAreExclusive /\ SlotsAreWritten
  BY <1>1 DEF Init, NoBufferLeak, BuffersAreExclusive, SlotsAreWritten
<1> QED
  BY <1>3, <1>4, <1>5, <1>6, <1>7 DEF EnvInv, NoSpuriousHalt, Init

LEMMA PushStep ==
  ASSUME EnvInv, acc_push_data_environment
  PROVE  EnvInv'
<1>1. /\ envs' \in Seq(HostSets)
      /\ Len(envs') = Depth + 1
      /\ \A i \in 1..Depth : envs'[i] = envs[i]
      /\ \A e \in Devices : envs'[Depth + 1][e] = {}
  BY PushedEnvs DEF EnvInv, acc_push_data_environment
<1>2. /\ Depth \in Nat \ {0} /\ Depth' = Depth + 1 /\ Depth' <= MaxDepth
      /\ UNCHANGED <<bimaps, buffers, halted>>
  BY <1>1, DepthAssumption DEF EnvInv, TypeOK, acc_push_data_environment, Depth
<1>3. TypeOK'
  BY <1>1, <1>2, DepthAssumption DEF EnvInv, TypeOK, HostSets
<1>4. OwnersAreExact'
  BY <1>1, <1>2 DEF EnvInv, OwnersAreExact
<1>5. OldestFirst'
  BY <1>1, <1>2 DEF EnvInv, OldestFirst, SlotOf
<1> QED
  BY <1>2, <1>3, <1>4, <1>5
  DEF EnvInv, NoSpuriousHalt, MapsAreSound, SlotsAreWritten, NoBufferLeak,
      BuffersAreExclusive

(* A new allocation goes to the slot above all others and to the innermost *)
(* environment.                                                            *)
LEMMA CreateStep ==
  ASSUME EnvInv, NEW d \in Devices, NEW h \in HostPtrs, NEW n \in Sizes,
         ~Mapped(d, h), acc_create_(d, h, n)
  PROVE  /\ EnvInv'
         /\ \/ halted' # "no" /\ UNCHANGED <<envs, bimaps>>
            \/ /\ halted' = "no" /\ AllocationsKept
               /\ \E b \in DevPtrs : Allocates(d, h, b, n) /\ Grows(d, h, b)
<1>5. halted = "no"
  BY DEF acc_create_, Running
<1>6. CASE Halt("buffer")
  <2>1. halted' = "buffer" /\ UNCHANGED <<envs, bimaps, buffers>>
    BY <1>6 DEF Halt
  <2> QED
    BY <2>1
    DEF EnvInv, TypeOK, NoSpuriousHalt, MapsAreSound, SlotsAreWritten,
        OwnersAreExact, OldestFirst, BuffersAreExclusive, NoBufferLeak,
        SlotOf, Depth
<1>7. SUFFICES ASSUME ~Halt("buffer")
               PROVE  /\ EnvInv'
                      /\ \/ halted' # "no" /\ UNCHANGED <<envs, bimaps>>
                         \/ /\ halted' = "no" /\ AllocationsKept
                            /\ \E b \in DevPtrs : Allocates(d, h, b, n) /\ Grows(d, h, b)
  BY <1>6
<1>1. PICK b \in DevPtrs \ buffers :
        acc_map_data_(d, h, b, n, buffers \cup {b})
  BY <1>7 DEF acc_create_, acc_check_present
<1>2. h \notin Live1(bimaps[d]) /\ b \notin Live2(bimaps[d])
  BY <1>1, EnvFacts DEF Mapped
<1>3. CASE ~CanInsert(bimaps[d], h, b)
  <2>1. halted' = "full" /\ UNCHANGED <<envs, bimaps, buffers>>
    BY <1>1, <1>2, <1>3 DEF acc_map_data_, Halt, Mapped
  <2> QED
    BY <2>1
    DEF EnvInv, TypeOK, NoSpuriousHalt, MapsAreSound, SlotsAreWritten,
        OwnersAreExact, OldestFirst, BuffersAreExclusive, NoBufferLeak,
        SlotOf, Depth
<1>4. CASE CanInsert(bimaps[d], h, b)
  <2> PICK m : m = bimap_insert(bimaps[d], h, b, n)
    OBVIOUS
  <2>1. /\ bimaps' = [bimaps EXCEPT ![d] = m]
        /\ envs' = EnvWith(d, h)
        /\ buffers' = buffers \cup {b}
        /\ halted' = halted
    BY <1>1, <1>4 DEF acc_map_data_
  <2>2. /\ bimaps' \in [Devices -> BimapType(HostPtrs, DevPtrs, Sizes, Junk, Capacity)]
        /\ bimaps'[d] = m
        /\ \A x \in Devices \ {d} : bimaps'[x] = bimaps[x]
    <3>1. m \in BimapType(HostPtrs, DevPtrs, Sizes, Junk, Capacity)
      BY <1>1, <1>4, EnvFacts, InsertFields, CapacityAssumption
    <3> QED
      BY <2>1, <3>1 DEF EnvInv, TypeOK
  <2>4. /\ Sound(m)
        /\ Compact(m)
        /\ Live1(m) = Live1(bimaps[d]) \cup {h}
        /\ Live2(m) = Live2(bimaps[d]) \cup {b}
        /\ m.datas[m.key_1_map[h]] = [k1 |-> h, k2 |-> b, data |-> n]
        /\ \A k \in Live1(bimaps[d]) :
             /\ m.key_1_map[k] = bimaps[d].key_1_map[k]
             /\ m.datas[m.key_1_map[k]] = bimaps[d].datas[bimaps[d].key_1_map[k]]
    <3>1. SoundlyInserted(bimaps[d], h, b, n, m)
      BY <1>1, <1>4, EnvFacts, InsertIsSound, CapacityAssumption, HostPtrsAreFinite
    <3> QED
      BY <3>1 DEF SoundlyInserted
  <2>3. m.key_1_map[h] = bimaps[d].count
    BY EnvFacts DEF bimap_insert, BimapType
  <2> DEFINE H == envs[Depth][d] \cup {h}
  <2>14. H \in SUBSET HostPtrs /\ envs' = EnvUpdate(d, H) /\ TypeOK
    BY <2>1, EnvFacts DEF HostSets, EnvWith, EnvInv
  <2> HIDE DEF H
  <2>15. /\ envs' \in Seq(HostSets)
         /\ Len(envs') = Depth
         /\ \A i \in 1..Depth, x \in Devices :
              envs'[i][x] = IF i = Depth /\ x = d THEN H ELSE envs[i][x]
    BY <2>14, UpdatedEnvs
  <2>5. Depth' = Depth /\ Depth \in Nat \ {0}
    BY <2>15, EnvFacts DEF Depth
  <2>13. \A i \in 1..Depth, x \in Devices :
           envs'[i][x] = IF i = Depth /\ x = d THEN envs[i][x] \cup {h}
                         ELSE envs[i][x]
    BY <2>15 DEF H
  <2>6. TypeOK'
    BY <2>1, <2>2, <2>5, <2>15, <1>1 DEF EnvInv, TypeOK, HostSets
  <2>7. MapsAreSound'
    BY <2>2, <2>4, EnvFacts DEF MapsAreSound
  <2>8. SlotsAreWritten'
    <3>1. [k1 |-> h, k2 |-> b, data |-> n] \in Slot(HostPtrs, DevPtrs, Sizes)
      BY <1>1 DEF Slot
    <3> QED
      BY <3>1, <2>2, <2>4 DEF EnvInv, SlotsAreWritten, bimap_get_value_by_key_1
  <2>9. OwnersAreExact'
    <3>1. ASSUME NEW x \in Devices, NEW g \in HostPtrs
          PROVE  g \in Live1(bimaps'[x]) <=> \E i \in 1..Depth : g \in envs'[i][x]
      <4>1. g \in Live1(bimaps[x]) <=> \E i \in 1..Depth : g \in envs[i][x]
        BY DEF EnvInv, OwnersAreExact
      <4>2. CASE x # d
        BY <4>1, <4>2, <2>2, <2>13
      <4>3. CASE x = d
        <5>1. Live1(bimaps'[x]) = Live1(bimaps[x]) \cup {h}
          BY <4>3, <2>2, <2>4
        <5>2. (\E i \in 1..Depth : g \in envs'[i][x]) <=>
                (g = h \/ \E i \in 1..Depth : g \in envs[i][x])
          <6>1. /\ Depth \in 1..Depth
                /\ \A i \in 1..Depth :
                     envs'[i][x] = IF i = Depth THEN envs[i][x] \cup {h}
                                   ELSE envs[i][x]
            BY <4>3, <2>5, <2>13
          <6> QED
            BY <6>1
        <5> QED
          BY <4>1, <5>1, <5>2
      <4> QED
        BY <4>2, <4>3
    <3> QED
      BY <3>1, <2>5 DEF OwnersAreExact
  <2>10. OldestFirst'
    <3>1. SUFFICES ASSUME NEW x \in Devices, NEW i \in 1..Depth, NEW j \in 1..Depth,
                          i < j, NEW f \in envs'[i][x], NEW g \in envs'[j][x]
                   PROVE  bimaps'[x].key_1_map[f] < bimaps'[x].key_1_map[g]
      BY <2>5 DEF OldestFirst, SlotOf
    <3> \A l \in 1..Depth : envs[l][x] \subseteq Live1(bimaps[x])
      BY EnvFacts
    <3>2. i # Depth /\ f \in envs[i][x] /\ f \in Live1(bimaps[x])
      <4>1. i # Depth
        BY <3>1, <2>5
      <4>2. envs'[i][x] = envs[i][x]
        BY <4>1, <2>13
      <4> QED
        BY <4>1, <4>2
    <3>3. CASE x = d /\ j = Depth /\ g = h
      BY <3>2, <3>3, <2>2, <2>3, <2>4, EnvFacts DEF Compact
    <3>4. CASE ~(x = d /\ j = Depth /\ g = h)
      <4>1. g \in envs[j][x] /\ g \in Live1(bimaps[x])
        BY <3>1, <3>4, <2>5, <2>13
      <4>2. bimaps[x].key_1_map[f] < bimaps[x].key_1_map[g]
        BY <4>1, <3>1, <3>2 DEF EnvInv, OldestFirst, SlotOf
      <4> QED
        BY <4>1, <4>2, <3>2, <2>2, <2>4
    <3> QED
      BY <3>3, <3>4
  <2>11. BuffersAreExclusive'
    BY <1>1, <2>2, <2>4, EnvFacts DEF EnvInv, BuffersAreExclusive
  <2>12. NoBufferLeak'
    BY <2>1, <2>2, <2>4 DEF EnvInv, NoBufferLeak
  <2>16. AllocationsKept
    BY <2>2, <2>4 DEF AllocationsKept, bimap_get_value_by_key_1
  <2>17. Allocates(d, h, b, n)
    BY <1>1, <2>1, <2>2, <2>4 DEF Allocates, bimap_get_value_by_key_1
  <2>19. Grows(d, h, b)
    BY <2>2, <2>4 DEF Grows
  <2>18. EnvInv'
    BY <2>1, <2>6, <2>7, <2>8, <2>9, <2>10, <2>11, <2>12 DEF EnvInv, NoSpuriousHalt
  <2> QED
    BY <1>5, <2>1, <2>16, <2>17, <2>18, <2>19
<1> QED
  BY <1>3, <1>4

(* Removing from every device host pointers of the current environment     *)
(* that hold the highest slots there, and releasing their buffers.         *)
LEMMA RemovalStep ==
  ASSUME EnvInv, NEW K,
         \A x \in Devices : K[x] \subseteq envs[Depth][x],
         \A x \in Devices : \A h \in K[x], g \in Live1(bimaps[x]) \ K[x] :
           SlotOf(x, g) < SlotOf(x, h),
         bimaps' = [x \in Devices |-> RemoveAllByKey1(bimaps[x], K[x])],
         \A b : b \in buffers' <=>
                  /\ b \in buffers
                  /\ \A x \in Devices : \A h \in K[x] : acc_get_deviceptr(x, h) # b
  PROVE  /\ bimaps' \in [Devices -> BimapType(HostPtrs, DevPtrs, Sizes, Junk, Capacity)]
         /\ buffers' \in SUBSET DevPtrs
         /\ \A x \in Devices : Live1(bimaps'[x]) = Live1(bimaps[x]) \ K[x]
         /\ \A x \in Devices : \A g \in Live1(bimaps'[x]) :
              bimaps'[x].key_1_map[g] = SlotOf(x, g)
         /\ AllocationsKept
         /\ Shrinks
         /\ MapsAreSound'
         /\ SlotsAreWritten'
         /\ BuffersAreExclusive'
         /\ NoBufferLeak'
<1> DEFINE gone(x) == {acc_get_deviceptr(x, h) : h \in K[x]}
<1>1. ASSUME NEW x \in Devices
      PROVE  /\ K[x] \subseteq Live1(bimaps[x])
             /\ \A h \in K[x] : acc_get_deviceptr(x, h) \in Live2(bimaps[x])
  <2>1. K[x] \subseteq Live1(bimaps[x])
    BY EnvFacts
  <2> QED
    BY <2>1, AllocationOf DEF acc_get_deviceptr
<1>2. ASSUME NEW x \in Devices, NEW c, c = RemoveAllByKey1(bimaps[x], K[x])
      PROVE  /\ c \in BimapType(HostPtrs, DevPtrs, Sizes, Junk, Capacity)
             /\ Sound(c)
             /\ Compact(c)
             /\ Live1(c) = Live1(bimaps[x]) \ K[x]
             /\ Live2(c) = Live2(bimaps[x]) \ gone(x)
             /\ \A g \in Live1(c) : c.key_1_map[g] = SlotOf(x, g)
             /\ c.datas = bimaps[x].datas
  <2>1. PICK b : b = bimaps[x]
    OBVIOUS
  <2>2. /\ b \in BimapType(HostPtrs, DevPtrs, Sizes, Junk, Capacity)
        /\ Sound(b)
        /\ Compact(b)
        /\ K[x] \cap Live1(b) = K[x]
        /\ \A h \in Live1(b) \cap K[x], g \in Live1(b) \ K[x] :
             b.key_1_map[g] < b.key_1_map[h]
        /\ c = RemoveAllByKey1(b, K[x])
    BY <1>1, <1>2, <2>1, EnvFacts DEF SlotOf
  <2>3. /\ c \in BimapType(HostPtrs, DevPtrs, Sizes, Junk, Capacity)
        /\ Sound(c)
        /\ Live1(c) = Live1(b) \ K[x]
        /\ Live2(c) = Live2(b) \
                        {b.datas[b.key_1_map[k]].k2 : k \in K[x] \cap Live1(b)}
        /\ \A k \in Live1(c) : c.key_1_map[k] = b.key_1_map[k]
        /\ c.datas = b.datas
    BY <2>2, RemoveAllIsSound, CapacityAssumption, HostPtrsAreFinite
  <2>4. Compact(c)
    BY <2>2, RemoveTopIsCompact, CapacityAssumption, HostPtrsAreFinite
  <2>5. gone(x) = {b.datas[b.key_1_map[k]].k2 : k \in K[x] \cap Live1(b)}
    BY <2>1, <2>2 DEF acc_get_deviceptr, bimap_get_value_by_key_1
  <2> QED
    BY <2>1, <2>3, <2>4, <2>5 DEF SlotOf
<1>3. ASSUME NEW x \in Devices
      PROVE  /\ bimaps'[x] \in BimapType(HostPtrs, DevPtrs, Sizes, Junk, Capacity)
             /\ Sound(bimaps'[x])
             /\ Compact(bimaps'[x])
             /\ Live1(bimaps'[x]) = Live1(bimaps[x]) \ K[x]
             /\ Live2(bimaps'[x]) = Live2(bimaps[x]) \ gone(x)
             /\ \A g \in Live1(bimaps'[x]) :
                  bimaps'[x].key_1_map[g] = SlotOf(x, g)
             /\ bimaps'[x].datas = bimaps[x].datas
  <2>1. bimaps'[x] = RemoveAllByKey1(bimaps[x], K[x])
    OBVIOUS
  <2> QED
    BY <1>2, <2>1
<1>4. bimaps' \in [Devices -> BimapType(HostPtrs, DevPtrs, Sizes, Junk, Capacity)]
  BY <1>3
<1>5. \A x \in Devices : \A g \in Live1(bimaps'[x]) :
        bimap_get_value_by_key_1(bimaps'[x], g) =
          bimap_get_value_by_key_1(bimaps[x], g)
  BY <1>3 DEF bimap_get_value_by_key_1, SlotOf
<1>6. MapsAreSound'
  BY <1>3 DEF MapsAreSound
<1>7. SlotsAreWritten'
  BY <1>3, <1>5 DEF EnvInv, SlotsAreWritten
<1>8. BuffersAreExclusive'
  BY <1>3 DEF EnvInv, BuffersAreExclusive
<1>9. NoBufferLeak'
  <2>1. ASSUME NEW x \in Devices, NEW b \in Live2(bimaps'[x])
        PROVE  b \in buffers'
    <3>1. b \in Live2(bimaps[x]) /\ b \notin gone(x) /\ b \in buffers
      BY <1>3, EnvFacts
    <3>2. ASSUME NEW y \in Devices, NEW h \in K[y], acc_get_deviceptr(y, h) = b
          PROVE  FALSE
      <4>1. b \in Live2(bimaps[y])
        BY <3>2, <1>1
      <4>2. x = y
        BY <3>1, <4>1 DEF EnvInv, BuffersAreExclusive
      <4> QED
        BY <3>1, <3>2, <4>2
    <3> QED
      BY <3>1, <3>2
  <2>2. ASSUME NEW b \in buffers'
        PROVE  \E x \in Devices : b \in Live2(bimaps'[x])
    <3>1. PICK x \in Devices : b \in Live2(bimaps[x])
      BY <2>2 DEF EnvInv, NoBufferLeak
    <3>2. b \notin gone(x)
      BY <2>2
    <3> QED
      BY <3>1, <3>2, <1>3
  <2> QED
    BY <2>1, <2>2 DEF NoBufferLeak
<1>10. buffers' \in SUBSET DevPtrs
  BY DEF EnvInv, TypeOK
<1>11. AllocationsKept
  BY <1>5 DEF AllocationsKept
<1>12. Shrinks
  BY <1>3 DEF Shrinks
<1> QED
  BY <1>3, <1>4, <1>6, <1>7, <1>8, <1>9, <1>10, <1>11, <1>12

LEMMA OwnersAreUnique == EnvInv => OneOwner
<1> SUFFICES ASSUME EnvInv
             PROVE  OneOwner
  OBVIOUS
<1>1. SUFFICES ASSUME NEW d \in Devices, NEW i \in 1..Depth, NEW j \in 1..Depth,
                      i < j, NEW h \in envs[i][d] \cap envs[j][d]
               PROVE  FALSE
  <2>1. Depth \in Int
    BY DepthAssumption DEF EnvInv, TypeOK
  <2> QED
    BY <2>1 DEF OneOwner
<1>2. SlotOf(d, h) < SlotOf(d, h)
  BY <1>1 DEF EnvInv, OldestFirst
<1>3. SlotOf(d, h) \in Int
  BY <1>1, EnvFacts, CapacityAssumption DEF BimapType, SlotOf, NoIndex
<1> QED
  BY <1>2, <1>3

LEMMA RemoveNone ==
  ASSUME NEW d \in Devices, EnvInv
  PROVE  RemoveAllByKey1(bimaps[d], {}) = bimaps[d]
<1>1. PICK b : b = bimaps[d]
  OBVIOUS
<1>2. /\ b \in BimapType(HostPtrs, DevPtrs, Sizes, Junk, Capacity)
      /\ b.count \in Int
      /\ Cardinality({} \cap Live1(b)) = 0
  <2>1. {} \cap Live1(b) = {}
    OBVIOUS
  <2> QED
    BY <1>1, <2>1, EnvFacts, FS_EmptySet, CapacityAssumption DEF BimapType
<1>3. RemoveAllByKey1(b, {}).count = b.count
  BY <1>2 DEF RemoveAllByKey1
<1>4. /\ RemoveAllByKey1(b, {}).key_1_map = b.key_1_map
      /\ RemoveAllByKey1(b, {}).key_2_map = b.key_2_map
  BY <1>2 DEF RemoveAllByKey1, BimapType
<1> QED
  BY <1>1, <1>2, <1>3, <1>4 DEF RemoveAllByKey1, BimapType

(* The newest allocation of a device holds its highest slot.               *)
LEMMA DeleteStep ==
  ASSUME EnvInv, NEW d \in Devices, NEW h \in HostPtrs, NEW n \in Sizes,
         Newest(d, h), acc_check_present(d, h, n), acc_delete_(d, h, n)
  PROVE  /\ EnvInv'
         /\ AllocationsKept
         /\ Shrinks
         /\ envs' = EnvWithout(d, h)
         /\ halted' = halted
<1> DEFINE K == [x \in Devices |-> IF x = d THEN {h} ELSE {}]
<1>1. h \in envs[Depth][d] /\ h \in Live1(bimaps[d])
  BY EnvFacts DEF Newest
<1>2. acc_get_deviceptr(d, h) \in buffers
  BY <1>1, AllocationOf, EnvFacts DEF acc_get_deviceptr
<1>3. /\ bimaps' = [bimaps EXCEPT ![d] = bimap_remove_by_key_1(@, h)]
      /\ envs' = EnvWithout(d, h)
      /\ buffers' = buffers \ {acc_get_deviceptr(d, h)}
      /\ halted' = halted
  BY <1>2 DEF acc_delete_, acc_unmap_data_
<1>4. bimaps' = [x \in Devices |-> RemoveAllByKey1(bimaps[x], K[x])]
  <2>1. bimap_remove_by_key_1(bimaps[d], h) = RemoveAllByKey1(bimaps[d], {h})
    BY <1>1, RemoveByKey1
  <2>2. \A x \in Devices : RemoveAllByKey1(bimaps[x], {}) = bimaps[x]
    BY RemoveNone
  <2>3. bimaps = [x \in Devices |-> bimaps[x]]
    BY DEF EnvInv, TypeOK
  <2>4. \A x \in Devices :
          bimaps'[x] = IF x = d THEN bimap_remove_by_key_1(bimaps[d], h)
                       ELSE bimaps[x]
    BY <1>3, <2>3
  <2> QED
    BY <1>3, <2>1, <2>2, <2>3, <2>4
<1>5. \A x \in Devices : K[x] \subseteq envs[Depth][x]
  BY <1>1
<1>6. \A x \in Devices : \A f \in K[x], g \in Live1(bimaps[x]) \ K[x] :
        SlotOf(x, g) < SlotOf(x, f)
  <2>1. ASSUME NEW g \in Live1(bimaps[d]), g # h
        PROVE  SlotOf(d, g) < SlotOf(d, h)
    <3>1. SlotOf(d, g) <= SlotOf(d, h)
      BY DEF Newest, SlotOf
    <3>2. SlotOf(d, g) # SlotOf(d, h)
      BY <1>1, <2>1, EnvFacts, LiveKeysAreInjective DEF Sound, SlotOf
    <3>3. SlotOf(d, g) \in Int /\ SlotOf(d, h) \in Int
      BY <1>1, EnvFacts, CapacityAssumption DEF BimapType, SlotOf, NoIndex
    <3> QED
      BY <3>1, <3>2, <3>3
  <2> QED
    BY <2>1
<1>7. \A b : b \in buffers' <=>
               /\ b \in buffers
               /\ \A x \in Devices : \A f \in K[x] : acc_get_deviceptr(x, f) # b
  BY <1>3
<1> HIDE DEF K
<1>8. /\ bimaps' \in [Devices -> BimapType(HostPtrs, DevPtrs, Sizes, Junk, Capacity)]
      /\ buffers' \in SUBSET DevPtrs
      /\ \A x \in Devices : Live1(bimaps'[x]) = Live1(bimaps[x]) \ K[x]
      /\ \A x \in Devices : \A g \in Live1(bimaps'[x]) :
           bimaps'[x].key_1_map[g] = SlotOf(x, g)
      /\ AllocationsKept
      /\ Shrinks
      /\ MapsAreSound'
      /\ SlotsAreWritten'
      /\ BuffersAreExclusive'
      /\ NoBufferLeak'
  BY <1>4, <1>5, <1>6, <1>7, RemovalStep
<1> DEFINE H == envs[Depth][d] \ {h}
<1>9. H \in SUBSET HostPtrs /\ envs' = EnvUpdate(d, H) /\ TypeOK
  BY <1>3, EnvFacts DEF HostSets, EnvWithout, EnvInv
<1> HIDE DEF H
<1>10. /\ envs' \in Seq(HostSets)
       /\ Len(envs') = Depth
       /\ \A i \in 1..Depth, x \in Devices :
            envs'[i][x] = IF i = Depth /\ x = d THEN H ELSE envs[i][x]
  BY <1>9, UpdatedEnvs
<1>11. Depth' = Depth /\ Depth \in Nat \ {0}
  BY <1>10, EnvFacts DEF Depth
<1>12. TypeOK'
  BY <1>3, <1>8, <1>10, <1>11 DEF EnvInv, TypeOK, HostSets
<1>13. \A i \in 1..Depth, x \in Devices : envs'[i][x] = envs[i][x] \ K[x]
  <2>1. \A i \in 1..Depth : i # Depth => h \notin envs[i][d]
    BY <1>1, <1>11, OwnersAreUnique DEF OneOwner
  <2> QED
    BY <1>10, <2>1 DEF H, K
<1>14. OwnersAreExact'
  <2>1. ASSUME NEW x \in Devices, NEW g \in HostPtrs
        PROVE  g \in Live1(bimaps'[x]) <=> \E i \in 1..Depth : g \in envs'[i][x]
    <3>1. g \in Live1(bimaps[x]) <=> \E i \in 1..Depth : g \in envs[i][x]
      BY DEF EnvInv, OwnersAreExact
    <3> QED
      BY <3>1, <1>8, <1>13
  <2> QED
    BY <2>1, <1>11 DEF OwnersAreExact
<1>15. OldestFirst'
  <2>1. SUFFICES ASSUME NEW x \in Devices, NEW i \in 1..Depth, NEW j \in 1..Depth,
                        i < j, NEW f \in envs'[i][x], NEW g \in envs'[j][x]
                 PROVE  bimaps'[x].key_1_map[f] < bimaps'[x].key_1_map[g]
    BY <1>11 DEF OldestFirst, SlotOf
  <2>2. /\ f \in envs[i][x] \ K[x]
        /\ g \in envs[j][x] \ K[x]
    BY <1>13
  <2>3. /\ f \in Live1(bimaps[x]) \ K[x]
        /\ g \in Live1(bimaps[x]) \ K[x]
    BY <2>2, EnvFacts
  <2>4. SlotOf(x, f) < SlotOf(x, g)
    BY <2>1, <2>2 DEF EnvInv, OldestFirst
  <2> QED
    BY <2>3, <2>4, <1>8
<1>16. EnvInv'
  BY <1>3, <1>8, <1>12, <1>14, <1>15 DEF EnvInv, NoSpuriousHalt
<1> QED
  BY <1>3, <1>8, <1>16

(* Every release of acc_clear_data_environment succeeds.                   *)
LEMMA ClearSucceeds == EnvInv => CanClear
<1> SUFFICES ASSUME EnvInv
             PROVE  CanClear
  OBVIOUS
<1>1. ASSUME NEW v \in Victims
      PROVE  /\ v[1] \in Devices
             /\ v[2] \in Live1(bimaps[v[1]])
             /\ VictimBuffer(v) \in buffers
             /\ v = <<v[1], v[2]>>
  <2>1. /\ v = <<v[1], v[2]>>
        /\ v[1] \in Devices
        /\ v[2] \in Live1(bimaps[v[1]])
    BY EnvFacts DEF Victims
  <2> QED
    BY <2>1, AllocationOf, EnvFacts DEF VictimBuffer, acc_get_deviceptr
<1>2. ASSUME NEW v \in Victims, NEW w \in Victims, VictimBuffer(v) = VictimBuffer(w)
      PROVE  v = w
  <2>1. v[1] = w[1] /\ v[2] = w[2]
    BY <1>1, <1>2, BuffersTellHostPtrs DEF VictimBuffer
  <2> QED
    BY <2>1, <1>1
<1> QED
  BY <1>1, <1>2 DEF CanClear, Mapped

(* Closing the innermost environment removes what only it holds.           *)
LEMMA PopStep ==
  ASSUME EnvInv, acc_pop_data_environment
  PROVE  /\ EnvInv'
         /\ AllocationsKept
         /\ Shrinks
         /\ envs' = IF Depth > 1 THEN SubSeq(envs, 1, Depth - 1) ELSE <<NoHostPtrs>>
<1>1. PICK K : K = envs[Depth]
  OBVIOUS
<1>2. /\ bimaps' = [x \in Devices |-> RemoveAllByKey1(bimaps[x], K[x])]
      /\ buffers' = buffers \ {VictimBuffer(v) : v \in Victims}
      /\ envs' = IF Depth > 1 THEN SubSeq(envs, 1, Depth - 1) ELSE <<NoHostPtrs>>
      /\ halted' = halted
  BY <1>1, ClearSucceeds DEF acc_pop_data_environment
<1>3. /\ envs' \in Seq(HostSets)
      /\ Len(envs') \in 1..Depth
      /\ Depth > 1 => /\ Len(envs') = Depth - 1
                      /\ \A i \in 1..(Depth - 1) : envs'[i] = envs[i]
      /\ Depth = 1 => /\ Len(envs') = 1
                      /\ \A e \in Devices : envs'[1][e] = {}
  BY <1>2, PoppedEnvs DEF EnvInv
<1>4. /\ Depth \in Nat \ {0}
      /\ Depth \in 1..Depth
      /\ \A x \in Devices : K[x] \subseteq HostPtrs
      /\ \A x \in Devices : K[x] \subseteq Live1(bimaps[x])
      /\ \A x \in Devices : Live1(bimaps[x]) \subseteq HostPtrs
  <2>1. Depth \in Nat \ {0} /\ Depth \in 1..Depth
    BY DepthAssumption DEF EnvInv, TypeOK
  <2>2. ASSUME NEW x \in Devices
        PROVE  K[x] \subseteq Live1(bimaps[x]) /\ Live1(bimaps[x]) \subseteq HostPtrs
    BY <1>1, <2>1, EnvFacts
  <2> QED
    BY <2>1, <2>2
<1>5. \A x \in Devices : \A h \in K[x], g \in Live1(bimaps[x]) \ K[x] :
        SlotOf(x, g) < SlotOf(x, h)
  <2>1. ASSUME NEW x \in Devices, NEW h \in K[x], NEW g \in Live1(bimaps[x]) \ K[x]
        PROVE  SlotOf(x, g) < SlotOf(x, h)
    <3>1. PICK i \in 1..Depth : g \in envs[i][x]
      BY <1>4, <2>1 DEF EnvInv, OwnersAreExact
    <3>2. i < Depth
      BY <3>1, <2>1, <1>1, <1>4
    <3> QED
      BY <3>1, <3>2, <1>1, <1>4 DEF EnvInv, OldestFirst
  <2> QED
    BY <2>1
<1>6. \A b : b \in buffers' <=>
               /\ b \in buffers
               /\ \A x \in Devices : \A h \in K[x] : acc_get_deviceptr(x, h) # b
  <2>1. ASSUME NEW b
        PROVE  b \in {VictimBuffer(v) : v \in Victims} <=>
                 \E x \in Devices : \E h \in K[x] : acc_get_deviceptr(x, h) = b
    <3>1. ASSUME NEW x \in Devices, NEW h \in K[x], acc_get_deviceptr(x, h) = b
          PROVE  b \in {VictimBuffer(v) : v \in Victims}
      <4>1. <<x, h>> \in Victims /\ VictimBuffer(<<x, h>>) = b
        BY <3>1, <1>1, <1>4 DEF Victims, VictimBuffer
      <4> QED
        BY <4>1
    <3>2. ASSUME NEW v \in Victims, VictimBuffer(v) = b
          PROVE  \E x \in Devices : \E h \in K[x] : acc_get_deviceptr(x, h) = b
      BY <3>2, <1>1 DEF Victims, VictimBuffer
    <3> QED
      BY <3>1, <3>2
  <2> QED
    BY <2>1, <1>2
<1>7. /\ bimaps' \in [Devices -> BimapType(HostPtrs, DevPtrs, Sizes, Junk, Capacity)]
      /\ buffers' \in SUBSET DevPtrs
      /\ \A x \in Devices : Live1(bimaps'[x]) = Live1(bimaps[x]) \ K[x]
      /\ \A x \in Devices : \A g \in Live1(bimaps'[x]) :
           bimaps'[x].key_1_map[g] = SlotOf(x, g)
      /\ AllocationsKept
      /\ Shrinks
      /\ MapsAreSound'
      /\ SlotsAreWritten'
      /\ BuffersAreExclusive'
      /\ NoBufferLeak'
  BY <1>1, <1>2, <1>5, <1>6, RemovalStep
<1>8. TypeOK'
  BY <1>2, <1>3, <1>4, <1>7, DepthAssumption DEF EnvInv, TypeOK, HostSets, Depth
<1>9. \A i \in 1..Depth', x \in Devices :
        envs'[i][x] = IF Depth = 1 THEN {} ELSE envs[i][x]
  <2>1. CASE Depth = 1
    <3>1. Depth' = 1 /\ \A x \in Devices : envs'[1][x] = {}
      BY <2>1, <1>3 DEF Depth
    <3> QED
      BY <2>1, <3>1
  <2>2. CASE Depth > 1
    <3>1. Depth' = Depth - 1 /\ \A i \in 1..(Depth - 1) : envs'[i] = envs[i]
      BY <2>2, <1>3 DEF Depth
    <3> QED
      BY <2>2, <3>1
  <2> QED
    BY <2>1, <2>2, <1>4
<1>10. OwnersAreExact'
  <2>1. ASSUME NEW x \in Devices, NEW g \in HostPtrs
        PROVE  g \in Live1(bimaps'[x]) <=> \E i \in 1..Depth' : g \in envs'[i][x]
    <3>1. g \in Live1(bimaps[x]) <=> \E i \in 1..Depth : g \in envs[i][x]
      BY DEF EnvInv, OwnersAreExact
    <3>2. CASE Depth = 1
      BY <3>1, <3>2, <1>1, <1>7, <1>9
    <3>3. CASE Depth > 1
      <4>1. Depth' = Depth - 1 /\ \A i \in 1..(Depth - 1) : envs'[i][x] = envs[i][x]
        BY <3>3, <1>3 DEF Depth
      <4>2. \A i \in 1..(Depth - 1) : g \in envs[i][x] => g \notin K[x]
        BY <3>3, <1>1, <1>4, OwnersAreUnique DEF OneOwner
      <4> QED
        BY <3>1, <3>3, <4>1, <4>2, <1>1, <1>4, <1>7
    <3> QED
      BY <3>2, <3>3, <1>4
  <2> QED
    BY <2>1 DEF OwnersAreExact
<1>11. OldestFirst'
  <2>1. SUFFICES ASSUME NEW x \in Devices, NEW i \in 1..Depth', NEW j \in 1..Depth',
                        i < j, NEW f \in envs'[i][x], NEW g \in envs'[j][x]
                 PROVE  bimaps'[x].key_1_map[f] < bimaps'[x].key_1_map[g]
    BY DEF OldestFirst, SlotOf
  <2>2. /\ f \in envs[i][x]
        /\ g \in envs[j][x]
        /\ i \in 1..Depth
        /\ j \in 1..Depth
    BY <1>3, <1>4, <1>9 DEF Depth
  <2>3. /\ f \in Live1(bimaps'[x])
        /\ g \in Live1(bimaps'[x])
    <3>1. /\ \E l \in 1..Depth' : f \in envs'[l][x]
          /\ \E l \in 1..Depth' : g \in envs'[l][x]
      BY <2>1
    <3>2. f \in HostPtrs /\ g \in HostPtrs
      BY <2>2, EnvFacts
    <3> QED
      BY <3>1, <3>2, <1>10 DEF OwnersAreExact
  <2>4. SlotOf(x, f) < SlotOf(x, g)
    BY <2>1, <2>2 DEF EnvInv, OldestFirst
  <2> QED
    BY <2>3, <2>4, <1>7
<1>12. EnvInv'
  BY <1>2, <1>7, <1>8, <1>10, <1>11 DEF EnvInv, NoSpuriousHalt
<1> QED
  BY <1>2, <1>7, <1>12

LEMMA EnvInvIsInductive == EnvInv /\ [StructuredNext]_envVars => EnvInv'
<1> SUFFICES ASSUME EnvInv, [StructuredNext]_envVars
             PROVE  EnvInv'
  OBVIOUS
<1>1. CASE acc_push_data_environment
  BY <1>1, PushStep
<1>2. CASE acc_pop_data_environment
  BY <1>2, PopStep
<1>3. ASSUME NEW d \in Devices, NEW h \in HostPtrs, NEW n \in Sizes,
             ~Mapped(d, h), acc_create_(d, h, n)
      PROVE  EnvInv'
  BY <1>3, CreateStep
<1>4. CASE UNCHANGED envVars
  BY <1>4
  DEF envVars, EnvInv, TypeOK, NoSpuriousHalt, MapsAreSound, SlotsAreWritten,
      OwnersAreExact, OldestFirst, BuffersAreExclusive, NoBufferLeak, SlotOf, Depth
<1>5. ASSUME NEW d \in Devices, NEW h \in HostPtrs, NEW n \in Sizes,
             SizeAgrees(d, h, n), acc_present_or_create_(d, h, n)
      PROVE  EnvInv'
  <2>1. CASE acc_check_present(d, h, n)
    BY <1>4, <1>5, <2>1 DEF acc_present_or_create_
  <2>2. CASE ~acc_check_present(d, h, n)
    BY <1>5, <2>2, CreateStep DEF acc_present_or_create_, SizeAgrees
  <2> QED
    BY <2>1, <2>2
<1>6. ASSUME NEW d \in Devices, NEW h \in HostPtrs, NEW n \in Sizes,
             Newest(d, h), acc_check_present(d, h, n), acc_delete_(d, h, n)
      PROVE  EnvInv'
  BY <1>6, DeleteStep
<1> QED
  BY <1>1, <1>2, <1>3, <1>4, <1>5, <1>6 DEF StructuredNext

LEMMA AlwaysEnvInv == StructuredSpec => []EnvInv
BY EnvInvInitially, EnvInvIsInductive, PTL DEF StructuredSpec

(* The stack and the maps keep their types; in particular no map counts    *)
(* more allocations than it has slots.                                     *)
THEOREM DataEnvTypeOK == StructuredSpec => []TypeOK
<1>1. EnvInv => TypeOK
  BY DEF EnvInv
<1> QED
  BY <1>1, AlwaysEnvInv, PTL

(* Data constructs never reach an assertion of bimap_insert on a key that  *)
(* is there, nor the exit of acc_free_ on what is not a buffer.            *)
THEOREM StructuredNeverHaltsSpuriously == StructuredSpec => []NoSpuriousHalt
<1>1. EnvInv => NoSpuriousHalt
  BY DEF EnvInv
<1> QED
  BY <1>1, AlwaysEnvInv, PTL

(* What acc_pop_data_environment is about to look up is mapped.            *)
THEOREM EnvironmentsAlwaysHoldAllocations ==
  StructuredSpec => []EnvironmentsHoldAllocations
<1>1. EnvInv => EnvironmentsHoldAllocations
  BY EnvFacts DEF EnvironmentsHoldAllocations
<1> QED
  BY <1>1, AlwaysEnvInv, PTL

(* An allocation is released by one environment only.                      *)
THEOREM OwnerIsAlwaysUnique == StructuredSpec => []OneOwner
BY OwnersAreUnique, AlwaysEnvInv, PTL

(* The buffers of OpenCL are those of the allocations: leaving the         *)
(* environments leaks none, and none is released while it is mapped.       *)
THEOREM NoBufferEverLeaks == StructuredSpec => []NoBufferLeak
<1>1. EnvInv => NoBufferLeak
  BY DEF EnvInv
<1> QED
  BY <1>1, AlwaysEnvInv, PTL

-----------------------------------------------------------------------------
(* The refinement: the memory manager and the data environments of a       *)
(* structured program are the nested scopes of PresentTable.               *)
ScopeData == Table!Allocation \cup {None}

ScopeSet == [Devices -> [HostPtrs -> ScopeData]]

(* The scopes, place by place.                                             *)
ScopesMatch ==
  /\ Scopes \in Seq(ScopeSet)
  /\ Len(Scopes) = Depth
  /\ \A i \in 1..Depth, d \in Devices, h \in HostPtrs :
       Scopes[i][d][h] =
         IF h \in envs[i][d] THEN bimap_get_value_by_key_1(bimaps[d], h)
         ELSE None

LEMMA ScopesShape == EnvInv => ScopesMatch
<1> SUFFICES ASSUME EnvInv
             PROVE  ScopesMatch
  OBVIOUS
<1>1. Depth \in Nat \ {0}
  BY DepthAssumption DEF EnvInv, TypeOK
<1>2. ASSUME NEW i \in 1..Depth, NEW d \in Devices, NEW h \in HostPtrs
      PROVE  (IF h \in envs[i][d] THEN bimap_get_value_by_key_1(bimaps[d], h)
              ELSE None) \in ScopeData
  BY EnvFacts, AllocationOf DEF ScopeData, Table!Allocation
<1>3. Scopes \in [1..Depth -> ScopeSet]
  BY <1>2 DEF Scopes, ScopeSet
<1>4. Scopes \in Seq(ScopeSet) /\ Len(Scopes) = Depth
  BY <1>1, <1>3
<1> QED
  BY <1>4 DEF Scopes, ScopesMatch

LEMMA NextScopesShape == EnvInv' => ScopesMatch'
BY ScopesShape, PTL

(* A place holds an allocation exactly where the environment has the host  *)
(* pointer.                                                                *)
LEMMA ScopesHold ==
  ASSUME EnvInv, NEW i \in 1..Depth, NEW d \in Devices, NEW h \in HostPtrs
  PROVE  /\ Scopes[i][d][h] # None <=> h \in envs[i][d]
         /\ h \in envs[i][d] =>
              /\ h \in Live1(bimaps[d])
              /\ Scopes[i][d][h] = bimap_get_value_by_key_1(bimaps[d], h)
              /\ Scopes[i][d][h].k2 \in Live2(bimaps[d])
<1>1. h \in envs[i][d] => h \in Live1(bimaps[d])
  BY EnvFacts
<1> QED
  BY <1>1, ScopesShape, AllocationOf DEF ScopesMatch

(* Two sequences of scopes that agree in every place are equal.            *)
LEMMA ScopesEqual ==
  ASSUME NEW s \in Seq(ScopeSet), NEW t \in Seq(ScopeSet), Len(s) = Len(t),
         \A i \in 1..Len(s), d \in Devices, h \in HostPtrs : s[i][d][h] = t[i][d][h]
  PROVE  s = t
<1>1. ASSUME NEW i \in 1..Len(s)
      PROVE  s[i] = t[i]
  <2>1. s[i] \in ScopeSet /\ t[i] \in ScopeSet
    BY ElementOfSeq
  <2>2. \A d \in Devices : s[i][d] = t[i][d]
    BY <2>1 DEF ScopeSet
  <2> QED
    BY <2>1, <2>2 DEF ScopeSet
<1> QED
  BY <1>1, SeqEqual

(* The current scope with another content for h on d.                      *)
ScopesWith(s, d, h, a) == [s EXCEPT ![Len(s)][d][h] = a]

OnlyPlaceChanged(s, d, h, a, t) ==
  /\ t \in Seq(ScopeSet)
  /\ Len(t) = Len(s)
  /\ \A i \in 1..Len(s), e \in Devices, g \in HostPtrs :
       t[i][e][g] = IF i = Len(s) /\ e = d /\ g = h THEN a ELSE s[i][e][g]

LEMMA ScopesUpdated ==
  ASSUME NEW s \in Seq(ScopeSet), Len(s) \in Nat \ {0},
         NEW d \in Devices, NEW h \in HostPtrs,
         NEW a \in ScopeData,
         NEW t, t = ScopesWith(s, d, h, a)
  PROVE  OnlyPlaceChanged(s, d, h, a, t)
<1>1. PICK top : top = [s[Len(s)] EXCEPT ![d][h] = a]
  OBVIOUS
<1>2. Len(s) \in 1..Len(s) /\ s[Len(s)] \in ScopeSet
  BY ElementOfSeq
<1>3. /\ top \in ScopeSet
      /\ \A e \in Devices, g \in HostPtrs :
           top[e][g] = IF e = d /\ g = h THEN a ELSE s[Len(s)][e][g]
  BY <1>1, <1>2 DEF ScopeSet
<1>4. t = [s EXCEPT ![Len(s)] = top]
  BY <1>1 DEF ScopesWith
<1>5. /\ t \in Seq(ScopeSet)
      /\ Len(t) = Len(s)
      /\ \A i \in 1..Len(s) : t[i] = IF i = Len(s) THEN top ELSE s[i]
  BY <1>2, <1>3, <1>4, ExceptSeq
<1>6. ASSUME NEW i \in 1..Len(s), NEW e \in Devices, NEW g \in HostPtrs
      PROVE  t[i][e][g] = IF i = Len(s) /\ e = d /\ g = h THEN a ELSE s[i][e][g]
  <2>1. CASE i = Len(s)
    <3>1. t[i] = top
      BY <2>1, <1>5
    <3>2. top[e][g] = IF e = d /\ g = h THEN a ELSE s[Len(s)][e][g]
      BY <1>3
    <3> QED
      BY <2>1, <3>1, <3>2
  <2>2. CASE i # Len(s)
    BY <2>2, <1>5
  <2> QED
    BY <2>1, <2>2
<1> QED
  BY <1>5, <1>6 DEF OnlyPlaceChanged

LEMMA NoAllocationInScopeSet ==
  /\ Table!NoAllocation \in ScopeSet
  /\ \A d \in Devices, h \in HostPtrs : Table!NoAllocation[d][h] = None
BY DEF Table!NoAllocation, ScopeSet, ScopeData

LEMMA NextEnvironmentsHold ==
  EnvInv' => EnvironmentsHoldAllocations' /\ TypeOK'
<1>1. EnvInv => EnvironmentsHoldAllocations /\ TypeOK
  BY EnvFacts DEF EnvironmentsHoldAllocations, EnvInv
<1> QED
  BY <1>1, PTL

(* A place of a scope after a step that keeps the allocations that stay.   *)
LEMMA ScopesFollow ==
  ASSUME EnvInv, EnvInv', AllocationsKept,
         NEW i \in 1..Depth, i \in 1..Depth', NEW d \in Devices, NEW h \in HostPtrs
  PROVE  /\ h \in envs[i][d] /\ h \in envs'[i][d] =>
              Scopes'[i][d][h] = Scopes[i][d][h]
         /\ h \notin envs[i][d] => Scopes[i][d][h] = None
         /\ h \in envs'[i][d] =>
              Scopes'[i][d][h] = bimap_get_value_by_key_1(bimaps'[d], h)
         /\ h \notin envs'[i][d] => Scopes'[i][d][h] = None
<1>1. Scopes[i][d][h] =
        IF h \in envs[i][d] THEN bimap_get_value_by_key_1(bimaps[d], h) ELSE None
  BY ScopesShape DEF ScopesMatch
<1>2. Scopes'[i][d][h] =
        IF h \in envs'[i][d] THEN bimap_get_value_by_key_1(bimaps'[d], h) ELSE None
  BY NextScopesShape DEF ScopesMatch
<1>3. /\ h \in envs[i][d] => h \in Live1(bimaps[d])
      /\ h \in envs'[i][d] => h \in Live1(bimaps'[d])
  BY NextEnvironmentsHold, EnvFacts DEF EnvironmentsHoldAllocations
<1> QED
  BY <1>1, <1>2, <1>3 DEF AllocationsKept

-----------------------------------------------------------------------------
LEMMA PushRefines ==
  ASSUME EnvInv, EnvInv', acc_push_data_environment
  PROVE  Table!Enter
<1>1. PICK t : t = Append(Scopes, Table!NoAllocation)
  OBVIOUS
<1>2. /\ t \in Seq(ScopeSet)
      /\ Len(t) = Depth + 1
      /\ \A i \in 1..Depth : t[i] = Scopes[i]
      /\ t[Depth + 1] = Table!NoAllocation
  BY <1>1, ScopesShape, NoAllocationInScopeSet, AppendProperties DEF ScopesMatch
<1>3. /\ Depth \in Nat \ {0}
      /\ Depth' = Depth + 1
      /\ \A i \in 1..Depth : envs'[i] = envs[i]
      /\ \A e \in Devices : envs'[Depth + 1][e] = {}
      /\ bimaps' = bimaps
  BY PushedEnvs, DepthAssumption
  DEF EnvInv, TypeOK, acc_push_data_environment, Depth
<1>4. /\ Scopes' \in Seq(ScopeSet)
      /\ Len(Scopes') = Depth'
      /\ \A i \in 1..Depth', d \in Devices, h \in HostPtrs :
           Scopes'[i][d][h] =
             IF h \in envs'[i][d] THEN bimap_get_value_by_key_1(bimaps'[d], h)
             ELSE None
  BY NextScopesShape DEF ScopesMatch
<1>5. ASSUME NEW i \in 1..(Depth + 1), NEW d \in Devices, NEW h \in HostPtrs
      PROVE  Scopes'[i][d][h] = t[i][d][h]
  <2>1. CASE i = Depth + 1
    BY <2>1, <1>2, <1>3, <1>4, NoAllocationInScopeSet
  <2>2. CASE i \in 1..Depth
    BY <2>2, <1>2, <1>3, <1>4, ScopesShape DEF ScopesMatch
  <2> QED
    BY <2>1, <2>2, <1>3
<1>6. Scopes' = t
  BY <1>2, <1>3, <1>4, <1>5, ScopesEqual
<1> QED
  BY <1>1, <1>6 DEF Table!Enter

LEMMA AllocatesRefines ==
  ASSUME EnvInv, EnvInv', AllocationsKept,
         NEW d \in Devices, NEW h \in HostPtrs, NEW n \in Sizes, NEW b \in DevPtrs,
         ~Mapped(d, h), Allocates(d, h, b, n)
  PROVE  Table!Allocate(d, h, b, n)
<1>11. PICK a : a = [k1 |-> h, k2 |-> b, data |-> n]
  OBVIOUS
<1>12. PICK s : s = Scopes
  OBVIOUS
<1>1. PICK t : t = ScopesWith(s, d, h, a)
  OBVIOUS
<1>2. ScopesMatch /\ ScopesMatch' /\ Depth \in Nat \ {0}
  BY ScopesShape, NextScopesShape, EnvFacts
<1>3. /\ t \in Seq(ScopeSet)
      /\ Len(t) = Depth
      /\ \A i \in 1..Depth, e \in Devices, g \in HostPtrs :
           t[i][e][g] = IF i = Depth /\ e = d /\ g = h THEN a ELSE Scopes[i][e][g]
  <2>1. a \in ScopeData
    BY <1>11 DEF ScopeData, Table!Allocation
  <2>2. s \in Seq(ScopeSet) /\ Len(s) = Depth /\ Len(s) \in Nat \ {0}
    BY <1>2, <1>12 DEF ScopesMatch
  <2>3. OnlyPlaceChanged(s, d, h, a, t)
    BY <2>1, <2>2, <1>1, ScopesUpdated
  <2> QED
    BY <2>2, <2>3, <1>12 DEF OnlyPlaceChanged
<1>4. /\ Len(envs') = Depth
      /\ \A i \in 1..Depth, e \in Devices :
           envs'[i][e] = IF i = Depth /\ e = d THEN envs[Depth][d] \cup {h}
                         ELSE envs[i][e]
  <2>1. PICK H : H = envs[Depth][d] \cup {h}
    OBVIOUS
  <2>2. H \in SUBSET HostPtrs /\ envs' = EnvUpdate(d, H) /\ TypeOK
    BY <2>1, EnvFacts, <1>2 DEF HostSets, Allocates, EnvWith, EnvInv
  <2> QED
    BY <2>1, <2>2, UpdatedEnvs
<1>5. Depth' = Depth
  BY <1>4 DEF Depth
<1>6. \A i \in 1..Depth : h \notin envs[i][d]
  BY EnvFacts DEF Mapped
<1>7. ASSUME NEW i \in 1..Depth, NEW e \in Devices, NEW g \in HostPtrs
      PROVE  Scopes'[i][e][g] = t[i][e][g]
  <2>1. CASE i = Depth /\ e = d /\ g = h
    BY <2>1, <1>3, <1>4, <1>5, <1>11, ScopesFollow DEF Allocates
  <2>2. CASE ~(i = Depth /\ e = d /\ g = h)
    <3>1. g \in envs'[i][e] <=> g \in envs[i][e]
      BY <2>2, <1>4
    <3> QED
      BY <3>1, <2>2, <1>3, <1>5, ScopesFollow
  <2> QED
    BY <2>1, <2>2
<1>8. Scopes' = t
  BY <1>2, <1>3, <1>5, <1>7, ScopesEqual DEF ScopesMatch
<1>9. Table!Holders(d, h) = {}
  BY <1>2, <1>6, ScopesHold DEF Table!Holders, ScopesMatch
<1>10. ~Table!InUse(b)
  <2>1. SUFFICES ASSUME NEW i \in 1..Depth, NEW e \in Devices, NEW g \in HostPtrs,
                        Scopes[i][e][g] # None, Scopes[i][e][g].k2 = b
                 PROVE  FALSE
    BY <1>2 DEF Table!InUse, ScopesMatch
  <2>2. b \in Live2(bimaps[e])
    BY <2>1, ScopesHold
  <2> QED
    BY <2>2, EnvFacts DEF Allocates
<1> QED
  BY <1>1, <1>8, <1>9, <1>10, <1>11, <1>12 DEF Table!Allocate, ScopesWith

LEMMA DeleteRefines ==
  ASSUME EnvInv, EnvInv', AllocationsKept,
         NEW d \in Devices, NEW h \in HostPtrs, envs' = EnvWithout(d, h)
  PROVE  Table!Deallocate(d, h)
<1>12. PICK s : s = Scopes
  OBVIOUS
<1>13. PICK a : a = None
  OBVIOUS
<1>1. PICK t : t = ScopesWith(s, d, h, a)
  OBVIOUS
<1>2. ScopesMatch /\ ScopesMatch' /\ Depth \in Nat \ {0}
  BY ScopesShape, NextScopesShape, EnvFacts
<1>3. /\ t \in Seq(ScopeSet)
      /\ Len(t) = Depth
      /\ \A i \in 1..Depth, e \in Devices, g \in HostPtrs :
           t[i][e][g] = IF i = Depth /\ e = d /\ g = h THEN None
                        ELSE Scopes[i][e][g]
  <2>1. a \in ScopeData
    BY <1>13 DEF ScopeData
  <2>2. s \in Seq(ScopeSet) /\ Len(s) = Depth /\ Len(s) \in Nat \ {0}
    BY <1>2, <1>12 DEF ScopesMatch
  <2>3. OnlyPlaceChanged(s, d, h, a, t)
    BY <2>1, <2>2, <1>1, ScopesUpdated
  <2> QED
    BY <2>2, <2>3, <1>12, <1>13 DEF OnlyPlaceChanged
<1>4. /\ Len(envs') = Depth
      /\ \A i \in 1..Depth, e \in Devices :
           envs'[i][e] = IF i = Depth /\ e = d THEN envs[Depth][d] \ {h}
                         ELSE envs[i][e]
  <2>1. PICK H : H = envs[Depth][d] \ {h}
    OBVIOUS
  <2>2. H \in SUBSET HostPtrs /\ envs' = EnvUpdate(d, H) /\ TypeOK
    BY <2>1, EnvFacts, <1>2 DEF HostSets, EnvWithout, EnvInv
  <2> QED
    BY <2>1, <2>2, UpdatedEnvs
<1>5. Depth' = Depth
  BY <1>4 DEF Depth
<1>6. ASSUME NEW i \in 1..Depth, NEW e \in Devices, NEW g \in HostPtrs
      PROVE  Scopes'[i][e][g] = t[i][e][g]
  <2>1. CASE i = Depth /\ e = d /\ g = h
    BY <2>1, <1>3, <1>4, <1>5, ScopesFollow
  <2>2. CASE ~(i = Depth /\ e = d /\ g = h)
    <3>1. g \in envs'[i][e] <=> g \in envs[i][e]
      BY <2>2, <1>4
    <3> QED
      BY <3>1, <2>2, <1>3, <1>5, ScopesFollow
  <2> QED
    BY <2>1, <2>2
<1>7. Scopes' = t
  BY <1>2, <1>3, <1>5, <1>6, ScopesEqual DEF ScopesMatch
<1> QED
  BY <1>1, <1>7, <1>12, <1>13 DEF Table!Deallocate, ScopesWith

LEMMA PopRefines ==
  ASSUME EnvInv, EnvInv', AllocationsKept,
         envs' = IF Depth > 1 THEN SubSeq(envs, 1, Depth - 1) ELSE <<NoHostPtrs>>
  PROVE  Table!Leave
<1>1. PICK t : t = IF Depth > 1 THEN SubSeq(Scopes, 1, Depth - 1)
                   ELSE <<Table!NoAllocation>>
  OBVIOUS
<1>2. ScopesMatch /\ ScopesMatch' /\ Depth \in Nat \ {0}
  BY ScopesShape, NextScopesShape, DepthAssumption DEF EnvInv, TypeOK
<1>3. /\ Depth > 1 => /\ Len(envs') = Depth - 1
                      /\ \A i \in 1..(Depth - 1) : envs'[i] = envs[i]
      /\ Depth = 1 => /\ Len(envs') = 1
                      /\ \A e \in Devices : envs'[1][e] = {}
  BY PoppedEnvs DEF EnvInv
<1>4. CASE Depth > 1
  <2>1. /\ 1 \in 1..(Len(Scopes) + 1)
        /\ Depth - 1 \in 0..Len(Scopes)
        /\ t = SubSeq(Scopes, 1, Depth - 1)
        /\ \A i \in 1..(Depth - 1) : Scopes[i] \in ScopeSet
    BY <1>1, <1>2, <1>4, ElementOfSeq DEF ScopesMatch
  <2>2. /\ t \in Seq(ScopeSet)
        /\ Len(t) = Depth - 1
        /\ \A i \in 1..((Depth - 1) - 1 + 1) : t[i] = Scopes[1 + i - 1]
    BY <1>2, <1>4, <2>1, SubSeqProperties
  <2>3. Depth' = Depth - 1
    BY <1>3, <1>4 DEF Depth
  <2>4. ASSUME NEW i \in 1..(Depth - 1), NEW d \in Devices, NEW h \in HostPtrs
        PROVE  Scopes'[i][d][h] = t[i][d][h]
    <3>1. envs'[i] = envs[i] /\ i \in 1..Depth /\ i \in 1..Depth'
      BY <1>2, <1>3, <1>4, <2>3
    <3>2. t[i] = Scopes[i]
      BY <2>2, <1>2
    <3> QED
      BY <3>1, <3>2, ScopesFollow
  <2>5. Scopes' = t
    BY <1>2, <2>2, <2>3, <2>4, ScopesEqual DEF ScopesMatch
  <2> QED
    BY <1>1, <1>2, <1>4, <2>5 DEF Table!Leave, ScopesMatch
<1>5. CASE Depth = 1
  <2>1. t = <<Table!NoAllocation>> /\ t \in Seq(ScopeSet) /\ Len(t) = 1
    BY <1>1, <1>5, NoAllocationInScopeSet
  <2>2. Depth' = 1
    BY <1>3, <1>5 DEF Depth
  <2>3. ASSUME NEW i \in 1..1, NEW d \in Devices, NEW h \in HostPtrs
        PROVE  Scopes'[i][d][h] = t[i][d][h]
    <3>1. i = 1 /\ envs'[1][d] = {} /\ i \in 1..Depth /\ i \in 1..Depth'
      BY <1>3, <1>5, <2>2
    <3>2. Scopes'[1][d][h] = None
      BY <3>1, ScopesFollow
    <3>3. t[1][d][h] = None
      BY <2>1, NoAllocationInScopeSet
    <3> QED
      BY <3>1, <3>2, <3>3
  <2>4. Scopes' = t
    <3>1. Scopes' \in Seq(ScopeSet) /\ Len(Scopes') = 1
      BY <1>2, <2>2 DEF ScopesMatch
    <3>2. \A i \in 1..Len(Scopes'), d \in Devices, h \in HostPtrs :
            Scopes'[i][d][h] = t[i][d][h]
      BY <3>1, <2>3
    <3> QED
      BY <3>1, <3>2, <2>1, ScopesEqual
  <2> QED
    BY <1>1, <1>2, <1>5, <2>4 DEF Table!Leave, ScopesMatch
<1> QED
  BY <1>2, <1>4, <1>5

LEMMA InitRefines == Init => Table!ScopesInit
<1> SUFFICES ASSUME Init
             PROVE  Table!ScopesInit
  OBVIOUS
<1>1. PICK t : t = <<Table!NoAllocation>>
  OBVIOUS
<1>2. t \in Seq(ScopeSet) /\ Len(t) = 1
  BY <1>1, NoAllocationInScopeSet
<1>3. ScopesMatch /\ Depth = 1 /\ \A d \in Devices : envs[1][d] = {}
  BY EnvInvInitially, ScopesShape DEF Init, Depth, NoHostPtrs
<1>4. \A i \in 1..1, d \in Devices, h \in HostPtrs : Scopes[i][d][h] = t[i][d][h]
  <2>1. \A d \in Devices, h \in HostPtrs : Scopes[1][d][h] = None
    BY <1>3 DEF ScopesMatch
  <2>2. \A d \in Devices, h \in HostPtrs : t[1][d][h] = None
    BY <1>1, NoAllocationInScopeSet
  <2> QED
    BY <2>1, <2>2
<1>5. Scopes = t
  BY <1>2, <1>3, <1>4, ScopesEqual DEF ScopesMatch
<1> QED
  BY <1>1, <1>5 DEF Table!ScopesInit

(* Every call of a structured program is a step of the nested scopes, or   *)
(* leaves them alone: a host pointer has one allocation per device,        *)
(* whatever the environment it was made in, and leaving an environment     *)
(* ends its allocations and no others.                                     *)
THEOREM DataEnvImplementsPresentTable == StructuredSpec => ImplementsPresentTable
<1>1. Init => Table!ScopesInit
  BY InitRefines
<1>2. EnvInv /\ EnvInv' /\ [StructuredNext]_envVars =>
        [Table!ScopesNext]_Scopes
  <2> SUFFICES ASSUME EnvInv, EnvInv', [StructuredNext]_envVars
               PROVE  Table!ScopesNext \/ UNCHANGED Scopes
    OBVIOUS
  <2>1. UNCHANGED <<envs, bimaps>> => UNCHANGED Scopes
    BY DEF Scopes, Depth
  <2>2. CASE acc_push_data_environment
    BY <2>2, PushRefines DEF Table!ScopesNext
  <2>3. CASE acc_pop_data_environment
    BY <2>3, PopStep, PopRefines DEF Table!ScopesNext
  <2>4. ASSUME NEW d \in Devices, NEW h \in HostPtrs, NEW n \in Sizes,
               ~Mapped(d, h), acc_create_(d, h, n)
        PROVE  Table!ScopesNext \/ UNCHANGED Scopes
    BY <2>1, <2>4, CreateStep, AllocatesRefines DEF Table!ScopesNext
  <2>5. ASSUME NEW d \in Devices, NEW h \in HostPtrs, NEW n \in Sizes,
               SizeAgrees(d, h, n), acc_present_or_create_(d, h, n)
        PROVE  Table!ScopesNext \/ UNCHANGED Scopes
    <3>1. CASE acc_check_present(d, h, n)
      BY <2>1, <2>5, <3>1 DEF acc_present_or_create_, envVars
    <3>2. CASE ~acc_check_present(d, h, n)
      BY <2>4, <2>5, <3>2 DEF acc_present_or_create_, SizeAgrees
    <3> QED
      BY <3>1, <3>2
  <2>6. ASSUME NEW d \in Devices, NEW h \in HostPtrs, NEW n \in Sizes,
               Newest(d, h), acc_check_present(d, h, n), acc_delete_(d, h, n)
        PROVE  Table!ScopesNext
    BY <2>6, DeleteStep, DeleteRefines DEF Table!ScopesNext
  <2>7. CASE UNCHANGED envVars
    BY <2>1, <2>7 DEF envVars
  <2> QED
    BY <2>2, <2>3, <2>4, <2>5, <2>6, <2>7 DEF StructuredNext
<1> QED
  BY <1>1, <1>2, AlwaysEnvInv, PTL
  DEF StructuredSpec, ImplementsPresentTable, Table!ScopesSpec

-----------------------------------------------------------------------------
(* Where a program has waited for the device of an array, no transfer is   *)
(* under way of it before the next call.  Of the environments              *)
(* that needs no more than which arrays they hold; it needs that a device  *)
(* only has commands of the arrays distributed to it.                      *)

(* What the queue of d may hold: a command of an array of the device, in   *)
(* use if it is a transfer.                                                *)
Fits(c, d) ==
  /\ c.h \in HostPtrs
  /\ Owner[c.h] = d
  /\ c.op # "kernel" => c.h \in inUse

QueuesAreSequences == \E S : queues \in [Devices -> Seq(S)]

QueuesInv ==
  /\ QueuesAreSequences
  /\ \A d \in Devices : \A i \in 1..Len(queues[d]) : Fits(queues[d][i], d)

-----------------------------------------------------------------------------
LEMMA InitQueuesInv == TransfersInit => QueuesInv
<1> SUFFICES ASSUME TransfersInit PROVE QueuesInv
  OBVIOUS
<1>1. queues = [d \in Devices |-> <<>>]
  BY DEF TransfersInit
<1>2. queues \in [Devices -> Seq({})]
  BY <1>1
<1> QED
  BY <1>1, <1>2 DEF QueuesInv, QueuesAreSequences

(* Nothing is queued or carried out, and what is no longer in use is of a  *)
(* device that has nothing to do.                                          *)
LEMMA QueuesKept ==
  ASSUME QueuesInv, UNCHANGED queues,
         \A h \in HostPtrs : h \in inUse /\ h \notin inUse' => queues[Owner[h]] = <<>>
  PROVE  QueuesInv'
<1>1. QueuesAreSequences'
  BY DEF QueuesInv, QueuesAreSequences
<1>2. ASSUME NEW d \in Devices, NEW i \in 1..Len(queues[d])
      PROVE  queues[d][i].op # "kernel" => queues[d][i].h \in inUse'
  <2>1. Fits(queues[d][i], d)
    BY DEF QueuesInv
  <2>2. queues[d] # <<>>
    OBVIOUS
  <2> QED
    BY <2>1, <2>2 DEF Fits
<1> QED
  BY <1>1, <1>2 DEF QueuesInv, Fits

LEMMA CommandQueued ==
  ASSUME QueuesInv, NEW d \in Devices, NEW h \in HostPtrs, NEW op, NEW b,
         Enqueue(d, op, b, h), Owner[h] = d,
         inUse \subseteq inUse', op # "kernel" => h \in inUse'
  PROVE  QueuesInv'
<1> DEFINE c == [op |-> op, b |-> b, h |-> h]
<1>1. PICK S : queues \in [Devices -> Seq(S)]
  BY DEF QueuesInv, QueuesAreSequences
<1>2. queues' = [queues EXCEPT ![d] = Append(@, c)]
  BY DEF Enqueue
<1>c. c.h = h /\ c.op = op
  OBVIOUS
<1> HIDE DEF c
<1> DEFINE T == S \cup {c}
<1>3. \A e \in Devices : queues[e] \in Seq(T)
  <2>1. ASSUME NEW e \in Devices PROVE queues[e] \in Seq(T)
    BY <1>1
  <2> QED
    BY <2>1
<1>4. c \in T
  OBVIOUS
<1> HIDE DEF T
<1>5. queues' \in [Devices -> Seq(T)]
  BY <1>1, <1>2, <1>3, <1>4
<1>6. ASSUME NEW e \in Devices, NEW i \in 1..Len(queues'[e])
      PROVE  LET o == queues'[e][i]
             IN  o.h \in HostPtrs /\ Owner[o.h] = e /\ (o.op # "kernel" => o.h \in inUse')
  <2>1. CASE e # d \/ i <= Len(queues[e])
    <3>1. i \in 1..Len(queues[e]) /\ queues'[e][i] = queues[e][i]
      BY <1>1, <1>2, <1>3, <1>4, <2>1
    <3>2. Fits(queues[e][i], e)
      BY <3>1 DEF QueuesInv
    <3> QED
      BY <3>1, <3>2 DEF Fits
  <2>2. CASE e = d /\ ~(i <= Len(queues[e]))
    <3>1. queues'[e][i] = c
      BY <1>1, <1>2, <1>3, <1>4, <2>2
    <3> QED
      BY <1>c, <2>2, <3>1 DEF Fits
  <2> QED
    BY <2>1, <2>2
<1>7. QueuesAreSequences'
  BY <1>5 DEF QueuesAreSequences
<1> QED
  BY <1>6, <1>7 DEF QueuesInv, Fits

(* A device carries out its oldest command.                                *)
LEMMA CommandDone ==
  ASSUME QueuesInv, NEW d \in Devices, Execute(d)
  PROVE  QueuesInv'
<1>1. PICK S : queues \in [Devices -> Seq(S)]
  BY DEF QueuesInv, QueuesAreSequences
<1>2. queues' = [queues EXCEPT ![d] = Tail(@)] /\ queues[d] # <<>> /\ inUse' = inUse
  BY DEF Execute
<1>3. queues' \in [Devices -> Seq(S)]
  BY <1>1, <1>2
<1>4. ASSUME NEW e \in Devices, NEW i \in 1..Len(queues'[e])
      PROVE  \E j \in 1..Len(queues[e]) : queues'[e][i] = queues[e][j]
  <2>1. CASE e = d
    <3>1. i + 1 \in 1..Len(queues[e]) /\ queues'[e][i] = queues[e][i + 1]
      BY <1>1, <1>2, <2>1
    <3> QED
      BY <3>1
  <2>2. CASE e # d
    BY <1>1, <1>2, <2>2
  <2> QED
    BY <2>1, <2>2
<1>5. ASSUME NEW e \in Devices, NEW i \in 1..Len(queues'[e])
      PROVE  LET o == queues'[e][i]
             IN  o.h \in HostPtrs /\ Owner[o.h] = e /\ (o.op # "kernel" => o.h \in inUse')
  <2>1. PICK j \in 1..Len(queues[e]) : queues'[e][i] = queues[e][j]
    BY <1>4
  <2>2. Fits(queues[e][j], e)
    BY DEF QueuesInv
  <2> QED
    BY <1>2, <2>1, <2>2 DEF Fits
<1>6. QueuesAreSequences'
  BY <1>3 DEF QueuesAreSequences
<1> QED
  BY <1>5, <1>6 DEF QueuesInv, Fits

-----------------------------------------------------------------------------
(* A call on the device an array is distributed to queues one command of   *)
(* the array, or none.                                                     *)
LEMMA CallQueues ==
  ASSUME NEW d \in Devices, NEW h \in HostPtrs, NEW n \in Sizes, Call(d, h, n)
  PROVE  \/ UNCHANGED <<queues, inUse>>
         \/ /\ \E op, b : Enqueue(d, op, b, h) /\ (op # "kernel" => h \in inUse')
            /\ inUse \subseteq inUse'
<1> DEFINE Goal == \/ UNCHANGED <<queues, inUse>>
                   \/ /\ \E op, b : Enqueue(d, op, b, h) /\ (op # "kernel" => h \in inUse')
                      /\ inUse \subseteq inUse'
<1>w. ASSUME NEW b, acc_memcpy_to_device_(d, b, h) PROVE Goal
  BY <1>w DEF acc_memcpy_to_device_
<1>r. ASSUME NEW b, acc_memcpy_from_device_(d, b, h) PROVE Goal
  BY <1>r DEF acc_memcpy_from_device_
<1>1. CASE Create(d, h, n)
  BY <1>1 DEF Create
<1>2. acc_copyin_(d, h, n) => Goal
  BY <1>w DEF acc_copyin_
<1>3. acc_present_or_copyin_(d, h, n) => Goal
  BY <1>2 DEF acc_present_or_copyin_, vars, transferVars
<1>4. acc_copyout_(d, h, n) \/ acc_update_self_(d, h, n) => Goal
  BY <1>r DEF acc_copyout_, acc_update_self_, OnPresent, transferVars
<1>5. acc_present_or_copyout_(d, h, n) => Goal
  BY <1>4 DEF acc_present_or_copyout_, vars, transferVars
<1>6. acc_update_device_(d, h, n) => Goal
  BY <1>w DEF acc_update_device_, OnPresent, transferVars
<1>7. acc_enqueue_kernel(d, h) => Goal
  BY DEF acc_enqueue_kernel, transferVars
<1>8. CASE Delete(d, h, n)
  BY <1>8 DEF Delete, transferVars
<1> QED
  BY <1>1, <1>2, <1>3, <1>4, <1>5, <1>6, <1>7, <1>8 DEF Call

LEMMA NextQueuesInv ==
  QueuesInv /\ [TransfersNext]_vars => QueuesInv'
<1> SUFFICES ASSUME QueuesInv, [TransfersNext]_vars
             PROVE  QueuesInv'
  OBVIOUS
<1>1. CASE UNCHANGED <<queues, inUse>>
  BY <1>1, QueuesKept
<1>2. ASSUME NEW d \in Devices, NEW h \in HostPtrs, NEW n \in Sizes, Call(d, h, n)
      PROVE  QueuesInv'
  <2>1. Owner[h] = d
    BY <1>2 DEF Call
  <2> QED
    BY <1>1, <1>2, <2>1, CallQueues, CommandQueued
<1>3. ASSUME NEW R \in SUBSET Devices, acc_region_start(R)
      PROVE  QueuesInv'
  <2>1. \A h \in HostPtrs : h \in inUse /\ h \notin inUse' => queues[Owner[h]] = <<>>
    BY <1>3, OwnerAssumption DEF acc_region_start, Finished, Waited
  <2>2. UNCHANGED queues
    BY <1>3 DEF acc_region_start
  <2> QED
    BY <2>1, <2>2, QueuesKept
<1>4. ASSUME NEW d \in Devices, Execute(d)
      PROVE  QueuesInv'
  BY <1>4, CommandDone
<1>5. CASE Pop
  <2>1. queues[current] = <<>> /\ UNCHANGED queues
    BY <1>5 DEF Pop, Finished
  <2>2. ASSUME NEW h \in HostPtrs, h \in inUse, h \notin inUse'
        PROVE  Owner[h] = current
    BY <1>5, <2>2 DEF Pop, Waited
  <2> QED
    BY <2>1, <2>2, QueuesKept
<1>6. CASE Push \/ \E d \in Devices : acc_set_device_num(d)
  BY <1>1, <1>6 DEF Push, transferVars, acc_set_device_num
<1>7. CASE \E h \in HostPtrs, v \in Contents : HostWrite(h, v)
  BY <1>1, <1>7 DEF HostWrite
<1>8. CASE UNCHANGED vars
  BY <1>1, <1>8 DEF vars, transferVars
<1> QED
  BY <1>2, <1>3, <1>4, <1>5, <1>6, <1>7, <1>8 DEF TransfersNext, acc_region_stop

(* When a region on its device, or the end of a data construct while its   *)
(* device is the current one, has given an array back, no transfer still   *)
(* to come reads or writes it, whatever the program does on other devices  *)
(* (private/region.c, private/data-env.c:26).                              *)
THEOREM HostAlwaysOwnsItsMemory == TransfersSpec => []HostOwnsItsMemory
<1>1. QueuesInv => HostOwnsItsMemory
  BY DEF QueuesInv, Fits, HostOwnsItsMemory
<1> QED
  BY <1>1, InitQueuesInv, NextQueuesInv, PTL DEF TransfersSpec

-----------------------------------------------------------------------------
(* The commands of a queue, carried out one after the other.  A store is   *)
(* what the buffers and the arrays of the host contain.                    *)
Values == Contents \cup {Junk}

Store == [memory : [DevPtrs -> Values], host : [HostPtrs -> Values]]

Command == [op : {"write", "read", "kernel"}, b : DevPtrs, h : HostPtrs]

LEMMA ComputeValue == ASSUME NEW v \in Values PROVE Compute(v) \in Values
<1>1. CASE v = Junk
  BY <1>1 DEF Compute, Values
<1>2. CASE v # Junk
  <2>1. v \in Nat /\ NumValues \in Nat /\ NumValues > 0
    BY <1>2, NumValuesAssumption DEF Values, Contents
  <2>2. (v + 1) % NumValues \in 0..(NumValues - 1)
    BY <2>1
  <2> QED  BY <1>2, <2>2 DEF Compute, Values, Contents
<1> QED  BY <1>1, <1>2

(* A store with other content in one buffer or in one array.               *)
WithBuffer(s, b, v) == [s EXCEPT !.memory[b] = v]
WithArray(s, h, v) == [s EXCEPT !.host[h] = v]

BufferDiffers(t, s, b, v) ==
  /\ t \in Store /\ t.host = s.host /\ t.memory[b] = v
  /\ \A c \in DevPtrs : c # b => t.memory[c] = s.memory[c]

ArrayDiffers(t, s, h, v) ==
  /\ t \in Store /\ t.memory = s.memory /\ t.host[h] = v
  /\ \A g \in HostPtrs : g # h => t.host[g] = s.host[g]

LEMMA BufferChanged ==
  ASSUME NEW s \in Store, NEW b \in DevPtrs, NEW v \in Values,
         NEW t, t = WithBuffer(s, b, v)
  PROVE  BufferDiffers(t, s, b, v)
BY DEF WithBuffer, Store, BufferDiffers

LEMMA ArrayChanged ==
  ASSUME NEW s \in Store, NEW h \in HostPtrs, NEW v \in Values,
         NEW t, t = WithArray(s, h, v)
  PROVE  ArrayDiffers(t, s, h, v)
BY DEF WithArray, Store, ArrayDiffers

(* Stores with the same contents are the same.                             *)
LEMMA StoresEqual ==
  ASSUME NEW s \in Store, NEW t \in Store,
         \A b \in DevPtrs : s.memory[b] = t.memory[b],
         \A h \in HostPtrs : s.host[h] = t.host[h]
  PROVE  s = t
BY DEF Store

(* What a command makes of a store: it changes one buffer or one array.    *)
LEMMA Performed ==
  ASSUME NEW s \in Store, NEW c \in Command
  PROVE  /\ c.op = "write" => Perform(s, c) = WithBuffer(s, c.b, s.host[c.h])
         /\ c.op = "read" => Perform(s, c) = WithArray(s, c.h, s.memory[c.b])
         /\ c.op = "kernel" => Perform(s, c) = WithBuffer(s, c.b, Compute(s.memory[c.b]))
         /\ Perform(s, c) \in Store
         /\ c.op \in {"write", "read", "kernel"} /\ c.b \in DevPtrs /\ c.h \in HostPtrs
         /\ s.memory[c.b] \in Values /\ s.host[c.h] \in Values
         /\ Compute(s.memory[c.b]) \in Values
<1>1. /\ c.op \in {"write", "read", "kernel"} /\ c.b \in DevPtrs /\ c.h \in HostPtrs
      /\ s.memory[c.b] \in Values /\ s.host[c.h] \in Values
  BY DEF Command, Store
<1>2. Compute(s.memory[c.b]) \in Values
  BY <1>1, ComputeValue
<1>3. /\ c.op = "write" => Perform(s, c) = WithBuffer(s, c.b, s.host[c.h])
      /\ c.op = "read" => Perform(s, c) = WithArray(s, c.h, s.memory[c.b])
      /\ c.op = "kernel" => Perform(s, c) = WithBuffer(s, c.b, Compute(s.memory[c.b]))
  BY <1>1 DEF Perform, WithBuffer, WithArray
<1>4. Perform(s, c) \in Store
  BY <1>1, <1>2, <1>3, BufferChanged, ArrayChanged DEF BufferDiffers, ArrayDiffers
<1> QED  BY <1>1, <1>2, <1>3, <1>4

LEMMA PerformsToStore ==
  ASSUME NEW s \in Store, NEW c \in Command PROVE Perform(s, c) \in Store
BY Performed

(* The stores a queue passes through.                                      *)
Course(f, s, q) ==
  /\ f \in [0..Len(q) -> Store]
  /\ f[0] = s
  /\ \A i \in 1..Len(q) : f[i] = Perform(f[i - 1], q[i])

Performing(f, s, q) ==
  [i \in 0..Len(q) |-> IF i = 0 THEN s ELSE Perform(f[i - 1], q[i])]

LEMMA CourseExists ==
  ASSUME NEW q \in Seq(Command), NEW s \in Store
  PROVE  \E f : Course(f, s, q) /\ f = Performing(f, s, q)
<1> DEFINE N == Len(q)
           V == Store
           own(n, v) == Perform(v, q[n])
           g == [n \in Nat |-> [v \in V |-> IF n \in 1..N THEN own(n, v) ELSE v]]
<1>1. N \in Nat /\ \A n \in 1..N, v \in V : own(n, v) \in V
  <2>1. \A n \in 1..N : q[n] \in Command
    OBVIOUS
  <2> QED  BY <2>1, PerformsToStore
<1>2. g \in [Nat -> [V -> V]]
  <2> HIDE DEF own, N, V
  <2> QED  BY <1>1
<1>3. ASSUME NEW n \in 1..N, NEW v \in V PROVE g[n][v] = own(n, v)
  <2> HIDE DEF own, V
  <2> QED  OBVIOUS
<1> HIDE DEF g, V, own, N
<1>4. s \in V
  BY DEF V
<1>5. PICK f : Iterates(f, V, s, g, N)
  BY <1>1, <1>2, <1>4, Recursion
<1>6. f \in [0..N -> V] /\ f[0] = s /\ \A n \in 1..N : f[n] = g[n][f[n - 1]]
  BY <1>5 DEF Iterates
<1>7. \A n \in 1..N : f[n] = own(n, f[n - 1])
  <2>1. \A n \in 1..N : f[n - 1] \in V
    BY <1>1, <1>6
  <2> QED  BY <1>3, <1>6, <2>1
<1>8. \A n \in 0..N : f[n] = IF n = 0 THEN s ELSE own(n, f[n - 1])
  BY <1>1, <1>6, <1>7
<1>9. f = [n \in 0..N |-> IF n = 0 THEN s ELSE own(n, f[n - 1])]
  BY <1>6, <1>8
<1> QED  BY <1>6, <1>7, <1>9 DEF Course, Performing, own, N, V

(* There is one course only, and the commands make of s where it ends.     *)
LEMMA CourseEnds ==
  ASSUME NEW q \in Seq(Command), NEW s \in Store, NEW f, Course(f, s, q)
  PROVE  PerformAll(s, q) = f[Len(q)] /\ PerformAll(s, q) \in Store
<1> DEFINE e == CHOOSE x : x = Performing(x, s, q)
<1>1. e = Performing(e, s, q)
  BY CourseExists
<1>2. PerformAll(s, q) = e[Len(q)]
  BY DEF PerformAll, Performing
<1> HIDE DEF e
<1>3. Len(q) \in Nat
  OBVIOUS
<1>4. e[0] = s /\ \A i \in 1..Len(q) : e[i] = Perform(e[i - 1], q[i])
  <2>1. \A i \in 0..Len(q) : e[i] = IF i = 0 THEN s ELSE Perform(e[i - 1], q[i])
    BY <1>1 DEF Performing
  <2>2. ASSUME NEW i \in 1..Len(q) PROVE i \in 0..Len(q) /\ i # 0
    BY <1>3
  <2> QED  BY <1>3, <2>1, <2>2
<1> DEFINE T == {i \in 0..Len(q) : e[i] = f[i]}
<1>5. 0 \in T
  BY <1>3, <1>4 DEF Course
<1>6. ASSUME NEW i \in 1..Len(q), i - 1 \in T PROVE i \in T
  <2>1. e[i - 1] = f[i - 1]
    BY <1>6
  <2>2. e[i] = f[i]
    BY <1>4, <2>1 DEF Course
  <2> QED  BY <1>3, <2>2
<1>7. \A i \in 0..Len(q) : i \in T
  <2> HIDE DEF T
  <2> QED  BY <1>3, <1>5, <1>6, SetInduction
<1>8. f[Len(q)] \in Store
  BY <1>3 DEF Course
<1> QED  BY <1>2, <1>3, <1>7, <1>8

LEMMA CourseOf ==
  ASSUME NEW q \in Seq(Command), NEW s \in Store
  PROVE  \E f : Course(f, s, q) /\ PerformAll(s, q) = f[Len(q)]
BY CourseExists, CourseEnds

LEMMA PerformAppended ==
  ASSUME NEW q \in Seq(Command), NEW s \in Store, NEW c \in Command,
         NEW r, r = Append(q, c)
  PROVE  PerformAll(s, r) = Perform(PerformAll(s, q), c)
<1>1. PICK f : Course(f, s, q) /\ PerformAll(s, q) = f[Len(q)]
  BY CourseOf
<1>2. /\ r \in Seq(Command) /\ Len(r) = Len(q) + 1 /\ Len(q) \in Nat
      /\ r[Len(q) + 1] = c /\ \A i \in 1..Len(q) : r[i] = q[i]
  OBVIOUS
<1>3. PICK end \in Store : end = f[Len(q)]
  BY <1>1, <1>2 DEF Course
<1>4. PICK last \in Store : last = Perform(end, c)
  BY PerformsToStore
<1> DEFINE g == [i \in 0..Len(r) |-> IF i = Len(r) THEN last ELSE f[i]]
<1>5. g \in [0..Len(r) -> Store] /\ g[0] = s /\ g[Len(r)] = last
  BY <1>1, <1>2, <1>4 DEF Course
<1>6. ASSUME NEW i \in 1..Len(r) PROVE g[i] = Perform(g[i - 1], r[i])
  <2>1. CASE i = Len(r)
    <3>1. i - 1 = Len(q) /\ i - 1 \in 0..Len(r) /\ i - 1 # Len(r)
      BY <1>2, <2>1
    <3>2. g[i - 1] = end /\ g[i] = last /\ r[i] = c
      BY <1>2, <1>3, <1>5, <2>1, <3>1
    <3> QED  BY <1>4, <3>2
  <2>2. CASE i # Len(r)
    <3>1. i \in 1..Len(q)
      BY <1>2, <2>2
    <3>2. f[i] = Perform(f[i - 1], q[i])
      BY <1>1, <3>1 DEF Course
    <3>3. g[i] = f[i] /\ g[i - 1] = f[i - 1] /\ r[i] = q[i]
      BY <1>2, <3>1
    <3> QED  BY <3>2, <3>3
  <2> QED  BY <2>1, <2>2
<1> HIDE DEF g
<1>7. Course(g, s, r)
  BY <1>5, <1>6 DEF Course
<1>8. PerformAll(s, r) = last
  BY <1>2, <1>5, <1>7, CourseEnds
<1> QED  BY <1>1, <1>3, <1>4, <1>8

LEMMA PerformFirst ==
  ASSUME NEW q \in Seq(Command), NEW s \in Store, q # <<>>
  PROVE  /\ Head(q) \in Command /\ Tail(q) \in Seq(Command)
         /\ PerformAll(Perform(s, Head(q)), Tail(q)) = PerformAll(s, q)
<1>1. PICK f : Course(f, s, q) /\ PerformAll(s, q) = f[Len(q)]
  BY CourseOf
<1>2. PICK r : r = Tail(q)
  OBVIOUS
<1>3. /\ r \in Seq(Command) /\ Len(q) \in Nat /\ Len(r) = Len(q) - 1 /\ Len(r) \in Nat
      /\ Len(q) > 0 /\ Head(q) = q[1] /\ q[1] \in Command
      /\ \A i \in 1..Len(r) : r[i] = q[i + 1]
  BY <1>2
<1> DEFINE g == [i \in 0..Len(r) |-> f[i + 1]]
<1>4. f[1] = Perform(s, Head(q)) /\ f[1] \in Store
  <2>1. 1 \in 1..Len(q) /\ 1 - 1 = 0 /\ 1 \in 0..Len(q)
    BY <1>3
  <2> QED  BY <1>1, <1>3, <2>1 DEF Course
<1>5. g \in [0..Len(r) -> Store]
  <2>1. \A i \in 0..Len(r) : i + 1 \in 0..Len(q)
    BY <1>3
  <2> QED  BY <1>1, <2>1 DEF Course
<1>6. g[0] = f[1] /\ g[Len(r)] = f[Len(q)]
  BY <1>3
<1>7. ASSUME NEW i \in 1..Len(r) PROVE g[i] = Perform(g[i - 1], r[i])
  <2>1. i + 1 \in 1..Len(q) /\ (i + 1) - 1 = i
    BY <1>3
  <2>2. f[i + 1] = Perform(f[i], q[i + 1])
    BY <1>1, <2>1 DEF Course
  <2>3. g[i] = f[i + 1] /\ g[i - 1] = f[i] /\ r[i] = q[i + 1]
    BY <1>3
  <2> QED  BY <2>2, <2>3
<1> HIDE DEF g
<1>8. Course(g, f[1], r)
  BY <1>5, <1>6, <1>7 DEF Course
<1>9. PerformAll(f[1], r) = f[Len(q)]
  BY <1>3, <1>4, <1>6, <1>8, CourseEnds
<1> QED  BY <1>1, <1>2, <1>3, <1>4, <1>9

(* A buffer that no command of the queue uses keeps apart whatever its     *)
(* content; so does an array that none of its transfers uses.              *)
LEMMA OtherBufferCommutes ==
  ASSUME NEW s \in Store, NEW c \in Command, NEW b \in DevPtrs, NEW v \in Values, c.b # b
  PROVE  Perform(WithBuffer(s, b, v), c) = WithBuffer(Perform(s, c), b, v)
<1>1. PICK t : t = WithBuffer(s, b, v)
  OBVIOUS
<1>2. /\ t \in Store /\ t.host = s.host /\ t.memory[b] = v
      /\ \A a \in DevPtrs : a # b => t.memory[a] = s.memory[a]
  BY <1>1, BufferChanged DEF BufferDiffers
<1>3. PICK p : p = Perform(s, c)
  OBVIOUS
<1>4. PICK u : u = Perform(t, c)
  OBVIOUS
<1>5. PICK w : w = WithBuffer(p, b, v)
  OBVIOUS
<1>6. p \in Store /\ u \in Store
  BY <1>2, <1>3, <1>4, Performed
<1>7. /\ w \in Store /\ w.host = p.host /\ w.memory[b] = v
      /\ \A a \in DevPtrs : a # b => w.memory[a] = p.memory[a]
  BY <1>5, <1>6, BufferChanged DEF BufferDiffers
<1>8. /\ c.op \in {"write", "read", "kernel"} /\ c.b \in DevPtrs /\ c.h \in HostPtrs
      /\ t.memory[c.b] = s.memory[c.b] /\ t.host[c.h] = s.host[c.h]
      /\ s.memory[c.b] \in Values /\ s.host[c.h] \in Values
      /\ Compute(s.memory[c.b]) \in Values
  BY <1>2, Performed
<1>9. CASE c.op \in {"write", "kernel"}
  <2>1. PICK x \in Values : p = WithBuffer(s, c.b, x) /\ u = WithBuffer(t, c.b, x)
    BY <1>2, <1>3, <1>4, <1>8, <1>9, Performed
  <2>2. /\ p.host = s.host /\ p.memory[c.b] = x
        /\ \A a \in DevPtrs : a # c.b => p.memory[a] = s.memory[a]
    <3>1. BufferDiffers(p, s, c.b, x)
      BY <1>8, <2>1, BufferChanged
    <3> QED  BY <3>1 DEF BufferDiffers
  <2>3. /\ u.host = t.host /\ u.memory[c.b] = x
        /\ \A a \in DevPtrs : a # c.b => u.memory[a] = t.memory[a]
    <3>1. BufferDiffers(u, t, c.b, x)
      BY <1>2, <1>8, <2>1, BufferChanged
    <3> QED  BY <3>1 DEF BufferDiffers
  <2>4. \A a \in DevPtrs : u.memory[a] = w.memory[a]
    BY <1>2, <1>7, <2>2, <2>3
  <2>5. u = w
    BY <1>2, <1>6, <1>7, <2>2, <2>3, <2>4, StoresEqual
  <2> QED  BY <1>1, <1>3, <1>4, <1>5, <2>5
<1>10. CASE c.op = "read"
  <2>1. PICK x \in Values : p = WithArray(s, c.h, x) /\ u = WithArray(t, c.h, x)
    BY <1>2, <1>3, <1>4, <1>8, <1>10, Performed
  <2>2. /\ p.memory = s.memory /\ p.host[c.h] = x
        /\ \A g \in HostPtrs : g # c.h => p.host[g] = s.host[g]
    <3>1. ArrayDiffers(p, s, c.h, x)
      BY <1>8, <2>1, ArrayChanged
    <3> QED  BY <3>1 DEF ArrayDiffers
  <2>3. /\ u.memory = t.memory /\ u.host[c.h] = x
        /\ \A g \in HostPtrs : g # c.h => u.host[g] = t.host[g]
    <3>1. ArrayDiffers(u, t, c.h, x)
      BY <1>2, <1>8, <2>1, ArrayChanged
    <3> QED  BY <3>1 DEF ArrayDiffers
  <2>4. /\ \A a \in DevPtrs : u.memory[a] = w.memory[a]
        /\ \A g \in HostPtrs : u.host[g] = w.host[g]
    BY <1>2, <1>7, <2>2, <2>3
  <2>5. u = w
    BY <1>6, <1>7, <2>4, StoresEqual
  <2> QED  BY <1>1, <1>3, <1>4, <1>5, <2>5
<1> QED  BY <1>8, <1>9, <1>10

LEMMA OtherArrayCommutes ==
  ASSUME NEW s \in Store, NEW c \in Command, NEW h \in HostPtrs, NEW v \in Values,
         c.op # "kernel" => c.h # h
  PROVE  Perform(WithArray(s, h, v), c) = WithArray(Perform(s, c), h, v)
<1>1. PICK t : t = WithArray(s, h, v)
  OBVIOUS
<1>2. /\ t \in Store /\ t.memory = s.memory /\ t.host[h] = v
      /\ \A g \in HostPtrs : g # h => t.host[g] = s.host[g]
  BY <1>1, ArrayChanged DEF ArrayDiffers
<1>3. PICK p : p = Perform(s, c)
  OBVIOUS
<1>4. PICK u : u = Perform(t, c)
  OBVIOUS
<1>5. PICK w : w = WithArray(p, h, v)
  OBVIOUS
<1>6. p \in Store /\ u \in Store
  BY <1>2, <1>3, <1>4, Performed
<1>7. /\ w \in Store /\ w.memory = p.memory /\ w.host[h] = v
      /\ \A g \in HostPtrs : g # h => w.host[g] = p.host[g]
  BY <1>5, <1>6, ArrayChanged DEF ArrayDiffers
<1>8. /\ c.op \in {"write", "read", "kernel"} /\ c.b \in DevPtrs /\ c.h \in HostPtrs
      /\ t.memory[c.b] = s.memory[c.b] /\ (c.op # "kernel" => t.host[c.h] = s.host[c.h])
      /\ s.memory[c.b] \in Values /\ s.host[c.h] \in Values
      /\ Compute(s.memory[c.b]) \in Values
  BY <1>2, Performed
<1>9. CASE c.op \in {"write", "kernel"}
  <2>1. PICK x \in Values : p = WithBuffer(s, c.b, x) /\ u = WithBuffer(t, c.b, x)
    BY <1>2, <1>3, <1>4, <1>8, <1>9, Performed
  <2>2. /\ p.host = s.host /\ p.memory[c.b] = x
        /\ \A a \in DevPtrs : a # c.b => p.memory[a] = s.memory[a]
    <3>1. BufferDiffers(p, s, c.b, x)
      BY <1>8, <2>1, BufferChanged
    <3> QED  BY <3>1 DEF BufferDiffers
  <2>3. /\ u.host = t.host /\ u.memory[c.b] = x
        /\ \A a \in DevPtrs : a # c.b => u.memory[a] = t.memory[a]
    <3>1. BufferDiffers(u, t, c.b, x)
      BY <1>2, <1>8, <2>1, BufferChanged
    <3> QED  BY <3>1 DEF BufferDiffers
  <2>4. /\ \A a \in DevPtrs : u.memory[a] = w.memory[a]
        /\ \A g \in HostPtrs : u.host[g] = w.host[g]
    BY <1>2, <1>7, <2>2, <2>3
  <2>5. u = w
    BY <1>6, <1>7, <2>4, StoresEqual
  <2> QED  BY <1>1, <1>3, <1>4, <1>5, <2>5
<1>10. CASE c.op = "read"
  <2>1. PICK x \in Values : p = WithArray(s, c.h, x) /\ u = WithArray(t, c.h, x)
    BY <1>2, <1>3, <1>4, <1>8, <1>10, Performed
  <2>2. /\ p.memory = s.memory /\ p.host[c.h] = x
        /\ \A g \in HostPtrs : g # c.h => p.host[g] = s.host[g]
    <3>1. ArrayDiffers(p, s, c.h, x)
      BY <1>8, <2>1, ArrayChanged
    <3> QED  BY <3>1 DEF ArrayDiffers
  <2>3. /\ u.memory = t.memory /\ u.host[c.h] = x
        /\ \A g \in HostPtrs : g # c.h => u.host[g] = t.host[g]
    <3>1. ArrayDiffers(u, t, c.h, x)
      BY <1>2, <1>8, <2>1, ArrayChanged
    <3> QED  BY <3>1 DEF ArrayDiffers
  <2>4. /\ \A a \in DevPtrs : u.memory[a] = w.memory[a]
        /\ \A g \in HostPtrs : u.host[g] = w.host[g]
    BY <1>2, <1>7, <1>8, <1>10, <2>2, <2>3
  <2>5. u = w
    BY <1>6, <1>7, <2>4, StoresEqual
  <2> QED  BY <1>1, <1>3, <1>4, <1>5, <2>5
<1> QED  BY <1>8, <1>9, <1>10

LEMMA OtherBuffer ==
  ASSUME NEW q \in Seq(Command), NEW s \in Store, NEW b \in DevPtrs, NEW v \in Values,
         \A i \in 1..Len(q) : q[i].b # b
  PROVE  PerformAll(WithBuffer(s, b, v), q) = WithBuffer(PerformAll(s, q), b, v)
<1>1. PICK f : Course(f, s, q) /\ PerformAll(s, q) = f[Len(q)]
  BY CourseOf
<1>2. PICK t : t = WithBuffer(s, b, v)
  OBVIOUS
<1>3. t \in Store /\ Len(q) \in Nat
  BY <1>2, BufferChanged DEF BufferDiffers
<1> DEFINE g == [i \in 0..Len(q) |-> WithBuffer(f[i], b, v)]
<1>4. g \in [0..Len(q) -> Store]
  <2>1. \A i \in 0..Len(q) : WithBuffer(f[i], b, v) \in Store
    BY <1>1, BufferChanged DEF Course, BufferDiffers
  <2> QED  BY <2>1
<1>5. g[0] = t /\ g[Len(q)] = WithBuffer(f[Len(q)], b, v)
  BY <1>1, <1>2, <1>3 DEF Course
<1>6. ASSUME NEW i \in 1..Len(q) PROVE g[i] = Perform(g[i - 1], q[i])
  <2>1. f[i - 1] \in Store /\ f[i] = Perform(f[i - 1], q[i]) /\ q[i] \in Command /\ q[i].b # b
    BY <1>1, <1>3 DEF Course
  <2>2. Perform(WithBuffer(f[i - 1], b, v), q[i]) = WithBuffer(f[i], b, v)
    BY <2>1, OtherBufferCommutes
  <2>3. g[i] = WithBuffer(f[i], b, v) /\ g[i - 1] = WithBuffer(f[i - 1], b, v)
    BY <1>3
  <2> QED  BY <2>2, <2>3
<1> HIDE DEF g
<1>7. Course(g, t, q)
  BY <1>4, <1>5, <1>6 DEF Course
<1>8. PerformAll(t, q) = g[Len(q)]
  BY <1>3, <1>7, CourseEnds
<1> QED  BY <1>1, <1>2, <1>5, <1>8

LEMMA OtherArray ==
  ASSUME NEW q \in Seq(Command), NEW s \in Store, NEW h \in HostPtrs, NEW v \in Values,
         \A i \in 1..Len(q) : q[i].op # "kernel" => q[i].h # h
  PROVE  PerformAll(WithArray(s, h, v), q) = WithArray(PerformAll(s, q), h, v)
<1>1. PICK f : Course(f, s, q) /\ PerformAll(s, q) = f[Len(q)]
  BY CourseOf
<1>2. PICK t : t = WithArray(s, h, v)
  OBVIOUS
<1>3. t \in Store /\ Len(q) \in Nat
  BY <1>2, ArrayChanged DEF ArrayDiffers
<1> DEFINE g == [i \in 0..Len(q) |-> WithArray(f[i], h, v)]
<1>4. g \in [0..Len(q) -> Store]
  <2>1. \A i \in 0..Len(q) : WithArray(f[i], h, v) \in Store
    BY <1>1, ArrayChanged DEF Course, ArrayDiffers
  <2> QED  BY <2>1
<1>5. g[0] = t /\ g[Len(q)] = WithArray(f[Len(q)], h, v)
  BY <1>1, <1>2, <1>3 DEF Course
<1>6. ASSUME NEW i \in 1..Len(q) PROVE g[i] = Perform(g[i - 1], q[i])
  <2>1. /\ f[i - 1] \in Store /\ f[i] = Perform(f[i - 1], q[i]) /\ q[i] \in Command
        /\ q[i].op # "kernel" => q[i].h # h
    BY <1>1, <1>3 DEF Course
  <2>2. Perform(WithArray(f[i - 1], h, v), q[i]) = WithArray(f[i], h, v)
    BY <2>1, OtherArrayCommutes
  <2>3. g[i] = WithArray(f[i], h, v) /\ g[i - 1] = WithArray(f[i - 1], h, v)
    BY <1>3
  <2> QED  BY <2>2, <2>3
<1> HIDE DEF g
<1>7. Course(g, t, q)
  BY <1>4, <1>5, <1>6 DEF Course
<1>8. PerformAll(t, q) = g[Len(q)]
  BY <1>3, <1>7, CourseEnds
<1> QED  BY <1>1, <1>2, <1>5, <1>8

LEMMA NothingToPerform ==
  ASSUME NEW s \in Store
  PROVE  PerformAll(s, <<>>) = s
<1>1. PICK f : Course(f, s, <<>>) /\ PerformAll(s, <<>>) = f[0]
  <2>1. << >> \in Seq(Command) /\ Len(<< >>) = 0
    OBVIOUS
  <2> QED  BY <2>1, CourseOf
<1> QED  BY <1>1 DEF Course

-----------------------------------------------------------------------------
(* The second refinement: the queues implement calls that take effect at   *)
(* once.  Beside the invariant of the environments it needs that a queue   *)
(* holds commands of buffers no other device has or uses: devices may then *)
(* run at any speed without telling in what another one makes.             *)
ContentsOK ==
  /\ queues \in [Devices -> Seq(Command)]
  /\ memory \in [DevPtrs -> Values]
  /\ host \in [HostPtrs -> Values]

BuffersApart ==
  \A d, e \in Devices : d # e =>
    \A i \in 1..Len(queues[d]) :
      /\ queues[d][i].b \notin Live2(bimaps[e])
      /\ \A j \in 1..Len(queues[e]) : queues[e][j].b # queues[d][i].b

TransfersInv == EnvInv /\ ContentsOK /\ QueuesInv /\ BuffersApart

(* What the arrays and the copies will contain, place by place.            *)
LEMMA FinalHostIs ==
  ASSUME NEW h \in HostPtrs, NEW d \in Devices, Owner[h] = d
  PROVE  /\ FinalHost[h] = AtTheEnd(d).host[h]
         /\ FinalHost'[h] = AtTheEnd(d)'.host[h]
BY DEF FinalHost, AtTheEnd, Now

LEMMA FinalCopiesAre ==
  ASSUME NEW d \in Devices, NEW h \in HostPtrs
  PROVE  /\ FinalCopies[d][h] =
              IF Mapped(d, h) THEN AtTheEnd(d).memory[acc_get_deviceptr(d, h)] ELSE None
         /\ FinalCopies'[d][h] =
              IF Mapped(d, h)' THEN AtTheEnd(d)'.memory[acc_get_deviceptr(d, h)'] ELSE None
BY DEF FinalCopies, AtTheEnd, Now, Mapped, acc_get_deviceptr, bimap_get_value_by_key_1

LEMMA HostSame ==
  ASSUME \A h \in HostPtrs : FinalHost'[h] = FinalHost[h]
  PROVE  FinalHost' = FinalHost
<1>1. FinalHost = [h \in HostPtrs |-> FinalHost[h]]
  BY DEF FinalHost
<1>2. FinalHost' = [h \in HostPtrs |-> FinalHost'[h]]
  BY DEF FinalHost
<1> QED  BY <1>1, <1>2

IsGrid(c) == c = [d \in Devices |-> [h \in HostPtrs |-> c[d][h]]]

LEMMA CopiesAreFunctions == \A c : c = FinalCopies \/ c = FinalCopies' => IsGrid(c)
BY DEF FinalCopies, IsGrid

LEMMA CopiesSame ==
  ASSUME \A d \in Devices, h \in HostPtrs : FinalCopies'[d][h] = FinalCopies[d][h]
  PROVE  FinalCopies' = FinalCopies
<1> PICK c : c = FinalCopies
  OBVIOUS
<1> PICK n : n = FinalCopies'
  OBVIOUS
<1> QED  BY CopiesAreFunctions DEF IsGrid

CellIsSet(c, n, d, h, v) == n = [c EXCEPT ![d][h] = v]

LEMMA NestedUpdate ==
  ASSUME NEW d \in Devices, NEW h \in HostPtrs, NEW v, NEW c, NEW n,
         IsGrid(c), IsGrid(n),
         n[d][h] = v,
         \A e \in Devices, g \in HostPtrs : e # d \/ g # h => n[e][g] = c[e][g]
  PROVE  CellIsSet(c, n, d, h, v)
<1>0. /\ c = [e \in Devices |-> [g \in HostPtrs |-> c[e][g]]]
      /\ n = [e \in Devices |-> [g \in HostPtrs |-> n[e][g]]]
  BY DEF IsGrid
<1>1. \A e \in Devices : /\ c[e] = [g \in HostPtrs |-> c[e][g]]
                        /\ n[e] = [g \in HostPtrs |-> n[e][g]]
  BY <1>0
<1>2. PICK x : x = [c[d] EXCEPT ![h] = v]
  OBVIOUS
<1>3. x = [g \in HostPtrs |-> IF g = h THEN v ELSE c[d][g]]
  BY <1>1, <1>2
<1>4. n[d] = x
  <2>1. \A g \in HostPtrs : n[d][g] = IF g = h THEN v ELSE c[d][g]
    OBVIOUS
  <2> QED  BY <1>1, <1>3, <2>1
<1>5. \A e \in Devices : e # d => n[e] = c[e]
  <2>1. ASSUME NEW e \in Devices, e # d PROVE n[e] = c[e]
    <3>1. \A g \in HostPtrs : n[e][g] = c[e][g]
      BY <2>1
    <3> QED  BY <1>1, <3>1
  <2> QED  BY <2>1
<1>6. n = [e \in Devices |-> IF e = d THEN x ELSE c[e]]
  BY <1>0, <1>4, <1>5
<1>7. [c EXCEPT ![d] = x] = [e \in Devices |-> IF e = d THEN x ELSE c[e]]
  BY <1>0
<1> QED  BY <1>2, <1>6, <1>7 DEF CellIsSet

LEMMA CopySet ==
  ASSUME NEW d \in Devices, NEW h \in HostPtrs, NEW v, FinalCopies'[d][h] = v,
         \A e \in Devices, g \in HostPtrs :
           e # d \/ g # h => FinalCopies'[e][g] = FinalCopies[e][g],
         \A g \in HostPtrs : FinalHost'[g] = FinalHost[g]
  PROVE  Blocking!SetCopy(d, h, v)
<1> PICK c : c = FinalCopies
  OBVIOUS
<1> PICK n : n = FinalCopies'
  OBVIOUS
<1>1. IsGrid(c) /\ IsGrid(n)
  BY CopiesAreFunctions
<1>2. /\ n[d][h] = v
      /\ \A e \in Devices, g \in HostPtrs : e # d \/ g # h => n[e][g] = c[e][g]
  OBVIOUS
<1>4. FinalHost' = FinalHost
  BY HostSame
<1>3. CellIsSet(c, n, d, h, v)
  BY <1>1, <1>2, NestedUpdate
<1> QED  BY <1>3, <1>4 DEF Blocking!SetCopy, CellIsSet

LEMMA ArraySet ==
  ASSUME NEW h \in HostPtrs, NEW v, FinalHost'[h] = v,
         \A g \in HostPtrs : g # h => FinalHost'[g] = FinalHost[g],
         \A e \in Devices, g \in HostPtrs : FinalCopies'[e][g] = FinalCopies[e][g]
  PROVE  FinalHost' = [FinalHost EXCEPT ![h] = v] /\ FinalCopies' = FinalCopies
<1>1. /\ FinalHost = [g \in HostPtrs |-> FinalHost[g]]
      /\ FinalHost' = [g \in HostPtrs |-> FinalHost'[g]]
  BY DEF FinalHost
<1> PICK c : c = FinalHost
  OBVIOUS
<1> PICK n : n = FinalHost'
  OBVIOUS
<1>2. n = [c EXCEPT ![h] = v]
  BY <1>1
<1> QED  BY <1>2, CopiesSame

(* A queue's end, and the copy of an array, by the invariant.              *)
LEMMA EndFacts ==
  ASSUME TransfersInv, NEW d \in Devices
  PROVE  /\ queues[d] \in Seq(Command)
         /\ Now \in Store /\ Now.memory = memory /\ Now.host = host
         /\ AtTheEnd(d) = PerformAll(Now, queues[d])
         /\ AtTheEnd(d) \in Store
<1>1. queues[d] \in Seq(Command) /\ Now \in Store /\ Now.memory = memory /\ Now.host = host
  BY DEF TransfersInv, ContentsOK, Now, Store
<1>2. AtTheEnd(d) = PerformAll(Now, queues[d])
  BY DEF AtTheEnd
<1> QED  BY <1>1, <1>2, CourseOf, CourseEnds

LEMMA CopyFacts ==
  ASSUME TransfersInv, NEW d \in Devices, NEW h \in HostPtrs, Mapped(d, h)
  PROVE  /\ acc_get_deviceptr(d, h) \in Live2(bimaps[d])
         /\ acc_get_deviceptr(d, h) \in DevPtrs
         /\ acc_get_deviceptr(d, h) \in buffers
         /\ FinalCopies[d][h] = AtTheEnd(d).memory[acc_get_deviceptr(d, h)]
         /\ Blocking!Present(d, h)
<1>1. acc_get_deviceptr(d, h) \in Live2(bimaps[d])
  BY AllocationOf DEF Mapped, acc_get_deviceptr, TransfersInv
<1>2. acc_get_deviceptr(d, h) \in DevPtrs /\ acc_get_deviceptr(d, h) \in buffers
  BY <1>1, EnvFacts DEF TransfersInv
<1>3. FinalCopies[d][h] = AtTheEnd(d).memory[acc_get_deviceptr(d, h)]
  BY FinalCopiesAre
<1>4. AtTheEnd(d).memory[acc_get_deviceptr(d, h)] # None
  BY <1>2, EndFacts, NoneIsNoContent DEF Store, Values, Contents
<1> QED  BY <1>1, <1>2, <1>3, <1>4 DEF Blocking!Present

(* A command is put in the queue of d; s is what the store then contains.  *)
Queued(d, c) == queues' = [queues EXCEPT ![d] = Append(@, c)]

LEMMA QueuedEnds ==
  ASSUME TransfersInv, NEW d \in Devices, NEW c \in Command, Queued(d, c),
         NEW s \in Store, Now' = s
  PROVE  \A e \in Devices :
           AtTheEnd(e)' = IF e = d THEN Perform(PerformAll(s, queues[d]), c)
                          ELSE PerformAll(s, queues[e])
<1>1. \A e \in Devices : AtTheEnd(e)' = PerformAll(s, queues'[e])
  BY DEF AtTheEnd
<1>2. queues \in [Devices -> Seq(Command)]
  BY DEF TransfersInv, ContentsOK
<1>3. queues'[d] = Append(queues[d], c) /\ \A e \in Devices : e # d => queues'[e] = queues[e]
  BY <1>2 DEF Queued
<1>4. PerformAll(s, queues'[d]) = Perform(PerformAll(s, queues[d]), c)
  BY <1>2, <1>3, PerformAppended
<1> QED  BY <1>1, <1>3, <1>4

LEMMA EnqueueIsQueued ==
  ASSUME NEW d \in Devices, NEW h \in HostPtrs, NEW b \in DevPtrs,
         NEW op \in {"write", "read", "kernel"}, Enqueue(d, op, b, h)
  PROVE  \E c \in Command : Queued(d, c) /\ c.op = op /\ c.b = b /\ c.h = h
<1> DEFINE c == [op |-> op, b |-> b, h |-> h]
<1>1. c \in Command /\ c.op = op /\ c.b = b /\ c.h = h
  BY DEF Command
<1>2. Queued(d, c)
  BY DEF Enqueue, Queued
<1> QED  BY <1>1, <1>2

(* The buffers of the copies that stay in place are told apart from that   *)
(* of h on d.                                                              *)
LEMMA OtherCopies ==
  ASSUME TransfersInv, NEW d \in Devices, NEW h \in HostPtrs, Mapped(d, h),
         NEW e \in Devices, NEW g \in HostPtrs, Mapped(e, g), e # d \/ g # h
  PROVE  acc_get_deviceptr(e, g) # acc_get_deviceptr(d, h)
BY BuffersTellHostPtrs DEF TransfersInv, Mapped

(* A call on an array that is present queues its command, and nothing else *)
(* changes.                                                                *)
LEMMA EnqueueRefines ==
  ASSUME TransfersInv, NEW d \in Devices, NEW h \in HostPtrs, Owner[h] = d, Mapped(d, h),
         NEW op \in {"write", "read", "kernel"},
         Enqueue(d, op, acc_get_deviceptr(d, h), h),
         UNCHANGED <<bimaps, memory, host>>
  PROVE  Blocking!BlockingNext
<1> PICK b \in DevPtrs : b = acc_get_deviceptr(d, h)
  BY CopyFacts
<1>1. PICK c \in Command : Queued(d, c) /\ c.op = op /\ c.b = b /\ c.h = h
  BY EnqueueIsQueued
<1>2. PICK s : s = AtTheEnd(d)
  OBVIOUS
<1>3. s \in Store
  BY <1>2, EndFacts
<1>4. /\ AtTheEnd(d)' = Perform(s, c)
      /\ \A e \in Devices : e # d => AtTheEnd(e)' = AtTheEnd(e)
  <2>1. Now' = Now
    BY DEF Now
  <2>2. \A e \in Devices : /\ AtTheEnd(e) = PerformAll(Now, queues[e])
                           /\ Now \in Store
    BY EndFacts
  <2> QED  BY <1>1, <1>2, <2>1, <2>2, QueuedEnds
<1>5. \A e \in Devices, g \in HostPtrs :
        /\ Mapped(e, g)' <=> Mapped(e, g)
        /\ acc_get_deviceptr(e, g)' = acc_get_deviceptr(e, g)
  BY DEF Mapped, acc_get_deviceptr, bimap_get_value_by_key_1
<1>6. FinalCopies[d][h] = s.memory[b] /\ FinalHost[h] = s.host[h] /\ Blocking!Present(d, h)
  BY <1>2, CopyFacts, FinalHostIs
<1>7. \A e \in Devices, g \in HostPtrs :
        e # d => /\ FinalCopies'[e][g] = FinalCopies[e][g]
                 /\ Owner[g] = e => FinalHost'[g] = FinalHost[g]
  BY <1>4, <1>5, FinalCopiesAre, FinalHostIs
<1>8. \A g \in HostPtrs : Owner[g] \in Devices
  BY OwnerAssumption
<1>9. CASE op \in {"write", "kernel"}
  <2>1. PICK v \in Values : /\ Perform(s, c) = WithBuffer(s, b, v)
                            /\ op = "write" => v = s.host[h]
                            /\ op = "kernel" => v = Compute(s.memory[b])
    BY <1>1, <1>3, <1>9, Performed
  <2>2. PICK t : t = AtTheEnd(d)'
    OBVIOUS
  <2>3. /\ t.host = s.host /\ t.memory[b] = v
        /\ \A x \in DevPtrs : x # b => t.memory[x] = s.memory[x]
    BY <1>3, <1>4, <2>1, <2>2, BufferChanged DEF BufferDiffers
  <2>4. \A g \in HostPtrs : FinalHost'[g] = FinalHost[g]
    <3>1. \A g \in HostPtrs : Owner[g] = d => FinalHost'[g] = FinalHost[g]
      BY <1>2, <2>2, <2>3, FinalHostIs
    <3> QED  BY <1>7, <1>8, <3>1
  <2>5. FinalCopies'[d][h] = v
    BY <1>5, <2>2, <2>3, FinalCopiesAre
  <2>6. \A g \in HostPtrs : g # h => FinalCopies'[d][g] = FinalCopies[d][g]
    <3>1. ASSUME NEW g \in HostPtrs, g # h, Mapped(d, g)
          PROVE  FinalCopies'[d][g] = FinalCopies[d][g]
      <4>1. acc_get_deviceptr(d, g) \in DevPtrs /\ acc_get_deviceptr(d, g) # b
        BY <3>1, CopyFacts, OtherCopies
      <4> QED  BY <1>2, <1>5, <2>2, <2>3, <3>1, <4>1, FinalCopiesAre
    <3>2. ASSUME NEW g \in HostPtrs, ~Mapped(d, g)
          PROVE  FinalCopies'[d][g] = FinalCopies[d][g]
      BY <1>5, <3>2, FinalCopiesAre
    <3> QED  BY <3>1, <3>2
  <2>7. Blocking!SetCopy(d, h, v)
    BY <1>7, <2>4, <2>5, <2>6, CopySet
  <2>8. Blocking!UpdateDevice(d, h) \/ Blocking!RunKernel(d, h)
    BY <1>6, <1>9, <2>1, <2>7
    DEF Blocking!UpdateDevice, Blocking!RunKernel, Blocking!Compute, Compute
  <2> QED  BY <2>8 DEF Blocking!BlockingNext
<1>10. CASE op = "read"
  <2>1. Perform(s, c) = WithArray(s, h, s.memory[b]) /\ s.memory[b] \in Values
    BY <1>1, <1>3, <1>10, Performed
  <2>2. PICK t : t = AtTheEnd(d)'
    OBVIOUS
  <2>3. /\ t.memory = s.memory /\ t.host[h] = s.memory[b]
        /\ \A g \in HostPtrs : g # h => t.host[g] = s.host[g]
    BY <1>3, <1>4, <2>1, <2>2, ArrayChanged DEF ArrayDiffers
  <2>4. FinalHost'[h] = s.memory[b]
    BY <2>2, <2>3, FinalHostIs
  <2>5. \A g \in HostPtrs : g # h => FinalHost'[g] = FinalHost[g]
    <3>1. \A g \in HostPtrs : g # h /\ Owner[g] = d => FinalHost'[g] = FinalHost[g]
      BY <1>2, <2>2, <2>3, FinalHostIs
    <3> QED  BY <1>7, <1>8, <3>1
  <2>6. \A e \in Devices, g \in HostPtrs : FinalCopies'[e][g] = FinalCopies[e][g]
    <3>1. \A g \in HostPtrs : FinalCopies'[d][g] = FinalCopies[d][g]
      BY <1>2, <1>5, <2>2, <2>3, FinalCopiesAre
    <3> QED  BY <1>7, <3>1
  <2>7. FinalHost' = [FinalHost EXCEPT ![h] = FinalCopies[d][h]] /\ FinalCopies' = FinalCopies
    BY <1>6, <2>4, <2>5, <2>6, ArraySet
  <2>8. Blocking!Copyout(d, h)
    BY <1>6, <2>7 DEF Blocking!Copyout
  <2> QED  BY <2>8 DEF Blocking!BlockingNext
<1> QED  BY <1>9, <1>10

(* A new copy, and no difference but in its buffer.                        *)
LEMMA NewCopyRefines ==
  ASSUME TransfersInv, NEW d \in Devices, NEW h \in HostPtrs, ~Mapped(d, h),
         NEW b \in DevPtrs \ buffers, AllocationsKept, Grows(d, h, b),
         acc_get_deviceptr(d, h)' = b, NEW v,
         AtTheEnd(d)'.memory[b] = v,
         \A e \in Devices :
           /\ AtTheEnd(e)'.host = AtTheEnd(e).host
           /\ \A x \in DevPtrs :
                x # b => AtTheEnd(e)'.memory[x] = AtTheEnd(e).memory[x]
  PROVE  ~Blocking!Present(d, h) /\ Blocking!SetCopy(d, h, v)
<1>1. \A e \in Devices, g \in HostPtrs :
        Mapped(e, g)' <=> Mapped(e, g) \/ (e = d /\ g = h)
  BY DEF Grows, Mapped
<1>2. FinalCopies'[d][h] = v
  BY <1>1, FinalCopiesAre
<1>3. ASSUME NEW e \in Devices, NEW g \in HostPtrs, e # d \/ g # h
      PROVE  FinalCopies'[e][g] = FinalCopies[e][g]
  <2>1. CASE Mapped(e, g)
    <3>1. acc_get_deviceptr(e, g)' = acc_get_deviceptr(e, g)
      BY <1>1, <2>1 DEF AllocationsKept, acc_get_deviceptr, Mapped
    <3>2. acc_get_deviceptr(e, g) \in DevPtrs /\ acc_get_deviceptr(e, g) # b
      BY <2>1, CopyFacts
    <3> QED  BY <1>1, <2>1, <3>1, <3>2, FinalCopiesAre
  <2>2. CASE ~Mapped(e, g)
    BY <1>1, <1>3, <2>2, FinalCopiesAre
  <2> QED  BY <2>1, <2>2
<1>4. ASSUME NEW g \in HostPtrs PROVE FinalHost'[g] = FinalHost[g]
  <2>1. Owner[g] \in Devices
    BY OwnerAssumption
  <2> QED  BY <2>1, FinalHostIs
<1>5. Blocking!SetCopy(d, h, v)
  BY <1>2, <1>3, <1>4, CopySet
<1>6. FinalCopies[d][h] = None
  BY FinalCopiesAre
<1> QED  BY <1>5, <1>6 DEF Blocking!Present

(* A successful allocation gives a buffer that neither exists nor is used  *)
(* by a command still under way, so it can be written before them all.     *)
LEMMA AllocationEffect ==
  ASSUME TransfersInv, NEW d \in Devices, NEW h \in HostPtrs, NEW n \in Sizes,
         SizeAgrees(d, h, n), acc_create_(d, h, n), Allocated(d, h), halted' = "no"
  PROVE  /\ ~Mapped(d, h) /\ EnvInv' /\ AllocationsKept
         /\ \E b \in DevPtrs \ buffers :
              /\ Grows(d, h, b) /\ acc_get_deviceptr(d, h)' = b
              /\ memory' = [memory EXCEPT ![b] = Junk]
              /\ \A e \in Devices : \A i \in 1..Len(queues[e]) : queues[e][i].b # b
              /\ \A e \in Devices :
                   PerformAll(WithBuffer(Now, b, Junk), queues[e]) =
                     WithBuffer(AtTheEnd(e), b, Junk)
<1>1. ~Mapped(d, h)
  BY DEF SizeAgrees, acc_create_, Halt
<1>2. /\ EnvInv' /\ AllocationsKept
      /\ \E b \in DevPtrs : Allocates(d, h, b, n) /\ Grows(d, h, b)
  BY <1>1, CreateStep DEF TransfersInv
<1>3. PICK b \in DevPtrs : Allocates(d, h, b, n) /\ Grows(d, h, b)
  BY <1>2
<1>4. b \in DevPtrs \ buffers
  BY <1>3 DEF Allocates
<1>5. acc_get_deviceptr(d, h)' = b
  BY <1>3 DEF Allocates, acc_get_deviceptr
<1>6. b \notin InQueue /\ memory' = [memory EXCEPT ![b] = Junk]
  BY <1>5 DEF Allocated, NewBuffer
<1>7. \A e \in Devices : \A i \in 1..Len(queues[e]) : queues[e][i].b # b
  BY <1>6 DEF InQueue
<1>8. ASSUME NEW e \in Devices
      PROVE  PerformAll(WithBuffer(Now, b, Junk), queues[e]) = WithBuffer(AtTheEnd(e), b, Junk)
  <2>1. Junk \in Values
    BY DEF Values
  <2> QED  BY <1>7, <2>1, EndFacts, OtherBuffer
<1> QED  BY <1>1, <1>2, <1>3, <1>4, <1>5, <1>6, <1>7, <1>8

LEMMA CreateRefines ==
  ASSUME TransfersInv, NEW d \in Devices, NEW h \in HostPtrs, NEW n \in Sizes,
         SizeAgrees(d, h, n), Create(d, h, n), halted' = "no"
  PROVE  Blocking!BlockingNext
<1>1. acc_create_(d, h, n) /\ Allocated(d, h) /\ UNCHANGED <<queues, host>>
  BY DEF Create
<1>2. ~Mapped(d, h) /\ AllocationsKept
  BY <1>1, AllocationEffect
<1>3. PICK b \in DevPtrs \ buffers :
        /\ Grows(d, h, b) /\ acc_get_deviceptr(d, h)' = b
        /\ memory' = [memory EXCEPT ![b] = Junk]
        /\ \A e \in Devices :
             PerformAll(WithBuffer(Now, b, Junk), queues[e]) =
               WithBuffer(AtTheEnd(e), b, Junk)
  BY <1>1, AllocationEffect
<1>4. Now' = WithBuffer(Now, b, Junk)
  BY <1>1, <1>3 DEF Now, WithBuffer
<1>5. \A e \in Devices : AtTheEnd(e)' = WithBuffer(AtTheEnd(e), b, Junk)
  BY <1>1, <1>3, <1>4 DEF AtTheEnd
<1>6. ASSUME NEW e \in Devices
      PROVE  /\ AtTheEnd(e)'.memory[b] = Junk
             /\ AtTheEnd(e)'.host = AtTheEnd(e).host
             /\ \A x \in DevPtrs :
                  x # b => AtTheEnd(e)'.memory[x] = AtTheEnd(e).memory[x]
  <2>1. Junk \in Values
    BY DEF Values
  <2>2. PICK t : t = AtTheEnd(e)'
    OBVIOUS
  <2> QED  BY <1>5, <2>1, <2>2, EndFacts, BufferChanged DEF BufferDiffers
<1>7. ~Blocking!Present(d, h) /\ Blocking!SetCopy(d, h, Junk)
  BY <1>2, <1>3, <1>6, NewCopyRefines
<1> QED  BY <1>7 DEF Blocking!Create, Blocking!BlockingNext

LEMMA CopyinRefines ==
  ASSUME TransfersInv, NEW d \in Devices, NEW h \in HostPtrs, NEW n \in Sizes, Owner[h] = d,
         SizeAgrees(d, h, n), acc_copyin_(d, h, n), halted' = "no"
  PROVE  Blocking!BlockingNext
<1>1. /\ acc_create_(d, h, n) /\ Allocated(d, h) /\ UNCHANGED host
      /\ Enqueue(d, "write", acc_get_deviceptr(d, h)', h)
  BY DEF acc_copyin_, acc_memcpy_to_device_, NewBuffer
<1>2. ~Mapped(d, h) /\ AllocationsKept
  BY <1>1, AllocationEffect
<1>3. PICK b \in DevPtrs \ buffers :
        /\ Grows(d, h, b) /\ acc_get_deviceptr(d, h)' = b
        /\ memory' = [memory EXCEPT ![b] = Junk]
        /\ \A e \in Devices :
             PerformAll(WithBuffer(Now, b, Junk), queues[e]) =
               WithBuffer(AtTheEnd(e), b, Junk)
  BY <1>1, AllocationEffect
<1>4. Now' = WithBuffer(Now, b, Junk)
  BY <1>1, <1>3 DEF Now, WithBuffer
<1>5. PICK c \in Command : Queued(d, c) /\ c.op = "write" /\ c.b = b /\ c.h = h
  BY <1>1, <1>3, EnqueueIsQueued
<1>6. PICK s : s = WithBuffer(Now, b, Junk)
  OBVIOUS
<1>7. s \in Store /\ Junk \in Values
  <2>1. Junk \in Values
    BY DEF Values
  <2> QED  BY <1>6, <2>1, EndFacts, BufferChanged DEF BufferDiffers
<1>8. \A e \in Devices :
        AtTheEnd(e)' = IF e = d THEN Perform(PerformAll(s, queues[d]), c)
                       ELSE PerformAll(s, queues[e])
  BY <1>4, <1>5, <1>6, <1>7, QueuedEnds
<1>9. ASSUME NEW e \in Devices
      PROVE  /\ AtTheEnd(e)'.host = AtTheEnd(e).host
             /\ \A x \in DevPtrs :
                  x # b => AtTheEnd(e)'.memory[x] = AtTheEnd(e).memory[x]
             /\ e = d => AtTheEnd(e)'.memory[b] = AtTheEnd(e).host[h]
  <2>1. PICK u : u = AtTheEnd(e)'
    OBVIOUS
  <2>2. PICK o : o = AtTheEnd(e)
    OBVIOUS
  <2>3. PICK t : t = PerformAll(s, queues[e])
    OBVIOUS
  <2>4. t = WithBuffer(o, b, Junk) /\ o \in Store
    BY <1>3, <1>6, <2>2, <2>3, EndFacts
  <2>5. /\ t \in Store /\ t.host = o.host
        /\ \A x \in DevPtrs : x # b => t.memory[x] = o.memory[x]
    BY <1>7, <2>4, BufferChanged DEF BufferDiffers
  <2>6. CASE e = d
    <3>1. u = Perform(t, c)
      BY <1>8, <2>1, <2>3, <2>6
    <3>2. u = WithBuffer(t, b, t.host[h]) /\ t.host[h] \in Values
      BY <1>5, <2>5, <3>1, Performed
    <3>3. /\ u.host = t.host /\ u.memory[b] = t.host[h]
          /\ \A x \in DevPtrs : x # b => u.memory[x] = t.memory[x]
      BY <2>5, <3>2, BufferChanged DEF BufferDiffers
    <3> QED  BY <2>1, <2>2, <2>5, <3>3
  <2>7. CASE e # d
    <3>1. u = t
      BY <1>8, <2>1, <2>3, <2>7
    <3> QED  BY <2>1, <2>2, <2>5, <2>7, <3>1
  <2> QED  BY <2>6, <2>7
<1>10. AtTheEnd(d)'.memory[b] = FinalHost[h]
  BY <1>9, FinalHostIs
<1>11. ~Blocking!Present(d, h) /\ Blocking!SetCopy(d, h, FinalHost[h])
  BY <1>2, <1>3, <1>9, <1>10, NewCopyRefines
<1> QED  BY <1>11 DEF Blocking!Copyin, Blocking!BlockingNext

(* What is freed is the copy of nothing any more.                          *)
LEMMA ReleaseRefines ==
  ASSUME TransfersInv, AllocationsKept, Shrinks, UNCHANGED <<queues, memory, host>>
  PROVE  Blocking!BlockingNext
<1> DEFINE gone == {v \in Devices \X HostPtrs : ~Mapped(v[1], v[2])'}
<1>1. \A e \in Devices : AtTheEnd(e)' = AtTheEnd(e)
  BY DEF AtTheEnd, Now
<1>2. \A g \in HostPtrs : FinalHost'[g] = FinalHost[g]
  BY <1>1, OwnerAssumption, FinalHostIs
<1>3. ASSUME NEW e \in Devices, NEW g \in HostPtrs
      PROVE  FinalCopies'[e][g] = IF <<e, g>> \in gone THEN None ELSE FinalCopies[e][g]
  <2>1. <<e, g>> \in gone <=> ~Mapped(e, g)'
    BY DEF Mapped
  <2>2. CASE Mapped(e, g)'
    <3>1. Mapped(e, g) /\ acc_get_deviceptr(e, g)' = acc_get_deviceptr(e, g)
      BY <2>2 DEF Shrinks, AllocationsKept, acc_get_deviceptr, Mapped
    <3> QED  BY <1>1, <2>1, <2>2, <3>1, FinalCopiesAre
  <2>3. CASE ~Mapped(e, g)'
    BY <2>1, <2>3, FinalCopiesAre
  <2> QED  BY <2>2, <2>3
<1>4. gone \in SUBSET (Devices \X HostPtrs)
  OBVIOUS
<1> HIDE DEF gone
<1>5. PICK n : n = FinalCopies'
  OBVIOUS
<1>6. n = [e \in Devices |-> [g \in HostPtrs |-> n[e][g]]]
  BY <1>5, CopiesAreFunctions DEF IsGrid
<1>7. n = [e \in Devices |-> [g \in HostPtrs |->
             IF <<e, g>> \in gone THEN None ELSE FinalCopies[e][g]]]
  BY <1>3, <1>5, <1>6
<1>8. Blocking!Release(gone)
  BY <1>2, <1>5, <1>7, HostSame DEF Blocking!Release
<1> QED  BY <1>4, <1>8 DEF Blocking!BlockingNext

(* The program writes an array no transfer is under way of.                *)
LEMMA HostWriteRefines ==
  ASSUME TransfersInv, NEW h \in HostPtrs, NEW v \in Contents, HostWrite(h, v)
  PROVE  Blocking!BlockingNext
<1>1. /\ UNCHANGED <<bimaps, queues, memory>> /\ h \notin inUse
      /\ host' = [host EXCEPT ![h] = v]
  BY DEF HostWrite, envVars
<1>2. Now' = WithArray(Now, h, v)
  BY <1>1 DEF Now, WithArray
<1>3. v \in Values
  BY DEF Values
<1>4. ASSUME NEW e \in Devices
      PROVE  AtTheEnd(e)' = WithArray(AtTheEnd(e), h, v)
  <2>1. \A i \in 1..Len(queues[e]) :
          queues[e][i].op # "kernel" => queues[e][i].h # h
    BY <1>1 DEF TransfersInv, QueuesInv, Fits
  <2>2. PerformAll(WithArray(Now, h, v), queues[e]) = WithArray(AtTheEnd(e), h, v)
    BY <1>3, <2>1, EndFacts, OtherArray
  <2> QED  BY <1>1, <1>2, <2>2 DEF AtTheEnd
<1>5. ASSUME NEW e \in Devices
      PROVE  /\ AtTheEnd(e)'.memory = AtTheEnd(e).memory
             /\ AtTheEnd(e)'.host[h] = v
             /\ \A g \in HostPtrs : g # h => AtTheEnd(e)'.host[g] = AtTheEnd(e).host[g]
  <2>1. PICK t : t = AtTheEnd(e)'
    OBVIOUS
  <2> QED  BY <1>3, <1>4, <2>1, EndFacts, ArrayChanged DEF ArrayDiffers
<1>6. /\ FinalHost'[h] = v
      /\ \A g \in HostPtrs : g # h => FinalHost'[g] = FinalHost[g]
  BY <1>5, OwnerAssumption, FinalHostIs
<1>7. \A e \in Devices, g \in HostPtrs :
        /\ Mapped(e, g)' <=> Mapped(e, g)
        /\ acc_get_deviceptr(e, g)' = acc_get_deviceptr(e, g)
  BY <1>1 DEF Mapped, acc_get_deviceptr, bimap_get_value_by_key_1
<1>8. \A e \in Devices, g \in HostPtrs : FinalCopies'[e][g] = FinalCopies[e][g]
  BY <1>5, <1>7, FinalCopiesAre
<1>9. FinalHost' = [FinalHost EXCEPT ![h] = v] /\ FinalCopies' = FinalCopies
  BY <1>6, <1>8, ArraySet
<1>10. v \in Blocking!Contents
  BY DEF Blocking!Contents, Contents
<1> QED  BY <1>9, <1>10 DEF Blocking!HostWrite, Blocking!BlockingNext

(* A device that carries out a command changes nothing that will be.       *)
LEMMA ExecuteRefines ==
  ASSUME TransfersInv, NEW d \in Devices, Execute(d)
  PROVE  FinalHost' = FinalHost /\ FinalCopies' = FinalCopies
<1> PICK q \in Seq(Command) : q = queues[d]
  BY EndFacts
<1> PICK c : c = Head(q)
  OBVIOUS
<1>1. /\ q # <<>> /\ UNCHANGED bimaps
      /\ memory' = Perform(Now, c).memory /\ host' = Perform(Now, c).host
      /\ queues' = [queues EXCEPT ![d] = Tail(@)]
  BY DEF Execute, envVars
<1>2. PICK s : s = Perform(Now, c)
  OBVIOUS
<1>3. /\ c \in Command /\ c = q[1] /\ 1 \in 1..Len(q)
      /\ PerformAll(s, Tail(q)) = PerformAll(Now, q)
  BY <1>1, <1>2, EndFacts, PerformFirst
<1>4. Now' = s
  <2>1. s \in Store
    BY <1>2, <1>3, EndFacts, Performed
  <2> QED  BY <1>1, <1>2, <2>1 DEF Now, Store
<1>5. /\ queues'[d] = Tail(q)
      /\ \A e \in Devices : e # d => queues'[e] = queues[e]
  BY <1>1 DEF TransfersInv, ContentsOK
<1>6. AtTheEnd(d)' = AtTheEnd(d)
  <2>1. AtTheEnd(d)' = PerformAll(s, Tail(q))
    BY <1>4, <1>5 DEF AtTheEnd
  <2> QED  BY <1>3, <2>1, EndFacts
<1>7. /\ Owner[c.h] = d /\ c.h \in HostPtrs
      /\ \A e \in Devices : e # d =>
           /\ c.b \notin Live2(bimaps[e])
           /\ \A i \in 1..Len(queues[e]) : queues[e][i].b # c.b
  BY <1>3 DEF TransfersInv, QueuesInv, Fits, BuffersApart
<1>8. ASSUME NEW e \in Devices, e # d
      PROVE  LET n == AtTheEnd(e)'
                 o == AtTheEnd(e)
             IN  /\ \A x \in DevPtrs : x # c.b => n.memory[x] = o.memory[x]
                 /\ \A g \in HostPtrs : g # c.h => n.host[g] = o.host[g]
  <2>1. PICK n : n = AtTheEnd(e)'
    OBVIOUS
  <2>2. PICK o : o = AtTheEnd(e)
    OBVIOUS
  <2>3. n = PerformAll(s, queues[e])
    BY <1>4, <1>5, <1>8, <2>1 DEF AtTheEnd
  <2>4. o \in Store /\ c.b \in DevPtrs /\ c.h \in HostPtrs
    BY <1>3, <2>2, EndFacts, Performed
  <2>5. CASE c.op \in {"write", "kernel"}
    <3>1. PICK v \in Values : s = WithBuffer(Now, c.b, v)
      BY <1>2, <1>3, <2>5, EndFacts, Performed
    <3>2. n = WithBuffer(o, c.b, v)
      BY <1>7, <1>8, <2>2, <2>3, <2>4, <3>1, EndFacts, OtherBuffer
    <3>3. n.host = o.host /\ \A x \in DevPtrs : x # c.b => n.memory[x] = o.memory[x]
      BY <2>4, <3>2, BufferChanged DEF BufferDiffers
    <3> QED  BY <2>1, <2>2, <3>3
  <2>6. CASE c.op = "read"
    <3>1. PICK v \in Values : s = WithArray(Now, c.h, v)
      BY <1>2, <1>3, <2>6, EndFacts, Performed
    <3>2. \A i \in 1..Len(queues[e]) :
            queues[e][i].op # "kernel" => queues[e][i].h # c.h
      BY <1>7, <1>8 DEF TransfersInv, QueuesInv, Fits
    <3>3. n = WithArray(o, c.h, v)
      BY <1>8, <2>2, <2>3, <2>4, <3>1, <3>2, EndFacts, OtherArray
    <3>4. n.memory = o.memory /\ \A g \in HostPtrs : g # c.h => n.host[g] = o.host[g]
      BY <2>4, <3>3, ArrayChanged DEF ArrayDiffers
    <3> QED  BY <2>1, <2>2, <3>4
  <2>7. c.op \in {"write", "read", "kernel"}
    BY <1>3, EndFacts, Performed
  <2> QED  BY <2>5, <2>6, <2>7
<1>9. ASSUME NEW g \in HostPtrs PROVE FinalHost'[g] = FinalHost[g]
  <2>1. CASE Owner[g] = d
    BY <1>6, <2>1, FinalHostIs
  <2>2. CASE Owner[g] # d
    <3>1. Owner[g] \in Devices /\ g # c.h
      BY <1>7, <2>2, OwnerAssumption
    <3> QED  BY <1>8, <2>2, <3>1, FinalHostIs
  <2> QED  BY <2>1, <2>2
<1>10. \A e \in Devices, g \in HostPtrs :
        /\ Mapped(e, g)' <=> Mapped(e, g)
        /\ acc_get_deviceptr(e, g)' = acc_get_deviceptr(e, g)
  BY <1>1 DEF Mapped, acc_get_deviceptr, bimap_get_value_by_key_1
<1>11. ASSUME NEW e \in Devices, NEW g \in HostPtrs
       PROVE  FinalCopies'[e][g] = FinalCopies[e][g]
  <2>1. CASE e = d \/ ~Mapped(e, g)
    BY <1>6, <1>10, <2>1, FinalCopiesAre
  <2>2. CASE e # d /\ Mapped(e, g)
    <3>1. /\ acc_get_deviceptr(e, g) \in DevPtrs
          /\ acc_get_deviceptr(e, g) # c.b
      BY <1>7, <2>2, CopyFacts
    <3> QED  BY <1>8, <1>10, <2>2, <3>1, FinalCopiesAre
  <2> QED  BY <2>1, <2>2
<1> QED  BY <1>9, <1>11, HostSame, CopiesSame

-----------------------------------------------------------------------------
(* The invariant.  A new allocation gets a buffer no command uses, a new    *)
(* command a buffer of its device: buffers stay apart.                     *)
IsFree(b) == \A d \in Devices : \A i \in 1..Len(queues[d]) : queues[d][i].b # b

IsOld(c, d) == \E i \in 1..Len(queues[d]) : queues[d][i] = c

LEMMA BuffersStayApart ==
  ASSUME TransfersInv, BuffersAreExclusive', NEW d \in Devices,
         \A e \in Devices : \A b \in Live2(bimaps'[e]) :
           b \in Live2(bimaps[e]) \/ IsFree(b),
         \A e \in Devices : \A i \in 1..Len(queues'[e]) :
           \/ IsOld(queues'[e][i], e)
           \/ e = d /\ queues'[e][i].b \in Live2(bimaps'[d])
  PROVE  BuffersApart'
<1>1. ASSUME NEW e \in Devices, NEW f \in Devices, e # f,
             NEW o, IsOld(o, e)
      PROVE  o.b \notin Live2(bimaps'[f]) /\ o.b \notin Live2(bimaps[f]) /\ ~IsFree(o.b)
  <2>1. o.b \notin Live2(bimaps[f])
    BY <1>1 DEF TransfersInv, BuffersApart, IsOld
  <2>2. ~IsFree(o.b)
    BY <1>1 DEF IsFree, IsOld
  <2> QED  BY <2>1, <2>2
<1>2. ASSUME NEW e \in Devices, NEW f \in Devices, e # f,
             NEW o, IsOld(o, e), NEW p, IsOld(p, f)
      PROVE  o.b # p.b
  BY <1>2 DEF TransfersInv, BuffersApart, IsOld
<1>3. SUFFICES ASSUME NEW e \in Devices, NEW f \in Devices, e # f,
                      NEW i \in 1..Len(queues'[e])
               PROVE  /\ queues'[e][i].b \notin Live2(bimaps'[f])
                      /\ \A j \in 1..Len(queues'[f]) : queues'[f][j].b # queues'[e][i].b
  BY DEF BuffersApart
<1> PICK c : c = queues'[e][i]
  OBVIOUS
<1>4. \/ IsOld(c, e)
      \/ e = d /\ c.b \in Live2(bimaps'[d])
  OBVIOUS
<1>5. c.b \notin Live2(bimaps'[f])
  <2>1. CASE IsOld(c, e)
    BY <1>1, <1>3, <2>1
  <2>2. CASE e = d /\ c.b \in Live2(bimaps'[d])
    BY <1>3, <2>2 DEF BuffersAreExclusive
  <2> QED  BY <1>4, <2>1, <2>2
<1>6. ASSUME NEW j \in 1..Len(queues'[f]) PROVE queues'[f][j].b # c.b
  <2> PICK p : p = queues'[f][j]
    OBVIOUS
  <2>1. \/ IsOld(p, f)
        \/ f = d /\ p.b \in Live2(bimaps'[d])
    OBVIOUS
  <2>2. CASE IsOld(c, e) /\ IsOld(p, f)
    BY <1>2, <1>3, <2>2
  <2>3. CASE IsOld(c, e) /\ f = d /\ p.b \in Live2(bimaps'[d])
    <3>1. c.b \notin Live2(bimaps'[f])
      BY <1>1, <1>3, <2>3
    <3> QED  BY <2>3, <3>1
  <2>4. CASE IsOld(p, f) /\ e = d /\ c.b \in Live2(bimaps'[d])
    <3>1. p.b \notin Live2(bimaps'[e])
      BY <1>1, <1>3, <2>4
    <3> QED  BY <2>4, <3>1
  <2> QED  BY <1>3, <1>4, <2>1, <2>2, <2>3, <2>4
<1> QED  BY <1>5, <1>6

LEMMA QueuesKeptOld ==
  ASSUME TransfersInv, UNCHANGED queues
  PROVE  /\ queues' \in [Devices -> Seq(Command)]
         /\ \A e \in Devices : \A i \in 1..Len(queues'[e]) : IsOld(queues'[e][i], e)
BY DEF TransfersInv, ContentsOK, IsOld

LEMMA QueuedOld ==
  ASSUME TransfersInv, NEW d \in Devices, NEW c \in Command, Queued(d, c)
  PROVE  /\ queues' \in [Devices -> Seq(Command)]
         /\ \A e \in Devices : \A i \in 1..Len(queues'[e]) :
              \/ IsOld(queues'[e][i], e)
              \/ e = d /\ queues'[e][i] = c
<1>1. queues \in [Devices -> Seq(Command)]
  BY DEF TransfersInv, ContentsOK
<1>2. PICK q \in Seq(Command) : q = queues[d]
  BY <1>1
<1>3. PICK r : r = Append(q, c)
  OBVIOUS
<1>4. /\ r \in Seq(Command) /\ Len(r) = Len(q) + 1
      /\ r[Len(q) + 1] = c /\ \A i \in 1..Len(q) : r[i] = q[i]
  BY <1>3
<1>5. /\ queues' = [queues EXCEPT ![d] = r]
      /\ queues'[d] = r /\ \A e \in Devices : e # d => queues'[e] = queues[e]
  BY <1>1, <1>2, <1>3 DEF Queued
<1>6. queues' \in [Devices -> Seq(Command)]
  BY <1>1, <1>4, <1>5
<1>7. ASSUME NEW e \in Devices, NEW i \in 1..Len(queues'[e])
      PROVE  IsOld(queues'[e][i], e) \/ (e = d /\ queues'[e][i] = c)
  <2>1. CASE e # d
    BY <1>5, <2>1 DEF IsOld
  <2>2. CASE e = d
    <3>1. i \in 1..Len(q) \/ i = Len(q) + 1
      BY <1>2, <1>4, <1>5, <2>2
    <3> QED  BY <1>2, <1>4, <1>5, <2>2, <3>1 DEF IsOld
  <2> QED  BY <2>1, <2>2
<1> QED  BY <1>6, <1>7

LEMMA ExecutedOld ==
  ASSUME TransfersInv, NEW d \in Devices, Execute(d)
  PROVE  /\ queues' \in [Devices -> Seq(Command)]
         /\ \A e \in Devices : \A i \in 1..Len(queues'[e]) : IsOld(queues'[e][i], e)
<1>1. queues \in [Devices -> Seq(Command)] /\ queues[d] # <<>>
  BY DEF TransfersInv, ContentsOK, Execute
<1>2. PICK q \in Seq(Command) : q = queues[d]
  BY <1>1
<1>3. PICK r : r = Tail(q)
  OBVIOUS
<1>4. /\ r \in Seq(Command) /\ Len(r) = Len(q) - 1 /\ Len(q) \in Nat
      /\ \A i \in 1..Len(r) : r[i] = q[i + 1]
  BY <1>1, <1>2, <1>3
<1>5. /\ queues' = [queues EXCEPT ![d] = r]
      /\ queues'[d] = r /\ \A e \in Devices : e # d => queues'[e] = queues[e]
  BY <1>1, <1>2, <1>3 DEF Execute
<1>6. queues' \in [Devices -> Seq(Command)]
  BY <1>1, <1>4, <1>5
<1>7. ASSUME NEW e \in Devices, NEW i \in 1..Len(queues'[e])
      PROVE  IsOld(queues'[e][i], e)
  <2>1. CASE e # d
    BY <1>5, <2>1 DEF IsOld
  <2>2. CASE e = d
    <3>1. i \in 1..Len(r) /\ i + 1 \in 1..Len(q)
      BY <1>4, <1>5, <2>2
    <3> QED  BY <1>2, <1>4, <1>5, <2>2, <3>1 DEF IsOld
  <2> QED  BY <2>1, <2>2
<1> QED  BY <1>6, <1>7

(* What is shown of every step of a program that has not been stopped.     *)
Kept == EnvInv' /\ ContentsOK' /\ BuffersApart'

Implements == Blocking!BlockingNext \/ UNCHANGED <<FinalHost, FinalCopies>>

StepOK == (halted' = "no" => Kept) /\ Implements

LEMMA EnvUnchanged == ASSUME EnvInv, UNCHANGED envVars PROVE EnvInv'
BY DEF envVars, EnvInv, TypeOK, NoSpuriousHalt, MapsAreSound, SlotsAreWritten,
       OwnersAreExact, OldestFirst, BuffersAreExclusive, NoBufferLeak, SlotOf, Depth

LEMMA NothingToSee ==
  ASSUME UNCHANGED <<bimaps, queues, memory, host>>
  PROVE  Implements
BY DEF Implements, FinalHost, FinalCopies, AtTheEnd, Now, Mapped, acc_get_deviceptr,
       bimap_get_value_by_key_1

(* The queues and the contents stay; no allocation is added.               *)
LEMMA QuietStep ==
  ASSUME TransfersInv, EnvInv', UNCHANGED <<queues, memory, host>>,
         \A e \in Devices : Live2(bimaps'[e]) \subseteq Live2(bimaps[e])
  PROVE  Kept
<1>1. PICK d : d \in Devices \/ Devices = {}
  OBVIOUS
<1>2. BuffersAreExclusive'
  BY DEF EnvInv
<1>3. BuffersApart'
  <2>1. CASE Devices = {}
    BY <2>1 DEF BuffersApart
  <2>2. CASE d \in Devices
    BY <1>2, <2>2, QueuesKeptOld, BuffersStayApart
  <2> QED  BY <1>1, <2>1, <2>2
<1>4. ContentsOK'
  BY DEF TransfersInv, ContentsOK
<1> QED  BY <1>3, <1>4 DEF Kept

LEMMA IdleStep ==
  ASSUME TransfersInv, UNCHANGED envVars, UNCHANGED <<queues, memory, host>>
  PROVE  StepOK
<1>1. UNCHANGED bimaps /\ EnvInv'
  BY EnvUnchanged DEF TransfersInv, envVars
<1>2. Kept
  BY <1>1, QuietStep
<1> QED  BY <1>1, <1>2, NothingToSee DEF StepOK

LEMMA HaltStep ==
  ASSUME halted' # "no", UNCHANGED <<bimaps, queues, memory, host>>
  PROVE  StepOK
BY NothingToSee DEF StepOK

LEMMA PresentStep ==
  ASSUME TransfersInv, NEW d \in Devices, NEW h \in HostPtrs, Owner[h] = d, Mapped(d, h),
         NEW op \in {"write", "read", "kernel"},
         Enqueue(d, op, acc_get_deviceptr(d, h), h),
         UNCHANGED envVars, UNCHANGED <<memory, host>>
  PROVE  StepOK
<1>1. UNCHANGED bimaps /\ EnvInv'
  BY EnvUnchanged DEF TransfersInv, envVars
<1> PICK b \in DevPtrs : b = acc_get_deviceptr(d, h) /\ b \in Live2(bimaps[d])
  BY CopyFacts
<1>2. PICK c \in Command : Queued(d, c) /\ c.b = b
  BY EnqueueIsQueued
<1>3. /\ queues' \in [Devices -> Seq(Command)]
      /\ \A e \in Devices : \A i \in 1..Len(queues'[e]) :
           IsOld(queues'[e][i], e) \/ (e = d /\ queues'[e][i].b \in Live2(bimaps'[d]))
  BY <1>1, <1>2, QueuedOld
<1>4. BuffersAreExclusive' /\ \A e \in Devices : Live2(bimaps'[e]) \subseteq Live2(bimaps[e])
  BY <1>1 DEF EnvInv
<1>5. BuffersApart'
  BY <1>3, <1>4, BuffersStayApart
<1>6. ContentsOK'
  BY <1>3 DEF TransfersInv, ContentsOK
<1>7. Blocking!BlockingNext
  BY <1>1, EnqueueRefines
<1> QED  BY <1>1, <1>5, <1>6, <1>7 DEF StepOK, Kept, Implements

(* After an allocation, with or without the command that fills the buffer. *)
LEMMA AllocationKeeps ==
  ASSUME TransfersInv, NEW d \in Devices, NEW h \in HostPtrs, NEW n \in Sizes,
         SizeAgrees(d, h, n), acc_create_(d, h, n), Allocated(d, h), halted' = "no",
         UNCHANGED host, queues' \in [Devices -> Seq(Command)],
         \A e \in Devices : \A i \in 1..Len(queues'[e]) :
           \/ IsOld(queues'[e][i], e)
           \/ e = d /\ queues'[e][i].b = acc_get_deviceptr(d, h)'
  PROVE  Kept
<1>1. EnvInv' /\ BuffersAreExclusive'
  BY AllocationEffect DEF EnvInv
<1>2. PICK b \in DevPtrs \ buffers :
        /\ Grows(d, h, b) /\ acc_get_deviceptr(d, h)' = b
        /\ memory' = [memory EXCEPT ![b] = Junk]
        /\ IsFree(b)
  BY AllocationEffect DEF IsFree
<1>3. \A e \in Devices : \A x \in Live2(bimaps'[e]) :
        x \in Live2(bimaps[e]) \/ IsFree(x)
  BY <1>2 DEF Grows
<1>4. b \in Live2(bimaps'[d])
  BY <1>2 DEF Grows
<1>5. \A e \in Devices : \A i \in 1..Len(queues'[e]) :
        \/ IsOld(queues'[e][i], e)
        \/ e = d /\ queues'[e][i].b \in Live2(bimaps'[d])
  BY <1>2, <1>4
<1>6. BuffersApart'
  BY <1>1, <1>3, <1>5, BuffersStayApart
<1>7. ContentsOK'
  BY <1>2 DEF TransfersInv, ContentsOK, Values
<1> QED  BY <1>1, <1>6, <1>7 DEF Kept

LEMMA CreateCallStep ==
  ASSUME TransfersInv, NEW d \in Devices, NEW h \in HostPtrs, NEW n \in Sizes,
         SizeAgrees(d, h, n), Create(d, h, n)
  PROVE  StepOK
<1>1. acc_create_(d, h, n) /\ Allocated(d, h) /\ UNCHANGED <<queues, host>>
  BY DEF Create
<1>2. CASE halted' = "no"
  <2>1. Kept
    BY <1>1, <1>2, QueuesKeptOld, AllocationKeeps
  <2> QED  BY <1>2, <2>1, CreateRefines DEF StepOK, Implements
<1>3. CASE halted' # "no"
  <2>1. UNCHANGED bimaps
    BY <1>1, <1>3 DEF acc_create_, acc_map_data_, Halt, Running
  <2>2. UNCHANGED memory
    BY <1>1, <1>3 DEF Allocated
  <2> QED  BY <1>1, <1>3, <2>1, <2>2, HaltStep
<1> QED  BY <1>2, <1>3

LEMMA CopyinStep ==
  ASSUME TransfersInv, NEW d \in Devices, NEW h \in HostPtrs, NEW n \in Sizes, Owner[h] = d,
         SizeAgrees(d, h, n), acc_copyin_(d, h, n)
  PROVE  StepOK
<1>1. acc_create_(d, h, n) /\ Allocated(d, h) /\ UNCHANGED host
  BY DEF acc_copyin_
<1>2. CASE halted' = "no"
  <2>1. Enqueue(d, "write", acc_get_deviceptr(d, h)', h)
    BY <1>2 DEF acc_copyin_, acc_memcpy_to_device_, NewBuffer
  <2>2. acc_get_deviceptr(d, h)' \in DevPtrs
    BY <1>1, <1>2, AllocationEffect
  <2>3. PICK c \in Command : Queued(d, c) /\ c.b = acc_get_deviceptr(d, h)'
    BY <2>1, <2>2, EnqueueIsQueued
  <2>4. /\ queues' \in [Devices -> Seq(Command)]
        /\ \A e \in Devices : \A i \in 1..Len(queues'[e]) :
             \/ IsOld(queues'[e][i], e)
             \/ e = d /\ queues'[e][i].b = acc_get_deviceptr(d, h)'
    BY <2>3, QueuedOld
  <2>5. Kept
    BY <1>1, <1>2, <2>4, AllocationKeeps
  <2> QED  BY <1>2, <2>5, CopyinRefines DEF StepOK, Implements
<1>3. CASE halted' # "no"
  <2>1. UNCHANGED bimaps
    BY <1>1, <1>3 DEF acc_create_, acc_map_data_, Halt, Running
  <2>2. UNCHANGED <<memory, queues>>
    BY <1>3 DEF Allocated, acc_copyin_
  <2> QED  BY <1>1, <1>3, <2>1, <2>2, HaltStep
<1> QED  BY <1>2, <1>3

LEMMA DeleteCallStep ==
  ASSUME TransfersInv, NEW d \in Devices, NEW h \in HostPtrs, NEW n \in Sizes,
         SizeAgrees(d, h, n), Newest(d, h), Delete(d, h, n)
  PROVE  StepOK
<1>1. acc_delete_(d, h, n) /\ UNCHANGED <<queues, memory, host>>
  BY DEF Delete, transferVars
<1>2. acc_check_present(d, h, n)
  BY EnvFacts DEF TransfersInv, Newest, SizeAgrees, Mapped
<1>3. EnvInv' /\ AllocationsKept /\ Shrinks
  BY <1>1, <1>2, DeleteStep DEF TransfersInv
<1>4. Kept
  BY <1>1, <1>3, QuietStep DEF Shrinks
<1> QED  BY <1>1, <1>3, <1>4, ReleaseRefines DEF StepOK, Implements

LEMMA PopCallStep ==
  ASSUME TransfersInv, Pop
  PROVE  StepOK
<1>1. acc_pop_data_environment /\ UNCHANGED <<queues, memory, host>>
  BY DEF Pop
<1>2. EnvInv' /\ AllocationsKept /\ Shrinks
  BY <1>1, PopStep DEF TransfersInv
<1>3. Kept
  BY <1>1, <1>2, QuietStep DEF Shrinks
<1> QED  BY <1>1, <1>2, <1>3, ReleaseRefines DEF StepOK, Implements

LEMMA PushCallStep ==
  ASSUME TransfersInv, Push
  PROVE  StepOK
<1>1. acc_push_data_environment /\ UNCHANGED <<queues, memory, host>>
  BY DEF Push, transferVars
<1>2. EnvInv' /\ UNCHANGED bimaps
  BY <1>1, PushStep DEF TransfersInv, acc_push_data_environment
<1>3. Kept
  BY <1>1, <1>2, QuietStep
<1> QED  BY <1>1, <1>2, <1>3, NothingToSee DEF StepOK

LEMMA ExecuteCallStep ==
  ASSUME TransfersInv, NEW d \in Devices, Execute(d)
  PROVE  StepOK
<1>1. /\ UNCHANGED envVars /\ queues[d] # <<>>
      /\ memory' = Perform(Now, Head(queues[d])).memory
      /\ host' = Perform(Now, Head(queues[d])).host
  BY DEF Execute
<1>2. Perform(Now, Head(queues[d])) \in Store
  BY <1>1, EndFacts, PerformFirst, Performed
<1>3. ContentsOK'
  BY <1>1, <1>2, ExecutedOld DEF ContentsOK, Store
<1>4. EnvInv' /\ BuffersAreExclusive' /\ UNCHANGED bimaps
  BY <1>1, EnvUnchanged DEF TransfersInv, EnvInv, envVars
<1>5. BuffersApart'
  BY <1>4, ExecutedOld, BuffersStayApart
<1> QED  BY <1>3, <1>4, <1>5, ExecuteRefines DEF StepOK, Implements, Kept

LEMMA HostWriteCallStep ==
  ASSUME TransfersInv, NEW h \in HostPtrs, NEW v \in Contents, HostWrite(h, v)
  PROVE  StepOK
<1>1. UNCHANGED envVars /\ UNCHANGED <<queues, memory>> /\ host' = [host EXCEPT ![h] = v]
  BY DEF HostWrite
<1>2. ContentsOK'
  BY <1>1 DEF TransfersInv, ContentsOK, Values
<1>3. EnvInv' /\ BuffersAreExclusive' /\ UNCHANGED bimaps
  BY <1>1, EnvUnchanged DEF TransfersInv, EnvInv, envVars
<1>4. \A d \in Devices : BuffersApart'
  BY <1>1, <1>3, QueuesKeptOld, BuffersStayApart
<1>5. BuffersApart'
  BY <1>4 DEF BuffersApart
<1> QED  BY <1>2, <1>3, <1>5, HostWriteRefines DEF StepOK, Implements, Kept

-----------------------------------------------------------------------------
(* Every call, then every step.                                            *)
LEMMA OnPresentStep ==
  ASSUME TransfersInv, NEW d \in Devices, NEW h \in HostPtrs, NEW n \in Sizes, Owner[h] = d,
         acc_copyout_(d, h, n) \/ acc_update_device_(d, h, n) \/ acc_update_self_(d, h, n)
  PROVE  StepOK
<1>1. CASE acc_check_present(d, h, n)
  <2>1. PICK op \in {"write", "read", "kernel"} :
          /\ Enqueue(d, op, acc_get_deviceptr(d, h), h)
          /\ UNCHANGED envVars /\ UNCHANGED <<memory, host>>
    BY <1>1 DEF acc_copyout_, acc_update_device_, acc_update_self_, OnPresent,
                acc_memcpy_to_device_, acc_memcpy_from_device_
  <2>2. Mapped(d, h)
    BY <1>1 DEF acc_check_present
  <2> QED  BY <2>1, <2>2, PresentStep
<1>2. CASE ~acc_check_present(d, h, n)
  <2>1. halted' # "no" /\ UNCHANGED <<bimaps, queues, memory, host>>
    BY <1>2 DEF acc_copyout_, acc_update_device_, acc_update_self_, OnPresent, Halt,
                transferVars
  <2> QED  BY <2>1, HaltStep
<1> QED  BY <1>1, <1>2

LEMMA KernelStep ==
  ASSUME TransfersInv, NEW d \in Devices, NEW h \in HostPtrs, Owner[h] = d,
         acc_enqueue_kernel(d, h)
  PROVE  StepOK
<1>1. CASE Mapped(d, h)
  <2>1. /\ Enqueue(d, "kernel", acc_get_deviceptr(d, h), h)
        /\ UNCHANGED envVars /\ UNCHANGED <<memory, host>>
    BY <1>1 DEF acc_enqueue_kernel
  <2> QED  BY <1>1, <2>1, PresentStep
<1>2. CASE ~Mapped(d, h)
  <2>1. halted' # "no" /\ UNCHANGED <<bimaps, queues, memory, host>>
    BY <1>2 DEF acc_enqueue_kernel, Halt, transferVars
  <2> QED  BY <2>1, HaltStep
<1> QED  BY <1>1, <1>2

LEMMA CallStep ==
  ASSUME TransfersInv, NEW d \in Devices, NEW h \in HostPtrs, NEW n \in Sizes, Call(d, h, n)
  PROVE  StepOK
<1>0. Owner[h] = d /\ SizeAgrees(d, h, n)
  BY DEF Call
<1>1. CASE Create(d, h, n)
  BY <1>0, <1>1, CreateCallStep
<1>2. CASE acc_copyin_(d, h, n)
  BY <1>0, <1>2, CopyinStep
<1>3. UNCHANGED vars => StepOK
  BY IdleStep DEF vars, transferVars
<1>4. CASE acc_present_or_copyin_(d, h, n)
  BY <1>0, <1>3, <1>4, CopyinStep DEF acc_present_or_copyin_
<1>5. CASE acc_copyout_(d, h, n) \/ acc_update_device_(d, h, n) \/ acc_update_self_(d, h, n)
  BY <1>0, <1>5, OnPresentStep
<1>6. CASE acc_present_or_copyout_(d, h, n)
  BY <1>0, <1>3, <1>6, OnPresentStep DEF acc_present_or_copyout_
<1>7. CASE acc_enqueue_kernel(d, h)
  BY <1>0, <1>7, KernelStep
<1>8. CASE Newest(d, h) /\ Delete(d, h, n)
  BY <1>0, <1>8, DeleteCallStep
<1> QED
  BY <1>1, <1>2, <1>4, <1>5, <1>6, <1>7, <1>8 DEF Call

LEMMA EveryStep ==
  ASSUME TransfersInv, [TransfersNext]_vars
  PROVE  StepOK
<1>1. ASSUME NEW d \in Devices, NEW h \in HostPtrs, NEW n \in Sizes, Call(d, h, n)
      PROVE  StepOK
  BY <1>1, CallStep
<1>2. CASE Push
  BY <1>2, PushCallStep
<1>3. ASSUME NEW R, acc_region_start(R) \/ acc_region_stop(R)
      PROVE  StepOK
  BY <1>3, IdleStep DEF acc_region_start, acc_region_stop
<1>4. ASSUME NEW d \in Devices, acc_set_device_num(d)
      PROVE  StepOK
  BY <1>4, IdleStep DEF acc_set_device_num
<1>5. ASSUME NEW h \in HostPtrs, NEW v \in Contents, HostWrite(h, v)
      PROVE  StepOK
  BY <1>5, HostWriteCallStep
<1>6. ASSUME NEW d \in Devices, Execute(d)
      PROVE  StepOK
  BY <1>6, ExecuteCallStep
<1>7. CASE Pop
  BY <1>7, PopCallStep
<1>8. CASE UNCHANGED vars
  BY <1>8, IdleStep DEF vars, transferVars
<1> QED
  BY <1>1, <1>2, <1>3, <1>4, <1>5, <1>6, <1>7, <1>8 DEF TransfersNext

(* A program that was stopped does nothing any more.                       *)
LEMMA StoppedIsOver ==
  ASSUME ~Running, [TransfersNext]_vars
  PROVE  UNCHANGED vars
<1>1. ASSUME NEW d \in Devices, NEW h \in HostPtrs, NEW n \in Sizes, Call(d, h, n)
      PROVE  FALSE
  BY <1>1 DEF Call, Create, acc_copyin_, acc_present_or_copyin_, acc_copyout_,
              acc_present_or_copyout_, acc_update_device_, acc_update_self_, OnPresent,
              acc_enqueue_kernel, Delete, acc_delete_, acc_create_
<1>2. ~Push /\ ~Pop
  BY DEF Push, Pop, acc_push_data_environment, acc_pop_data_environment
<1>3. \A R : ~acc_region_start(R) /\ ~acc_region_stop(R)
  BY DEF acc_region_start, acc_region_stop
<1>4. \A d : ~acc_set_device_num(d) /\ ~Execute(d)
  BY DEF acc_set_device_num, Execute
<1>5. \A h, v : ~HostWrite(h, v)
  BY DEF HostWrite
<1> QED  BY <1>1, <1>2, <1>3, <1>4, <1>5 DEF TransfersNext

Guarded == QueuesInv /\ (Running => TransfersInv)

LEMMA InitGuarded == TransfersInit => Guarded /\ Blocking!BlockingInit
<1> SUFFICES ASSUME TransfersInit PROVE Guarded /\ Blocking!BlockingInit
  OBVIOUS
<1>1. QueuesInv /\ EnvInv
  BY InitQueuesInv, EnvInvInitially DEF TransfersInit
<1>2. ContentsOK
  BY NumValuesAssumption DEF TransfersInit, ContentsOK, Values, Contents
<1>3. BuffersApart
  BY DEF TransfersInit, BuffersApart
<1>4. TransfersInv
  BY <1>1, <1>2, <1>3 DEF TransfersInv
<1>5. \A d \in Devices : AtTheEnd(d) = Now
  BY <1>4, EndFacts, NothingToPerform DEF TransfersInit
<1>6. \A h \in HostPtrs : Owner[h] \in Devices /\ FinalHost[h] = 0
  BY <1>5, OwnerAssumption, FinalHostIs DEF TransfersInit, Now
<1>7. \A d \in Devices, h \in HostPtrs : ~Mapped(d, h)
  BY CapacityAssumption, HostPtrsAreFinite, AllocIsSound DEF TransfersInit, Init, Mapped
<1>8. \A d \in Devices, h \in HostPtrs : FinalCopies[d][h] = None
  BY <1>7, FinalCopiesAre
<1>9. FinalHost = [h \in HostPtrs |-> 0]
  BY <1>6 DEF FinalHost
<1>10. FinalCopies = [d \in Devices |-> [h \in HostPtrs |-> None]]
  <2>1. IsGrid(FinalCopies)
    BY CopiesAreFunctions
  <2> QED  BY <1>8, <2>1 DEF IsGrid
<1> QED  BY <1>1, <1>4, <1>9, <1>10 DEF Guarded, Blocking!BlockingInit

LEMMA NextGuarded ==
  Guarded /\ [TransfersNext]_vars => Guarded' /\ Implements
<1> SUFFICES ASSUME Guarded, [TransfersNext]_vars
             PROVE  Guarded' /\ Implements
  OBVIOUS
<1>1. QueuesInv'
  BY NextQueuesInv DEF Guarded
<1>2. CASE Running
  <2>1. StepOK
    BY <1>2, EveryStep DEF Guarded
  <2>2. Running' => TransfersInv'
    BY <1>1, <2>1 DEF StepOK, Kept, TransfersInv, Running
  <2> QED  BY <1>1, <2>1, <2>2 DEF Guarded, StepOK
<1>3. CASE ~Running
  <2>1. UNCHANGED vars
    BY <1>3, StoppedIsOver
  <2>2. ~Running' /\ Implements
    BY <1>3, <2>1, NothingToSee DEF vars, envVars, transferVars, Running
  <2> QED  BY <1>1, <2>2 DEF Guarded
<1> QED  BY <1>2, <1>3

(* A program that leaves alone the arrays it has given to a call until a   *)
(* wait for their device, and has up to six arrays on each device, cannot  *)
(* tell this runtime from one where every transfer and every kernel takes  *)
(* effect in the call, however slowly and in whatever order the devices    *)
(* work (private/memory.c, private/kernel.c).                              *)
THEOREM TransfersImplementBlockingMemory == TransfersSpec => ImplementsBlockingMemory
<1>1. TransfersInit => Guarded /\ Blocking!BlockingInit
  BY InitGuarded
<1>2. Guarded /\ [TransfersNext]_vars =>
        Guarded' /\ [Blocking!BlockingNext]_(Blocking!blockingVars)
  BY NextGuarded DEF Implements, Blocking!blockingVars
<1> QED
  BY <1>1, <1>2, PTL
  DEF TransfersSpec, ImplementsBlockingMemory, Blocking!BlockingSpec
=============================================================================
