------------------------- MODULE WorldGossipProofs -------------------------
(***************************************************************************)
(* Proofs about WorldGossip, for every set of nodes, keys and values: type *)
(* correctness, uniqueness of versions, integrity, the safety of the       *)
(* gossip watermark, monotone replicas, strong convergence, and that no    *)
(* record is starved.                                                      *)
(***************************************************************************)
EXTENDS ExportFairness, FiniteSetTheorems, TLAPS

(***************************************************************************)
(* merge_shared's rule is a strict order on (timestamp, origin): the       *)
(* facts that make merging commutative, associative and idempotent.        *)
(***************************************************************************)
LEMMA SupersedesOrder ==
  ASSUME NEW a \in Version, NEW b \in Version, NEW c \in Version
  PROVE  /\ ~Supersedes(a, a)
         /\ Supersedes(a, b) => ~Supersedes(b, a)
         /\ Supersedes(a, b) /\ ~Supersedes(c, b) => Supersedes(a, c)
         /\ ~Supersedes(a, b) /\ ~Supersedes(b, a) =>
              a.ts = b.ts /\ a.origin = b.origin
  BY DEF Supersedes, Version

\* A slot that does not exist loses against every version.
LEMMA AbsentVersion ==
  /\ Absent \in Version
  /\ \A a \in Version : ~Supersedes(Absent, a)
  BY DEF Absent, Version, Supersedes

\* Merging is well typed and never moves a slot backwards.
LEMMA MergeNewest ==
  ASSUME NEW slots \in Records, NEW recs \in Records
  PROVE  /\ Merge(slots, recs) \in Records
         /\ \A k \in Key :
              /\ Merge(slots, recs)[k] \in {slots[k], recs[k]}
              /\ ~Supersedes(slots[k], Merge(slots, recs)[k])
              /\ ~Supersedes(recs[k], Merge(slots, recs)[k])
              /\ Merge(slots, recs)[k] = slots[k] \/ Supersedes(Merge(slots, recs)[k], slots[k])
  BY SupersedesOrder DEF Merge, Newest, Records
-----------------------------------------------------------------------------

LEMMA InitIInv == Init => IInv
<1> SUFFICES ASSUME Init PROVE IInv
  OBVIOUS
<1> USE DEF Init
<1>1. TypeOK
  BY AbsentVersion DEF TypeOK
<1>2. ClocksDominate
  BY DEF ClocksDominate, Absent
<1>3. VersionUnique /\ Integrity /\ NoWriteSkipped /\ SenderAhead
  BY DEF VersionUnique, Integrity, NoWriteSkipped, SenderAhead
<1> QED
  BY <1>1, <1>2, <1>3 DEF IInv

(***************************************************************************)
(* A local write: the fresh tick is above everything the node holds, wrote *)
(* or exported, so the new version is unique, due, and wins its slot.      *)
(***************************************************************************)
LEMMA WriteIInv ==
  ASSUME IInv, NEW n \in Node, NEW k \in Key, NEW val \in Value \cup {Tombstone},
         Write(n, k, val)
  PROVE  /\ IInv'
         /\ Supersedes(store'[n][k], store[n][k])
         /\ store' = [store EXCEPT ![n][k] = store'[n][k]]
<1> DEFINE ver == [ts |-> clock[n] + 1, origin |-> n, val |-> val]
<1>1. ver \in Version
  BY NodeAssumption DEF IInv, TypeOK, Version
<1>2. /\ clock' = [clock EXCEPT ![n] = @ + 1]
      /\ store' = [store EXCEPT ![n][k] = ver]
      /\ authored' = authored \cup {Authored(k, ver)}
      /\ UNCHANGED <<watermark, lastExport, frames>>
  BY DEF Write, Stamp
<1>3. TypeOK'
  BY <1>1, <1>2 DEF IInv, TypeOK, Authored
<1>4. /\ store'[n][k] = ver
      /\ \A m \in Node, j \in Key : m # n \/ j # k => store'[m][j] = store[m][j]
      /\ clock'[n] = clock[n] + 1
      /\ \A m \in Node : m # n => clock'[m] = clock[m]
  BY <1>2 DEF IInv, TypeOK
<1>5. Supersedes(ver, store[n][k])
  BY <1>1 DEF IInv, TypeOK, ClocksDominate, Supersedes, Version
<1>6. ClocksDominate'
  <2>1. \A r \in authored' : r.ver.origin \in Node /\ r.ver.ts \in 1..clock'[r.ver.origin]
    BY <1>2, <1>4 DEF IInv, TypeOK, ClocksDominate, Authored, Version
  <2>2. \A m \in Node : watermark'[m] <= clock'[m]
    BY <1>2, <1>4 DEF IInv, TypeOK, ClocksDominate
  <2>3. \A m \in Node, j \in Key : store'[m][j].ts <= clock'[m]
    BY <1>2, <1>4 DEF IInv, TypeOK, ClocksDominate, Version
  <2> QED
    BY <2>1, <2>2, <2>3 DEF ClocksDominate
<1>7. VersionUnique'
  BY <1>2, <1>4 DEF IInv, TypeOK, ClocksDominate, VersionUnique, Authored, Version
<1>8. Integrity'
  BY <1>2, <1>4 DEF IInv, Integrity
<1>9. NoWriteSkipped'
  <2>1. k \in Due(n)'
    BY <1>2, <1>4 DEF IInv, TypeOK, ClocksDominate, Due
  <2>2. \A m \in Node, j \in Key : m # n \/ j # k => (j \in Due(m)' <=> j \in Due(m))
    BY <1>2, <1>4 DEF Due
  <2> QED
    BY <1>2, <1>4, <2>1, <2>2 DEF IInv, NoWriteSkipped
<1>10. SenderAhead'
  <2> SUFFICES ASSUME NEW f \in frames, NEW j \in Key
               PROVE  ~Supersedes(f.recs[j], store'[f.sender][j])
    BY <1>2 DEF SenderAhead
  <2>1. f.recs[j] \in Version /\ f.sender \in Node /\ store[f.sender][j] \in Version
    BY DEF IInv, TypeOK, Frame, Records
  <2>2. ~Supersedes(f.recs[j], store[f.sender][j])
    BY DEF IInv, SenderAhead
  <2> QED
    BY <1>1, <1>4, <1>5, <2>1, <2>2, SupersedesOrder
<1> QED
  BY Zenon, <1>2, <1>3, <1>4, <1>5, <1>6, <1>7, <1>8, <1>9, <1>10 DEF IInv

(***************************************************************************)
(* A delta export: the clamp keeps the watermark below every record left   *)
(* over, so what the watermark passes is in the frame.                     *)
(***************************************************************************)
LEMMA GossipIInv ==
  ASSUME IInv, NEW n \in Node, GossipDelta(n)
  PROVE  IInv' /\ store' = store
<1>1. PICK taken \in (SUBSET Due(n)) \ {{}}, w \in 0..clock[n] :
        /\ IncludedMaxTs(Timestamps(n, taken), Timestamps(n, Due(n) \ taken), w)
        /\ watermark' = [watermark EXCEPT ![n] = w]
        /\ lastExport' = [lastExport EXCEPT ![n] =
                            [k \in Key |-> IF k \in taken THEN clock[n] ELSE @[k]]]
        /\ frames' = frames \cup {DeltaFrame(n, taken)}
        /\ UNCHANGED <<store, clock, authored>>
  BY Zenon DEF GossipDelta, SendDelta, Pack
<1> DEFINE new == DeltaFrame(n, taken)
<1> new \in frames' /\ frames' = frames \cup {new}
  BY <1>1
<1> new.sender = n /\ \A k \in Key : new.recs[k] = IF k \in taken THEN store[n][k] ELSE Absent
  BY DEF DeltaFrame
<1> HIDE DEF new
<1>2. new \in Frame
  BY AbsentVersion DEF new, DeltaFrame, IInv, TypeOK, Frame, Records
<1>3. TypeOK'
  <2>1. lastExport' \in [Node -> [Key -> Nat]]
    BY <1>1 DEF IInv, TypeOK
  <2>2. watermark' \in [Node -> Nat] /\ frames' \subseteq Frame
    BY <1>1, <1>2 DEF IInv, TypeOK
  <2> QED
    BY <1>1, <2>1, <2>2 DEF IInv, TypeOK
<1>4. ClocksDominate'
  BY <1>1 DEF IInv, TypeOK, ClocksDominate
<1>5. VersionUnique'
  BY <1>1 DEF IInv, VersionUnique
<1>6. Integrity'
  BY <1>1 DEF IInv, Integrity
<1>7. NoWriteSkipped'
  <2> SUFFICES ASSUME NEW m \in Node, NEW k \in Key,
                      store[m][k] # Absent,
                      ~ \E f \in frames' : f.recs[k] = store[m][k]
               PROVE  store[m][k].origin = m /\ k \in Due(m)'
    BY <1>1 DEF NoWriteSkipped
  <2>1. store[m][k].origin = m /\ k \in Due(m)
    BY <1>1 DEF IInv, NoWriteSkipped
  <2>2. CASE m # n
    BY <1>1, <2>1, <2>2 DEF Due, IInv, TypeOK
  <2>3. CASE m = n
    <3>1. k \notin taken
      BY <2>3
    <3>2. store[n][k].ts \in Timestamps(n, Due(n) \ taken)
      BY <2>1, <2>3, <3>1 DEF Timestamps
    <3>3. \A t \in Timestamps(n, Due(n) \ taken) : t \in Nat
      BY DEF Timestamps, Due, IInv, TypeOK, Version
    <3>4. \A t \in Timestamps(n, taken) : t \in Nat
      BY DEF Timestamps, Due, IInv, TypeOK, Version
    <3> DEFINE left == Timestamps(n, Due(n) \ taken)
    <3>5. PICK top \in Timestamps(n, taken) :
            \/ (\A t \in left : t > top) /\ w = top
            \/ \E low \in left : (\A t \in left : low <= t) /\ w = low - 1
      BY <1>1, Zenon DEF IncludedMaxTs
    <3>6. top \in Nat /\ w \in Nat
      BY <3>4 DEF IInv, TypeOK
    <3> HIDE DEF left
    <3>7. w < store[n][k].ts
      <4>1. CASE (\A t \in left : t > top) /\ w = top
        BY Zenon, <3>2, <3>6, <4>1 DEF left
      <4>2. CASE \E low \in left : (\A t \in left : low <= t) /\ w = low - 1
        <5>1. PICK low \in left : (\A t \in left : low <= t) /\ w = low - 1
          BY <4>2
        <5>2. low \in Nat /\ low <= store[n][k].ts /\ store[n][k].ts \in Nat
          BY Zenon, <3>2, <3>3, <5>1 DEF left
        <5> QED
          BY <5>1, <5>2
      <4> QED
        BY <3>5, <4>1, <4>2
    <3> QED
      BY <1>1, <2>1, <2>3, <3>7 DEF Due, IInv, TypeOK
  <2> QED
    BY <2>2, <2>3
<1>8. SenderAhead'
  <2>1. ASSUME NEW k \in Key PROVE ~Supersedes(new.recs[k], store[n][k])
    <3>1. store[n][k] \in Version /\ new.recs[k] \in {store[n][k], Absent}
      BY DEF IInv, TypeOK
    <3> QED
      BY <3>1, AbsentVersion, SupersedesOrder
  <2> QED
    BY <1>1, <2>1 DEF IInv, SenderAhead
<1> QED
  BY <1>1, <1>3, <1>4, <1>5, <1>6, <1>7, <1>8 DEF IInv

\* A failed export only moves export marks, which no safety property reads.
LEMMA ExportFailedIInv ==
  ASSUME IInv, NEW n \in Node, ExportFailed(n)
  PROVE  IInv' /\ store' = store
<1>1. PICK taken \in (SUBSET Due(n)) \ {{}} :
        lastExport' = [lastExport EXCEPT ![n] =
                         [k \in Key |-> IF k \in taken THEN clock[n] ELSE @[k]]]
  BY Zenon DEF ExportFailed, Pack
<1>2. UNCHANGED <<store, clock, watermark, frames, authored>>
  BY DEF ExportFailed
<1>3. TypeOK'
  BY <1>1, <1>2 DEF IInv, TypeOK
<1>4. ClocksDominate' /\ VersionUnique' /\ Integrity'
  BY <1>2 DEF IInv, ClocksDominate, VersionUnique, Integrity
<1>5. NoWriteSkipped' /\ SenderAhead'
  BY <1>2 DEF IInv, NoWriteSkipped, SenderAhead, Due
<1> QED
  BY <1>2, <1>3, <1>4, <1>5 DEF IInv

(***************************************************************************)
(* An import, whole or truncated: every slot keeps the winner of what it   *)
(* held and what arrived, and what arrived is carried by a frame.          *)
(***************************************************************************)
LEMMA AbsorbIInv ==
  ASSUME IInv, NEW n \in Node, NEW f \in frames, NEW recs \in Records,
         \A k \in Key : recs[k] \in {f.recs[k], Absent},
         Absorb(n, recs)
  PROVE  /\ IInv'
         /\ store' = [store EXCEPT ![n] = Merge(store[n], recs)]
<1>1. PICK c \in {clock[n]} \cup {recs[k].ts : k \in Key} :
        /\ clock[n] <= c
        /\ \A k \in Key : recs[k].ts <= c
        /\ clock' = [clock EXCEPT ![n] = c]
  BY Zenon DEF Absorb
<1>2. /\ store' = [store EXCEPT ![n] = Merge(store[n], recs)]
      /\ UNCHANGED <<watermark, lastExport, frames, authored>>
  BY DEF Absorb
<1>3. store[n] \in Records /\ c \in Nat
  BY <1>1 DEF IInv, TypeOK, Records, Version
<1>4. TypeOK'
  BY <1>1, <1>2, <1>3, MergeNewest DEF IInv, TypeOK, Records
<1>5. /\ \A m \in Node : clock[m] <= clock'[m]
      /\ clock'[n] = c
      /\ \A m \in Node : m # n => store'[m] = store[m]
      /\ store'[n] = Merge(store[n], recs)
  BY <1>1, <1>2 DEF IInv, TypeOK
<1>6. ClocksDominate'
  <2>1. \A r \in authored' : r.ver.origin \in Node /\ r.ver.ts \in 1..clock'[r.ver.origin]
    BY <1>1, <1>2, <1>4, <1>5 DEF IInv, TypeOK, ClocksDominate, Version
  <2>2. \A m \in Node : watermark'[m] <= clock'[m]
    BY <1>1, <1>2, <1>4, <1>5 DEF IInv, TypeOK, ClocksDominate
  <2>3. ASSUME NEW m \in Node, NEW k \in Key
        PROVE  store'[m][k].ts <= clock'[m]
    <3>1. CASE m = n
      <4>1. store'[n][k] \in {store[n][k], recs[k]}
        BY <1>3, <1>5, MergeNewest
      <4>2. store[n][k].ts <= clock[n] /\ store[n][k].ts \in Nat /\ clock[n] \in Nat
        BY DEF IInv, TypeOK, ClocksDominate, Version
      <4> QED
        BY <1>1, <1>3, <1>5, <3>1, <4>1, <4>2
    <3>2. CASE m # n
      BY <1>1, <1>4, <1>5, <3>2 DEF IInv, TypeOK, ClocksDominate, Version
    <3> QED
      BY <3>1, <3>2
  <2> QED
    BY <2>1, <2>2, <2>3 DEF ClocksDominate
<1>7. VersionUnique'
  BY <1>2 DEF IInv, VersionUnique
<1>8. ASSUME NEW k \in Key
      PROVE  store'[n][k] = store[n][k] \/ store'[n][k] = f.recs[k] \/ store'[n][k] = Absent
  BY <1>3, <1>5, MergeNewest
<1>9. Integrity'
  BY <1>2, <1>5, <1>8 DEF IInv, Integrity
<1>10. NoWriteSkipped'
  <2> SUFFICES ASSUME NEW m \in Node, NEW k \in Key
               PROVE  \/ store'[m][k] = Absent
                      \/ store'[m][k].origin = m /\ k \in Due(m)'
                      \/ \E g \in frames : g.recs[k] = store'[m][k]
    BY <1>2 DEF NoWriteSkipped
  <2>1. CASE store'[m][k] = store[m][k]
    BY <1>2, <2>1 DEF IInv, NoWriteSkipped, Due
  <2>2. CASE store'[m][k] # store[m][k]
    BY <1>5, <1>8, <2>2
  <2> QED
    BY <2>1, <2>2
<1>11. SenderAhead'
  <2> SUFFICES ASSUME NEW g \in frames, NEW k \in Key
               PROVE  ~Supersedes(g.recs[k], store'[g.sender][k])
    BY <1>2 DEF SenderAhead
  <2>1. /\ g.recs[k] \in Version /\ g.sender \in Node
        /\ store[g.sender][k] \in Version /\ store'[g.sender][k] \in Version
    BY <1>4 DEF IInv, TypeOK, Frame, Records
  <2>2. ~Supersedes(g.recs[k], store[g.sender][k])
    BY DEF IInv, SenderAhead
  <2>3. ~Supersedes(store[g.sender][k], store'[g.sender][k])
    <3>1. CASE g.sender = n
      BY <1>3, <1>5, <3>1, MergeNewest
    <3>2. CASE g.sender # n
      BY <1>5, <2>1, <3>2, SupersedesOrder
    <3> QED
      BY <3>1, <3>2
  <2> QED
    BY <2>1, <2>2, <2>3, SupersedesOrder
<1> QED
  BY <1>2, <1>4, <1>6, <1>7, <1>9, <1>10, <1>11 DEF IInv

(***************************************************************************)
(* A tick taken by a write that leaves the shared stream alone.            *)
(***************************************************************************)
LEMMA SetNamedIInv ==
  ASSUME IInv, NEW n \in Node, SetNamed(n)
  PROVE  IInv' /\ store' = store
<1>1. /\ clock' = [clock EXCEPT ![n] = @ + 1]
      /\ UNCHANGED <<store, watermark, lastExport, frames, authored>>
  BY DEF SetNamed
<1>2. clock' \in [Node -> Nat] /\ \A m \in Node : clock[m] <= clock'[m]
  BY <1>1 DEF IInv, TypeOK
<1>3. TypeOK'
  BY <1>1, <1>2 DEF IInv, TypeOK
<1>4. ClocksDominate'
  BY <1>1, <1>2 DEF IInv, TypeOK, ClocksDominate, Version
<1>5. VersionUnique' /\ Integrity' /\ NoWriteSkipped' /\ SenderAhead'
  BY <1>1 DEF IInv, VersionUnique, Integrity, NoWriteSkipped, SenderAhead, Due
<1> QED
  BY <1>1, <1>3, <1>4, <1>5 DEF IInv
-----------------------------------------------------------------------------
\* What a step may do to a slot of the shared stream.
Forward ==
  \A n \in Node, k \in Key :
    store'[n][k] = store[n][k] \/ Supersedes(store'[n][k], store[n][k])

(***************************************************************************)
(* Every step of the swarm preserves the inductive invariant and moves the *)
(* slots forward only.                                                     *)
(***************************************************************************)
LEMMA NextIInv ==
  ASSUME IInv, [Next]_vars
  PROVE  IInv' /\ Forward
<1>1. CASE UNCHANGED vars
  <2>1. IInv'
    BY <1>1 DEF vars, IInv, TypeOK, ClocksDominate, VersionUnique, Integrity,
                NoWriteSkipped, SenderAhead, Due
  <2> QED
    BY <1>1, <2>1 DEF vars, Forward
<1>2. ASSUME NEW n \in Node, NEW k \in Key, NEW v \in Value \cup {Tombstone},
             Write(n, k, v)
      PROVE  IInv' /\ Forward
  <2>1. IInv'
    BY <1>2, WriteIInv
  <2>2. store' = [store EXCEPT ![n][k] = [ts |-> clock[n] + 1, origin |-> n, val |-> v]]
    BY <1>2 DEF Write, Stamp
  <2>3. clock[n] \in Nat /\ store[n][k].ts \in Nat /\ store[n][k].ts <= clock[n]
    BY DEF IInv, TypeOK, ClocksDominate, Version
  <2>4. Forward
    BY <2>2, <2>3 DEF Forward, Supersedes, IInv, TypeOK
  <2> QED
    BY <2>1, <2>4
<1>3. ASSUME NEW n \in Node, NEW k \in Key,
             \/ SetShared(n, k) \/ RemoveShared(n, k)
             \/ \E e \in Value \cup {Tombstone} : SetSharedCas(n, k, e)
      PROVE  IInv' /\ Forward
  BY <1>2, <1>3, Zenon DEF SetShared, RemoveShared, SetSharedCas
<1>4. ASSUME NEW n \in Node, SetNamed(n) \/ GossipDelta(n) \/ ExportFailed(n)
      PROVE  IInv' /\ Forward
  BY <1>4, SetNamedIInv, GossipIInv, ExportFailedIInv DEF Forward
<1>5. ASSUME NEW n \in Node, NEW f \in frames, NEW recs \in Records,
             \A k \in Key : recs[k] \in {f.recs[k], Absent},
             Absorb(n, recs)
      PROVE  IInv' /\ Forward
  <2>1. IInv' /\ store' = [store EXCEPT ![n] = Merge(store[n], recs)]
    BY <1>5, AbsorbIInv
  <2>2. store[n] \in Records
    BY DEF IInv, TypeOK, Records
  <2>3. Forward
    BY <1>5, <2>1, <2>2, MergeNewest DEF Forward, IInv, TypeOK
  <2> QED
    BY <2>1, <2>3
<1>6. ASSUME NEW n \in Node, NEW f \in frames, Import(n, f)
      PROVE  IInv' /\ Forward
  <2>1. f.recs \in Records
    BY DEF IInv, TypeOK, Frame
  <2> QED
    BY <1>5, <1>6, <2>1 DEF Import
<1>7. ASSUME NEW n \in Node, NEW f \in frames, ImportTruncated(n, f)
      PROVE  IInv' /\ Forward
  <2>1. PICK kept \in SUBSET Key :
          Absorb(n, [k \in Key |-> IF k \in kept THEN f.recs[k] ELSE Absent])
    BY <1>7 DEF ImportTruncated
  <2> DEFINE recs == [k \in Key |-> IF k \in kept THEN f.recs[k] ELSE Absent]
  <2>2. recs \in Records /\ \A k \in Key : recs[k] \in {f.recs[k], Absent}
    BY AbsentVersion DEF IInv, TypeOK, Frame, Records
  <2> HIDE DEF recs
  <2> QED
    BY <1>5, <2>1, <2>2 DEF recs
<1> QED
  BY <1>1, <1>3, <1>4, <1>6, <1>7, Zenon DEF Next

(***************************************************************************)
(* In a quiescent state no replica is ahead of another: what a node holds  *)
(* rode in some frame, the frame's sender is at least as far, and every    *)
(* other node has nothing left to gain from it.                            *)
(***************************************************************************)
LEMMA QuiescentOrder ==
  ASSUME IInv, Quiescent, NEW m \in Node, NEW n \in Node, NEW k \in Key
  PROVE  ~Supersedes(store[m][k], store[n][k])
<1>1. store[m][k] \in Version /\ store[n][k] \in Version /\ store[n] \in Records
  BY DEF IInv, TypeOK, Records
<1>2. CASE store[m][k] = Absent
  BY <1>1, <1>2, AbsentVersion
<1>3. CASE store[m][k] # Absent
  <2>1. PICK f \in frames : f.recs[k] = store[m][k]
    BY <1>3 DEF Quiescent, IInv, NoWriteSkipped
  <2>2. f.recs \in Records
    BY DEF IInv, TypeOK, Frame
  <2>3. CASE f.sender = n
    BY <2>1, <2>3 DEF IInv, SenderAhead
  <2>4. CASE f.sender # n
    <3>1. Merge(store[n], f.recs) = store[n]
      BY <2>4 DEF Quiescent
    <3> QED
      BY <1>1, <2>1, <2>2, <3>1, MergeNewest
  <2> QED
    BY <2>3, <2>4
<1> QED
  BY <1>2, <1>3

(***************************************************************************)
(* Versions the order cannot tell apart are equal, payload included.       *)
(***************************************************************************)
LEMMA SameVersionSameRecord ==
  ASSUME IInv, NEW m \in Node, NEW n \in Node, NEW k \in Key,
         store[m][k].ts = store[n][k].ts, store[m][k].origin = store[n][k].origin
  PROVE  store[m][k] = store[n][k]
<1>1. ASSUME NEW i \in Node, store[i][k] # Absent
      PROVE  Authored(k, store[i][k]) \in authored /\ store[i][k].ts # 0
  <2>1. Authored(k, store[i][k]) \in authored
    BY <1>1 DEF IInv, Integrity
  <2>2. \A r \in authored : r.ver.ts # 0
    BY DEF IInv, TypeOK, ClocksDominate
  <2> QED
    BY <2>1, <2>2 DEF Authored
<1>2. CASE store[m][k] = Absent \/ store[n][k] = Absent
  <2>1. Absent.ts = 0
    BY DEF Absent
  <2> QED
    BY <1>1, <1>2, <2>1
<1>3. CASE store[m][k] # Absent /\ store[n][k] # Absent
  <2>1. Authored(k, store[m][k]) = Authored(k, store[n][k])
    BY <1>1, <1>3 DEF IInv, VersionUnique, Authored
  <2> QED
    BY <2>1 DEF Authored
<1> QED
  BY <1>2, <1>3

LEMMA InvariantConverges == IInv => QuiescentConverged
<1> SUFFICES ASSUME IInv, Quiescent, NEW m \in Node, NEW n \in Node
             PROVE  store[m] = store[n]
  BY DEF QuiescentConverged, Converged
<1>1. ASSUME NEW k \in Key PROVE store[m][k] = store[n][k]
  <2>1. ~Supersedes(store[m][k], store[n][k]) /\ ~Supersedes(store[n][k], store[m][k])
    BY QuiescentOrder
  <2>2. store[m][k] \in Version /\ store[n][k] \in Version
    BY DEF IInv, TypeOK
  <2>3. store[m][k].ts = store[n][k].ts /\ store[m][k].origin = store[n][k].origin
    BY <2>1, <2>2, SupersedesOrder
  <2> QED
    BY <2>3, SameVersionSameRecord
<1> QED
  BY <1>1 DEF IInv, TypeOK
-----------------------------------------------------------------------------
(***************************************************************************)
(* The inductive invariant holds in every reachable state of every swarm   *)
(* running fleece_state_manager's shared stream.                           *)
(***************************************************************************)
THEOREM Invariance == Spec => []IInv
<1>1. IInv /\ [Next]_vars => IInv'
  BY NextIInv
<1> QED
  BY <1>1, InitIInv, PTL DEF Spec

(***************************************************************************)
(* Slots, clocks, watermarks and frames keep their types.                  *)
(***************************************************************************)
THEOREM TypeCorrect == Spec => []TypeOK
<1>1. IInv => TypeOK
  BY DEF IInv
<1> QED
  BY <1>1, Invariance, PTL

(***************************************************************************)
(* The (timestamp, origin) pair set_shared and remove_shared stamp names   *)
(* one write of the whole swarm.                                           *)
(***************************************************************************)
THEOREM UniqueVersions == Spec => []VersionUnique
<1>1. IInv => VersionUnique
  BY DEF IInv
<1> QED
  BY <1>1, Invariance, PTL

(***************************************************************************)
(* merge_shared and the frames never invent, mix up or misattribute data.  *)
(***************************************************************************)
THEOREM RecordsAreWrites == Spec => []Integrity
<1>1. IInv => Integrity
  BY DEF IInv
<1> QED
  BY <1>1, Invariance, PTL

(***************************************************************************)
(* The clamp of included_max_ts in export_shared_delta_bounded is right:   *)
(* the watermark never passes a record no frame has carried.               *)
(***************************************************************************)
THEOREM WatermarkSafe == Spec => []NoWriteSkipped
<1>1. IInv => NoWriteSkipped
  BY DEF IInv
<1> QED
  BY <1>1, Invariance, PTL

(***************************************************************************)
(* Whatever the order, duplication and truncation of the frames, replicas  *)
(* with nothing left to send or to learn are identical.                    *)
(***************************************************************************)
THEOREM StrongConvergence == Spec => []QuiescentConverged
  BY Invariance, InvariantConverges, PTL

(***************************************************************************)
(* No import and no local write rolls a slot back to an older version.     *)
(***************************************************************************)
THEOREM Monotone == Spec => NeverOlder
<1>1. IInv /\ [Next]_vars =>
        [\A n \in Node, k \in Key :
           store'[n][k] = store[n][k] \/ Supersedes(store'[n][k], store[n][k])]_vars
  BY NextIInv DEF Forward
<1> QED
  BY <1>1, Invariance, PTL DEF Spec, NeverOlder
-----------------------------------------------------------------------------
\* Sets of competitors of a record are finite and no more than all of them.
LEMMA RivalCount ==
  ASSUME NEW k \in Key, NEW S \in SUBSET (Key \ {k})
  PROVE  /\ IsFiniteSet(S) /\ Cardinality(S) \in Nat
         /\ Cardinality(Key) \in Nat
         /\ Cardinality(S) <= Cardinality(Key) - 1
<1>1. IsFiniteSet(Key \ {k}) /\ Cardinality(Key \ {k}) = Cardinality(Key) - 1
  BY KeyAssumption, FS_RemoveElement
<1>2. IsFiniteSet(S) /\ Cardinality(S) <= Cardinality(Key \ {k})
  BY <1>1, FS_Subset
<1>3. Cardinality(S) \in Nat /\ Cardinality(Key) \in Nat
  BY <1>2, KeyAssumption, FS_CardinalityType
<1> QED
  BY <1>1, <1>2, <1>3

\* Turns are lost when the three sets shrink.
LEMMA SetsShrink ==
  ASSUME NEW k \in Key,
         NEW A \in SUBSET (Key \ {k}), NEW B \in SUBSET (Key \ {k}), NEW C \in SUBSET (Key \ {k}),
         NEW D \in SUBSET A, NEW E \in SUBSET B, NEW F \in SUBSET C
  PROVE  LET before == Cardinality(A) + Cardinality(B) + Cardinality(C)
             after == Cardinality(D) + Cardinality(E) + Cardinality(F)
         IN  /\ before \in Nat /\ after \in Nat /\ after <= before
             /\ D # A \/ E # B \/ F # C => after + 1 <= before
<1>1. /\ IsFiniteSet(A) /\ Cardinality(A) \in Nat
      /\ IsFiniteSet(B) /\ Cardinality(B) \in Nat
      /\ IsFiniteSet(C) /\ Cardinality(C) \in Nat
  BY RivalCount
<1>2. /\ Cardinality(D) \in Nat /\ Cardinality(E) \in Nat /\ Cardinality(F) \in Nat
  BY RivalCount
<1>3. /\ Cardinality(D) <= Cardinality(A) /\ (Cardinality(A) = Cardinality(D) => A = D)
      /\ Cardinality(E) <= Cardinality(B) /\ (Cardinality(B) = Cardinality(E) => B = E)
      /\ Cardinality(F) <= Cardinality(C) /\ (Cardinality(C) = Cardinality(F) => C = F)
  BY <1>1, FS_Subset
<1> QED
  BY <1>1, <1>2, <1>3

\* The sets the turns are counted in are sets of competitors.
LEMMA RivalSets ==
  ASSUME NEW n \in Node, NEW k \in Key
  PROVE  /\ NotAhead(n, k) \subseteq Key \ {k}
         /\ Tied(n, k) \subseteq Key \ {k}
         /\ Behind(n, k) \subseteq Key \ {k}
         /\ NotAhead(n, k)' \subseteq Key \ {k}
         /\ Tied(n, k)' \subseteq Key \ {k}
         /\ Behind(n, k)' \subseteq Key \ {k}
  BY DEF NotAhead, Tied, Behind

\* A record that has just ridden, or is not due, has its whole wait ahead.
LEMMA TurnsBounded ==
  ASSUME NEW n \in Node, NEW k \in Key
  PROVE  /\ Turns(n, k)' \in Nat
         /\ Turns(n, k)' <= 3 * (Cardinality(Key) - 1)
         /\ Turns(n, k) \in Nat
         /\ Turns(n, k) <= 3 * (Cardinality(Key) - 1)
<1>1. /\ Cardinality(Key) \in Nat
      /\ Cardinality(NotAhead(n, k)) \in Nat /\ Cardinality(NotAhead(n, k)) <= Cardinality(Key) - 1
      /\ Cardinality(Tied(n, k)) \in Nat /\ Cardinality(Tied(n, k)) <= Cardinality(Key) - 1
      /\ Cardinality(Behind(n, k)) \in Nat /\ Cardinality(Behind(n, k)) <= Cardinality(Key) - 1
  BY RivalSets, RivalCount
<1>2. /\ Cardinality(NotAhead(n, k)') \in Nat /\ Cardinality(NotAhead(n, k)') <= Cardinality(Key) - 1
      /\ Cardinality(Tied(n, k)') \in Nat /\ Cardinality(Tied(n, k)') <= Cardinality(Key) - 1
      /\ Cardinality(Behind(n, k)') \in Nat /\ Cardinality(Behind(n, k)') <= Cardinality(Key) - 1
  BY RivalSets, RivalCount
<1> QED
  BY <1>1, <1>2 DEF Turns

(***************************************************************************)
(* What export_shared_delta_bounded does to the order: the watermark never *)
(* falls, and a record that rides before all that is left over, tied in    *)
(* last_export_ts with the clock, is not due again.                        *)
(***************************************************************************)
LEMMA ExportEffect ==
  ASSUME IInv, FairnessInv, NEW n \in Node, NEW taken \in SUBSET Due(n), SendDelta(n, taken)
  PROVE  /\ UNCHANGED <<store, clock>>
         /\ \A j \in Key : lastExport'[n][j] = IF j \in taken THEN clock[n] ELSE lastExport[n][j]
         /\ Due(n)' \subseteq Due(n)
         /\ \A j \in taken :
              lastExport[n][j] = clock[n] /\ Due(n) \ taken # {} => j \notin Due(n)'
<1> DEFINE T == Timestamps(n, taken)
           L == Timestamps(n, Due(n) \ taken)
<1>1. PICK w \in 0..clock[n] : IncludedMaxTs(T, L, w) /\ watermark' = [watermark EXCEPT ![n] = w]
  BY Zenon DEF SendDelta
<1>2. PICK top \in T :
        /\ \A t \in T : t <= top
        /\ \/ /\ \A t \in L : t > top
              /\ w = top
           \/ \E low \in L : low <= top /\ w = low - 1 /\ \A t \in L : low <= t
  BY Zenon, <1>1 DEF IncludedMaxTs
<1>3. /\ clock[n] \in Nat /\ watermark[n] \in Nat /\ watermark'[n] = w
      /\ \A j \in Key : /\ store[n][j] \in Version /\ store[n][j].ts \in Nat
                        /\ lastExport[n][j] \in Nat /\ lastExport[n][j] <= clock[n]
  BY <1>1 DEF IInv, TypeOK, Version, FairnessInv
<1>4. /\ UNCHANGED <<store, clock>>
      /\ \A j \in Key : lastExport'[n][j] = IF j \in taken THEN clock[n] ELSE lastExport[n][j]
  BY DEF SendDelta, Pack, IInv, TypeOK
<1>5. \A t \in T \cup L : t \in Nat /\ t > watermark[n]
  BY <1>3 DEF Timestamps, Due
<1> HIDE DEF T, L
<1>6. w \in Nat /\ w >= watermark[n] /\ \A m \in Nat : m \in T /\ (\A t \in L : t > m) => w >= m
  <2>1. w \in Nat /\ top \in Nat /\ top > watermark[n]
    BY <1>2, <1>3, <1>5
  <2>2. CASE w = top
    BY <1>2, <1>3, <2>1, <2>2
  <2>3. CASE \E low \in L : w = low - 1
    <3>1. PICK low \in L : w = low - 1
      BY <2>3
    <3>2. low \in Nat /\ low > watermark[n]
      BY <1>5
    <3> QED
      BY <1>3, <2>1, <3>1, <3>2
  <2> QED
    BY <1>2, <2>2, <2>3
<1>7. Due(n)' \subseteq Due(n)
  BY <1>3, <1>4, <1>6 DEF Due
<1>8. ASSUME NEW i \in taken, NEW j \in Due(n) \ taken, store[n][i].ts = store[n][j].ts
      PROVE  FALSE
  <2>1. /\ i \in Key /\ j \in Key /\ i # j
        /\ store[n][i].ts > 0 /\ store[n][j].ts > 0
    BY <1>3 DEF Due
  <2>2. store[n][i].origin = n /\ store[n][j].origin = n
    BY <2>1 DEF FairnessInv, Absent
  <2>3. Authored(i, store[n][i]) \in authored /\ Authored(j, store[n][j]) \in authored
    BY <2>1 DEF IInv, Integrity, Absent
  <2>4. Authored(i, store[n][i]) = Authored(j, store[n][j])
    BY <1>8, <2>2, <2>3 DEF IInv, VersionUnique, Authored
  <2> QED
    BY <2>1, <2>4 DEF Authored
<1>9. ASSUME NEW j \in taken, lastExport[n][j] = clock[n], Due(n) \ taken # {}
      PROVE  j \notin Due(n)'
  <2>1. \A i \in Due(n) \ taken : store[n][i].ts > store[n][j].ts
    <3> SUFFICES ASSUME NEW i \in Due(n) \ taken PROVE store[n][i].ts > store[n][j].ts
      OBVIOUS
    <3>1. ~PackedBefore(n, i, j)
      BY DEF SendDelta, Pack
    <3>2. i \in Key /\ j \in Key
      BY DEF Due
    <3> QED
      BY <1>3, <1>8, <1>9, <3>1, <3>2 DEF PackedBefore
  <2>2. j \in Key /\ store[n][j].ts \in T
    BY DEF T, Timestamps, Due
  <2>3. \A t \in L : t > store[n][j].ts
    BY <2>1 DEF L, Timestamps
  <2>4. w >= store[n][j].ts
    <3>1. store[n][j].ts \in Nat
      BY Zenon, <1>3, <2>2
    <3> QED
      BY Zenon, <1>6, <2>2, <2>3, <3>1
  <2> QED
    BY <1>3, <1>4, <2>2, <2>4 DEF Due
<1> QED
  BY <1>4, <1>7, <1>9

(***************************************************************************)
(* A frame that leaves the due record k out uses up one of its competitors'*)
(* turns: before the clock has moved past k's last export the one that     *)
(* rides was behind k or is not due again, and afterwards it gets ahead.   *)
(***************************************************************************)
LEMMA TurnUsed ==
  ASSUME IInv, FairnessInv, NEW n \in Node, NEW taken \in SUBSET Due(n), taken # {},
         SendDelta(n, taken), NEW k \in Due(n) \ taken
  PROVE  Turns(n, k)' + 1 <= Turns(n, k)
<1>1. /\ k \in Key
      /\ lastExport'[n][k] = lastExport[n][k] /\ clock'[n] = clock[n]
      /\ \A j \in taken : j \in Key /\ lastExport'[n][j] = clock[n] /\ j # k
      /\ \A j \in Key \ taken : lastExport'[n][j] = lastExport[n][j]
      /\ Due(n)' \subseteq Due(n)
  <2>1. /\ clock' = clock
        /\ \A j \in Key : lastExport'[n][j] = IF j \in taken THEN clock[n] ELSE lastExport[n][j]
        /\ Due(n)' \subseteq Due(n)
    BY Zenon, ExportEffect
  <2>2. Due(n) \subseteq Key
    BY Zenon DEF Due
  <2> QED
    BY Zenon, <2>1, <2>2
<1>2. clock[n] \in Nat /\ \A j \in Key : lastExport[n][j] \in Nat /\ lastExport[n][j] <= clock[n]
  BY DEF IInv, TypeOK, FairnessInv
<1>3. NotAhead(n, k)' \subseteq NotAhead(n, k)
  BY <1>1, <1>2 DEF NotAhead
<1>4. Behind(n, k)' \subseteq Behind(n, k)
  BY <1>1, <1>2, <1>3, RivalSets DEF Behind
<1>5. Tied(n, k)' \subseteq Tied(n, k)
  BY <1>1, <1>3, <1>4 DEF Tied
<1>6. PICK j \in taken : TRUE
  BY Zenon
<1>7. lastExport[n][j] <= lastExport[n][k] /\ j \in NotAhead(n, k)
  <2>1. ~PackedBefore(n, k, j)
    BY DEF SendDelta, Pack
  <2> QED
    BY <1>1, <1>2, <2>1 DEF PackedBefore, NotAhead
<1>8. \/ j \notin NotAhead(n, k)'
      \/ j \in Behind(n, k) /\ j \notin Behind(n, k)'
      \/ j \in Tied(n, k) /\ j \notin Tied(n, k)'
  <2>1. CASE lastExport[n][k] < clock[n]
    BY <1>1, <1>2, <2>1 DEF NotAhead
  <2>2. CASE lastExport[n][k] = clock[n] /\ lastExport[n][j] < lastExport[n][k]
    BY <1>1, <1>2, <1>7, <2>2 DEF Behind
  <2>3. CASE lastExport[n][k] = clock[n] /\ lastExport[n][j] = lastExport[n][k]
    <3>1. j \in Due(n) /\ j \notin Due(n)'
      BY <2>3, ExportEffect
    <3>2. j \notin Behind(n, k)'
      BY <1>1, <1>2, <2>3 DEF Behind
    <3> QED
      BY <1>7, <2>3, <3>1, <3>2 DEF Tied
  <2>4. \/ lastExport[n][k] < clock[n]
        \/ lastExport[n][k] = clock[n] /\ lastExport[n][j] < lastExport[n][k]
        \/ lastExport[n][k] = clock[n] /\ lastExport[n][j] = lastExport[n][k]
    BY <1>1, <1>2, <1>7
  <2> QED
    BY Zenon, <2>1, <2>2, <2>3, <2>4
<1>9. \/ NotAhead(n, k)' # NotAhead(n, k)
      \/ Tied(n, k)' # Tied(n, k)
      \/ Behind(n, k)' # Behind(n, k)
  BY Zenon, <1>7, <1>8
<1>10. /\ NotAhead(n, k) \in SUBSET (Key \ {k})
       /\ Tied(n, k) \in SUBSET (Key \ {k})
       /\ Behind(n, k) \in SUBSET (Key \ {k})
  BY Zenon, <1>1, RivalSets
<1>11. /\ NotAhead(n, k)' \in SUBSET NotAhead(n, k)
       /\ Tied(n, k)' \in SUBSET Tied(n, k)
       /\ Behind(n, k)' \in SUBSET Behind(n, k)
  BY Zenon, <1>3, <1>4, <1>5
<1> QED
  BY Zenon, <1>1, <1>9, <1>10, <1>11, SetsShrink DEF Turns

\* At the start no record has waited, and none has been exported.
LEMMA InitFairness == FairnessInit => FairnessInv
<1> SUFFICES ASSUME FairnessInit PROVE FairnessInv
  OBVIOUS
<1>1. waited \in [Node -> [Key -> Nat]]
  BY DEF FairnessInit
<1>2. ASSUME NEW n \in Node, NEW k \in Key
      PROVE  /\ store[n][k] = Absent \/ store[n][k].origin = n
             /\ lastExport[n][k] <= clock[n]
             /\ waited[n][k] = 0
  BY DEF FairnessInit, Init
<1>3. ASSUME NEW n \in Node, NEW k \in Key
      PROVE  waited[n][k] + Turns(n, k) <= 3 * (Cardinality(Key) - 1)
  BY <1>2, TurnsBounded
<1> QED
  BY <1>1, <1>2, <1>3 DEF FairnessInv

(***************************************************************************)
(* A write, a delete or a write to the node's own stream moves the clock   *)
(* on, which ends every tie and lets no competitor in.                     *)
(***************************************************************************)
LEMMA RewriteFairness ==
  ASSUME IInv, FairnessInv, Rewrite
  PROVE  FairnessInv'
<1>1. PICK n \in Node : \/ \E k \in Key : SetShared(n, k) \/ RemoveShared(n, k)
                        \/ SetNamed(n)
  BY DEF Rewrite
<1>2. /\ clock \in [Node -> Nat] /\ lastExport \in [Node -> [Key -> Nat]]
      /\ store \in [Node -> [Key -> Version]]
      /\ waited \in [Node -> [Key -> Nat]]
  BY DEF IInv, TypeOK, FairnessInv
<1>3. /\ UNCHANGED <<lastExport, waited, watermark>>
      /\ clock' = [clock EXCEPT ![n] = @ + 1]
      /\ \/ store' = store
         \/ \E k \in Key, v \in Value \cup {Tombstone} :
              store' = [store EXCEPT ![n][k] = [ts |-> clock[n] + 1, origin |-> n, val |-> v]]
  BY Zenon, <1>1 DEF Rewrite, SetShared, RemoveShared, SetNamed, Write, Stamp
<1>4. ASSUME NEW m \in Node, NEW k \in Key
      PROVE  /\ store'[m][k] = Absent \/ store'[m][k].origin = m
             /\ lastExport'[m][k] <= clock'[m]
             /\ waited'[m][k] + Turns(m, k)' <= 3 * (Cardinality(Key) - 1)
  <2>1. store'[m][k] = Absent \/ store'[m][k].origin = m
    <3>1. CASE store' = store
      BY <3>1 DEF FairnessInv
    <3>2. ASSUME NEW i \in Key, NEW v \in Value \cup {Tombstone},
                 store' = [store EXCEPT ![n][i] = [ts |-> clock[n] + 1, origin |-> n, val |-> v]]
          PROVE  store'[m][k] = store[m][k] \/ (m = n /\ store'[m][k].origin = n)
      BY <1>2, <3>2
    <3>3. store[m][k] = Absent \/ store[m][k].origin = m
      BY Zenon DEF FairnessInv
    <3>4. ASSUME store' # store
          PROVE  store'[m][k] = store[m][k] \/ (m = n /\ store'[m][k].origin = n)
      BY Zenon, <1>3, <3>2, <3>4
    <3> QED
      BY Zenon, <3>1, <3>3, <3>4
  <2>2. /\ clock[m] \in Nat /\ lastExport[m][k] \in Nat /\ lastExport[m][k] <= clock[m]
        /\ lastExport'[m] = lastExport[m] /\ waited'[m][k] = waited[m][k] /\ waited[m][k] \in Nat
        /\ waited[m][k] + Turns(m, k) <= 3 * (Cardinality(Key) - 1)
    BY <1>2, <1>3 DEF FairnessInv
  <2>3. clock'[m] \in {clock[m], clock[m] + 1}
    BY <1>2, <1>3
  <2>4. lastExport'[m][k] <= clock'[m]
    BY <2>2, <2>3
  <2>5. /\ NotAhead(m, k)' \subseteq NotAhead(m, k)
        /\ Behind(m, k)' \subseteq Behind(m, k)
        /\ Tied(m, k)' \subseteq Tied(m, k)
    <3>1. NotAhead(m, k)' = NotAhead(m, k)
      BY <2>2 DEF NotAhead
    <3>2. CASE m = n
      <4>1. lastExport'[m][k] # clock'[m]
        BY <1>2, <1>3, <2>2, <3>2
      <4> QED
        BY <3>1, <4>1 DEF Behind, Tied
    <3>3. CASE m # n
      <4>1. clock'[m] = clock[m] /\ Due(m)' = Due(m)
        BY <1>2, <1>3, <3>3 DEF Due
      <4>2. Behind(m, k)' = Behind(m, k)
        BY <2>2, <3>1, <4>1 DEF Behind
      <4> QED
        BY <2>2, <3>1, <4>1, <4>2 DEF Tied
    <3> QED
      BY <3>2, <3>3
  <2>6. Turns(m, k)' <= Turns(m, k)
    BY SMTT(30), <2>5, RivalSets, SetsShrink DEF Turns
  <2>7. waited'[m][k] + Turns(m, k)' <= 3 * (Cardinality(Key) - 1)
    BY <2>2, <2>6, TurnsBounded, KeyAssumption, FS_CardinalityType
  <2> QED
    BY <2>1, <2>4, <2>7
<1> QED
  BY <1>2, <1>3, <1>4 DEF FairnessInv

(***************************************************************************)
(* A frame lets those who ride in it, and those with nothing to send,      *)
(* start over; for the others one turn is used up.                         *)
(***************************************************************************)
LEMMA ExportFairnessInv ==
  ASSUME IInv, FairnessInv, Export
  PROVE  FairnessInv'
<1> PICK n \in Node : \E taken \in (SUBSET Due(n)) \ {{}} :
       /\ SendDelta(n, taken)
       /\ waited' = [waited EXCEPT ![n] =
                       [k \in Key |-> IF k \in Due(n) \ taken THEN @[k] + 1 ELSE 0]]
  BY DEF Export
<1>1. PICK taken \in (SUBSET Due(n)) \ {{}} :
        /\ SendDelta(n, taken)
        /\ waited' = [waited EXCEPT ![n] =
                        [k \in Key |-> IF k \in Due(n) \ taken THEN @[k] + 1 ELSE 0]]
  OBVIOUS
<1>2. /\ clock \in [Node -> Nat] /\ lastExport \in [Node -> [Key -> Nat]]
      /\ waited \in [Node -> [Key -> Nat]] /\ watermark \in [Node -> Nat]
  BY DEF IInv, TypeOK, FairnessInv
<1>3. waited' \in [Node -> [Key -> Nat]]
  BY <1>1, <1>2
<1>4. /\ UNCHANGED <<store, clock>>
      /\ \A m \in Node \ {n} : lastExport'[m] = lastExport[m] /\ watermark'[m] = watermark[m]
  BY <1>1, <1>2 DEF SendDelta, Pack
<1>5. \A k \in Key : lastExport'[n][k] = IF k \in taken THEN clock[n] ELSE lastExport[n][k]
  BY <1>1, ExportEffect
<1>6. Cardinality(Key) \in Nat
  BY Zenon, KeyAssumption, FS_CardinalityType
<1>7. ASSUME NEW m \in Node, NEW k \in Key
      PROVE  /\ store'[m][k] = Absent \/ store'[m][k].origin = m
             /\ lastExport'[m][k] <= clock'[m]
             /\ waited'[m][k] + Turns(m, k)' <= 3 * (Cardinality(Key) - 1)
  <2>1. store'[m][k] = Absent \/ store'[m][k].origin = m
    BY <1>4 DEF FairnessInv
  <2>2. lastExport'[m][k] <= clock'[m]
    BY <1>2, <1>4, <1>5 DEF FairnessInv
  <2>3. /\ waited[m][k] \in Nat
        /\ waited[m][k] + Turns(m, k) <= 3 * (Cardinality(Key) - 1)
        /\ Turns(m, k) \in Nat /\ Turns(m, k)' \in Nat
    BY <1>2, TurnsBounded DEF FairnessInv
  <2>4. CASE m # n
    <3>1. waited'[m][k] = waited[m][k]
      BY <1>1, <1>2, <2>4
    <3>2. NotAhead(m, k)' = NotAhead(m, k) /\ Due(m)' = Due(m)
      BY <1>4, <2>4 DEF NotAhead, Due
    <3>3. Behind(m, k)' = Behind(m, k)
      BY <1>4, <2>4, <3>2 DEF Behind
    <3>4. Tied(m, k)' = Tied(m, k)
      BY <1>4, <2>4, <3>2, <3>3 DEF Tied
    <3>5. Turns(m, k)' = Turns(m, k)
      BY <3>2, <3>3, <3>4 DEF Turns
    <3> QED
      BY <2>1, <2>2, <2>3, <3>1, <3>5
  <2>5. CASE m = n /\ k \in Due(n) \ taken
    <3>1. waited'[m][k] = waited[m][k] + 1
      BY <1>1, <1>2, <2>5
    <3>2. Turns(m, k)' + 1 <= Turns(m, k)
      BY <1>1, <2>5, TurnUsed
    <3> QED
      BY <1>6, <2>1, <2>2, <2>3, <3>1, <3>2
  <2>6. CASE m = n /\ k \notin Due(n) \ taken
    <3>1. waited'[m][k] = 0
      BY <1>1, <1>2, <2>6
    <3> QED
      BY <2>1, <2>2, <3>1, TurnsBounded
  <2> QED
    BY <2>4, <2>5, <2>6
<1> QED
  BY <1>3, <1>7 DEF FairnessInv

(***************************************************************************)
(* Counting the frames a record waits for changes nothing: what the nodes  *)
(* do here is something they do in the shared stream.                      *)
(***************************************************************************)
LEMMA FairnessIsGossip == FairnessSpec => Spec
<1>1. FairnessInit => Init
  BY DEF FairnessInit
<1>2. [FairnessNext]_<<vars, waited>> => [Next]_vars
  BY DEF FairnessNext, Rewrite, Export, Next, GossipDelta, vars
<1> QED
  BY <1>1, <1>2, PTL DEF FairnessSpec, Spec

\* Waited frames and turns left never exceed the turns there are.
LEMMA FairnessStep ==
  ASSUME IInv, FairnessInv, [FairnessNext]_<<vars, waited>>
  PROVE  FairnessInv'
<1>1. CASE UNCHANGED <<vars, waited>>
  <2>1. \A n \in Node, k \in Key : NotAhead(n, k)' = NotAhead(n, k) /\ Due(n)' = Due(n)
    BY <1>1 DEF vars, NotAhead, Due
  <2>2. \A n \in Node, k \in Key : Behind(n, k)' = Behind(n, k)
    BY <1>1, <2>1 DEF vars, Behind
  <2>3. \A n \in Node, k \in Key : Tied(n, k)' = Tied(n, k)
    BY <1>1, <2>1, <2>2 DEF vars, Tied
  <2>4. \A n \in Node, k \in Key : Turns(n, k)' = Turns(n, k)
    BY <2>1, <2>2, <2>3 DEF Turns
  <2> QED
    BY <1>1, <2>4 DEF vars, FairnessInv
<1> QED
  BY <1>1, RewriteFairness, ExportFairnessInv DEF FairnessNext

(***************************************************************************)
(* No record is starved: whatever the number of records and however fast   *)
(* they are rewritten, a record that is due rides after at most three      *)
(* frames per competitor, by the packing order and the clamped watermark   *)
(* of export_shared_delta_bounded.                                         *)
(***************************************************************************)
THEOREM NoStarvation == FairnessSpec => []BoundedWait
<1>1. FairnessSpec => []FairnessInv
  <2>1. IInv /\ FairnessInv /\ [FairnessNext]_<<vars, waited>> => FairnessInv'
    BY FairnessStep
  <2> QED
    BY <2>1, InitFairness, FairnessIsGossip, Invariance, PTL DEF FairnessSpec
<1>2. FairnessInv => BoundedWait
  <2> SUFFICES ASSUME FairnessInv, NEW n \in Node, NEW k \in Key
               PROVE  waited[n][k] <= 3 * (Cardinality(Key) - 1)
    BY DEF BoundedWait
  <2> QED
    BY TurnsBounded, KeyAssumption, FS_CardinalityType DEF FairnessInv
<1> QED
  BY <1>1, <1>2, PTL
=============================================================================
