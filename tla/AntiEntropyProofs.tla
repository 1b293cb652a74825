------------------------- MODULE AntiEntropyProofs -------------------------
(***************************************************************************)
(* Anti-entropy over any network of any nodes, with any losses: what the   *)
(* repair tables hold is consistent, and no frame, however stale, rolls a  *)
(* slot back.                                                              *)
(***************************************************************************)
EXTENDS AntiEntropy, TLAPS

\* A slot that does not exist is a version.
LEMMA AbsentVersion == Absent \in Version
  BY DEF Absent, Version

(***************************************************************************)
(* The inductive invariant.  ClockAhead is what makes a local write win    *)
(* its own slot: import_from moves the clock up to every record it merges. *)
(***************************************************************************)
ReplicaType ==
  /\ store \in [Node -> Records]
  /\ clock \in [Node -> Nat]
  /\ watermark \in [Node -> Nat]

BookType ==
  /\ heard \in [Node -> SUBSET Node]
  /\ need \in [Node -> SUBSET Node]
  /\ awaiting \in [Node -> SUBSET Node]

BookConsistent ==
  \A n \in Node :
    n \notin heard[n] /\ need[n] \subseteq heard[n] /\ awaiting[n] \subseteq heard[n]

FrameOK(m) ==
  /\ m.kind \in Kind /\ m.from \in Node /\ m.from # m.to
  /\ m.kind \in {"gossip", "values"} => m.recs \in Records

NetOK == \A m \in net : FrameOK(m)

ClockAhead == \A n \in Node, k \in Key : store[n][k].ts <= clock[n]

IInv == ReplicaType /\ ClockAhead /\ BookType /\ BookConsistent /\ NetOK

\* What a step may do to the slots.
Forward ==
  \A n \in Node, k \in Key :
    store'[n][k] = store[n][k] \/ Supersedes(store'[n][k], store[n][k])

LEMMA IInvImplies == IInv => TypeOK
  BY DEF IInv, TypeOK, ReplicaType, BookType, BookConsistent, NetOK, FrameOK

LEMMA NothingRecords == Nothing \in Records
  BY AbsentVersion DEF Nothing, Records

LEMMA InitIInv == Init => IInv
<1> SUFFICES ASSUME Init PROVE IInv
  OBVIOUS
<1>1. ReplicaType
  BY NothingRecords DEF Init, ReplicaType
<1>2. ClockAhead
  BY DEF Init, ClockAhead, Nothing, Absent
<1>3. BookType /\ BookConsistent /\ NetOK
  BY DEF Init, BookType, BookConsistent, NetOK
<1> QED
  BY <1>1, <1>2, <1>3 DEF IInv

\* The parts of a step: the replica, the repair tables, the network.
ReplicaStep == ReplicaType' /\ ClockAhead' /\ Forward
BookStep == BookType' /\ BookConsistent'

LEMMA SameReplica ==
  ASSUME IInv, UNCHANGED <<store, clock>>, watermark' \in [Node -> Nat]
  PROVE  ReplicaStep
  BY DEF ReplicaStep, Forward, IInv, ReplicaType, ClockAhead

LEMMA SameBook ==
  ASSUME IInv, UNCHANGED <<heard, need, awaiting>>
  PROVE  BookStep
  BY DEF BookStep, IInv, BookType, BookConsistent

\* Frames may vanish at any time.
LEMMA FewerFrames ==
  ASSUME IInv, net' \subseteq net
  PROVE  NetOK'
  BY DEF IInv, NetOK, FrameOK

\* Frames that are sent replace others on their channel.
LEMMA MoreFrames ==
  ASSUME IInv, NEW S, \A m \in S : FrameOK(m), net' \subseteq net \cup S
  PROVE  NetOK'
  BY DEF IInv, NetOK, FrameOK

LEMMA WriteReplica ==
  ASSUME IInv, NEW n \in Node, NEW k \in Key, NEW val \in Value \cup {Tombstone},
         Write(n, k, val)
  PROVE  ReplicaStep
<1> DEFINE ver == [ts |-> clock[n] + 1, origin |-> n, val |-> val]
<1>1. ver \in Version
  BY NodeAssumption DEF IInv, ReplicaType, Version
<1>2. /\ clock' = [clock EXCEPT ![n] = @ + 1]
      /\ store' = [store EXCEPT ![n][k] = ver]
      /\ watermark' = watermark
  BY DEF Write
<1>3. ReplicaType'
  BY <1>1, <1>2 DEF IInv, ReplicaType, Records
<1>4. /\ store'[n][k] = ver
      /\ \A m \in Node, j \in Key : m # n \/ j # k => store'[m][j] = store[m][j]
      /\ clock'[n] = clock[n] + 1
      /\ \A m \in Node : m # n => clock'[m] = clock[m]
  BY <1>2 DEF IInv, ReplicaType, Records
<1>5. \A m \in Node, j \in Key : store[m][j] \in Version /\ store[m][j].ts \in Nat
  BY DEF IInv, ReplicaType, Records, Version
<1>6. ClockAhead'
  BY <1>4, <1>5 DEF IInv, ReplicaType, ClockAhead
<1>7. Supersedes(ver, store[n][k])
  BY <1>5 DEF IInv, ReplicaType, ClockAhead, Supersedes
<1>8. Forward
  BY <1>4, <1>7 DEF Forward
<1> QED
  BY <1>3, <1>6, <1>8 DEF ReplicaStep

\* import_from and merge_shared, whatever the frame carries.
LEMMA AbsorbReplica ==
  ASSUME IInv, NEW n \in Node, NEW recs \in Records, Absorb(n, recs)
  PROVE  ReplicaStep
<1> DEFINE merged == Merge(store[n], recs)
<1>1. store[n] \in Records
  BY DEF IInv, ReplicaType
<1>2. /\ merged \in Records
      /\ \A k \in Key :
           /\ merged[k] \in {store[n][k], recs[k]}
           /\ merged[k] = store[n][k] \/ Supersedes(merged[k], store[n][k])
  BY <1>1 DEF Merge, Newest, Records
<1>3. PICK c \in {clock[n]} \cup {recs[k].ts : k \in Key} :
        /\ clock[n] <= c
        /\ \A k \in Key : recs[k].ts <= c
        /\ clock' = [clock EXCEPT ![n] = c]
  BY Zenon DEF Absorb
<1>4. store' = [store EXCEPT ![n] = merged] /\ watermark' = watermark
  BY DEF Absorb
<1>5. c \in Nat
  BY <1>3 DEF IInv, ReplicaType, Records, Version
<1> HIDE DEF merged
<1>6. ReplicaType'
  BY <1>2, <1>3, <1>4, <1>5 DEF IInv, ReplicaType
<1>7. /\ store'[n] = merged /\ \A m \in Node : m # n => store'[m] = store[m]
      /\ clock'[n] = c /\ \A m \in Node : m # n => clock'[m] = clock[m]
  BY <1>3, <1>4 DEF IInv, ReplicaType
<1>8. \A k \in Key : store[n][k].ts \in Nat /\ store[n][k].ts <= clock[n]
  BY Zenon, <1>1 DEF IInv, ClockAhead, Records, Version
<1>9. \A k \in Key : merged[k].ts <= c
  BY <1>2, <1>3, <1>5, <1>8 DEF IInv, ReplicaType
<1>10. ClockAhead'
  BY <1>7, <1>9 DEF IInv, ClockAhead
<1>11. Forward
  BY <1>2, <1>7 DEF Forward
<1> QED
  BY <1>6, <1>10, <1>11 DEF ReplicaStep

\* note_behind keeps the flags to peers with an entry.
LEMMA NoteBook ==
  ASSUME IInv, NEW n \in Node, NEW p \in Node \ {n}, NEW behind \in BOOLEAN,
         NoteBehind(n, p, behind)
  PROVE  BookStep
<1>1. /\ heard' = [heard EXCEPT ![n] = @ \cup {p}]
      /\ awaiting' = awaiting
      /\ \/ need' = [need EXCEPT ![n] = @ \cup {p}]
         \/ need' = [need EXCEPT ![n] = @ \ {p}]
         \/ need' = [need EXCEPT ![n] = @]
  <2>1. CASE behind
    BY <2>1 DEF NoteBehind
  <2>2. CASE ~behind /\ p \notin awaiting[n]
    BY <2>2 DEF NoteBehind
  <2>3. CASE ~behind /\ p \in awaiting[n]
    BY Zenon, <2>3 DEF NoteBehind
  <2> QED
    BY <2>1, <2>2, <2>3
<1>2. BookType'
  BY <1>1 DEF IInv, BookType
<1>3. BookConsistent'
  BY <1>1 DEF IInv, BookType, BookConsistent
<1> QED
  BY <1>2, <1>3 DEF BookStep

LEMMA ReceiveStep ==
  ASSUME IInv, NEW n \in Node, NEW m \in net, Receive(n, m)
  PROVE  IInv' /\ Forward
<1>1. FrameOK(m) /\ m.to = n
  BY DEF IInv, NetOK, Receive
<1>2. m.from \in Node \ {n}
  BY <1>1 DEF FrameOK
<1>3. watermark \in [Node -> Nat]
  BY DEF IInv, ReplicaType
<1>4. CASE ImportAndTrack(n, m)
  <2>1. ReplicaStep
    BY <1>1, <1>4, AbsorbReplica DEF ImportAndTrack, FrameOK
  <2>2. BookStep
    BY Zenon, <1>2, <1>4, NoteBook DEF ImportAndTrack
  <2>3. NetOK'
    BY <1>4, FewerFrames DEF ImportAndTrack
  <2> QED
    BY <2>1, <2>2, <2>3 DEF ReplicaStep, BookStep, IInv
<1>5. CASE AnswerIndexRequest(n, m)
  <2>1. ReplicaStep /\ BookStep
    BY <1>3, <1>5, SameReplica, SameBook DEF AnswerIndexRequest, replica
  <2>2. FrameOK(IndexReply(n, m.from))
    BY <1>2 DEF FrameOK, IndexReply, Kind
  <2>3. net' \subseteq net \cup {IndexReply(n, m.from)}
    BY <1>5 DEF AnswerIndexRequest, EnqueueTx
  <2>4. NetOK'
    <3> DEFINE S == {IndexReply(n, m.from)}
    <3>1. (\A f \in S : FrameOK(f)) /\ net' \subseteq net \cup S
      BY <2>2, <2>3
    <3> HIDE DEF S
    <3> QED
      BY <3>1, MoreFrames
  <2> QED
    BY <2>1, <2>4 DEF ReplicaStep, BookStep, IInv
<1>6. CASE AnswerValueRequest(n, m)
  <2>1. ReplicaStep /\ BookStep
    BY <1>3, <1>6, SameReplica, SameBook DEF AnswerValueRequest, replica
  <2>2. PICK taken :
          EnqueueTx(m, GossipFrame(n, m.from, "values",
                       [k \in Key |-> IF k \in taken THEN store[n][k] ELSE Absent]))
    BY <1>6 DEF AnswerValueRequest
  <2> DEFINE recs == [k \in Key |-> IF k \in taken THEN store[n][k] ELSE Absent]
             reply == GossipFrame(n, m.from, "values", recs)
  <2>3. recs \in Records
    BY AbsentVersion DEF IInv, ReplicaType, Records
  <2>4. FrameOK(reply)
    <3> HIDE DEF recs
    <3> QED
      BY <1>2, <2>3 DEF FrameOK, GossipFrame, Kind
  <2>5. EnqueueTx(m, reply)
    BY <2>2
  <2> HIDE DEF recs, reply
  <2>6. NetOK'
    <3> DEFINE S == {reply}
    <3>1. (\A f \in S : FrameOK(f)) /\ net' \subseteq net \cup S
      BY <2>4, <2>5 DEF EnqueueTx
    <3> HIDE DEF S
    <3> QED
      BY <3>1, MoreFrames
  <2> QED
    BY <2>1, <2>6 DEF ReplicaStep, BookStep, IInv
<1>7. CASE HandleIndexReply(n, m)
  <2> DEFINE missing == {k \in Key : ~SharedAtLeast(n, k, m.index[k])}
  <2>1. ReplicaStep
    BY <1>3, <1>7, SameReplica DEF HandleIndexReply, replica
  <2>2. /\ heard' = [heard EXCEPT ![n] = @ \cup {m.from}]
        /\ awaiting' = [awaiting EXCEPT ![n] = @ \ {m.from}]
        /\ RequestMissingKeys(n, m, missing)
    BY <1>7 DEF HandleIndexReply
  <2> HIDE DEF missing
  <2>3. /\ need' = need \/ need' = [need EXCEPT ![n] = @ \ {m.from}]
        /\ net' \subseteq net \cup {ValueRequest(n, m.from, missing)}
    BY <2>2 DEF RequestMissingKeys, EnqueueTx
  <2>4. BookType'
    BY <1>2, <2>2, <2>3 DEF IInv, BookType
  <2>5. BookConsistent'
    BY <1>2, <2>2, <2>3 DEF IInv, BookType, BookConsistent
  <2>6. FrameOK(ValueRequest(n, m.from, missing))
    BY <1>2 DEF FrameOK, ValueRequest, Kind
  <2>7. NetOK'
    BY Zenon, <2>3, <2>6, MoreFrames
  <2> QED
    BY <2>1, <2>4, <2>5, <2>7 DEF ReplicaStep, IInv
<1> QED
  BY <1>4, <1>5, <1>6, <1>7 DEF Receive

LEMMA ImportFailedStep ==
  ASSUME IInv, NEW n \in Node, NEW m \in net, ImportFailed(n, m)
  PROVE  IInv' /\ Forward
<1>1. FrameOK(m) /\ m.to = n /\ m.kind \in {"gossip", "values"}
  BY DEF IInv, NetOK, ImportFailed
<1>2. PICK read : Absorb(n, [k \in Key |-> IF k \in read THEN m.recs[k] ELSE Absent])
  BY DEF ImportFailed
<1> DEFINE recs == [k \in Key |-> IF k \in read THEN m.recs[k] ELSE Absent]
<1>3. recs \in Records
  BY <1>1, AbsentVersion DEF FrameOK, Records
<1>4. ReplicaStep
  BY <1>2, <1>3, AbsorbReplica
<1>5. BookStep
  BY Zenon, <1>1, NoteBook, SameBook DEF ImportFailed, FrameOK
<1>6. NetOK'
  BY FewerFrames DEF ImportFailed
<1> QED
  BY <1>4, <1>5, <1>6 DEF ReplicaStep, BookStep, IInv

LEMMA Phase3Step ==
  ASSUME IInv, NEW n \in Node, NEW due \in Ticks, Phase3(n, due)
  PROVE  IInv' /\ Forward
<1>1. watermark' \in [Node -> Nat]
  <2>1. \A k \in Key : store[n][k].ts \in Nat
    BY DEF IInv, ReplicaType, Records, Version
  <2>2. watermark' = watermark
          \/ \E k \in Key : watermark' = [watermark EXCEPT ![n] = store[n][k].ts]
    BY DEF Phase3, AdvanceWatermark, Due
  <2> QED
    BY <2>1, <2>2 DEF IInv, ReplicaType
<1>2. ReplicaStep
  BY <1>1, SameReplica DEF Phase3
<1>3. PICK started \in SUBSET Startable(n, due),
           probed \in IF "probe" \in due THEN SUBSET heard[n] ELSE {{}} :
        /\ awaiting' = [awaiting EXCEPT ![n] = @ \cup started \cup probed]
        /\ net' = Transmit(Outgoing(n, due) \cup {IndexRequest(n, p) : p \in started \cup probed})
  BY Zenon DEF Phase3
<1>4. /\ started \subseteq heard[n] /\ probed \subseteq heard[n]
      /\ heard[n] \subseteq Node \ {n}
  BY <1>3 DEF Startable, IInv, BookType, BookConsistent
<1>5. heard' = heard /\ need' = need
  BY DEF Phase3
<1>6. BookStep
  BY <1>3, <1>4, <1>5 DEF BookStep, IInv, BookType, BookConsistent
<1>7. \A f \in Outgoing(n, due) : FrameOK(f)
  <2> DEFINE delta == [k \in Key |-> IF k \in Due(n) THEN store[n][k] ELSE Absent]
  <2>1. delta \in Records
    BY AbsentVersion DEF IInv, ReplicaType, Records
  <2>2. ASSUME NEW recs \in Records, NEW p \in Node, <<n, p>> \in Reach
        PROVE  FrameOK(GossipFrame(n, p, "gossip", recs))
    BY <2>2, ReachAssumption DEF FrameOK, GossipFrame, Kind
  <2>3. \A f \in Outgoing(n, due) :
          \E p \in Node : /\ <<n, p>> \in Reach
                          /\ \/ f = GossipFrame(n, p, "gossip", delta)
                             \/ f = GossipFrame(n, p, "gossip", Nothing)
    BY Zenon DEF Outgoing
  <2> HIDE DEF delta
  <2> QED
    BY Zenon, <2>1, <2>2, <2>3, NothingRecords
<1>8. \A p \in started \cup probed : FrameOK(IndexRequest(n, p))
  BY <1>4 DEF FrameOK, IndexRequest, Kind
<1>9. NetOK'
  <2> DEFINE S == Outgoing(n, due) \cup {IndexRequest(n, p) : p \in started \cup probed}
  <2>1. \A f \in S : FrameOK(f)
    BY <1>7, <1>8
  <2>2. net' = Transmit(S)
    BY <1>3
  <2> HIDE DEF S
  <2>3. net' \subseteq net \cup S
    BY <2>2 DEF Transmit
  <2> QED
    BY <2>1, <2>3, MoreFrames
<1> QED
  BY <1>2, <1>6, <1>9 DEF ReplicaStep, BookStep, IInv

\* A step of any node keeps the invariant and moves slots forward only.
LEMMA NextIInv ==
  ASSUME IInv, Next
  PROVE  IInv' /\ Forward
<1>1. ASSUME NEW n \in Node, NEW k \in Key, SetShared(n, k) \/ RemoveShared(n, k)
      PROVE  IInv' /\ Forward
  <2>1. PICK val \in Value \cup {Tombstone} : Write(n, k, val)
    BY <1>1 DEF SetShared, RemoveShared
  <2>2. ReplicaStep
    BY <2>1, WriteReplica
  <2>3. BookStep /\ NetOK'
    BY <2>1, SameBook, FewerFrames DEF Write
  <2> QED
    BY <2>2, <2>3 DEF ReplicaStep, BookStep, IInv
<1>2. ASSUME NEW m \in net, Lose(m) PROVE IInv' /\ Forward
  <2>1. watermark \in [Node -> Nat]
    BY DEF IInv, ReplicaType
  <2>2. ReplicaStep /\ BookStep /\ NetOK'
    BY <1>2, <2>1, SameReplica, SameBook, FewerFrames DEF Lose, replica
  <2> QED
    BY <2>2 DEF ReplicaStep, BookStep, IInv
<1> QED
  BY <1>1, <1>2, ReceiveStep, ImportFailedStep, Phase3Step DEF Next

LEMMA StutterIInv == IInv /\ UNCHANGED vars => IInv'
  BY DEF IInv, vars, ReplicaType, ClockAhead, BookType, BookConsistent, NetOK, FrameOK

LEMMA Inductive == IInv /\ [Next]_vars => IInv'
  BY NextIInv, StutterIInv

(***************************************************************************)
(* Over any network, the repair flags and rounds of a node are about other *)
(* nodes it has an entry for, and every frame in flight is well formed.    *)
(***************************************************************************)
THEOREM TypeCorrect == Spec => []TypeOK
  BY InitIInv, Inductive, IInvImplies, PTL DEF Spec

(***************************************************************************)
(* Over any network, with any losses, damage and delay, a slot only ever   *)
(* moves to a version that wins under merge_shared: stale value replies    *)
(* and late deltas undo nothing, and a local write always takes effect.    *)
(***************************************************************************)
THEOREM Monotone == Spec => NeverOlder
<1>1. IInv /\ [Next]_vars => [Forward]_vars
  BY NextIInv
<1> QED
  BY InitIInv, Inductive, <1>1, PTL DEF Spec, NeverOlder, Forward
=============================================================================
