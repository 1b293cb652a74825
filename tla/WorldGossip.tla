---------------------------- MODULE WorldGossip ----------------------------
(***************************************************************************)
(* The shared ("world") stream of fleece: every node keeps one             *)
(* last-writer-wins register per key, stamps its writes with a Lamport     *)
(* clock and its own id, and broadcasts bounded deltas of what changed     *)
(* since its gossip watermark.  Frames may be lost, duplicated, delayed    *)
(* and reordered: `frames' holds every frame ever broadcast, a node may    *)
(* import any of them at any time, any number of times, or never.          *)
(*                                                                         *)
(* Byte sizes are abstracted: the cap of a frame lets any non-empty prefix *)
(* of the packing order through.  The field table is assumed large enough  *)
(* for Key; what happens when it is full is the subject of StateManager.   *)
(***************************************************************************)
EXTENDS Versions

CONSTANTS Node,      \* node ids: non-zero naturals, compared by the tie-break
          MaxClock   \* bound on a node's clock when it authors a write

ASSUME NodeAssumption == Node \subseteq Nat \ {0}
ASSUME MaxClockAssumption == MaxClock \in Nat

VARIABLES store,      \* store[n][k]: the slot of shared field k at node n
          clock,      \* local_timestamp of each node
          watermark,  \* shared_gossip_watermark of each node's runtime
          lastExport, \* lastExport[n][k]: last_export_ts of the slot
          frames,     \* every delta frame broadcast so far
          authored    \* history: every version any node ever wrote

vars == <<store, clock, watermark, lastExport, frames, authored>>

Frame == [sender : Node, recs : Records]

Authored(k, ver) == [key |-> k, ver |-> ver]

-----------------------------------------------------------------------------
Init ==
  /\ store = [n \in Node |-> [k \in Key |-> Absent]]
  /\ clock = [n \in Node |-> 0]
  /\ watermark = [n \in Node |-> 0]
  /\ lastExport = [n \in Node |-> [k \in Key |-> 0]]
  /\ frames = {}
  /\ authored = {}

\* Node n enters a version under a fresh tick of its clock into its own slot.
Stamp(n, k, origin, val) ==
  LET ver == [ts |-> clock[n] + 1, origin |-> origin, val |-> val]
  IN  /\ clock[n] < MaxClock
      /\ clock' = [clock EXCEPT ![n] = @ + 1]
      /\ store' = [store EXCEPT ![n][k] = ver]
      /\ authored' = authored \cup {Authored(k, ver)}
      /\ UNCHANGED <<watermark, lastExport, frames>>

Write(n, k, val) == Stamp(n, k, n, val)

SetShared(n, k) == \E v \in Value : Write(n, k, v)

\* Mutant: the tombstone keeps the author of the value it replaces.
RemoveKeepsOrigin(n, k) ==
  /\ Live(store[n][k])
  /\ Stamp(n, k, store[n][k].origin, Tombstone)

\* Only a live field can be removed; the tombstone is a write by the deleter.
RemoveShared(n, k) ==
  /\ Live(store[n][k])
  /\ Write(n, k, Tombstone)

\* Compare-and-set against the local live value; Tombstone: expected absent.
SetSharedCas(n, k, expected) ==
  /\ store[n][k].val = expected
  /\ \E v \in Value : Write(n, k, v)

(***************************************************************************)
(* A write to the node's own "self" stream, which is never broadcast, and  *)
(* a shared write that finds the table full take a tick from the same      *)
(* clock: timestamps of shared records have gaps.                          *)
(***************************************************************************)
SetNamed(n) ==
  /\ clock[n] < MaxClock
  /\ clock' = [clock EXCEPT ![n] = @ + 1]
  /\ UNCHANGED <<store, watermark, lastExport, frames, authored>>

\* Mutant: off by one at the watermark.
DueAfterNext(n) == {k \in Key : store[n][k].ts > watermark[n] + 1}

\* The records a delta since the watermark is about.
Due(n) == {k \in Key : store[n][k].ts > watermark[n]}

\* Mutant: the comparison is the wrong way round.
MostRecentFirst(n, j, k) == lastExport[n][j] > lastExport[n][k]

\* Packing order: least recently exported first, then oldest content.
PackedBefore(n, j, k) ==
  \/ lastExport[n][j] < lastExport[n][k]
  \/ /\ lastExport[n][j] = lastExport[n][k]
     /\ store[n][j].ts < store[n][k].ts

\* Mutant: the watermark is the newest timestamp sent, whatever is left over.
Unclamped(taken, left, w) == w \in taken /\ \A t \in taken : t <= w

(***************************************************************************)
(* included_max_ts: the newest timestamp taken into the frame, clamped to  *)
(* just below the oldest one left over.                                    *)
(***************************************************************************)
IncludedMaxTs(taken, left, w) ==
  \E top \in taken :
    /\ \A t \in taken : t <= top
    /\ \/ /\ \A t \in left : t > top
          /\ w = top
       \/ \E low \in left :
            /\ \A t \in left : low <= t
            /\ low <= top
            /\ w = low - 1

Timestamps(n, keys) == {store[n][k].ts : k \in keys}

DeltaFrame(n, taken) ==
  [sender |-> n,
   recs |-> [k \in Key |-> IF k \in taken THEN store[n][k] ELSE Absent]]

\* The records `taken', a prefix of the packing order, are marked as exported.
Pack(n, taken) ==
  /\ \A j \in taken, k \in Due(n) \ taken : ~PackedBefore(n, k, j)
  /\ lastExport' = [lastExport EXCEPT ![n] =
                      [k \in Key |-> IF k \in taken THEN clock[n] ELSE @[k]]]

\* They are broadcast.
SendDelta(n, taken) ==
  /\ Pack(n, taken)
  /\ \E w \in 0..clock[n] :
       /\ IncludedMaxTs(Timestamps(n, taken), Timestamps(n, Due(n) \ taken), w)
       /\ watermark' = [watermark EXCEPT ![n] = w]
  /\ frames' = frames \cup {DeltaFrame(n, taken)}
  /\ UNCHANGED <<store, clock, authored>>

\* At least one record always rides, even if it alone exceeds the cap.
GossipDelta(n) == \E taken \in (SUBSET Due(n)) \ {{}} : SendDelta(n, taken)

\* No memory for the frame: the records are marked, but nothing is sent and
\* the runtime keeps its watermark.
ExportFailed(n) ==
  /\ \E taken \in (SUBSET Due(n)) \ {{}} : Pack(n, taken)
  /\ UNCHANGED <<store, clock, watermark, frames, authored>>

\* Merging records also moves the clock up to the newest timestamp seen.
Absorb(n, recs) ==
  /\ store' = [store EXCEPT ![n] = Merge(@, recs)]
  /\ \E c \in {clock[n]} \cup {recs[k].ts : k \in Key} :
       /\ clock[n] <= c
       /\ \A k \in Key : recs[k].ts <= c
       /\ clock' = [clock EXCEPT ![n] = c]
  /\ UNCHANGED <<watermark, lastExport, frames, authored>>

Import(n, f) ==
  /\ f.sender # n
  /\ Absorb(n, f.recs)

\* A frame cut short: what precedes the damage stays merged.
ImportTruncated(n, f) ==
  /\ f.sender # n
  /\ \E kept \in SUBSET Key :
       Absorb(n, [k \in Key |-> IF k \in kept THEN f.recs[k] ELSE Absent])

Next ==
  \E n \in Node :
    \/ \E k \in Key : SetShared(n, k) \/ RemoveShared(n, k)
    \/ \E k \in Key, e \in Value \cup {Tombstone} : SetSharedCas(n, k, e)
    \/ SetNamed(n)
    \/ GossipDelta(n) \/ ExportFailed(n)
    \/ \E f \in frames : Import(n, f) \/ ImportTruncated(n, f)

Spec == Init /\ [][Next]_vars
-----------------------------------------------------------------------------
TypeOK ==
  /\ store \in [Node -> [Key -> Version]]
  /\ clock \in [Node -> Nat]
  /\ watermark \in [Node -> Nat]
  /\ lastExport \in [Node -> [Key -> Nat]]
  /\ frames \subseteq Frame
  /\ authored \subseteq [key : Key, ver : Version]

(***************************************************************************)
(* (timestamp, origin) names one write of the whole swarm: set_shared and  *)
(* remove_shared take a fresh tick of a clock that merge_shared keeps at   *)
(* or above everything heard, and re-stamp the origin, so no two versions  *)
(* the tie-break cannot separate ever circulate.                           *)
(***************************************************************************)
VersionUnique ==
  \A r, s \in authored :
    r.ver.ts = s.ver.ts /\ r.ver.origin = s.ver.origin => r = s

(***************************************************************************)
(* Nothing is invented on the way: every record a node holds or a frame    *)
(* carries is, payload included, a write that was issued for that key.     *)
(***************************************************************************)
Integrity ==
  \A k \in Key :
    /\ \A n \in Node : store[n][k] = Absent \/ Authored(k, store[n][k]) \in authored
    /\ \A f \in frames : f.recs[k] = Absent \/ Authored(k, f.recs[k]) \in authored

(***************************************************************************)
(* The watermark never skips a record: what a node holds was carried by    *)
(* some frame, or it is the node's own write and still due for export.     *)
(* This is what the clamp in export_shared_delta_bounded is there for.     *)
(***************************************************************************)
NoWriteSkipped ==
  \A n \in Node, k \in Key :
    \/ store[n][k] = Absent
    \/ store[n][k].origin = n /\ k \in Due(n)
    \/ \E f \in frames : f.recs[k] = store[n][k]

\* No delta is due anywhere and no frame would change its receiver.
Quiescent ==
  /\ \A n \in Node : Due(n) = {}
  /\ \A f \in frames, n \in Node : f.sender # n => Merge(store[n], f.recs) = store[n]

Converged == \A m, n \in Node : store[m] = store[n]

(***************************************************************************)
(* Strong convergence: once every node has merged what the others sent,    *)
(* in whatever order, with whatever duplicates and truncated imports, all  *)
(* replicas are identical - payloads and deletes included.                 *)
(***************************************************************************)
QuiescentConverged == Quiescent => Converged

(***************************************************************************)
(* The strengthening that makes the invariants above inductive: a node's   *)
(* clock dominates what it wrote, holds and has exported, and a sender     *)
(* never falls behind a frame it sent.                                     *)
(***************************************************************************)
ClocksDominate ==
  /\ \A r \in authored :
       r.ver.origin \in Node /\ r.ver.ts \in 1..clock[r.ver.origin]
  /\ \A n \in Node :
       /\ watermark[n] <= clock[n]
       /\ \A k \in Key : store[n][k].ts <= clock[n]

SenderAhead ==
  \A f \in frames, k \in Key : ~Supersedes(f.recs[k], store[f.sender][k])

IInv ==
  /\ TypeOK
  /\ ClocksDominate
  /\ VersionUnique
  /\ Integrity
  /\ NoWriteSkipped
  /\ SenderAhead

(***************************************************************************)
(* A slot only ever moves to a version that wins under merge_shared: a     *)
(* stale frame never rolls a field back nor resurrects a deleted one.      *)
(***************************************************************************)
NeverOlder ==
  [][\A n \in Node, k \in Key :
       store'[n][k] = store[n][k] \/ Supersedes(store'[n][k], store[n][k])]_vars

(***************************************************************************)
(* The main loop gossips again and again while something is due.  Delivery *)
(* is fair here: frames are delayed, never lost for good.  Loss is what    *)
(* the repair protocol of module AntiEntropy is about.                     *)
(***************************************************************************)
Fairness ==
  \A n \in Node :
    /\ WF_vars(GossipDelta(n))
    /\ WF_vars(\E f \in frames : f.sender # n /\ Import(n, f) /\ store'[n] # store[n])

FairSpec == Spec /\ Fairness

(***************************************************************************)
(* When the writes stop, delta gossip alone brings every node to the same  *)
(* state for good: bounded frames leave nothing behind and the packing     *)
(* order of the exporter does not starve a record.                         *)
(***************************************************************************)
EventuallyConverged == <>[]Converged
=============================================================================
