---------------------------- MODULE AntiEntropy ----------------------------
(***************************************************************************)
(* The repair protocol of the runtime over a lossy network.  A delta is    *)
(* broadcast once; a node that missed it learns from the view digest in a  *)
(* later frame that its view differs from the sender's, asks that peer for *)
(* its index (key, timestamp), requests the keys it lacks and merges the   *)
(* values it is sent.                                                      *)
(*                                                                         *)
(* One node is one thread: Receive is the dispatch of an inbound frame and *)
(* Phase3 the gossip and repair part of one iteration of the main loop.    *)
(* Elapsed ticks are abstracted to the set of timers found expired in an   *)
(* iteration.  The digest of a view is the view itself (no collisions).    *)
(* A delta carries all that is due: bounded frames are WorldGossip's.      *)
(***************************************************************************)
EXTENDS Versions, FiniteSets

CONSTANTS Node,          \* node ids, non-zero naturals
          MaxClock,      \* bound on a node's clock when it authors a write
          Reach,         \* <<n, p>>: p is in range of n's broadcasts
          StartsPerTick, \* FLEECE_RESYNC_STARTS_PER_TICK
          MaxLosses,     \* bound on explicit losses and damaged frames
          Ticks          \* the sets of timers an iteration may find expired

Timer == {"gossip", "beacon", "quiet", "retry", "probe"}

ASSUME TicksAssumption == Ticks \subseteq SUBSET Timer
ASSUME NodeAssumption == Node \subseteq Nat \ {0}
ASSUME ReachAssumption == \A n \in Node : <<n, n>> \notin Reach

VARIABLES store,     \* store[n][k]: the slot of shared field k at node n
          clock,     \* local_timestamp
          watermark, \* shared_gossip_watermark
          heard,     \* heard[n]: peers with an entry in resync_targets
          need,      \* need[n]: the targets with need_shared
          awaiting,  \* awaiting[n]: the targets with awaiting_index
          net,       \* frames in flight
          losses     \* frames damaged, or lost although nothing was sent after them

vars == <<store, clock, watermark, heard, need, awaiting, net, losses>>

replica == <<store, clock, watermark>>

\* What the digest covers: the live entries; tombstones are left out.
View(slots) == [k \in Key |-> IF Live(slots[k]) THEN slots[k] ELSE Absent]

Nothing == [k \in Key |-> Absent]

GossipFrame(n, p, kind, recs) ==
  [kind |-> kind, from |-> n, to |-> p, recs |-> recs, view |-> View(store[n])]

IndexRequest(n, p) == [kind |-> "indexRequest", from |-> n, to |-> p]

\* [key, timestamp] of the live entries; timestamp 0: not listed.
IndexReply(n, p) ==
  [kind |-> "indexReply", from |-> n, to |-> p,
   index |-> [k \in Key |-> View(store[n])[k].ts]]

ValueRequest(n, p, keys) ==
  [kind |-> "valueRequest", from |-> n, to |-> p, keys |-> keys]

(***************************************************************************)
(* The network holds the last frame of each kind between two nodes: a      *)
(* frame not yet delivered when the next one is sent is lost, and so are   *)
(* MaxLosses others at any time.                                           *)
(***************************************************************************)
SameChannel(m, f) == m.kind = f.kind /\ m.from = f.from /\ m.to = f.to

Transmit(msgs) == {m \in net : \A f \in msgs : ~SameChannel(m, f)} \cup msgs

(***************************************************************************)
(* enqueue_tx and flush_pending_tx: a reply composed inside the transport's *)
(* dispatch is sent by a later iteration, with the content it had when it  *)
(* was composed.  The wait is part of the frame's delay and a full queue   *)
(* is a loss.                                                              *)
(***************************************************************************)
EnqueueTx(m, reply) ==
  net' = {f \in net \ {m} : ~SameChannel(f, reply)} \cup {reply}

-----------------------------------------------------------------------------
Init ==
  /\ store = [n \in Node |-> Nothing]
  /\ clock = [n \in Node |-> 0]
  /\ watermark = [n \in Node |-> 0]
  /\ heard = [n \in Node |-> {}]
  /\ need = [n \in Node |-> {}]
  /\ awaiting = [n \in Node |-> {}]
  /\ net = {}
  /\ losses = 0

Write(n, k, val) ==
  /\ clock[n] < MaxClock
  /\ clock' = [clock EXCEPT ![n] = @ + 1]
  /\ store' = [store EXCEPT ![n][k] = [ts |-> clock[n] + 1, origin |-> n, val |-> val]]
  /\ UNCHANGED <<watermark, heard, need, awaiting, net, losses>>

SetShared(n, k) == \E v \in Value : Write(n, k, v)

RemoveShared(n, k) ==
  /\ Live(store[n][k])
  /\ Write(n, k, Tombstone)

Absorb(n, recs) ==
  /\ store' = [store EXCEPT ![n] = Merge(@, recs)]
  /\ \E c \in {clock[n]} \cup {recs[k].ts : k \in Key} :
       /\ clock[n] <= c
       /\ \A k \in Key : recs[k].ts <= c
       /\ clock' = [clock EXCEPT ![n] = c]
  /\ UNCHANGED watermark

\* A gap report arms the sender's flag; a current one disarms it unless a
\* round with that peer is in flight.
NoteBehind(n, p, behind) ==
  /\ heard' = [heard EXCEPT ![n] = @ \cup {p}]
  /\ need' = [need EXCEPT ![n] =
                CASE behind -> @ \cup {p}
                  [] ~behind /\ p \notin awaiting[n] -> @ \ {p}
                  [] OTHER -> @]
  /\ UNCHANGED awaiting

\* The receiver compares its view after merging with the advertised one.
ImportAndTrack(n, m) ==
  /\ m.kind \in {"gossip", "values"}
  /\ Absorb(n, m.recs)
  /\ NoteBehind(n, m.from, View(Merge(store[n], m.recs)) # m.view)
  /\ net' = net \ {m}

AnswerIndexRequest(n, m) ==
  /\ m.kind = "indexRequest"
  /\ EnqueueTx(m, IndexReply(n, m.from))
  /\ UNCHANGED <<replica, heard, need, awaiting>>

\* Live requested entries up to the byte cap, one at least if there is any.
AnswerValueRequest(n, m) ==
  /\ m.kind = "valueRequest"
  /\ LET live == {k \in m.keys : Live(store[n][k])} IN
     \E taken \in SUBSET live :
       /\ live # {} => taken # {}
       /\ EnqueueTx(m, GossipFrame(n, m.from, "values",
                       [k \in Key |-> IF k \in taken THEN store[n][k] ELSE Absent]))
  /\ UNCHANGED <<replica, heard, need, awaiting>>

SharedAtLeast(n, k, ts) == store[n][k].ts >= ts

\* Mutant: an empty diff leaves the repair flag armed.
RequestOnly(n, m, missing) ==
  IF missing = {} THEN net' = net \ {m} /\ UNCHANGED need
                  ELSE EnqueueTx(m, ValueRequest(n, m.from, missing)) /\ UNCHANGED need

\* An empty diff certifies sync with the responder and disarms its flag.
RequestMissingKeys(n, m, missing) ==
  IF missing = {} THEN net' = net \ {m} /\ need' = [need EXCEPT ![n] = @ \ {m.from}]
                  ELSE EnqueueTx(m, ValueRequest(n, m.from, missing)) /\ UNCHANGED need

HandleIndexReply(n, m) ==
  /\ m.kind = "indexReply"
  /\ heard' = [heard EXCEPT ![n] = @ \cup {m.from}]
  /\ awaiting' = [awaiting EXCEPT ![n] = @ \ {m.from}]
  /\ RequestMissingKeys(n, m, {k \in Key : ~SharedAtLeast(n, k, m.index[k])})
  /\ UNCHANGED replica

Receive(n, m) ==
  /\ m.to = n
  /\ UNCHANGED losses
  /\ \/ ImportAndTrack(n, m)
     \/ AnswerIndexRequest(n, m)
     \/ AnswerValueRequest(n, m)
     \/ HandleIndexReply(n, m)

Lose(m) ==
  /\ losses < MaxLosses
  /\ losses' = losses + 1
  /\ net' = net \ {m}
  /\ UNCHANGED <<replica, heard, need, awaiting>>

(***************************************************************************)
(* A frame fails to import: the records before the damage stay merged and  *)
(* the digests are not compared.  import_and_track ignores the frame; the  *)
(* mesh transport reports the sender as not behind all the same.           *)
(***************************************************************************)
ImportFailed(n, m) ==
  /\ m.to = n /\ m.kind \in {"gossip", "values"}
  /\ losses < MaxLosses
  /\ losses' = losses + 1
  /\ \E read \in SUBSET {k \in Key : m.recs[k] # Absent} :
       Absorb(n, [k \in Key |-> IF k \in read THEN m.recs[k] ELSE Absent])
  /\ NoteBehind(n, m.from, FALSE) \/ UNCHANGED <<heard, need, awaiting>>
  /\ net' = net \ {m}

Due(n) == {k \in Key : store[n][k].ts > watermark[n]}

\* The delta if one is due and there is something new, else the beacon.
Outgoing(n, due) ==
  LET delta == [k \in Key |-> IF k \in Due(n) THEN store[n][k] ELSE Absent]
      to(recs) == {GossipFrame(n, p, "gossip", recs) : p \in {p \in Node : <<n, p>> \in Reach}}
  IN  CASE "gossip" \in due /\ Due(n) # {} -> to(delta)
        [] ~("gossip" \in due /\ Due(n) # {}) /\ "beacon" \in due -> to(Nothing)
        [] OTHER -> {}

AdvanceWatermark(n, due) ==
  IF "gossip" \in due /\ Due(n) # {}
  THEN \E k \in Due(n) :
         /\ \A j \in Due(n) : store[n][j].ts <= store[n][k].ts
         /\ watermark' = [watermark EXCEPT ![n] = store[n][k].ts]
  ELSE UNCHANGED watermark

\* Flagged targets without a round in flight, or whose retry is due.
Startable(n, due) ==
  {p \in need[n] : "quiet" \in due /\ (p \notin awaiting[n] \/ "retry" \in due)}

(***************************************************************************)
(* Gossip, then new rounds (a few per tick, once local writes have         *)
(* settled) and liveness probes.                                           *)
(***************************************************************************)
Phase3(n, due) ==
  /\ AdvanceWatermark(n, due)
  /\ \E started \in SUBSET Startable(n, due),
        probed \in IF "probe" \in due THEN SUBSET heard[n] ELSE {{}} :
       /\ \/ started = Startable(n, due) /\ Cardinality(started) <= StartsPerTick
          \/ Cardinality(started) = StartsPerTick
       /\ awaiting' = [awaiting EXCEPT ![n] = @ \cup started \cup probed]
       /\ net' = Transmit(Outgoing(n, due) \cup {IndexRequest(n, p) : p \in started \cup probed})
  /\ UNCHANGED <<store, clock, heard, need, losses>>

Next ==
  \/ \E n \in Node, k \in Key : SetShared(n, k) \/ RemoveShared(n, k)
  \/ \E n \in Node, m \in net : Receive(n, m) \/ ImportFailed(n, m)
  \/ \E m \in net : Lose(m)
  \/ \E n \in Node, due \in Ticks : Phase3(n, due)

Spec == Init /\ [][Next]_vars
-----------------------------------------------------------------------------
Kind == {"gossip", "values", "indexRequest", "indexReply", "valueRequest"}

TypeOK ==
  /\ store \in [Node -> Records]
  /\ clock \in [Node -> Nat]
  /\ watermark \in [Node -> Nat]
  /\ \A n \in Node :
       /\ heard[n] \subseteq Node \ {n}
       /\ need[n] \cup awaiting[n] \subseteq heard[n]
  /\ \A m \in net : m.kind \in Kind /\ m.from # m.to

(***************************************************************************)
(* The main loop runs for ever, so each of its timers expires again and    *)
(* again, and a channel that holds a frame delivers one.  Nothing is       *)
(* assumed of a particular frame: a delta can be overtaken and lost.       *)
(* Liveness probes are not relied on.                                      *)
(***************************************************************************)
Fairness ==
  \A n \in Node :
    /\ \A due \in {due \in Ticks : "probe" \notin due} : WF_vars(Phase3(n, due))
    /\ \A p \in Node \ {n}, kind \in Kind :
         WF_vars(\E m \in net : m.from = p /\ m.kind = kind /\ Receive(n, m))

FairSpec == Spec /\ Fairness

(***************************************************************************)
(* A stale value reply, composed before newer data reached the requester   *)
(* or changed at the responder, never rolls a slot back.                   *)
(***************************************************************************)
NeverOlder ==
  [][\A n \in Node, k \in Key :
       store'[n][k] = store[n][k] \/ Supersedes(store'[n][k], store[n][k])]_vars

\* Some node holds a delete-marker.
Deleted == \E n \in Node, k \in Key : store[n][k].ts > 0 /\ ~Live(store[n][k])

(***************************************************************************)
(* Anti-entropy repairs every loss of an update, and then stops: when the  *)
(* writes end, all nodes come to hold the same state although any delta,   *)
(* and any number of frames of the handshake, were lost or damaged, and    *)
(* every need_shared flag ends up disarmed for good, whatever rounds were  *)
(* in flight.  Deletes are not repaired: nothing is said once a field was  *)
(* deleted.                                                                *)
(***************************************************************************)
EventuallyRepaired ==
  \/ <>Deleted
  \/ <>[](/\ \A m, n \in Node : store[m] = store[n]
          /\ \A n \in Node : need[n] = {})
=============================================================================
