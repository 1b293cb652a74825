# fleece: TLA+ models, checks and proofs

fleece is a swarm coordination runtime for microcontrollers.  Every node keeps a
replicated `world` of last-writer-wins fields, gossips deltas of it, repairs what
was lost with a digest-driven handshake, auctions goals over it, runs a GOAP
brain, and talks to its peers over a Reticulum mesh.  This directory models these
parts in TLA+, checks them with TLC, and proves with TLAPS, for every value of the
constants, the safety properties of all of them but the tables and their codec.
Paths below are relative to the repository.

## The system and its parts

| Part | Source | Modules | Status |
|---|---|---|---|
| Field table and peer liveness of the state manager | `src/state/fleece_state_manager.c` | `FieldMap`, `StateManager`, `StateManagerProofs` | modelled |
| Shared stream: LWW rule, delta export, import | `src/state/fleece_state_manager.c`, `src/runtime/fleece_runtime.c` | `Versions`, `WorldGossip`, `WorldGossipProofs`, `ExportFairness`, `MCExportFairness` | modelled |
| Anti-entropy of the runtime | `src/runtime/fleece_runtime.c` | `AntiEntropy`, `AntiEntropyProofs` | phase 3 of the main loop, the FX handshake, failed imports; table sizes are not modelled |
| Goal pool and action library | `src/embedded/fleece_embedded.c`, `src/embedded/fleece_goap_js.c` | `GoalPool`, `GoalPoolProofs` | control modelled, scripts are inputs |
| GOAP brain | `src/embedded/fleece_goap_js.c` | `GoapBrain`, `MCGoapBrain`, `GoapBrainProofs` | the tick, without diagnostics and setters |
| Planner search and heap | `src/planner/fleece_planner.c` | `Planner`, `PlannerHeap`, `PlannerHeapProofs`, `PlannerProofs` | modelled, without allocation failures |
| Planner tables, plan blob, utilities and ranking, compiled functions | `src/planner/fleece_planner.c`, `src/embedded/fleece_goap_js.c` | `GoapTables` | modelled, with integers for doubles |
| CBOR codec | `src/state/fleece_cbor.c` | `Cbor` | the items of plan blobs |
| Reticulum transport, comms | `src/reticulum/fleece_reticulum.cpp`, `src/comms/fleece_comms.c` | `Reticulum`, `ReticulumProofs` | identity, peer table, links, fan-out, announces |
| Node restart | all | `Reticulum` | what survives, the node id; see below for the store |
| JavaScript bindings, script lifecycle | `src/embedded/fleece_embedded.c` | | not modelled: glue to QuickJS |
| Runtime lifecycle, phases 1, 2 and 4; platform registry | `src/runtime/fleece_runtime.c`, `src/platform` | | not modelled: straight-line code |

How they interact: the main loop of a node runs the script and the brain, which
write `world`; then it broadcasts a delta of what is newer than its watermark, or
a beacon with the digest of its view, and starts repair rounds.  The transport
fans every frame out to the peers it knows.  Inbound frames are merged into the
same store between these steps.  A node is one thread, so an action of a model is
a call that runs to completion on one node; all concurrency is between nodes, the
network and the callbacks of the Reticulum stack.

## Modules

**Versions.**  A slot is a version (timestamp, origin, payload or tombstone);
`Supersedes` is the rule of `merge_shared`, `Absent` a slot that does not exist.

**WorldGossip.**  State: the slots, clock, watermark and export marks of every
node, all frames ever broadcast, and the history of writes.  Actions: `SetShared`,
`RemoveShared`, `SetSharedCas`, `SetNamed` (a clock tick without a shared record),
`GossipDelta` (`export_shared_delta_bounded` and the watermark update that follows
it), `ExportFailed` (the exporter finds no memory, after it has marked the
records), `Import`, and `ImportTruncated` (`import_impl` returning half way).  A
frame stays in `frames`, so it can be imported late, repeatedly, out of order or
never.  The byte cap is the choice of a non-empty prefix of the packing order.

**ExportFairness** looks at nodes that write, delete and export their own records,
and counts the frames of a node that a due record did not ride in.

**AntiEntropy.**  Adds the resync targets (`heard`, `need`, `awaiting`) and a
network that keeps the last frame of a kind per channel, so later frames overwrite
earlier ones, and loses `MaxLosses` others.  `Receive` is the dispatch of one
frame, `ImportFailed` the gap report after a frame that could not be imported,
`Phase3` the gossip and repair part of an iteration, given the timers that have
expired.  A digest is the view it is computed from: collisions are left out.

**StateManager** is the slot array: first-match scans, `field_count`, in-place
deletes, capacity failures, compaction.  **FieldMap** is what it promises, a map
whose fields only move to newer versions.  The first implements the second, with
`Content` of the named fields as the mapping; steps on unnamed fields are stutters.
Beside the array it has the bounded table of peers heard: an import touches its
sender's entry, a `Tick` ages all of them.  `silence` is the history variable the
table is compared with: the ticks since a peer was really heard.

**GoalPool.**  Goal and claim records replicated one by one; `Work`, `Finish`,
`Block` and `Stall` (blocked, but the prerequisite cannot be posted) are the ways
`goal_pool_tick` ends, each with the whole of `claim_best_goal` before it; `Reassert`
is the 30th tick.  What missions decide is input: readiness, and scores, which
`Rescore` changes at any time, up to rejection and back.  `silent` is what a node
makes of `ticks_since_seen`: a peer whose time to live ran out, because it crashed
(`Bury`) or although it is alive (`Lapse`: lost frames, relays, a full table of
tracked peers), until it is heard again (`Hear`).  `dropped` is a history variable:
goals a node let go of, on rejection, with the claim still in its name.

**GoapBrain.**  `fleece_goap_brain_tick`, one action per way through it; which
goals are wanted and plannable and what an exec body does are inputs.  A field is its
bytes: `Serialized` is what `JSON.parse` and `JSON.stringify` make of them, which is
other bytes for what native code wrote, and nothing for what is no JSON.  Every field of the
snapshot goes through it, whether the body touches it or not.

**Planner** is the A* loop over an explicit graph: `Pop` takes the root of the heap
and tests it, `Expand` tries one action on the node taken, `GiveUp` is the end of
the loop.  **PlannerHeap** is the array heap it uses, a hole that moves up on a push
and down on a pop.

**Cbor** has the encoder's two passes (`*Size` and `Write*`) and the decoder, byte by
byte.  **GoapTables** builds plans from them: rows are registered, the tables
serialized, loaded whole or cut off after any byte, reset and registered anew under a
living evaluator, the blackboard is changed and keyed, goals are ranked, and functions
are compiled into a cache that outlives a reload of the tables.

**Reticulum.**  One node's transport.  `node` is how far it has been set up, `stored`
the key in the host's storage, `table` the peer table with the age of every entry and
the links cached in it, `links` the links this node opened.  Actions: the entry points
(`Configure`, `IdentityInit`, `Start` and the ways it fails, the sends, `Poll`, whose
announces may throw) and what the stack does during a poll (`ReceivedAnnounce`,
`LinkProgress`, `LinkClosed`).  `out` is what the last step sent.  `Live` peers announce
at least once every `Interval` polls, `Other` ones as they like; `quiet` counts the
polls since a live peer announced.

Operators commented as *Mutant* are wrong variants of the definition that follows
them.  No action uses them: each shows that a property notices that mistake.

## Runs that pass

Run `tlc -config X.cfg M`.  The configuration has the name of the run.

| Run | Module | Shows |
|---|---|---|
| MCWorldGossip | WorldGossip | two writers, two fields: `VersionUnique`, `Integrity`, `NoWriteSkipped`, `QuiescentConverged`, `NeverOlder`, `EventuallyConverged` |
| MCExportFairness | MCExportFairness | `BoundedWait`: no record is starved by others that are rewritten constantly |
| MCAntiEntropy | MCAntiEntropy | lost updates are repaired and repair ends (`EventuallyRepaired`), stale value replies never roll back a slot (`NeverOlder`) |
| MCStateManager | MCStateManager | `OneSlotPerField`, `ImplementsMap` with named and unnamed fields, a full table and compaction; `SwarmIsCurrent`: who counts as live is who was heard lately |
| MCGoalPool | MCGoalPool | simultaneous claims, and live nodes that took each other for dead, end with one owner (`EventuallyExclusive`); every goal is completed after a crash, a prerequisite, a contest or a change of scores (`EveryGoalDone`); neither blocking nor outbidding nor switching leaves a claim behind, only rejection does (`NoStrayClaim`) |
| MCGoapBrain | MCGoapBrain | no field is re-stamped tick after tick (`NoIdleRestamp`); the watchdog, cooldowns and fallback (`NeverPinned`, `BestGoalPursued`, `FallsBack`) |
| MCPlanner | MCPlanner | executable, correctly priced plans, shortest ones with unit costs, and budgets, on all graphs of a family (`PlanSound`, `ShortestPlan`, `SearchBounded`, `TypeOK`); the heap pops a least entry and loses none (`PopsLeast`) |
| MCGoapTables | MCGoapTables | texts are closed within their fields and the cache has one entry per function (`TypeOK`); the blob has the measured size and reads back (`TwoPassSizing`, `RoundTrip`), a cut one is refused (`CutBlobRefused`); state keys (`KeyIsState`), curves and ranking (`CurveIsItsPoints`, `RanksByUtility`); the function cache (`FreshFunctions`, `NothingEvicted`) |
| MCReticulum | MCReticulum | links and transfers over evictions and closes (`LinksBelong`, `NoOrphanedTransfer`), the fan-out (`FanOutComplete`, `PacketsFit`), identity over reboots (`NodeIdStable`), how long a node may be silent (`AnnouncesInTime`) and what eviction does to live peers (`GhostsGoFirst`) |

## Runs that show a disagreement with the documentation

| Run | What happens |
|---|---|
| MCCompact | compaction neither clears nor counts an unnamed tombstone; the slot is found again, revived, and then overwritten by a new field |
| MCLostDelete | a delete whose delta is lost is never repaired: indexes list live entries only |
| MCBrainCommit | committing the blackboard undoes what the exec body did to the live store |

`PROJECT.json` quotes the sentence each of them contradicts.

## Where the properties stop

Each limit below is in the statement of a property or in the instance it is checked
on, because beyond it the code behaves otherwise.  No run is kept for them.

- `EventuallyRepaired` says nothing after a delete (MCLostDelete shows why), and
  MCAntiEntropy has one writer: two writes with equal timestamps whose deltas are
  lost are never reconciled, because `shared_at_least` compares timestamps only.
- A record merged with a timestamp at or below the receiver's watermark is never in
  a delta of that receiver; `NoWriteSkipped` is about a node's own writes.
- `BoundedWait` is about a node's own records, whose timestamps differ: among records
  with one timestamp, merged from different writers, the exporter has no order once they
  have been sent.  It is also about exports that succeed.  A failed one has marked its
  records as exported, so they queue up again; that they go out in the end, and that
  none is skipped, is checked with failing exports (MCWorldGossip).
- `SwarmIsCurrent` lets a live peer be missing when the table of tracked peers is
  full: entries are never dropped, so such a peer counts as silent for good.
- `claim_best_goal` drops a held goal whose scorer has come to reject it and leaves
  the claim record in place, which keeps live peers away.  `NoStrayClaim` excepts such
  goals, and `EveryGoalDone` names this as one of the two ways a goal may stay open.
- `EventuallyExclusive` and `EveryGoalDone` suppose that live nodes hear one another
  within the time to live in the end (`HearEachOther`) and that scores settle.
  Nodes that only hear each other through relays, or have no room to track each other,
  take a claim from each other for as long as they like: the takeover test is
  `ticks_since_seen(holder) > peer_ttl_ticks`, and an untracked peer counts as silent.
- Blocking that never gets its prerequisite posted (the record does not fit, the store
  is full) repeats for ever: the goal is claimed and released at every tick.
- `NoIdleRestamp` lets a field be re-stamped once for every native write to it.  The
  comment of `bb_commit` promises that what the body did not touch is skipped, but
  claims written by `cas_claim` with `%.17g` may differ from what QuickJS makes of them.
- `NeverPinned` and `BestGoalPursued` are about a brain whose host has switched the
  watchdog on (`MaxActionTicks > 0`).  It is off by default.
- `ShortestPlan` is about unit costs and one target.  With unequal costs a state
  first generated too deep can hide a plan within `max_plan_depth`.
- `VersionUnique`, and all that rests on it, is about nodes that do not restart
  under an old id.  `NodeIdStable` says that a restarted node does get its old id
  back, and its store is empty then: its first writes reuse timestamps.
- `NodeIdStable` takes the load hook at its word: `false` is "nothing has been stored
  yet".  A hook that fails on a key it holds has that key overwritten.
- `AnnouncesInTime` grants an interval for each announce in a row that threw.  The
  counter has advanced before, so the exception that `poll` swallows costs a whole interval.
- `NoOrphanedTransfer` is about active links; a stale one is replaced as it is.
- `GhostsGoFirst` is weaker than the comment in `PeerTable::add`, "a live peer ...
  is never the oldest": with more than `kMaxPeers` peers that all announce, the
  oldest is a live one, and it is evicted.
- `FanOutComplete` is about packets.  A peer whose link throws ends an oversized
  fan-out early, and what is dropped while a link is set up is not sent again.
- `PacketsFit` is about an MTU with room for one cipher block of payload.  Below
  that the ceiling wraps around and every payload is sent as a packet.
- The blackboard of the planner has one field per name, as `bb_index` and `bb_set` have
  it.  A comment in `tests/test_planner.c`, "Same name in world namespace is a distinct
  field", and the header's lookup "across both namespaces, self first" say otherwise;
  the test itself only reads the field that was set last.

## Bounds

- Clocks: `MaxClock` bounds the timestamps at which a node still writes.  Two
  writes per node suffice for write/delete races, ties and a frame that leaves out
  an older record behind a newer one.  Imports are not bounded.
- Nodes and keys: two nodes and two keys give concurrent writes and frames that
  hold part of what is due.  The theorems cover any number of nodes.  In
  MCAntiEntropy node 1 broadcasts and node 2 repairs and probes.
- `MaxLosses` counts losses of a frame nothing was sent after; a frame overtaken
  on its channel is lost in addition, any number of times.
- State manager: two peers and room to track one of them, a time to live of one
  tick; only one of the peers writes.  Raw keys are symmetric.
- Goal pool: `Limit` bounds crashes, changes of scores, re-assertions, live peers that
  fall silent, claims taken from live peers, and failures to post a prerequisite;
  `Scenario` lists how much of each a behaviour may use.  Two takeovers are a claim
  taken and taken back, two changes of scores a rejection and its reversal.
  `Limit.slack`, the number of clock ticks of other writes that are counted, is 0: clocks
  drift apart through re-assertions and late deliveries alone.  `MaxClock` is above what
  the other bounds allow, and so cuts nothing off.
- Brain: two values as QuickJS writes them, one of them also as native code does, and
  bytes that are no JSON.
- Planner: all graphs on five states with two actions whose edges lead forward or
  one state back, with costs 1 and 1 or 1 and 3; budgets small enough to be hit, and
  a visited table that can fill.  The theorems cover heaps and searches of any size.
- Tables: rows whose texts, lists and numbers lie on both sides of the lengths at
  which a CBOR head grows and of the sizes of the fixed text fields (the real ones,
  64, 2048 and 128).  `MaxCompiled` bounds compilations.  Under a living evaluator only
  actions and goals are registered: the other tables have no sources to compile.
- Reticulum: one live peer and two others compete for two slots, so evictions
  happen; two links open at a time; an interval of two polls, and at most one announce
  in a row that throws (`MaxMissed`); payloads just below
  and just above the ceiling of the real MTU, 460.  Peers of a kind, keys and links
  are symmetric.
- `MCExportFairness` has one node and three records, which are symmetric, and a view
  without the history, on which no later step depends.  Waits of five frames occur;
  the bound is six.

Deadlock is not checked where the bounds stop the system; it is in GoapBrain and
Reticulum.

## Fairness

- The main loop never ends, so `GossipDelta`, `Phase3` for each set of timers and
  the ticks of the brain are weakly fair.  A failing export is not: memory may run
  out again and again, between exports that succeed.
- WorldGossip assumes that a frame that would change a node is imported in the
  end; AntiEntropy assumes only that a channel holding a frame delivers one, so any
  particular delta may be lost.  Liveness probes are not relied on.
- GoalPool: gossip reaches nodes that stay up, and the time to live of one that does not
  runs out.  `EveryGoalDone` has a hypothesis, `MissionFairness`: work on a goal comes to
  an end, which is up to the mission.  Nothing makes live nodes hear one another: that is
  the hypothesis `HearEachOther`.
- GoapBrain: nothing is assumed of what exec bodies do.
- StateManager, GoapTables and Reticulum state safety only.  In Reticulum the
  guard `Timely` of `Poll` is an assumption about live peers: they are polling as
  well, so none stays silent for longer than the announce interval.

## Proofs

**WorldGossipProofs** proves, for every set of nodes, keys and values and every
clock bound: `TypeCorrect`, `UniqueVersions`, `RecordsAreWrites`, `WatermarkSafe`,
`StrongConvergence` and `Monotone`.  The assumptions are that node ids are
non-zero naturals, the clock bound is a natural and the tombstone is no value.

The invariants are not inductive alone.  `IInv` adds `ClocksDominate`: a clock is
at or above everything its node wrote, holds or has put below its watermark, which
makes a fresh tick a fresh version and a new write due.  It also adds
`SenderAhead`: a sender never falls behind a frame it sent, so that a record a
node exported is still matched or beaten by its own slot.  `SupersedesOrder` shows
that the conflict rule is a strict order whose ties are equal versions, and
`MergeNewest` that merging never moves a slot back; each action's case rests on
these two.  Strong convergence follows without a further induction: when nothing
is due, `NoWriteSkipped` puts every held record into some frame, no frame changes
its receiver, so no slot of one node beats another's, and `VersionUnique` makes
slots that tie equal.

Its last theorem, `NoStarvation`, is `BoundedWait` for any finite set of records.
`FairnessInv` counts the turns the competitors of a record still have before it, in
three sets (`NotAhead`, `Tied`, `Behind`), and says that frames waited and turns
left add up to no more than there were.  `TurnUsed` is the heart of it.  A frame that
leaves the record out takes only records that were exported no later.  If the clock
has moved on since, such a one is then ahead.  If not, it either was behind, and
catches up, or it is tied and older than everything left over: then the clamp puts
the watermark at or above it, and it is not due again.  A write moves the clock, which
ends all ties.

**AntiEntropyProofs** proves `TypeCorrect` and `Monotone`: over any network with any
losses, stale replies and failed imports, no slot moves back.  `IInv` adds that a clock
is at or above every record of its node (`ClockAhead`), that a repair flag or a round is
about a peer with an entry (`BookConsistent`), and the types of frames in the network,
since any of them may be delivered next.

**StateManagerProofs** proves `SwarmIsCurrent` for any peers, any size of the
table and any time to live.  The inductive invariant says that the age of an entry
is the silence of its peer (`AgeIsSilence`), that no peer has two entries
(`TrackedOnce`), without which a touch could refresh the wrong one, and that a peer
that was heard is tracked unless the table is full (`TrackedOrFull`).

Of the slot array it proves, for any capacity, `TypeCorrect`, `FieldsHaveOneSlot`
and `TableImplementsMap`, the refinement of `FieldMap`.  `TableInv` adds
`NamedCounted`, every named entry is below `field_count`, so that a new field never
lands on one, and `StampsPast`, the clock is ahead of the table, so that a local
write is newer.  A step either leaves the named fields alone, and is a stutter of
the map, or is one `Write` of a newer version.

**GoalPoolProofs** proves `ClaimsFollowHeldKey` (`NoStrayClaim`), `TypeCorrect` and
`OwnClaimsStayNewest`, for any nodes, goals, scores that change at will and margin, with
records delivered late, again and out of order, and nodes that crash or are taken for
dead.  That a node owns no claim but the one it holds and those it dropped depends on
what others can still send it:
`Inv` says that nobody has a newer version of a node's own claim or prerequisite
than the node itself (`OwnClaimsNewest`, `PrerequisitesNewest`), that a goal is
posted once and only deleted afterwards (`GoalsPostedOnce`), so that a closed goal
never reopens under a claim, and that claims are about goals seen (`ClaimsPosted`).
Assumed: node ids are non-zero naturals, scores are naturals, scenarios have their
types, and prerequisites, the tombstone and "none" are distinct from other names.

**GoapBrainProofs** proves `TypeCorrect`, `WatchdogBounds` (an action in flight
belongs to a plan for a goal and is below the tick limit) and `ForeignBytesStampedOnce`
(`NoIdleRestamp`), for any goals, actions, fields and limits.  Assumed of the JSON
serializer: it parses what it wrote, and writes it the same way again.

**PlannerProofs** proves, for every domain, targets and limits, `PlansSound`,
`SearchWithinBudget`, `PlannerTypeCorrect`, `HeapPopsLeast` and `PlansShortest`.
Assumed: costs are naturals, limits are positive, and there is an action.
`action_cost_for` turns a negative cost into 1.  It lets pass a cost that is not a
number, which compares false with everything and breaks the order of the heap: such
costs are left out.  The argument has four parts; the first two are in
**PlannerHeapProofs**.

- What a recursive definition computes is proved by least counterexamples.
  `Recursion` gives a function that satisfies the recursion whenever a rank falls
  along it; `LeastRank` finds the position of least rank at which a claim fails.
  The lemmas named `...Unfolds` apply this to the two loops of the heap, to the plan
  read off the parents and to the outcome of a plan.
- The heap.  Seen from the position of the hole, the keys above it or below it are
  in order (`Raised`, `Lowered`), and the array is the old one with its positions
  permuted (`Moved`).  So a push and a pop keep the order, and add and remove just
  the entry they should (`EntryPushed`, `EntryPopped`).
- The search.  `SearchInv` says that every node but the first is the successor of an
  earlier node by an applicable action, at its price and one deeper (`Extends`),
  that the heap is one, without duplicates and with indices of nodes (`OpenInv`),
  and that while a node is expanded every action tried has added at most one node
  to those the budget allowed (`BudgetInv`).  `ActionsReach` follows the parents:
  the actions read off lead to the node's state at the node's cost.
- Shortest plans.  With unit costs and one target `f` is the depth of a node, plus 1
  unless it is a goal, and the search goes level by level: no node is two deeper than
  one that waits (`Frontier`), a goal that was reached still waits (`GoalsWait`), a
  state is dropped as too deep only when all that waits is as deep (`NoneDropped`), and
  every action tried leads to a state that has a node at most one deeper (`Complete`).
  `Levels` is the conjunction of these and two more.  `NoneNearer` looks at the least
  distance at which a goal could have been missed.  A full table of visited states does
  no harm.  Too deep states fill it only when all that waits is as deep; before that every
  visited state has a node, and the table is full only when the budget of nodes is spent.
  The search then pops no more, and its heap is not empty, so it does not claim that there
  is no plan.

**ReticulumProofs** proves all properties of Reticulum, for any number of peers,
slots and links, any interval and any MTU: `TypeCorrect`, `CachedLinksBelong`,
`FanOutReachesAll`, `PacketsFitRadio`, `AnnouncedInTime`, and of steps `NodeIdKept`,
`GhostsEvictedFirst` and `TransfersConcluded`.  The assumptions are that there is a
slot, an interval of at least one poll, that sizes are naturals, and that the value
for "none" is neither a link nor a key.  `IInv` adds `DistinctPeers` (an identity
has one entry, so links of different slots lead to different peers), `AgeIsQuiet`
(the age of a live peer's entry is the time since it announced, so it is below the
saturated age of a ghost), `SilenceInStep` (an open node has been silent for at most as
long as the counter is past a multiple of the interval, and an interval more for every
announce in a row that threw), `IdentityKept` and
`SentToTable`.

The type invariants are theorems rather than run properties where they are proved,
except that of Planner.  `TypeCorrect` is the name in each of these modules.

The SMT encoding of this version of the prover treats the length of a function as
defined by its domain in both directions, which is sound for sequences only.  No
proof here depends on that: all of them also go through with this axiom restricted
to the direction from the domain `1..n` to the length `n`.

Only model-checked: all liveness properties and everything about GoapTables.
Liveness under fairness is outside what the installed provers do.  `GoapTables` and
`Cbor` define their codec with RECURSIVE operators, about which they cannot reason
either.

## Not modelled, and why

- A restart in WorldGossip: it voids the uniqueness everything there rests on (see
  above), so an action for it would only replace the theorems by their failure.
- The sizes of the target, index and reply tables of the runtime, and hash
  collisions of names and digests: `EventuallyRepaired` fails beyond them.
- Goals added after a brain was created, whose cooldown array keeps its size.
- The JavaScript bindings: their control is QuickJS's; what they do to the store
  is in WorldGossip, GoalPool and GoapBrain.
- Creation and stop of the runtime, the order of the phases other than 3, the
  platform registry and the counters of the comms: straight-line code in which
  nothing is interleaved.
- `send_to_node`, inbound resources and the log of the transport; gossip frames as
  bytes; floating-point rounding; wrap-around of 32-bit tick counters; allocation
  failures other than those of the exporter and those that look like a full table.

The hazards in `PROJECT.json` say for each whether a property covers it.
