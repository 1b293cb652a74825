---------------------------- MODULE StateManager ----------------------------
(***************************************************************************)
(* One node's field table: a fixed array of slots shared by the node's own *)
(* ("self") fields, peers' fields and shared ("world") fields, found by a  *)
(* linear scan over the whole array and allocated at field_count.          *)
(*                                                                         *)
(* Beside it, the table of the peers heard from, with the ticks since, by  *)
(* which scripts and claims tell live peers from silent ones.              *)
(*                                                                         *)
(* A name stands for its hash (no collisions).  Payload sizes and the      *)
(* export bookkeeping of a slot are left out.                              *)
(***************************************************************************)
EXTENDS Naturals, Sequences, FiniteSetsExt

CONSTANTS Self,      \* this node's id
          Peer,      \* ids of the other nodes
          Writer,    \* the peers whose records are merged
          Name,      \* names of fields
          RawKey,    \* keys of the unnamed legacy fields
          Value,     \* payloads
          Tombstone, \* is_tombstone
          Capacity,  \* FIELD_CAPACITY
          MaxTracked, \* FLEECE_MAX_TRACKED_PEERS
          Ttl,       \* peer_ttl_ticks
          MaxClock   \* bound on the clock and on remote timestamps

Shared == 0 \* FLEECE_SHARED_OWNER_ID

ASSUME IdAssumption == Self \in Nat \ {0} /\ Peer \subseteq Nat \ {0, Self}
ASSUME PeerAssumption == Writer \subseteq Peer /\ MaxTracked \in Nat /\ Ttl \in Nat
ASSUME BoundAssumption == Capacity \in Nat /\ MaxClock \in Nat
ASSUME KeyAssumption == Name \cap RawKey = {} /\ Tombstone \notin Value

VARIABLES slots, fieldCount, clock,
          peersSeen, \* peers_seen: a sequence of [id, age]
          silence    \* ticks since a peer was heard, tracked or not

vars == <<slots, fieldCount, clock, peersSeen, silence>>

table == <<slots, fieldCount, clock>>
peers == <<peersSeen, silence>>

Index == 1..Capacity

\* The slot calloc and memset leave behind.
Empty == [exists |-> FALSE, key |-> 0, owner |-> 0, named |-> FALSE,
          ts |-> 0, origin |-> 0, val |-> Tombstone]

Entry(key, owner, ver) ==
  [exists |-> TRUE, key |-> key, owner |-> owner, named |-> key \in Name,
   ts |-> ver.ts, origin |-> ver.origin, val |-> ver.val]

Ver(ts, origin, val) == [ts |-> ts, origin |-> origin, val |-> val]

\* Mutant: the scan skips tombstones.
LiveHolders(key, owner) ==
  {i \in Index : /\ slots[i].exists /\ slots[i].val # Tombstone
                 /\ slots[i].key = key /\ slots[i].owner = owner}

\* The slots find_slot_owned can return; it returns the first.
Holders(key, owner) ==
  {i \in Index : slots[i].exists /\ slots[i].key = key /\ slots[i].owner = owner}

FindSlot(key, owner) == Min(Holders(key, owner))

Found(key, owner) == Holders(key, owner) # {}

\* find_field_owned: a slot that is not a tombstone.
FoundLive(key, owner) ==
  Found(key, owner) /\ slots[FindSlot(key, owner)].val # Tombstone

\* An age is current_tick - last_seen_tick, saturated where it no longer
\* matters; it is also that of a peer never heard.
Silent == Ttl + 1

-----------------------------------------------------------------------------
Init ==
  /\ slots = [i \in Index |-> Empty]
  /\ fieldCount = 0
  /\ clock = 0
  /\ peersSeen = <<>>
  /\ silence = [p \in Peer |-> Silent]

(***************************************************************************)
(* Update the slot of (key, owner), or take the one at field_count.  It    *)
(* fails, changing nothing, when the table is full or when no buffer can   *)
(* be allocated for the payload.                                           *)
(***************************************************************************)
UpsertField(key, owner, ver) ==
  \/ /\ Found(key, owner)
     /\ slots' = [slots EXCEPT ![FindSlot(key, owner)] = Entry(key, owner, ver)]
     /\ UNCHANGED fieldCount
  \/ /\ ~Found(key, owner)
     /\ fieldCount < Capacity
     /\ slots' = [slots EXCEPT ![fieldCount + 1] = Entry(key, owner, ver)]
     /\ fieldCount' = fieldCount + 1
  \/ /\ \/ ver.val # Tombstone
        \/ ~Found(key, owner) /\ fieldCount >= Capacity
     /\ UNCHANGED <<slots, fieldCount>>

\* Mutant: only the first frame of a peer is noted.
TouchOnce(p) ==
  LET known == \E i \in DOMAIN peersSeen : peersSeen[i].id = p
  IN  IF known \/ Len(peersSeen) = MaxTracked THEN peersSeen
      ELSE Append(peersSeen, [id |-> p, age |-> 0])

\* touch_peer: with a full table a new peer is skipped, for good.
TouchPeer(p) ==
  LET known == \E i \in DOMAIN peersSeen : peersSeen[i].id = p
  IN  IF known
      THEN [i \in DOMAIN peersSeen |->
              IF peersSeen[i].id = p THEN [id |-> p, age |-> 0] ELSE peersSeen[i]]
      ELSE IF Len(peersSeen) = MaxTracked THEN peersSeen
      ELSE Append(peersSeen, [id |-> p, age |-> 0])

Hear(p) ==
  /\ peersSeen' = TouchPeer(p)
  /\ silence' = [silence EXCEPT ![p] = 0]

Older(age) == IF age < Silent THEN age + 1 ELSE age

Tick ==
  /\ peersSeen' = [i \in DOMAIN peersSeen |-> [peersSeen[i] EXCEPT !.age = Older(@)]]
  /\ silence' = [p \in Peer |-> Older(silence[p])]
  /\ UNCHANGED table

\* A frame without records, as a beacon is.
ImportBeacon(p) == Hear(p) /\ UNCHANGED table

\* A local write takes a fresh tick even if the upsert then fails.
LocalWrite(key, owner, val) ==
  /\ clock < MaxClock
  /\ clock' = clock + 1
  /\ UpsertField(key, owner, Ver(clock + 1, Self, val))
  /\ UNCHANGED peers

\* A delete re-stamps the slot in place: fresh tick, this node the author.
Bury(key, owner) ==
  /\ FoundLive(key, owner)
  /\ clock < MaxClock
  /\ clock' = clock + 1
  /\ slots' = [slots EXCEPT ![FindSlot(key, owner)] =
                 Entry(key, owner, Ver(clock + 1, Self, Tombstone))]
  /\ UNCHANGED <<fieldCount, peers>>

Set(k) == \E v \in Value : LocalWrite(k, Self, v)

Remove(k) == Bury(k, Self)

SetNamed(name) == \E v \in Value : LocalWrite(name, Self, v)

RemoveNamed(name) == Bury(name, Self)

SetShared(name) == \E v \in Value : LocalWrite(name, Shared, v)

RemoveShared(name) == Bury(name, Shared)

\* expected = Tombstone: the field must be absent or deleted.
SetSharedCas(name, expected) ==
  /\ IF expected = Tombstone
     THEN ~FoundLive(name, Shared)
     ELSE FoundLive(name, Shared) /\ slots[FindSlot(name, Shared)].val = expected
  /\ \E v \in Value : LocalWrite(name, Shared, v)

\* The incumbent is newer; ties go to the higher author id, or stay.
KeepsIncumbent(key, owner, ver) ==
  /\ Found(key, owner)
  /\ LET inc == slots[FindSlot(key, owner)] IN
     \/ inc.ts > ver.ts
     \/ inc.ts = ver.ts /\ (owner = Shared => inc.origin >= ver.origin)

MergeRecord(key, owner, ver) ==
  /\ clock' = Max({clock, ver.ts})
  /\ IF KeepsIncumbent(key, owner, ver)
     THEN UNCHANGED <<slots, fieldCount>>
     ELSE UpsertField(key, owner, ver)

\* A peer's self field: never one of ours.
MergeNamed(peer, name) ==
  /\ Hear(peer)
  /\ \E ts \in 1..MaxClock, val \in Value \cup {Tombstone} :
       MergeRecord(name, peer, Ver(ts, peer, val))

\* A shared field some other node wrote.
MergeShared(origin, name) ==
  /\ UNCHANGED peers
  /\ \E ts \in 1..MaxClock, val \in Value \cup {Tombstone} :
       MergeRecord(name, Shared, Ver(ts, origin, val))

\* Mutant: named delete-markers are reclaimed too.
KeptByEager(i) == slots[i].exists /\ slots[i].val # Tombstone

\* What compact keeps: live entries and named tombstones.
Kept(i) == slots[i].exists /\ (slots[i].val # Tombstone \/ slots[i].named)

KeptSlots == {i \in Index : Kept(i)}

\* The place a kept entry slides down to.
Rank(i) == Cardinality({j \in KeptSlots : j <= i})

(***************************************************************************)
(* Kept entries slide down in order; a slot an entry moved out of is       *)
(* cleared unless another one moved in, a slot that held a dropped         *)
(* tombstone and was not moved into stays as it is.                        *)
(***************************************************************************)
Compact ==
  LET count == Cardinality(KeptSlots)
  IN  /\ slots' = [i \in Index |->
                     IF i <= count
                     THEN slots[CHOOSE j \in KeptSlots : Rank(j) = i]
                     ELSE IF i \in KeptSlots THEN Empty ELSE slots[i]]
      /\ fieldCount' = count
      /\ UNCHANGED <<clock, peers>>

\* fleece_state_manager_ticks_since_seen
TicksSinceSeen(p) ==
  LET at == {i \in DOMAIN peersSeen : peersSeen[i].id = p}
  IN  IF at = {} THEN Silent ELSE peersSeen[Min(at)].age

\* js_peer_is_live, and the test a claim's holder is put to.
PeerIsLive(p) == TicksSinceSeen(p) <= Ttl

\* Object.keys(swarm)
SwarmNodes == {p \in {peersSeen[i].id : i \in DOMAIN peersSeen} : PeerIsLive(p)}

Next ==
  \/ \E k \in RawKey : Set(k) \/ Remove(k)
  \/ \E name \in Name :
       \/ SetNamed(name) \/ RemoveNamed(name)
       \/ SetShared(name) \/ RemoveShared(name)
       \/ \E e \in Value \cup {Tombstone} : SetSharedCas(name, e)
       \/ \E p \in Writer : MergeNamed(p, name) \/ MergeShared(p, name)
  \/ Compact
  \/ Tick
  \/ \E p \in Peer : ImportBeacon(p)

Spec == Init /\ [][Next]_vars
-----------------------------------------------------------------------------
Version ==
  [ts : 1..MaxClock, origin : Writer \cup {Self}, val : Value \cup {Tombstone}]

NamedField == Name \X (Writer \cup {Self, Shared})

Field == NamedField \cup (RawKey \X {Self})

Slot == {Empty} \cup {Entry(f[1], f[2], ver) : f \in Field, ver \in Version}

\* The slots hold nothing, or an entry of some field; peers have an age.
TypeOK ==
  /\ slots \in [Index -> Slot]
  /\ fieldCount \in 0..Capacity
  /\ clock \in 0..MaxClock
  /\ peersSeen \in Seq([id : Peer, age : 0..Silent])
  /\ silence \in [Peer -> 0..Silent]

\* What find_slot_owned finds for readers and exporters, delete-markers included.
Content(f) ==
  LET at == Holders(f[1], f[2])
      e == slots[Min(at)]
  IN  IF at = {} THEN Empty ELSE Ver(e.ts, e.origin, e.val)

fieldMap == [f \in NamedField |-> Content(f)]

Map == INSTANCE FieldMap
         WITH Field <- NamedField, Missing <- Empty,
              field <- fieldMap

(***************************************************************************)
(* The slot array with its linear scans, bump allocation, in-place         *)
(* deletes, capacity failures and compaction implements a map of the named *)
(* fields, which only ever move to newer versions: whatever unnamed fields *)
(* are set, removed and compacted, no named field or delete-marker is      *)
(* dropped or rolled back ("NAMED tombstones are RETAINED").               *)
(***************************************************************************)
ImplementsMap == Map!Spec

\* No two slots hold the same field: a scan's first match is its only match.
OneSlotPerField ==
  \A i, j \in Index :
    /\ slots[i].exists /\ slots[j].exists
    /\ slots[i].key = slots[j].key /\ slots[i].owner = slots[j].owner
    => i = j

(***************************************************************************)
(* Every live field stays readable until it is deleted: compaction         *)
(* "reclaims" only the slots of unnamed tombstones, so no later write can  *)
(* land on a live entry.                                                   *)
(***************************************************************************)
LiveStays ==
  [][\A f \in Field :
       Content(f) # Empty /\ Content(f).val # Tombstone =>
         Content(f)' # Empty]_vars

(***************************************************************************)
(* Scripts and claims judge peers by their actual silence: no peer in      *)
(* swarm has been silent for longer than the TTL, and every peer heard     *)
(* within the TTL is in it, unless the table of tracked peers was already  *)
(* full when it was first heard: entries are never given up, so such a     *)
(* peer is taken for silent for good.                                      *)
(***************************************************************************)
SwarmIsCurrent ==
  /\ \A p \in SwarmNodes : silence[p] <= Ttl
  /\ \A p \in Peer :
       silence[p] <= Ttl =>
         \/ p \in SwarmNodes
         \/ /\ Len(peersSeen) = MaxTracked
            /\ \A i \in DOMAIN peersSeen : peersSeen[i].id # p
=============================================================================
