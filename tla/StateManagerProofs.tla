------------------------- MODULE StateManagerProofs -------------------------
(***************************************************************************)
(* The table of tracked peers, for every number of peers and TTL: who is   *)
(* live is decided by actual silence.  The slot array, for every capacity: *)
(* it implements the map of named fields.                                  *)
(***************************************************************************)
EXTENDS StateManager, FiniteSetTheorems, TLAPS

(***************************************************************************)
(* The inductive invariant of the peers: a peer is tracked once, its age   *)
(* is its silence, and a peer that is not tracked has not been heard       *)
(* within the TTL or met a full table.                                     *)
(***************************************************************************)
PeersType ==
  /\ peersSeen \in Seq([id : Peer, age : 0..Silent])
  /\ silence \in [Peer -> 0..Silent]

AgeIsSilence ==
  \A i \in DOMAIN peersSeen : peersSeen[i].age = silence[peersSeen[i].id]

TrackedOnce ==
  \A i, j \in DOMAIN peersSeen : peersSeen[i].id = peersSeen[j].id => i = j

TrackedOrFull ==
  \A p \in Peer :
    \/ silence[p] > Ttl
    \/ \E i \in DOMAIN peersSeen : peersSeen[i].id = p
    \/ Len(peersSeen) = MaxTracked

PeersInv == PeersType /\ AgeIsSilence /\ TrackedOnce /\ TrackedOrFull

LEMMA SeqElements ==
  ASSUME NEW R, NEW s \in Seq(R)
  PROVE  /\ DOMAIN s = 1..Len(s) /\ Len(s) \in Nat
         /\ \A i \in DOMAIN s : s[i] \in R
  OBVIOUS

LEMMA SeqOfDomain ==
  ASSUME NEW R, NEW s \in Seq(R), NEW t, t = [i \in DOMAIN s |-> t[i]],
         \A i \in DOMAIN s : t[i] \in R
  PROVE  t \in Seq(R) /\ Len(t) = Len(s)
  OBVIOUS

LEMMA SeqAppend ==
  ASSUME NEW R, NEW s \in Seq(R), NEW e \in R
  PROVE  /\ Append(s, e) \in Seq(R)
         /\ DOMAIN Append(s, e) = 1..(Len(s) + 1)
         /\ Append(s, e)[Len(s) + 1] = e
         /\ \A i \in 1..Len(s) : Append(s, e)[i] = s[i]
  OBVIOUS

LEMMA Entries ==
  ASSUME PeersInv
  PROVE  /\ DOMAIN peersSeen = 1..Len(peersSeen) /\ Len(peersSeen) \in Nat
         /\ \A i \in DOMAIN peersSeen :
              /\ peersSeen[i] \in [id : Peer, age : 0..Silent]
              /\ peersSeen[i].id \in Peer
              /\ peersSeen[i].age \in 0..Silent
<1>1. /\ DOMAIN peersSeen = 1..Len(peersSeen) /\ Len(peersSeen) \in Nat
      /\ \A i \in DOMAIN peersSeen : peersSeen[i] \in [id : Peer, age : 0..Silent]
  BY Zenon, SeqElements DEF PeersInv, PeersType
<1> QED
  BY <1>1

LEMMA InitPeersInv == Init => PeersInv
  BY PeerAssumption
  DEF Init, PeersInv, PeersType, AgeIsSilence, TrackedOnce, TrackedOrFull, Silent

\* touch_peer, for a peer that is refreshed, added or skipped.
LEMMA HearPeersInv ==
  ASSUME PeersInv, NEW p \in Peer, Hear(p)
  PROVE  PeersInv'
<1> DEFINE known == \E i \in DOMAIN peersSeen : peersSeen[i].id = p
           entry == [id |-> p, age |-> 0]
<1>1. /\ peersSeen' = TouchPeer(p)
      /\ silence' = [silence EXCEPT ![p] = 0]
  BY DEF Hear
<1>2. entry \in [id : Peer, age : 0..Silent]
  BY PeerAssumption DEF Silent
<1>3. /\ silence' \in [Peer -> 0..Silent]
      /\ silence'[p] = 0
      /\ \A q \in Peer : q # p => silence'[q] = silence[q]
  BY <1>1, PeerAssumption DEF PeersInv, PeersType, Silent
<1>4. CASE known
  <2>1. peersSeen' = [i \in DOMAIN peersSeen |->
                        IF peersSeen[i].id = p THEN entry ELSE peersSeen[i]]
    BY <1>1, <1>4 DEF TouchPeer
  <2>2. /\ DOMAIN peersSeen' = DOMAIN peersSeen
        /\ \A i \in DOMAIN peersSeen :
             /\ peersSeen'[i].id = peersSeen[i].id
             /\ peersSeen'[i].age = IF peersSeen[i].id = p THEN 0 ELSE peersSeen[i].age
    BY <2>1
  <2>3. peersSeen' \in Seq([id : Peer, age : 0..Silent]) /\ Len(peersSeen') = Len(peersSeen)
    <3>1. \A i \in DOMAIN peersSeen : peersSeen'[i] \in [id : Peer, age : 0..Silent]
      BY <2>1, <1>2, Entries
    <3>2. peersSeen' = [i \in DOMAIN peersSeen |-> peersSeen'[i]]
      BY <2>1
    <3>3. peersSeen \in Seq([id : Peer, age : 0..Silent])
      BY DEF PeersInv, PeersType
    <3> DEFINE R == [id : Peer, age : 0..Silent]
    <3> HIDE DEF R
    <3>4. peersSeen' \in Seq(R) /\ Len(peersSeen') = Len(peersSeen)
      <4>1. peersSeen \in Seq(R) /\ \A i \in DOMAIN peersSeen : peersSeen'[i] \in R
        BY <3>1, <3>3 DEF R
      <4> QED
        BY <3>2, <4>1, SeqOfDomain
    <3> QED
      BY <3>4 DEF R
  <2>4. PeersType'
    BY <1>3, <2>3 DEF PeersType
  <2>5. AgeIsSilence'
    BY <1>3, <2>2, Entries DEF PeersInv, AgeIsSilence
  <2>6. TrackedOnce'
    BY <2>2 DEF PeersInv, TrackedOnce
  <2>7. TrackedOrFull'
    BY Zenon, <1>3, <1>4, <2>2, <2>3 DEF PeersInv, TrackedOrFull
  <2> QED
    BY <2>4, <2>5, <2>6, <2>7 DEF PeersInv
<1>5. CASE ~known /\ Len(peersSeen) = MaxTracked
  <2>1. peersSeen' = peersSeen
    BY <1>1, <1>5 DEF TouchPeer
  <2>2. PeersType' /\ TrackedOnce' /\ TrackedOrFull'
    BY <1>3, <1>5, <2>1 DEF PeersInv, PeersType, TrackedOnce, TrackedOrFull
  <2>3. AgeIsSilence'
    BY <1>3, <1>5, <2>1, Entries DEF PeersInv, AgeIsSilence
  <2> QED
    BY <2>2, <2>3 DEF PeersInv
<1>6. CASE ~known /\ Len(peersSeen) # MaxTracked
  <2>1. peersSeen' = Append(peersSeen, entry)
    BY <1>1, <1>6 DEF TouchPeer
  <2>2. /\ peersSeen' \in Seq([id : Peer, age : 0..Silent])
        /\ DOMAIN peersSeen' = 1..(Len(peersSeen) + 1)
        /\ peersSeen'[Len(peersSeen) + 1] = entry
        /\ \A i \in 1..Len(peersSeen) : peersSeen'[i] = peersSeen[i]
    BY <1>2, <2>1, SeqAppend DEF PeersInv, PeersType
  <2>3. /\ \A i \in DOMAIN peersSeen : peersSeen[i].id \in Peer /\ peersSeen[i].id # p
        /\ DOMAIN peersSeen = 1..Len(peersSeen) /\ Len(peersSeen) \in Nat
    BY <1>6, Entries
  <2>4. \A i \in DOMAIN peersSeen' :
          \/ i \in DOMAIN peersSeen /\ peersSeen'[i] = peersSeen[i]
          \/ i = Len(peersSeen) + 1 /\ peersSeen'[i] = entry
    BY <2>2, <2>3
  <2>5. PeersType'
    BY <1>3, <2>2 DEF PeersType
  <2>6. AgeIsSilence'
    BY <1>3, <2>3, <2>4 DEF PeersInv, AgeIsSilence
  <2>7. TrackedOnce'
    BY <2>3, <2>4 DEF PeersInv, TrackedOnce
  <2>8. TrackedOrFull'
    <3> SUFFICES ASSUME NEW q \in Peer
                 PROVE  silence'[q] > Ttl \/ \E i \in DOMAIN peersSeen' : peersSeen'[i].id = q
      BY DEF TrackedOrFull
    <3>1. CASE q = p
      BY <3>1, <2>2, <2>3
    <3>2. CASE q # p
      <4>1. silence[q] > Ttl \/ \E i \in DOMAIN peersSeen : peersSeen[i].id = q
        BY <1>6 DEF PeersInv, TrackedOrFull
      <4>2. silence'[q] = silence[q]
        BY <1>3, <3>2
      <4>3. \A i \in DOMAIN peersSeen : i \in DOMAIN peersSeen' /\ peersSeen'[i] = peersSeen[i]
        BY <2>2, <2>3
      <4> QED
        BY <4>1, <4>2, <4>3
    <3> QED
      BY <3>1, <3>2
  <2> QED
    BY <2>5, <2>6, <2>7, <2>8 DEF PeersInv
<1> QED
  BY <1>4, <1>5, <1>6

LEMMA TickPeersInv ==
  ASSUME PeersInv, Tick
  PROVE  PeersInv'
<1>1. \A age \in 0..Silent :
        Older(age) \in 0..Silent /\ (age > Ttl => Older(age) > Ttl)
  BY PeerAssumption DEF Older, Silent
<1>2. /\ peersSeen' = [i \in DOMAIN peersSeen |->
                         [peersSeen[i] EXCEPT !.age = Older(@)]]
      /\ silence' = [p \in Peer |-> Older(silence[p])]
  BY DEF Tick
<1>3. /\ DOMAIN peersSeen' = DOMAIN peersSeen
      /\ \A i \in DOMAIN peersSeen :
           /\ peersSeen'[i] \in [id : Peer, age : 0..Silent]
           /\ peersSeen'[i].id = peersSeen[i].id
           /\ peersSeen'[i].age = Older(peersSeen[i].age)
  BY <1>1, <1>2, Entries
<1>4. peersSeen' \in Seq([id : Peer, age : 0..Silent]) /\ Len(peersSeen') = Len(peersSeen)
  <2>1. peersSeen' = [i \in DOMAIN peersSeen |-> peersSeen'[i]]
    BY <1>2
  <2> DEFINE R == [id : Peer, age : 0..Silent]
  <2>2. peersSeen \in Seq(R) /\ \A i \in DOMAIN peersSeen : peersSeen'[i] \in R
    BY <1>3 DEF PeersInv, PeersType
  <2> HIDE DEF R
  <2>3. peersSeen' \in Seq(R) /\ Len(peersSeen') = Len(peersSeen)
    BY <2>1, <2>2, SeqOfDomain
  <2> QED
    BY <2>3 DEF R
<1>5. PeersType'
  BY <1>1, <1>2, <1>4 DEF PeersInv, PeersType
<1>6. AgeIsSilence'
  BY <1>2, <1>3, Entries DEF PeersInv, AgeIsSilence
<1>7. TrackedOnce'
  BY <1>3 DEF PeersInv, TrackedOnce
<1>8. TrackedOrFull'
  <2>1. \A p \in Peer : silence[p] > Ttl => silence'[p] > Ttl
    BY <1>1, <1>2 DEF PeersInv, PeersType
  <2> QED
    BY <1>3, <1>4, <2>1 DEF PeersInv, TrackedOrFull
<1> QED
  BY <1>5, <1>6, <1>7, <1>8 DEF PeersInv

LEMMA NextPeersInv == PeersInv /\ [Next]_vars => PeersInv'
<1> SUFFICES ASSUME PeersInv, [Next]_vars PROVE PeersInv'
  OBVIOUS
<1>1. ASSUME UNCHANGED peers PROVE PeersInv'
  BY <1>1 DEF peers, PeersInv, PeersType, AgeIsSilence, TrackedOnce, TrackedOrFull
<1>2. ASSUME NEW k \in RawKey, Set(k) \/ Remove(k) PROVE PeersInv'
  BY <1>1, <1>2 DEF Set, Remove, LocalWrite, Bury, peers
<1>3. ASSUME NEW name \in Name,
             \/ SetNamed(name) \/ RemoveNamed(name)
             \/ SetShared(name) \/ RemoveShared(name)
             \/ \E e \in Value \cup {Tombstone} : SetSharedCas(name, e)
      PROVE  PeersInv'
  BY <1>1, <1>3 DEF SetNamed, RemoveNamed, SetShared, RemoveShared, SetSharedCas,
                    LocalWrite, Bury, peers
<1>4. ASSUME NEW name \in Name, NEW p \in Writer,
             MergeNamed(p, name) \/ MergeShared(p, name)
      PROVE  PeersInv'
  BY <1>1, <1>4, HearPeersInv, PeerAssumption DEF MergeNamed, MergeShared
<1>5. CASE Compact
  BY <1>1, <1>5 DEF Compact, peers
<1>6. ASSUME NEW p \in Peer, ImportBeacon(p) PROVE PeersInv'
  BY <1>6, HearPeersInv DEF ImportBeacon
<1>7. CASE UNCHANGED vars
  BY <1>1, <1>7 DEF vars, peers
<1> QED
  BY <1>2, <1>3, <1>4, <1>5, <1>6, <1>7, TickPeersInv DEF Next

\* ticks_since_seen reads the one entry of a tracked peer.
LEMMA SeenIsSilence ==
  ASSUME PeersInv, NEW i \in DOMAIN peersSeen
  PROVE  TicksSinceSeen(peersSeen[i].id) = silence[peersSeen[i].id]
<1> DEFINE at == {j \in DOMAIN peersSeen : peersSeen[j].id = peersSeen[i].id}
<1>1. at = {i}
  BY DEF PeersInv, TrackedOnce
<1>2. i \in Nat
  BY Entries
<1>3. Min({i}) = i
  BY <1>2 DEF Min
<1> QED
  BY <1>1, <1>3 DEF TicksSinceSeen, PeersInv, AgeIsSilence

LEMMA PeersInvImplies == PeersInv => SwarmIsCurrent
<1> SUFFICES ASSUME PeersInv PROVE SwarmIsCurrent
  OBVIOUS
<1>1. \A p \in SwarmNodes : silence[p] <= Ttl
  BY SeenIsSilence DEF SwarmNodes, PeerIsLive
<1>2. ASSUME NEW p \in Peer, silence[p] <= Ttl,
             \E i \in DOMAIN peersSeen : peersSeen[i].id = p
      PROVE  p \in SwarmNodes
  BY <1>2, SeenIsSilence DEF SwarmNodes, PeerIsLive
<1>3. ASSUME NEW p \in Peer, silence[p] <= Ttl,
             \A i \in DOMAIN peersSeen : peersSeen[i].id # p
      PROVE  Len(peersSeen) = MaxTracked
  <2>1. silence[p] \in Nat /\ Ttl \in Nat
    BY PeerAssumption DEF PeersInv, PeersType, Silent
  <2>2. ~(silence[p] > Ttl)
    BY <1>3, <2>1
  <2> QED
    BY <1>3, <2>2 DEF PeersInv, TrackedOrFull
<1> QED
  BY <1>1, <1>2, <1>3 DEF SwarmIsCurrent

(***************************************************************************)
(* For any number of peers and any TTL, swarm and the takeover test of a   *)
(* claim see exactly the tracked peers heard within the TTL, and only a    *)
(* table that was full hides a peer.                                       *)
(***************************************************************************)
THEOREM SwarmCurrent == Spec => []SwarmIsCurrent
<1>1. PeersInv => SwarmIsCurrent
  BY PeersInvImplies
<1> QED
  BY InitPeersInv, NextPeersInv, <1>1, PTL DEF Spec
-----------------------------------------------------------------------------
(***************************************************************************)
(* The inductive invariant of the slots.  That no field has two of them    *)
(* needs nothing else; that a new field never lands on a named one needs   *)
(* every named entry below field_count; that local writes are newer needs  *)
(* the clock to be ahead of every stamp in the table.                      *)
(***************************************************************************)
TableType ==
  /\ slots \in [Index -> Slot]
  /\ fieldCount \in 0..Capacity
  /\ clock \in 0..MaxClock

NamedCounted ==
  \A i \in Index : slots[i].exists /\ slots[i].key \in Name => i <= fieldCount

StampsPast == \A i \in Index : slots[i].exists => slots[i].ts <= clock

TableInv == TableType /\ OneSlotPerField /\ NamedCounted /\ StampsPast

LEMMA EntryFields ==
  ASSUME NEW key, NEW owner, NEW ver \in Version
  PROVE  LET e == Entry(key, owner, ver) IN
         /\ e.exists /\ e.key = key /\ e.owner = owner
         /\ e.ts = ver.ts /\ e.origin = ver.origin /\ e.val = ver.val
         /\ Ver(e.ts, e.origin, e.val) = ver
<1>1. LET e == Entry(key, owner, ver) IN
         /\ e.exists /\ e.key = key /\ e.owner = owner
         /\ e.ts = ver.ts /\ e.origin = ver.origin /\ e.val = ver.val
  BY DEF Entry
<1>2. Ver(ver.ts, ver.origin, ver.val) = ver
  BY DEF Ver, Version
<1> QED
  BY <1>1, <1>2

LEMMA EntryNamed ==
  ASSUME NEW key, NEW owner, NEW ver
  PROVE  Entry(key, owner, ver).named <=> key \in Name
  BY Zenon DEF Entry

LEMMA EmptySlot == ~Empty.exists /\ Empty \in Slot
<1>1. ~Empty.exists
  BY DEF Empty
<1> QED
  BY <1>1 DEF Slot

\* A record of a version is not an empty slot.
LEMMA VersionNotEmpty ==
  ASSUME NEW ver \in Version PROVE ver # Empty
<1>1. DOMAIN ver = {"ts", "origin", "val"}
  BY DEF Version
<1>2. "key" \in DOMAIN Empty
  BY DEF Empty
<1> QED
  BY <1>1, <1>2

LEMMA SlotEntry ==
  ASSUME NEW e \in Slot, e.exists
  PROVE  /\ <<e.key, e.owner>> \in Field
         /\ Ver(e.ts, e.origin, e.val) \in Version
         /\ e.ts \in 1..MaxClock
         /\ e.named <=> e.key \in Name
<1>1. PICK f \in Field, ver \in Version : e = Entry(f[1], f[2], ver)
  BY EmptySlot DEF Slot
<1>2. f = <<f[1], f[2]>>
  BY DEF Field, NamedField
<1>3. ver.ts \in 1..MaxClock
  BY DEF Version
<1>4. /\ e.key = f[1] /\ e.owner = f[2] /\ e.ts = ver.ts
      /\ Ver(e.ts, e.origin, e.val) = ver
  BY <1>1, EntryFields
<1>5. e.named <=> e.key \in Name
  BY <1>1, <1>4, EntryNamed
<1> QED
  BY <1>2, <1>3, <1>4, <1>5

LEMMA MinOfOne == ASSUME NEW i \in Nat PROVE Min({i}) = i
  BY DEF Min

\* find_slot_owned returns the one slot of the field.
LEMMA OnlyHolder ==
  ASSUME OneSlotPerField, NEW key, NEW owner, NEW i \in Holders(key, owner)
  PROVE  Holders(key, owner) = {i} /\ FindSlot(key, owner) = i /\ i \in Index
<1>1. Holders(key, owner) = {i} /\ i \in Index
  BY DEF Holders, OneSlotPerField
<1> QED
  BY <1>1, MinOfOne, BoundAssumption DEF FindSlot, Index
-----------------------------------------------------------------------------
\* What a step can do to the array: nothing, compact it, or write one entry.
Idle == UNCHANGED <<slots, fieldCount>>

Write(key, owner, ver, i) ==
  /\ slots' = [slots EXCEPT ![i] = Entry(key, owner, ver)]
  /\ ver.ts <= clock'
  /\ \/ /\ i \in Holders(key, owner)
        /\ Map!Newer(ver, slots[i])
        /\ fieldCount' = fieldCount
     \/ /\ Holders(key, owner) = {}
        /\ i = fieldCount + 1
        /\ fieldCount' = fieldCount + 1

Writes ==
  \E f \in Field, ver \in Version, i \in Index : Write(f[1], f[2], ver, i)

LEMMA UpsertWrites ==
  ASSUME TableInv, NEW key, NEW owner, <<key, owner>> \in Field,
         NEW ver \in Version, ver.ts <= clock',
         Found(key, owner) => Map!Newer(ver, slots[FindSlot(key, owner)]),
         UpsertField(key, owner, ver)
  PROVE  Idle \/ Writes
<1>1. ASSUME NEW i \in Index, Write(key, owner, ver, i) PROVE Writes
  <2> DEFINE f == <<key, owner>>
  <2>1. f \in Field /\ f[1] = key /\ f[2] = owner
    OBVIOUS
  <2> HIDE DEF f
  <2> QED
    BY <1>1, <2>1 DEF Writes
<1>2. CASE /\ Found(key, owner)
           /\ slots' = [slots EXCEPT ![FindSlot(key, owner)] = Entry(key, owner, ver)]
           /\ UNCHANGED fieldCount
  <2>1. PICK i : i \in Holders(key, owner)
    BY <1>2 DEF Found
  <2>2. FindSlot(key, owner) = i /\ i \in Index
    BY <2>1, OnlyHolder DEF TableInv
  <2> QED
    BY Zenon, <1>1, <1>2, <2>1, <2>2 DEF Write
<1>3. CASE /\ ~Found(key, owner)
           /\ fieldCount < Capacity
           /\ slots' = [slots EXCEPT ![fieldCount + 1] = Entry(key, owner, ver)]
           /\ fieldCount' = fieldCount + 1
  <2>1. fieldCount + 1 \in Index
    BY <1>3, BoundAssumption DEF TableInv, TableType, Index
  <2> QED
    BY Zenon, <1>1, <1>3, <2>1 DEF Write, Found
<1> QED
  BY <1>2, <1>3 DEF UpsertField, Idle

LEMMA LocalWriteWrites ==
  ASSUME TableInv, NEW key, NEW owner, <<key, owner>> \in Field,
         NEW val \in Value, LocalWrite(key, owner, val)
  PROVE  clock' \in clock..MaxClock /\ (Idle \/ Writes)
<1> DEFINE ver == Ver(clock + 1, Self, val)
<1>1. clock \in Nat /\ clock < MaxClock /\ clock' = clock + 1
  BY BoundAssumption DEF LocalWrite, TableInv, TableType
<1>2. ver \in Version /\ ver.ts = clock + 1
  BY <1>1, BoundAssumption DEF Ver, Version
<1>3. ASSUME Found(key, owner)
      PROVE  Map!Newer(ver, slots[FindSlot(key, owner)])
  <2>1. PICK i : i \in Holders(key, owner)
    BY <1>3 DEF Found
  <2>2. FindSlot(key, owner) = i /\ i \in Index
    BY <2>1, OnlyHolder DEF TableInv
  <2>3. slots[i].exists /\ slots[i].ts <= clock /\ slots[i] \in Slot
    BY <2>1, <2>2 DEF Holders, TableInv, TableType, StampsPast
  <2>4. slots[i].ts \in 1..MaxClock
    BY Zenon, <2>3, SlotEntry
  <2> HIDE DEF ver
  <2> QED
    BY <1>1, <1>2, <2>2, <2>3, <2>4, BoundAssumption DEF Map!Newer
<1>4. UpsertField(key, owner, ver)
  BY DEF LocalWrite
<1> HIDE DEF ver
<1>5. ver.ts <= clock' /\ clock' \in clock..MaxClock
  BY <1>1, <1>2, BoundAssumption
<1> QED
  BY <1>2, <1>3, <1>4, <1>5, UpsertWrites

\* A delete writes the slot it found in place.
LEMMA BuryWrites ==
  ASSUME TableInv, NEW key, NEW owner, <<key, owner>> \in Field, Bury(key, owner)
  PROVE  clock' \in clock..MaxClock /\ Writes
<1> DEFINE ver == Ver(clock + 1, Self, Tombstone)
           f == <<key, owner>>
<1>1. clock \in Nat /\ clock < MaxClock /\ clock' = clock + 1
  BY BoundAssumption DEF Bury, TableInv, TableType
<1>2. ver \in Version /\ ver.ts = clock + 1
  BY <1>1, BoundAssumption DEF Ver, Version
<1>3. PICK i : i \in Holders(key, owner)
  BY DEF Bury, FoundLive, Found
<1>4. FindSlot(key, owner) = i /\ i \in Index
  BY <1>3, OnlyHolder DEF TableInv
<1>5. slots[i].exists /\ slots[i].ts <= clock /\ slots[i] \in Slot
  BY <1>3, <1>4 DEF Holders, TableInv, TableType, StampsPast
<1>6. slots[i].ts \in 1..MaxClock
  BY Zenon, <1>5, SlotEntry
<1>7. /\ slots' = [slots EXCEPT ![i] = Entry(key, owner, ver)]
      /\ fieldCount' = fieldCount
  BY <1>4 DEF Bury
<1>8. f \in Field /\ f[1] = key /\ f[2] = owner
  OBVIOUS
<1> HIDE DEF ver, f
<1>9. Map!Newer(ver, slots[i]) /\ ver.ts <= clock' /\ clock' \in clock..MaxClock
  BY <1>1, <1>2, <1>5, <1>6, BoundAssumption DEF Map!Newer
<1>10. Write(f[1], f[2], ver, i)
  BY <1>3, <1>7, <1>8, <1>9 DEF Write
<1> QED
  BY <1>2, <1>4, <1>8, <1>9, <1>10 DEF Writes

LEMMA MaxOfTwo ==
  ASSUME NEW a \in Nat, NEW b \in Nat
  PROVE  Max({a, b}) \in {a, b} /\ Max({a, b}) >= a /\ Max({a, b}) >= b
<1>1. \E x \in {a, b} : \A y \in {a, b} : x >= y
  OBVIOUS
<1> QED
  BY <1>1 DEF Max

LEMMA MergeWrites ==
  ASSUME TableInv, NEW key, NEW owner, <<key, owner>> \in Field,
         NEW ver \in Version, MergeRecord(key, owner, ver)
  PROVE  clock' \in clock..MaxClock /\ (Idle \/ Writes)
<1>1. clock \in 0..MaxClock /\ ver.ts \in 1..MaxClock /\ clock' = Max({clock, ver.ts})
  BY DEF MergeRecord, TableInv, TableType, Version
<1>2. clock' \in clock..MaxClock /\ ver.ts <= clock'
  <2>1. /\ clock' \in {clock, ver.ts} /\ clock' >= clock /\ clock' >= ver.ts
    BY <1>1, MaxOfTwo, BoundAssumption
  <2> QED
    BY <1>1, <2>1, BoundAssumption
<1>3. CASE KeepsIncumbent(key, owner, ver)
  BY <1>2, <1>3 DEF MergeRecord, Idle
<1>4. CASE ~KeepsIncumbent(key, owner, ver)
  <2>1. ASSUME Found(key, owner)
        PROVE  Map!Newer(ver, slots[FindSlot(key, owner)])
    <3>1. PICK i : i \in Holders(key, owner)
      BY <2>1 DEF Found
    <3>2. FindSlot(key, owner) = i /\ i \in Index
      BY <3>1, OnlyHolder DEF TableInv
    <3>3. slots[i].exists /\ slots[i] \in Slot
      BY <3>1, <3>2 DEF Holders, TableInv, TableType
    <3>4. /\ slots[i].ts \in 1..MaxClock
          /\ slots[i].origin \in Nat /\ ver.origin \in Nat
      <4>1. Ver(slots[i].ts, slots[i].origin, slots[i].val) \in Version
        BY Zenon, <3>3, SlotEntry
      <4>2. slots[i].origin \in Writer \cup {Self} /\ ver.origin \in Writer \cup {Self}
        BY <4>1 DEF Ver, Version
      <4> QED
        BY Zenon, <3>3, <4>2, SlotEntry, IdAssumption, PeerAssumption
    <3>5. /\ ~(slots[i].ts > ver.ts)
          /\ ~(slots[i].ts = ver.ts /\ (owner = Shared => slots[i].origin >= ver.origin))
      BY <1>4, <2>1, <3>2 DEF KeepsIncumbent
    <3> QED
      BY <1>1, <3>2, <3>4, <3>5, BoundAssumption DEF Map!Newer
  <2>2. UpsertField(key, owner, ver)
    BY <1>4 DEF MergeRecord
  <2> QED
    BY <1>2, <2>1, <2>2, UpsertWrites
<1> QED
  BY <1>3, <1>4

LEMMA StepKinds ==
  ASSUME TableInv, [Next]_vars
  PROVE  \/ clock' \in clock..MaxClock /\ (Idle \/ Writes)
         \/ Compact
<1> DEFINE Goal == clock' \in clock..MaxClock /\ (Idle \/ Writes)
<1>1. ASSUME UNCHANGED table PROVE Goal
  BY <1>1, BoundAssumption DEF table, Idle, TableInv, TableType
<1>2. ASSUME NEW k \in RawKey, Set(k) \/ Remove(k) PROVE Goal
  <2>1. <<k, Self>> \in Field
    BY DEF Field
  <2> QED
    BY <1>2, <2>1, LocalWriteWrites, BuryWrites DEF Set, Remove
<1>3. ASSUME NEW name \in Name,
             \/ SetNamed(name) \/ RemoveNamed(name)
             \/ SetShared(name) \/ RemoveShared(name)
             \/ \E e \in Value \cup {Tombstone} : SetSharedCas(name, e)
      PROVE  Goal
  <2>1. <<name, Self>> \in Field /\ <<name, Shared>> \in Field
    BY DEF Field, NamedField
  <2>2. \/ \E v \in Value : LocalWrite(name, Self, v) \/ LocalWrite(name, Shared, v)
        \/ Bury(name, Self) \/ Bury(name, Shared)
    BY <1>3 DEF SetNamed, RemoveNamed, SetShared, RemoveShared, SetSharedCas
  <2> QED
    BY <2>1, <2>2, LocalWriteWrites, BuryWrites
<1>4. ASSUME NEW name \in Name, NEW p \in Writer,
             MergeNamed(p, name) \/ MergeShared(p, name)
      PROVE  Goal
  <2>1. <<name, p>> \in Field /\ <<name, Shared>> \in Field
    BY DEF Field, NamedField
  <2>2. PICK ts \in 1..MaxClock, val \in Value \cup {Tombstone} :
          \/ MergeRecord(name, p, Ver(ts, p, val))
          \/ MergeRecord(name, Shared, Ver(ts, p, val))
    BY <1>4 DEF MergeNamed, MergeShared
  <2>3. Ver(ts, p, val) \in Version
    BY DEF Ver, Version
  <2> QED
    BY <2>1, <2>2, <2>3, MergeWrites
<1>5. ASSUME NEW p \in Peer, ImportBeacon(p) PROVE Goal
  BY <1>1, <1>5 DEF ImportBeacon
<1>6. CASE Tick
  BY <1>1, <1>6 DEF Tick
<1>7. CASE UNCHANGED vars
  BY <1>1, <1>7 DEF vars, table
<1> QED
  BY <1>2, <1>3, <1>4, <1>5, <1>6, <1>7 DEF Next
-----------------------------------------------------------------------------
(***************************************************************************)
(* Compaction numbers the kept slots from 1 without gaps: ranks are        *)
(* distinct, so there are as many of them as places.                       *)
(***************************************************************************)
LEMMA KeptFinite ==
  /\ KeptSlots \in SUBSET Index
  /\ IsFiniteSet(KeptSlots)
  /\ Cardinality(KeptSlots) \in 0..Capacity
<1>1. KeptSlots \in SUBSET Index
  BY DEF KeptSlots
<1>2. IsFiniteSet(Index) /\ Cardinality(Index) = Capacity
  BY FS_Interval, BoundAssumption DEF Index
<1>3. IsFiniteSet(KeptSlots) /\ Cardinality(KeptSlots) <= Cardinality(Index)
  BY <1>1, <1>2, FS_Subset
<1>4. Cardinality(KeptSlots) \in Nat
  BY <1>3, FS_CardinalityType
<1> QED
  BY <1>1, <1>2, <1>3, <1>4, BoundAssumption

LEMMA RankRange ==
  ASSUME NEW j \in KeptSlots
  PROVE  Rank(j) \in 1..Cardinality(KeptSlots)
<1> DEFINE T == {k \in KeptSlots : k <= j}
<1>1. T \in SUBSET KeptSlots /\ j \in T
  BY KeptFinite, BoundAssumption DEF Index
<1> HIDE DEF T
<1>2. IsFiniteSet(T) /\ Cardinality(T) <= Cardinality(KeptSlots)
  BY <1>1, KeptFinite, FS_Subset
<1>3. Cardinality(T) \in Nat /\ Cardinality(T) # 0
  BY <1>1, <1>2, FS_CardinalityType, FS_EmptySet
<1>4. Rank(j) = Cardinality(T)
  BY DEF T, Rank
<1> QED
  BY <1>2, <1>3, <1>4, KeptFinite

LEMMA RankIncreases ==
  ASSUME NEW i \in KeptSlots, NEW j \in KeptSlots, i < j
  PROVE  Rank(i) # Rank(j)
<1> DEFINE S == {k \in KeptSlots : k <= i}
           T == {k \in KeptSlots : k <= j}
<1>1. KeptSlots \in SUBSET Nat
  BY KeptFinite, BoundAssumption DEF Index
<1>2. S \in SUBSET T /\ T \in SUBSET KeptSlots /\ j \in T /\ j \notin S
  <2>1. i \in Nat /\ j \in Nat
    BY <1>1
  <2>2. \A k \in S : k \in T
    BY <1>1, <2>1
  <2>3. j \in T /\ j \notin S
    BY <2>1
  <2> QED
    BY <2>2, <2>3
<1>3. Rank(i) = Cardinality(S) /\ Rank(j) = Cardinality(T)
  BY DEF Rank
<1> HIDE DEF S, T
<1>4. IsFiniteSet(T)
  BY <1>2, KeptFinite, FS_Subset
<1>5. Cardinality(T) = Cardinality(S) => T = S
  BY <1>2, <1>4, FS_Subset
<1> QED
  BY <1>2, <1>3, <1>5

LEMMA RankDistinct ==
  ASSUME NEW i \in KeptSlots, NEW j \in KeptSlots, Rank(i) = Rank(j)
  PROVE  i = j
<1>1. i \in Nat /\ j \in Nat
  BY KeptFinite, BoundAssumption DEF Index
<1>2. ~(i < j) /\ ~(j < i)
  BY RankIncreases
<1> QED
  BY <1>1, <1>2

LEMMA RankCovers ==
  ASSUME NEW n \in 1..Cardinality(KeptSlots)
  PROVE  \E j \in KeptSlots : Rank(j) = n
<1> DEFINE K == 1..Cardinality(KeptSlots)
           r == [j \in KeptSlots |-> Rank(j)]
<1>1. IsFiniteSet(K) /\ Cardinality(K) = Cardinality(KeptSlots)
  BY KeptFinite, FS_Interval
<1>2. r \in [KeptSlots -> K]
  BY RankRange
<1>3. \A i, j \in KeptSlots : r[i] = r[j] => i = j
  BY RankDistinct
<1>4. r \in Injection(KeptSlots, K)
  BY <1>2, <1>3 DEF Injection, IsInjective
<1> HIDE DEF K
<1>5. r \in Surjection(KeptSlots, K)
  <2> HIDE DEF r
  <2> QED
    BY <1>1, <1>4, FS_Injection
<1> QED
  BY Zenon, <1>5 DEF Surjection, K

\* Where compaction puts each kept entry, and what every slot then holds.
LEMMA CompactMoves ==
  ASSUME Compact
  PROVE  /\ \A j \in KeptSlots : Rank(j) \in Index /\ slots'[Rank(j)] = slots[j]
         /\ \A i \in Index :
              \/ i <= fieldCount' /\ \E j \in KeptSlots : Rank(j) = i /\ slots'[i] = slots[j]
              \/ slots'[i] = Empty
              \/ i > fieldCount' /\ i \notin KeptSlots /\ slots'[i] = slots[i]
<1> DEFINE K == Cardinality(KeptSlots)
<1>1. /\ slots' = [i \in Index |->
                     IF i <= K
                     THEN slots[CHOOSE j \in KeptSlots : Rank(j) = i]
                     ELSE IF i \in KeptSlots THEN Empty ELSE slots[i]]
      /\ fieldCount' = K
  BY DEF Compact
<1>2. K \in 0..Capacity
  BY KeptFinite
<1> HIDE DEF K
<1>3. ASSUME NEW j \in KeptSlots
      PROVE  Rank(j) \in Index /\ slots'[Rank(j)] = slots[j]
  <2>1. Rank(j) \in 1..K
    BY RankRange DEF K
  <2>2. Rank(j) \in Index /\ Rank(j) <= K
    BY <1>2, <2>1, BoundAssumption DEF Index
  <2>3. (CHOOSE k \in KeptSlots : Rank(k) = Rank(j)) = j
    BY RankDistinct
  <2> QED
    BY <1>1, <2>2, <2>3
<1>4. ASSUME NEW i \in Index
      PROVE  \/ i <= K /\ \E j \in KeptSlots : Rank(j) = i /\ slots'[i] = slots[j]
             \/ slots'[i] = Empty
             \/ i > K /\ i \notin KeptSlots /\ slots'[i] = slots[i]
  <2>1. CASE i <= K
    <3>1. i \in 1..K
      BY <1>2, <2>1, BoundAssumption DEF Index
    <3>2. PICK j \in KeptSlots : Rank(j) = i
      BY <3>1, RankCovers DEF K
    <3> QED
      BY <1>3, <2>1, <3>2
  <2>2. CASE ~(i <= K)
    <3>1. i > K
      BY <1>2, <2>2, BoundAssumption DEF Index
    <3> QED
      BY <1>1, <2>2, <3>1
  <2> QED
    BY <2>1, <2>2
<1> QED
  BY <1>1, <1>3, <1>4
-----------------------------------------------------------------------------
LEMMA InitTableInv == Init => TableInv
<1> SUFFICES ASSUME Init PROVE TableInv
  OBVIOUS
<1>1. \A i \in Index : slots[i] = Empty /\ ~slots[i].exists
  BY EmptySlot DEF Init
<1>2. TableType
  BY EmptySlot, BoundAssumption DEF Init, TableType
<1> QED
  BY <1>1, <1>2 DEF TableInv, OneSlotPerField, NamedCounted, StampsPast

LEMMA IdleTableInv ==
  ASSUME TableInv, clock' \in clock..MaxClock, Idle
  PROVE  TableInv'
<1>1. slots' = slots /\ fieldCount' = fieldCount /\ clock \in Nat
  BY BoundAssumption DEF Idle, TableInv, TableType
<1>2. TableType'
  BY <1>1, BoundAssumption DEF TableInv, TableType
<1>3. StampsPast'
  <2>1. ASSUME NEW i \in Index, slots[i].exists PROVE slots[i].ts <= clock'
    <3>1. slots[i].ts \in 1..MaxClock
      BY Zenon, <2>1, SlotEntry DEF TableInv, TableType
    <3>2. slots[i].ts <= clock
      BY <2>1 DEF TableInv, StampsPast
    <3> QED
      BY <1>1, <3>1, <3>2, BoundAssumption
  <2> QED
    BY <1>1, <2>1 DEF StampsPast
<1> QED
  BY <1>1, <1>2, <1>3 DEF TableInv, OneSlotPerField, NamedCounted

\* After a write, the one slot of the field is the one written.
LEMMA WriteTableInv ==
  ASSUME TableInv, clock' \in clock..MaxClock,
         NEW f \in Field, NEW ver \in Version, NEW i \in Index,
         Write(f[1], f[2], ver, i)
  PROVE  TableInv'
<1> DEFINE e == Entry(f[1], f[2], ver)
<1>1. /\ e \in Slot /\ e.exists /\ e.key = f[1] /\ e.owner = f[2] /\ e.ts = ver.ts
  BY EntryFields DEF Slot
<1>2. slots' = [slots EXCEPT ![i] = e] /\ ver.ts <= clock'
  BY DEF Write
<1> HIDE DEF e
<1>3. /\ slots' \in [Index -> Slot] /\ slots'[i] = e
      /\ \A j \in Index : j # i => slots'[j] = slots[j]
  BY <1>1, <1>2 DEF TableInv, TableType
<1>4. clock \in Nat /\ clock' \in Nat /\ fieldCount \in Nat /\ i \in Nat
  BY BoundAssumption DEF TableInv, TableType, Index
<1>5. fieldCount' \in 0..Capacity /\ fieldCount' >= fieldCount
  BY <1>4, BoundAssumption DEF Write, TableInv, TableType, Index
<1>6. TableType'
  BY <1>3, <1>4, <1>5, BoundAssumption DEF TableType
<1>7. \A j \in Index : slots[j].exists /\ slots[j].key = f[1] /\ slots[j].owner = f[2] => j = i
  BY DEF Write, Holders, TableInv, OneSlotPerField
<1>8. OneSlotPerField'
  BY <1>1, <1>3, <1>7 DEF TableInv, OneSlotPerField
<1>9. NamedCounted'
  <2>1. f[1] \in Name => i <= fieldCount'
    <3>1. CASE i \in Holders(f[1], f[2])
      BY <1>4, <1>5, <3>1 DEF Holders, TableInv, NamedCounted
    <3>2. CASE i = fieldCount + 1 /\ fieldCount' = fieldCount + 1
      BY <1>4, <3>2
    <3> QED
      BY <3>1, <3>2 DEF Write
  <2>2. ASSUME NEW j \in Index, j # i, slots[j].exists, slots[j].key \in Name
        PROVE  j <= fieldCount'
    <3>1. j <= fieldCount
      BY <2>2 DEF TableInv, NamedCounted
    <3> QED
      BY <1>4, <1>5, <3>1, BoundAssumption DEF Index
  <2> QED
    BY <1>1, <1>3, <2>1, <2>2 DEF NamedCounted
<1>10. StampsPast'
  <2>1. ASSUME NEW j \in Index, slots[j].exists PROVE slots[j].ts <= clock'
    <3>1. slots[j].ts \in 1..MaxClock
      BY Zenon, <2>1, SlotEntry DEF TableInv, TableType
    <3>2. slots[j].ts <= clock
      BY <2>1 DEF TableInv, StampsPast
    <3> QED
      BY <1>4, <3>1, <3>2, BoundAssumption
  <2> QED
    BY <1>1, <1>2, <1>3, <2>1 DEF StampsPast
<1> QED
  BY <1>6, <1>8, <1>9, <1>10 DEF TableInv

\* Every named entry is kept, and no entry is left beside its copy.
LEMMA CompactTableInv ==
  ASSUME TableInv, Compact
  PROVE  TableInv'
<1>1. /\ clock' = clock /\ fieldCount' \in 0..Capacity
      /\ slots' = [i \in Index |-> slots'[i]]
  BY KeptFinite DEF Compact
<1>2. KeptSlots \in SUBSET Index
  BY KeptFinite
<1>3. \A i \in Index : slots'[i] = Empty \/ \E j \in Index : slots'[i] = slots[j]
  BY <1>2, CompactMoves
<1>4. TableType'
  <2>1. \A i \in Index : slots'[i] \in Slot
    BY <1>3, EmptySlot DEF TableInv, TableType
  <2> QED
    BY <1>1, <2>1 DEF TableInv, TableType
<1>5. StampsPast'
  BY <1>1, <1>3, EmptySlot DEF TableInv, StampsPast
<1>6. ASSUME NEW i \in Index, slots[i].exists, slots[i].key \in Name
      PROVE  i \in KeptSlots
  <2>1. slots[i].named
    BY Zenon, <1>6, SlotEntry DEF TableInv, TableType
  <2> QED
    BY <1>6, <2>1 DEF KeptSlots, Kept
<1>7. NamedCounted'
  <2> SUFFICES ASSUME NEW i \in Index, slots'[i].exists, slots'[i].key \in Name
               PROVE  i <= fieldCount'
    BY DEF NamedCounted
  <2> QED
    BY <1>6, CompactMoves, EmptySlot
<1>8. OneSlotPerField'
  <2> SUFFICES ASSUME NEW i \in Index, NEW j \in Index,
                      slots'[i].exists, slots'[j].exists,
                      slots'[i].key = slots'[j].key, slots'[i].owner = slots'[j].owner
               PROVE  i = j
    BY DEF OneSlotPerField
  <2>1. PICK a \in Index : /\ slots'[i] = slots[a]
                           /\ \/ a \in KeptSlots /\ Rank(a) = i
                              \/ a \notin KeptSlots /\ a = i
    BY <1>2, CompactMoves, EmptySlot
  <2>2. PICK b \in Index : /\ slots'[j] = slots[b]
                           /\ \/ b \in KeptSlots /\ Rank(b) = j
                              \/ b \notin KeptSlots /\ b = j
    BY <1>2, CompactMoves, EmptySlot
  <2>3. a = b
    BY <2>1, <2>2 DEF TableInv, OneSlotPerField
  <2> QED
    BY <2>1, <2>2, <2>3
<1> QED
  BY <1>4, <1>5, <1>7, <1>8 DEF TableInv

LEMMA NextTableInv == TableInv /\ [Next]_vars => TableInv'
  BY StepKinds, IdleTableInv, WriteTableInv, CompactTableInv DEF Writes

(***************************************************************************)
(* For any capacity and any fields: slots are empty or hold an entry of a  *)
(* field under a version, field_count stays within the table and peers     *)
(* have an age.                                                            *)
(***************************************************************************)
THEOREM TypeCorrect == Spec => []TypeOK
<1>1. TableInv /\ PeersInv => TypeOK
  BY DEF TableInv, TableType, PeersInv, PeersType, TypeOK
<1> QED
  BY InitTableInv, NextTableInv, InitPeersInv, NextPeersInv, <1>1, PTL DEF Spec

(***************************************************************************)
(* For any capacity, whatever is set, merged, removed and compacted, no    *)
(* field is ever in two slots, so a scan's first match is its only match.  *)
(***************************************************************************)
THEOREM FieldsHaveOneSlot == Spec => []OneSlotPerField
<1>1. TableInv => OneSlotPerField
  BY DEF TableInv
<1> QED
  BY InitTableInv, NextTableInv, <1>1, PTL DEF Spec
-----------------------------------------------------------------------------
LEMMA InitMap == Init => Map!Init
<1> SUFFICES ASSUME Init PROVE fieldMap = [f \in NamedField |-> Empty]
  BY DEF Map!Init
<1>1. \A f \in NamedField : Holders(f[1], f[2]) = {}
  BY EmptySlot DEF Init, Holders
<1> QED
  BY <1>1 DEF fieldMap, Content

\* What a scan finds, before and after a step.
LEMMA ContentOf ==
  ASSUME NEW f, NEW i \in Index, Holders(f[1], f[2]) = {i}
  PROVE  Content(f) = Ver(slots[i].ts, slots[i].origin, slots[i].val)
<1>1. Min({i}) = i
  BY MinOfOne, BoundAssumption DEF Index
<1> QED
  BY <1>1 DEF Content

LEMMA ContentAfter ==
  ASSUME NEW f, NEW i \in Index, Holders(f[1], f[2])' = {i}
  PROVE  Content(f)' = Ver(slots'[i].ts, slots'[i].origin, slots'[i].val)
<1>1. Min({i}) = i
  BY MinOfOne, BoundAssumption DEF Index
<1> QED
  BY <1>1 DEF Content

LEMMA WriteMap ==
  ASSUME TableInv, NEW f \in Field, NEW ver \in Version, NEW i \in Index,
         Write(f[1], f[2], ver, i)
  PROVE  [Map!Next]_fieldMap
<1> DEFINE e == Entry(f[1], f[2], ver)
<1>1. /\ e.exists /\ e.key = f[1] /\ e.owner = f[2]
      /\ Ver(e.ts, e.origin, e.val) = ver
  BY SMTT(30), EntryFields
<1>2. slots' = [slots EXCEPT ![i] = e]
  BY DEF Write
<1> HIDE DEF e
<1>3. /\ slots'[i] = e
      /\ \A j \in Index : j # i => slots'[j] = slots[j]
  BY <1>2 DEF TableInv, TableType
<1>4. ASSUME NEW g \in NamedField, g # f PROVE Content(g)' = Content(g)
  <2>1. ~(g[1] = f[1] /\ g[2] = f[2]) /\ g[1] \in Name
    BY <1>4 DEF Field, NamedField
  <2>2. ~(slots[i].exists /\ slots[i].key = g[1] /\ slots[i].owner = g[2])
    <3>1. CASE i \in Holders(f[1], f[2])
      BY <2>1, <3>1 DEF Holders
    <3>2. CASE i = fieldCount + 1
      <4>1. ~(i <= fieldCount)
        BY <3>2 DEF TableInv, TableType
      <4> QED
        BY <2>1, <4>1 DEF TableInv, NamedCounted
    <3> QED
      BY <3>1, <3>2 DEF Write
  <2>3. Holders(g[1], g[2])' = Holders(g[1], g[2]) /\ i \notin Holders(g[1], g[2])
    BY <1>1, <1>3, <2>1, <2>2 DEF Holders
  <2>4. CASE Holders(g[1], g[2]) = {}
    BY <2>3, <2>4 DEF Content
  <2>5. CASE Holders(g[1], g[2]) # {}
    <3>1. PICK j : j \in Holders(g[1], g[2])
      BY <2>5
    <3>2. Holders(g[1], g[2]) = {j} /\ j \in Index /\ j # i
      BY <2>3, <3>1, OnlyHolder DEF TableInv
    <3>3. Content(g) = Ver(slots[j].ts, slots[j].origin, slots[j].val)
      BY <3>2, ContentOf
    <3>4. Content(g)' = Ver(slots'[j].ts, slots'[j].origin, slots'[j].val)
      BY <2>3, <3>2, ContentAfter
    <3> QED
      BY <1>3, <3>2, <3>3, <3>4
  <2> QED
    BY <2>4, <2>5
<1>5. CASE f \notin NamedField
  <2>1. \A g \in NamedField : Content(g)' = Content(g)
    BY <1>4, <1>5
  <2> QED
    BY <2>1 DEF fieldMap
<1>6. CASE f \in NamedField
  <2>1. Holders(f[1], f[2])' = {i}
    <3>1. \A j \in Holders(f[1], f[2]) : j = i
      BY OnlyHolder DEF Write, TableInv
    <3>2. \A j \in Index : j # i => ~(slots[j].exists /\ slots[j].key = f[1] /\ slots[j].owner = f[2])
      BY <3>1 DEF Holders
    <3> QED
      BY <1>1, <1>3, <3>2 DEF Holders
  <2>2. Content(f)' = ver
    BY <1>1, <1>3, <2>1, ContentAfter
  <2>3. \/ Content(f) = Empty
        \/ /\ Map!Newer(ver, Content(f))
           /\ Content(f) # ver
    <3>1. CASE Holders(f[1], f[2]) = {}
      BY <3>1 DEF Content
    <3>2. CASE i \in Holders(f[1], f[2]) /\ Map!Newer(ver, slots[i])
      <4>1. Content(f) = Ver(slots[i].ts, slots[i].origin, slots[i].val)
        BY <3>2, OnlyHolder, ContentOf DEF TableInv
      <4>2. Content(f).ts = slots[i].ts /\ Content(f).origin = slots[i].origin
        BY <4>1 DEF Ver
      <4>3. Map!Newer(ver, Content(f))
        BY <3>2, <4>2 DEF Map!Newer
      <4>4. ~Map!Newer(ver, ver)
        <5>1. ver.ts \in Nat /\ ver.origin \in Writer \cup {Self}
          BY BoundAssumption DEF Version
        <5>2. ver.origin \in Nat
          BY Zenon, <5>1, IdAssumption, PeerAssumption
        <5> QED
          BY <5>1, <5>2 DEF Map!Newer
      <4> QED
        BY <4>3, <4>4
    <3> QED
      BY <3>1, <3>2 DEF Write
  <2>4. /\ fieldMap[f] = Content(f) /\ fieldMap'[f] = ver
        /\ fieldMap' = [fieldMap EXCEPT ![f] = ver]
    BY Zenon, <1>4, <1>6, <2>2 DEF fieldMap
  <2>5. ver # Empty
    BY VersionNotEmpty
  <2>6. Map!Update(f)
    BY <2>3, <2>4, <2>5 DEF Map!Update
  <2> QED
    BY <1>6, <2>6 DEF Map!Next
<1> QED
  BY <1>5, <1>6

LEMMA CompactMap ==
  ASSUME TableInv, OneSlotPerField', Compact
  PROVE  UNCHANGED fieldMap
<1> SUFFICES ASSUME NEW g \in NamedField PROVE Content(g)' = Content(g)
  BY DEF fieldMap
<1>1. g[1] \in Name /\ KeptSlots \in SUBSET Index
  BY KeptFinite DEF NamedField
<1>2. CASE Holders(g[1], g[2]) = {}
  <2>1. \A i \in Index : slots'[i] = Empty \/ \E j \in Index : slots'[i] = slots[j]
    BY <1>1, CompactMoves
  <2>2. Holders(g[1], g[2])' = {}
    BY <1>2, <2>1, EmptySlot DEF Holders
  <2> QED
    BY <1>2, <2>2 DEF Content
<1>3. CASE Holders(g[1], g[2]) # {}
  <2>1. PICK j : j \in Holders(g[1], g[2])
    BY <1>3
  <2>2. Holders(g[1], g[2]) = {j} /\ j \in Index
    BY <2>1, OnlyHolder DEF TableInv
  <2>3. slots[j].exists /\ slots[j].key = g[1] /\ slots[j].owner = g[2] /\ slots[j] \in Slot
    BY <2>1, <2>2 DEF Holders, TableInv, TableType
  <2>4. j \in KeptSlots
    BY Zenon, <1>1, <2>2, <2>3, SlotEntry DEF KeptSlots, Kept
  <2>5. Rank(j) \in Index /\ slots'[Rank(j)] = slots[j]
    BY <2>4, CompactMoves
  <2>6. Holders(g[1], g[2])' = {Rank(j)}
    BY SMTT(30), <2>3, <2>5 DEF Holders, OneSlotPerField
  <2> QED
    BY <2>2, <2>5, <2>6, ContentOf, ContentAfter
<1> QED
  BY <1>2, <1>3

LEMMA NextMap == TableInv /\ TableInv' /\ [Next]_vars => [Map!Next]_fieldMap
<1> SUFFICES ASSUME TableInv, TableInv', [Next]_vars PROVE [Map!Next]_fieldMap
  OBVIOUS
<1>1. CASE Idle
  BY <1>1 DEF Idle, fieldMap, Content, Holders
<1>2. CASE Writes
  BY <1>2, WriteMap DEF Writes
<1>3. CASE Compact
  BY <1>3, CompactMap DEF TableInv
<1> QED
  BY <1>1, <1>2, <1>3, StepKinds

(***************************************************************************)
(* For any capacity, the slot array implements the map of named fields:    *)
(* every step of it gives one field a newer version or changes none,       *)
(* compaction and unnamed fields that reuse or overrun slots included.     *)
(***************************************************************************)
THEOREM TableImplementsMap == Spec => ImplementsMap
  BY InitTableInv, NextTableInv, InitMap, NextMap, PTL
  DEF Spec, ImplementsMap, Map!Spec
=============================================================================
