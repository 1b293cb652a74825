-------------------------- MODULE ReticulumProofs --------------------------
(***************************************************************************)
(* Proofs about the mesh transport, for any number of peers, slots and     *)
(* links, any announce interval and any MTU.                               *)
(***************************************************************************)
EXTENDS Reticulum, TLAPS

\* No peer has two entries.
DistinctPeers == \A i, j \in Slots : table[i].id = table[j].id => i = j

\* The age of a live peer's entry is the time since it announced.
AgeIsQuiet == \A i \in Slots : table[i].id \in Live => table[i].age = quiet[table[i].id]

\* The table is filled by the announce handlers alone.
Listening == node.hears \/ Slots = {}

\* The node has been silent since the counter was last a multiple, at most,
\* and for a whole interval for every announce that threw.
SilenceInStep ==
  /\ node.open => silence <= tick + Interval * missed
  /\ ~node.open => silence = 0

\* A key that was saved is the key in use.
IdentityKept == stored # None => node.identity \in {None, stored}

\* What was sent last, and that the table has not changed since.
SentToTable ==
  \/ out = Nothing
  \/ \E size \in Size :
       /\ size <= SinglePacketPayloadCeiling
       /\ out = [kind |-> "packets", size |-> size, to |-> Addressees]

\* A step that neither adds nor evicts a peer.
SamePeers == Slots' = Slots /\ \A i \in Slots : table'[i].id = table[i].id

\* The link a table entry e caches for an aspect, among the links ls.
Belongs(e, a, ls) ==
  \/ e.link[a] = None
  \/ /\ ls[e.link[a]] # Unused
     /\ ls[e.link[a]].to = e.id
     /\ ls[e.link[a]].aspect = a

IInv ==
  /\ TypeOK /\ LinksBelong
  /\ DistinctPeers /\ AgeIsQuiet /\ Listening /\ SilenceInStep /\ IdentityKept /\ SentToTable

-----------------------------------------------------------------------------
LEMMA SeqElements ==
  ASSUME NEW R, NEW s \in Seq(R)
  PROVE  /\ DOMAIN s = 1..Len(s) /\ Len(s) \in Nat
         /\ \A i \in DOMAIN s : s[i] \in R
  OBVIOUS

LEMMA SeqOfDomain ==
  ASSUME NEW R, NEW s \in Seq(R), NEW t, t = [i \in DOMAIN s |-> t[i]],
         \A i \in DOMAIN s : t[i] \in R
  PROVE  t \in Seq(R) /\ Len(t) = Len(s) /\ DOMAIN t = DOMAIN s
  OBVIOUS

LEMMA SeqAppend ==
  ASSUME NEW R, NEW s \in Seq(R), NEW e \in R
  PROVE  /\ Append(s, e) \in Seq(R)
         /\ Len(Append(s, e)) = Len(s) + 1
         /\ DOMAIN Append(s, e) = 1..(Len(s) + 1)
         /\ Append(s, e)[Len(s) + 1] = e
         /\ \A i \in 1..Len(s) : Append(s, e)[i] = s[i]
  OBVIOUS

LEMMA Entries ==
  ASSUME TableType
  PROVE  /\ Slots = 1..Len(table) /\ Len(table) \in Nat
         /\ \A i \in Slots :
              /\ table[i] \in PeerEntry
              /\ table[i].id \in Peer
              /\ table[i].age \in 0..MaxAge
              /\ table[i].link \in [Aspect -> LinkId \cup {None}]
<1>1. /\ DOMAIN table = 1..Len(table) /\ Len(table) \in Nat
      /\ \A i \in DOMAIN table : table[i] \in PeerEntry
  BY SeqElements DEF TableType
<1> QED
  BY <1>1 DEF Slots, PeerEntry

LEMMA BelongsAll ==
  /\ LinksBelong <=> \A i \in Slots, a \in Aspect : Belongs(table[i], a, links)
  /\ LinksBelong' <=> \A i \in Slots', a \in Aspect : Belongs(table'[i], a, links')
<1>1. LinksBelong <=> \A i \in Slots, a \in Aspect : Belongs(table[i], a, links)
  BY DEF LinksBelong, Belongs
<1>2. LinksBelong' <=> \A i \in Slots', a \in Aspect : Belongs(table'[i], a, links')
  BY DEF LinksBelong, Belongs
<1> QED
  BY <1>1, <1>2

\* A cached link that stays open, towards the same peer and aspect.
LEMMA BelongsStill ==
  ASSUME NEW d, NEW e, NEW a, NEW ls, NEW ms, Belongs(d, a, ls),
         e.id = d.id, e.link[a] = d.link[a],
         LET l == d.link[a] IN
         l # None => \/ ms[l] = ls[l]
                     \/ ms[l] # Unused /\ ms[l].to = ls[l].to /\ ms[l].aspect = ls[l].aspect
  PROVE  Belongs(e, a, ms)
  BY DEF Belongs

LEMMA InitIInv == Init => IInv
<1> SUFFICES ASSUME Init PROVE IInv
  OBVIOUS
<1>1. NodeType
  BY DEF Init, PoweredOn, Off, NodeType
<1>2. ClockType
  BY IntervalAssumption, MissedAssumption DEF Init, PoweredOn, ClockType
<1>3. TableType /\ Slots = {}
  BY PeerAssumption DEF Init, PoweredOn, TableType, Slots
<1>4. LinksType
  BY DEF Init, PoweredOn, LinksType
<1>5. LinksBelong /\ DistinctPeers /\ AgeIsQuiet /\ Listening
  BY <1>3 DEF LinksBelong, DistinctPeers, AgeIsQuiet, Listening
<1>6. SilenceInStep /\ IdentityKept /\ SentToTable
  BY DEF Init, PoweredOn, Off, SilenceInStep, IdentityKept, SentToTable
<1> QED
  BY <1>1, <1>2, <1>3, <1>4, <1>5, <1>6 DEF IInv, TypeOK

-----------------------------------------------------------------------------
(* Steps that leave the radio alone *)

\* What depends on table, links, quiet and the counters alone.
RadioInv == ClockType /\ TableType /\ LinksType /\ LinksBelong /\ DistinctPeers /\ AgeIsQuiet

LEMMA RadioUnchanged ==
  ASSUME RadioInv, UNCHANGED radio
  PROVE  RadioInv'
<1> USE DEF radio, announcing, Slots
<1>1. ClockType' /\ TableType' /\ LinksType'
  BY DEF RadioInv, ClockType, TableType, LinksType
<1>2. LinksBelong' /\ DistinctPeers' /\ AgeIsQuiet'
  BY DEF RadioInv, LinksBelong, DistinctPeers, AgeIsQuiet
<1> QED
  BY <1>1, <1>2 DEF RadioInv

\* The key in use and the key stored, after either way of getting one.
LEMMA KeyInUse ==
  ASSUME IInv, NEW k \in Key, NEW saved \in Key \cup {None},
         LoadOrGenerate(k, saved)
  PROVE  /\ saved # None => saved = k
         /\ stored # None => saved = stored
  BY DEF LoadOrGenerate

LEMMA IdentityStep ==
  ASSUME IInv, Configure \/ IdentityInit \/ StartWithoutIdentity \/ InitializeComms
  PROVE  IInv' /\ (stored # None => stored' = stored)
<1>1. UNCHANGED radio /\ out' = Nothing
  BY DEF Configure, IdentityInit, StartWithoutIdentity, InitializeComms
<1>2. RadioInv'
  BY <1>1, RadioUnchanged DEF IInv, TypeOK, RadioInv
<1>3. NodeType' /\ node'.open = node.open /\ node'.hears = node.hears
  BY Zenon DEF IInv, TypeOK, NodeType, Configure, IdentityInit, StartWithoutIdentity, InitializeComms
<1>4. SilenceInStep' /\ Listening'
  BY <1>1, <1>3 DEF IInv, SilenceInStep, Listening, Slots, radio, announcing
<1>5. IdentityKept' /\ (stored # None => stored' = stored)
  <2>1. CASE IdentityInit
    <3>1. PICK k \in Key, saved \in Key \cup {None} :
            /\ LoadOrGenerate(k, saved)
            /\ node' = [node EXCEPT !.identity = k]
            /\ stored' = saved
      BY <2>1 DEF IdentityInit
    <3>2. node'.identity = k
      BY <3>1 DEF IInv, TypeOK, NodeType
    <3> QED
      BY <3>1, <3>2, KeyInUse DEF IdentityKept
  <2>2. CASE Configure \/ StartWithoutIdentity \/ InitializeComms
    <3>1. stored' = stored /\ node'.identity = node.identity
      BY <2>2 DEF Configure, StartWithoutIdentity, InitializeComms, IInv, TypeOK, NodeType
    <3> QED
      BY <3>1 DEF IInv, IdentityKept
  <2> QED
    BY <2>1, <2>2
<1>6. SentToTable'
  BY <1>1 DEF SentToTable, Nothing
<1> QED
  BY <1>2, <1>3, <1>4, <1>5, <1>6 DEF IInv, TypeOK, RadioInv

\* The key in use after start has got its identity.
LEMMA KeyAtStart ==
  ASSUME IInv, NEW k \in Key, NEW saved \in Key \cup {None}, HaveIdentity(k, saved)
  PROVE  /\ saved # None => saved = k
         /\ stored # None => saved = stored
  BY KeyInUse DEF HaveIdentity, IInv, IdentityKept

\* A start that gets its identity, whether it runs to its end or throws.
LEMMA StartedStep ==
  ASSUME IInv, NEW k \in Key, NEW saved \in Key \cup {None}, HaveIdentity(k, saved),
         NEW open \in BOOLEAN, NEW hears \in BOOLEAN, node.open => open, node.hears => hears,
         node' = [node EXCEPT !.identity = k, !.loop = TRUE, !.open = open, !.hears = hears],
         stored' = saved,
         \/ silence' = 0 /\ missed' = 0 /\ open
         \/ silence' = silence /\ missed' = missed,
         out' = Nothing, UNCHANGED <<tick, quiet, table, links>>
  PROVE  IInv' /\ (stored # None => stored' = stored)
<1>1. NodeType' /\ node'.identity = k /\ node'.open = open /\ node'.hears = hears
  BY Zenon DEF IInv, TypeOK, NodeType
<1>2. ClockType'
  BY MissedAssumption DEF IInv, TypeOK, ClockType
<1>3. SilenceInStep'
  <2>1. ClockType /\ SilenceInStep
    BY DEF IInv, TypeOK
  <2>2. Interval * missed \in Nat /\ Interval * 0 = 0 /\ tick \in Nat
    BY <2>1, IntervalAssumption, MissedAssumption DEF ClockType
  <2>3. tick' = tick /\ silence \in Nat
    BY <2>1 DEF ClockType
  <2>4. CASE silence' = 0 /\ missed' = 0 /\ open
    BY <1>1, <2>2, <2>3, <2>4 DEF SilenceInStep
  <2>5. CASE silence' = silence /\ missed' = missed
    <3>1. CASE node.open
      BY <1>1, <2>1, <2>3, <2>5, <3>1 DEF SilenceInStep
    <3>2. CASE ~node.open
      BY <1>1, <2>1, <2>2, <2>3, <2>5, <3>2 DEF SilenceInStep
    <3> QED
      BY <3>1, <3>2
  <2> QED
    BY <2>4, <2>5
<1>4. TableType' /\ LinksType' /\ LinksBelong' /\ DistinctPeers' /\ AgeIsQuiet'
  BY DEF IInv, TypeOK, TableType, LinksType, LinksBelong, DistinctPeers, AgeIsQuiet, Slots
<1>5. Listening'
  BY <1>1 DEF IInv, Listening, Slots
<1>6. IdentityKept' /\ (stored # None => stored' = stored)
  BY <1>1, KeyAtStart DEF IInv, IdentityKept
<1>7. SentToTable'
  BY DEF SentToTable, Nothing
<1> QED
  BY <1>1, <1>2, <1>3, <1>4, <1>5, <1>6, <1>7 DEF IInv, TypeOK

LEMMA StartStep ==
  ASSUME IInv, Start \/ StartThrows
  PROVE  IInv' /\ (stored # None => stored' = stored)
<1>0. node.open \in BOOLEAN /\ node.hears \in BOOLEAN
  BY Zenon DEF IInv, TypeOK, NodeType
<1>1. CASE Start
  <2>1. PICK k \in Key, saved \in Key \cup {None} :
          /\ HaveIdentity(k, saved)
          /\ node' = [node EXCEPT !.identity = k, !.loop = TRUE, !.open = TRUE, !.hears = TRUE]
          /\ stored' = saved
    BY Zenon, <1>1 DEF Start
  <2>2. silence' = 0 /\ missed' = 0 /\ out' = Nothing /\ UNCHANGED <<tick, quiet, table, links>>
    BY <1>1 DEF Start
  <2> QED
    BY <2>1, <2>2, StartedStep
<1>2. CASE StartThrows
  <2>1. PICK k \in Key, saved \in Key \cup {None},
             open \in {node.open, TRUE}, hears \in {node.hears, TRUE}, announced \in BOOLEAN :
          /\ HaveIdentity(k, saved)
          /\ hears => open
          /\ announced => hears
          /\ node' = [node EXCEPT !.identity = k, !.loop = TRUE, !.open = open, !.hears = hears]
          /\ stored' = saved
          /\ silence' = IF announced THEN 0 ELSE silence
          /\ missed' = IF announced THEN 0 ELSE missed
    BY Zenon, <1>2 DEF StartThrows
  <2>2. out' = Nothing /\ UNCHANGED <<tick, quiet, table, links>>
    BY <1>2 DEF StartThrows
  <2>3. /\ open \in BOOLEAN /\ hears \in BOOLEAN
        /\ node.open => open
        /\ node.hears => hears
    BY Zenon, <1>0
  <2>4. \/ silence' = 0 /\ missed' = 0 /\ open
        \/ silence' = silence /\ missed' = missed
    BY <2>1
  <2> QED
    BY <2>1, <2>2, <2>3, <2>4, StartedStep
<1> QED
  BY <1>1, <1>2

LEMMA RebootStep ==
  ASSUME IInv, Reboot
  PROVE  IInv'
<1> USE DEF Reboot
<1>1. NodeType' /\ ClockType' /\ LinksType'
  BY IntervalAssumption, MissedAssumption
  DEF IInv, TypeOK, NodeType, ClockType, LinksType, Off
<1>2. TableType' /\ Slots' = {}
  BY PeerAssumption DEF TableType, Slots
<1>3. LinksBelong' /\ DistinctPeers' /\ AgeIsQuiet' /\ Listening'
  BY <1>2 DEF LinksBelong, DistinctPeers, AgeIsQuiet, Listening
<1>4. SilenceInStep' /\ IdentityKept' /\ SentToTable'
  BY DEF SilenceInStep, IdentityKept, SentToTable, Off, Nothing
<1> QED
  BY <1>1, <1>2, <1>3, <1>4 DEF IInv, TypeOK

-----------------------------------------------------------------------------
(* Steps of the peer table and the links *)

LEMMA NodeUnchanged ==
  ASSUME IInv, UNCHANGED <<node, stored, announcing>>
  PROVE  /\ NodeType' /\ SilenceInStep' /\ IdentityKept'
         /\ Slots' = Slots => Listening'
  BY DEF IInv, TypeOK, NodeType, SilenceInStep, IdentityKept, Listening, announcing

LEMMA NewEntry ==
  ASSUME NEW p \in Peer
  PROVE  /\ NewPeer(p) \in PeerEntry
         /\ NewPeer(p).id = p /\ NewPeer(p).age = 0
         /\ \A a \in Aspect : NewPeer(p).link[a] = None
  BY IntervalAssumption DEF NewPeer, PeerEntry, MaxAge

\* An entry replaced by one of the same kind.
LEMMA SeqReplace ==
  ASSUME NEW R, NEW s \in Seq(R), NEW i \in DOMAIN s, NEW e \in R
  PROVE  /\ [s EXCEPT ![i] = e] \in Seq(R)
         /\ Len([s EXCEPT ![i] = e]) = Len(s)
         /\ DOMAIN [s EXCEPT ![i] = e] = DOMAIN s
         /\ [s EXCEPT ![i] = e][i] = e
         /\ \A j \in DOMAIN s : j # i => [s EXCEPT ![i] = e][j] = s[j]
  OBVIOUS

\* PeerTable::add, whichever way the peer gets its entry.
LEMMA AddedPeer ==
  ASSUME IInv, NEW p \in Peer, PeerTableAdd(p),
         quiet' = [q \in Live |-> IF q = p THEN 0 ELSE quiet[q]]
  PROVE  TableType' /\ LinksType' /\ LinksBelong' /\ DistinctPeers' /\ AgeIsQuiet'
<1> USE DEF Slots
<1>0. TableType /\ LinksType /\ LinksBelong /\ DistinctPeers /\ AgeIsQuiet
  BY DEF IInv, TypeOK
<1>1. ASSUME NEW i \in SlotsOf(p), table' = [table EXCEPT ![i].age = 0], links' = links
      PROVE  TableType' /\ LinksType' /\ LinksBelong' /\ DistinctPeers' /\ AgeIsQuiet'
  <2>1. i \in Slots /\ table[i].id = p
    BY DEF SlotsOf
  <2> DEFINE e == [table[i] EXCEPT !.age = 0]
  <2>2. /\ e \in PeerEntry
        /\ e.id = table[i].id /\ e.link = table[i].link /\ e.age = 0
    BY <1>0, <2>1, Entries, IntervalAssumption DEF PeerEntry, MaxAge
  <2>3. table' = [table EXCEPT ![i] = e]
    BY <1>1
  <2> HIDE DEF e
  <2>4. /\ table' \in Seq(PeerEntry) /\ Len(table') = Len(table) /\ DOMAIN table' = DOMAIN table
        /\ table'[i] = e
        /\ \A j \in Slots : j # i => table'[j] = table[j]
    BY <1>0, <2>1, <2>2, <2>3, SeqReplace DEF TableType
  <2>5. \A j \in Slots : table'[j].id = table[j].id /\ table'[j].link = table[j].link
    BY <2>2, <2>4
  <2>6. TableType' /\ LinksType'
    BY <1>0, <1>1, <2>4 DEF TableType, LinksType
  <2>7. LinksBelong'
    <3>1. \A j \in Slots, a \in Aspect : Belongs(table[j], a, links)
      BY <1>0, BelongsAll
    <3>2. ASSUME NEW j \in Slots, NEW a \in Aspect
          PROVE  Belongs(table'[j], a, links')
      BY Zenon, <1>1, <2>5, <3>1, BelongsStill
    <3> QED
      BY <2>4, <3>2, BelongsAll DEF Slots
  <2>8. DistinctPeers'
    BY <1>0, <2>4, <2>5 DEF DistinctPeers
  <2>9. AgeIsQuiet'
    BY <1>0, <2>1, <2>2, <2>4, <2>5 DEF AgeIsQuiet, DistinctPeers
  <2> QED
    BY <2>6, <2>7, <2>8, <2>9
<1>2. ASSUME SlotsOf(p) = {}, HasRoom, table' = Append(table, NewPeer(p)), links' = links
      PROVE  TableType' /\ LinksType' /\ LinksBelong' /\ DistinctPeers' /\ AgeIsQuiet'
  <2> DEFINE n == Len(table) + 1
  <2>1. /\ table' \in Seq(PeerEntry)
        /\ Len(table') = n
        /\ DOMAIN table' = 1..n
        /\ table'[n] = NewPeer(p)
        /\ \A i \in 1..Len(table) : table'[i] = table[i]
    BY <1>0, <1>2, NewEntry, SeqAppend DEF TableType
  <2>2. /\ Slots = 1..Len(table) /\ Len(table) \in Nat
        /\ \A i \in Slots : table[i].id # p /\ table[i].id \in Peer
    BY <1>0, <1>2, Entries DEF SlotsOf
  <2>3. \A i \in DOMAIN table' :
          \/ i \in Slots /\ table'[i] = table[i]
          \/ i = n /\ table'[i] = NewPeer(p)
    BY <2>1, <2>2
  <2>4. TableType' /\ LinksType'
    BY <1>0, <1>2, <2>1, <2>2, PeerAssumption DEF TableType, LinksType, HasRoom
  <2>5. LinksBelong'
    <3>1. \A i \in Slots, a \in Aspect : Belongs(table[i], a, links)
      BY <1>0, BelongsAll
    <3>2. \A a \in Aspect : Belongs(NewPeer(p), a, links)
      BY NewEntry DEF Belongs
    <3>3. \A i \in Slots', a \in Aspect : Belongs(table'[i], a, links')
      BY <1>2, <2>3, <3>1, <3>2 DEF Slots
    <3> QED
      BY <3>3, BelongsAll
  <2>6. DistinctPeers'
    BY <1>0, <2>2, <2>3, NewEntry DEF DistinctPeers
  <2>7. AgeIsQuiet'
    BY <1>0, <2>2, <2>3, NewEntry DEF AgeIsQuiet
  <2> QED
    BY <2>4, <2>5, <2>6, <2>7
<1>3. ASSUME NEW i \in OldestSlots, SlotsOf(p) = {},
             links' = Closed(TornDown(i)), table' = PeerIntoSlot(p, i)
      PROVE  TableType' /\ LinksType' /\ LinksBelong' /\ DistinctPeers' /\ AgeIsQuiet'
  <2>1. i \in Slots
    BY DEF OldestSlots, Longest
  <2>2. /\ table' \in Seq(PeerEntry) /\ Len(table') = Len(table) /\ DOMAIN table' = DOMAIN table
        /\ table'[i] = NewPeer(p)
        /\ \A j \in Slots : j # i => table'[j] = table[j]
    BY <1>0, <1>3, <2>1, NewEntry, SeqReplace DEF TableType, PeerIntoSlot
  <2>3. \A j \in Slots : table[j].id # p /\ table[j].id \in Peer
    BY <1>0, <1>3, Entries DEF SlotsOf
  <2>4. TableType' /\ LinksType'
    BY <1>0, <1>3, <2>2 DEF TableType, LinksType, Closed
  <2>5. LinksBelong'
    <3>1. \A j \in Slots, a \in Aspect : Belongs(table[j], a, links)
      BY <1>0, BelongsAll
    <3>2. ASSUME NEW j \in Slots, j # i, NEW a \in Aspect
          PROVE  Belongs(table[j], a, links')
      <4> DEFINE l == table[j].link[a]
      <4> SUFFICES ASSUME l # None PROVE links'[l] = links[l]
        BY <3>1, BelongsStill
      <4>1. l \in LinkId
        BY <1>0, Entries
      <4>2. links[l].to = table[j].id
        BY <3>1 DEF Belongs
      <4>3. ASSUME NEW b \in Aspect PROVE table[i].link[b] # l
        <5>1. table[i].id # table[j].id
          BY <1>0, <2>1, <3>2 DEF DistinctPeers
        <5>2. Belongs(table[i], b, links)
          BY <2>1, <3>1
        <5> QED
          BY <4>2, <5>1, <5>2 DEF Belongs
      <4> QED
        BY <1>3, <4>1, <4>3 DEF Closed, TornDown
    <3>3. \A a \in Aspect : Belongs(NewPeer(p), a, links')
      BY NewEntry DEF Belongs
    <3>4. \A j \in Slots, a \in Aspect : Belongs(table'[j], a, links')
      BY <2>1, <2>2, <3>2, <3>3
    <3> QED
      BY <2>2, <3>4, BelongsAll DEF Slots
  <2>6. DistinctPeers'
    BY <1>0, <2>2, <2>3, NewEntry DEF DistinctPeers
  <2>7. AgeIsQuiet'
    BY <1>0, <2>2, <2>3, NewEntry DEF AgeIsQuiet
  <2> QED
    BY <2>4, <2>5, <2>6, <2>7
<1> QED
  BY <1>1, <1>2, <1>3 DEF PeerTableAdd

LEMMA AnnounceStep ==
  ASSUME IInv, NEW p \in Peer, ReceivedAnnounce(p)
  PROVE  IInv'
<1>1. /\ PeerTableAdd(p)
      /\ quiet' = [q \in Live |-> IF q = p THEN 0 ELSE quiet[q]]
      /\ out' = Nothing /\ UNCHANGED <<node, stored, announcing>>
      /\ node.hears
  BY DEF ReceivedAnnounce
<1>2. ClockType'
  BY <1>1, IntervalAssumption DEF IInv, TypeOK, ClockType, announcing
<1>3. SentToTable' /\ Listening'
  BY <1>1 DEF SentToTable, Nothing, Listening
<1> QED
  BY <1>1, <1>2, <1>3, AddedPeer, NodeUnchanged DEF IInv, TypeOK

\* Steps that change nothing in the table but cached links.
LEMMA Relinked ==
  ASSUME IInv, UNCHANGED quiet,
         table' = [i \in Slots |-> table'[i]],
         \A i \in Slots : /\ table'[i] \in PeerEntry
                          /\ table'[i].id = table[i].id /\ table'[i].age = table[i].age
  PROVE  TableType' /\ DistinctPeers' /\ AgeIsQuiet' /\ Slots' = Slots
<1>1. /\ table' \in Seq(PeerEntry) /\ Len(table') = Len(table)
      /\ DOMAIN table' = DOMAIN table
  BY SeqOfDomain DEF IInv, TypeOK, TableType, Slots
<1>2. TableType' /\ Slots' = Slots
  BY <1>1 DEF IInv, TypeOK, TableType, Slots
<1>3. DistinctPeers' /\ AgeIsQuiet'
  BY <1>2 DEF IInv, DistinctPeers, AgeIsQuiet
<1> QED
  BY <1>2, <1>3

LEMMA LinkProgressStep ==
  ASSUME IInv, NEW l \in LinkId, LinkProgress(l)
  PROVE  IInv'
<1>1. PICK step \in {<<"PENDING", "HANDSHAKE">>, <<"HANDSHAKE", "ACTIVE">>,
                    <<"ACTIVE", "STALE">>, <<"STALE", "ACTIVE">>} :
        /\ links[l].status = step[1]
        /\ links' = [links EXCEPT ![l].status = step[2]]
  BY Zenon DEF LinkProgress
<1>2. UNCHANGED <<linking, table>> /\ out' = Nothing
  BY DEF LinkProgress
<1>3. links[l] \in OpenLink
  BY <1>1 DEF IInv, TypeOK, LinksType, Unused
<1>4. /\ links'[l] \in OpenLink /\ links'[l].to = links[l].to
      /\ links'[l].aspect = links[l].aspect
      /\ links' \in [LinkId -> {Unused} \cup OpenLink]
      /\ \A k \in LinkId : k # l => links'[k] = links[k]
  BY <1>1, <1>3 DEF IInv, TypeOK, LinksType, OpenLink
<1>5. links'[l] # Unused
  BY <1>4 DEF OpenLink, Unused
<1>6. LinksType' /\ ClockType' /\ TableType' /\ DistinctPeers' /\ AgeIsQuiet'
  BY <1>2, <1>4
  DEF IInv, TypeOK, LinksType, ClockType, TableType, DistinctPeers, AgeIsQuiet, linking,
      announcing, Slots
<1>7. LinksBelong'
  <2>1. \A i \in Slots, a \in Aspect : table[i].link[a] \in LinkId \cup {None}
    BY Entries DEF IInv, TypeOK
  <2>2. \A i \in Slots, a \in Aspect : Belongs(table[i], a, links)
    BY BelongsAll DEF IInv
  <2>3. ASSUME NEW i \in Slots, NEW a \in Aspect
        PROVE  Belongs(table[i], a, links')
    <3>1. Belongs(table[i], a, links) /\ table[i].link[a] \in LinkId \cup {None}
      BY <2>1, <2>2
    <3>2. table[i].link[a] = l \/ table[i].link[a] = None
            \/ links'[table[i].link[a]] = links[table[i].link[a]]
      BY <1>4, <3>1
    <3> QED
      BY SMTT(30), <1>4, <1>5, <3>1, <3>2, BelongsStill
  <2> QED
    BY <1>2, <2>3, BelongsAll DEF Slots
<1>8. SentToTable'
  BY <1>2 DEF SentToTable, Nothing
<1> QED
  BY <1>2, <1>6, <1>7, <1>8, NodeUnchanged DEF IInv, TypeOK, linking, Slots

LEMMA LinkClosedStep ==
  ASSUME IInv, NEW l \in LinkId, LinkClosed(l)
  PROVE  /\ IInv' /\ SamePeers
         /\ links'[l] = Unused
         /\ \A i \in Slots, a \in Aspect :
              table'[i].link[a] = table[i].link[a] \/ table[i].link[a] = l
<1>1. /\ links' = Closed({l})
      /\ table' = [i \in Slots |->
                     [table[i] EXCEPT !.link =
                        [a \in Aspect |-> IF @[a] = l THEN None ELSE @[a]]]]
      /\ out' = Nothing /\ UNCHANGED linking
  BY DEF LinkClosed
<1>2. \A i \in Slots :
        /\ table'[i] \in PeerEntry
        /\ table'[i].id = table[i].id /\ table'[i].age = table[i].age
        /\ \A a \in Aspect :
             table'[i].link[a] = IF table[i].link[a] = l THEN None ELSE table[i].link[a]
  <2> SUFFICES ASSUME NEW i \in Slots
               PROVE  /\ table'[i] \in PeerEntry
                      /\ table'[i].id = table[i].id /\ table'[i].age = table[i].age
                      /\ \A a \in Aspect :
                           table'[i].link[a] =
                             IF table[i].link[a] = l THEN None ELSE table[i].link[a]
    OBVIOUS
  <2>1. table[i] \in PeerEntry
    BY Entries DEF IInv, TypeOK
  <2>2. table'[i] = [table[i] EXCEPT !.link =
                       [a \in Aspect |-> IF table[i].link[a] = l THEN None
                                         ELSE table[i].link[a]]]
    BY <1>1
  <2> QED
    BY <2>1, <2>2 DEF PeerEntry
<1>3. TableType' /\ DistinctPeers' /\ AgeIsQuiet' /\ Slots' = Slots
  <2>1. table' = [i \in Slots |-> table'[i]]
    BY <1>1
  <2> QED
    BY <1>1, <1>2, <2>1, Relinked DEF linking
<1>4. LinksType' /\ \A k \in LinkId : k # l => links'[k] = links[k]
  BY <1>1 DEF IInv, TypeOK, LinksType, Closed
<1>5. LinksBelong'
  <2>1. \A i \in Slots, a \in Aspect : table[i].link[a] \in LinkId \cup {None}
    BY Entries DEF IInv, TypeOK
  <2>2. \A i \in Slots, a \in Aspect : Belongs(table[i], a, links)
    BY BelongsAll DEF IInv
  <2>3. ASSUME NEW i \in Slots, NEW a \in Aspect
        PROVE  Belongs(table'[i], a, links')
    <3>1. CASE table[i].link[a] = l \/ table[i].link[a] = None
      BY <1>2, <3>1 DEF Belongs
    <3>2. CASE table[i].link[a] # l /\ table[i].link[a] # None
      <4>1. Belongs(table[i], a, links) /\ table[i].link[a] \in LinkId
        BY <2>1, <2>2, <3>2
      <4>2. links'[table[i].link[a]] = links[table[i].link[a]]
        BY <1>4, <3>2, <4>1
      <4>3. table'[i].id = table[i].id /\ table'[i].link[a] = table[i].link[a]
        BY <1>2, <3>2
      <4> QED
        BY <4>1, <4>2, <4>3, BelongsStill
    <3> QED
      BY <3>1, <3>2
  <2> QED
    BY <1>3, <2>3, BelongsAll
<1>6. ClockType' /\ SentToTable'
  BY <1>1 DEF IInv, TypeOK, ClockType, linking, announcing, SentToTable, Nothing
<1>7. IInv'
  BY <1>1, <1>3, <1>4, <1>5, <1>6, NodeUnchanged DEF IInv, TypeOK, linking
<1> QED
  BY Zenon, <1>1, <1>2, <1>3, <1>7 DEF SamePeers, Closed

-----------------------------------------------------------------------------
(* Sends and polls *)

LEMMA QuietSendStep ==
  ASSUME IInv, NEW a \in Aspect,
         Shed(a) \/ \E size \in Size : SendPackets(a, size)
  PROVE  IInv'
<1>1. UNCHANGED <<node, stored, radio>>
  BY DEF Shed, SendPackets
<1>2. RadioInv'
  BY <1>1, RadioUnchanged DEF IInv, TypeOK, RadioInv
<1>3. SentToTable'
  BY <1>1 DEF Shed, SendPackets, SentToTable, Nothing, Addressees, Slots, radio,
              SinglePacketPayloadCeiling
<1> QED
  BY <1>1, <1>2, <1>3, NodeUnchanged DEF IInv, TypeOK, RadioInv, radio, Slots

\* A cached link that is replaced is stale, or there was none.
LEMMA SendResourcesStep ==
  ASSUME IInv, NEW a \in Aspect, NEW size \in Size, SendResources(a, size)
  PROVE  /\ IInv'
         /\ SamePeers
         /\ \A l \in LinkId : links[l] # Unused => links'[l] = links[l]
         /\ \A i \in Slots, b \in Aspect :
              table'[i].link[b] = table[i].link[b] \/ NeedsLink(i, b)
<1>1. PICK n \in 0..Len(table) : SendViaResource(n, a)
  BY DEF SendResources
<1> DEFINE opening == {i \in 1..n : NeedsLink(i, a)}
           free == {l \in LinkId : links[l] = Unused}
<1>2. PICK new \in Injection(opening, free) :
        /\ table' = [i \in Slots |->
                       IF i \in opening THEN [table[i] EXCEPT !.link[a] = new[i]]
                       ELSE table[i]]
        /\ links' = [l \in LinkId |->
                       IF \E i \in opening : new[i] = l
                       THEN OpenedTo(table[CHOOSE i \in opening : new[i] = l].id, a)
                       ELSE links[l]]
  BY Zenon, <1>1 DEF SendViaResource
<1>3. out' = Nothing /\ UNCHANGED linking
  BY DEF SendResources
<1>4. /\ Slots = 1..Len(table) /\ opening \subseteq Slots
      /\ \A i \in Slots : table[i] \in PeerEntry
  <2>1. /\ Slots = 1..Len(table) /\ Len(table) \in Nat
        /\ \A i \in Slots : table[i] \in PeerEntry
    <3> HIDE DEF opening, free
    <3> QED
      BY Entries DEF IInv, TypeOK
  <2>2. opening \subseteq 1..n /\ 1..n \subseteq 1..Len(table)
    BY <2>1
  <2> QED
    BY <2>1, <2>2
<1>5. /\ \A i \in opening : new[i] \in LinkId /\ links[new[i]] = Unused
      /\ \A i, j \in opening : new[i] = new[j] => i = j
  <2>1. \A l \in free : l \in LinkId /\ links[l] = Unused
    OBVIOUS
  <2> HIDE DEF opening, free
  <2>2. \A i \in opening : new[i] \in free
    BY DEF Injection
  <2>3. \A i, j \in opening : new[i] = new[j] => i = j
    BY DEF Injection, IsInjective
  <2> QED
    BY <2>1, <2>2, <2>3
<1>6. \A i \in Slots :
        /\ table'[i] \in PeerEntry
        /\ table'[i].id = table[i].id /\ table'[i].age = table[i].age
        /\ \A b \in Aspect :
             table'[i].link[b] = IF b = a /\ i \in opening THEN new[i] ELSE table[i].link[b]
  <2> SUFFICES ASSUME NEW i \in Slots
               PROVE  /\ table'[i] \in PeerEntry
                      /\ table'[i].id = table[i].id /\ table'[i].age = table[i].age
                      /\ \A b \in Aspect :
                           table'[i].link[b] =
                             IF b = a /\ i \in opening THEN new[i] ELSE table[i].link[b]
    OBVIOUS
  <2>1. table'[i] = IF i \in opening THEN [table[i] EXCEPT !.link[a] = new[i]] ELSE table[i]
    BY <1>2
  <2> HIDE DEF opening
  <2> QED
    BY <1>4, <1>5, <2>1 DEF PeerEntry
<1>7. \A i \in opening : links'[new[i]] = OpenedTo(table[i].id, a)
  <2> SUFFICES ASSUME NEW i \in opening
               PROVE  links'[new[i]] = OpenedTo(table[i].id, a)
    OBVIOUS
  <2>1. (CHOOSE j \in opening : new[j] = new[i]) = i
    BY <1>5
  <2> QED
    BY <1>2, <1>5, <2>1
<1>8. \A l \in LinkId : (\A i \in opening : new[i] # l) => links'[l] = links[l]
  BY <1>2
<1>9. \A l \in LinkId : links[l] # Unused => links'[l] = links[l]
  BY <1>5, <1>8
<1>10. TableType' /\ DistinctPeers' /\ AgeIsQuiet' /\ Slots' = Slots
  <2>1. table' = [i \in Slots |-> table'[i]]
    BY <1>2
  <2> QED
    BY <1>3, <1>6, <2>1, Relinked DEF linking
<1>11. LinksType'
  <2>1. \A i \in opening : OpenedTo(table[i].id, a) \in OpenLink
    BY <1>4 DEF OpenedTo, OpenLink, PeerEntry
  <2>2. \A l \in LinkId : links'[l] \in {Unused} \cup OpenLink
    BY <1>7, <1>8, <2>1 DEF IInv, TypeOK, LinksType
  <2>3. links' = [l \in LinkId |-> links'[l]]
    BY <1>2
  <2> QED
    BY <2>2, <2>3 DEF LinksType
<1>12. LinksBelong'
  <2> SUFFICES ASSUME NEW i \in Slots, NEW b \in Aspect, table'[i].link[b] # None
               PROVE  /\ links'[table'[i].link[b]] # Unused
                      /\ links'[table'[i].link[b]].to = table'[i].id
                      /\ links'[table'[i].link[b]].aspect = b
    BY <1>10 DEF LinksBelong
  <2>1. CASE b = a /\ i \in opening
    <3>1. table'[i].link[b] = new[i] /\ table'[i].id = table[i].id
      BY <2>1, <1>6
    <3>2. links'[new[i]] = OpenedTo(table[i].id, b)
      BY <2>1, <1>7
    <3>3. /\ OpenedTo(table[i].id, b) # Unused
          /\ OpenedTo(table[i].id, b).to = table[i].id
          /\ OpenedTo(table[i].id, b).aspect = b
      BY DEF OpenedTo, Unused
    <3> QED
      BY <3>1, <3>2, <3>3
  <2>2. CASE ~(b = a /\ i \in opening)
    <3>1. table'[i].link[b] = table[i].link[b] /\ table[i].link[b] \in LinkId
      <4>1. table'[i].link[b] = table[i].link[b]
        BY <2>2, <1>6
      <4>2. table[i].link[b] \in LinkId \cup {None}
        BY Entries DEF IInv, TypeOK
      <4> QED
        BY <4>1, <4>2
    <3>2. /\ links[table[i].link[b]] # Unused
          /\ links[table[i].link[b]].to = table[i].id
          /\ links[table[i].link[b]].aspect = b
      BY <3>1 DEF IInv, LinksBelong
    <3> QED
      BY <3>1, <3>2, <1>6, <1>9
  <2> QED
    BY <2>1, <2>2
<1>13. ClockType' /\ SentToTable'
  BY <1>3 DEF IInv, TypeOK, ClockType, linking, announcing, SentToTable, Nothing
<1>14. IInv'
  BY <1>3, <1>10, <1>11, <1>12, <1>13, NodeUnchanged DEF IInv, TypeOK, linking
<1>15. SamePeers
  BY <1>6, <1>10 DEF SamePeers
<1> QED
  BY <1>6, <1>9, <1>14, <1>15

\* The poll counter, kept modulo the interval.
LEMMA NextTick ==
  ASSUME ClockType
  PROVE  (tick + 1) % Interval = IF tick + 1 = Interval THEN 0 ELSE tick + 1
  BY IntervalAssumption DEF ClockType

\* The entry of a live peer ages with the peer: it is no older than Interval,
\* so its age has not saturated.
LEMMA PollStep ==
  ASSUME IInv, Poll
  PROVE  /\ IInv' /\ SamePeers
         /\ \A i \in Slots : table'[i].link = table[i].link
<1>1. /\ Timely
      /\ tick' = (tick + 1) % Interval
      /\ table' = [i \in Slots |->
                     [table[i] EXCEPT !.age = IF @ < MaxAge THEN @ + 1 ELSE @]]
      /\ quiet' = [p \in Live |-> IF node.hears THEN quiet[p] + 1 ELSE quiet[p]]
      /\ \/ node.open /\ silence' = 0 /\ missed' = 0
         \/ /\ node.open /\ AnnounceDue(tick') /\ missed < MaxMissed
            /\ silence' = silence + 1 /\ missed' = missed + 1
         \/ node.open /\ ~AnnounceDue(tick') /\ silence' = silence + 1 /\ missed' = missed
         \/ ~node.open /\ silence' = silence /\ missed' = missed
      /\ out' = Nothing /\ UNCHANGED <<node, stored, links>>
  BY DEF Poll
<1>2. tick' = IF tick + 1 = Interval THEN 0 ELSE tick + 1
  BY <1>1, NextTick DEF IInv, TypeOK
<1>3. ClockType' /\ SilenceInStep'
  <2>1. /\ tick \in 0..(Interval - 1) /\ silence \in Nat /\ missed \in 0..MaxMissed
        /\ quiet \in [Live -> 0..Interval]
    BY DEF IInv, TypeOK, ClockType
  <2>2. /\ Interval * missed \in Nat /\ Interval * 0 = 0
        /\ Interval * (missed + 1) = Interval * missed + Interval
    BY <2>1, IntervalAssumption, MissedAssumption
  <2>3. quiet' \in [Live -> 0..Interval]
    BY <1>1, <2>1, IntervalAssumption DEF Timely
  <2>4. ClockType'
    BY <1>1, <1>2, <2>1, <2>3, IntervalAssumption, MissedAssumption DEF ClockType
  <2>5. SilenceInStep /\ node' = node
    BY <1>1 DEF IInv
  <2>6. CASE node.open /\ silence' = 0 /\ missed' = 0
    BY <1>2, <2>1, <2>2, <2>4, <2>5, <2>6, IntervalAssumption DEF SilenceInStep
  <2>7. CASE /\ node.open /\ AnnounceDue(tick')
             /\ silence' = silence + 1 /\ missed' = missed + 1
    <3>1. tick + 1 = Interval /\ tick' = 0
      BY <1>2, <2>1, <2>7, IntervalAssumption DEF AnnounceDue
    <3> QED
      BY <2>1, <2>2, <2>4, <2>5, <2>7, <3>1, IntervalAssumption DEF SilenceInStep
  <2>8. CASE node.open /\ ~AnnounceDue(tick') /\ silence' = silence + 1 /\ missed' = missed
    <3>1. tick' = tick + 1
      BY <1>2, <2>1, <2>8, IntervalAssumption DEF AnnounceDue
    <3> QED
      BY <2>1, <2>2, <2>4, <2>5, <2>8, <3>1, IntervalAssumption DEF SilenceInStep
  <2>9. CASE ~node.open /\ silence' = silence /\ missed' = missed
    BY <2>4, <2>5, <2>9 DEF SilenceInStep
  <2> QED
    BY <1>1, <2>4, <2>6, <2>7, <2>8, <2>9
<1>4. \A i \in Slots :
        /\ table'[i] \in PeerEntry
        /\ table'[i].id = table[i].id /\ table'[i].link = table[i].link
        /\ table'[i].age = IF table[i].age < MaxAge THEN table[i].age + 1 ELSE table[i].age
  <2> SUFFICES ASSUME NEW i \in Slots
               PROVE  /\ table'[i] \in PeerEntry
                      /\ table'[i].id = table[i].id /\ table'[i].link = table[i].link
                      /\ table'[i].age = IF table[i].age < MaxAge THEN table[i].age + 1
                                         ELSE table[i].age
    OBVIOUS
  <2> DEFINE older == IF table[i].age < MaxAge THEN table[i].age + 1 ELSE table[i].age
  <2>1. table[i] \in PeerEntry
    BY Entries DEF IInv, TypeOK
  <2>2. older \in 0..MaxAge
    BY <2>1, IntervalAssumption DEF PeerEntry, MaxAge
  <2>3. table'[i] = [table[i] EXCEPT !.age = older]
    BY <1>1
  <2> HIDE DEF older
  <2>4. /\ table'[i] \in PeerEntry /\ table'[i].age = older
        /\ table'[i].id = table[i].id /\ table'[i].link = table[i].link
    BY <2>1, <2>2, <2>3 DEF PeerEntry
  <2> QED
    BY <2>4 DEF older
<1>5. /\ table' \in Seq(PeerEntry) /\ Len(table') = Len(table)
      /\ DOMAIN table' = DOMAIN table
  <2>1. table' = [i \in DOMAIN table |-> table'[i]]
    BY <1>1 DEF Slots
  <2>2. table \in Seq(PeerEntry)
    BY DEF IInv, TypeOK, TableType
  <2>3. \A i \in DOMAIN table : table'[i] \in PeerEntry
    BY <1>4 DEF Slots
  <2> QED
    BY <2>1, <2>2, <2>3, SeqOfDomain
<1>6. TableType' /\ Slots' = Slots
  BY <1>5 DEF IInv, TypeOK, TableType, Slots
<1>7. DistinctPeers' /\ LinksBelong' /\ LinksType'
  <2>1. DistinctPeers'
    BY <1>4, <1>6 DEF IInv, DistinctPeers
  <2>2. LinksBelong'
    <3>1. \A i \in Slots, a \in Aspect : Belongs(table[i], a, links)
      BY BelongsAll DEF IInv
    <3>2. ASSUME NEW i \in Slots, NEW a \in Aspect
          PROVE  Belongs(table'[i], a, links')
      <4>1. links' = links /\ table'[i].id = table[i].id /\ table'[i].link = table[i].link
        BY <1>1, <1>4
      <4> QED
        BY <3>1, <4>1, BelongsStill
    <3> QED
      BY <1>6, <3>2, BelongsAll
  <2>3. LinksType'
    BY <1>1 DEF IInv, TypeOK, LinksType
  <2> QED
    BY <2>1, <2>2, <2>3
<1>8. AgeIsQuiet'
  <2> SUFFICES ASSUME NEW i \in Slots, table[i].id \in Live
               PROVE  table'[i].age = quiet[table[i].id] + 1
    <3>1. Slots # {} => \A p \in Live : quiet'[p] = quiet[p] + 1
      BY <1>1 DEF IInv, Listening
    <3>2. \A i \in Slots : table'[i].id = table[i].id
      BY <1>4
    <3> QED
      BY <1>6, <3>1, <3>2 DEF AgeIsQuiet
  <2>1. /\ table[i].age = quiet[table[i].id]
        /\ quiet[table[i].id] \in 0..Interval /\ quiet[table[i].id] < Interval
    BY <1>1 DEF IInv, TypeOK, ClockType, AgeIsQuiet, Timely
  <2> QED
    BY SMTT(30), <1>4, <2>1, IntervalAssumption DEF MaxAge
<1>9. NodeType' /\ IdentityKept' /\ SentToTable' /\ Listening'
  BY <1>1, <1>6 DEF IInv, TypeOK, NodeType, IdentityKept, SentToTable, Listening
<1>10. IInv'
  BY <1>3, <1>6, <1>7, <1>8, <1>9 DEF IInv, TypeOK
<1> QED
  BY <1>4, <1>6, <1>10 DEF SamePeers

\* Every step preserves the inductive invariant.
LEMMA NextIInv ==
  ASSUME IInv, [Next]_vars
  PROVE  IInv'
<1>1. CASE Configure \/ IdentityInit \/ StartWithoutIdentity \/ InitializeComms
  BY <1>1, IdentityStep
<1>2. CASE Start \/ StartThrows
  BY <1>2, StartStep
<1>3. CASE Reboot
  BY <1>3, RebootStep
<1>4. ASSUME NEW p \in Peer, ReceivedAnnounce(p)
      PROVE  IInv'
  BY <1>4, AnnounceStep
<1>5. ASSUME NEW l \in LinkId, LinkProgress(l) \/ LinkClosed(l)
      PROVE  IInv'
  BY <1>5, LinkProgressStep, LinkClosedStep
<1>6. ASSUME NEW a \in Aspect, Shed(a) \/ \E size \in Size : SendPackets(a, size)
      PROVE  IInv'
  BY <1>6, QuietSendStep
<1>7. ASSUME NEW a \in Aspect, NEW size \in Size, SendResources(a, size)
      PROVE  IInv'
  BY <1>7, SendResourcesStep
<1>8. CASE Poll
  BY <1>8, PollStep
<1>9. CASE UNCHANGED vars
  <2>1. UNCHANGED <<node, stored, announcing>> /\ UNCHANGED radio /\ UNCHANGED out
    BY <1>9 DEF vars, radio, announcing
  <2>2. RadioInv'
    BY <2>1, RadioUnchanged DEF IInv, TypeOK, RadioInv
  <2>3. SentToTable'
    BY <1>9 DEF vars, IInv, SentToTable, Addressees, Slots
  <2> QED
    BY <1>9, <2>1, <2>2, <2>3, NodeUnchanged DEF IInv, TypeOK, RadioInv, vars, Slots
<1> QED
  BY <1>1, <1>2, <1>3, <1>4, <1>5, <1>6, <1>7, <1>8, <1>9 DEF Next

-----------------------------------------------------------------------------
(* What the invariant implies *)

LEMMA Invariance == Spec => []IInv
<1>1. IInv /\ [Next]_vars => IInv'
  BY NextIInv
<1> QED
  BY <1>1, InitIInv, PTL DEF Spec

(***************************************************************************)
(* The type invariant: PeerTable::add keeps the table within kMaxPeers and *)
(* every handler keeps its entries and links well formed.                  *)
(***************************************************************************)
THEOREM TypeCorrect == Spec => []TypeOK
<1>1. IInv => TypeOK
  BY DEF IInv
<1> QED
  BY <1>1, Invariance, PTL

(***************************************************************************)
(* A cached link is open and leads to the peer of its slot: what           *)
(* teardown_links, onLinkClosed and sendViaResource do to the cache is     *)
(* enough for sendViaResource never to use another peer's link.            *)
(***************************************************************************)
THEOREM CachedLinksBelong == Spec => []LinksBelong
<1>1. IInv => LinksBelong
  BY DEF IInv
<1> QED
  BY <1>1, Invariance, PTL

(***************************************************************************)
(* sendToAllPeers addresses each known peer exactly once, whatever the     *)
(* size of the table: announces leave one entry per identity.              *)
(***************************************************************************)
THEOREM FanOutReachesAll == Spec => []FanOutComplete
<1>1. IInv => FanOutComplete
  <2> SUFFICES ASSUME IInv, out.kind = "packets"
               PROVE  Range(out.to) = {table[i].id : i \in Slots} /\ IsInjective(out.to)
    BY DEF FanOutComplete
  <2>1. out # Nothing
    BY DEF Nothing
  <2>2. out.to = [i \in Slots |-> table[i].id]
    BY <2>1 DEF IInv, SentToTable, Addressees
  <2>3. Range(out.to) = {table[i].id : i \in Slots}
    BY <2>2 DEF Range
  <2>4. IsInjective(out.to)
    BY <2>2 DEF IsInjective, IInv, DistinctPeers
  <2> QED
    BY <2>3, <2>4
<1> QED
  BY <1>1, Invariance, PTL

\* Whole blocks of 16: less than q of them, rounded up, are at most q.
LEMMA Padding ==
  ASSUME NEW n \in Nat, NEW q \in Nat, n < q * 16
  PROVE  (n \div 16 + 1) * 16 <= q * 16
  OBVIOUS

LEMMA WholeBlocks ==
  ASSUME NEW n \in Nat
  PROVE  n \div 16 \in Nat /\ (n \div 16) * 16 <= n /\ (n >= 16 => n \div 16 >= 1)
  OBVIOUS

(***************************************************************************)
(* For every MTU with room for one block, a payload that                   *)
(* single_packet_payload_ceiling lets into a packet fits the radio once it *)
(* is padded and encrypted.                                                *)
(***************************************************************************)
THEOREM PacketsFitRadio == Spec => []PacketsFit
<1>1. IInv => PacketsFit
  <2> SUFFICES ASSUME IInv, out.kind = "packets", Mtu >= Header + Crypto + Block
               PROVE  WireSize(out.size) <= Mtu
    BY DEF PacketsFit
  <2>1. out # Nothing
    BY DEF Nothing
  <2>2. PICK size \in Size :
          /\ size <= SinglePacketPayloadCeiling
          /\ out = [kind |-> "packets", size |-> size, to |-> Addressees]
    BY <2>1 DEF IInv, SentToTable
  <2> DEFINE room == Mtu - 116
             q == room \div 16
  <2>3. size \in Nat /\ out.size = size /\ Mtu \in Nat /\ Mtu >= 132
    BY <2>2, SizeAssumption, MtuAssumption DEF Header, Crypto, Block
  <2>4. room \in Nat /\ room >= 16
    BY <2>3
  <2>5. q \in Nat /\ q * 16 <= room /\ q >= 1
    BY <2>4, WholeBlocks
  <2>6. SinglePacketPayloadCeiling = q * 16 - 1
    <3>1. (Mtu - Header - Crypto) = room /\ ~(Mtu <= Header + Crypto)
      BY <2>3 DEF Header, Crypto
    <3>2. SinglePacketPayloadCeiling = IF q * 16 = 0 THEN SizeMax ELSE q * 16 - 1
      BY <3>1 DEF SinglePacketPayloadCeiling, Block
    <3> HIDE DEF q
    <3> QED
      BY <2>5, <3>2
  <2> HIDE DEF q
  <2>7. (size \div 16 + 1) * 16 <= q * 16
    BY <2>2, <2>3, <2>5, <2>6, Padding
  <2>8. WireSize(size) = 116 + (size \div 16 + 1) * 16
    BY DEF WireSize, Header, Crypto, Block
  <2>9. (size \div 16 + 1) * 16 \in Nat
    BY <2>3, WholeBlocks
  <2> QED
    BY <2>3, <2>5, <2>7, <2>8, <2>9
<1> QED
  BY <1>1, Invariance, PTL

(***************************************************************************)
(* The silence of a node whose destination is open stays below one         *)
(* interval for every announce in a row that threw, and one more: the      *)
(* counter restarts nowhere but at a reboot, which closes the destination, *)
(* and a start that throws leaves it where it was.                         *)
(***************************************************************************)
THEOREM AnnouncedInTime == Spec => []AnnouncesInTime
<1>1. ASSUME IInv
      PROVE  AnnouncesInTime
  <2>1. tick \in 0..(Interval - 1) /\ silence \in Nat /\ missed \in Nat /\ SilenceInStep
    BY <1>1, MissedAssumption DEF IInv, TypeOK, ClockType
  <2>2. Interval * missed \in Nat /\ Interval * (missed + 1) = Interval * missed + Interval
    BY <2>1, IntervalAssumption
  <2> QED
    BY <2>1, <2>2, IntervalAssumption DEF SilenceInStep, AnnouncesInTime
<1> QED
  BY <1>1, Invariance, PTL

-----------------------------------------------------------------------------
(* What no step does *)

(***************************************************************************)
(* Once a key has been saved, identity_init and start load it and nothing  *)
(* overwrites it: the node id survives any reboots.                        *)
(***************************************************************************)
THEOREM NodeIdKept == Spec => NodeIdStable
<1>1. ASSUME IInv, Next, stored # None
      PROVE  stored' = stored
  <2>1. CASE Configure \/ IdentityInit \/ StartWithoutIdentity \/ InitializeComms
    BY <1>1, <2>1, IdentityStep
  <2>2. CASE Start \/ StartThrows
    BY <1>1, <2>2, StartStep
  <2>3. CASE Reboot \/ Poll
    BY <2>3 DEF Reboot, Poll
  <2>4. CASE \E p \in Peer : ReceivedAnnounce(p)
    BY <2>4 DEF ReceivedAnnounce
  <2>5. CASE \E l \in LinkId : LinkProgress(l) \/ LinkClosed(l)
    BY <2>5 DEF LinkProgress, LinkClosed, linking
  <2>6. CASE \E a \in Aspect :
               \/ Shed(a)
               \/ \E size \in Size : SendPackets(a, size) \/ SendResources(a, size)
    BY <2>6 DEF Shed, SendPackets, SendResources, linking
  <2> QED
    BY <1>1, <2>1, <2>2, <2>3, <2>4, <2>5, <2>6 DEF Next
<1>2. IInv /\ IInv' /\ [Next]_vars =>
        [stored # None => stored' = stored /\ node'.identity \in {None, stored}]_vars
  BY <1>1 DEF IInv, IdentityKept
<1> QED
  BY <1>2, Invariance, PTL DEF Spec, NodeIdStable

\* What PeerTable::add takes out of the table: a peer only from a slot heard
\* longest ago, an active link only by tearing it down.
LEMMA Evicted ==
  ASSUME IInv, NEW p \in Peer, PeerTableAdd(p)
  PROVE  /\ \A q \in Peer :
              InTable(q) /\ ~InTable(q)' => \E i \in Longest : table[i].id = q
         /\ \A l \in LinkId :
              Cached(l) /\ ~Cached(l)' /\ links[l].status = "ACTIVE" => links'[l] = Unused
<1>0. TableType /\ Slots = 1..Len(table) /\ \A i \in Slots : table[i] \in PeerEntry
  BY Entries DEF IInv, TypeOK
<1> DEFINE Kept(i) == i \in Slots' /\ table'[i].id = table[i].id /\ table'[i].link = table[i].link
<1>1. ASSUME \A i \in Slots : Kept(i)
      PROVE  /\ \A q \in Peer : InTable(q) => InTable(q)'
             /\ \A l \in LinkId : Cached(l) => Cached(l)'
  BY <1>1 DEF InTable, SlotsOf, Cached
<1>2. ASSUME NEW i \in SlotsOf(p), table' = [table EXCEPT ![i].age = 0]
      PROVE  \A j \in Slots : Kept(j)
  <2>1. i \in Slots
    BY DEF SlotsOf
  <2> QED
    BY <1>0, <1>2, <2>1 DEF Slots, PeerEntry
<1>3. ASSUME table' = Append(table, NewPeer(p))
      PROVE  \A j \in Slots : Kept(j)
  <2>1. /\ DOMAIN table' = 1..(Len(table) + 1)
        /\ \A j \in 1..Len(table) : table'[j] = table[j]
    BY <1>0, <1>3, NewEntry, SeqAppend DEF TableType
  <2>2. Slots = 1..Len(table) /\ Len(table) \in Nat
    BY <1>0, Entries
  <2>3. \A j \in Slots : j \in Slots' /\ table'[j] = table[j]
    BY <2>1, <2>2 DEF Slots
  <2> QED
    BY <2>3
<1>4. ASSUME NEW i \in OldestSlots, links' = Closed(TornDown(i)), table' = PeerIntoSlot(p, i)
      PROVE  /\ \A q \in Peer :
                  InTable(q) /\ ~InTable(q)' => \E j \in Longest : table[j].id = q
             /\ \A l \in LinkId :
                  Cached(l) /\ ~Cached(l)' /\ links[l].status = "ACTIVE" => links'[l] = Unused
  <2>1. i \in Slots /\ i \in Longest
    BY DEF OldestSlots, Longest
  <2>2. \A j \in Slots : j # i => Kept(j)
    BY <1>0, <1>4, <2>1, NewEntry, SeqReplace DEF TableType, PeerIntoSlot, Slots
  <2>3. \A q \in Peer : InTable(q) /\ ~InTable(q)' => table[i].id = q
    BY <2>2 DEF InTable, SlotsOf
  <2>4. \A l \in LinkId : Cached(l) /\ ~Cached(l)' => \E a \in Aspect : table[i].link[a] = l
    BY <2>2 DEF Cached
  <2>5. \A l \in LinkId :
          Cached(l) /\ ~Cached(l)' /\ links[l].status = "ACTIVE" => links'[l] = Unused
    BY <1>4, <2>4 DEF Closed, TornDown
  <2> QED
    BY <2>1, <2>3, <2>5
<1> HIDE DEF Kept
<1> QED
  BY <1>1, <1>2, <1>3, <1>4 DEF PeerTableAdd

\* The steps that neither add nor evict a peer.
LEMMA TableKept ==
  ASSUME IInv, Next, ~Reboot, \A p \in Peer : ~ReceivedAnnounce(p)
  PROVE  SamePeers
<1>1. CASE \/ Configure \/ IdentityInit \/ Start \/ StartWithoutIdentity \/ StartThrows
           \/ InitializeComms
  BY Zenon, <1>1 
  DEF Configure, IdentityInit, Start, StartWithoutIdentity, StartThrows, InitializeComms, radio, SamePeers, Slots
<1>2. ASSUME NEW l \in LinkId, LinkProgress(l)
      PROVE  SamePeers
  BY <1>2 DEF LinkProgress, SamePeers, Slots
<1>3. ASSUME NEW l \in LinkId, LinkClosed(l)
      PROVE  SamePeers
  BY <1>3, LinkClosedStep
<1>4. ASSUME NEW a \in Aspect, Shed(a) \/ \E size \in Size : SendPackets(a, size)
      PROVE  SamePeers
  BY <1>4 DEF Shed, SendPackets, radio, SamePeers, Slots
<1>5. ASSUME NEW a \in Aspect, NEW size \in Size, SendResources(a, size)
      PROVE  SamePeers
  BY <1>5, SendResourcesStep
<1>6. CASE Poll
  BY <1>6, PollStep
<1> QED
  BY SMTT(30), <1>1, <1>2, <1>3, <1>4, <1>5, <1>6 DEF Next

(***************************************************************************)
(* A live peer is evicted only while no entry of the table is older than   *)
(* the announce interval, whatever its size: a live peer's own entry is    *)
(* never older, and PeerTable::add evicts an entry that is the oldest.     *)
(***************************************************************************)
THEOREM GhostsEvictedFirst == Spec => GhostsGoFirst
<1>1. ASSUME IInv, Next, NEW p \in Live, InTable(p), ~InTable(p)', node'.open, NEW i \in Slots
      PROVE  table[i].age <= Interval
  <2>1. ~Reboot
    BY <1>1 DEF Reboot, Off
  <2>2. ~SamePeers
    BY <1>1 DEF SamePeers, InTable, SlotsOf
  <2>3. PICK q \in Peer : ReceivedAnnounce(q)
    BY <1>1, <2>1, <2>2, TableKept
  <2>4. PICK j \in Longest : table[j].id = p
    BY <1>1, <2>3, Evicted DEF ReceivedAnnounce, Peer
  <2>5. table[j].age = quiet[p] /\ quiet[p] \in 0..Interval
    BY <1>1, <2>4 DEF IInv, TypeOK, ClockType, AgeIsQuiet, Longest
  <2>6. table[i].age <= table[j].age /\ table[i].age \in 0..MaxAge
    BY <1>1, <2>4, Entries DEF Longest, IInv, TypeOK
  <2> QED
    BY <2>5, <2>6, IntervalAssumption DEF MaxAge
<1>2. IInv /\ [Next]_vars =>
        [\A p \in Live :
           InTable(p) /\ ~InTable(p)' /\ node'.open =>
             \A i \in Slots : table[i].age <= Interval]_vars
  BY <1>1
<1> QED
  BY <1>2, Invariance, PTL DEF Spec, GhostsGoFirst

(***************************************************************************)
(* An active link leaves the table only by being torn down or closed:      *)
(* eviction tears it down, and sendViaResource replaces only a stale one.  *)
(***************************************************************************)
THEOREM TransfersConcluded == Spec => NoOrphanedTransfer
<1> DEFINE Lost(l) == Cached(l) /\ ~Cached(l)' /\ links[l].status = "ACTIVE"
<1>1. ASSUME IInv, Next, NEW l \in LinkId, Lost(l)
      PROVE  links'[l] = Unused
  <2>1. CASE UNCHANGED table
    BY SMTT(30), <1>1, <2>1 DEF Cached, Slots
  <2>2. CASE \/ Configure \/ IdentityInit \/ Start \/ StartWithoutIdentity \/ StartThrows
           \/ InitializeComms
    BY Zenon, <2>1, <2>2 
  DEF Configure, IdentityInit, Start, StartWithoutIdentity, StartThrows, InitializeComms, radio
  <2>3. CASE Reboot
    BY <2>3 DEF Reboot
  <2>4. ASSUME NEW p \in Peer, ReceivedAnnounce(p)
        PROVE  links'[l] = Unused
    BY <1>1, <2>4, Evicted DEF ReceivedAnnounce
  <2>5. ASSUME NEW k \in LinkId, LinkProgress(k)
        PROVE  links'[l] = Unused
    BY <2>1, <2>5 DEF LinkProgress
  <2>6. ASSUME NEW k \in LinkId, LinkClosed(k)
        PROVE  links'[l] = Unused
    <3>1. CASE l = k
      BY <1>1, <2>6, <3>1, LinkClosedStep
    <3>2. CASE l # k
      <4>1. PICK i \in Slots, a \in Aspect : table[i].link[a] = l
        BY <1>1 DEF Cached
      <4>2. i \in Slots' /\ table'[i].link[a] = l
        BY SMTT(30), <1>1, <2>6, <3>2, <4>1, LinkClosedStep DEF SamePeers
      <4> QED
        BY <1>1, <4>2 DEF Cached
    <3> QED
      BY <3>1, <3>2
  <2>7. ASSUME NEW a \in Aspect, Shed(a) \/ \E size \in Size : SendPackets(a, size)
        PROVE  links'[l] = Unused
    BY <2>1, <2>7 DEF Shed, SendPackets, radio
  <2>8. ASSUME NEW a \in Aspect, NEW size \in Size, SendResources(a, size)
        PROVE  links'[l] = Unused
    <3>1. PICK i \in Slots, b \in Aspect : table[i].link[b] = l
      BY <1>1 DEF Cached
    <3>2. ~NeedsLink(i, b)
      BY <1>1, <3>1, NoneAssumption DEF NeedsLink
    <3>3. i \in Slots' /\ table'[i].link[b] = l
      BY <1>1, <2>8, <3>1, <3>2, SendResourcesStep DEF SamePeers
    <3> QED
      BY <1>1, <3>3 DEF Cached
  <2>9. CASE Poll
    <3>1. PICK i \in Slots, b \in Aspect : table[i].link[b] = l
      BY <1>1 DEF Cached
    <3>2. i \in Slots' /\ table'[i].link[b] = l
      BY <1>1, <2>9, <3>1, PollStep DEF SamePeers
    <3> QED
      BY <1>1, <3>2 DEF Cached
  <2> QED
    BY <1>1, <2>2, <2>3, <2>4, <2>5, <2>6, <2>7, <2>8, <2>9 DEF Next
<1>2. IInv /\ [Next]_vars =>
        [\A l \in LinkId :
           Cached(l) /\ links[l] # Unused /\ ~Cached(l)' =>
             (links[l].status = "ACTIVE" => links'[l] = Unused)]_vars
  BY <1>1
<1> QED
  BY <1>2, Invariance, PTL DEF Spec, NoOrphanedTransfer
=============================================================================
