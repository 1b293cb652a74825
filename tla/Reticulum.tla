----------------------------- MODULE Reticulum -----------------------------
(***************************************************************************)
(* One node's mesh transport: its identity and how it survives a reboot,   *)
(* the bounded table of peers fed by announces, the links cached in it for *)
(* payloads too large for a packet, and the fan-out of a send to every     *)
(* peer.                                                                   *)
(*                                                                         *)
(* Peers, the radio and microReticulum are the environment: they announce, *)
(* deliver, establish, lose and close links at will, all of it from within *)
(* a poll.  A poll counts when it gets to advance g_poll_tick_count: one   *)
(* whose loop() throws leaves everything as it was.  An age is             *)
(* g_poll_tick_count - last_seen_tick, which saturates at MaxAge.          *)
(* Counters and log lines are left out.                                    *)
(***************************************************************************)
EXTENDS Naturals, Sequences, Functions

CONSTANTS Live,     \* peers that announce at least once every Interval polls
          Other,    \* identities that come, go and fall silent as they like
          MaxPeers, \* kMaxPeers
          Interval, \* kAnnounceIntervalTicks
          MaxMissed, \* bound on the announces in a row that throw
          LinkId,   \* bound on the links open at a time
          Key,      \* keys the seeded RNG may draw
          Size,     \* payload sizes
          Mtu,      \* radio_mtu
          None

ASSUME PeerAssumption == MaxPeers \in Nat \ {0} /\ Live \cap Other = {}
ASSUME IntervalAssumption == Interval \in Nat \ {0}
ASSUME MissedAssumption == MaxMissed \in Nat
ASSUME MtuAssumption == Mtu \in Nat \* the MTU in effect: 500 if radio_mtu is 0
ASSUME SizeAssumption == Size \subseteq Nat
ASSUME NoneAssumption == None \notin LinkId \cup Key

VARIABLES
  node,    \* configured, identity, loop (g_reticulum), open (g_destination),
           \* hears (the announce handlers are registered), comms
  stored,  \* the identity key in the host's storage
  tick,    \* g_poll_tick_count modulo Interval
  silence, \* polls since this node opened its destination or last announced
  missed,  \* announces in a row that were due and threw
  quiet,   \* polls since each live peer announced, while this node listens
  table,   \* g_peers
  links,   \* the links this node opened
  out      \* the packets the last step sent

vars == <<node, stored, tick, silence, missed, quiet, table, links, out>>

Peer == Live \cup Other
Aspect == {"fleece", "control"}
MaxAge == Interval + 1

Unused == [status |-> "UNUSED"]
OpenedTo(p, a) == [status |-> "PENDING", to |-> p, aspect |-> a]
Nothing == [kind |-> "nothing"]

Off == [configured |-> FALSE, identity |-> None, loop |-> FALSE, open |-> FALSE,
        hears |-> FALSE, comms |-> FALSE]

PoweredOn ==
  /\ node = Off
  /\ tick = 0 /\ silence = 0 /\ missed = 0
  /\ quiet = [p \in Live |-> 0]
  /\ table = <<>>
  /\ links = [l \in LinkId |-> Unused]
  /\ out = Nothing

Init == PoweredOn /\ stored = None
-----------------------------------------------------------------------------
(***************************************************************************)
(* Identity and start.                                                     *)
(***************************************************************************)
announcing == <<tick, silence, missed>>
radio == <<announcing, quiet, table, links>>

Configure ==
  /\ node' = [node EXCEPT !.configured = TRUE]
  /\ out' = Nothing
  /\ UNCHANGED <<stored, radio>>

\* Mutant: a key is generated although one is stored.
KeyGenerated(k, saved) == k \in Key /\ (saved = k \/ saved = stored)

(***************************************************************************)
(* The key k in use after identity_init, and what storage holds then: the  *)
(* key loaded, or one drawn from the seeded RNG, whose save may fail.  The *)
(* load hook is taken at its word, that false means "nothing has been      *)
(* stored yet (first boot)": one that fails on a key it holds has the key  *)
(* overwritten.                                                            *)
(***************************************************************************)
LoadOrGenerate(k, saved) ==
  \/ stored # None /\ k = stored /\ saved = stored
  \/ stored = None /\ k \in Key /\ saved \in {k, None}

\* A second call finds the identity ready and changes nothing.
IdentityInit ==
  /\ node.configured /\ node.identity = None
  /\ \E k \in Key, saved \in Key \cup {None} :
       /\ LoadOrGenerate(k, saved)
       /\ node' = [node EXCEPT !.identity = k]
       /\ stored' = saved
  /\ out' = Nothing
  /\ UNCHANGED radio

\* identity_init as start calls it: it may have run before.
HaveIdentity(k, saved) ==
  IF node.identity = None THEN LoadOrGenerate(k, saved)
  ELSE k = node.identity /\ saved = stored

\* identity_init, both destinations opened and announced.
Start ==
  /\ node.configured
  /\ \E k \in Key, saved \in Key \cup {None} :
       /\ HaveIdentity(k, saved)
       /\ node' = [node EXCEPT !.identity = k, !.loop = TRUE, !.open = TRUE, !.hears = TRUE]
       /\ stored' = saved
  /\ silence' = 0 /\ missed' = 0
  /\ out' = Nothing
  /\ UNCHANGED <<tick, quiet, table, links>>

\* Without an identity start fails, but the loop was started before.
StartWithoutIdentity ==
  /\ node.configured /\ node.identity = None
  /\ \E looping \in {node.loop, TRUE} : node' = [node EXCEPT !.loop = looping]
  /\ out' = Nothing
  /\ UNCHANGED <<stored, radio>>

(***************************************************************************)
(* Start throws once it has the identity: before the destination is open,  *)
(* before the handlers are registered, or with neither or only the first   *)
(* of the destinations announced.  What it set so far stays.               *)
(***************************************************************************)
StartThrows ==
  /\ node.configured
  /\ \E k \in Key, saved \in Key \cup {None},
        open \in {node.open, TRUE}, hears \in {node.hears, TRUE}, announced \in BOOLEAN :
       /\ HaveIdentity(k, saved)
       /\ hears => open
       /\ announced => hears
       /\ node' = [node EXCEPT !.identity = k, !.loop = TRUE, !.open = open, !.hears = hears]
       /\ stored' = saved
       /\ silence' = IF announced THEN 0 ELSE silence
       /\ missed' = IF announced THEN 0 ELSE missed
  /\ out' = Nothing
  /\ UNCHANGED <<tick, quiet, table, links>>

\* fleece_comms_initialize; the comms are closed when they are destroyed.
InitializeComms ==
  /\ ~node.comms
  /\ node' = [node EXCEPT !.comms = TRUE]
  /\ out' = Nothing
  /\ UNCHANGED <<stored, radio>>

\* Everything but the host's storage is lost.
Reboot ==
  /\ node # Off
  /\ node' = Off
  /\ tick' = 0 /\ silence' = 0 /\ missed' = 0
  /\ quiet' = [p \in Live |-> 0]
  /\ table' = <<>>
  /\ links' = [l \in LinkId |-> Unused]
  /\ out' = Nothing
  /\ UNCHANGED stored
-----------------------------------------------------------------------------
(***************************************************************************)
(* The peer table.                                                         *)
(***************************************************************************)
NewPeer(p) == [id |-> p, age |-> 0, link |-> [a \in Aspect |-> None]]

Slots == DOMAIN table

Longest == {i \in Slots : \A j \in Slots : table[j].age <= table[i].age}

\* Mutant: the first entry makes room, whenever it was heard.
FirstSlot == {i \in Slots : i = 1}

\* The first of the entries heard longest ago.  Ages that are saturated do
\* not tell which it is.
OldestSlots ==
  {i \in Longest : table[i].age = MaxAge \/ \A j \in Longest : i <= j}

\* Mutant: only a link that is being set up is torn down.
HandshakesOf(slot) ==
  {l \in LinkId : /\ \E a \in Aspect : table[slot].link[a] = l
                  /\ links[l].status = "HANDSHAKE"}

\* teardown_links closes these; the others are forgotten.
TornDown(slot) ==
  {l \in LinkId : /\ \E a \in Aspect : table[slot].link[a] = l
                  /\ links[l].status \in {"HANDSHAKE", "ACTIVE"}}

Closed(ls) == [l \in LinkId |-> IF l \in ls THEN Unused ELSE links[l]]

\* Mutant: the slot keeps the links of the peer evicted from it.
PeerIntoOldSlot(p, slot) == [table EXCEPT ![slot].id = p, ![slot].age = 0]

PeerIntoSlot(p, slot) == [table EXCEPT ![slot] = NewPeer(p)]

\* Mutant: the peer is looked for only when the table is full.
KnownIfFull(p) == {i \in Slots : Len(table) = MaxPeers /\ table[i].id = p}

\* The entry of a peer that is known already.
SlotsOf(p) == {i \in Slots : table[i].id = p}

HasRoom == Len(table) < MaxPeers

PeerTableAdd(p) ==
  \/ /\ \E i \in SlotsOf(p) : table' = [table EXCEPT ![i].age = 0]
     /\ UNCHANGED links
  \/ /\ SlotsOf(p) = {} /\ HasRoom
     /\ table' = Append(table, NewPeer(p))
     /\ UNCHANGED links
  \/ /\ SlotsOf(p) = {} /\ ~HasRoom
     /\ \E i \in OldestSlots :
          /\ links' = Closed(TornDown(i))
          /\ table' = PeerIntoSlot(p, i)

\* An announce of either destination, received while the stack is polled.
ReceivedAnnounce(p) ==
  /\ node.hears /\ node.comms
  /\ PeerTableAdd(p)
  /\ quiet' = [q \in Live |-> IF q = p THEN 0 ELSE quiet[q]]
  /\ out' = Nothing
  /\ UNCHANGED <<node, stored, announcing>>
-----------------------------------------------------------------------------
(***************************************************************************)
(* Links and transfers, driven by the stack.                               *)
(***************************************************************************)
linking == <<node, stored, announcing, quiet>>

Cached(l) == \E i \in Slots, a \in Aspect : table[i].link[a] = l

\* The stack moves a link on.  While it is active, transfers may be in flight.
LinkProgress(l) ==
  /\ node.comms
  /\ \E step \in {<<"PENDING", "HANDSHAKE">>, <<"HANDSHAKE", "ACTIVE">>,
                  <<"ACTIVE", "STALE">>, <<"STALE", "ACTIVE">>} :
       /\ links[l].status = step[1]
       /\ links' = [links EXCEPT ![l].status = step[2]]
  /\ out' = Nothing
  /\ UNCHANGED <<linking, table>>

\* onLinkClosed: the slot that cached the link forgets it.
LinkClosed(l) ==
  /\ node.comms /\ links[l] # Unused
  /\ links' = Closed({l})
  /\ table' = [i \in Slots |->
                 [table[i] EXCEPT !.link = [a \in Aspect |-> IF @[a] = l THEN None ELSE @[a]]]]
  /\ out' = Nothing
  /\ UNCHANGED linking

\* No link, or a stale one.  A closed link is never found in the cache: its
\* close and the callback that clears the cache are one step of the stack.
NeedsLink(i, a) ==
  \/ table[i].link[a] = None
  \/ links[table[i].link[a]].status = "STALE"

(***************************************************************************)
(* sendViaResource to the peers in slots 1..n, in order.  A peer without a *)
(* usable link gets a new one, and its payload is dropped; so is that of a *)
(* peer whose link is being set up.                                        *)
(***************************************************************************)
SendViaResource(n, a) ==
  LET opening == {i \in 1..n : NeedsLink(i, a)}
      free == {l \in LinkId : links[l] = Unused}
  IN  \E new \in Injection(opening, free) :
        /\ table' = [i \in Slots |->
                       IF i \in opening THEN [table[i] EXCEPT !.link[a] = new[i]]
                       ELSE table[i]]
        /\ links' = [l \in LinkId |->
                       IF \E i \in opening : new[i] = l
                       THEN OpenedTo(table[CHOOSE i \in opening : new[i] = l].id, a)
                       ELSE links[l]]
-----------------------------------------------------------------------------
(***************************************************************************)
(* Sending.                                                                *)
(***************************************************************************)
\* HEADER_MAXSIZE + IFAC_MIN_SIZE; FERNET_OVERHEAD + KEYSIZE / 16; AES block.
Header == 36
Crypto == 80
Block == 16

\* Mutant: no room is left for the padding of a full block.
UnpaddedCeiling == ((Mtu - Header - Crypto) \div Block) * Block

\* SIZE_MAX: more than any payload.
SizeMax == 2147483647

\* size_t arithmetic: with an MTU that leaves no room for a block, the last
\* subtraction wraps around.
SinglePacketPayloadCeiling ==
  LET room == ((Mtu - Header - Crypto) \div Block) * Block IN
  IF Mtu <= Header + Crypto THEN 0 ELSE IF room = 0 THEN SizeMax ELSE room - 1

\* The peers a packet is addressed to: a send that throws does not end it.
Addressees == [i \in Slots |-> table[i].id]

\* Gossip goes through FleeceComms, control messages do not.
MaySend(a) == a = "fleece" => node.comms

\* A packet for every peer.
SendPackets(a, size) ==
  /\ MaySend(a) /\ size <= SinglePacketPayloadCeiling
  /\ out' = [kind |-> "packets", size |-> size, to |-> Addressees]
  /\ UNCHANGED <<node, stored, radio>>

\* An oversized payload.  An exception ends the fan-out after n peers.
SendResources(a, size) ==
  /\ MaySend(a) /\ size > SinglePacketPayloadCeiling
  /\ \E n \in 0..Len(table) : SendViaResource(n, a)
  /\ out' = Nothing
  /\ UNCHANGED linking

\* The memory pool is nearly used up: nothing is sent to anybody.
Shed(a) ==
  /\ MaySend(a)
  /\ out' = Nothing
  /\ UNCHANGED <<node, stored, radio>>

\* Mutant: announced at start only.
NeverDue(t) == FALSE

AnnounceDue(t) == t = 0

\* Live peers are polling as well: none is silent for longer than Interval.
Timely == \A p \in Live : quiet[p] < Interval

(***************************************************************************)
(* A poll that advances the tick.  An announce that is due may throw, as   *)
(* with an exhausted memory pool, and the poll ends there: the counter has *)
(* advanced, so the next attempt is an interval away.  When the second     *)
(* destination's announce throws, the first one's is out.                  *)
(***************************************************************************)
Poll ==
  /\ node.comms /\ node.loop /\ Timely
  /\ tick' = (tick + 1) % Interval
  /\ table' = [i \in Slots |->
                 [table[i] EXCEPT !.age = IF @ < MaxAge THEN @ + 1 ELSE @]]
  /\ quiet' = [p \in Live |-> IF node.hears THEN quiet[p] + 1 ELSE quiet[p]]
  /\ \/ /\ node.open /\ AnnounceDue(tick')
        /\ silence' = 0 /\ missed' = 0
     \/ /\ node.open /\ AnnounceDue(tick') /\ missed < MaxMissed
        /\ silence' = silence + 1 /\ missed' = missed + 1
     \/ /\ node.open /\ ~AnnounceDue(tick')
        /\ silence' = silence + 1 /\ UNCHANGED missed
     \/ /\ ~node.open
        /\ UNCHANGED <<silence, missed>>
  /\ out' = Nothing
  /\ UNCHANGED <<node, stored, links>>

Next ==
  \/ Configure \/ IdentityInit \/ Start \/ StartWithoutIdentity \/ StartThrows
  \/ InitializeComms \/ Reboot
  \/ \E p \in Peer : ReceivedAnnounce(p)
  \/ \E l \in LinkId : LinkProgress(l) \/ LinkClosed(l)
  \/ \E a \in Aspect :
       \/ Shed(a)
       \/ \E size \in Size : SendPackets(a, size) \/ SendResources(a, size)
  \/ Poll

Spec == Init /\ [][Next]_vars
-----------------------------------------------------------------------------
PeerEntry == [id : Peer, age : 0..MaxAge, link : [Aspect -> LinkId \cup {None}]]

OpenLink ==
  [status : {"PENDING", "HANDSHAKE", "ACTIVE", "STALE"}, to : Peer, aspect : Aspect]

NodeType ==
  /\ node \in [configured : BOOLEAN, identity : Key \cup {None}, loop : BOOLEAN,
               open : BOOLEAN, hears : BOOLEAN, comms : BOOLEAN]
  /\ stored \in Key \cup {None}

ClockType ==
  /\ tick \in 0..(Interval - 1) /\ silence \in Nat /\ missed \in 0..MaxMissed
  /\ quiet \in [Live -> 0..Interval]

TableType == table \in Seq(PeerEntry) /\ Len(table) <= MaxPeers

LinksType == links \in [LinkId -> {Unused} \cup OpenLink]

TypeOK == NodeType /\ ClockType /\ TableType /\ LinksType

(***************************************************************************)
(* A link cached in a slot is open, and it leads to the peer in that slot, *)
(* to the destination it is cached for: neither an eviction nor a close    *)
(* nor a replaced stale link makes one peer's payload go to another.       *)
(***************************************************************************)
LinksBelong ==
  \A i \in Slots, a \in Aspect :
    LET l == table[i].link[a] IN
    l = None \/ (links[l] # Unused /\ links[l].to = table[i].id /\ links[l].aspect = a)

(***************************************************************************)
(* A transfer in flight is not silently orphaned: an active link leaves    *)
(* the table only by being torn down, which concludes the transfers on it  *)
(* as failed.  One that went stale is replaced in the table as it is.      *)
(***************************************************************************)
NoOrphanedTransfer ==
  [][\A l \in LinkId :
       Cached(l) /\ links[l] # Unused /\ ~Cached(l)' =>
         (links[l].status = "ACTIVE" => links'[l] = Unused)]_vars

(***************************************************************************)
(* A packet is addressed to every known peer, and to each of them once,    *)
(* whatever announces of either destination filled the table, and whatever *)
(* evictions: a second entry of a peer would double all it is sent.        *)
(***************************************************************************)
FanOutComplete ==
  out.kind = "packets" =>
    /\ Range(out.to) = {table[i].id : i \in Slots}
    /\ IsInjective(out.to)

\* What the padded and encrypted payload of a packet takes on the radio.
WireSize(size) == Header + Crypto + (size \div Block + 1) * Block

(***************************************************************************)
(* No packet exceeds the radio's MTU, up to the largest payload let        *)
(* through, given a radio that has room for one block of payload.          *)
(***************************************************************************)
PacketsFit ==
  out.kind = "packets" /\ Mtu >= Header + Crypto + Block => WireSize(out.size) <= Mtu

(***************************************************************************)
(* Once a key has been saved, the node keeps its id over any number of     *)
(* reboots, failed starts and repeated calls of identity_init.             *)
(***************************************************************************)
NodeIdStable ==
  [][stored # None => stored' = stored /\ node'.identity \in {None, stored}]_vars

(***************************************************************************)
(* A node whose destination is open is silent for less than                *)
(* kAnnounceIntervalTicks polls, and for one interval more for each        *)
(* announce in a row that threw since: a start that failed halfway and was *)
(* or was not repeated, and swallowed exceptions, cost no more than that.  *)
(* It is what peers rely on to tell the node from a ghost.                 *)
(***************************************************************************)
AnnouncesInTime == node.open => silence < Interval * (missed + 1)

InTable(p) == SlotsOf(p) # {}

(***************************************************************************)
(* A peer that keeps announcing does not make room for a newcomer while    *)
(* the table holds a ghost, an entry that was silent for longer than the   *)
(* announce interval.  Before a ghost is that old, a live peer can be      *)
(* "the oldest" and be evicted, until its next announce.                   *)
(***************************************************************************)
GhostsGoFirst ==
  [][\A p \in Live :
       InTable(p) /\ ~InTable(p)' /\ node'.open =>
         \A i \in Slots : table[i].age <= Interval]_vars
=============================================================================
