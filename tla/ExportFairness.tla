--------------------------- MODULE ExportFairness ---------------------------
(***************************************************************************)
(* The packing order of export_shared_delta_bounded, looked at from nodes  *)
(* that keep writing and deleting their records while a backlog is         *)
(* waiting.  waited[n][k] counts the consecutive frames of node n that     *)
(* record k was due for and did not ride in.                               *)
(***************************************************************************)
EXTENDS WorldGossip, FiniteSets

ASSUME KeyAssumption == IsFiniteSet(Key)

VARIABLE waited

FairnessInit == Init /\ waited = [n \in Node |-> [k \in Key |-> 0]]

Rewrite ==
  /\ \E n \in Node :
       \/ \E k \in Key : SetShared(n, k) \/ RemoveShared(n, k)
       \/ SetNamed(n)
  /\ UNCHANGED waited

Export ==
  \E n \in Node : \E taken \in (SUBSET Due(n)) \ {{}} :
    /\ SendDelta(n, taken)
    /\ waited' = [waited EXCEPT ![n] =
                    [k \in Key |-> IF k \in Due(n) \ taken THEN @[k] + 1 ELSE 0]]

FairnessNext == Rewrite \/ Export

FairnessSpec == FairnessInit /\ [][FairnessNext]_<<vars, waited>>

(***************************************************************************)
(* No record is starved, however fast the others are rewritten, even if   *)
(* every frame has room for one record only.  The order is by last export  *)
(* and not by timestamp because a field rewritten faster than the gossip   *)
(* cadence would always sort last.  last_export_ts is a reading of the     *)
(* logical clock, which need not move between two frames, so a competitor  *)
(* can ride up to three times before the record: once from behind, once    *)
(* tied with older content, and once rewritten.                            *)
(***************************************************************************)
BoundedWait ==
  \A n \in Node, k \in Key : waited[n][k] <= 3 * (Cardinality(Key) - 1)
-----------------------------------------------------------------------------
(***************************************************************************)
(* The argument.  The competitors of record k that can still ride before   *)
(* it: those exported no later than k; while the clock stands where k was  *)
(* exported, those of them that are behind k or still due; and those that  *)
(* are behind k.  A frame that leaves k out takes a competitor out of one  *)
(* of the three sets, and nothing puts one in until k rides.               *)
(***************************************************************************)
NotAhead(n, k) == {j \in Key \ {k} : lastExport[n][j] <= lastExport[n][k]}

Behind(n, k) ==
  {j \in NotAhead(n, k) :
     lastExport[n][j] < lastExport[n][k] /\ lastExport[n][k] = clock[n]}

Tied(n, k) ==
  {j \in NotAhead(n, k) : lastExport[n][k] = clock[n] /\ j \in Behind(n, k) \cup Due(n)}

Turns(n, k) ==
  Cardinality(NotAhead(n, k)) + Cardinality(Tied(n, k)) + Cardinality(Behind(n, k))

(***************************************************************************)
(* The inductive invariant: as long as a node holds only what it wrote,    *)
(* waited frames and turns left add up to no more than three times the     *)
(* number of competitors.                                                  *)
(***************************************************************************)
FairnessInv ==
  /\ waited \in [Node -> [Key -> Nat]]
  /\ \A n \in Node, k \in Key :
       /\ store[n][k] = Absent \/ store[n][k].origin = n
       /\ lastExport[n][k] <= clock[n]
       /\ waited[n][k] + Turns(n, k) <= 3 * (Cardinality(Key) - 1)
=============================================================================
