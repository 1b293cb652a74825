----------------------------- MODULE Versions -----------------------------
(***************************************************************************)
(* What one slot of the shared ("world") stream holds, and the last-writer *)
(* wins rule of merge_shared that decides between two versions of it.      *)
(***************************************************************************)
EXTENDS Naturals

CONSTANTS Key,      \* names of shared fields
          Value,    \* JSON payloads
          Tombstone \* what a deleted field holds instead of a payload

ASSUME TombstoneAssumption == Tombstone \notin Value

(***************************************************************************)
(* A version is what the conflict rule looks at, plus the payload.  A slot *)
(* that does not exist behaves as a version older than every write.        *)
(***************************************************************************)
Version == [ts : Nat, origin : Nat, val : Value \cup {Tombstone}]

Absent == [ts |-> 0, origin |-> 0, val |-> Tombstone]

\* One version per key: the slots of a node, or the records of a frame, in
\* which a key the frame does not carry is Absent.
Records == [Key -> Version]

\* Mutant: the id tie-break is missing.
SupersedesByTime(r, inc) == r.ts > inc.ts

\* merge_shared lets the remote version r replace the incumbent inc.
Supersedes(r, inc) ==
  \/ r.ts > inc.ts
  \/ r.ts = inc.ts /\ r.origin > inc.origin

\* Mutants: whatever arrives is taken; a tie always goes to the newcomer; the
\* old payload stays.
NewestArrival(inc, r) == IF r.ts > 0 THEN r ELSE inc
NewestOnTie(inc, r) == IF r.ts >= inc.ts THEN r ELSE inc
NewestKeepsData(inc, r) ==
  IF Supersedes(r, inc) THEN [r EXCEPT !.val = inc.val] ELSE inc

Newest(inc, r) == IF Supersedes(r, inc) THEN r ELSE inc

Merge(slots, recs) == [k \in Key |-> Newest(slots[k], recs[k])]

Live(ver) == ver.val # Tombstone
=============================================================================
