------------------------------ MODULE FieldMap ------------------------------
(***************************************************************************)
(* What the field table promises its callers: a map from fields to         *)
(* versions.  An operation gives the one field it names a version that is  *)
(* newer than the old one (a delete is such a version), or changes         *)
(* nothing.                                                                *)
(***************************************************************************)
EXTENDS Naturals

CONSTANTS Field,   \* identities of fields
          Version, \* records with a timestamp ts and an author origin
          Missing  \* a field never written

VARIABLE field

Newer(v, w) == v.ts > w.ts \/ (v.ts = w.ts /\ v.origin > w.origin)

Init == field = [f \in Field |-> Missing]

Update(f) ==
  LET new == field'[f]
      old == field[f]
  IN  /\ new # old
      /\ new \in Version
      /\ old = Missing \/ Newer(new, old)
      /\ field' = [field EXCEPT ![f] = new]

Next == \E f \in Field : Update(f)

Spec == Init /\ [][Next]_field
=============================================================================
