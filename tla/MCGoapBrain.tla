---------------------------- MODULE MCGoapBrain ----------------------------
(***************************************************************************)
(* Two values as QuickJS writes them, the first of them as native code     *)
(* writes it, and bytes that are no JSON.                                  *)
(***************************************************************************)
EXTENDS GoapBrain

CONSTANTS v1, v2, raw, junk

Bytes == {v1, v2, raw, junk}

Written ==
  [v \in Bytes |-> CASE v = raw -> v1 [] v = junk -> Absent [] OTHER -> v]
=============================================================================
