--------------------------- MODULE MCAntiEntropy ---------------------------
(***************************************************************************)
(* AntiEntropy with one node that writes and broadcasts.  The restriction  *)
(* is on writes only: deliveries and main loop iterations, which the       *)
(* fairness is about, are never blocked.                                   *)
(***************************************************************************)
EXTENDS AntiEntropy

OneWay == {<<1, 2>>}

OneWriter == \A n \in Node, k \in Key : store'[n][k].origin \in {0, 1}

OneWriterSpec == Init /\ [][Next /\ OneWriter]_vars /\ Fairness

(***************************************************************************)
(* A delete is never lost: in the end no node holds a field live that      *)
(* another one holds deleted.  The header of the state manager says that   *)
(* deletes persist until every peer has applied them.                      *)
(***************************************************************************)
DeletesReachAll ==
  <>[](\A m, n \in Node, k \in Key :
         store[m][k].ts > store[n][k].ts => (Live(store[n][k]) => Live(store[m][k])))
=============================================================================
