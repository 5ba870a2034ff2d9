--------------------------- MODULE MCEventChannel ---------------------------
(* Two publishers and two subscribers of one interface over a ring of two   *)
(* blocks; the second publisher and the second subscriber may join while    *)
(* events are on their way.                                                 *)
EXTENDS EventChannel
CONSTANTS p1, p2, r1, r2
MCPairs == {<<p1, r1>>, <<p1, r2>>, <<p2, r1>>}
MCMaxEvents == [s \in Senders |-> IF s = p1 THEN 2 ELSE 1]
=============================================================================
