----------------------------- MODULE MCXlmBackend -----------------------------
(* A collected request and a stream, or two streams; their clients patient  *)
(* or not.                                                                  *)
EXTENDS XlmBackend

CONSTANTS c1, s1, s2

MCCallers == {c1, s1, s2}
MCStreamers == {s1, s2}
MCPairs == Init /\ \E c \in {c1, s2} : \A d \in Callers : pc[d] = "ended" <=> d = c
MCSpec == MCPairs /\ [][Next]_vars /\ Fairness
MCLeaving == Init /\ ~patient /\ \A c \in Callers : pc[c] = "idle"
MCLeavingSpec == MCLeaving /\ [][Next]_vars
=============================================================================
