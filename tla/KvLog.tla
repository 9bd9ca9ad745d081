-------------------------------- MODULE KvLog --------------------------------
(***************************************************************************)
(* What the KV cache promises a caller: it is one append-only log of       *)
(* tokens per live sequence.  A forward extends the logs of the sequences  *)
(* it names by exactly the tokens it was given, a reset empties them, and  *)
(* nothing else changes what a sequence will attend to -- not the growth   *)
(* of the slabs, not a refused call and not a reservation ("Idempotent and *)
(* non-destructive", model/qwen3.h).                                       *)
(***************************************************************************)
EXTENDS Integers, Sequences

VARIABLES
  call,   \* the latest call: [op, batch], one token sequence per sequence
  logs    \* logs[s]: every token the cache holds for sequence s

vars == <<call, logs>>

Init == call = [op |-> "open", batch |-> << >>] /\ logs = << << >> >>

(* A batch continues each sequence from its own log; the sequences it does
   not name are dropped.                                                   *)
Forward ==
  /\ call'.op = "forward"
  /\ logs' = [s \in 1 .. Len(call'.batch) |->
                (IF s <= Len(logs) THEN logs[s] ELSE << >>) \o call'.batch[s]]

Reset == call'.op = "reset" /\ logs' = << << >> >>

Other == call'.op \in {"reserve", "refused"} /\ UNCHANGED logs

Next == Forward \/ Reset \/ Other

Spec == Init /\ [][Next]_vars
=============================================================================
