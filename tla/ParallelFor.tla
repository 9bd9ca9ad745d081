----------------------------- MODULE ParallelFor -----------------------------
(***************************************************************************)
(* What `run_ranges` promises its callers (the comment above it in         *)
(* kernel/parallel.h): the body is run on disjoint contiguous ranges that  *)
(* cover [0, total), and the call blocks until every range has been run.   *)
(* Nothing here says which thread runs which range, or in which order.     *)
(***************************************************************************)
EXTENDS Integers

CONSTANTS Callers,   \* threads that call run_ranges
          Totals     \* the lengths a call may ask for

VARIABLES
  inside,   \* inside[c]: caller c has called and not yet returned
  ran       \* ran[c][i]: how often the body has covered index i of c's call

vars == <<inside, ran>>

Init ==
  /\ inside = [c \in Callers |-> FALSE]
  /\ ran = [c \in Callers |-> [i \in {} |-> 0]]

Begin(c, total) ==
  /\ ~ inside[c]
  /\ inside' = [inside EXCEPT ![c] = TRUE]
  /\ ran' = [ran EXCEPT ![c] = [i \in 0 .. total - 1 |-> 0]]

(* The body runs once, on a range nothing has covered yet.                 *)
Run(c, range) ==
  /\ inside[c]
  /\ range # {}
  /\ \A i \in range : ran[c][i] = 0
  /\ ran' = [ran EXCEPT ![c] = [i \in DOMAIN @ |-> IF i \in range THEN 1 ELSE @[i]]]
  /\ UNCHANGED inside

Return(c) ==
  /\ inside[c]
  /\ \A i \in DOMAIN ran[c] : ran[c][i] = 1
  /\ inside' = [inside EXCEPT ![c] = FALSE]
  /\ UNCHANGED ran

Next ==
  \E c \in Callers :
    \/ \E total \in Totals : Begin(c, total)
    \/ \E lo, hi \in DOMAIN ran[c] : Run(c, lo .. hi)
    \/ Return(c)

Spec == Init /\ [][Next]_vars
=============================================================================
