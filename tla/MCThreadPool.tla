---------------------------- MODULE MCThreadPool ----------------------------
(***************************************************************************)
(* The pool with two workers and two callers, and the calls of MCKernels,  *)
(* in one run: the initial states are split between them.                  *)
(***************************************************************************)
EXTENDS ThreadPool, MCKernels

CONSTANTS c1, c2, w1, w2

MCCallers == {c1, c2}
MCWorkers == {w1, w2}
Sh(t, m) == [total |-> t, min_per_task |-> m]

(* serial, two chunks of a pool of three (one worker has none), all three
   with uneven ranges                                                      *)
MCShapes == {Sh(1, 1), Sh(2, 1), Sh(5, 2)}

allvars == <<vars, kernelVars>>

(* An op on nothing beside the pool, and beside an op a pool that nobody
   called and that is gone.                                                *)
NoKernel ==
  /\ opCall = [on |-> "cpu", threads |-> 0, op |-> "map", n |-> 0]
  /\ mem = << >> /\ at = << >>

NoPool ==
  /\ pc = [c \in Callers |-> "out"] /\ calls = [c \in Callers |-> 0]
  /\ shape = [c \in Callers |-> Sh(0, 1)] /\ ran = [c \in Callers |-> << >>]
  /\ mutex = None /\ job = None
  /\ chunks = 0 /\ workersLeft = 0 /\ arrived = 0 /\ generation = 1
  /\ stop = TRUE /\ dtor = "gone"
  /\ nextIndex = Cardinality(Workers)
  /\ wpc = [w \in Workers |-> "exit"] /\ seen = [w \in Workers |-> 0]
  /\ index = [w \in Workers |-> IF w = w1 THEN 1 ELSE 2]

MCInit == (Init /\ NoKernel) \/ (NoPool /\ KernelInit)

MCNext == (Next /\ UNCHANGED kernelVars) \/ (KernelNext /\ UNCHANGED vars)

MCSpec == MCInit /\ [][MCNext]_allvars /\ Fairness
=============================================================================
