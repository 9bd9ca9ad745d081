------------------------------ MODULE ThreadPool ------------------------------
(***************************************************************************)
(* The CPU kernels' thread pool, `detail::ThreadPool` of kernel/parallel.h.*)
(* A caller publishes a job under the mutex, runs chunk 0 itself and spins *)
(* on an arrival count; NWorkers background threads spin on a generation   *)
(* number, each runs the one chunk its index names and then arrives.       *)
(*                                                                         *)
(* The atomics are sequentially consistent here: `generation_` is          *)
(* (++generation_), the job's plain fields and the relaxed stores are      *)
(* written before it and read after an acquire of it, so no other value of *)
(* them is observable.                                                     *)
(***************************************************************************)
EXTENDS Partition, FiniteSets

CONSTANTS
  Callers,    \* threads that call run_ranges
  Workers,    \* the background threads, workers_
  Shapes,     \* what a call asks for: [total, min_per_task] records
  MaxCalls,   \* bound: calls one caller makes
  None        \* no caller: the mutex is free, job_ has never been assigned

ASSUME PoolAssumption ==
  /\ IsFiniteSet(Workers)
  /\ None \notin Callers
  /\ Shapes \subseteq [total : Nat \ {0}, min_per_task : Nat \ {0}]
  /\ MaxCalls \in Nat

VARIABLES
  pc,           \* pc[c]: where caller c is in run_ranges
  shape,        \* shape[c]: the arguments of c's latest call
  ran,          \* ran[c][i]: how often the body covered index i of that call
  calls,        \* calls[c]: calls c has made
  mutex,        \* the caller holding mutex_, or None
  job,          \* the caller whose frame job_ refers to, or None
  chunks,       \* chunks_
  workersLeft,  \* workers_left_
  arrived,      \* arrived_in_job_
  generation,   \* generation_
  stop,         \* stop_
  nextIndex,    \* next_worker_index_
  wpc,          \* wpc[w]: where worker w is in worker_main
  index,        \* index[w]: w's t_chunk_index
  seen,         \* seen[w]: the last generation w joined
  dtor          \* where the destructor is

callerVars == <<pc, shape, ran, calls>>
jobVars    == <<mutex, job, chunks, workersLeft, arrived>>
workerVars == <<nextIndex, wpc, index, seen>>
stopVars   == <<stop, dtor>>
vars == <<callerVars, jobVars, workerVars, stopVars, generation>>

(* The calling thread is the last executor: workers_ plus one.             *)
Size == Cardinality(Workers) + 1

Init ==
  /\ pc = [c \in Callers |-> "out"]
  /\ shape = [c \in Callers |-> [total |-> 0, min_per_task |-> 1]]
  /\ ran = [c \in Callers |-> [i \in {} |-> 0]]
  /\ calls = [c \in Callers |-> 0]
  /\ mutex = None /\ job = None
  /\ chunks = 0 /\ workersLeft = 0 /\ arrived = 0 /\ generation = 0
  /\ stop = FALSE /\ dtor = "up"
  /\ nextIndex = 0
  /\ wpc = [w \in Workers |-> "start"]
  /\ index = [w \in Workers |-> 0]
  /\ seen = [w \in Workers |-> 0]

-----------------------------------------------------------------------------
(* Wrong variants of some actions below, one per property: exchanging an
   action for its variant must break that property.                        *)

(* Mutant of ResetBarrier: the barrier waits for one worker too few.       *)
ResetBarrier_OneShort(c) ==
  /\ pc[c] = "reset"
  /\ workersLeft' = Cardinality(Workers) - 1
  /\ arrived' = 0
  /\ pc' = [pc EXCEPT ![c] = "bump"]
  /\ UNCHANGED <<shape, ran, calls, mutex, job, chunks, workerVars, stopVars, generation>>

(* Mutant of Check: no second stop check.                                  *)
Check_NoStop(w) ==
  /\ wpc[w] = "check"
  /\ wpc' = [wpc EXCEPT ![w] = "take"]
  /\ UNCHANGED <<nextIndex, index, seen, callerVars, jobVars, stopVars, generation>>

(* Mutant of Return: the caller leaves after its own chunk.                *)
Return_NoBarrier(c) ==
  /\ pc[c] = "barrier"
  /\ mutex' = None
  /\ pc' = [pc EXCEPT ![c] = "out"]
  /\ UNCHANGED <<shape, ran, calls, job, chunks, workersLeft, arrived>>
  /\ UNCHANGED <<workerVars, stopVars, generation>>

(* Mutant of Turn: a worker without a chunk does not arrive.               *)
Turn_IdleSkips(w) ==
  /\ wpc[w] = "turn"
  /\ wpc' = [wpc EXCEPT ![w] = IF index[w] < chunks THEN "body" ELSE "spin"]
  /\ UNCHANGED <<nextIndex, index, seen, callerVars, jobVars, stopVars, generation>>

-----------------------------------------------------------------------------
(* The caller: run_ranges.                                                 *)

Chunks(c) == PartitionSize(shape[c].total, shape[c].min_per_task, Size)

(* The body has covered the indices of `range` of c's call once more.      *)
Covered(c, range) ==
  ran' = [ran EXCEPT ![c] = [i \in DOMAIN @ |-> IF i \in range THEN @[i] + 1 ELSE @[i]]]

Begin(c) ==
  /\ pc[c] = "out" /\ dtor = "up" /\ calls[c] < MaxCalls
  /\ \E s \in Shapes :
       /\ shape' = [shape EXCEPT ![c] = s]
       /\ ran' = [ran EXCEPT ![c] = [i \in 0 .. s.total - 1 |-> 0]]
       /\ pc' = [pc EXCEPT ![c] =
            IF PartitionSize(s.total, s.min_per_task, Size) <= 1 THEN "serial" ELSE "lock"]
  /\ calls' = [calls EXCEPT ![c] = @ + 1]
  /\ UNCHANGED <<jobVars, workerVars, stopVars, generation>>

(* One chunk: fn(0, total, 0) on the caller's thread, without the lock.    *)
RunSerially(c) ==
  /\ pc[c] = "serial"
  /\ Covered(c, 0 .. shape[c].total - 1)
  /\ pc' = [pc EXCEPT ![c] = "done"]
  /\ UNCHANGED <<shape, calls, jobVars, workerVars, stopVars, generation>>

ReturnSerially(c) ==
  /\ pc[c] = "done"
  /\ pc' = [pc EXCEPT ![c] = "out"]
  /\ UNCHANGED <<shape, ran, calls, jobVars, workerVars, stopVars, generation>>

Lock(c) ==
  /\ pc[c] = "lock" /\ mutex = None
  /\ mutex' = c
  /\ pc' = [pc EXCEPT ![c] = "job"]
  /\ UNCHANGED <<shape, ran, calls, job, chunks, workersLeft, arrived>>
  /\ UNCHANGED <<workerVars, stopVars, generation>>

AssignJob(c) ==
  /\ pc[c] = "job"
  /\ job' = c
  /\ chunks' = Chunks(c)
  /\ pc' = [pc EXCEPT ![c] = "reset"]
  /\ UNCHANGED <<shape, ran, calls, mutex, workersLeft, arrived>>
  /\ UNCHANGED <<workerVars, stopVars, generation>>

ResetBarrier(c) ==
  /\ pc[c] = "reset"
  /\ workersLeft' = Cardinality(Workers)
  /\ arrived' = 0
  /\ pc' = [pc EXCEPT ![c] = "bump"]
  /\ UNCHANGED <<shape, ran, calls, mutex, job, chunks, workerVars, stopVars, generation>>

Publish(c) ==
  /\ pc[c] = "bump"
  /\ generation' = generation + 1
  /\ pc' = [pc EXCEPT ![c] = "chunk0"]
  /\ UNCHANGED <<shape, ran, calls, jobVars, workerVars, stopVars>>

OwnChunk(c) ==
  /\ pc[c] = "chunk0"
  /\ Covered(c, ChunkRange(shape[c].total, 0, Chunks(c)))
  /\ pc' = [pc EXCEPT ![c] = "barrier"]
  /\ UNCHANGED <<shape, calls, jobVars, workerVars, stopVars, generation>>

(* The barrier lets the caller go and the lock_guard releases the mutex.   *)
Return(c) ==
  /\ pc[c] = "barrier" /\ arrived = workersLeft
  /\ mutex' = None
  /\ pc' = [pc EXCEPT ![c] = "out"]
  /\ UNCHANGED <<shape, ran, calls, job, chunks, workersLeft, arrived>>
  /\ UNCHANGED <<workerVars, stopVars, generation>>

-----------------------------------------------------------------------------
(* A worker: worker_main and run_worker_job.                               *)

Start(w) ==
  /\ wpc[w] = "start"
  /\ nextIndex' = nextIndex + 1
  /\ index' = [index EXCEPT ![w] = nextIndex + 1]
  /\ wpc' = [wpc EXCEPT ![w] = "spin"]
  /\ UNCHANGED <<seen, callerVars, jobVars, stopVars, generation>>

(* The generation moved: leave the spin loop.                              *)
Wake(w) ==
  /\ wpc[w] = "spin" /\ generation # seen[w]
  /\ wpc' = [wpc EXCEPT ![w] = "check"]
  /\ UNCHANGED <<nextIndex, index, seen, callerVars, jobVars, stopVars, generation>>

(* The spin loop's own stop check.                                         *)
SpinExit(w) ==
  /\ wpc[w] = "spin" /\ generation = seen[w] /\ stop
  /\ wpc' = [wpc EXCEPT ![w] = "exit"]
  /\ UNCHANGED <<nextIndex, index, seen, callerVars, jobVars, stopVars, generation>>

(* The second stop check, then `seen = generation_`.                       *)
Check(w) ==
  /\ wpc[w] = "check"
  /\ wpc' = [wpc EXCEPT ![w] = IF stop THEN "exit" ELSE "take"]
  /\ UNCHANGED <<nextIndex, index, seen, callerVars, jobVars, stopVars, generation>>

Take(w) ==
  /\ wpc[w] = "take"
  /\ seen' = [seen EXCEPT ![w] = generation]
  /\ wpc' = [wpc EXCEPT ![w] = "turn"]
  /\ UNCHANGED <<nextIndex, index, callerVars, jobVars, stopVars, generation>>

(* run_worker_job: is this worker's index inside the job?                  *)
Turn(w) ==
  /\ wpc[w] = "turn"
  /\ wpc' = [wpc EXCEPT ![w] = IF index[w] < chunks THEN "body" ELSE "arrive"]
  /\ UNCHANGED <<nextIndex, index, seen, callerVars, jobVars, stopVars, generation>>

Body(w) ==
  /\ wpc[w] = "body"
  /\ Covered(job, ChunkRange(shape[job].total, index[w], Chunks(job)))
  /\ wpc' = [wpc EXCEPT ![w] = "arrive"]
  /\ UNCHANGED <<pc, shape, calls, nextIndex, index, seen, jobVars, stopVars, generation>>

Arrive(w) ==
  /\ wpc[w] = "arrive"
  /\ arrived' = arrived + 1
  /\ wpc' = [wpc EXCEPT ![w] = "spin"]
  /\ UNCHANGED <<mutex, job, chunks, workersLeft, nextIndex, index, seen>>
  /\ UNCHANGED <<callerVars, stopVars, generation>>

-----------------------------------------------------------------------------
(* The destructor, at process exit: the singleton outlives every call.     *)

RequestStop ==
  /\ dtor = "up" /\ \A c \in Callers : pc[c] = "out"
  /\ stop' = TRUE
  /\ dtor' = "stopping"
  /\ UNCHANGED <<callerVars, jobVars, workerVars, generation>>

WakeSpinners ==
  /\ dtor = "stopping"
  /\ generation' = generation + 1
  /\ dtor' = "joining"
  /\ UNCHANGED <<stop, callerVars, jobVars, workerVars>>

Joined ==
  /\ dtor = "joining" /\ \A w \in Workers : wpc[w] = "exit"
  /\ dtor' = "gone"
  /\ UNCHANGED <<stop, callerVars, jobVars, workerVars, generation>>

(* The process has exited; nothing runs any more.                          *)
Gone == dtor = "gone" /\ UNCHANGED vars

CallerStep(c) ==
  \/ RunSerially(c) \/ ReturnSerially(c) \/ Lock(c) \/ AssignJob(c)
  \/ ResetBarrier(c) \/ Publish(c) \/ OwnChunk(c) \/ Return(c)

WorkerStep(w) ==
  \/ Start(w) \/ Wake(w) \/ SpinExit(w) \/ Check(w) \/ Take(w)
  \/ Turn(w) \/ Body(w) \/ Arrive(w)

DtorStep == WakeSpinners \/ Joined

Next ==
  \/ \E c \in Callers : Begin(c) \/ CallerStep(c)
  \/ \E w \in Workers : WorkerStep(w)
  \/ RequestStop \/ DtorStep
  \/ Gone

Spec == Init /\ [][Next]_vars

(* The scheduler runs every thread that is runnable; nobody has to call and
   nobody has to exit.  A caller makes MaxCalls calls at most, so it cannot
   keep the mutex from another for ever.                                   *)
Fairness ==
  /\ \A c \in Callers : WF_vars(CallerStep(c))
  /\ \A w \in Workers : WF_vars(WorkerStep(w))
  /\ WF_vars(DtorStep)

FairSpec == Spec /\ Fairness

-----------------------------------------------------------------------------
(* Properties.                                                             *)

Frame == {"chunk0", "barrier"}   \* the job is published and its frame lives

TypeOK ==
  /\ pc \in [Callers -> {"out", "serial", "done", "lock", "job", "reset", "bump", "chunk0", "barrier"}]
  /\ shape \in [Callers -> [total : Nat, min_per_task : Nat \ {0}]]
  /\ DOMAIN ran = Callers
  /\ \A c \in Callers : ran[c] \in [0 .. shape[c].total - 1 -> Nat]
  /\ calls \in [Callers -> 0 .. MaxCalls]
  /\ mutex \in Callers \cup {None} /\ job \in Callers \cup {None}
  /\ chunks \in 0 .. Size
  /\ workersLeft \in {0, Cardinality(Workers)}
  /\ arrived \in 0 .. Cardinality(Workers)
  /\ generation \in Nat
  /\ stop \in BOOLEAN /\ dtor \in {"up", "stopping", "joining", "gone"}
  /\ nextIndex \in 0 .. Cardinality(Workers)
  /\ wpc \in [Workers -> {"start", "spin", "check", "take", "turn", "body", "arrive", "exit"}]
  /\ index \in [Workers -> 0 .. Cardinality(Workers)]
  /\ seen \in [Workers -> Nat]

(* A worker is inside the job only while the frame that job_ captured is
   alive: its owner holds the lock and has not left the barrier.  This is
   what the comments on the barrier (no worker in the body when the caller
   returns) and on the second stop check (no stale body at exit) claim.    *)
FrameOutlivesBody ==
  \A w \in Workers :
    wpc[w] \in {"take", "turn", "body", "arrive"} =>
      /\ job \in Callers /\ mutex = job
      /\ pc[job] \in Frame

(* No worker is ever two generations behind, the state the comment on the
   lock describes as a hang: it would join the newer job and the older
   caller would wait for an arrival that cannot come.                      *)
NeverTwoBehind ==
  \A w \in Workers : seen[w] <= generation /\ generation <= seen[w] + 1

(* The inductive invariant behind the two.  Either no job is published and
   every worker waits at the current generation, or exactly one is, and each
   worker is one behind, in the job, or among those counted as arrived; or
   the destructor has woken everyone and nobody may join again.            *)
LockHeld ==
  \A c \in Callers : pc[c] \in {"job", "reset", "bump", "chunk0", "barrier"} <=> mutex = c

JobOfOwner ==
  \A c \in Callers :
    /\ pc[c] \in {"reset", "bump", "chunk0", "barrier"} => job = c
    /\ pc[c] \in {"bump", "chunk0", "barrier"} => workersLeft = Cardinality(Workers)
    /\ pc[c] = "bump" => arrived = 0

StopAfterCalls ==
  /\ stop <=> dtor # "up"
  /\ stop => \A c \in Callers : pc[c] = "out"
  /\ \A w \in Workers : wpc[w] = "exit" => stop

Published == \E c \in Callers : pc[c] \in Frame
Arrived == {w \in Workers : wpc[w] = "spin" /\ seen[w] = generation}
Started == {w \in Workers : wpc[w] # "start"}

Quiet ==
  ~Published /\ dtor \in {"up", "stopping"} =>
    \A w \in Workers : seen[w] = generation /\ wpc[w] \in {"start", "spin", "exit"}

Running ==
  Published =>
    /\ arrived = Cardinality(Arrived)
    /\ \A w \in Workers :
         \/ generation = seen[w] + 1 /\ wpc[w] \in {"start", "spin", "check", "take"}
         \/ generation = seen[w] /\ wpc[w] \in {"spin", "turn", "body", "arrive"}

Exiting ==
  dtor \in {"joining", "gone"} =>
    \A w \in Workers : generation = seen[w] + 1 /\ wpc[w] \in {"start", "spin", "check", "exit"}

Inv ==
  /\ TypeOK /\ LockHeld /\ JobOfOwner /\ StopAfterCalls
  /\ Quiet /\ Running /\ Exiting
  /\ nextIndex = Cardinality(Started)

(* The pool implements ParallelFor: disjoint ranges that cover [0, total),
   each run once, and no return before the last one.                       *)
Promise == INSTANCE ParallelFor WITH
  Totals <- {s.total : s \in Shapes},
  inside <- [c \in Callers |-> pc[c] # "out"]
ImplementsParallelFor == Promise!Spec

(* Every call returns: the hang that the lock and the arrival count are
   there to prevent does not happen.  And the destructor's joins return:
   every worker sees stop_, whether it spins, wakes late or has not started
   when the process exits.                                                 *)
EveryoneReturns ==
  /\ \A c \in Callers : pc[c] # "out" ~> pc[c] = "out"
  /\ dtor = "stopping" ~> dtor = "gone"
=============================================================================
