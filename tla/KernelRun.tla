------------------------------ MODULE KernelRun ------------------------------
(***************************************************************************)
(* One op of a backend, running.  On the CPU its units are cut by          *)
(* `parallel_for` into tasks that run at once; in CUDA its lanes are the   *)
(* threads of a grid, which wait for their block at a __syncthreads and    *)
(* for the whole grid between two launches.  On Ascend they are the host,  *)
(* its stream and its build threads.                                       *)
(***************************************************************************)
EXTENDS CpuKernels, CudaKernels, AscendKernels

CONSTANTS
  Jobs         \* the calls: [on, threads, op, and the op's own arguments]

VARIABLES
  opCall,   \* the call
  mem,      \* what has been stored, by address
  at        \* for each lane, the number of steps it has taken

kernelVars == <<opCall, mem, at>>

-----------------------------------------------------------------------------
(* A lane's program: its steps, in order; a step of stage s may not begin
   before its team has finished the stages before s.                       *)

(* CPU: one task of each call; every unit is one step, but the kept-score
   kernel's, which is two.                                                 *)
Passes(what) == IF what = "scores" THEN 2 ELSE 1

CpuTasks(o, s) == PartitionSize(CpuCalls(o)[s][2], CpuCalls(o)[s][3], o.threads)

CpuProgram(o, lane) ==
  FlattenSeq([s \in 1 .. Len(CpuCalls(o)) |->
    LET call  == CpuCalls(o)[s]
        tasks == CpuTasks(o, s)
        first == Bound(call[2], lane, tasks)
        units == IF lane < tasks THEN Cardinality(ChunkRange(call[2], lane, tasks)) ELSE 0
        n     == Passes(call[1])
    IN  [e \in 1 .. units * n |->
           [stage |-> s, what |-> call[1], unit |-> first + ((e - 1) \div n), pass |-> (e - 1) % n]]])

Program(o, lane) ==
  CASE o.on = "cpu" -> CpuProgram(o, lane)
    [] o.on = "cuda" -> CudaProgram(o, lane)
    [] o.on = "ascend" -> AscendProgram(o, lane)

Lanes(o) ==
  CASE o.on = "cpu" -> 0 .. o.threads - 1
    [] o.on = "cuda" -> CudaLanes(o)
    [] o.on = "ascend" -> AscendLanes(o)

(* Who must have finished the earlier stages before a lane starts one.     *)
Team(o, lane, stage) ==
  IF o.on = "ascend" THEN AscendTeam(o, lane, stage)
  ELSE IF o.on = "cpu" \/ stage \in CudaLaunches(o) THEN Lanes(o)
  ELSE CudaBlock(o, lane)

(* The lane has no step of a stage before `stage` left.                    *)
Reached(lane, stage) ==
  \A e \in at[lane] + 1 .. Len(Program(opCall, lane)) : Program(opCall, lane)[e].stage >= stage

Effect(o, lane, step) ==
  CASE o.on = "cpu" -> CpuStore(o, mem, step.what, step.unit, lane, step.pass)
    [] o.on = "cuda" -> CudaStore(o, mem, step.what, lane, step.arg)
    [] o.on = "ascend" -> AscendStore(o, mem, step.what, lane, step.arg)

KernelInit ==
  /\ opCall \in Jobs
  /\ mem = << >>
  /\ at = [l \in Lanes(opCall) |-> 0]

NextStep(lane) == Program(opCall, lane)[at[lane] + 1]

CanStep(lane) ==
  /\ at[lane] < Len(Program(opCall, lane))
  /\ \A mate \in Team(opCall, lane, NextStep(lane).stage) : Reached(mate, NextStep(lane).stage)

Step(lane) ==
  /\ CanStep(lane)
  /\ mem' = Effect(opCall, lane, NextStep(lane)) @@ mem
  /\ at' = [at EXCEPT ![lane] = @ + 1]
  /\ UNCHANGED opCall

KernelNext == \E lane \in Lanes(opCall) : Step(lane)

KernelSpec == KernelInit /\ [][KernelNext]_kernelVars

-----------------------------------------------------------------------------
Done == \A lane \in Lanes(opCall) : at[lane] = Len(Program(opCall, lane))

Owed(o) ==
  CASE o.op \in {"map", "kv_append"} -> OwedMap(o)
    [] o.op = "silu_mul" -> OwedSilu(o)
    [] o.op = "norm" -> OwedNorm(o)
    [] o.op \in {"gemm", "gemm_quant"} -> OwedGemm(o)
    [] o.op = "embedding" -> OwedEmbedding(o)
    [] o.op = "conv2d" -> OwedConv(o)
    [] o.op = "rope" -> OwedRope(o)
    [] o.op = "attention" -> OwedAttention(o)
    [] o.op = "argmax" -> OwedArgmax(o)

Refused(o) == o.on = "ascend" /\ AscendRefuses(o)

(* Two lanes that may store at once store to different addresses: the cut
   of an op into units, tiles, chunks and threads is a partition of what it
   writes, the scratch included.                                           *)
NoTwoWrite ==
  \A l1, l2 \in {lane \in Lanes(opCall) : CanStep(lane)} :
    l1 # l2 => DOMAIN Effect(opCall, l1, NextStep(l1)) \cap DOMAIN Effect(opCall, l2, NextStep(l2)) = {}

(* A norm is a sum over its row, taken in any order; the rest have one.    *)
SameTerms(o, a, b) ==
  IF o.op = "norm"
  THEN Len(a) = Len(b) /\ \A t \in Range(a) \cup Range(b) :
         Cardinality({e \in DOMAIN a : a[e] = t}) = Cardinality({e \in DOMAIN b : b[e] = t})
  ELSE a = b

(* Whatever the number of threads, the order they run in and the kernel the
   shape selects, the op leaves in every address it owes exactly the terms
   it owes there, each once and in order: no unit is lost or done twice, no
   task reads what another is still writing or has freed, and no tail is
   dropped.  An op a backend refuses leaves everything as it was.          *)
Delivers ==
  Done => IF Refused(opCall) THEN mem = << >>
          ELSE \A c \in DOMAIN Owed(opCall) : SameTerms(opCall, Val(mem, c), Owed(opCall)[c])

(* The scores an attention keeps are in the caller's scratch, which was
   sized for the most rows and the longest span the caller holds.          *)
ScratchOf(o) ==
  IF o.on = "cpu" THEN Scratch(o.heldRows, o.heads, o.heldSpan, o.threads)
  ELSE CudaScratch(o.heldRows, o.heads, o.heldSpan)

(* Nothing is stored past an op's output, or past the scratch the caller
   was told to bring: a task's region begins at its chunk, and the chunks
   of a short call are no more than those of the longest.                  *)
StaysInside ==
  \A c \in DOMAIN mem :
    \/ c[1] \notin {"out", "x", "score", "plane"}
    \/ c[1] = "plane" /\ c[2] \in 0 .. opCall.n * opCall.k - 1
    \/ c \in DOMAIN Owed(opCall)
    \/ c[1] = "score" /\ c[2] \in 0 .. ScratchOf(opCall) - 1
=============================================================================
