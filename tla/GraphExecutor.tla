--------------------------- MODULE GraphExecutor ---------------------------
(***************************************************************************)
(* The Python engine: Executor.run walks a verified graph on one session,  *)
(* its values in buffers of a BufferArena that reuses them by exact size   *)
(* (engine/executor.py, engine/memory.py), and the two plans made of the   *)
(* same graph beforehand: what the run will cost (plan_memory) and which   *)
(* nodes a backend may take whole (engine/planner.py).                     *)
(*                                                                         *)
(* Values are names; a tensor is the buffer it is in and what it means,    *)
(* the value of one run.  Buffer 0 stands for the caller's own.            *)
(***************************************************************************)
EXTENDS Integers, SequencesExt

CONSTANTS
  Graphs,   \* [inputs, outputs: sequences of names, size: bytes of each name,
            \*  nodes: sequence of [op, args, outs], captures: the ops the
            \*  backend's graph path takes, most: its largest region, 0 if any]
  MaxRuns   \* bound: calls of Executor.run

Args(g, i) == Range(g.nodes[i].args)
Outs(g, i) == Range(g.nodes[i].outs)
Nodes(g) == DOMAIN g.nodes

(* The names Graph.verify resolves, in the order it meets them.            *)
Env(g) == g.inputs \o FlattenSeq([i \in Nodes(g) |-> g.nodes[i].outs])

(* Lists of names, each of a size.                                         *)
WellFormed(g) ==
  LET lists == Seq(DOMAIN g.size)
  IN  /\ \A v \in DOMAIN g.size : g.size[v] \in Nat
      /\ g.inputs \in lists /\ g.outputs \in lists /\ g.nodes \in Seq(Range(g.nodes))
      /\ \A i \in Nodes(g) : g.nodes[i].args \in lists /\ g.nodes[i].outs \in lists
      /\ g.most \in Nat

(* Each value is defined once, and before it is read or given back.        *)
Verified(g) ==
  /\ WellFormed(g) /\ Range(Env(g)) = DOMAIN g.size
  /\ \A i \in Nodes(g) :
       /\ IsInjective(g.nodes[i].outs) /\ Outs(g, i) \cap Range(g.inputs) = {}
       /\ \A j \in 1 .. i - 1 : Outs(g, i) \cap Outs(g, j) = {}
       /\ Args(g, i) \subseteq Range(g.inputs) \cup UNION {Outs(g, j) : j \in 1 .. i - 1}

ASSUME GraphAssumption == MaxRuns \in Nat /\ \A g \in Graphs : Verified(g)

VARIABLES
  graph,
  arena,     \* of the executor's session
  bytes,     \* what is in each buffer of the arena
  values,    \* held: the tensors of the run in progress, by name
  position,  \* the node it is at, 0 between runs
  runs,      \* calls begun
  results,   \* [run, outs, kept, cost] of each call that returned
  stranded,  \* buffers of calls that raised half way
  freed      \* once closed, how often the session freed each buffer

engine == <<graph, arena, bytes, values, position, runs, results, stranded, freed>>

-----------------------------------------------------------------------------
(* BufferArena.                                                            *)

NewArena(g) ==
  [free |-> [n \in Range(g.size) |-> << >>], live |-> {}, sizes |-> << >>,
   reuses |-> 0, held |-> 0, peak |-> 0]

Acquire(a, n) ==
  LET hit  == a.free[n] # << >>
      at   == IF hit THEN Last(a.free[n]) ELSE Len(a.sizes) + 1
      took == IF hit THEN [a EXCEPT !.free[n] = Front(@), !.reuses = @ + 1]
              ELSE [a EXCEPT !.sizes = Append(@, n)]
  IN  [arena |-> [took EXCEPT !.live = @ \cup {at}, !.held = @ + n, !.peak = Max({@, a.held + n})],
       at |-> at]

(* One buffer per name, in order: the arena after, and where each went.    *)
AcquireAll(a, g, names) ==
  LET got[k \in 0 .. Len(names)] ==
        IF k = 0 THEN [arena |-> a, at |-> << >>]
        ELSE LET n == Acquire(got[k - 1].arena, g.size[names[k]])
             IN  [arena |-> n.arena, at |-> Append(got[k - 1].at, n.at)]
  IN  got[Len(names)]

Where(names, at, v) == at[CHOOSE k \in DOMAIN names : names[k] = v]

(* A buffer the arena did not hand out is ignored.                         *)
GiveBack(a, b) ==
  IF b \notin a.live THEN a
  ELSE LET n == a.sizes[b]
       IN  [a EXCEPT !.live = @ \ {b}, !.held = @ - n, !.free[n] = Append(@, b)]

GiveBackAll(a, buffers) ==
  LET back[k \in 0 .. Len(buffers)] == IF k = 0 THEN a ELSE GiveBack(back[k - 1], buffers[k])
  IN  back[Len(buffers)]

(* The values that have died go back, in the order of the environment.     *)
Evict(a, g, at, dead) ==
  GiveBackAll(a, [k \in DOMAIN Env(g) |-> IF Env(g)[k] \in dead THEN at[Env(g)[k]] ELSE 0])

-----------------------------------------------------------------------------
(* Liveness: value_liveness, and free_after, which the run follows.        *)

Born(g, v) == Max({0} \cup {i \in Nodes(g) : v \in Outs(g, i)})
Dies(g, v) == Max({Born(g, v)} \cup {i \in Nodes(g) : v \in Args(g, i)})

(* A bug: a value goes back with the node after its last reader.           *)
FreeAfter_NextNode(g, i) == {v \in DOMAIN g.size : Born(g, v) > 0 /\ Dies(g, v) = i - 1}

FreeAfter(g, i) == {v \in DOMAIN g.size : Born(g, v) > 0 /\ Dies(g, v) = i}

Cost(a) == [allocations |-> Len(a.sizes), reuses |-> a.reuses, peak |-> a.peak]

(* plan_memory: the arena against a session that counts, with its own test
   of what can go back (Liveness.frees_after).                             *)
PlanNode(g, plan, i) ==
  LET outs == g.nodes[i].outs
      got  == AcquireAll(plan.arena, g, outs)
      held == [v \in DOMAIN plan.held \cup Range(outs) |->
                 IF v \in Range(outs) THEN Where(outs, got.at, v) ELSE plan.held[v]]
      dead == {v \in DOMAIN held : v \notin Range(g.outputs) /\ Born(g, v) > 0 /\ Dies(g, v) <= i}
  IN  [arena |-> Evict(got.arena, g, held, dead), held |-> [v \in DOMAIN held \ dead |-> held[v]]]

PlanMemory(g) ==
  LET plan[i \in 0 .. Len(g.nodes)] ==
        IF i = 0 THEN [arena |-> NewArena(g), held |-> << >>] ELSE PlanNode(g, plan[i - 1], i)
  IN  Cost(plan[Len(g.nodes)].arena)

-----------------------------------------------------------------------------
(* plan_execution.                                                         *)

Region(g, first, last, captured) ==
  LET made  == UNION {Outs(g, i) : i \in first .. last}
      later == Range(g.outputs) \cup UNION {Args(g, i) : i \in last + 1 .. Len(g.nodes)}
  IN  [first |-> first, last |-> last, captured |-> captured,
       inputs |-> (UNION {Args(g, i) : i \in first .. last}) \ made, outputs |-> made \cap later]

Flush(g, plan, i) ==
  IF plan.first = i THEN plan.regions
  ELSE Append(plan.regions, Region(g, plan.first, i - 1, TRUE))

(* A bug: a node that finds its region full runs alone.                    *)
Split_FullIsEager(g, plan, i) ==
  IF g.nodes[i].op \notin g.captures \/ (g.most > 0 /\ i - plan.first >= g.most)
  THEN [regions |-> Append(Flush(g, plan, i), Region(g, i, i, FALSE)), first |-> i + 1]
  ELSE plan

(* The next node: taken alone, begins a region, or joins the open one.     *)
Split(g, plan, i) ==
  IF g.nodes[i].op \notin g.captures
  THEN [regions |-> Append(Flush(g, plan, i), Region(g, i, i, FALSE)), first |-> i + 1]
  ELSE IF g.most > 0 /\ i - plan.first >= g.most
  THEN [regions |-> Flush(g, plan, i), first |-> i]
  ELSE plan

PlanExecution(g) ==
  IF g.captures = {}
  THEN IF g.nodes = << >> THEN << >> ELSE <<Region(g, 1, Len(g.nodes), FALSE)>>
  ELSE LET plan[i \in 0 .. Len(g.nodes)] ==
             IF i = 0 THEN [regions |-> << >>, first |-> 1] ELSE Split(g, plan[i - 1], i)
       IN  Flush(g, plan[Len(g.nodes)], Len(g.nodes) + 1)

-----------------------------------------------------------------------------
(* Executor.run, one node a step.                                          *)

Tensor(at, means) == [at |-> at, means |-> means]
Kept == UNION {Range(results[r].outs) : r \in {s \in DOMAIN results : results[s].kept}}

(* An input is the caller's own tensor or the output of an earlier run, a
   cache say; the second only where the graph does not hand it back.       *)
Given(v) ==
  {Tensor(0, <<0, v>>)}
    \cup {t \in Kept : t.at # 0 /\ arena.sizes[t.at] = graph.size[v] /\ v \notin Range(graph.outputs)}

BeginRun ==
  /\ position = 0 /\ runs < MaxRuns /\ freed = << >>
  /\ \E tensors \in [Range(graph.inputs) -> UNION {Given(v) : v \in Range(graph.inputs)}] :
       /\ \A v \in Range(graph.inputs) : tensors[v] \in Given(v)
       /\ values' = tensors
  /\ position' = 1 /\ runs' = runs + 1
  /\ UNCHANGED <<graph, arena, bytes, results, stranded, freed>>

(* The op fills its buffers, each with a value of this run.                *)
Filled(at, names) ==
  [b \in DOMAIN bytes \cup Range(at) |->
     IF b \in Range(at) THEN <<runs, Where(at, names, b)>> ELSE bytes[b]]

(* Values whose last reader has run go back, save those the graph returns. *)
RunNode ==
  /\ position \in Nodes(graph)
  /\ LET outs == graph.nodes[position].outs
         got  == AcquireAll(arena, graph, outs)
         held == [v \in DOMAIN values \cup Range(outs) |->
                    IF v \in Range(outs) THEN Tensor(Where(outs, got.at, v), <<runs, v>>) ELSE values[v]]
         dead == (FreeAfter(graph, position) \cap DOMAIN held) \ Range(graph.outputs)
     IN  /\ bytes' = Filled(got.at, outs)
         /\ arena' = Evict(got.arena, graph, [v \in dead |-> held[v].at], dead)
         /\ values' = [v \in DOMAIN held \ dead |-> held[v]]
  /\ position' = position + 1
  /\ UNCHANGED <<graph, runs, results, stranded, freed>>

(* What the run held is forgotten, and stays live until the arena is closed. *)
Abandon(also) ==
  /\ values' = << >> /\ position' = 0
  /\ stranded' = stranded \cup also \cup {t.at : t \in {u \in Range(values) : u.means[1] = runs}}
  /\ UNCHANGED <<graph, runs, results, freed>>

(* session.run raises, its outputs filled or not: they go back.            *)
OpRefused ==
  /\ position \in Nodes(graph)
  /\ LET got == AcquireAll(arena, graph, graph.nodes[position].outs)
     IN  /\ bytes' = Filled(got.at, graph.nodes[position].outs)
         /\ arena' = GiveBackAll(got.arena, got.at)
  /\ Abandon({})

(* session.alloc raises for the k-th output: those before it stay live.    *)
NoMemory ==
  /\ position \in Nodes(graph)
  /\ LET outs == graph.nodes[position].outs
     IN  \E k \in DOMAIN outs :
           LET got == AcquireAll(arena, graph, SubSeq(outs, 1, k - 1))
           IN  /\ got.arena.free[graph.size[outs[k]]] = << >>
               /\ arena' = got.arena /\ bytes' = Filled(got.at, outs)
               /\ Abandon(Range(got.at))

FinishRun ==
  /\ position = Len(graph.nodes) + 1
  /\ results' = Append(results, [run |-> runs, outs |-> [v \in Range(graph.outputs) |-> values[v]],
                                 kept |-> TRUE, cost |-> Cost(arena)])
  /\ values' = << >> /\ position' = 0
  /\ UNCHANGED <<graph, arena, bytes, runs, stranded, freed>>

(* Execution.release: the caller is done with what the run returned.       *)
ReleaseResult ==
  /\ position = 0 /\ freed = << >>
  /\ \E r \in {s \in DOMAIN results : results[s].kept} :
       /\ arena' = GiveBackAll(arena, [j \in DOMAIN graph.outputs |-> results[r].outs[graph.outputs[j]].at])
       /\ results' = [results EXCEPT ![r].kept = FALSE]
  /\ UNCHANGED <<graph, bytes, values, position, runs, stranded, freed>>

(* How many places of the arena's pools, and of its live ones, b is in.    *)
Times(b) ==
  Cardinality(UNION {{<<n, j>> : j \in {k \in DOMAIN arena.free[n] : arena.free[n][k] = b}}
                     : n \in DOMAIN arena.free})
    + Cardinality(arena.live \cap {b})

(* Executor.close: the pools, then what is live.                           *)
CloseArena ==
  /\ position = 0 /\ runs > 0 /\ freed = << >>
  /\ freed' = [b \in DOMAIN arena.sizes |-> Times(b)]
  /\ arena' = [arena EXCEPT !.free = [n \in DOMAIN @ |-> << >>], !.live = {}, !.held = 0]
  /\ UNCHANGED <<graph, bytes, values, position, runs, results, stranded>>

EngineInit ==
  /\ graph \in Graphs
  /\ arena = NewArena(graph) /\ bytes = << >> /\ values = << >>
  /\ position = 0 /\ runs = 0 /\ results = << >> /\ stranded = {} /\ freed = << >>

EngineNext ==
  \/ BeginRun \/ RunNode \/ OpRefused \/ NoMemory \/ FinishRun \/ ReleaseResult \/ CloseArena

EngineSpec == EngineInit /\ [][EngineNext]_engine

-----------------------------------------------------------------------------
(* Properties.                                                             *)

InUse == {t \in Range(values) \cup Kept : t.at # 0}

(* Whatever was given back and reused meanwhile, each node finds its values,
   and the end of the run its outputs; and they, and the outputs the caller
   still keeps of earlier runs, are what was written.                      *)
ValuesIntact ==
  /\ position \in Nodes(graph) => Args(graph, position) \subseteq DOMAIN values
  /\ position > Len(graph.nodes) => Range(graph.outputs) \subseteq DOMAIN values
  /\ freed = << >> => \A t \in InUse : bytes[t.at] = t.means

(* Each buffer is live or in one pool, the one of its size; two values never
   share one; the bytes counted are the live ones; and nothing is live but what
   a value or a kept output is in, and the values of runs that raised: an op
   that is refused strands none of its own.                                *)
BuffersOwnedOnce ==
  freed = << >> =>
    /\ \A b \in DOMAIN arena.sizes : Times(b) = 1
    /\ \A n \in DOMAIN arena.free : \A b \in Range(arena.free[n]) : arena.sizes[b] = n
    /\ arena.held = MapThenSumSet(LAMBDA b : arena.sizes[b], arena.live)
    /\ \A t, u \in InUse : t.at = u.at => t.means = u.means
    /\ arena.live \ stranded = {t.at : t \in InUse}

(* A close gives the session every buffer it ever allocated, once.         *)
ClosedFreesAll == freed # << >> => DOMAIN freed = DOMAIN arena.sizes /\ \A b \in DOMAIN freed : freed[b] = 1

(* The regions are the graph cut in order; only ops of the capture set are
   captured, no more than fit, and two captured regions meet only where the
   first is full; and run one after the other, each given its inputs and
   handing on its outputs alone, they compute the graph.                   *)
RegionsCompose ==
  LET regions == PlanExecution(graph)
      known(k) == Range(graph.inputs) \cup UNION {regions[j].outputs : j \in 1 .. k}
      made(r, i) == UNION {Outs(graph, j) : j \in r.first .. i - 1}
  IN  /\ \A k \in DOMAIN regions :
           regions[k].first = IF k = 1 THEN 1 ELSE regions[k - 1].last + 1
      /\ graph.nodes # << >> => Last(regions).last = Len(graph.nodes)
      /\ \A k \in DOMAIN regions :
           LET r == regions[k]
               full(q) == graph.most > 0 /\ q.last - q.first + 1 = graph.most
           IN  /\ r.captured => /\ \A i \in r.first .. r.last : graph.nodes[i].op \in graph.captures
                                /\ graph.most > 0 => r.last - r.first + 1 <= graph.most
               /\ r.captured /\ k > 1 /\ regions[k - 1].captured => full(regions[k - 1])
               /\ ~r.captured /\ graph.captures # {} => graph.nodes[r.first].op \notin graph.captures
               /\ r.inputs \subseteq known(k - 1)
               /\ \A i \in r.first .. r.last : Args(graph, i) \subseteq r.inputs \cup made(r, i)
      /\ Range(graph.outputs) \subseteq known(Len(regions))

(* The plan is a measurement: the first run on a fresh arena makes exactly
   the allocations, the reuses and the peak plan_memory reports; and the
   plan of regions composes to the graph.                                  *)
RunsAsPlanned ==
  /\ results # << >> /\ results[1].run = 1 => results[1].cost = PlanMemory(graph)
  /\ RegionsCompose
=============================================================================
