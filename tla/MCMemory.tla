------------------------------ MODULE MCMemory ------------------------------
(***************************************************************************)
(* Small instances of TowerMemory (every backend, a tied and an untied     *)
(* head, dense and packed weights, with and without a tower) and of        *)
(* GraphExecutor, in one run: the initial states are split between them.   *)
(***************************************************************************)
EXTENDS TowerMemory, GraphExecutor

Checkpoint(backend, tied, head, deepstack, kind) ==
  [backend |-> backend, tied |-> tied, embd |-> IF tied THEN head ELSE "q4k", head |-> head,
   wq |-> head, w_down |-> IF head = "q4k" THEN "q6k" ELSE head, deepstack |-> deepstack, tower |-> kind]

MCShapes ==
  {Checkpoint("cpu", FALSE, "q4k", FALSE, "none"),
   Checkpoint("cpu", TRUE, "q4k", TRUE, "vision"),
   Checkpoint("cuda", FALSE, "q6k", FALSE, "audio"),
   Checkpoint("cuda", TRUE, "q6k", FALSE, "none"),
   Checkpoint("ascend", TRUE, "q4k", FALSE, "none"),
   Checkpoint("ascend", FALSE, "q4k", FALSE, "none"),
   Checkpoint("ascend_packed", TRUE, "q4k", FALSE, "none"),
   Checkpoint("ascend", FALSE, "dense", FALSE, "vision")}

MCPatches == <<2, 1, 3>>

-----------------------------------------------------------------------------
Node(op, args, outs) == [op |-> op, args |-> args, outs |-> outs]

(* A chain of one size. *)
Chain == [inputs |-> <<"x">>, outputs |-> <<"c">>, size |-> [v \in {"x", "a", "b", "c"} |-> 1],
          nodes |-> <<Node("norm", <<"x">>, <<"a">>), Node("matmul", <<"a">>, <<"b">>),
                      Node("sample", <<"b">>, <<"c">>)>>,
          captures |-> {"norm", "matmul"}, most |-> 0]

(* A cache handed from run to run, a wide value, and one nothing reads. *)
Cache == [inputs |-> <<"x", "k">>, outputs |-> <<"y", "k2">>,
          size |-> [v \in {"x", "k", "k2", "y", "u", "w", "spare"} |-> IF v \in {"w", "spare"} THEN 2 ELSE 1],
          nodes |-> <<Node("append", <<"k", "x">>, <<"k2">>), Node("matmul", <<"x">>, <<"w", "spare">>),
                      Node("matmul", <<"w">>, <<"u">>), Node("attend", <<"k2", "u", "x">>, <<"y">>)>>,
          captures |-> {"matmul", "attend"}, most |-> 2]

(* A value read late, an input that is handed back, an early output. *)
Fork == [inputs |-> <<"x">>, outputs |-> <<"a", "x", "d">>, size |-> [v \in {"x", "a", "b", "c", "d"} |-> 1],
         nodes |-> <<Node("norm", <<"x">>, <<"a">>), Node("norm", <<"a">>, <<"b">>),
                     Node("norm", <<"b", "a">>, <<"c">>), Node("matmul", <<"c", "b", "c">>, <<"d">>)>>,
         captures |-> {"norm", "matmul"}, most |-> 3]

MCGraphs == {Chain, Cache, Fork, [Cache EXCEPT !.captures = {}]}

ASSUME InstancesAssumption == Shapes # {} /\ Graphs # {}

(* A closed session beside the engine, and a finished engine beside a session. *)
allvars == <<vars, engine>>

NoSession ==
  /\ shape = CHOOSE s \in Shapes : TRUE
  /\ dev = NewDevice /\ held = [b \in Buffers \cup TowerBuffers |-> 0]
  /\ form = [w \in Weights |-> "none"] /\ rows = [rope |-> 0, kv |-> 0]
  /\ phase = "closed" /\ todo = << >> /\ call = NoCall /\ reads = {} /\ calls = 0
  /\ tower = NoTower

NoEngine ==
  /\ graph = (CHOOSE g \in Graphs : TRUE) /\ arena = NewArena(graph) /\ bytes = << >> /\ values = << >>
  /\ position = 0 /\ runs = MaxRuns /\ results = << >> /\ stranded = {} /\ freed = << >>

MemoryInit == (Init /\ NoEngine) \/ (NoSession /\ EngineInit)

MemoryNext ==
  \/ Next /\ UNCHANGED engine
  \/ phase = "closed" /\ todo = << >> /\ EngineNext /\ UNCHANGED vars

MemorySpec == MemoryInit /\ [][MemoryNext]_allvars

(* Every read, of a weight, a table or a value of a graph, finds what it
   means, whatever was released and reused before.                         *)
ReadsAreTrue == ReadsWhatItMeans /\ ValuesIntact

(* Every place, and every buffer of the arena, has one owner.              *)
OneOwner == OwnedOnce /\ BuffersOwnedOnce

(* A close gives everything back, once, but what the destructors are known
   to leave.                                                               *)
GivesBackOnce == ClosedGivesBack /\ ClosedFreesAll
=============================================================================
