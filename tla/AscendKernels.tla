--------------------------- MODULE AscendKernels ---------------------------
(***************************************************************************)
(* The Ascend backend (kernel/ascend/backend.cpp).  An op is a program of  *)
(* the host: it stages its operands in buffers of its own, launches vendor *)
(* kernels on an in-order stream, which runs them at any later time, waits *)
(* for the stream, copies the result back and frees what it staged.  The   *)
(* host also spawns build threads, which decode and transpose a weight.    *)
(*                                                                         *)
(* Lane 0 is the host, lane 1 the stream, the rest are the build threads.  *)
(* Step e of the host is of stage 2e; what it starts is of stage 2e + 1.   *)
(***************************************************************************)
EXTENDS OpContract

CONSTANT CubeChunk      \* cube_chunk_n(): columns of one launch of a product

ASSUME AscendAssumption == CubeChunk \in Nat \ {0}

Host == 0
Stream == 1
Builders(o) == 2 .. o.threads + 1
AscendLanes(o) == {Host, Stream} \cup Builders(o)

(* The ops and arguments the backend throws at before it touches anything. *)
AscendRefuses(o) ==
  \/ o.op = "conv2d"
  \/ o.op = "norm" /\ o.centred
  \/ o.op = "rope" /\ ~o.split
  \/ o.op \in {"gemm", "gemm_quant"} /\ o.bias
  \/ o.op = "attention" /\ (~o.causal \/ o.firstKey # 0)

-----------------------------------------------------------------------------
(* The host's steps.                                                       *)
Copy(to, toAt, from, fromAt, n) ==
  [what |-> "copy", arg |-> [to |-> to, toAt |-> toAt, from |-> from, fromAt |-> fromAt, n |-> n]]
Free(buffer, at, n) == [what |-> "free", arg |-> [buffer |-> buffer, at |-> at, n |-> n]]
Launch(kernel, a) == [what |-> "launch", arg |-> <<kernel, a>>]
Spawn(body, a)   == [what |-> "spawn", arg |-> <<body, a>>]
Do(what, a)      == [what |-> what, arg |-> a]
Synchronize      == Do("sync", 0)
Join             == Do("join", 0)

(* A kernel on operands of its own: stage, launch, wait, copy back.        *)
Fused(o, kernel, staged, to, n) ==
  staged \o <<Launch(kernel, 0), Synchronize, Copy(to, 0, "dout", 0, n), Free("dx", 0, n), Free("dout", 0, n)>>

ChunkStarts(o) == [c \in 1 .. CeilDiv(o.n, CubeChunk) |-> (c - 1) * CubeChunk]
ChunkWidth(o, n0) == IF CubeChunk < o.n - n0 THEN CubeChunk ELSE o.n - n0

ForEachChunk(o, steps(_)) == FlattenSeq([c \in DOMAIN ChunkStarts(o) |-> steps(ChunkStarts(o)[c])])

(* build_cube_weight_from_f32: each chunk of columns, transposed.          *)
BuildPlane(o, weights) ==
  LET chunk(n0) == <<Spawn("transpose", [from |-> weights, n0 |-> n0]), Join,
                     Copy("plane", n0 * o.k, "half", n0 * o.k, o.k * ChunkWidth(o, n0))>>
  IN  ForEachChunk(o, chunk)

(* run_cube_weight: one launch a chunk, waited for one by one or all at
   the end, each added to the rows of the output it covers.                *)
RunPlane(o) ==
  LET launch(n0) == <<Launch("cube", n0)>> \o (IF o.syncEach THEN <<Synchronize>> ELSE << >>)
      add(n0) == <<Do("add", n0), Free("dout", n0 * o.m, o.m * ChunkWidth(o, n0))>>
  IN  <<Do("begin", 0), Copy("dx", 0, "x", 0, o.m * o.k)>> \o ForEachChunk(o, launch) \o
      (IF o.syncEach THEN << >> ELSE <<Synchronize>>) \o ForEachChunk(o, add) \o
      <<Copy("out", 0, "acc", 0, o.m * o.n), Free("dx", 0, o.m * o.k)>>

(* attention: one step of the fused kernel for each query row, over the
   cache's rows laid out by head.                                          *)
AttentionRow(o, t) ==
  LET visible == o.qOffset + t + 1
  IN  <<Do("planar", visible), Do("query", t), Launch("step", visible), Synchronize,
        Copy("out", t * o.heads, "dout", 0, o.heads),
        Free("dq", 0, o.heads), Free("dk", 0, visible * o.kvHeads), Free("dout", 0, o.heads)>>

AscendAttention(o) == FlattenSeq([t \in 1 .. o.qLen |-> AttentionRow(o, t - 1)])

AscendGemm(o) == BuildPlane(o, "w") \o RunPlane(o) \o <<Free("plane", 0, o.n * o.k)>>

(* The plane is kept for the next call.                                    *)
AscendGemmQuant(o) == <<Spawn("decode", 0), Join>> \o BuildPlane(o, "dense") \o RunPlane(o)

AscendNorm(o) == Fused(o, "rms", <<Copy("dx", 0, "x", 0, o.n * o.d)>>, "out", o.n * o.d)

AscendSilu(o) == Fused(o, "silu", <<Copy("dx", 0, "x", 0, o.n), Copy("dx", o.n, "up", 0, o.n)>>, "out", o.n)

AscendRope(o) ==
  LET n == o.tokens * o.heads * o.d IN Fused(o, "rope", <<Do("rows", 0), Copy("dx", 0, "x", 0, n)>>, "x", n)

AscendKvAppend(o) == <<Copy("out", 0, "x", 0, o.n)>>

AscendArgmax == <<Launch("argmax", 0), Synchronize, Copy("out", 0, "dout", 0, 1), Free("dout", 0, 1)>>

(* A bad id is gathered as row 0, and its row then zeroed.                 *)
AscendEmbedding(o) ==
  LET n == Len(o.tokens) * o.d
  IN  <<Do("safe", 0), Launch("gather", 0), Synchronize, Copy("rows", 0, "dout", 0, n), Do("zero", 0),
        Copy("out", 0, "rows", 0, n), Free("ids", 0, Len(o.tokens)), Free("dout", 0, n)>>

HostSteps(o) ==
  CASE AscendRefuses(o) -> << >>
    [] o.op = "kv_append" -> AscendKvAppend(o)
    [] o.op = "silu_mul" -> AscendSilu(o)
    [] o.op = "norm" -> AscendNorm(o)
    [] o.op = "rope" -> AscendRope(o)
    [] o.op = "argmax" -> AscendArgmax
    [] o.op = "embedding" -> AscendEmbedding(o)
    [] o.op = "gemm" -> AscendGemm(o)
    [] o.op = "gemm_quant" -> AscendGemmQuant(o)
    [] o.op = "attention" -> AscendAttention(o)

(* What each lane runs.                                                    *)
AscendProgram(o, lane) ==
  LET host == HostSteps(o)
      started(what) == SelectSeq([e \in DOMAIN host |-> host[e] @@ [stage |-> 2 * e]], LAMBDA s : s.what = what)
      begun(what) == [e \in DOMAIN started(what) |->
        [stage |-> started(what)[e].stage + 1, what |-> started(what)[e].arg[1], arg |-> started(what)[e].arg[2]]]
  IN  CASE lane = Host -> [e \in DOMAIN host |-> host[e] @@ [stage |-> 2 * e]]
        [] lane = Stream -> begun("launch")
        [] OTHER -> begun("spawn")

(* Wrong variant of AscendTeam: the host does not wait for the stream.     *)
AscendTeam_NoSync(o, lane, stage) ==
  IF lane # Host THEN {Host}
  ELSE CASE HostSteps(o)[stage \div 2].what = "join" -> Builders(o)
         [] OTHER -> {}

(* Whose earlier stages a lane waits for: what was started, for the host
   that started it; the host, for a stream or threads it waits for.        *)
AscendTeam(o, lane, stage) ==
  IF lane # Host THEN {Host}
  ELSE CASE HostSteps(o)[stage \div 2].what = "sync" -> {Stream}
         [] HostSteps(o)[stage \div 2].what = "join" -> Builders(o)
         [] OTHER -> {}

-----------------------------------------------------------------------------
(* The build threads.                                                      *)
Cells(buffer, indices) == {<<buffer, i>> : i \in indices}

(* decode_packed_rows: every count-th row.                                 *)
DecodeRows(o, t) ==
  [c \in Cells("dense", {i \in 0 .. o.n * o.k - 1 : (i \div o.k) % o.threads = t}) |-> <<<<"w", c[2]>>>>]

(* f32_to_f16_transposed: a run of the chunk's rows, each a column of the
   result.                                                                 *)
TransposeRows(o, mem, a, t) ==
  LET width == ChunkWidth(o, a.n0)
      rows  == {r \in 0 .. width - 1 : r \div CeilDiv(width, o.threads) = t}
      row(c) == (c[2] - a.n0 * o.k) % width
      col(c) == (c[2] - a.n0 * o.k) \div width
  IN  [c \in Cells("half", {a.n0 * o.k + e * width + r : e \in 0 .. o.k - 1, r \in rows}) |->
         Val(mem, <<a.from, (a.n0 + row(c)) * o.k + col(c)>>)]

(* The vendor's kernels, as the layouts handed to them say.                *)
CubeKernel(o, mem, n0) ==
  LET width == ChunkWidth(o, n0)
      at(c) == c[2] - n0 * o.m
      w(c, e) == Val(mem, <<"plane", n0 * o.k + e * width + (at(c) % width)>>)
  IN  [c \in Cells("dout", {n0 * o.m + e : e \in 0 .. o.m * width - 1}) |->
         FlattenSeq([e \in 1 .. o.k |-> Val(mem, <<"dx", (at(c) \div width) * o.k + e - 1>>) \o w(c, e - 1)])]

RmsKernel(o, mem) ==
  [c \in Cells("dout", 0 .. o.n * o.d - 1) |->
     FlattenSeq([e \in 1 .. o.d |-> Val(mem, <<"dx", (c[2] \div o.d) * o.d + e - 1>>)]) \o Val(mem, <<"dx", c[2]>>)]

SiluKernel(o, mem) ==
  [c \in Cells("dout", 0 .. o.n - 1) |-> Val(mem, <<"dx", c[2]>>) \o Val(mem, <<"dx", o.n + c[2]>>)]

RopeKernel(o, mem) ==
  [c \in Cells("dout", 0 .. o.tokens * o.heads * o.d - 1) |->
     LET p == Partner(o, c[2] % o.d)
         base == c[2] - (c[2] % o.d)
     IN  Rotated(p.first, Val(mem, <<"row", c[2] \div o.d>>)[1], p.i,
                 Val(mem, <<"dx", base + p.a>>), Val(mem, <<"dx", base + p.b>>))]

GatherKernel(o, mem) ==
  [c \in Cells("dout", 0 .. Len(o.tokens) * o.d - 1) |->
     <<<<"table", Val(mem, <<"ids", c[2] \div o.d>>)[1] * o.d + (c[2] % o.d)>>>>]

(* One query row over `visible` keys, the cache laid out head by head.     *)
StepKernel(o, mem, visible) ==
  [c \in Cells("dout", 0 .. o.heads - 1) |->
     LET kv == c[2] \div (o.heads \div o.kvHeads)
         key(s) == Val(mem, <<"dk", kv * visible + s>>)
     IN  [s \in 1 .. visible |-> <<"key", Val(mem, <<"dq", c[2]>>)[1]>> \o key(s - 1)]]

-----------------------------------------------------------------------------
(* What a step stores.                                                     *)
AscendStore(o, mem, what, lane, arg) ==
  CASE what = "copy" -> [c \in Cells(arg.to, arg.toAt .. arg.toAt + arg.n - 1) |->
                           Val(mem, <<arg.from, arg.fromAt + c[2] - arg.toAt>>)]
    [] what = "free" -> [c \in Cells(arg.buffer, arg.at .. arg.at + arg.n - 1) |-> <<"freed", "freed">>]
    [] what \in {"launch", "spawn", "sync", "join"} -> << >>
    [] what = "begin" -> [c \in Cells("acc", 0 .. o.m * o.n - 1) |->
                            IF o.accumulate THEN Val(mem, <<"out", c[2]>>) ELSE << >>]
    [] what = "add" ->
         LET width == ChunkWidth(o, arg)
         IN  [c \in Cells("acc", {row * o.n + arg + col : row \in 0 .. o.m - 1, col \in 0 .. width - 1}) |->
                Val(mem, c) \o Val(mem, <<"dout", arg * o.m + (c[2] \div o.n) * width + (c[2] % o.n) - arg>>)]
    [] what = "rows" -> [c \in Cells("row", 0 .. o.tokens * o.heads - 1) |-> <<o.start + c[2] \div o.heads>>]
    [] what = "safe" -> [c \in Cells("ids", 0 .. Len(o.tokens) - 1) |->
                           LET id == o.tokens[c[2] + 1] IN IF id \in 0 .. o.vocab - 1 THEN <<id>> ELSE <<0>>]
    [] what = "zero" -> [c \in Cells("rows", {e \in 0 .. Len(o.tokens) * o.d - 1 :
                                                o.tokens[e \div o.d + 1] \notin 0 .. o.vocab - 1}) |-> << >>]
    [] what = "planar" -> [c \in Cells("dk", 0 .. arg * o.kvHeads - 1) |-> <<c[2] \div arg, c[2] % arg>>]
    [] what = "query" -> [c \in Cells("dq", 0 .. o.heads - 1) |-> <<arg * o.heads + c[2]>>]
    [] what = "decode" -> DecodeRows(o, lane - 2)
    [] what = "transpose" -> TransposeRows(o, mem, arg, lane - 2)
    [] what = "cube" -> CubeKernel(o, mem, arg)
    [] what = "rms" -> RmsKernel(o, mem)
    [] what = "silu" -> SiluKernel(o, mem)
    [] what = "rope" -> RopeKernel(o, mem)
    [] what = "argmax" -> <<"dout", 0>> :> OwedArgmax(o)[<<"out", 0>>]
    [] what = "gather" -> GatherKernel(o, mem)
    [] what = "step" -> StepKernel(o, mem, arg)
=============================================================================
