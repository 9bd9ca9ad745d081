---------------------------- MODULE CudaKernels ----------------------------
(***************************************************************************)
(* The CUDA backend's kernels (kernel/cuda/backend.cu): the grid each op   *)
(* launches, and what a thread stores between two barriers.                *)
(*                                                                         *)
(* A lane is a thread <<block x, block y, thread>>.  A thread's program is *)
(* a sequence of steps [stage, what, arg]; stages are what __syncthreads   *)
(* separates, so steps of one stage of one block run in any order.  Block  *)
(* memory is addressed <<name, block x, block y, index>>, a register       *)
(* <<name, lane, index>>.                                                  *)
(***************************************************************************)
EXTENDS OpContract

CONSTANTS
  TileSide, TileStep,   \* kTile, kStep of the blocked product
  QuantRows,        \* kRows: activation rows of one block of the row kernel
  RowThreshold,     \* kRowThreshold: the rows from which the row kernel runs
  DecodeSplit       \* kDecodeSplit

ASSUME CudaAssumption ==
  /\ TileSide \in Nat \ {0} /\ TileStep \in Nat \ {0}
  /\ QuantRows \in Nat \ {0} /\ RowThreshold \in Nat \ {0} /\ DecodeSplit \in Nat \ {0}

Bx(lane) == lane[1]
By(lane) == lane[2]
Tx(lane) == lane[3]

(* blockIdx.x * blockDim.x + threadIdx.x                                   *)
GlobalId(o, lane) == Bx(lane) * o.threads + Tx(lane)

(* for (i = threadIdx.x; i < n; i += blockDim.x)                           *)
Strided(o, lane, n) == [e \in 1 .. CeilDiv(n - Tx(lane), o.threads) |-> Tx(lane) + (e - 1) * o.threads]

OutCell(i, terms) == <<"out", i>> :> terms
Shared(name, lane, i) == <<name, Bx(lane), By(lane), i>>
Register(name, lane, i) == <<name, lane, i>>
Sum(mem, cell) == IF cell \in DOMAIN mem THEN mem[cell] ELSE << >>   \* a sum that starts at zero

-----------------------------------------------------------------------------
(* One thread per element.                                                 *)
MapThread(o, lane) ==
  IF GlobalId(o, lane) >= o.n THEN << >> ELSE OutCell(GlobalId(o, lane), <<<<"x", GlobalId(o, lane)>>>>)

EmbeddingThread(o, lane) ==
  LET t == By(lane)
      col == GlobalId(o, lane)
      id == o.tokens[t + 1]
  IN  IF col >= o.d THEN << >>
      ELSE OutCell(t * o.d + col,
                   IF id < 0 \/ id >= o.vocab THEN << >> ELSE <<<<"table", id * o.d + col>>>>)

ConvThread(o, lane) ==
  LET h == ConvExtent(o, o.height)
      w == ConvExtent(o, o.width)
      image  == h * w * o.outCh
      i      == GlobalId(o, lane)
      oc     == (i % image) % o.outCh
      p      == (i % image) \div o.outCh
  IN  IF i >= o.batch * image THEN << >>
      ELSE OutCell((i \div image) * image + (IF o.channelMajor THEN oc * h * w + p ELSE p * o.outCh + oc),
                   ConvTaps(o, i \div image, oc, p \div w, p % w))

(* One thread per rotated pair.                                            *)
RopeThread(o, mem, lane) ==
  LET half == o.d \div 2
      idx == GlobalId(o, lane)
      i == idx % half
      h == (idx \div half) % o.heads
      t == idx \div (half * o.heads)
      vec == (t * o.heads + h) * o.d
      first  == <<"x", vec + IF o.split THEN i ELSE 2 * i>>
      second == <<"x", vec + IF o.split THEN i + half ELSE 2 * i + 1>>
      a == Val(mem, first)
      b == Val(mem, second)
  IN  IF idx >= o.tokens * o.heads * half THEN << >>
      ELSE (first :> Rotated(TRUE, o.start + t, i, a, b)) @@
           (second :> Rotated(FALSE, o.start + t, i, a, b))

GemmThread(o, mem, lane) ==
  LET r == By(lane)
      j == GlobalId(o, lane)
  IN  IF r >= o.m \/ j >= o.n THEN << >> ELSE Into(mem, o, <<"out", r * o.n + j>>, Product(r, j, o.k) \o Bias(o, j))

-----------------------------------------------------------------------------
(* The blocked product: a block stages a tile of each operand in shared
   memory, every thread multiplies its 2 x 2 corner of it, and the next
   tile may only be staged once all have.                                  *)
Row0(lane) == By(lane) * TileSide
Col0(lane) == Bx(lane) * TileSide
TileX(lane) == Tx(lane) % (TileSide \div 2)
TileY(lane) == Tx(lane) \div (TileSide \div 2)

StageTile(o, lane, k0) ==
  LET flats == {Tx(lane) + i * o.threads : i \in 0 .. (TileSide * TileStep) \div o.threads - 1}
      kk(f) == k0 + (f \div TileSide)
      Operand(name, buf, first, n) ==
        [c \in {Shared(name, lane, f) : f \in flats} |->
           LET line == first + (c[4] % TileSide)
           IN  IF kk(c[4]) < o.k /\ line < n THEN <<<<buf, line * o.k + kk(c[4])>>>> ELSE << >>]
  IN  Operand("xs", "x", Row0(lane), o.m) @@ Operand("ws", "w", Col0(lane), o.n)

MultiplyTile(o, mem, lane) ==
  [c \in {Register("acc", lane, e) : e \in 0 .. 3} |->
     LET i == c[3] \div 2
         j == c[3] % 2
         x(kk) == Val(mem, Shared("xs", lane, kk * TileSide + TileY(lane) * 2 + i))
         w(kk) == Val(mem, Shared("ws", lane, kk * TileSide + TileX(lane) * 2 + j))
     IN  Sum(mem, c) \o FlattenSeq([kk \in 1 .. TileStep |->
           IF x(kk - 1) = << >> \/ w(kk - 1) = << >> THEN << >> ELSE x(kk - 1) \o w(kk - 1)])]

StoreTile(o, mem, lane) ==
  LET r(e) == Row0(lane) + TileY(lane) * 2 + (e \div 2)
      c(e) == Col0(lane) + TileX(lane) * 2 + (e % 2)
      inside == {e \in 0 .. 3 : r(e) < o.m /\ c(e) < o.n}
      cell(e) == <<"out", r(e) * o.n + c(e)>>
  IN  [out \in {cell(e) : e \in inside} |->
         LET e == CHOOSE e \in inside : cell(e) = out
         IN  Into(mem, o, out, Sum(mem, Register("acc", lane, e)) \o Bias(o, c(e)))[out]]

-----------------------------------------------------------------------------
(* gemm_quant.  A thread owns a column; its block stages one weight block's
   worth of the activation rows `rows`, all threads together, before each
   accumulates it.                                                         *)
StageRows(o, lane, rows, b) ==
  LET indices == {i \in 0 .. Len(rows) * BlockWeights - 1 : i % o.threads = Tx(lane)}
  IN  [c \in {Shared("xs", lane, i) : i \in indices} |->
         LET row == rows[c[4] \div BlockWeights + 1]
         IN  IF row < o.m THEN <<<<"x", row * o.k + b * BlockWeights + (c[4] % BlockWeights)>>>> ELSE << >>]

AccumulateRows(o, mem, lane, rows, b) ==
  LET j == GlobalId(o, lane)
      X(rr, i) == Val(mem, Shared("xs", lane, (rr - 1) * BlockWeights + i - 1))
  IN  IF j >= o.n THEN << >>
      ELSE [c \in {Register("acc", lane, rr) : rr \in DOMAIN rows} |->
              Sum(mem, c) \o FlattenSeq([i \in 1 .. BlockWeights |->
                IF X(c[3], i) = << >> THEN << >>
                ELSE X(c[3], i) \o <<<<"w", j * o.k + b * BlockWeights + i - 1>>>>])]

StoreRows(o, mem, lane, rows) ==
  LET j == GlobalId(o, lane)
      live == {rr \in DOMAIN rows : rows[rr] < o.m /\ j < o.n}
  IN  [c \in {<<"out", rows[rr] * o.n + j>> : rr \in live} |->
         LET rr == CHOOSE rr \in live : c[2] = rows[rr] * o.n + j
         IN  Into(mem, o, c, Sum(mem, Register("acc", lane, rr)) \o Bias(o, j))[c]]

(* The row kernel: R activation rows to a block.                           *)
RowKernelRows(lane) == [rr \in 1 .. QuantRows |-> By(lane) * QuantRows + rr - 1]
(* The one-row kernel.                                                     *)
OneRow(lane) == <<By(lane)>>

(* The split decode: part `by` of the weight blocks of one row.            *)
SplitBlocks(o, part) ==
  LET n   == o.k \div BlockWeights
      per == n \div DecodeSplit
      b1  == IF part = DecodeSplit - 1 THEN n ELSE per * part + per
  IN  [e \in 1 .. b1 - per * part |-> per * part + e - 1]

StorePartial(o, mem, lane) ==
  LET j == GlobalId(o, lane)
  IN  IF j >= o.n THEN << >>
      ELSE <<"partial", By(lane) * o.n + j>> :> Sum(mem, Register("acc", lane, 1))

ReducePartials(o, mem, lane) ==
  LET j == GlobalId(o, lane)
  IN  IF j >= o.n THEN << >>
      ELSE Into(mem, o, <<"out", j>>,
                FlattenSeq([s \in 1 .. DecodeSplit |-> Val(mem, <<"partial", (s - 1) * o.n + j>>)]) \o Bias(o, j))

-----------------------------------------------------------------------------
(* Reductions over a block: each thread leaves its part in `scratch`, then
   thread 0 adds them up (block_sum), or the halves are folded
   (block_max, argmax).                                                    *)
LeavePart(lane, value) == Shared("scratch", lane, Tx(lane)) :> value

AddUp(o, mem, lane) ==
  IF Tx(lane) # 0 THEN << >>
  ELSE Shared("scratch", lane, 0) :>
         FlattenSeq([i \in 1 .. o.threads |-> Val(mem, Shared("scratch", lane, i - 1))])

FoldHalf(mem, lane, stride) ==
  IF Tx(lane) >= stride THEN << >>
  ELSE LeavePart(lane, Val(mem, Shared("scratch", lane, Tx(lane))) \o
                       Val(mem, Shared("scratch", lane, Tx(lane) + stride)))

Halves(o) == LET strides == {s \in 1 .. o.threads \div 2 : \E p \in 0 .. 8 : s * 2 ^ p = o.threads \div 2}
             IN  SetToSortSeq(strides, LAMBDA a, b : a > b)

(* The norms: a block owns a row.                                          *)
RowAtom(o, lane, i) == <<"x", Bx(lane) * o.d + i>>
Scratch0(mem, lane) == Val(mem, Shared("scratch", lane, 0))
Mean(mem, lane) == Sum(mem, Register("mean", lane, 0))

RowPart(o, lane) ==
  LeavePart(lane, [e \in DOMAIN Strided(o, lane, o.d) |-> RowAtom(o, lane, Strided(o, lane, o.d)[e])])

KeepMean(mem, lane) == Register("mean", lane, 0) :> Scratch0(mem, lane)

SquarePart(o, mem, lane) ==
  LeavePart(lane, FlattenSeq([e \in DOMAIN Strided(o, lane, o.d) |->
    Append(Mean(mem, lane), RowAtom(o, lane, Strided(o, lane, o.d)[e]))]))

ScaleRow(o, mem, lane) ==
  [c \in {<<"out", Bx(lane) * o.d + i>> : i \in Range(Strided(o, lane, o.d))} |->
     Mean(mem, lane) \o Scratch0(mem, lane) \o <<<<"x", c[2]>>>>]

-----------------------------------------------------------------------------
(* Causal attention: a block owns a (token, head) and its score row.       *)
CudaScratch(qLen, heads, span) == qLen * heads * span      \* attention_scratch

AttnRow(o, lane) == By(lane) * o.heads + Bx(lane)
AttnSpan(o, lane) == o.qOffset + By(lane) - o.firstKey + 1
ScoreAt(o, lane, s) ==
  <<"score", AttnRow(o, lane) * (o.qOffset + o.qLen - o.firstKey) + s>>
OwnScores(o, mem, lane) ==
  FlattenSeq([e \in DOMAIN Strided(o, lane, AttnSpan(o, lane)) |->
    Val(mem, ScoreAt(o, lane, Strided(o, lane, AttnSpan(o, lane))[e]))])

(* A running maximum or total is right when it has seen the whole span.    *)
Whole(o, lane, seen) ==
  Range(seen) = Range(Keys(AttnRow(o, lane), Bx(lane) \div (o.heads \div o.kvHeads),
                           o.firstKey, o.qOffset + By(lane)))
Wrong(lane) == <<<<"wrong", lane[3]>>>>

ScoreRow(o, lane) ==
  [c \in {ScoreAt(o, lane, s) : s \in Range(Strided(o, lane, AttnSpan(o, lane)))} |->
     LET key == o.firstKey + c[2] - AttnRow(o, lane) * (o.qOffset + o.qLen - o.firstKey)
     IN  Keys(AttnRow(o, lane), Bx(lane) \div (o.heads \div o.kvHeads), key, key)]

KeepMax(mem, lane) == Register("max", lane, 0) :> Scratch0(mem, lane)

ExpRow(o, mem, lane) ==
  LET right == Whole(o, lane, Sum(mem, Register("max", lane, 0)))
      own == {ScoreAt(o, lane, s) : s \in Range(Strided(o, lane, AttnSpan(o, lane)))}
  IN  [c \in own |-> IF right THEN Val(mem, c) ELSE Wrong(lane)] @@
      LeavePart(lane, OwnScores(o, mem, lane))

WeighRow(o, mem, lane) ==
  IF Tx(lane) # 0 THEN << >>
  ELSE OutCell(AttnRow(o, lane),
         IF Whole(o, lane, Scratch0(mem, lane))
         THEN FlattenSeq([s \in 1 .. AttnSpan(o, lane) |-> Val(mem, ScoreAt(o, lane, s - 1))])
         ELSE Wrong(lane))

(* The vision tower's attention: a warp owns a query row of one head; a
   lane stands for the warp.                                               *)
FullWarp(o, lane) ==
  LET warp == GlobalId(o, lane)
  IN  IF warp >= o.qLen * o.heads THEN << >>
      ELSE OutCell(warp, Keys(warp, (warp % o.heads) \div (o.heads \div o.kvHeads), o.firstKey, o.qOffset))

-----------------------------------------------------------------------------
(* argmax over one block: the larger value wins, a tie by the lower index. *)
Lowest == -1     \* -INFINITY
Beats(a, b) == a[2] > b[2] \/ (a[2] = b[2] /\ a[3] < b[3])

ScanPart(o, lane) ==
  LET scan[e \in 0 .. Len(Strided(o, lane, Len(o.values)))] ==
        IF e = 0 THEN <<"best", Lowest, 0>>
        ELSE LET i == Strided(o, lane, Len(o.values))[e]
             IN  IF o.values[i + 1] > scan[e - 1][2] THEN <<"best", o.values[i + 1], i>> ELSE scan[e - 1]
  IN  LeavePart(lane, <<scan[Len(Strided(o, lane, Len(o.values)))]>>)

FoldBest(mem, lane, stride) ==
  IF Tx(lane) >= stride THEN << >>
  ELSE LET left  == Val(mem, Shared("scratch", lane, Tx(lane)))[1]
           right == Val(mem, Shared("scratch", lane, Tx(lane) + stride))[1]
       IN  LeavePart(lane, <<IF Beats(right, left) THEN right ELSE left>>)

StoreBest(mem, lane) ==
  IF Tx(lane) # 0 THEN << >> ELSE OutCell(0, <<<<"x", Scratch0(mem, lane)[1][3]>>>>)

-----------------------------------------------------------------------------
(* The launches.                                                           *)
Kernel(o) ==
  CASE o.op = "gemm" -> IF o.m > 1 THEN "blocked" ELSE "gemm"
    [] o.op = "gemm_quant" ->
         IF o.m >= RowThreshold THEN "rows"
         ELSE IF o.m = 1 /\ (o.k \div BlockWeights) % DecodeSplit = 0 /\ CeilDiv(o.n, o.threads) <= o.splitLimit
         THEN "split" ELSE "one"
    [] o.op = "attention" -> IF o.causal THEN "attention" ELSE "full"
    [] OTHER -> o.op

Grid(o) ==
  LET k == Kernel(o)
  IN  CASE k = "blocked" -> <<CeilDiv(o.n, TileSide), CeilDiv(o.m, TileSide)>>
        [] k \in {"gemm", "one"} -> <<CeilDiv(o.n, o.threads), o.m>>
        [] k = "rows" -> <<CeilDiv(o.n, o.threads), CeilDiv(o.m, QuantRows)>>
        [] k = "split" -> <<CeilDiv(o.n, o.threads), DecodeSplit>>
        [] k = "embedding" -> <<CeilDiv(o.d, o.threads), Len(o.tokens)>>
        [] k = "norm" -> <<o.n, 1>>
        [] k = "attention" -> <<o.heads, o.qLen>>
        [] k = "argmax" -> <<1, 1>>
        [] k = "conv2d" -> <<CeilDiv(o.batch * ConvExtent(o, o.height) * ConvExtent(o, o.width) * o.outCh, o.threads), 1>>
        [] k = "rope" -> <<CeilDiv(o.tokens * o.heads * (o.d \div 2), o.threads), 1>>
        [] k = "full" -> <<CeilDiv(o.qLen * o.heads, o.threads), 1>>
        [] k = "map" -> <<CeilDiv(o.n, o.threads), 1>>

CudaLanes(o) == (0 .. Grid(o)[1] - 1) \X (0 .. Grid(o)[2] - 1) \X (0 .. o.threads - 1)
CudaBlock(o, lane) == {mate \in CudaLanes(o) : Bx(mate) = Bx(lane) /\ By(mate) = By(lane)}

(* Number a sequence of stages, each a sequence of <<what, arg>>.          *)
Staged(stages) ==
  FlattenSeq([s \in DOMAIN stages |->
    [e \in DOMAIN stages[s] |-> [stage |-> s, what |-> stages[s][e][1], arg |-> stages[s][e][2]]]])

Tree(o, what) == [e \in DOMAIN Halves(o) |-> <<<<what, Halves(o)[e]>>>>]

NormStages(o) ==
  <<<<<<"part", 0>>>>, <<<<"addup", 0>>>>>> \o
  (IF o.centred THEN <<<<<<"mean", 0>>>>, <<<<"square", 0>>>>, <<<<"addup", 0>>>>>> ELSE << >>) \o
  <<<<<<"scale", 0>>>>>>

AttentionStages(o) ==
  <<<<<<"score", 0>>>>, <<<<"localmax", 0>>>>>> \o Tree(o, "fold") \o
  <<<<<<"max", 0>>>>, <<<<"exp", 0>>>>, <<<<"addup", 0>>>>, <<<<"weigh", 0>>>>>>

(* Stage the block, wait, use it, wait.                                    *)
Walk(blocks) ==
  FlattenSeq([b \in DOMAIN blocks |-> <<<<<<"stage", blocks[b]>>>>, <<<<"use", blocks[b]>>>>>>])
AllBlocks(o) == [b \in 1 .. o.k \div BlockWeights |-> b - 1]

CudaProgram(o, lane) ==
  LET k == Kernel(o)
  IN  CASE k = "blocked" -> Staged(Walk([b \in 1 .. CeilDiv(o.k, TileStep) |-> (b - 1) * TileStep]) \o
                                   <<<<<<"store", 0>>>>>>)
        [] k \in {"rows", "one"} -> Staged(Walk(AllBlocks(o)) \o <<<<<<"store", 0>>>>>>)
        [] k = "split" -> Staged(Walk(SplitBlocks(o, By(lane))) \o
                            <<<<<<"partial", 0>>>>>> \o
                            (IF By(lane) = 0 THEN <<<<<<"reduce", 0>>>>>> ELSE << >>))
        [] k = "norm" -> Staged(NormStages(o))
        [] k = "attention" -> Staged(AttentionStages(o))
        [] k = "argmax" -> Staged(<<<<<<"scan", 0>>>>>> \o Tree(o, "best") \o <<<<<<"store", 0>>>>>>)
        [] OTHER -> Staged(<<<<<<k, 0>>>>>>)

(* The stages that begin a launch: the reduction of the split's partials.  *)
CudaLaunches(o) ==
  IF Kernel(o) = "split" THEN {2 * Len(SplitBlocks(o, 0)) + 2} ELSE {}

Rows(o, lane) == IF Kernel(o) = "rows" THEN RowKernelRows(lane)
                 ELSE IF Kernel(o) = "split" THEN <<0>> ELSE OneRow(lane)

(* What a step stores, kernel by kernel.                                   *)
BlockedStep(o, mem, what, lane, arg) ==
  CASE what = "stage" -> StageTile(o, lane, arg)
    [] what = "use" -> MultiplyTile(o, mem, lane)
    [] what = "store" -> StoreTile(o, mem, lane)

QuantStep(o, mem, what, lane, arg) ==
  CASE what = "stage" -> StageRows(o, lane, Rows(o, lane), arg)
    [] what = "use" -> AccumulateRows(o, mem, lane, Rows(o, lane), arg)
    [] what = "store" -> StoreRows(o, mem, lane, Rows(o, lane))
    [] what = "partial" -> StorePartial(o, mem, lane)
    [] what = "reduce" -> ReducePartials(o, mem, lane)

NormStep(o, mem, what, lane) ==
  CASE what = "part" -> RowPart(o, lane)
    [] what = "addup" -> AddUp(o, mem, lane)
    [] what = "mean" -> KeepMean(mem, lane)
    [] what = "square" -> SquarePart(o, mem, lane)
    [] what = "scale" -> ScaleRow(o, mem, lane)

AttentionStep(o, mem, what, lane, arg) ==
  CASE what = "score" -> ScoreRow(o, lane)
    [] what = "localmax" -> LeavePart(lane, OwnScores(o, mem, lane))
    [] what = "fold" -> FoldHalf(mem, lane, arg)
    [] what = "max" -> KeepMax(mem, lane)
    [] what = "exp" -> ExpRow(o, mem, lane)
    [] what = "addup" -> AddUp(o, mem, lane)
    [] what = "weigh" -> WeighRow(o, mem, lane)

ArgmaxStep(o, mem, what, lane, arg) ==
  CASE what = "scan" -> ScanPart(o, lane)
    [] what = "best" -> FoldBest(mem, lane, arg)
    [] what = "store" -> StoreBest(mem, lane)

CudaStore(o, mem, what, lane, arg) ==
  LET k == Kernel(o)
  IN  CASE k = "blocked" -> BlockedStep(o, mem, what, lane, arg)
        [] k \in {"rows", "one", "split"} -> QuantStep(o, mem, what, lane, arg)
        [] k = "norm" -> NormStep(o, mem, what, lane)
        [] k = "attention" -> AttentionStep(o, mem, what, lane, arg)
        [] k = "argmax" -> ArgmaxStep(o, mem, what, lane, arg)
        [] k = "full" -> FullWarp(o, lane)
        [] k = "map" -> MapThread(o, lane)
        [] k = "embedding" -> EmbeddingThread(o, lane)
        [] k = "conv2d" -> ConvThread(o, lane)
        [] k = "rope" -> RopeThread(o, mem, lane)
        [] k = "gemm" -> GemmThread(o, mem, lane)
=============================================================================
