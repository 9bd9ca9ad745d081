----------------------------- MODULE CpuKernels -----------------------------
(***************************************************************************)
(* The CPU backend's kernels (kernel/kernels.cpp, kernel/cpu/backend.cpp)  *)
(* as `parallel_for` runs them: how many units each is cut into, and what  *)
(* one unit stores, at the addresses the code computes.                    *)
(*                                                                         *)
(* A kernel is a sequence of parallel_for calls; `CpuUnits` and            *)
(* `CpuGrain` give the units and the grain of each, `CpuStore` the stores  *)
(* of one unit.  Unit `chunk` is the task it runs in.                      *)
(***************************************************************************)
EXTENDS OpContract, Partition

CONSTANTS
  AttentionRows,     \* kAttentionRows: query rows of one attention unit
  HeadBatch,         \* kAttentionHeadBatch: heads of one attention unit
  FlashBlock,        \* kFlashBlock: keys of one block of a decode's span
  FlashSplit,        \* kFlashSplit: chunks a decode's span is cut into
  RowsPerWalk,       \* gemm_rows_per_walk(): 4 or 8
  Grain              \* min_per_task of the calls that are not attention's

ASSUME CpuAssumption ==
  /\ AttentionRows \in Nat \ {0} /\ HeadBatch \in Nat \ {0} /\ FlashBlock \in Nat \ {0}
  /\ FlashSplit \in Nat \ {0} /\ RowsPerWalk \in Nat \ {0}
  /\ Grain \in Nat \ {0}

Lesser(a, b) == IF a < b THEN a ELSE b

(* The stores of a unit that works through a set of places.                *)
Stores(places, cell(_), value(_)) ==
  [c \in {cell(p) : p \in places} |-> value(CHOOSE p \in places : cell(p) = c)]

-----------------------------------------------------------------------------
(* Norms over rows, maps over elements.                                    *)
RowNorm(o, u) ==
  LET row == RowTerms(o, u)
      sum == IF o.centred THEN row \o Centred(row, row) ELSE row
      cell(e) == <<"out", u * o.d + e>>
      value(e) == Append(sum, row[e + 1])
  IN  Stores(0 .. o.d - 1, cell, value)

Elementwise(o, u) == <<"out", u>> :> <<<<"x", u>>>>

GemmCell(o, mem, u) ==
  LET r == u \div o.n
      j == u - r * o.n
  IN  Into(mem, o, <<"out", r * o.n + j>>, Product(r, j, o.k) \o Bias(o, j))

-----------------------------------------------------------------------------
(* gemm_quant.  With the integer path, the activations are first quantized
   a block at a time; then groups of rows share one walk of a weight row,
   and the rows left over are walked alone.                                *)
QuantizeBlock(o, u) ==
  <<"q8", u>> :> [e \in 1 .. BlockWeights |-> <<"x", u * BlockWeights + e - 1>>]

(* The dot of row r's quantized blocks with weight row j.                  *)
QuantDot(o, mem, r, j) ==
  LET rowBlocks == o.k \div BlockWeights
      q8[b \in 0 .. rowBlocks - 1] == Val(mem, <<"q8", r * rowBlocks + b>>)
      w(b, e) == <<"w", j * o.k + b * BlockWeights + e - 1>>
  IN  FlattenSeq([b \in 1 .. rowBlocks |->
        FlattenSeq([e \in 1 .. Len(q8[b - 1]) |-> <<q8[b - 1][e], w(b - 1, e)>>])])

(* Wrong variant of GroupedRows: the rows past the last whole group start
   where the groups start.                                                 *)
GroupedRows_TailFromZero(o, g) ==
  LET groups == o.m \div RowsPerWalk
  IN  IF g < groups THEN g * RowsPerWalk .. (g + 1) * RowsPerWalk - 1
      ELSE {g - groups}

(* The activation rows of group number g: a whole group, or one row.       *)
GroupedRows(o, g) ==
  LET groups == o.m \div RowsPerWalk
  IN  IF g < groups THEN g * RowsPerWalk .. (g + 1) * RowsPerWalk - 1
      ELSE {groups * RowsPerWalk + (g - groups)}

GroupedWalk(o, mem, u) ==
  LET g == u \div o.n
      j == u - g * o.n
      cell(r) == <<"out", r * o.n + j>>
      value(r) == Into(mem, o, cell(r), QuantDot(o, mem, r, j) \o Bias(o, j))[cell(r)]
  IN  Stores(GroupedRows(o, g), cell, value)

-----------------------------------------------------------------------------
(* A token's row; zeros for an id the table does not have.                 *)
EmbeddingRow(o, u) ==
  LET id == o.tokens[u + 1]
      cell(e) == <<"out", u * o.d + e>>
      value(e) == IF id < 0 \/ id >= o.vocab THEN << >> ELSE <<<<"table", id * o.d + e>>>>
  IN  Stores(0 .. o.d - 1, cell, value)

(* Every output channel at one output position of one image.               *)
ConvPosition(o, u) ==
  LET h == ConvExtent(o, o.height)
      w == ConvExtent(o, o.width)
      b == u \div (h * w)
      p == u % (h * w)
      cell(oc) == <<"out", b * o.outCh * h * w +
                           IF o.channelMajor THEN oc * h * w + p ELSE p * o.outCh + oc>>
      value(oc) == ConvTaps(o, b, oc, p \div w, p % w)
  IN  Stores(0 .. o.outCh - 1, cell, value)

(* One (token, head): every pair of its vector is rotated in place.        *)
RopeHead(o, mem, u) ==
  LET half == o.d \div 2
      position == o.start + u \div o.heads
      first(i)  == <<"x", u * o.d + IF o.split THEN i ELSE 2 * i>>
      second(i) == <<"x", u * o.d + IF o.split THEN i + half ELSE 2 * i + 1>>
      a(i) == Val(mem, first(i))
      b(i) == Val(mem, second(i))
      cosine(i) == Rotated(TRUE, position, i, a(i), b(i))
      sine(i)   == Rotated(FALSE, position, i, a(i), b(i))
  IN  Stores(0 .. half - 1, first, cosine) @@ Stores(0 .. half - 1, second, sine)

(* One (row, KV head) converted into an f16 cache.                         *)
KvConvert(o, u) ==
  LET row == u \div o.kvHeads
      at == row * o.kvHeads + (u - row * o.kvHeads)
  IN  <<"out", at>> :> <<<<"x", at>>>>

(* argmax: a later value displaces the best only when it is larger.        *)
FirstLargest(o, u) ==
  LET scan[e \in 1 .. Len(o.values)] ==
        IF e = 1 THEN 1
        ELSE IF o.values[e] > o.values[scan[e - 1]] THEN e ELSE scan[e - 1]
  IN  <<"out", u>> :> <<<<"x", scan[Len(o.values)] - 1>>>>

-----------------------------------------------------------------------------
(* Attention.                                                              *)
Group(o) == o.heads \div o.kvHeads
QueryBlocks(o) == CeilDiv(o.qLen, AttentionRows)
HeadGroups(o) == CeilDiv(o.heads, HeadBatch)

(* attention_full: every query row sees the whole span.                    *)
FullUnit(o, u) ==
  IF o.qOffset + 1 - o.firstKey <= 0 THEN << >>
  ELSE <<"out", u>> :> Keys(u, (u % o.heads) \div Group(o), o.firstKey, o.qOffset)

(* A decode step (one query row): the span is cut into blocks, the blocks
   into C chunks, and a unit folds one chunk for every head of a KV head.  *)
SpanBlocks(o) == CeilDiv(o.qOffset + o.qLen - o.firstKey, FlashBlock)
FlashChunks(o) == Lesser(FlashSplit, IF SpanBlocks(o) < 1 THEN 1 ELSE SpanBlocks(o))

DecodeChunk(o, u) ==
  LET C  == FlashChunks(o)
      kv == u \div C
      c  == u - kv * C
      blocks == ChunkRange(SpanBlocks(o), c, C)
      Fold(row) == FlattenSeq([e \in 1 .. Cardinality(blocks) |->
        LET lo == o.firstKey + (Bound(SpanBlocks(o), c, C) + e - 1) * FlashBlock
        IN  Keys(row, kv, lo, Lesser(o.qOffset, lo + FlashBlock - 1))])
      cell(p) == <<"part", u * Group(o) + p>>
      value(p) == Fold(kv * Group(o) + p)
  IN  Stores(0 .. Group(o) - 1, cell, value)

(* The chunks of a KV head's partials, merged for each of its heads.       *)
DecodeMerge(o, mem, u) ==
  LET C == FlashChunks(o)
      cell(g) == <<"out", u * Group(o) + g>>
      value(g) == FlattenSeq([c \in 1 .. C |->
                    Val(mem, <<"part", (u * C + c - 1) * Group(o) + g>>)])
  IN  Stores(0 .. Group(o) - 1, cell, value)

(* block_of: the query blocks are dealt from both ends.                    *)
QueryBlock(o, u) ==
  LET p == u \div HeadGroups(o)
  IN  IF p % 2 = 1 THEN QueryBlocks(o) - 1 - (p \div 2) ELSE p \div 2

(* What a prefill unit covers: query rows t0.., heads h0.., one KV head.   *)
Tile(o, u) ==
  LET t0 == QueryBlock(o, u) * AttentionRows
      h0 == (u % HeadGroups(o)) * HeadBatch
  IN  [t0 |-> t0, rows |-> Lesser(AttentionRows, o.qLen - t0),
       h0 |-> h0, heads |-> Lesser(HeadBatch, o.heads - h0), kv |-> h0 \div Group(o)]

TileRow(o, t, j, p) == (t.t0 + j) * o.heads + t.h0 + p

(* The keys row j of a tile walks: those the whole tile shares, then the
   causal tail, which only the later rows see.                             *)
TileKeys(o, t, j, p) ==
  Keys(TileRow(o, t, j, p), t.kv, o.firstKey, o.qOffset + t.t0) \o
  Keys(TileRow(o, t, j, p), t.kv, o.qOffset + t.t0 + 1, o.qOffset + t.t0 + j)

TilePlaces(t) == (0 .. t.rows - 1) \X (0 .. t.heads - 1)

(* Prefill, one pass: each (row, head) of the tile is folded on the stack. *)
PrefillUnit(o, u) ==
  LET t == Tile(o, u)
      cell(at) == <<"out", TileRow(o, t, at[1], at[2])>>
      value(at) == TileKeys(o, t, at[1], at[2])
  IN  Stores(TilePlaces(t), cell, value)

(* Prefill with the score rows kept (d past the stack's bound, or the
   scalar sum forced): the task's region of the caller's scratch.          *)
MaxSpan(o) == o.qOffset + o.qLen - o.firstKey
ScoreCell(o, chunk, j, p, key) ==
  <<"score", chunk * AttentionRows * HeadBatch * MaxSpan(o)
             + (p * AttentionRows + j) * MaxSpan(o) + key - o.firstKey>>

ScorePass(o, u, chunk) ==
  LET t == Tile(o, u)
      places == {<<at[1], at[2], key>> : at \in TilePlaces(t), key \in o.firstKey .. o.qOffset + o.qLen}
      seen == {at \in places : at[3] <= o.qOffset + t.t0 + at[1]}
      cell(at) == ScoreCell(o, chunk, at[1], at[2], at[3])
      value(at) == Keys(TileRow(o, t, at[1], at[2]), t.kv, at[3], at[3])
  IN  Stores(seen, cell, value)

(* The softmax and the weighted sum, over each row's own span.             *)
WeightedSum(o, mem, u, chunk) ==
  LET t == Tile(o, u)
      cell(at) == <<"out", TileRow(o, t, at[1], at[2])>>
      value(at) ==
        LET span == o.qOffset + t.t0 + at[1] - o.firstKey + 1
        IN  FlattenSeq([e \in 1 .. span |->
              Val(mem, ScoreCell(o, chunk, at[1], at[2], o.firstKey + e - 1))])
  IN  Stores(TilePlaces(t), cell, value)

(* Wrong variant of Scratch: sized for one task.                           *)
Scratch_OneTask(qLen, heads, span, threads) == AttentionRows * HeadBatch * span

(* attention_scratch, in floats.                                           *)
Scratch(qLen, heads, span, threads) ==
  LET tasks == PartitionSize(CeilDiv(qLen, AttentionRows) * CeilDiv(heads, HeadBatch), 1, threads)
  IN  (IF tasks < 1 THEN 1 ELSE tasks) * AttentionRows * HeadBatch * span

-----------------------------------------------------------------------------
(* A kernel's parallel_for calls: <<what, units, grain>>.                  *)
CpuCalls(o) ==
  CASE o.op = "norm"  -> <<<<"norm", o.n, Grain>>>>
    [] o.op = "map"   -> <<<<"map", o.n, Grain>>>>
    [] o.op = "argmax" -> <<<<"argmax", 1, 1>>>>
    [] o.op = "gemm"  -> <<<<"gemm", o.m * o.n, Grain>>>>
    [] o.op = "gemm_quant" ->
         IF o.integer
         THEN LET groups == o.m \div RowsPerWalk
              IN  <<<<"quantize", o.m * (o.k \div BlockWeights), Grain>>,
                    <<"walk", (groups + o.m - groups * RowsPerWalk) * o.n, Grain>>>>
         ELSE <<<<"gemm", o.m * o.n, Grain>>>>
    [] o.op = "embedding" -> <<<<"embedding", Len(o.tokens), 1>>>>
    [] o.op = "conv2d" -> <<<<"conv2d", o.batch * ConvExtent(o, o.height) * ConvExtent(o, o.width), 1>>>>
    [] o.op = "rope"   -> <<<<"rope", o.tokens * o.heads, Grain>>>>
    [] o.op = "kv_append" -> <<<<"convert", o.n, Grain>>>>
    [] o.op = "attention" ->
         IF ~o.causal THEN <<<<"full", o.qLen * o.heads, 1>>>>
         ELSE IF o.kept THEN <<<<"scores", QueryBlocks(o) * HeadGroups(o), 1>>>>
         ELSE IF o.qLen = 1 THEN <<<<"decode", o.kvHeads * FlashChunks(o), 1>>, <<"merge", o.kvHeads, 1>>>>
         ELSE <<<<"prefill", QueryBlocks(o) * HeadGroups(o), 1>>>>

(* What unit u of a call stores; the score kernel's unit has two passes.   *)
CpuStore(o, mem, what, u, chunk, pass) ==
  CASE what = "norm" -> RowNorm(o, u)
    [] what = "map" -> Elementwise(o, u)
    [] what = "argmax" -> FirstLargest(o, u)
    [] what = "gemm" -> GemmCell(o, mem, u)
    [] what = "quantize" -> QuantizeBlock(o, u)
    [] what = "walk" -> GroupedWalk(o, mem, u)
    [] what = "embedding" -> EmbeddingRow(o, u)
    [] what = "conv2d" -> ConvPosition(o, u)
    [] what = "rope" -> RopeHead(o, mem, u)
    [] what = "convert" -> KvConvert(o, u)
    [] what = "full" -> FullUnit(o, u)
    [] what = "decode" -> DecodeChunk(o, u)
    [] what = "merge" -> DecodeMerge(o, mem, u)
    [] what = "prefill" -> PrefillUnit(o, u)
    [] what = "scores" -> IF pass = 0 THEN ScorePass(o, u, chunk) ELSE WeightedSum(o, mem, u, chunk)
=============================================================================
