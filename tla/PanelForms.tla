----------------------------- MODULE PanelForms -----------------------------
(***************************************************************************)
(* The interleaved q4_k layout (kernel/repack_q4k.cpp): eight columns of   *)
(* weights woven into one panel, four rows of activations into one block,  *)
(* and the two AVX2 kernels that read them.                                *)
(*                                                                         *)
(* A 256-bit register is a function of its eight 32-bit lanes.  Column c's *)
(* block is at byte 144 * c, as in a matrix of one block a column.         *)
(***************************************************************************)
EXTENDS QuantForms

Columns == 0 .. 7
Rows == 0 .. 3

-----------------------------------------------------------------------------
(* repack_weights_q4k.                                                     *)

(* Byte `at` of a panel's qs is this byte of memory: eight bytes of each
   column in turn.                                                         *)
PanelCode(at) ==
  LET i == at \div 8 IN 144 * (i % 8) + 16 + (i \div 8) * 8 + (at % 8)

(* The scale and the min of sub-block `sub` of column c, taken out of the
   column's own block.                                                     *)
PanelPair(c, sub) ==
  LET sc == 144 * c + 4
      i  == sub % 4
  IN  IF sub < 4 THEN [sv |-> Bits(sc + i, 0, 6), mv |-> Bits(sc + i + 4, 0, 6)]
      ELSE [sv |-> Bits(sc + i + 8, 0, 4) \o Bits(sc + i, 6, 2),
            mv |-> Bits(sc + i + 8, 4, 4) \o Bits(sc + i + 4, 6, 2)]

(* Byte t of the twelve that hold the eight columns' pairs of a sub-block:
   six bits of one column below the top two of the column four further on,
   then the low nibbles of those.                                          *)
PanelScale(sub, t) ==
  LET sv(c) == PanelPair(c, sub).sv
      mv(c) == PanelPair(c, sub).mv
      sixBits(lo, hi) == SubSeq(lo, 1, 6) \o SubSeq(hi, 5, 6)
  IN  CASE t < 4 -> sixBits(sv(t), sv(t + 4))
        [] t \in 4 .. 7 -> sixBits(mv(t - 4), mv(t))
        [] OTHER -> SubSeq(sv(t - 4), 1, 4) \o SubSeq(mv(t - 4), 1, 4)

(* The kernels' reading of them: scales of column 0 to 7, then mins.       *)
PanelScaleMin(sub) ==
  UnpackScaleMinK4([w \in 1 .. 3 |->
    [b \in 0 .. 31 |-> PanelScale(sub, 4 * (w - 1) + (b \div 8))[(b % 8) + 1]]])

(* repack_activations: where weight w of row m goes in the block of four
   rows, and the sum it is added to.                                       *)
ActAt(m, w) == 32 * (w \div 8) + 8 * m + (w % 8)
ActSum(m, w) ==
  LET j == ActAt(m, w)
  IN  (((j % 32) \div 8) * 4) + ((j \div 256) * 16) + ((j \div 64) % 4)

(* The activation at place `at` of the block, and those of one sum.        *)
Activation(at) == [row |-> (at % 32) \div 8, x |-> (at \div 32) * 8 + (at % 8)]
ActSums == [s \in 0 .. 63 |-> {<<m, w>> \in Rows \X (0 .. 255) : ActSum(m, w) = s}]

-----------------------------------------------------------------------------
(* AVX2 lane moves.                                                        *)
Lanes32 == 0 .. 7
Quarter(imm, e) == (imm \div (4 ^ e)) % 4
ShuffleLanes(v, imm) == [l \in Lanes32 |-> v[4 * (l \div 4) + Quarter(imm, l % 4)]]
Blend(v, w, imm) == [l \in Lanes32 |-> IF (imm \div (2 ^ l)) % 2 = 1 THEN w[l] ELSE v[l]]
PickLanes(v, order) == [l \in Lanes32 |-> v[order[l + 1]]]
LowHalf(v)  == [l \in Lanes32 |-> v[l % 4]]
HighHalf(v) == [l \in Lanes32 |-> v[4 + (l % 4)]]

(* Eight lanes from place `at` of an array of bytes.                       *)
LoadLanes(at) == [l \in Lanes32 |-> at + 4 * l]

NibbleOf(byte, nibble) == Bits(byte, 4 * nibble, 4)

(* Four bytes of weights times four activations, lane by lane: the nibble
   of each byte meets the activation beside it, and the lane is summed into
   column `column(l)` of row `row(l)`.                                     *)
Products(weights, acts, nibble, scale, activation(_), row(_), column(_), group) ==
  {LET byte == PanelCode(weights[l] + e)
       act  == activation(acts[l] + e)
   IN  [Term("q", row(l), column(l), act.x, Weight(NibbleOf(byte, nibble), 0, scale[l], << >>),
             <<group, 2 * l + (e \div 2)>>)
          EXCEPT !.at[2] = IF act.row = row(l) THEN @ ELSE -1] : l \in Lanes32, e \in 0 .. 3}

(* The mins of sub-block `sub` against the sums of activations `sums(row)`. *)
Minimums(sub, rows, sums(_)) ==
  UNION {{Term("m", r, c, x, PanelScaleMin(sub)[8 + c], Float) : c \in Columns, x \in sums(r)} : r \in rows}

-----------------------------------------------------------------------------
(* gemv_q4k_8x8_cols: step 2 * sb + h is nibble h of 64 weights.  Chunk k
   holds eight bytes of each column; its two halves meet two dwords of the
   activations.                                                            *)
Gemv(step) ==
  LET sb == step \div 2
      h  == step % 2
      raw(part, k) == LoadLanes(256 * sb + 64 * k + 32 * part)
      scalemask == <<0, 4, 1, 5, 2, 6, 3, 7>>
      scales == LET sm == PanelScaleMin(step) IN [l \in Lanes32 |-> sm[scalemask[l + 1]]]
      lhs(k) == [l \in Lanes32 |-> 64 * sb + 32 * h + 16 * (k \div 2) + 4 * (l % 4)]
      rhs(k, half) == IF half = 0 THEN Blend(raw(0, k), ShuffleLanes(raw(1, k), 177), 170)
                      ELSE Blend(ShuffleLanes(raw(0, k), 177), raw(1, k), 170)
      imm(k, half) == <<0, 85, 170, 255>>[2 * (k % 2) + half + 1]
      activation(x) == [row |-> 0, x |-> x]
      row(l) == 0
      finalpermutemask == <<0, 2, 4, 6, 1, 3, 5, 7>>
      column(l) == CHOOSE c \in Columns : finalpermutemask[c + 1] = l
      sum(r) == HaddLane(BlockSums, step)
  IN  UNION {Products(rhs(k, half), ShuffleLanes(lhs(k), imm(k, half)), h, scales, activation, row, column, step) :
               k \in 0 .. 3, half \in 0 .. 1} \cup Minimums(step, {0}, sum)

(* The shuffles of a half: sp1 of the weights and the activations, or sp2. *)
GemmHalf(half) == IF half = 0 THEN <<136, 160>> ELSE <<221, 245>>

(* gemm_q4k_8x8_avx2, on one group of four rows: 2 x 2 tiles of rows and
   columns, `pair` the columns 0145 or 2367, `top` the rows 01 or 23.      *)
Gemm(step) ==
  LET sb == step \div 2
      h  == step % 2
      raw(part, k) == LoadLanes(256 * sb + 64 * k + 32 * part)
      requiredOrder == <<4, 5, 6, 7, 0, 1, 2, 3>>
      rhs(pair, k) == IF pair = 0 THEN Blend(raw(0, k), PickLanes(raw(1, k), requiredOrder), 240)
                      ELSE Blend(PickLanes(raw(0, k), requiredOrder), raw(1, k), 240)
      lhs(top, k) == LET all == LoadLanes(256 * sb + 128 * h + 32 * k)
                     IN  IF top = 0 THEN LowHalf(all) ELSE HighHalf(all)
      scales(pair) == LET sm == PanelScaleMin(step)
                      IN  ShuffleLanes([l \in Lanes32 |-> sm[l]], IF pair = 0 THEN 68 ELSE 238)
      (* iacc_row_r: lanes 0 and 1 of a half from one tile, 2 and 3 from the other *)
      tile(pair, top) ==
        LET row(l) == 2 * top + ((l % 4) \div 2)
            column(l) == CHOOSE c \in Columns :
              LET own   == IF row(l) % 2 = 0 THEN 0 ELSE 1
                  first == [i \in Lanes32 |-> <<0, i>>]
                  other == [i \in Lanes32 |-> <<1, i>>]
              IN  (IF own = 0 THEN Blend(first, ShuffleLanes(other, 78), 204)
                   ELSE Blend(ShuffleLanes(first, 78), other, 204))[c] = <<pair, l>>
        IN  UNION {Products(ShuffleLanes(rhs(pair, k), GemmHalf(half)[1]), ShuffleLanes(lhs(top, k), GemmHalf(half)[2]),
                            h, scales(pair), Activation, row, column, <<step, pair, top>>) :
                     k \in 0 .. 3, half \in 0 .. 1}
      sum(r) == {w \in 0 .. 255 : \E g \in 0 .. 1 : <<r, w>> \in ActSums[16 * sb + 4 * r + 2 * h + g]}
  IN  (UNION {tile(pair, top) : pair \in 0 .. 1, top \in 0 .. 1}) \cup Minimums(step, Rows, sum)
=============================================================================
