----------------------------- MODULE QuantForms -----------------------------
(***************************************************************************)
(* The loops that read a block inside a dot product: the scalar, AVX2 and  *)
(* int8 forms of kernels.cpp, CUDA's, and the block a load-time repack     *)
(* makes of q6_k.  A loop is walked a run of 32 weights at a time.         *)
(*                                                                         *)
(* A form puts terms into its sum, each [at, got, lane]:                   *)
(*   <<"q", row, col, x>>  the weight multiplied with activation x         *)
(*   <<"m", row, col, x>>  the min subtracted for activation x             *)
(*   <<"o", row, col, x>>  the scale whose 32-fold is subtracted for x     *)
(* and `lane` the 16-bit lane its product was added in, if it was.         *)
(***************************************************************************)
EXTENDS QuantBlocks

(* Machine words as the bits that were OR-ed into each of their bits.      *)
Load(byte, n) == [b \in 0 .. 8 * n - 1 |-> {8 * byte + b}]
ShiftRight(w, n) == [b \in DOMAIN w |-> IF b + n \in DOMAIN w THEN w[b + n] ELSE {}]
ShiftLeft(w, n)  == [b \in DOMAIN w |-> IF b - n \in DOMAIN w THEN w[b - n] ELSE {}]
MaskBytes(w, kept) == [b \in DOMAIN w |-> IF b % 8 \in kept THEN w[b] ELSE {}]
Either(v, w) == [b \in DOMAIN v |-> v[b] \cup w[b]]

(* Byte i of a word as a number: its bits up to the highest that is there. *)
ByteOf(w, i) ==
  LET bit(e) == w[8 * i + e - 1]
      top == CHOOSE n \in 0 .. 8 : /\ n = 0 \/ bit(n) # {}
                                   /\ \A e \in n + 1 .. 8 : bit(e) = {}
  IN  [e \in 1 .. top |-> bit(e)]

(* unpack_scale_min_k4: three 32-bit words are shifted and masked into the
   eight scales (bytes 0 to 7) and the eight mins (bytes 8 to 15).         *)
UnpackScaleMinK4(words) ==
  LET high2(w)   == ShiftLeft(MaskBytes(ShiftRight(w, 6), 0 .. 1), 4)
      unpacked   == << MaskBytes(words[1], 0 .. 5),
                       Either(MaskBytes(words[3], 0 .. 3), high2(words[1])),
                       MaskBytes(words[2], 0 .. 5),
                       Either(MaskBytes(ShiftRight(words[3], 4), 0 .. 3), high2(words[2])) >>
  IN  [g \in 0 .. 15 |-> ByteOf(unpacked[(g \div 4) + 1], g % 4)]

-----------------------------------------------------------------------------
(* The terms of one run, one for each x in `xs`.                           *)
Term(part, row, col, x, got, lane) == [at |-> <<part, row, col, x>>, got |-> got, lane |-> lane]
Float == << >>

Put(part, row, xs, value(_)) == {Term(part, row, 0, x, value(x), Float) : x \in xs}

(* A form that computes scale * code - min for each weight.                *)
Whole(xs, weight(_)) ==
  {Term("q", 0, 0, x, [weight(x) EXCEPT !.min = << >>], Float) : x \in xs} \cup
  {Term("m", 0, 0, x, weight(x).min, Float) : x \in {y \in xs : weight(y).min # << >>}}

(* maddubs: activations 2t and 2t + 1 of a run share 16-bit lane t.        *)
Pairs(row, xs, product(_)) == {Term("q", row, 0, x, product(x), <<row, x \div 2>>) : x \in xs}

Run(step) == 32 * step .. 32 * step + 31

(* dot_row_generic, and CUDA's loop for the formats it has no form for.    *)
GenericRun(type, step) ==
  LET weight(x) == DequantBlock(type, 0, x) IN Whole(Run(step), weight)

(* dot_q4_k_block_scalar, accumulate_q4_group: a group of 32 has one scale
   and one min, its codes are one nibble of 32 consecutive bytes.          *)
Q4Group(g) ==
  LET k4 == ScaleMinK4(4, g)
      weight(x) == Weight(Bits(16 + (g \div 2) * 32 + (x - 32 * g), IF g % 2 # 0 THEN 4 ELSE 0, 4), 0, k4.scale, k4.min)
  IN  Whole(Run(g), weight)

(* dot_q6_k_block_scalar and CUDA's loop: `col` counts up through the two
   halves and their four runs.                                             *)
Q6Run(step) ==
  LET half == step \div 4
      sub  == step % 4
      i(x) == x - 32 * step
      weight(x) == Weight(Bits(half * 64 + (sub % 2) * 32 + i(x), IF sub < 2 THEN 0 ELSE 4, 4)
                            \o Bits(128 + half * 32 + i(x), 2 * sub, 2), 32,
                          Bits(192 + half * 8 + (i(x) \div 16) + 2 * sub, 0, 8), << >>)
  IN  Whole(Run(step), weight)

(* accumulate_q6_half: eight weights a load, two scales a run.             *)
Q6Lanes(step) ==
  LET half == step \div 4
      sub  == step % 4
      i(x) == 8 * ((x - 32 * step) \div 8)
      lane(x) == x - (half * 128 + sub * 32 + i(x))
      ql(x) == Load(half * 64 + (sub % 2) * 32 + i(x) + lane(x), 1)
      qh(x) == Load(128 + half * 32 + i(x) + lane(x), 1)
      low(x)  == IF sub < 2 THEN MaskBytes(ql(x), 0 .. 3) ELSE ShiftRight(ql(x), 4)
      high(x) == ShiftLeft(MaskBytes(ShiftRight(qh(x), 2 * sub), 0 .. 1), 4)
      weight(x) == Weight(ByteOf(Either(low(x), high(x)), 0), 32,
                          Bits(192 + half * 8 + (IF i(x) < 16 THEN 0 ELSE 1) + 2 * sub, 0, 8), << >>)
  IN  Whole(Run(step), weight)

-----------------------------------------------------------------------------
(* The int8 forms: products of bytes are added in pairs to 16 bits, then
   multiplied by a scale picked with a byte shuffle.                       *)

(* The 16-bit lanes a row of a shuffle table picks.                        *)
ScaleShuffleK4(i, t) == i
ScaleShuffleK6(i, t) == 2 * i + (t \div 8)

(* hadd of the 16 sums: lane g is the sum of activations 32g .. 32g + 31.  *)
HaddLane(sums, g) ==
  LET pair == IF g < 4 THEN 2 * g ELSE 8 + 2 * (g - 4) IN sums[pair] \cup sums[pair + 1]
BlockSums == [s \in 0 .. 15 |-> 16 * s .. 16 * s + 15]

(* dot_row_q8k and every row of dot_Rrows_q8k, q4_k: step 2j + h is nibble
   h of 32 bytes.  The mins are folded in before the first step, against
   the sums of the activations.                                            *)
Q8K4(row, step) ==
  LET scalesMins == UnpackScaleMinK4([w \in 1 .. 3 |-> Load(4 + 4 * (w - 1), 4)])
      j == step \div 2
      nibble(e) == ByteOf(MaskBytes(IF step % 2 = 0 THEN Load(16 + 32 * j + e, 1)
                                    ELSE ShiftRight(Load(16 + 32 * j + e, 1), 4), 0 .. 3), 0)
      product(x) == Weight(nibble(x - 32 * step), 0, scalesMins[ScaleShuffleK4(step, (x % 32) \div 2)], << >>)
      minimum(x) == LET g == CHOOSE l \in 0 .. 7 : x \in HaddLane(BlockSums, l) IN scalesMins[8 + g]
      mins == IF step = 0 THEN 0 .. 255 ELSE {}
  IN  Pairs(row, Run(step), product) \cup Put("m", row, mins, minimum)

(* The same for q6_k.  A 16-bit shift moves two bytes at once, so the bits
   of qh are masked before they are shifted; 32 times each scale is
   subtracted against the sums of 16 activations.                          *)
Q8K6(row, step) ==
  LET j == step \div 4
      sub == step % 4
      word(at, e) == Load(at + 2 * (e \div 2), 2)
      ql(e) == word(64 * j + 32 * (sub % 2), e)
      qh(e) == MaskBytes(word(128 + 32 * j, e), {2 * sub, 2 * sub + 1})
      low(e)  == MaskBytes(IF sub < 2 THEN ql(e) ELSE ShiftRight(ql(e), 4), 0 .. 3)
      high(e) == IF sub <= 2 THEN ShiftLeft(qh(e), 4 - 2 * sub) ELSE ShiftRight(qh(e), 2)
      code(e) == ByteOf(Either(low(e), high(e)), e % 2)
      scale(s) == Bits(192 + s, 0, 8)
      product(x) == Weight(code(x - 32 * step), 0, scale(ScaleShuffleK6(step, (x % 32) \div 2)), << >>)
      offset(x) == scale(CHOOSE s \in 0 .. 15 : x \in BlockSums[s])
      offsets == IF step = 0 THEN 0 .. 255 ELSE {}
  IN  Pairs(row, Run(step), product) \cup Put("o", row, offsets, offset)

-----------------------------------------------------------------------------
(* repack_weights_q6k: the byte a repacked block holds at `at` - the code,
   its 32 already subtracted, a copied scale, a copied d, or padding.      *)
RepackedByte(at) ==
  CASE at \in 0 .. 255   -> [code |-> Q6KRawValue(0, at), less |-> 32]
    [] at \in 256 .. 271 -> [code |-> Bits(192 + at - 256, 0, 8), less |-> 0]
    [] at \in 272 .. 273 -> [code |-> Bits(208 + at - 272, 0, 8), less |-> 0]
    [] OTHER             -> [code |-> << >>, less |-> 0]

(* CUDA's loop over it: sixteen bytes are read as four words.              *)
Q6RepackedRun(step) ==
  LET g(x) == x \div 16
      i(x) == x % 16
      byte(x) == RepackedByte(16 * g(x) + 4 * (i(x) \div 4) + (i(x) % 4))
      weight(x) == Weight(byte(x).code, byte(x).less, RepackedByte(256 + g(x)).code, << >>)
  IN  Whole(Run(step), weight)

(* CUDA's loop for q4_k: the header and the codes are read as words, and
   the scales unpacked in line.                                            *)
Q4Words(g) ==
  LET hb(o) == Load(4 * (o \div 4), 4)
      byte(o, lo, n) == [e \in 1 .. n |-> hb(o)[8 * (o % 4) + lo + e - 1]]
      scale == IF g < 4 THEN byte(4 + g, 0, 6) ELSE byte(4 + g + 4, 0, 4) \o byte(4 + g - 4, 6, 2)
      minimum == IF g < 4 THEN byte(4 + g + 4, 0, 6) ELSE byte(4 + g + 4, 4, 4) \o byte(4 + g, 6, 2)
      word(i) == Load(16 + (g \div 2) * 32 + 4 * (i \div 4), 4)
      code(i) == [e \in 1 .. 4 |-> word(i)[8 * (i % 4) + 4 * (g % 2) + e - 1]]
      weight(x) == Weight(code(x - 32 * g), 0, scale, minimum)
  IN  Whole(Run(g), weight)
=============================================================================
