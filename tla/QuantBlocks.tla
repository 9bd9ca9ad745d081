---------------------------- MODULE QuantBlocks ----------------------------
(***************************************************************************)
(* The bits of a quantized super-block of 256 weights (quant/blocks.h):    *)
(* for every format, which bits of the block make weight `index`.          *)
(*                                                                         *)
(* A number read out of packed bytes is the sequence of its bits, lowest   *)
(* first, each the set of the block's bits that were OR-ed into it: {b}    *)
(* when the unpacking is right.  Bit b of the memory is bit b % 8 of byte  *)
(* b \div 8.  What the floats d and dmin, the codebooks and the products   *)
(* are worth is left out; a weight is                                      *)
(*     scale * (code - less)  -  min,   negated if the XOR of `sign` is 1. *)
(***************************************************************************)
EXTENDS Integers, Sequences, FiniteSets

Bits(byte, lo, n) == [e \in 1 .. n |-> {8 * byte + lo + e - 1}]

Weight(code, less, scale, min) ==
  [code |-> code, less |-> less, scale |-> scale, min |-> min, sign |-> {}, lane |-> 0]

Formats == {"q2_k", "q3_k", "q4_k", "q5_k", "q6_k", "iq2_xxs", "iq2_xs"}

-----------------------------------------------------------------------------
(* Where the formats put things, as the functions of blocks.h say: a weight
   is looked up by its index.                                              *)

(* Wrong variant of ScaleMinK4: the high bits of a min come from the byte
   the high bits of the scale come from.                                   *)
ScaleMinK4_OneByte(scales, j) ==
  IF j < 4 THEN [scale |-> Bits(scales + j, 0, 6), min |-> Bits(scales + j + 4, 0, 6)]
  ELSE [scale |-> Bits(scales + j + 4, 0, 4) \o Bits(scales + j - 4, 6, 2),
        min   |-> Bits(scales + j + 4, 4, 4) \o Bits(scales + j - 4, 6, 2)]

(* get_scale_min_k4: eight pairs of six bits in twelve bytes.              *)
ScaleMinK4(scales, j) ==
  IF j < 4 THEN [scale |-> Bits(scales + j, 0, 6), min |-> Bits(scales + j + 4, 0, 6)]
  ELSE [scale |-> Bits(scales + j + 4, 0, 4) \o Bits(scales + j - 4, 6, 2),
        min   |-> Bits(scales + j + 4, 4, 4) \o Bits(scales + j, 6, 2)]

DequantQ4K(block, index) ==
  LET group == index \div 32
      k4 == ScaleMinK4(block + 4, group)
  IN  Weight(Bits(block + 16 + (group \div 2) * 32 + (index % 32), 4 * (group % 2), 4), 0, k4.scale, k4.min)

DequantQ5K(block, index) ==
  LET pair == index \div 64
      high == (index % 64) \div 32
      i    == index % 32
      k4   == ScaleMinK4(block + 4, pair * 2 + high)
  IN  Weight(Bits(block + 48 + pair * 32 + i, 4 * high, 4) \o Bits(block + 16 + i, 2 * pair + high, 1),
             0, k4.scale, k4.min)

Q6KRawValue(block, index) ==
  LET half == index \div 128
      sub  == (index % 128) \div 32
      i    == index % 32
  IN  Bits(block + half * 64 + (sub % 2) * 32 + i, IF sub < 2 THEN 0 ELSE 4, 4)
        \o Bits(block + 128 + half * 32 + i, 2 * sub, 2)

DequantQ6K(block, index) ==
  LET half == index \div 128
      sub  == (index % 128) \div 32
      i    == index % 32
  IN  Weight(Q6KRawValue(block, index), 32, Bits(block + 192 + half * 8 + (i \div 16) + 2 * sub, 0, 8), << >>)

DequantQ2K(block, index) ==
  LET group == index \div 16
      pair  == group % 8
      byte  == block + 16 + (group \div 8) * 32 + (pair % 2) * 16 + (index % 16)
  IN  Weight(Bits(byte, (pair \div 2) * 2, 2), 0, Bits(block + group, 0, 4), Bits(block + group, 4, 4))

DequantQ3K(block, index) ==
  LET group == index \div 16
      low4  == IF group < 8 THEN Bits(block + 96 + group, 0, 4) ELSE Bits(block + 96 + group - 8, 4, 4)
      high2 == Bits(block + 104 + (group % 4), 2 * (group \div 4), 2)
      run   == index % 128
      quad  == Bits(block + 32 + (index \div 128) * 32 + (run % 32), 2 * (run \div 32), 2)
  IN  Weight(quad \o Bits(block + (index % 32), index \div 32, 1), 4, low4 \o high2, << >>)

(* iq2_is_negative: sign j of the eight; the eighth is the parity of the
   seven stored bits, which start at bit `first`.                          *)
NegativeBits(first, j) == IF j < 7 THEN {first + j} ELSE first .. first + 6

Coded(code, scale, sign, j) ==
  [code |-> code, less |-> 0, scale |-> scale, min |-> << >>, sign |-> sign, lane |-> j]

DequantIq2Xxs(block, index) ==
  LET part  == (index % 32) \div 8
      j     == index % 8
      chunk == block + 2 + (index \div 32) * 8
  IN  Coded(Bits(chunk + part, 0, 8), Bits(chunk + 4, 28, 4), NegativeBits(8 * (chunk + 4) + 7 * part, j), j)

DequantIq2Xs(block, index) ==
  LET sub  == index \div 32
      part == (index % 32) \div 8
      j    == index % 8
      word == block + 2 + sub * 8 + part * 2
  IN  Coded(Bits(word, 0, 9), Bits(block + 66 + sub, IF part < 2 THEN 0 ELSE 4, 4),
            NegativeBits(8 * word + 9, j), j)

DequantBlock(type, block, index) ==
  CASE type = "q2_k" -> DequantQ2K(block, index) [] type = "q3_k" -> DequantQ3K(block, index)
    [] type = "q4_k" -> DequantQ4K(block, index) [] type = "q5_k" -> DequantQ5K(block, index)
    [] type = "q6_k" -> DequantQ6K(block, index) [] type = "iq2_xxs" -> DequantIq2Xxs(block, index)
    [] type = "iq2_xs" -> DequantIq2Xs(block, index)

-----------------------------------------------------------------------------
(* The same formats as the Python reference unpacks them
   (pocketllm/quant/k_quants.py, iq23.py): a block is walked run by run and
   every run is scattered to its place in the output.  One pair
   <<index, weight>> for each weight.                                      *)
Nibbles == 0 .. 1

(* Pair idx of a q4_k or q5_k block as the reference unpacks it.           *)
ScaleMinReference(block, idx) ==
  LET field(hi, lo4) == lo4 \o Bits(hi, 6, 2)
      s == block + 4
  IN  IF idx < 4 THEN [scale |-> Bits(s + idx, 0, 6), min |-> Bits(s + idx + 4, 0, 6)]
      ELSE [scale |-> field(s + idx - 4, Bits(s + idx + 4, 0, 4)), min |-> field(s + idx, Bits(s + idx + 4, 4, 4))]

ReferenceScatter(type, block) ==
  CASE type = "q2_k" ->
         {<<g * 16 + i, Weight(Bits(block + 16 + (g \div 8) * 32 + ((g % 8) % 2) * 16 + i, ((g % 8) \div 2) * 2, 2), 0,
                               Bits(block + g, 0, 4), Bits(block + g, 4, 4))>> : g \in 0 .. 15, i \in 0 .. 15}
    [] type = "q3_k" ->
         {<<k, Weight(Bits(block + 32 + (k \div 128) * 32 + (k % 32), 2 * ((k % 128) \div 32), 2)
                        \o Bits(block + (k % 32), k \div 32, 1), 4,
                      Bits(block + 96 + ((k \div 16) % 8), IF k < 128 THEN 0 ELSE 4, 4)
                        \o Bits(block + 96 + 8 + ((k \div 16) % 4), 2 * (k \div 64), 2), << >>)>> : k \in 0 .. 255}
    [] type = "q4_k" ->
         {LET k4 == ScaleMinReference(block, pair * 2 + h)
          IN  <<pair * 64 + h * 32 + i, Weight(Bits(block + 16 + pair * 32 + i, 4 * h, 4), 0, k4.scale, k4.min)>> :
            pair \in 0 .. 3, h \in Nibbles, i \in 0 .. 31}
    [] type = "q5_k" ->
         {LET k4 == ScaleMinReference(block, pair * 2 + h)
          IN  <<pair * 64 + h * 32 + i, Weight(Bits(block + 48 + pair * 32 + i, 4 * h, 4)
                                                 \o Bits(block + 16 + i, 2 * pair + h, 1), 0, k4.scale, k4.min)>> :
            pair \in 0 .. 3, h \in Nibbles, i \in 0 .. 31}
    [] type = "q6_k" ->
         {<<half * 128 + q * 32 + i,
            Weight(Bits(block + half * 64 + (q % 2) * 32 + i, 4 * (q \div 2), 4)
                     \o Bits(block + 128 + half * 32 + i, 2 * q, 2), 32,
                   Bits(block + 192 + half * 8 + 2 * q + (i \div 16), 0, 8), << >>)>> :
            half \in 0 .. 1, q \in 0 .. 3, i \in 0 .. 31}
    [] type = "iq2_xxs" ->
         {LET aux == 8 * (block + 2 + sub * 8 + 4)
          IN  <<sub * 32 + part * 8 + j,
                Coded(Bits(block + 2 + sub * 8 + part, 0, 8), [e \in 1 .. 4 |-> {aux + 27 + e}],
                      NegativeBits(aux + 7 * part, j), j)>> : sub \in 0 .. 7, part \in 0 .. 3, j \in 0 .. 7}
    [] type = "iq2_xs" ->
         {<<sub * 32 + part * 8 + j,
            Coded(Bits(block + 2 + sub * 8 + part * 2, 0, 9), Bits(block + 66 + sub, 4 * (part \div 2), 4),
                  NegativeBits(8 * (block + 2 + sub * 8 + part * 2) + 9, j), j)>> :
            sub \in 0 .. 7, part \in 0 .. 3, j \in 0 .. 7}
=============================================================================
