------------------------------ MODULE Numbers ------------------------------
(***************************************************************************)
(* Three conversions every token passes through: the KV cache's half       *)
(* floats (kernels.cpp half_to_float, float_to_half), the int8 blocks of   *)
(* activations (quant/q8k.h), and the choice of a token from its           *)
(* probabilities (kernels.cpp topk_sample).                                *)
(***************************************************************************)
EXTENDS Integers, Sequences, FiniteSets, FiniteSetsExt, SequencesExt

CONSTANT Unit    \* a probability of one, as an integer

ASSUME NumbersAssumption == Unit \in Nat \ {0}

-----------------------------------------------------------------------------
(* IEEE bit patterns without the sign, as integers.                        *)
Infinity32 == 255 * 2^23
Infinity16 == 31 * 2^10

(* half_to_float: a subnormal half is shifted up until it has a leading
   one, and the exponent counts the shifts down from 113.                  *)
HalfToFloat(h) ==
  LET exp == h \div 2^10
      man == h % 2^10
      shifts == CHOOSE n \in 1 .. 10 : man * 2^n \in 2^10 .. 2^11 - 1
  IN  CASE exp = 0 /\ man = 0 -> 0
        [] exp = 0            -> (113 - shifts) * 2^23 + ((man * 2^shifts) % 2^10) * 2^13
        [] exp = 31           -> Infinity32 + man * 2^13
        [] OTHER              -> (exp + 112) * 2^23 + man * 2^13

(* Wrong variant of RoundUp: a tie always goes up.                         *)
RoundUp_TiesUp(rem, halfway, base) == rem >= halfway

(* To nearest, a tie to the even base.                                     *)
RoundUp(rem, halfway, base) == rem > halfway \/ (rem = halfway /\ base % 2 # 0)

(* float_to_half: a carry out of the mantissa goes into the exponent; from
   a subnormal into the smallest normal by itself.                         *)
FloatToHalf(mag) ==
  LET exp   == mag \div 2^23
      man   == mag % 2^23
      Up(rem, halfway, base) == IF RoundUp(rem, halfway, base) THEN base + 1 ELSE base
      shift == 126 - exp
      sig   == 2^23 + man
      small == Up(sig % 2^shift, 2^(shift - 1), sig \div 2^shift)
      base  == Up(man % 2^13, 2^12, man \div 2^13)
      e16   == exp - 112 + (IF base = 2^10 THEN 1 ELSE 0)
      payload == IF mag > Infinity32 THEN ((man \div 2^13) % 2^9) + 2^9 ELSE 0
  IN  CASE mag >= Infinity32 -> Infinity16 + payload
        [] mag < Infinity32 /\ exp < 95 -> 0
        [] exp \in 95 .. 112 -> IF shift > 30 THEN 0 ELSE small
        [] OTHER -> IF e16 >= 31 THEN Infinity16 ELSE e16 * 2^10 + (base % 2^10)

-----------------------------------------------------------------------------
(* quantize_q8_block.  The largest magnitude becomes -127 exactly, so the
   scale 1/iscale is max / -127 and can be negative.                       *)
Magnitude(v) == IF v < 0 THEN -v ELSE v

(* nearest_int of 127 * v / m, to nearest and a tie to even.               *)
NearestOf127(v, m) ==
  LET a == 127 * v
      floor == a \div m
      rem == a - floor * m
  IN  IF 2 * rem > m \/ (2 * rem = m /\ floor % 2 # 0) THEN floor + 1 ELSE floor

QuantizeQ8(row) ==
  LET amax == FoldLeft(LAMBDA m, v : IF Magnitude(v) > m THEN Magnitude(v) ELSE m, 0, row)
      max  == FoldLeft(LAMBDA m, v : IF Magnitude(v) > Magnitude(m) THEN v ELSE m, 0, row)
      code(v) == LET q == IF max > 0 THEN NearestOf127(-v, max) ELSE NearestOf127(v, -max)
                 IN  IF q > 127 THEN 127 ELSE q
  IN  IF amax = 0 THEN [qs |-> [i \in DOMAIN row |-> 0], max |-> 0]
      ELSE [qs |-> [i \in DOMAIN row |-> code(row[i])], max |-> max]

-----------------------------------------------------------------------------
(* topk_sample.  Ids are 1-based here.                                     *)

(* Wrong variant of RankDescending: the later of two equals first.         *)
RankDescending_LaterFirst(mass) ==
  SortSeq([i \in DOMAIN mass |-> i], LAMBDA a, b : mass[a] > mass[b] \/ (mass[a] = mass[b] /\ a > b))

(* rank_descending: by mass, then by id.                                   *)
RankDescending(mass) ==
  SortSeq([i \in DOMAIN mass |-> i], LAMBDA a, b : mass[a] > mass[b] \/ (mass[a] = mass[b] /\ a < b))

(* Prefix(s)[i]: the sum of the first i.                                   *)
Prefix(s) == LET sum[i \in 0 .. Len(s)] == IF i = 0 THEN 0 ELSE sum[i - 1] + s[i] IN sum

(* The first rank whose cumulated mass reaches top_p; the first rank of all
   when none does.                                                         *)
Crossing(ranked, topP) ==
  LET over == {i \in DOMAIN ranked : Prefix(ranked)[i] >= topP}
  IN  IF over = {} THEN 1 ELSE Min(over)

TopkSample(mass, uniform, topK, topP, minP) ==
  LET vocab  == Len(mass)
      order  == RankDescending(mass)
      ranked == [i \in 1 .. vocab |-> mass[order[i]]]
      above(i) == Prefix(ranked)[i - 1]
      keep == {i \in 1 .. vocab :
                 /\ (topK > 0 /\ topK < vocab) => i <= topK
                 /\ minP > 0 => ranked[i] * Unit >= minP * ranked[1]
                 /\ topP < Unit => above(i) < topP \/ i = Crossing(ranked, topP)}
      kept == [i \in 1 .. vocab |-> IF i \in keep THEN ranked[i] ELSE 0]
      total == Prefix(kept)[vocab]
      reached == {i \in keep : Prefix(kept)[i] * Unit >= uniform * total}
  IN  IF total = 0 THEN order[1] ELSE order[IF reached = {} THEN vocab ELSE Min(reached)]
=============================================================================
