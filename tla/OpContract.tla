----------------------------- MODULE OpContract -----------------------------
(***************************************************************************)
(* What each op of `Backend` (kernel/backend.h) owes its caller, read from *)
(* the reference kernels (backends/reference/kernels.py).                  *)
(*                                                                         *)
(* A number is stood for by the ordered terms it is made of.  An atom      *)
(* <<buffer, index>> is what an address held when the op was called; a     *)
(* value is a sequence of atoms.  So a term read from a wrong address,     *)
(* twice, or not at all is a wrong value.  A vector that no op splits (a   *)
(* row of a norm, a head of attention) is one address.                     *)
(***************************************************************************)
EXTENDS Integers, Sequences, SequencesExt, FiniteSets, TLC

CONSTANT BlockWeights       \* quant::kBlockWeights: weights of a packed block

ASSUME BlockAssumption == BlockWeights \in Nat \ {0}

CeilDiv(a, b) == (a + b - 1) \div b

(* Buffer contents: an address nothing has written holds its own atom.     *)
Val(mem, cell) == IF cell \in DOMAIN mem THEN mem[cell] ELSE <<cell>>

(* A store that `accumulate` adds to what the address held.                *)
Into(mem, o, cell, terms) ==
  cell :> IF o.accumulate THEN Val(mem, cell) \o terms ELSE terms

OutCells(n) == {<<"out", i>> : i \in 0 .. n - 1}

-----------------------------------------------------------------------------
(* ``out[r, j] = sum_k x[r, k] * w[j, k]``                                 *)
Product(r, j, k) ==
  FlattenSeq([e \in 1 .. k |-> <<<<"x", r * k + e - 1>>, <<"w", j * k + e - 1>>>>])

(* The bias is optional: a null handle adds nothing.                       *)
Bias(o, j) == IF o.bias THEN <<<<"bias", j>>>> ELSE << >>

OwedGemm(o) ==
  [c \in OutCells(o.m * o.n) |->
     LET terms == Product(c[2] \div o.n, c[2] % o.n, o.k) \o Bias(o, c[2] % o.n)
     IN  IF o.accumulate THEN <<c>> \o terms ELSE terms]

(* ``rms_norm`` and, `centred`, ``layer_norm``: the sum over the row that
   scales it, the mean it is centred on, and the element.                  *)
RowTerms(o, row) == [e \in 1 .. o.d |-> <<"x", row * o.d + e - 1>>]

Centred(mean, terms) == FlattenSeq([e \in DOMAIN terms |-> Append(mean, terms[e])])

OwedNorm(o) ==
  [c \in OutCells(o.n * o.d) |->
     LET row == RowTerms(o, c[2] \div o.d)
     IN  IF o.centred THEN row \o Centred(row, row) \o <<<<"x", c[2]>>>>
         ELSE Append(row, <<"x", c[2]>>)]

(* The first index of the largest value.                                   *)
OwedArgmax(o) ==
  LET best == {i \in DOMAIN o.values : \A j \in DOMAIN o.values : o.values[i] >= o.values[j]}
      first == CHOOSE i \in best : \A j \in best : i <= j
  IN  <<"out", 0>> :> <<<<"x", first - 1>>>>

(* ``out[i] = f(x[i])``                                                    *)
OwedMap(o) == [c \in OutCells(o.n) |-> <<<<"x", c[2]>>>>]

(* ``out[i] = silu(gate[i]) * up[i]``                                      *)
OwedSilu(o) == [c \in OutCells(o.n) |-> <<<<"x", c[2]>>, <<"up", c[2]>>>>]

(* ``out[i, :] = table[token[i], :]``, and zeros for an id outside it.     *)
OwedEmbedding(o) ==
  [c \in OutCells(Len(o.tokens) * o.d) |->
     LET id == o.tokens[c[2] \div o.d + 1]
     IN  IF id \in 0 .. o.vocab - 1 THEN <<<<"table", id * o.d + (c[2] % o.d)>>>> ELSE << >>]

-----------------------------------------------------------------------------
(* The extent of a convolution's output along one axis.                    *)
ConvExtent(o, side) == (side + 2 * o.pad - o.kernel) \div o.stride + 1

(* The taps that fall on the image, kernel row slowest.                    *)
ConvTaps(o, b, oc, oy, ox) ==
  LET taps == [e \in 1 .. o.kernel * o.kernel |->
                 [ky |-> (e - 1) \div o.kernel, kx |-> (e - 1) % o.kernel]]
      Y(t) == oy * o.stride + t.ky - o.pad
      X(t) == ox * o.stride + t.kx - o.pad
      On(t) == Y(t) \in 0 .. o.height - 1 /\ X(t) \in 0 .. o.width - 1
      inside == SelectSeq(taps, On)
  IN  FlattenSeq([e \in 1 .. Len(inside) |->
        <<<<"x", (b * o.height + Y(inside[e])) * o.width + X(inside[e])>>,
          <<"w", (oc * o.kernel + inside[e].ky) * o.kernel + inside[e].kx>>>>])

(* A patch is a row, or, channel-major, a channel is a plane.              *)
OwedConv(o) ==
  LET h == ConvExtent(o, o.height)
      w == ConvExtent(o, o.width)
      image == h * w * o.outCh
  IN  [c \in OutCells(o.batch * image) |->
         LET at    == c[2] % image
             oc    == IF o.channelMajor THEN at \div (h * w) ELSE at % o.outCh
             patch == IF o.channelMajor THEN at % (h * w) ELSE at \div o.outCh
         IN  ConvTaps(o, c[2] \div image, oc, patch \div w, patch % w)]

-----------------------------------------------------------------------------
(* Rotary embedding, in place: element i of a head's first half is rotated
   against element i of its second ("split") or with its neighbour.        *)
Partner(o, at) ==
  LET half == o.d \div 2
  IN  IF o.split THEN [i |-> at % half, first |-> at < half, a |-> at % half, b |-> (at % half) + half]
      ELSE [i |-> at \div 2, first |-> at % 2 = 0, a |-> at - (at % 2), b |-> at - (at % 2) + 1]

Rotated(first, row, i, a, b) ==
  <<<<IF first THEN "cos-sin" ELSE "sin+cos", row, i>>>> \o a \o b

OwedRope(o) ==
  [c \in {<<"x", e>> : e \in 0 .. o.tokens * o.heads * o.d - 1} |->
     LET p    == Partner(o, c[2] % o.d)
         base == c[2] - (c[2] % o.d)
     IN  Rotated(p.first, o.start + c[2] \div (o.heads * o.d), p.i,
                 <<<<"x", base + p.a>>>>, <<<<"x", base + p.b>>>>)]

-----------------------------------------------------------------------------
(* A query row over the keys it may see, in ascending order: the terms are
   the query row, the KV head and the key.                                 *)
Keys(row, kv, lo, hi) ==
  IF hi < lo THEN << >> ELSE [e \in 1 .. hi - lo + 1 |-> <<"key", row, kv, lo + e - 1>>]

OwedAttention(o) ==
  [c \in OutCells(o.qLen * o.heads) |->
     LET t == c[2] \div o.heads
         h == c[2] % o.heads
     IN  Keys(c[2], h \div (o.heads \div o.kvHeads), o.firstKey,
              IF o.causal THEN o.qOffset + t ELSE o.qOffset)]
=============================================================================
