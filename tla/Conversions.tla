---------------------------- MODULE Conversions ----------------------------
(***************************************************************************)
(* Calls of the engine's conversions, each answered in one step and held   *)
(* against what the source says it is equal to: a rounding rule, the       *)
(* Python reference, a regex, a textbook definition.                       *)
(***************************************************************************)
EXTENDS Numbers, Modalities, Words

CONSTANTS
  HalfCalls,       \* [kind "half", h, nudge]: a float near half float h
  BlockCalls,      \* [kind "q8", row]
  SampleCalls,     \* [kind "sample", mass, uniform, topK, topP, minP]
  ImageCalls,      \* [kind "image", width, height, align, min, max, merge, grid]
  GridCalls,       \* [kind "grid", width, height, source, merge, head]
  ClipCalls,       \* [kind "clip", samples, fft, hop, window, chunk]
  TransformCalls,  \* [kind "transform", size]
  ConvCalls,       \* [kind "conv", width, height, channels, chunks]
  SplitCalls,      \* [kind "split", text, digits]
  MergeCalls,      \* [kind "merge", word, merges]
  TextCalls        \* [kind "text", text, specials, parse, digits, merges]

VARIABLES
  call,      \* the call
  answer     \* << >>, then << the result >>

(* The float between half h and the next at `nudge` eighths of the way; a
   step past the largest half is as long as the one before it.             *)
Gap(h) == IF h + 1 = Infinity16 THEN HalfToFloat(h) - HalfToFloat(h - 1) ELSE HalfToFloat(h + 1) - HalfToFloat(h)
Between(h, nudge) == HalfToFloat(h) + (Gap(h) \div 8) * nudge[1] + nudge[2]

Result(c) ==
  CASE c.kind = "half" -> FloatToHalf(Between(c.h, c.nudge))
    [] c.kind = "q8" -> QuantizeQ8(c.row)
    [] c.kind = "sample" -> TopkSample(c.mass, c.uniform, c.topK, c.topP, c.minP)
    [] c.kind = "image" -> Preprocess(c)
    [] c.kind = "grid" -> PatchRows(c)
    [] c.kind = "clip" -> Clip(c)
    [] c.kind = "transform" -> Transform(c.size)
    [] c.kind = "conv" -> ConvRows(c)
    [] c.kind = "split" -> Pretokenize(c.text, c.digits)
    [] c.kind = "merge" -> MergeWord(c.word, c.merges)
    [] c.kind = "text" -> Encode(c.text, c)

Asked ==
  \/ call \in HalfCalls \/ call \in BlockCalls \/ call \in SampleCalls
  \/ call \in ImageCalls \/ call \in GridCalls
  \/ call \in ClipCalls \/ call \in TransformCalls \/ call \in ConvCalls
  \/ call \in SplitCalls \/ call \in MergeCalls \/ call \in TextCalls

Answered(kind) == call.kind = kind /\ answer # << >>

-----------------------------------------------------------------------------
(* A float is stored in the cache as the nearest half, a tie as the even
   one, across every boundary the code treats apart: zero, subnormals, a
   carry into the exponent, overflow to infinity.  This is the conversion
   of a host without F16C; the vector instructions are not modelled.       *)
RoundsToNearest ==
  Answered("half") =>
    LET past == Between(call.h, call.nudge) - HalfToFloat(call.h)
        half == IF call.h = 0 THEN HalfToFloat(1) - 2^23 - HalfToFloat(0) ELSE Gap(call.h) \div 2
    IN  answer[1] = CASE past < half -> call.h [] past > half -> call.h + 1
                      [] OTHER -> IF call.h % 2 = 0 THEN call.h ELSE call.h + 1

(* Every code of a block fits its byte though only the top is clamped, and
   gives its activation back to within half a step of the block's scale,
   whose sign the largest activation decides.                              *)
QuantizesWithin ==
  Answered("q8") =>
    LET b == answer[1]
    IN  \A i \in DOMAIN call.row :
          /\ b.qs[i] \in -127 .. 127
          /\ 2 * Magnitude(127 * call.row[i] + b.qs[i] * b.max) <= Magnitude(b.max)

(* What the Python reference samples: masses of what is dropped are zeroed
   and the cumulated mass is searched from the left over the whole
   vocabulary.                                                             *)
ReferenceSample(c) ==
  LET order == CHOOSE o \in {p \in [DOMAIN c.mass -> DOMAIN c.mass] :
                               \A i, j \in DOMAIN c.mass : i < j =>
                                 \/ c.mass[p[i]] > c.mass[p[j]]
                                 \/ c.mass[p[i]] = c.mass[p[j]] /\ p[i] < p[j]} : TRUE
      ranked == [i \in DOMAIN c.mass |-> c.mass[order[i]]]
      cumulative == Prefix(ranked)
      argmax == IF \E i \in DOMAIN ranked : cumulative[i] >= c.topP
                THEN Min({i \in DOMAIN ranked : cumulative[i] >= c.topP}) ELSE 1
      masked == [i \in DOMAIN ranked |->
        IF /\ c.topK > 0 => i - 1 < c.topK
           /\ c.minP * ranked[1] > 0 => ranked[i] * Unit >= c.minP * ranked[1]
           /\ c.topP < Unit => cumulative[i] - ranked[i] < c.topP \/ i = argmax
        THEN ranked[i] ELSE 0]
      total == Prefix(masked)[Len(masked)]
      before == {i \in DOMAIN masked : Prefix(masked)[i] * Unit < c.uniform * total}
  IN  IF total = 0 THEN order[1]
      ELSE order[IF Cardinality(before) + 1 < Len(masked) THEN Cardinality(before) + 1 ELSE Len(masked)]

(* The same draw picks the same token in the engine and in the reference,
   whatever is cut off, ties included, and the token is one that was kept. *)
SamplesLikeReference ==
  Answered("sample") => answer[1] = ReferenceSample(call)

-----------------------------------------------------------------------------
(* A picture's sides are on the grid and the tower has room for its
   patches; it is within the checkpoint's limits, and left alone when it
   was already.  The exception is a side that cannot get below one block:
   the other is then not shrunk for it, and the picture can be too large.
   Every pixel is between the two source pixels it is mixed from, the last
   on the last.                                                            *)
PicturesFit ==
  Answered("image") =>
    LET a == answer[1]
        c == call
        area == a.width * a.height
        thin == c.align \in {a.width, a.height}
        fits == c.width % c.align = 0 /\ c.height % c.align = 0 /\ c.width * c.height \in c.min .. c.max
        Mixed(taps, source) ==
          \A t \in 1 .. Len(taps) :
            LET at == (t - 1) * (source - 1)
                scale == Len(taps) - 1
            IN  /\ taps[t].first \in 0 .. source - 1 /\ taps[t].second \in 0 .. source - 1
                /\ scale > 0 => at \in taps[t].first * scale .. taps[t].second * scale
                /\ taps[t].part = at - taps[t].first * scale
    IN  /\ a.width % c.align = 0 /\ a.height % c.align = 0 /\ area > 0
        /\ a.tokens * c.merge * c.merge = a.patches
        /\ fits => a.width = c.width /\ a.height = c.height
        /\ ~thin => area <= c.max
        /\ c.width * c.height < c.min => area >= c.min
        /\ a.refused => thin
        /\ Mixed(a.columns, c.width) /\ Mixed(a.rows, c.height)

(* Each token is one patch, all are met, and each run of merge * merge
   tokens is one square of the picture, the squares row by row: the merger
   downstream takes whatever lies together for one.  A patch's angles are
   its own row and column, each half from the scale's first power, and its
   position is mixed from every row of the table its footprint touches.    *)
PatchesInPlace ==
  Answered("grid") =>
    LET rows == answer[1]
        c == call
        cells == (c.width \div c.merge) * (c.height \div c.merge)
        block == c.merge * c.merge
        Square(cell) ==
          LET row == cell \div (c.width \div c.merge)
              column == cell % (c.width \div c.merge)
          IN  {(c.merge * row + y) * c.width + c.merge * column + x : y \in 0 .. c.merge - 1, x \in 0 .. c.merge - 1}
        away(source, target, t, s) ==
          LET d == (2 * s + 1) * target - (2 * t + 1) * source IN IF d < 0 THEN -d ELSE d
        Footprint(target, t) ==
          {s \in 0 .. c.source - 1 :
             away(c.source, target, t, s) < 2 * (IF c.source > target THEN c.source ELSE target)}
    IN  /\ \A cell \in 0 .. cells - 1 :
              {rows[t].pixels : t \in cell * block .. (cell + 1) * block - 1} = Square(cell)
        /\ \A t \in DOMAIN rows :
              LET y == rows[t].pixels \div c.width
                  x == rows[t].pixels % c.width
              IN  /\ \A i \in 0 .. (c.head \div 4) - 1 :
                        rows[t].angles[i] = <<y, i>> /\ rows[t].angles[(c.head \div 4) + i] = <<x, i>>
                  /\ {p[1] : p \in rows[t].positions} =
                       {v * c.source + h : v \in Footprint(c.height, y), h \in Footprint(c.width, x)}
                  /\ \A p \in rows[t].positions : p[2] > 0

-----------------------------------------------------------------------------
(* A clip's windows take each of its frames once, in order, and each is one
   the tower takes; a frame past the signal's end mirrors it.  A frame's
   transform is the discrete Fourier transform though the sizes of its
   levels are not powers of two.  A convolution's values are each used
   once, a column's as one token's row.                                    *)
SoundsCovered ==
  /\ Answered("clip") =>
       LET a == answer[1]
           taken == FlattenSeq([w \in DOMAIN a.windows |-> SetToSortSeq(a.windows[w].frames, <)])
           Sample(at) == IF at < 0 THEN -at ELSE IF at >= call.samples THEN 2 * (call.samples - 1) - at ELSE at
       IN  /\ taken = [i \in 1 .. (call.samples \div call.hop) + 1 |-> i - 1]
           /\ \A w \in DOMAIN a.windows :
                 /\ a.tokens[w] > 0
                 /\ a.windows[w].length \in Cardinality(a.windows[w].frames) .. call.window
           /\ \A f \in DOMAIN a.frames : \A i \in DOMAIN a.frames[f] :
                 LET s == Sample(f * call.hop - (call.fft \div 2) + i)
                 IN  a.frames[f][i] = IF s \in 0 .. call.samples - 1 THEN s ELSE -1
  /\ Answered("transform") =>
       \A k \in 0 .. call.size - 1 : answer[1][k] = {<<i, (k * i) % call.size>> : i \in 0 .. call.size - 1}
  /\ Answered("conv") =>
       LET each == answer[1]
           values == call.width * call.height * call.channels
       IN  /\ {<<r.chunk, r.at.from>> : r \in each} = (0 .. call.chunks - 1) \X (0 .. values - 1)
           /\ \A r, o \in each : r.at.token = o.at.token /\ r.at.feature = o.at.feature => r = o
           /\ \A r \in each :
                 /\ r.at.token \div call.width = r.chunk
                 /\ r.at.feature \in 0 .. (call.channels * call.height) - 1
                 /\ PositionOf(call, r.at.token) = (r.at.from \div call.channels) % call.width

-----------------------------------------------------------------------------
(* The regex's alternatives, in its order: where a match that starts at p
   may end.  All are greedy, so the longest is the match.                  *)
All(text, p, e, class) == \A i \in p .. e - 1 : text[i] \in class
RegexEnds(text, p, digits) ==
  LET n == Len(text)
      ends == p + 1 .. n + 1
      here(class) == text[p] \in class
      space == Spaces
      plain == Letters \cup Digits
      Marked(q, e) == \E m \in q + 1 .. e :
                         (\A i \in q .. m - 1 : text[i] \notin space \cup plain) /\ All(text, m, e, Newlines)
  IN  << {e \in ends : [i \in 1 .. e - p |-> CptLower(text[p + i - 1])] \in
            {<<39, 115>>, <<39, 116>>, <<39, 109>>, <<39, 100>>, <<39, 114, 101>>, <<39, 118, 101>>, <<39, 108, 108>>}},
         {e \in ends : All(text, p, e, Letters) \/ (~here(Newlines \cup plain) /\ e > p + 1 /\ All(text, p + 1, e, Letters))},
         {e \in ends : e - p <= digits /\ All(text, p, e, Digits)},
         {e \in ends : Marked(p, e) \/ (text[p] = 32 /\ Marked(p + 1, e))},
         {e \in ends : All(text, p, e, space) /\ text[e - 1] \in Newlines},
         {e \in ends : All(text, p, e, space) /\ (e = n + 1 \/ text[e] \in space)},
         {e \in ends : All(text, p, e, space)} >>

(* Words are what the vocabulary's regex matches one after another, so a
   word of the model's training is a word here: contractions, digits in
   ones or threes, the space before a word and runs of blank lines.        *)
SplitsLikeRegex ==
  Answered("split") =>
    LET ends == answer[1]
    IN  /\ ends[1] = 1 /\ Last(ends) = Len(call.text) + 1
        /\ \A w \in 1 .. Len(ends) - 1 :
              LET rules == RegexEnds(call.text, ends[w], call.digits)
                  first == Min({r \in DOMAIN rules : rules[r] # {}})
              IN  ends[w + 1] = Max(rules[first])

(* Byte pair encoding by its definition: as long as a pair of neighbours is
   in the list, the leftmost of lowest rank is joined.                     *)
ReferenceMerge(word, merges) ==
  LET n == Len(word)
      joined[k \in 0 .. n] ==
        IF k = 0 THEN [i \in 1 .. n |-> <<word[i]>>]
        ELSE LET p == joined[k - 1]
                 ranks == {i \in 1 .. Len(p) - 1 : Rank(merges, p[i], p[i + 1]) # 0}
                 best == CHOOSE i \in ranks : \A o \in ranks :
                           LET ri == Rank(merges, p[i], p[i + 1])
                               ro == Rank(merges, p[o], p[o + 1])
                           IN  ri < ro \/ (ri = ro /\ i <= o)
             IN  IF ranks = {} THEN p
                 ELSE SubSeq(p, 1, best - 1) \o <<p[best] \o p[best + 1]>> \o SubSeq(p, best + 2, Len(p))
  IN  joined[n]

(* The queue of candidate pairs, with entries gone stale under merges of
   their neighbours, joins what the definition joins.                      *)
MergesLikeReference ==
  Answered("merge") =>
    /\ answer[1].ends
    /\ answer[1].pieces = ReferenceMerge(call.word, call.merges)

(* A text in the tokens of a vocabulary without byte-level coverage, and ids
   of no token among them.                                                 *)
HexDigit(v) == IF v < 10 THEN 48 + v ELSE 55 + v
ByteTokens(text) ==
  FlattenSeq([i \in DOMAIN text |->
    << <<60, 48, 120, HexDigit(text[i] \div 16), HexDigit(text[i] % 16), 62>>, NoPiece>>])

(* The tokens of a text in UTF-8 decode to the text, whatever special
   tokens were cut out of it and wherever its words were split; so do its
   byte tokens, and an id of no token adds nothing.                        *)
TextComesBack ==
  Answered("text") => Decode(answer[1]) = call.text /\ Decode(ByteTokens(call.text)) = call.text
=============================================================================
