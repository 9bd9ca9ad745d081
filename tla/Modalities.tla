----------------------------- MODULE Modalities -----------------------------
(***************************************************************************)
(* Pictures and sounds.                                                    *)
(*                                                                         *)
(* An image on its way into the vision tower: the size it is resized to    *)
(* (model/image_preprocess.cpp), which source pixels a pixel is mixed      *)
(* from, and, for a grid of patches, the order of the tokens, the angles   *)
(* they are rotated by and the learned positions they are given            *)
(* (model/qwen3vl_vision.cpp).  Lengths are exact: the code's doubles are  *)
(* taken to round no product of the sizes tried here.                      *)
(*                                                                         *)
(* A clip on its way into the audio tower: its frames and windows, the     *)
(* transform of a frame (model/audio_frontend.cpp), and how the tower's    *)
(* convolutions become rows of its projection (model/qwen3a_audio.cpp).    *)
(* A sample is its index; a sum is the set of what is summed.              *)
(***************************************************************************)
EXTENDS Integers, Sequences, FiniteSets

LOCAL Larger(a, b) == IF a > b THEN a ELSE b
LOCAL Smaller(a, b) == IF a < b THEN a ELSE b

RoundBy(value, factor) == ((2 * value + factor) \div (2 * factor)) * factor
CeilBy(value, factor)  == ((value + factor - 1) \div factor) * factor
FloorBy(value, factor) == (value \div factor) * factor

(* The whole part of the square root.                                      *)
Root(n) == CHOOSE r \in 0 .. n : r * r <= n /\ n < (r + 1) * (r + 1)

(* Wrong variant of ResizeTarget: grown to the nearest size of the grid.   *)
ResizeTarget_GrowRound(p) ==
  LET h == Larger(p.align, RoundBy(p.height, p.align))
      w == Larger(p.align, RoundBy(p.width, p.align))
  IN  IF h * w < p.min
      THEN [height |-> RoundBy(Root((p.height * p.min) \div p.width), p.align),
            width |-> RoundBy(Root((p.width * p.min) \div p.height), p.align)]
      ELSE [height |-> h, width |-> w]

(* Both sides go to the grid, then by one factor down under max or up over
   min.  `height / beta` is the root of height * max / width.              *)
ResizeTarget(p) ==
  LET h == Larger(p.align, RoundBy(p.height, p.align))
      w == Larger(p.align, RoundBy(p.width, p.align))
      Side(side, other, pixels) == Root((side * pixels) \div other)
      Shrunk(side, other) == Larger(p.align, FloorBy(Side(side, other, p.max), p.align))
      Grown(side, other) == CeilBy(Side(side, other, p.min), p.align)
  IN  IF p.max > 0 /\ h * w > p.max
      THEN [height |-> Shrunk(p.height, p.width), width |-> Shrunk(p.width, p.height)]
      ELSE IF p.min > 0 /\ h * w < p.min
      THEN [height |-> Grown(p.height, p.width), width |-> Grown(p.width, p.height)]
      ELSE [height |-> h, width |-> w]

(* max_patches_: what the tower's buffers are sized for.                   *)
MaxPatches(p) ==
  LET block == p.merge * p.merge
      patch == p.align \div p.merge
      cap == CeilBy(p.max \div (patch * patch), block)
  IN  Larger(p.grid * p.grid, cap + block)

-----------------------------------------------------------------------------
(* resize_bilinear, on one axis: the two sources of pixel t, and how far it
   is from the first, in parts of target - 1.                              *)
BilinearTaps(source, target, t) ==
  LET p == t * (source - 1)
      first == IF target > 1 THEN Smaller(p \div (target - 1), source - 1) ELSE 0
  IN  [first |-> first, second |-> Smaller(first + 1, source - 1),
       part |-> IF target > 1 THEN p - first * (target - 1) ELSE 0]

(* preprocess_image, and what encode and prices_for make of it.  A picture
   of the target's size is not resampled; its taps are itself.             *)
Preprocess(p) ==
  LET to == ResizeTarget(p)
      patch == p.align \div p.merge
      patches == (to.width \div patch) * (to.height \div patch)
  IN  [width |-> to.width, height |-> to.height, patches |-> patches,
       columns |-> [t \in 1 .. to.width |-> BilinearTaps(p.width, to.width, t - 1)],
       rows |-> [t \in 1 .. to.height |-> BilinearTaps(p.height, to.height, t - 1)],
       tokens |-> (to.width \div p.align) * (to.height \div p.align),
       refused |-> patches > MaxPatches(p) \/ patches % (p.merge * p.merge) # 0]

(* interpolate_position_table, on one axis: the sources of patch t and
   their weights, in units of half a target step.                          *)
PositionTaps(source, target, t) ==
  LET at == (2 * t + 1) * source
      support == Larger(2 * target, 2 * source)
      from == IF at - support + target < 0 THEN 0 ELSE (at - support + target) \div (2 * target)
      to == Smaller((at + support + target) \div (2 * target), source)
      away(s) == LET d == 2 * s * target - at + target IN IF d < 0 THEN -d ELSE d
  IN  {<<s, support - away(s)>> : s \in {s \in from .. to - 1 : away(s) < support}}

(* A grid that is the table's own takes its rows as they are.              *)
PositionRows(g, y, x) ==
  IF g.width = g.source /\ g.height = g.source THEN {<<y * g.source + x, 1>>}
  ELSE {<<v[1] * g.source + h[1], v[2] * h[2]>> :
          v \in PositionTaps(g.source, g.height, y), h \in PositionTaps(g.source, g.width, x)}

(* raster_patch, <<y, x>> of a token.                                      *)
RasterPatch(token, merge, mergedSide) ==
  LET within == token % (merge * merge)
      cell == token \div (merge * merge)
  IN  <<(merge * (cell \div mergedSide)) + (within \div merge),
        (merge * (cell % mergedSide)) + (within % merge)>>

(* Wrong variant of MergedSide: the other axis.                            *)
MergedSide_Height(g) == g.height \div g.merge

MergedSide(g) == g.width \div g.merge

MergeIndex(g, token) ==
  LET at == RasterPatch(token, g.merge, MergedSide(g)) IN (at[1] * g.width) + at[2]

(* The angle of each pair: a coordinate times a power of the frequency
   scale; the second half's power starts over.                             *)
RopeAngles(g, token) ==
  LET at == RasterPatch(token, g.merge, MergedSide(g))
      half == g.head \div 2
      section == g.head \div 4
      column[pair \in 0 .. half - 1] == IF pair \in {0, section} THEN 0 ELSE column[pair - 1] + 1
  IN  [pair \in 0 .. half - 1 |->
         IF pair < section THEN <<at[1], pair>> ELSE <<at[2], column[pair]>>]

(* What the graph is given for a grid: a row per token.                    *)
PatchRows(g) ==
  [token \in 0 .. (g.width * g.height) - 1 |->
     LET raster == MergeIndex(g, token)
     IN  [pixels |-> raster, angles |-> RopeAngles(g, token),
          positions |-> PositionRows(g, raster \div g.width, raster % g.width)]]

-----------------------------------------------------------------------------
(* log_mel_spectrogram: the frames, and the sample at each place of the
   padded signal; -1 is silence.                                           *)
Frames(c) == ((c.samples + 2 * (c.fft \div 2) - c.fft) \div c.hop) + 1

Padded(c) ==
  LET pad == c.fft \div 2
      mirrored(s) == IF s \in 0 .. c.samples - 1 THEN s ELSE -1
  IN  [at \in 0 .. c.samples + 2 * pad - 1 |->
         IF at < pad THEN mirrored(pad - at)
         ELSE IF at < pad + c.samples THEN at - pad
         ELSE mirrored(c.samples - 2 - (at - pad - c.samples))]

(* The frames that are transformed; the rest hold the floor.               *)
Computed(c) == Smaller(Frames(c), (c.samples \div c.hop) + 1)

(* What a frame multiplies with its window: window_len is n_fft.           *)
FrameSamples(c, f) ==
  LET padded == Padded(c)
  IN  [i \in 0 .. c.fft - 1 |-> IF f * c.hop + i \in DOMAIN padded THEN padded[f * c.hop + i] ELSE -1]

(* audio_window_count.                                                     *)
WindowCount(c) ==
  IF c.samples <= 0 THEN 0 ELSE (Computed(c) + c.window - 1) \div c.window

(* audio_log_mel_window: the frames it takes, and its padded length.       *)
Window(c, w) ==
  LET within == Smaller(c.window, Computed(c) - w * c.window)
  IN  [frames |-> w * c.window .. w * c.window + within - 1,
       length |-> ((within + c.chunk - 1) \div c.chunk) * c.chunk]

(* tokens_for_frames, and the tower's refusals: 0 is a refusal.            *)
ConvSide(input) == ((input + 2 - 3) \div 2) + 1
TokensOf(c, length) ==
  IF length <= 0 \/ length % c.chunk # 0 \/ length > c.window THEN 0
  ELSE (length \div c.chunk) * ConvSide(ConvSide(ConvSide(c.chunk)))

Clip(c) ==
  [windows |-> [w \in 1 .. WindowCount(c) |-> Window(c, w - 1)],
   tokens |-> [w \in 1 .. WindowCount(c) |-> TokensOf(c, Window(c, w - 1).length)],
   frames |-> [f \in 0 .. Computed(c) - 1 |-> FrameSamples(c, f)]]

-----------------------------------------------------------------------------
(* Wrong variant of Twiddle: a step of the table that is the level's own.  *)
Twiddle_OwnStep(size, n, k) == k % size

(* The index of the size-n level's twiddle k in the table of the whole.    *)
Twiddle(size, n, k) == (k * (size \div n)) % size

(* fft_real: for each output, each input with its phase in turns of
   1 / size.  An odd level is dft_real; a subtraction is half a turn.      *)
Transform(size) ==
  LET fft[n \in 1 .. size] ==
        IF n % 2 = 1
        THEN [k \in 0 .. n - 1 |-> {<<i, Twiddle(size, n, k * i)>> : i \in 0 .. n - 1}]
        ELSE LET half == n \div 2
                 even == fft[half]
             IN  [k \in 0 .. n - 1 |->
                    LET turn == Twiddle(size, n, k % half) + (IF k < half THEN 0 ELSE size \div 2)
                    IN  {<<2 * t[1], t[2]>> : t \in even[k % half]} \cup
                        {<<2 * t[1] + 1, (t[2] + turn) % size>> : t \in even[k % half]}]
  IN  fft[size]

-----------------------------------------------------------------------------
(* The convolutions' last output (row oy, column ox, channel oc) lands at
   a token's feature; a sub-chunk's columns are its tokens.                *)
RowOf(v, chunk, oy, ox, oc) ==
  [from |-> ((oy * v.width + ox) * v.channels) + oc,
   token |-> (chunk * v.width) + ox,
   feature |-> (oc * v.height) + oy]

ConvRows(v) ==
  {[chunk |-> c, at |-> RowOf(v, c, oy, ox, oc)] :
     c \in 0 .. v.chunks - 1, oy \in 0 .. v.height - 1, ox \in 0 .. v.width - 1, oc \in 0 .. v.channels - 1}

(* The learned position of a token starts over with each sub-chunk.        *)
PositionOf(v, token) == token % v.width
=============================================================================
