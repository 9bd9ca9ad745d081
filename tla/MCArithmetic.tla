---------------------------- MODULE MCArithmetic ----------------------------
(***************************************************************************)
(* The dot products of FormRun, the calls of Conversions, the answer of    *)
(* TextStream and the watch of Watchdog in one run: the initial states are *)
(* split between them, and the other three are over.                       *)
(***************************************************************************)
EXTENDS MCTextStream, Watchdog, FormRun, Conversions

callVars == <<call, answer>>
allvars == <<formVars, callVars, vars, watchVars>>

NoCall == [kind |-> "none"]
NoForm == [name |-> "none", type |-> "none", k |-> 0]

NoDot ==
  /\ form = NoForm /\ step = Steps(NoForm)
  /\ last = {} /\ met = {} /\ chains = << >> /\ sums = << >>

NoQuestion == call = NoCall /\ answer = << >>

NoAnswer ==
  /\ bytes = << >> /\ count = 1 /\ text = << >> /\ split = Nothing /\ sent = Nothing
  /\ cut = << >> /\ finish = "stop" /\ result = Nothing

NoWatch ==
  /\ child = "ok" /\ file = << >>
  /\ at = "done" /\ code = TRUE
  /\ consumed = 0 /\ partial = FALSE /\ out = << >>
  /\ silent = 0 /\ age = 0 /\ quiet = 0 /\ longest = 0
  /\ stalled = FALSE /\ exit = "ok"

DotsInit == FormInit /\ NoQuestion /\ NoAnswer /\ NoWatch

MCInit ==
  \/ DotsInit
  \/ Asked /\ answer = << >> /\ NoDot /\ NoAnswer /\ NoWatch
  \/ Init /\ NoDot /\ NoQuestion /\ NoWatch
  \/ WatchInit /\ NoDot /\ NoQuestion /\ NoAnswer

Answer ==
  /\ call # NoCall /\ answer = << >>
  /\ answer' = <<Result(call)>>
  /\ UNCHANGED call

MCNext ==
  \/ FormNext  /\ UNCHANGED <<callVars, vars, watchVars>>
  \/ Answer    /\ UNCHANGED <<formVars, vars, watchVars>>
  \/ Next      /\ UNCHANGED <<formVars, callVars, watchVars>>
  \/ WatchNext /\ UNCHANGED <<formVars, callVars, vars>>

MCSpec == MCInit /\ [][MCNext]_allvars /\ WatchFairness
DotsSpec == DotsInit /\ [][MCNext]_allvars

(* Every weight under its own bits, scale and min, and every weight.       *)
MeetsItsOwn == ReadsItsOwn /\ MeetsAll

(* Numbers keep within the width they are held in: the 16-bit sums of the
   int8 forms, the halves of the cache, the bytes of an int8 block.        *)
NumbersWithin == FitsInt16 /\ RoundsToNearest /\ QuantizesWithin

(* A picture keeps to its limits, and each of its patches to its place.    *)
PicturesInPlace == PicturesFit /\ PatchesInPlace

(* The tokenizer's words and the pieces of a word are those the vocabulary
   was trained with.                                                       *)
WordsLikeReference == SplitsLikeRegex /\ MergesLikeReference

-----------------------------------------------------------------------------
(* At, just before and just after a half float and the midpoint. *)
Edges == {0, 1, 2, 511, 512, 1022, 1023}
Exponents == {0, 1, 2, 15, 29, 30}
Halves == {[kind |-> "half", h |-> e * 1024 + m, nudge |-> n] :
             e \in Exponents, m \in Edges, n \in {<<0, 0>>, <<0, 1>>, <<4, -1>>, <<4, 0>>, <<4, 1>>, <<8, -1>>}}

Blocks == {[kind |-> "q8", row |-> r] : r \in [1 .. 3 -> {-4, -3, 0, 1, 3, 4}]}

(* Masses need not reach one: a sum of floats does not. *)
Distributions == {m \in [1 .. 4 -> 0 .. 4] : m[1] + m[2] + m[3] + m[4] \in {6, 8}}
Samples == {[kind |-> "sample", mass |-> m, uniform |-> u, topK |-> k, topP |-> p, minP |-> q] :
              m \in Distributions, u \in {0, 3, 7}, k \in {0, 1, 3}, p \in {0, 4, 7, 8}, q \in {0, 3}}

(* Blocks of 4 pixels, between 2 and 8 of them. *)
Images == {[kind |-> "image", width |-> w, height |-> h, align |-> 4, min |-> 32, max |-> 128, merge |-> 2, grid |-> 4] :
             w \in (1 .. 17) \cup {24, 31, 90}, h \in (1 .. 17) \cup {24, 31, 90}}
Grids == {[kind |-> "grid", width |-> w, height |-> h, source |-> s, merge |-> 2, head |-> 8] :
            w \in {2, 4, 6, 8}, h \in {2, 4, 6, 10}, s \in {2, 4, 6}}
(* Frames of 4 samples every 2, windows of 6 frames in chunks of 3. *)
Clips == {[kind |-> "clip", samples |-> n, fft |-> 4, hop |-> 2, window |-> 6, chunk |-> 3] : n \in 1 .. 40}
Transforms == {[kind |-> "transform", size |-> n] : n \in {1, 3, 4, 6, 12, 20, 25, 40}}
Convs == {[kind |-> "conv", width |-> w, height |-> h, channels |-> c, chunks |-> k] :
            w \in 1 .. 3, h \in 1 .. 3, c \in 1 .. 3, k \in 1 .. 2}

(* ' r E 1 . space newline *)
Splits == {[kind |-> "split", text |-> t, digits |-> d] :
             t \in UNION {[1 .. n -> {39, 114, 69, 49, 46, 32, 10}] : n \in 0 .. 4}, d \in {1, 3}}
          \cup {[kind |-> "split", text |-> t, digits |-> 3] : t \in [1 .. 6 -> {49, 32}]}

Pieces == {<<1>>, <<2>>, <<1, 1>>, <<1, 2>>, <<2, 1>>}
Merges == {[kind |-> "merge", word |-> w, merges |-> <<a, b, c>>] :
             w \in [1 .. 5 -> {1, 2}], a \in {<<1>>, <<2>>} \X {<<1>>, <<2>>},
             b \in {p \in Pieces \X Pieces : Len(p[1]) + Len(p[2]) <= 3},
             c \in {<<<<1, 2>>, <<1>>>>, <<<<1>>, <<1, 1>>>>, <<<<2, 1>>, <<2, 1>>>>}}

(* a ' space e-acute fullwidth-bar smile, in UTF-8; "a|" and "a" are special,
   as is a text with a space. *)
Characters == {<<97>>, <<39>>, <<32>>, <<195, 169>>, <<239, 189, 156>>, <<240, 159, 152, 128>>}
Specials == {<< >>, <<[id |-> 1, text |-> <<97>>, type |-> 4],
                     [id |-> 2, text |-> <<97, 239, 189, 156>>, type |-> 3],
                     [id |-> 3, text |-> <<32, 97>>, type |-> 3]>>}
Texts == {[kind |-> "text", text |-> FlattenSeq(t), specials |-> s, parse |-> p, digits |-> 1,
           merges |-> <<<<<<195>>, <<169>>>>, <<<<97>>, <<97>>>>>>] :
            t \in UNION {[1 .. n -> Characters] : n \in 0 .. 4}, s \in Specials, p \in BOOLEAN}
=============================================================================
