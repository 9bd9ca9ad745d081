------------------------------ MODULE TextProofs ------------------------------
(***************************************************************************)
(* Theorems about TextStream: for every vocabulary, every stop sequence    *)
(* and every size of the decode buffer, the stream takes nothing back and  *)
(* mangles nothing; and of a model that thinks it carries the collected    *)
(* answer.                                                                 *)
(*                                                                         *)
(* The argument is about the pieces of a decoding, one per byte: the piece *)
(* of a byte depends on its neighbours only, so that all but the last of a *)
(* shorter decoding are the pieces of a longer one, and the last is        *)
(* stripped where it may still change.                                     *)
(***************************************************************************)
EXTENDS TextStream, SequenceLemmas

(* The literals are strings; the provers are told so here.                 *)
Character == STRING \cup {"e", "?", "<", "/", ">"}

PiecesOf(b) == [i \in 1 .. Len(b) |-> IF Opens(b, i) THEN << >> ELSE <<Shown(b, i)>>]

(* The decoding of the first k bytes, as they stand among the others.      *)
First(b, k) == FlattenSeq(SubSeq(PiecesOf(b), 1, k))

LEMMA PieceIsText ==
  ASSUME NEW b \in Seq(Character), NEW i \in 1 .. Len(b)
  PROVE  Shown(b, i) \in Character
<1>1. "e" \in Character /\ "?" \in Character
  BY DEF Character
<1>2. b[i] \in Character
  OBVIOUS
<1> QED
  BY <1>1, <1>2 DEF Shown

LEMMA PiecesAreTexts ==
  ASSUME NEW b \in Seq(Character)
  PROVE  /\ PiecesOf(b) \in Seq(Seq(Character)) /\ Len(PiecesOf(b)) = Len(b) /\ Len(b) \in Nat
         /\ Utf8(b) = FlattenSeq(PiecesOf(b)) /\ Utf8(b) \in Seq(Character)
<1> DEFINE T == Seq(Character)
<1>1. Len(b) \in Nat /\ DOMAIN b = 1 .. Len(b)
  OBVIOUS
<1>2. \A i \in 1 .. Len(b) : (IF Opens(b, i) THEN << >> ELSE <<Shown(b, i)>>) \in T
  BY PieceIsText
<1> HIDE DEF T
<1>3. PiecesOf(b) \in [1 .. Len(b) -> T]
  BY <1>1, <1>2 DEF PiecesOf
<1>4. PiecesOf(b) \in Seq(T) /\ Len(PiecesOf(b)) = Len(b)
  BY <1>1, <1>3, FunctionIsSeq
<1>5. Utf8(b) = FlattenSeq(PiecesOf(b))
  BY <1>1 DEF Utf8, PiecesOf
<1> QED
  BY <1>1, <1>4, <1>5, FlattenIsSeq DEF T

(* The decoding of some bytes is one of no more of them, and more.         *)
LEMMA FirstGrows ==
  ASSUME NEW b \in Seq(Character), NEW k \in 0 .. Len(b), NEW j \in 0 .. k
  PROVE  /\ First(b, j) \in Seq(Character) /\ First(b, k) \in Seq(Character)
         /\ Begins(First(b, j), First(b, k))
<1> DEFINE T == Seq(Character)
           p == PiecesOf(b)
           u == SubSeq(p, 1, j)
           v == SubSeq(p, j + 1, k)
           w == SubSeq(p, 1, k)
<1>1. p \in Seq(T) /\ Len(p) = Len(b) /\ Len(b) \in Nat
  BY PiecesAreTexts
<1> HIDE DEF T, p
<1>2. u \in Seq(T) /\ v \in Seq(T) /\ w \in Seq(T)
  BY <1>1
<1>3. u \o v = w
  BY <1>1, ConcatAdjacentSubSeq
<1> HIDE DEF u, v, w
<1>4. u \in Seq(Seq(Character)) /\ v \in Seq(Seq(Character)) /\ w \in Seq(Seq(Character))
  BY <1>2 DEF T
<1>5. /\ FlattenSeq(u) \in Seq(Character) /\ FlattenSeq(v) \in Seq(Character)
      /\ FlattenSeq(w) \in Seq(Character) /\ FlattenSeq(w) = FlattenSeq(u) \o FlattenSeq(v)
  BY <1>3, <1>4, FlattenIsSeq, FlattenJoins
<1>6. First(b, j) = FlattenSeq(u) /\ First(b, k) = FlattenSeq(w)
  BY DEF First, u, w, p
<1> QED
  BY <1>5, <1>6, JoinedBegins

LEMMA FirstAndLast ==
  ASSUME NEW b \in Seq(Character)
  PROVE  /\ First(b, 0) = << >> /\ First(b, Len(b)) = Utf8(b)
         /\ b # << >> =>
              /\ Len(b) \in 1 .. Len(b) /\ Len(b) - 1 \in 0 .. Len(b)
              /\ Utf8(b) = First(b, Len(b) - 1) \o <<Shown(b, Len(b))>>
<1> DEFINE T == Seq(Character)
           p == PiecesOf(b)
           n == Len(b)
<1>1. p \in Seq(T) /\ Len(p) = n /\ n \in Nat /\ Utf8(b) = FlattenSeq(p) /\ (b # << >> => n # 0)
  BY PiecesAreTexts, EmptySeq
<1>2. b # << >> => p[n] = <<Shown(b, n)>> /\ n \in 1 .. n /\ n - 1 \in 0 .. n
  BY <1>1 DEF PiecesOf, Opens
<1>3. \A k : First(b, k) = FlattenSeq(SubSeq(p, 1, k))
  BY DEF First
<1> HIDE DEF T, p
<1>4. SubSeq(p, 1, 0) = << >> /\ SubSeq(p, 1, n) = p
  BY <1>1, SubSeqFull, SubSeqEmpty
<1>5. ASSUME b # << >> PROVE Utf8(b) = First(b, n - 1) \o <<Shown(b, n)>>
  <2> DEFINE u == SubSeq(p, 1, n - 1)
  <2>1. Len(u) = n - 1 /\ n - 1 \in Nat /\ (n - 1) + 1 = n /\ (n - 1 = 0 => u = << >>)
    BY <1>1, <1>2, <1>5, SubSeqEmpty
  <2>2. Alike(u, p, n - 1)
    BY <1>1, <1>2, <1>5 DEF Alike
  <2>3. p[n] \in Seq(Character)
    BY <1>1, <1>2, <1>5 DEF T
  <2> HIDE DEF u, n
  <2>4. FlattenSeq(p) = FlattenSeq(u) \o p[(n - 1) + 1]
    BY <1>1, <2>1, <2>2, <2>3, FlattenMore
  <2> QED
    BY <1>1, <1>2, <1>3, <1>5, <2>1, <2>4 DEF u
<1> QED
  BY <1>1, <1>2, <1>3, <1>4, <1>5, FlattenEmpty

-----------------------------------------------------------------------------
(* A decoding of more bytes.                                               *)

(* The pieces of what comes before the last byte do not change; nor does the
   last, if it opens nothing.                                              *)
LEMMA FirstOfMore ==
  ASSUME NEW b \in Seq(Character), NEW c \in Seq(Character), Begins(b, c),
         NEW k \in 0 .. Len(b), k < Len(b) \/ Len(b) = Len(c) \/ (k # 0 => b[k] # "L")
  PROVE  First(c, k) = First(b, k)
<1> DEFINE T == Seq(Character)
           p == PiecesOf(b)
           q == PiecesOf(c)
           u == SubSeq(p, 1, k)
           v == SubSeq(q, 1, k)
<1>1. Len(b) \in Nat /\ Len(c) \in Nat /\ Len(b) <= Len(c) /\ \A i \in 1 .. Len(b) : c[i] = b[i]
  BY DEF Begins
<1>2. p \in Seq(T) /\ q \in Seq(T) /\ Len(p) = Len(b) /\ Len(q) = Len(c)
  BY PiecesAreTexts
<1>3. ASSUME NEW i \in 1 .. k PROVE p[i] = q[i]
  <2>1. i \in 1 .. Len(b) /\ i \in 1 .. Len(c) /\ c[i] = b[i] /\ (i > 1 => c[i - 1] = b[i - 1])
    BY <1>1
  <2>2. Opens(b, i) = Opens(c, i)
    <3>1. i < Len(b) => i < Len(c) /\ c[i + 1] = b[i + 1]
      BY <1>1
    <3>2. ~(i < Len(b)) => i = k /\ i = Len(b)
      BY <1>1
    <3> QED
      BY <1>1, <2>1, <3>1, <3>2 DEF Opens
  <2>3. Shown(b, i) = Shown(c, i)
    BY <2>1 DEF Shown, Closes
  <2> QED
    BY <2>1, <2>2, <2>3 DEF PiecesOf
<1> HIDE DEF T, p, q
<1>4. /\ u \in Seq(T) /\ v \in Seq(T) /\ Len(u) = k /\ Len(v) = k
      /\ \A i \in 1 .. k : u[i] = p[i] /\ v[i] = q[i]
  BY <1>1, <1>2
<1> HIDE DEF u, v
<1>5. u = v
  BY <1>3, <1>4, SeqEqual
<1> QED
  BY <1>5 DEF First, u, v, p, q

(* Less a replacement character at its end.                                *)
Stripped(t) == IF t # << >> /\ t[Len(t)] = "?" THEN Front(t) ELSE t

LEMMA EndsInMark ==
  ASSUME NEW t \in Seq(Character)
  PROVE  IsSuffix(<<"?">>, t) <=> t # << >> /\ t[Len(t)] = "?"
<1> DEFINE r == Reverse(t)
           m == <<"?">>
<1>1. Len(t) \in Nat /\ (t = << >> <=> Len(t) = 0)
  BY EmptySeq
<1>2. r \in Seq(Character) /\ Len(r) = Len(t) /\ (Len(t) # 0 => r[1] = t[Len(t)])
  BY <1>1 DEF Reverse
<1>3. Reverse(<<"?">>) = m /\ m \in Seq(Character) /\ Len(m) = 1 /\ m[1] = "?"
  BY DEF Reverse, Character
<1> HIDE DEF r, m
<1>4. IsPrefix(m, r) <=> Begins(m, r)
  BY <1>2, <1>3, PrefixPlaces
<1>5. Begins(m, r) <=> Len(t) # 0 /\ t[Len(t)] = "?"
  BY <1>1, <1>2, <1>3 DEF Begins
<1> QED
  BY <1>1, <1>3, <1>4, <1>5 DEF IsSuffix, r

LEMMA StrippedIsLess ==
  ASSUME NEW t \in Seq(Character)
  PROVE  Stripped(t) \in Seq(Character) /\ Begins(Stripped(t), t)
<1>1. Len(t) \in Nat /\ (t # << >> => Len(t) # 0)
  BY EmptySeq
<1>2. ASSUME t # << >> PROVE Front(t) \in Seq(Character) /\ Begins(Front(t), t)
  BY <1>1, <1>2 DEF Front, Begins
<1> QED
  BY <1>1, <1>2, BeginsItself DEF Stripped

LEMMA StrippedLast ==
  ASSUME NEW t \in Seq(Character), NEW x
  PROVE  /\ x = "?" => Stripped(t \o <<x>>) = t
         /\ x # "?" => Stripped(t \o <<x>>) = t \o <<x>>
<1> DEFINE u == t \o <<x>>
<1>1. Len(u) = Len(t) + 1 /\ Len(t) \in Nat /\ u[Len(t) + 1] = x /\ u # << >>
  OBVIOUS
<1>2. Front(u) = t
  BY <1>1 DEF Front
<1> QED
  BY <1>1, <1>2 DEF Stripped

(* What a shorter decoding keeps is there before the last byte of a longer
   one: a first half at its end is shown as the mark that is stripped.     *)
LEMMA KeptBefore ==
  ASSUME NEW b \in Seq(Character), NEW c \in Seq(Character), Begins(b, c)
  PROVE  Begins(Stripped(Utf8(b)), First(c, Len(b))) /\ Stripped(Utf8(b)) \in Seq(Character)
<1> DEFINE n == Len(b)
<1>1. /\ n \in Nat /\ Len(c) \in Nat /\ n <= Len(c) /\ n \in 0 .. n /\ n \in 0 .. Len(c)
      /\ Utf8(b) \in Seq(Character) /\ Stripped(Utf8(b)) \in Seq(Character)
  BY PiecesAreTexts, StrippedIsLess DEF Begins
<1>2. CASE n # 0 => b[n] # "L"
  <2>1. First(c, n) = Utf8(b)
    BY <1>1, <1>2, FirstOfMore, FirstAndLast
  <2> QED
    BY <1>1, <2>1, StrippedIsLess
<1>3. CASE n # 0 /\ b[n] = "L"
  <2>1. b # << >> /\ n - 1 \in 0 .. n /\ n - 1 \in 0 .. Len(b) /\ n - 1 < Len(b)
    BY <1>1, <1>3
  <2>2. Utf8(b) = First(b, n - 1) \o <<"?">>
    <3>1. Shown(b, n) = "?"
      BY <1>3 DEF Shown, Closes
    <3> QED
      BY <2>1, <3>1, FirstAndLast
  <2>3. First(b, n - 1) \in Seq(Character) /\ First(c, n - 1) = First(b, n - 1)
    BY <1>1, <2>1, FirstGrows, FirstOfMore
  <2>4. Stripped(Utf8(b)) = First(c, n - 1)
    BY <2>2, <2>3, StrippedLast
  <2>5. Begins(First(c, n - 1), First(c, n))
    BY <1>1, <2>1, FirstGrows
  <2> QED
    BY <1>1, <2>4, <2>5
<1> QED
  BY <1>2, <1>3

(* A longer decoding keeps what it shows before its last byte.             *)
LEMMA KeptAfter ==
  ASSUME NEW c \in Seq(Character), c # << >>
  PROVE  Begins(First(c, Len(c) - 1), Stripped(Utf8(c))) /\ First(c, Len(c) - 1) \in Seq(Character)
<1> DEFINE u == First(c, Len(c) - 1)
           x == Shown(c, Len(c))
<1>1. Len(c) \in 1 .. Len(c) /\ Len(c) - 1 \in 0 .. Len(c) /\ Len(c) - 1 \in 0 .. Len(c) - 1
  BY EmptySeq
<1>2. u \in Seq(Character) /\ x \in Character /\ Utf8(c) = u \o <<x>>
  BY <1>1, FirstGrows, FirstAndLast, PieceIsText
<1> HIDE DEF u, x
<1>3. Stripped(Utf8(c)) = u \/ Stripped(Utf8(c)) = u \o <<x>>
  BY <1>2, StrippedLast
<1>4. Begins(u, u) /\ Begins(u, u \o <<x>>)
  <2>1. <<x>> \in Seq(Character) /\ Len(u) \in Nat
    BY <1>2
  <2> QED
    BY <1>2, <2>1, BeginsItself, JoinedBegins
<1> QED
  BY <1>2, <1>3, <1>4 DEF u

LEMMA StrippedGrows ==
  ASSUME NEW b \in Seq(Character), NEW c \in Seq(Character), Begins(b, c)
  PROVE  /\ Stripped(Utf8(b)) \in Seq(Character) /\ Stripped(Utf8(c)) \in Seq(Character)
         /\ Begins(Stripped(Utf8(b)), Stripped(Utf8(c)))
<1> DEFINE s == Stripped(Utf8(b))
           t == Stripped(Utf8(c))
<1>1. s \in Seq(Character) /\ t \in Seq(Character) /\ Len(s) \in Nat
  BY PiecesAreTexts, StrippedIsLess
<1>2. Len(b) \in Nat /\ Len(c) \in Nat /\ Len(b) <= Len(c) /\ \A i \in 1 .. Len(b) : c[i] = b[i]
  BY DEF Begins
<1>3. CASE Len(b) = Len(c)
  <2>1. b = c
    BY <1>2, <1>3, SeqEqual
  <2> QED
    BY <1>1, <2>1, BeginsItself
<1>4. CASE Len(b) < Len(c)
  <2> DEFINE u == First(c, Len(b))
             v == First(c, Len(c) - 1)
  <2>1. c # << >> /\ Len(c) - 1 \in 0 .. Len(c) /\ Len(b) \in 0 .. Len(c) - 1
    BY <1>2, <1>4
  <2>2. Begins(s, u) /\ Begins(u, v) /\ Begins(v, t) /\ u \in Seq(Character) /\ v \in Seq(Character)
    BY <2>1, KeptBefore, KeptAfter, FirstGrows
  <2> HIDE DEF s, t, u, v
  <2>3. Begins(s, v)
    BY <1>1, <2>2, BeginsThrough
  <2>4. Begins(s, t)
    BY <1>1, <2>2, <2>3, BeginsThrough
  <2> QED
    BY <1>1, <2>4 DEF s, t
<1> QED
  BY <1>2, <1>3, <1>4

-----------------------------------------------------------------------------
(* The decode buffer grows with the ids.                                   *)
Cap(n) == IF CapPer * n > CapMin THEN CapPer * n ELSE CapMin

LEMMA CapGrows ==
  ASSUME NEW m \in Nat, NEW n \in Nat, m <= n
  PROVE  Cap(m) - 1 \in Nat /\ Cap(n) - 1 \in Nat /\ Cap(m) - 1 <= Cap(n) - 1
<1>1. CapMin \in Nat \ {0} /\ CapPer \in Nat
  BY TextAssumption
<1>2. CapPer * m \in Nat /\ CapPer * n \in Nat /\ CapPer * m <= CapPer * n
  <2>1. PICK d \in Nat : n = m + d
    <3>1. n - m \in Nat /\ n = m + (n - m)
      OBVIOUS
    <3> QED
      BY <3>1
  <2>2. CapPer * n = CapPer * m + CapPer * d /\ CapPer * d \in Nat /\ CapPer * m \in Nat
    BY <1>1, <2>1
  <2> QED
    BY <2>2
<1> DEFINE x == CapPer * m
           y == CapPer * n
<1> HIDE DEF x, y
<1> QED
  BY <1>1, <1>2 DEF Cap

LEMMA UpToGrows ==
  ASSUME NEW b \in Seq(Character), NEW c \in Seq(Character), Begins(b, c),
         NEW m \in Nat, NEW n \in Nat, m <= n
  PROVE  UpTo(b, m) \in Seq(Character) /\ UpTo(c, n) \in Seq(Character) /\ Begins(UpTo(b, m), UpTo(c, n))
<1> DEFINE k == IF m < Len(b) THEN m ELSE Len(b)
           l == IF n < Len(c) THEN n ELSE Len(c)
           u == SubSeq(b, 1, k)
           v == SubSeq(c, 1, l)
<1>1. Len(b) \in Nat /\ Len(c) \in Nat /\ Len(b) <= Len(c) /\ \A i \in 1 .. Len(b) : c[i] = b[i]
  BY DEF Begins
<1>2. k \in 0 .. Len(b) /\ l \in 0 .. Len(c) /\ k <= l
  BY <1>1
<1> HIDE DEF k, l
<1>3. /\ u \in Seq(Character) /\ Len(u) = k /\ \A i \in 1 .. k : u[i] = b[i]
      /\ v \in Seq(Character) /\ Len(v) = l /\ \A i \in 1 .. l : v[i] = c[i]
  BY <1>1, <1>2
<1> HIDE DEF u, v
<1>4. Begins(u, v)
  <2>1. Len(u) <= Len(v)
    BY <1>2, <1>3
  <2>2. ASSUME NEW i \in 1 .. Len(u) PROVE v[i] = u[i]
    <3>1. i \in 1 .. k /\ i \in 1 .. l /\ i \in 1 .. Len(b)
      BY <1>1, <1>2, <1>3
    <3>2. u[i] = b[i] /\ v[i] = c[i] /\ c[i] = b[i]
      BY <1>1, <1>3, <3>1
    <3> QED
      BY <3>2
  <2> QED
    BY <2>1, <2>2 DEF Begins
<1> QED
  BY <1>3, <1>4 DEF UpTo, u, v, k, l

LEMMA DecodedIsStripped ==
  ASSUME NEW b \in Seq(Character), NEW n \in Nat
  PROVE  /\ UpTo(b, Cap(n) - 1) \in Seq(Character)
         /\ DecodedText(b, n) = Stripped(Utf8(UpTo(b, Cap(n) - 1)))
<1> DEFINE c == UpTo(b, Cap(n) - 1)
<1>1. c \in Seq(Character)
  BY CapGrows, UpToGrows, BeginsItself
<1>2. Utf8(c) \in Seq(Character)
  BY <1>1, PiecesAreTexts
<1>3. EngineDecode(b, n) = Utf8(c)
  BY DEF EngineDecode, Cap
<1> HIDE DEF c
<1> QED
  BY <1>1, <1>2, <1>3, EndsInMark DEF DecodedText, Stripped, c

(* The text of more ids begins with the text of fewer.                     *)
LEMMA DecodedGrows ==
  ASSUME NEW b \in Seq(Character), NEW c \in Seq(Character), Begins(b, c),
         NEW m \in Nat, NEW n \in Nat, m <= n
  PROVE  /\ DecodedText(b, m) \in Seq(Character) /\ DecodedText(c, n) \in Seq(Character)
         /\ Begins(DecodedText(b, m), DecodedText(c, n))
<1> DEFINE u == UpTo(b, Cap(m) - 1)
           v == UpTo(c, Cap(n) - 1)
<1>1. u \in Seq(Character) /\ v \in Seq(Character) /\ Begins(u, v)
  BY CapGrows, UpToGrows
<1>2. DecodedText(b, m) = Stripped(Utf8(u)) /\ DecodedText(c, n) = Stripped(Utf8(v))
  BY DecodedIsStripped
<1> HIDE DEF u, v
<1> QED
  BY <1>1, <1>2, StrippedGrows

-----------------------------------------------------------------------------
(* The text of a request is the decoding of its bytes, at some count of ids:
   an end token is counted and adds none.                                  *)
TextIsDecoded ==
  /\ bytes \in Seq(Character) /\ text \in Seq(Character) /\ count \in Nat
  /\ \E n \in Nat : n <= count /\ text = DecodedText(bytes, n)

LEMMA Starts == Init => TextIsDecoded
<1> SUFFICES ASSUME Init PROVE TextIsDecoded
  OBVIOUS
<1>1. bytes = << >> /\ text = << >> /\ count = 0 /\ << >> \in Seq(Character) /\ 0 \in Nat
  BY DEF Init
<1>2. DecodedText(<< >>, 0) = << >>
  <2> DEFINE c == UpTo(<< >>, Cap(0) - 1)
  <2>1. Cap(0) - 1 \in Nat
    BY CapGrows
  <2>2. c = << >>
    BY <2>1 DEF UpTo
  <2>3. DecodedText(<< >>, 0) = Stripped(Utf8(<< >>))
    BY <1>1, <2>2, DecodedIsStripped
  <2>4. Utf8(<< >>) = << >>
    BY <1>1, FirstAndLast
  <2> QED
    BY <2>3, <2>4 DEF Stripped
<1> QED
  BY <1>1, <1>2 DEF TextIsDecoded

(* What a token does to the text.                                          *)
LEMMA AdvanceGrows ==
  ASSUME TextIsDecoded, NEW token \in Tokens, Advance(token)
  PROVE  TextIsDecoded' /\ Begins(text, text')
<1>1. token \in Seq(Character)
  <2>1. token \in Seq(STRING)
    BY TextAssumption
  <2> QED
    BY <2>1 DEF Character
<1>2. /\ bytes' = bytes \o token /\ count' = count + 1 /\ text' = DecodedText(bytes', count')
  BY DEF Advance
<1>3. PICK n \in Nat : n <= count /\ text = DecodedText(bytes, n)
  BY DEF TextIsDecoded
<1>4. bytes \in Seq(Character) /\ bytes' \in Seq(Character) /\ Begins(bytes, bytes')
  BY <1>1, <1>2, JoinedBegins DEF TextIsDecoded
<1>5. count' \in Nat /\ n <= count' /\ count' <= count'
  BY <1>2, <1>3 DEF TextIsDecoded
<1>6. Begins(text, text') /\ text' \in Seq(Character)
  BY <1>2, <1>3, <1>4, <1>5, DecodedGrows
<1> QED
  BY <1>2, <1>4, <1>5, <1>6 DEF TextIsDecoded

LEMMA OthersAddNothing ==
  TextIsDecoded /\ (Eos \/ FinishJob \/ UNCHANGED vars) => TextIsDecoded' /\ text' = text
<1> SUFFICES ASSUME TextIsDecoded, Eos \/ FinishJob \/ UNCHANGED vars
             PROVE  TextIsDecoded' /\ text' = text
  OBVIOUS
<1>1. bytes' = bytes /\ text' = text /\ (count' = count \/ count' = count + 1)
  BY DEF Eos, FinishJob, vars
<1>2. PICK n \in Nat : n <= count /\ text = DecodedText(bytes, n)
  BY DEF TextIsDecoded
<1>3. count' \in Nat /\ n <= count'
  BY <1>1, <1>2 DEF TextIsDecoded
<1> QED
  BY <1>1, <1>2, <1>3 DEF TextIsDecoded

LEMMA DecodedNext == TextIsDecoded /\ [Next]_vars => TextIsDecoded' /\ IsPrefix(text, text')
<1> SUFFICES ASSUME TextIsDecoded, [Next]_vars PROVE TextIsDecoded' /\ IsPrefix(text, text')
  OBVIOUS
<1>1. TextIsDecoded' /\ Begins(text, text')
  <2>1. CASE Eos \/ FinishJob \/ UNCHANGED vars
    BY <2>1, OthersAddNothing, BeginsItself DEF TextIsDecoded
  <2>2. ASSUME NEW token \in Tokens, Advance(token) PROVE TextIsDecoded' /\ Begins(text, text')
    BY <2>2, AdvanceGrows
  <2> QED
    BY <2>1, <2>2 DEF Next
<1> QED
  BY <1>1, PrefixPlaces DEF TextIsDecoded

(* What _advance_job has decoded is a decoding of the bytes of the emitted
   ids, for any vocabulary and any size of the decode buffer.              *)
THEOREM TextIsAlwaysDecoded == Spec => []TextIsDecoded
BY Starts, DecodedNext, PTL DEF Spec

(* Nothing that _advance_job has sent is taken back: every text is the last
   one and more, whatever bytes a token ends in and wherever the decode
   buffer cuts.                                                            *)
THEOREM NothingIsTakenBack == Spec => TextOnlyGrows
<1>1. TextIsDecoded /\ [Next]_vars => [IsPrefix(text, text')]_vars
  BY DecodedNext
<1> QED
  BY <1>1, TextIsAlwaysDecoded, PTL DEF Spec, TextOnlyGrows

-----------------------------------------------------------------------------
(* No replacement character.                                               *)

(* So far UTF-8, and without a replacement character of its own.           *)
Sound(b) ==
  \A i \in 1 .. Len(b) :
    /\ b[i] # "?"
    /\ b[i] = "L" => i = Len(b) \/ b[i + 1] = "C"
    /\ b[i] = "C" => i > 1 /\ b[i - 1] = "L"

LEMMA SoundBefore ==
  ASSUME NEW b \in Seq(Character), Sound(b), NEW n \in Nat
  PROVE  UpTo(b, n) \in Seq(Character) /\ Sound(UpTo(b, n))
<1> DEFINE k == IF n < Len(b) THEN n ELSE Len(b)
           u == SubSeq(b, 1, k)
<1>1. Len(b) \in Nat /\ k \in 0 .. Len(b)
  OBVIOUS
<1> HIDE DEF k
<1>2. u \in Seq(Character) /\ Len(u) = k /\ \A i \in 1 .. k : u[i] = b[i]
  BY <1>1
<1> HIDE DEF u
<1>3. ASSUME NEW i \in 1 .. Len(u)
      PROVE  /\ u[i] # "?"
             /\ u[i] = "L" => i = Len(u) \/ u[i + 1] = "C"
             /\ u[i] = "C" => i > 1 /\ u[i - 1] = "L"
  <2>1. i \in 1 .. Len(b) /\ u[i] = b[i] /\ (i # Len(u) => i # Len(b) /\ u[i + 1] = b[i + 1])
    BY <1>1, <1>2
  <2>2. i > 1 => u[i - 1] = b[i - 1]
    BY <1>1, <1>2
  <2> QED
    BY <2>1, <2>2 DEF Sound
<1> QED
  BY <1>2, <1>3 DEF Sound, UpTo, u, k

(* What such bytes show has a replacement character at its end only.       *)
LEMMA SoundShows ==
  ASSUME NEW b \in Seq(Character), Sound(b)
  PROVE  Stripped(Utf8(b)) \in Seq(Character \ {"?"})
<1> DEFINE S == Character \ {"?"}
           T == Seq(S)
           n == Len(b)
           p == PiecesOf(b)
           q == SubSeq(p, 1, n - 1)
<1>1. n \in Nat /\ Len(p) = n /\ p \in Seq(Seq(Character)) /\ \A i \in 1 .. n : b[i] \in Character
  BY PiecesAreTexts
<1>2. CASE b = << >>
  <2>1. Utf8(b) = << >>
    BY <1>2, FirstAndLast
  <2> QED
    BY <2>1 DEF Stripped
<1>3. CASE b # << >>
  <2>1. n \in 1 .. n /\ n - 1 \in Nat
    BY <1>1, <1>3, EmptySeq
  <2>2. ASSUME NEW i \in 1 .. n - 1 PROVE p[i] \in T
    <3>1. i \in 1 .. n /\ i # n
      BY <1>1
    <3>2. p[i] = IF Opens(b, i) THEN << >> ELSE <<Shown(b, i)>>
      BY <3>1 DEF PiecesOf
    <3>3. ~Opens(b, i) => Shown(b, i) # "?"
      BY <1>1, <3>1 DEF Sound, Opens, Shown, Closes
    <3>4. Shown(b, i) \in Character
      BY <3>1, PieceIsText
    <3>5. << >> \in T /\ \A x \in S : <<x>> \in T
      OBVIOUS
    <3>6. ~Opens(b, i) => Shown(b, i) \in S
      BY <3>3, <3>4
    <3> HIDE DEF S, T, p
    <3> QED
      BY <3>2, <3>5, <3>6
  <2> HIDE DEF T, p, n
  <2>3. q \in Seq(T)
    <3>1. Len(p) = n /\ \A i \in 1 .. n - 1 : p[i] \in T
      BY <1>1, <2>2
    <3> QED
      BY <2>1, <3>1, SubSeqProperties
  <2>4. First(b, n - 1) \in Seq(S)
    <3>1. q \in Seq(Seq(S))
      BY <2>3 DEF T
    <3> HIDE DEF S, q
    <3>2. FlattenSeq(q) \in Seq(S)
      BY <3>1, FlattenIsSeq
    <3> QED
      BY <3>2 DEF First, q, p
  <2>5. Shown(b, n) \in Character /\ Utf8(b) = First(b, n - 1) \o <<Shown(b, n)>>
    BY <1>3, <2>1, FirstAndLast, PieceIsText DEF n
  <2> DEFINE u == First(b, n - 1)
             x == Shown(b, n)
  <2>6. u \in Seq(S) /\ u \in Seq(Character) /\ x \in Character /\ Utf8(b) = u \o <<x>>
    <3>1. u \in Seq(S)
      BY <2>4
    <3> HIDE DEF u
    <3>2. u \in Seq(Character)
      <4>1. Len(u) \in Nat /\ \A i \in 1 .. Len(u) : u[i] \in Character
        BY <3>1
      <4>2. u = [i \in 1 .. Len(u) |-> u[i]]
        BY <3>1
      <4> QED
        BY <4>1, <4>2
    <3> QED
      BY <2>5, <3>1, <3>2 DEF u
  <2> HIDE DEF u, x
  <2>7. CASE x = "?"
    BY <2>6, <2>7, StrippedLast
  <2>8. CASE x # "?"
    <3>1. Stripped(Utf8(b)) = u \o <<x>> /\ <<x>> \in Seq(S)
      <4>1. Stripped(u \o <<x>>) = u \o <<x>>
        BY <2>6, <2>8, StrippedLast
      <4>2. x \in S
        BY <2>6, <2>8
      <4> HIDE DEF S
      <4>3. <<x>> \in Seq(S)
        BY <4>2
      <4> QED
        BY <2>6, <4>1, <4>3
    <3>2. u \o <<x>> \in Seq(S)
      <4> HIDE DEF S
      <4> QED
        BY <2>6, <3>1
    <3> QED
      BY <3>1, <3>2
  <2> QED
    BY <2>7, <2>8
<1> QED
  BY <1>2, <1>3

(* A text decoded from bytes that are UTF-8 so far has no replacement
   character: the only one a decoding can show stands for a half that is the
   last byte, of the ids or of what fits the decode buffer, and
   _decoded_text strips it.                                                *)
THEOREM NothingIsMangled == Spec => []NotMangled
<1>1. TextIsDecoded => NotMangled
  <2> SUFFICES ASSUME TextIsDecoded, Sound(bytes) PROVE ~Contains(text, "?")
    BY DEF TextIsDecoded, NotMangled, Sound
  <2>1. PICK n \in Nat : text = DecodedText(bytes, n)
    BY DEF TextIsDecoded
  <2> DEFINE c == UpTo(bytes, Cap(n) - 1)
  <2>2. bytes \in Seq(Character) /\ Cap(n) - 1 \in Nat
    <3>1. n \in Nat /\ n <= n
      OBVIOUS
    <3>2. Cap(n) - 1 \in Nat
      BY <3>1, CapGrows
    <3> QED
      BY <3>2 DEF TextIsDecoded
  <2>3. c \in Seq(Character) /\ Sound(c) /\ text = Stripped(Utf8(c))
    BY <2>1, <2>2, SoundBefore, DecodedIsStripped
  <2>4. text \in Seq(Character \ {"?"})
    <3> HIDE DEF c
    <3> QED
      BY <2>3, SoundShows
  <2>5. ASSUME NEW i \in 1 .. Len(text) PROVE text[i] # "?"
    BY <2>4
  <2> QED
    BY <2>5 DEF Contains
<1> QED
  BY <1>1, TextIsAlwaysDecoded, PTL

-----------------------------------------------------------------------------
(* Where the marker is.                                                    *)
MarkerAt(t, i) == i + 2 <= Len(t) /\ t[i] = "<" /\ t[i + 1] = "/" /\ t[i + 2] = ">"

LEMMA MarkerPlaces ==
  ASSUME NEW t \in Seq(Character), NEW i \in 1 .. Len(t)
  PROVE  IsPrefix(Marker, SubSeq(t, i, Len(t))) <=> MarkerAt(t, i)
<1> DEFINE u == SubSeq(t, i, Len(t))
<1>1. /\ Len(t) \in Nat /\ u \in Seq(Character) /\ Len(u) = (Len(t) - i) + 1 /\ Len(u) \in Nat
      /\ u[1] = t[i] /\ (i + 1 <= Len(t) => u[2] = t[i + 1]) /\ (i + 2 <= Len(t) => u[3] = t[i + 2])
  <2>1. Len(t) \in Nat /\ i \in Int
    OBVIOUS
  <2>2. u \in Seq(Character) /\ Len(u) = (Len(t) - i) + 1
    OBVIOUS
  <2>3. u[1] = t[i]
    BY <2>1
  <2>4. i + 1 <= Len(t) => u[2] = t[i + 1]
    BY <2>1
  <2>5. i + 2 <= Len(t) => u[3] = t[i + 2]
    BY <2>1
  <2> HIDE DEF u
  <2> QED
    BY <2>1, <2>2, <2>3, <2>4, <2>5
<1>2. Marker \in Seq(Character) /\ Len(Marker) = 3 /\ Marker[1] = "<" /\ Marker[2] = "/" /\ Marker[3] = ">"
  BY DEF Marker, Character
<1> HIDE DEF u
<1>3. IsPrefix(Marker, u) <=> Begins(Marker, u)
  BY <1>1, <1>2, PrefixPlaces
<1>4. Begins(Marker, u) <=> 3 <= Len(u) /\ u[1] = "<" /\ u[2] = "/" /\ u[3] = ">"
  <2>1. \A k \in 1 .. 3 : k = 1 \/ k = 2 \/ k = 3
    OBVIOUS
  <2>2. 1 \in 1 .. 3 /\ 2 \in 1 .. 3 /\ 3 \in 1 .. 3
    OBVIOUS
  <2> QED
    BY <1>1, <1>2, <2>1, <2>2 DEF Begins
<1>5. 3 <= Len(u) <=> i + 2 <= Len(t)
  BY <1>1
<1>6. i + 2 <= Len(t) => i + 1 <= Len(t)
  BY <1>1
<1> QED
  BY <1>1, <1>3, <1>4, <1>5, <1>6 DEF MarkerAt, u

LEMMA MarkerOccurs ==
  ASSUME NEW t \in Seq(Character)
  PROVE  /\ Occurs(Marker, t) <=> \E i \in 1 .. Len(t) : MarkerAt(t, i)
         /\ Occurs(Marker, t) =>
              /\ IndexOf(Marker, t) \in 1 .. Len(t) /\ MarkerAt(t, IndexOf(Marker, t))
              /\ \A j \in 1 .. IndexOf(Marker, t) - 1 : ~MarkerAt(t, j)
<1>1. Len(t) \in Nat /\ Marker # << >>
  BY DEF Marker
<1>2. Occurs(Marker, t) <=> \E i \in 1 .. Len(t) : MarkerAt(t, i)
  BY <1>1, MarkerPlaces DEF Occurs
<1> DEFINE P(i) == /\ IsPrefix(Marker, SubSeq(t, i, Len(t)))
                   /\ \A j \in 1 .. (i - 1) : ~IsPrefix(Marker, SubSeq(t, j, Len(t)))
           Where == {i \in 1 .. Len(t) : MarkerAt(t, i)}
<1>3. ASSUME Occurs(Marker, t) PROVE \E i \in 1 .. Len(t) : P(i)
  <2>1. Where # {} /\ Where \subseteq Nat
    BY <1>1, <1>2, <1>3
  <2>2. PICK i \in Where : \A j \in Where : i <= j
    <3> HIDE DEF Where
    <3> QED
      BY <2>1, LeastExists
  <2>3. \A j \in 1 .. (i - 1) : j \in 1 .. Len(t) /\ ~(i <= j)
    BY <1>1, <2>2
  <2>4. i \in 1 .. Len(t) /\ MarkerAt(t, i) /\ \A j \in 1 .. (i - 1) : j \in 1 .. Len(t) /\ ~MarkerAt(t, j)
    BY <2>2, <2>3
  <2> QED
    BY <2>4, MarkerPlaces
<1>4. IndexOf(Marker, t) = CHOOSE i \in 1 .. Len(t) : P(i)
  BY DEF IndexOf
<1>5. ASSUME Occurs(Marker, t)
      PROVE  /\ IndexOf(Marker, t) \in 1 .. Len(t) /\ MarkerAt(t, IndexOf(Marker, t))
             /\ \A j \in 1 .. IndexOf(Marker, t) - 1 : ~MarkerAt(t, j)
  <2> DEFINE at == IndexOf(Marker, t)
  <2>1. at \in 1 .. Len(t) /\ P(at)
    <3> HIDE DEF P
    <3> QED
      BY <1>3, <1>4, <1>5
  <2>2. \A j \in 1 .. at - 1 : j \in 1 .. Len(t)
    BY <1>1, <2>1
  <2> HIDE DEF at
  <2>3. MarkerAt(t, at) /\ \A j \in 1 .. at - 1 : ~MarkerAt(t, j)
    BY <2>1, <2>2, MarkerPlaces
  <2> QED
    BY <2>1, <2>3 DEF at
<1> QED
  BY <1>2, <1>5

(* A marker stays where it is in a text that goes on.                      *)
LEMMA MarkerStays ==
  ASSUME NEW t \in Seq(Character), NEW u \in Seq(Character), Begins(t, u), Occurs(Marker, t)
  PROVE  Occurs(Marker, u) /\ IndexOf(Marker, u) = IndexOf(Marker, t)
<1> DEFINE at == IndexOf(Marker, t)
           to == IndexOf(Marker, u)
<1>1. Len(t) \in Nat /\ Len(u) \in Nat /\ Len(t) <= Len(u) /\ \A i \in 1 .. Len(t) : u[i] = t[i]
  BY DEF Begins
<1>2. \A i \in 1 .. Len(t) : i \in 1 .. Len(u) /\ (i + 2 <= Len(t) => MarkerAt(u, i) = MarkerAt(t, i))
  <2> SUFFICES ASSUME NEW i \in 1 .. Len(t)
               PROVE  i \in 1 .. Len(u) /\ (i + 2 <= Len(t) => MarkerAt(u, i) = MarkerAt(t, i))
    OBVIOUS
  <2>1. i + 2 <= Len(t) => i + 1 \in 1 .. Len(t) /\ i + 2 \in 1 .. Len(t) /\ i + 2 <= Len(u)
    BY <1>1
  <2> QED
    BY <1>1, <2>1 DEF MarkerAt
<1>3. at \in 1 .. Len(t) /\ MarkerAt(t, at) /\ \A j \in 1 .. at - 1 : ~MarkerAt(t, j)
  BY MarkerOccurs
<1>4. at \in 1 .. Len(u) /\ MarkerAt(u, at) /\ at + 2 <= Len(t)
  BY <1>2, <1>3 DEF MarkerAt
<1>5. Occurs(Marker, u)
  BY <1>4, MarkerOccurs
<1>6. to \in 1 .. Len(u) /\ MarkerAt(u, to) /\ \A j \in 1 .. to - 1 : ~MarkerAt(u, j)
  BY <1>5, MarkerOccurs
<1> HIDE DEF at, to
<1>7. ~(at < to)
  <2>1. at < to => at \in 1 .. to - 1
    BY <1>1, <1>3, <1>6
  <2> QED
    BY <1>4, <1>6, <2>1
<1>8. ~(to < at)
  <2>1. to < at => to \in 1 .. at - 1 /\ to \in 1 .. Len(t) /\ to + 2 <= Len(t)
    BY <1>1, <1>3, <1>4, <1>6
  <2> QED
    BY <1>2, <1>3, <1>6, <2>1
<1>9. to = at
  BY <1>1, <1>3, <1>6, <1>7, <1>8
<1> QED
  BY <1>5, <1>9 DEF at, to

(* The beginnings of a marker, less than all of it.                        *)
Begun(k) == SubSeq(Marker, 1, k)

LEMMA BegunIs ==
  ASSUME NEW k \in 0 .. 2
  PROVE  /\ Begun(k) \in Seq(Character) /\ Len(Begun(k)) = k
         /\ k >= 1 => Begun(k)[1] = "<"
         /\ k >= 2 => Begun(k)[2] = "/"
<1>1. Marker \in Seq(Character) /\ Len(Marker) = 3 /\ Marker[1] = "<" /\ Marker[2] = "/"
  BY DEF Marker, Character
<1> QED
  BY <1>1 DEF Begun

(* A marker that comes begins after the characters that were there, or its
   beginning is the last of them.                                          *)
LEMMA MarkerComes ==
  ASSUME NEW t \in Seq(Character), NEW u \in Seq(Character), Begins(t, u),
         ~Occurs(Marker, t), Occurs(Marker, u)
  PROVE  /\ IndexOf(Marker, u) \in 1 .. Len(u) /\ MarkerAt(u, IndexOf(Marker, u))
         /\ IndexOf(Marker, u) + 2 > Len(t)
<1> DEFINE to == IndexOf(Marker, u)
<1>1. Len(t) \in Nat /\ Len(u) \in Nat /\ Len(t) <= Len(u) /\ \A i \in 1 .. Len(t) : u[i] = t[i]
  BY DEF Begins
<1>2. to \in 1 .. Len(u) /\ MarkerAt(u, to)
  BY MarkerOccurs
<1> HIDE DEF to
<1>3. ASSUME to + 2 <= Len(t) PROVE FALSE
  <2>1. to \in 1 .. Len(t) /\ to + 1 \in 1 .. Len(t) /\ to + 2 \in 1 .. Len(t)
    BY <1>1, <1>2, <1>3
  <2>2. MarkerAt(t, to)
    BY <1>1, <1>2, <1>3, <2>1 DEF MarkerAt
  <2> QED
    BY <2>1, <2>2, MarkerOccurs
<1> QED
  BY <1>1, <1>2, <1>3 DEF to

-----------------------------------------------------------------------------
(* The splitter.                                                           *)

IsOpened(t) == Len(t) >= 2 /\ t[1] = "<" /\ t[2] = ">"

LEMMA OpenedBy ==
  ASSUME NEW t \in Seq(Character)
  PROVE  /\ IsPrefix(Opener, t) <=> IsOpened(t)
         /\ Unopened(t) = IF IsOpened(t) THEN SubSeq(t, 3, Len(t)) ELSE t
         /\ Unopened(t) \in Seq(Character)
<1>1. Len(t) \in Nat
  OBVIOUS
<1>2. Opener \in Seq(Character) /\ Len(Opener) = 2 /\ Opener[1] = "<" /\ Opener[2] = ">"
  BY DEF Opener, Character
<1>3. IsPrefix(Opener, t) <=> IsOpened(t)
  <2>1. \A k \in 1 .. 2 : k = 1 \/ k = 2
    OBVIOUS
  <2>2. 1 \in 1 .. 2 /\ 2 \in 1 .. 2
    OBVIOUS
  <2>3. Begins(Opener, t) <=> IsOpened(t)
    BY <1>1, <1>2, <2>1, <2>2 DEF Begins, IsOpened
  <2> QED
    BY <1>2, <2>3, PrefixPlaces
<1>4. Unopened(t) = IF IsOpened(t) THEN SubSeq(t, 3, Len(t)) ELSE t
  BY <1>2, <1>3 DEF Unopened
<1>5. IsOpened(t) => SubSeq(t, 3, Len(t)) \in Seq(Character)
  BY <1>1 DEF IsOpened
<1> QED
  BY <1>3, <1>4, <1>5

LEMMA CutAt ==
  ASSUME NEW t \in Seq(Character), NEW i \in 1 .. Len(t) + 1
  PROVE  /\ SubSeq(t, i, Len(t)) \in Seq(Character) /\ Len(SubSeq(t, i, Len(t))) = (Len(t) - i) + 1
         /\ \A j \in 1 .. (Len(t) - i) + 1 : SubSeq(t, i, Len(t))[j] = t[(i - 1) + j]
<1> DEFINE n == Len(t)
           v == SubSeq(t, i, n)
<1>1. n \in Nat /\ t \in Seq(Character) /\ Len(t) = n /\ i \in 1 .. n + 1
  OBVIOUS
<1> HIDE DEF n
<1>2. v \in Seq(Character) /\ Len(v) = (n - i) + 1
  BY <1>1
<1>3. ASSUME NEW j \in 1 .. (n - i) + 1 PROVE v[j] = t[(i - 1) + j]
  <2>1. v[j] = t[i + j - 1] /\ i + j - 1 = (i - 1) + j
    BY <1>1
  <2> QED
    BY <2>1
<1> QED
  BY <1>2, <1>3 DEF n

LEMMA TwoDropped ==
  ASSUME NEW t \in Seq(Character), Len(t) >= 2
  PROVE  /\ SubSeq(t, 3, Len(t)) \in Seq(Character) /\ Len(SubSeq(t, 3, Len(t))) = Len(t) - 2
         /\ \A i \in 1 .. Len(t) - 2 : SubSeq(t, 3, Len(t))[i] = t[i + 2]
<1> DEFINE n == Len(t)
           v == SubSeq(t, 3, n)
<1>1. n \in Nat /\ n >= 2 /\ t \in Seq(Character) /\ Len(t) = n
  OBVIOUS
<1> HIDE DEF n
<1>2. v \in Seq(Character) /\ Len(v) = n - 2
  BY <1>1
<1>3. ASSUME NEW i \in 1 .. n - 2 PROVE v[i] = t[i + 2]
  BY <1>1
<1> QED
  BY <1>2, <1>3 DEF n

LEMMA UnopenedGrows ==
  ASSUME NEW t \in Seq(Character), NEW u \in Seq(Character), Begins(t, u),
         IsOpened(u) => IsOpened(t) \/ t = << >>
  PROVE  Begins(Unopened(t), Unopened(u))
<1>1. Len(t) \in Nat /\ Len(u) \in Nat /\ Len(t) <= Len(u) /\ \A i \in 1 .. Len(t) : u[i] = t[i]
  BY DEF Begins
<1>2. CASE t = << >>
  <2>1. Len(t) = 0
    BY <1>2
  <2>2. ~IsOpened(t)
    BY <2>1 DEF IsOpened
  <2>3. Unopened(t) = << >> /\ Unopened(u) \in Seq(Character)
    BY <1>2, <2>2, OpenedBy
  <2> QED
    BY <2>3 DEF Begins
<1>3. CASE IsOpened(t)
  <2>1. IsOpened(u) /\ Len(t) >= 2 /\ Len(u) >= 2
    <3>1. Len(t) >= 2 /\ 1 \in 1 .. Len(t) /\ 2 \in 1 .. Len(t)
      BY <1>1, <1>3 DEF IsOpened
    <3> QED
      BY <1>1, <1>3, <3>1 DEF IsOpened
  <2> DEFINE v == SubSeq(t, 3, Len(t))
             w == SubSeq(u, 3, Len(u))
  <2>2. Unopened(t) = v /\ Unopened(u) = w
    BY <1>3, <2>1, OpenedBy
  <2>3. /\ Len(v) = Len(t) - 2 /\ Len(w) = Len(u) - 2
        /\ \A i \in 1 .. Len(t) - 2 : v[i] = t[i + 2]
        /\ \A i \in 1 .. Len(u) - 2 : w[i] = u[i + 2]
    BY <2>1, TwoDropped
  <2> HIDE DEF v, w
  <2>4. Len(v) <= Len(w)
    BY <1>1, <2>3
  <2>5. ASSUME NEW i \in 1 .. Len(v) PROVE w[i] = v[i]
    <3>1. i \in 1 .. Len(t) - 2 /\ i \in 1 .. Len(u) - 2 /\ i + 2 \in 1 .. Len(t)
      BY <1>1, <2>1, <2>3
    <3> QED
      BY <1>1, <2>3, <3>1
  <2> QED
    BY <2>2, <2>4, <2>5 DEF Begins
<1>4. CASE t # << >> /\ ~IsOpened(t)
  <2>1. Unopened(t) = t /\ Unopened(u) = u
    BY <1>4, OpenedBy
  <2> QED
    BY <2>1
<1> QED
  BY <1>2, <1>3, <1>4

LEMMA UnopenedLast ==
  ASSUME NEW t \in Seq(Character), NEW k \in 1 .. 2
  PROVE  Unopened(t \o Begun(k)) = Unopened(t) \o Begun(k)
<1> DEFINE p == Begun(k)
           u == t \o p
<1>1. p \in Seq(Character) /\ Len(p) = k /\ p[1] = "<" /\ (k = 2 => p[2] = "/")
  <2>1. k \in 0 .. 2 /\ k >= 1 /\ (k = 2 => k >= 2)
    OBVIOUS
  <2> HIDE DEF p
  <2> QED
    BY <2>1, BegunIs DEF p
<1> HIDE DEF p
<1>2. /\ u \in Seq(Character) /\ Len(u) = Len(t) + k /\ Len(t) \in Nat
      /\ \A i \in 1 .. Len(t) : u[i] = t[i]
      /\ \A i \in 1 .. k : u[Len(t) + i] = p[i]
  BY <1>1, Joined
<1> HIDE DEF u
<1>3. t = << >> \/ Len(t) = 1 \/ Len(t) >= 2
  <2> DEFINE n == Len(t)
  <2>1. n \in Nat /\ (n = 0 => t = << >>)
    BY EmptySeq
  <2> HIDE DEF n
  <2>2. n = 0 \/ n = 1 \/ n >= 2
    BY <2>1
  <2> QED
    BY <2>1, <2>2 DEF n
<1>4. IsOpened(u) <=> IsOpened(t)
  <2>1. 1 \in 1 .. k /\ (k = 1 \/ k = 2) /\ (k = 2 => 2 \in 1 .. k)
    OBVIOUS
  <2>2. CASE t = << >>
    <3>1. Len(t) = 0
      BY <2>2
    <3>2. u[1] = p[1] /\ (k = 2 => u[2] = p[2])
      BY <1>2, <2>1, <3>1
    <3> QED
      BY <1>1, <1>2, <2>1, <3>1, <3>2 DEF IsOpened
  <2>3. CASE Len(t) = 1
    <3>1. u[2] = p[1]
      BY <1>2, <2>1, <2>3
    <3> QED
      BY <1>1, <2>3, <3>1 DEF IsOpened
  <2>4. CASE Len(t) >= 2
    <3>1. 1 \in 1 .. Len(t) /\ 2 \in 1 .. Len(t) /\ Len(u) >= 2
      BY <1>2, <2>4
    <3> QED
      BY <1>2, <2>4, <3>1 DEF IsOpened
  <2> QED
    BY <1>3, <2>2, <2>3, <2>4
<1>5. CASE ~IsOpened(t)
  BY <1>2, <1>4, <1>5, OpenedBy DEF u, p
<1>6. CASE IsOpened(t)
  <2> DEFINE v == SubSeq(t, 3, Len(t))
             w == SubSeq(u, 3, Len(u))
  <2>1. Len(t) >= 2 /\ Len(u) >= 2
    BY <1>2, <1>6 DEF IsOpened
  <2>2. /\ v \in Seq(Character) /\ w \in Seq(Character) /\ Len(v) = Len(t) - 2 /\ Len(w) = Len(u) - 2
        /\ \A i \in 1 .. Len(t) - 2 : v[i] = t[i + 2]
        /\ \A i \in 1 .. Len(u) - 2 : w[i] = u[i + 2]
    BY <1>2, <2>1, TwoDropped
  <2>3. Unopened(t) = v /\ Unopened(u) = w
    BY <1>2, <1>4, <1>6, OpenedBy
  <2> HIDE DEF v, w
  <2>4. Len(w) = Len(v) + Len(p)
    BY <1>1, <1>2, <2>2
  <2>5. ASSUME NEW i \in 1 .. Len(v) PROVE w[i] = v[i]
    <3>1. i \in 1 .. Len(t) - 2 /\ i \in 1 .. Len(u) - 2 /\ i + 2 \in 1 .. Len(t)
      BY <1>2, <2>1, <2>2
    <3> QED
      BY <1>2, <2>2, <3>1
  <2>6. ASSUME NEW i \in 1 .. Len(p) PROVE w[Len(v) + i] = p[i]
    <3>1. /\ Len(v) + i \in 1 .. Len(u) - 2 /\ (Len(v) + i) + 2 = Len(t) + i /\ i \in 1 .. k
      BY <1>1, <1>2, <2>1, <2>2
    <3> QED
      BY <1>2, <2>2, <3>1
  <2>7. w = v \o p
    BY <1>1, <2>2, <2>4, <2>5, <2>6, MadeOfTwo
  <2> QED
    BY <2>3, <2>7 DEF u, p
<1> QED
  BY <1>5, <1>6

LEMMA AddedCompletes ==
  ASSUME NEW old \in Seq(Character), NEW new \in Seq(Character), NEW otherwise
  PROVE  /\ Begins(old, new) => old \o Added(old, new, otherwise) = new
         /\ ~Begins(old, new) => Added(old, new, otherwise) = otherwise
         /\ old = new => Added(old, new, otherwise) = << >>
<1>1. IsPrefix(old, new) <=> Begins(old, new)
  BY PrefixPlaces
<1>2. Len(old) \in Nat /\ Len(new) \in Nat
  OBVIOUS
<1>3. ASSUME Begins(old, new) PROVE old \o Added(old, new, otherwise) = new
  <2> DEFINE v == SubSeq(new, Len(old) + 1, Len(new))
  <2>1. /\ v \in Seq(Character) /\ Len(v) = Len(new) - Len(old)
        /\ \A i \in 1 .. Len(new) - Len(old) : v[i] = new[Len(old) + i]
    BY <1>2, <1>3 DEF Begins
  <2>2. Added(old, new, otherwise) = v
    BY <1>1, <1>3 DEF Added
  <2> HIDE DEF v
  <2>3. Len(new) = Len(old) + Len(v) /\ \A i \in 1 .. Len(v) : new[Len(old) + i] = v[i]
    BY <1>2, <2>1
  <2>4. \A i \in 1 .. Len(old) : new[i] = old[i]
    BY <1>3 DEF Begins
  <2>5. new = old \o v
    BY <2>1, <2>3, <2>4, MadeOfTwo
  <2> QED
    BY <2>2, <2>5
<1>4. ASSUME old = new PROVE Added(old, new, otherwise) = << >>
  <2>1. SubSeq(new, Len(new) + 1, Len(new)) = << >>
    BY <1>2, SubSeqEmpty
  <2>2. Begins(old, new)
    BY <1>2, <1>4, BeginsItself
  <2> QED
    BY <1>1, <1>4, <2>1, <2>2 DEF Added
<1> QED
  BY <1>1, <1>3, <1>4 DEF Added

LEMMA SplitParts ==
  ASSUME NEW t \in Seq(Character), Mode = "thinking"
  PROVE  /\ SplitReasoning(t) = [reasoning |-> SplitReasoning(t).reasoning, content |-> SplitReasoning(t).content]
         /\ SplitReasoning(t).reasoning \in Seq(Character)
         /\ SplitReasoning(t).content \in Seq(Character)
         /\ Occurs(Marker, t) =>
              /\ SplitReasoning(t).reasoning = Unopened(SubSeq(t, 1, IndexOf(Marker, t) - 1))
              /\ SplitReasoning(t).content = SubSeq(t, IndexOf(Marker, t) + 3, Len(t))
         /\ ~Occurs(Marker, t) =>
              /\ SplitReasoning(t).reasoning = Unopened(t) /\ SplitReasoning(t).content = << >>
<1>1. CASE Occurs(Marker, t)
  <2> DEFINE at == IndexOf(Marker, t)
  <2>1. at \in 1 .. Len(t) /\ Len(t) \in Nat /\ Len(Marker) = 3
    BY <1>1, MarkerOccurs DEF Marker
  <2>2. SplitReasoning(t) = [reasoning |-> Unopened(SubSeq(t, 1, at - 1)),
                             content   |-> SubSeq(t, at + 3, Len(t))]
    BY <1>1, <2>1 DEF SplitReasoning
  <2> HIDE DEF at
  <2> DEFINE v == Unopened(SubSeq(t, 1, at - 1))
             w == SubSeq(t, at + 3, Len(t))
  <2>3. SubSeq(t, 1, at - 1) \in Seq(Character) /\ w \in Seq(Character)
    BY <2>1
  <2>4. v \in Seq(Character)
    BY <2>3, OpenedBy
  <2>5. SplitReasoning(t) = [reasoning |-> v, content |-> w]
    BY <2>2
  <2> HIDE DEF v, w
  <2>6. /\ SplitReasoning(t) = [reasoning |-> SplitReasoning(t).reasoning, content |-> SplitReasoning(t).content]
        /\ SplitReasoning(t).reasoning = v /\ SplitReasoning(t).content = w
    BY <2>5
  <2> QED
    BY <1>1, <2>3, <2>4, <2>6 DEF at, v, w
<1>2. CASE ~Occurs(Marker, t)
  <2>1. SplitReasoning(t) = [reasoning |-> Unopened(t), content |-> << >>]
    BY <1>2 DEF SplitReasoning
  <2> QED
    BY <1>2, <2>1, OpenedBy
<1> QED
  BY <1>1, <1>2

(* The two parts of a text that goes on: what was said of the answer begins
   what is said now; so it is with the reasoning, but for a marker, or an
   opener, that begins in what there was.                                  *)
LEMMA AnswerGrows ==
  ASSUME NEW t \in Seq(Character), NEW u \in Seq(Character), Begins(t, u), Mode = "thinking"
  PROVE  Begins(SplitReasoning(t).content, SplitReasoning(u).content)
<1>1. Len(t) \in Nat /\ Len(u) \in Nat /\ Len(t) <= Len(u) /\ \A i \in 1 .. Len(t) : u[i] = t[i]
  BY DEF Begins
<1>2. CASE Occurs(Marker, t)
  <2> DEFINE at == IndexOf(Marker, t)
             v == SubSeq(t, at + 3, Len(t))
             w == SubSeq(u, at + 3, Len(u))
  <2>1. at \in 1 .. Len(t) /\ at + 2 <= Len(t)
    BY <1>2, MarkerOccurs DEF MarkerAt
  <2>2. SplitReasoning(t).content = v /\ SplitReasoning(u).content = w
    BY <1>2, MarkerStays, SplitParts
  <2> HIDE DEF at
  <2>3. /\ Len(v) = Len(t) - (at + 2) /\ Len(w) = Len(u) - (at + 2)
        /\ \A i \in 1 .. Len(t) - (at + 2) : v[i] = t[(at + 2) + i]
        /\ \A i \in 1 .. Len(u) - (at + 2) : w[i] = u[(at + 2) + i]
    BY <1>1, <2>1
  <2> HIDE DEF v, w
  <2>4. Len(v) <= Len(w)
    BY <1>1, <2>1, <2>3
  <2>5. ASSUME NEW i \in 1 .. Len(v) PROVE w[i] = v[i]
    <3>1. i \in 1 .. Len(t) - (at + 2) /\ i \in 1 .. Len(u) - (at + 2) /\ (at + 2) + i \in 1 .. Len(t)
      BY <1>1, <2>1, <2>3
    <3> QED
      BY <1>1, <2>3, <3>1
  <2> QED
    BY <2>2, <2>4, <2>5 DEF Begins
<1>3. CASE ~Occurs(Marker, t)
  <2>1. SplitReasoning(t).content = << >> /\ SplitReasoning(u).content \in Seq(Character)
    BY <1>3, SplitParts
  <2> QED
    BY <2>1 DEF Begins
<1> QED
  BY <1>2, <1>3

LEMMA ReasoningStays ==
  ASSUME NEW t \in Seq(Character), NEW u \in Seq(Character), Begins(t, u), Mode = "thinking",
         Occurs(Marker, t)
  PROVE  Occurs(Marker, u) /\ SplitReasoning(u).reasoning = SplitReasoning(t).reasoning
<1> DEFINE at == IndexOf(Marker, t)
           v == SubSeq(t, 1, at - 1)
           w == SubSeq(u, 1, at - 1)
<1>1. Len(t) \in Nat /\ Len(u) \in Nat /\ Len(t) <= Len(u) /\ \A i \in 1 .. Len(t) : u[i] = t[i]
  BY DEF Begins
<1>2. at \in 1 .. Len(t)
  BY MarkerOccurs
<1>3. Occurs(Marker, u) /\ SplitReasoning(t).reasoning = Unopened(v) /\ SplitReasoning(u).reasoning = Unopened(w)
  BY MarkerStays, SplitParts
<1> HIDE DEF at
<1>4. /\ v \in Seq(Character) /\ w \in Seq(Character) /\ Len(v) = at - 1 /\ Len(w) = at - 1
      /\ \A i \in 1 .. at - 1 : v[i] = t[i] /\ w[i] = u[i] /\ u[i] = t[i]
  BY <1>1, <1>2
<1> HIDE DEF v, w
<1>5. v = w
  BY <1>4, SeqEqual
<1> QED
  BY <1>3, <1>5

LEMMA ReasoningGrows ==
  ASSUME NEW t \in Seq(Character), NEW u \in Seq(Character), Begins(t, u), Mode = "thinking",
         ~Occurs(Marker, t)
  PROVE  \/ Begins(SplitReasoning(t).reasoning, SplitReasoning(u).reasoning)
         \/ /\ Occurs(Marker, u)
            /\ \E k \in 1 .. 2 : SplitReasoning(t).reasoning = SplitReasoning(u).reasoning \o Begun(k)
         \/ Len(t) = 1 /\ t[1] = "<" /\ IsOpened(u) /\ SplitReasoning(t).reasoning = t
<1>1. Len(t) \in Nat /\ Len(u) \in Nat /\ Len(t) <= Len(u) /\ \A i \in 1 .. Len(t) : u[i] = t[i]
  BY DEF Begins
<1>2. SplitReasoning(t).reasoning = Unopened(t)
  BY SplitParts
<1>3. CASE IsOpened(u) /\ ~IsOpened(t) /\ t # << >>
  <2> DEFINE n == Len(t)
  <2>1. n \in Nat /\ n # 0 /\ t[1] = u[1] /\ (n >= 2 => t[2] = u[2])
    <3>1. Len(t) # 0
      BY <1>3, EmptySeq
    <3> QED
      BY <1>1, <3>1
  <2>2. u[1] = "<" /\ u[2] = ">" /\ ~(n >= 2 /\ t[1] = "<" /\ t[2] = ">")
    BY <1>3 DEF IsOpened
  <2> HIDE DEF n
  <2>3. n = 1 /\ t[1] = "<"
    BY <2>1, <2>2
  <2>4. Unopened(t) = t
    BY <1>3, OpenedBy
  <2> QED
    BY <1>2, <1>3, <2>3, <2>4 DEF n
<1>4. CASE (IsOpened(u) => IsOpened(t) \/ t = << >>) /\ ~Occurs(Marker, u)
  BY <1>2, <1>4, SplitParts, UnopenedGrows
<1>5. CASE (IsOpened(u) => IsOpened(t) \/ t = << >>) /\ Occurs(Marker, u)
  <2> DEFINE at == IndexOf(Marker, u)
             v == SubSeq(u, 1, at - 1)
  <2>1. at \in 1 .. Len(u) /\ at + 2 > Len(t) /\ MarkerAt(u, at)
    BY <1>5, MarkerComes
  <2>2. SplitReasoning(u).reasoning = Unopened(v)
    BY <1>5, SplitParts
  <2> HIDE DEF at
  <2>3. v \in Seq(Character) /\ Len(v) = at - 1 /\ \A i \in 1 .. at - 1 : v[i] = u[i]
    BY <1>1, <2>1
  <2> HIDE DEF v
  <2>4. CASE at > Len(t)
    <3>1. Len(t) <= Len(v) /\ \A i \in 1 .. Len(t) : v[i] = t[i]
      BY <1>1, <2>1, <2>3, <2>4
    <3>2. Begins(t, v)
      BY <3>1 DEF Begins
    <3>3. IsOpened(v) => IsOpened(u)
      <4>1. Len(v) >= 2 => 1 \in 1 .. at - 1 /\ 2 \in 1 .. at - 1 /\ Len(u) >= 2
        BY <1>1, <2>1, <2>3
      <4> QED
        BY <2>3, <4>1 DEF IsOpened
    <3> QED
      BY <1>2, <1>5, <2>2, <2>3, <3>2, <3>3, UnopenedGrows
  <2>5. CASE ~(at > Len(t))
    <3> DEFINE k == (Len(t) - at) + 1
               m == Begun(k)
    <3>1. k \in 1 .. 2 /\ k \in 0 .. 2 /\ Len(t) = (at - 1) + k
      BY <1>1, <2>1, <2>5
    <3> HIDE DEF k
    <3>2. m \in Seq(Character) /\ Len(m) = k /\ m[1] = "<" /\ (k = 2 => m[2] = "/")
      <4>1. k >= 1 /\ (k = 2 => k >= 2)
        BY <3>1
      <4> QED
        BY <3>1, <4>1, BegunIs
    <3> HIDE DEF m
    <3>3. Len(t) = Len(v) + Len(m)
      BY <2>3, <3>1, <3>2
    <3>4. \A i \in 1 .. Len(v) : t[i] = v[i]
      <4> TAKE i \in 1 .. Len(v)
      <4>1. i \in 1 .. Len(t) /\ i \in 1 .. at - 1
        BY <2>1, <2>3, <3>1
      <4> QED
        BY <1>1, <2>3, <4>1
    <3>5. \A i \in 1 .. Len(m) : t[Len(v) + i] = m[i]
      <4> TAKE i \in 1 .. Len(m)
      <4>1. Len(v) + i \in 1 .. Len(t) /\ Len(v) + i = (at - 1) + i /\ (i = 1 \/ (i = 2 /\ k = 2))
        BY <2>1, <2>3, <3>1, <3>2
      <4>2. (at - 1) + 1 = at /\ (at - 1) + 2 = at + 1
        BY <2>1
      <4>3. u[at] = "<" /\ u[at + 1] = "/"
        BY <2>1 DEF MarkerAt
      <4>4. CASE i = 1
        BY <1>1, <3>2, <4>1, <4>2, <4>3, <4>4
      <4>5. CASE i = 2 /\ k = 2
        BY <1>1, <3>2, <4>1, <4>2, <4>3, <4>5
      <4> QED
        BY <4>1, <4>4, <4>5
    <3>6. t = v \o m
      BY <2>3, <3>2, <3>3, <3>4, <3>5, MadeOfTwo
    <3>7. Unopened(v \o m) = Unopened(v) \o m
      BY <2>3, <3>1, UnopenedLast DEF m
    <3> QED
      BY <1>2, <1>5, <2>2, <3>1, <3>6, <3>7 DEF m
  <2> QED
    BY <2>4, <2>5
<1> QED
  BY <1>3, <1>4, <1>5

-----------------------------------------------------------------------------
(* What the stream has of a reasoning s, of which `begun` was the part of an
   opener that was sent before the rest of it came.                        *)
Lost(r, begun, t, s) ==
  begun # << >> /\ IsOpened(t) /\ \E i \in 1 .. Len(s) + 1 : r = begun \o SubSeq(s, i, Len(s))
Carried(r, begun, t, s) == r = s \/ Lost(r, begun, t, s)

(* What goes on after a loss goes on after what is left.                   *)
LEMMA LostGoesOn ==
  ASSUME NEW c \in Seq(Character), NEW s \in Seq(Character), NEW d \in Seq(Character),
         NEW i \in 1 .. Len(s) + 1
  PROVE  /\ i \in 1 .. Len(s \o d) + 1
         /\ (c \o SubSeq(s, i, Len(s))) \o d = c \o SubSeq(s \o d, i, Len(s \o d))
<1> DEFINE u == s \o d
           v == SubSeq(s, i, Len(s))
           w == SubSeq(u, i, Len(u))
<1>1. /\ u \in Seq(Character) /\ Len(u) = Len(s) + Len(d) /\ Len(s) \in Nat /\ Len(d) \in Nat
      /\ \A j \in 1 .. Len(s) : u[j] = s[j]
      /\ \A j \in 1 .. Len(d) : u[Len(s) + j] = d[j]
  BY Joined
<1> HIDE DEF u
<1>2. i \in 1 .. Len(u) + 1
  BY <1>1
<1>3. /\ v \in Seq(Character) /\ Len(v) = (Len(s) - i) + 1
      /\ \A j \in 1 .. (Len(s) - i) + 1 : v[j] = s[(i - 1) + j]
  BY <1>1, CutAt
<1>4. /\ w \in Seq(Character) /\ Len(w) = (Len(u) - i) + 1
      /\ \A j \in 1 .. (Len(u) - i) + 1 : w[j] = u[(i - 1) + j]
  BY <1>1, <1>2, CutAt
<1> HIDE DEF v, w
<1>5. Len(w) = Len(v) + Len(d)
  BY <1>1, <1>3, <1>4
<1>6. ASSUME NEW j \in 1 .. Len(v) PROVE w[j] = v[j]
  <2>1. j \in 1 .. (Len(s) - i) + 1 /\ j \in 1 .. (Len(u) - i) + 1 /\ (i - 1) + j \in 1 .. Len(s)
    BY <1>1, <1>3
  <2> QED
    BY <1>1, <1>3, <1>4, <2>1
<1>7. ASSUME NEW j \in 1 .. Len(d) PROVE w[Len(v) + j] = d[j]
  <2>1. Len(v) + j \in 1 .. (Len(u) - i) + 1 /\ (i - 1) + (Len(v) + j) = Len(s) + j
    BY <1>1, <1>3
  <2> QED
    BY <1>1, <1>4, <2>1
<1>8. w = v \o d
  BY <1>3, <1>4, <1>5, <1>6, <1>7, MadeOfTwo
<1>9. (c \o v) \o d = c \o (v \o d)
  <2>1. v \in Seq(Character)
    BY <1>3
  <2> QED
    BY <2>1, ConcatAssociative, SMTT(60)
<1> QED
  BY <1>2, <1>8, <1>9 DEF u, v, w

(* What the stream has carried is what the splitter has made of the text,
   and when a marker has come, the part of it that was sent before.        *)
SentIsSplit ==
  /\ split = SplitReasoning(text)
  /\ sent.content = split.content
  /\ \E k \in 0 .. 2 :
       /\ k > 0 => Occurs(Marker, text)
       /\ Carried(sent.reasoning, cut, text, split.reasoning \o Begun(k))
  /\ sent.reasoning \in Seq(Character) /\ cut \in Seq(Character)
  /\ Len(text) = 1 /\ text[1] = "<" => cut = text
  /\ result # NoResult => finish # "none" /\ result = SplitReasoning(TrimStop(text))

LEMMA NothingBegun ==
  ASSUME NEW s \in Seq(Character)
  PROVE  s \o Begun(0) = s
<1>1. Begun(0) = << >>
  BY SubSeqEmpty DEF Begun
<1> QED
  BY <1>1, ConcatEmptySeq

LEMMA SentInit ==
  ASSUME Mode = "thinking", Init
  PROVE  SentIsSplit
<1>1. /\ text = << >> /\ split = Nothing /\ sent = Nothing /\ cut = << >> /\ result = NoResult
      /\ << >> \in Seq(Character) /\ Len(<< >>) = 0
  BY DEF Init
<1>2. ~Occurs(Marker, << >>)
  <2>1. 1 .. Len(<< >>) = {}
    BY <1>1
  <2> QED
    BY <1>1, <2>1, MarkerOccurs, Zenon
<1>3. SplitReasoning(<< >>) = [reasoning |-> << >>, content |-> << >>]
  <2>1. ~IsOpened(<< >>)
    BY <1>1 DEF IsOpened
  <2>2. Unopened(<< >>) = << >>
    BY <1>1, <2>1, OpenedBy
  <2> QED
    BY <1>1, <1>2, <2>2, SplitParts
<1>4. Carried(sent.reasoning, cut, text, split.reasoning \o Begun(0))
  <2>1. << >> \o Begun(0) = << >>
    BY <1>1, NothingBegun
  <2> QED
    BY <1>1, <2>1 DEF Carried, Nothing
<1>5. 0 \in 0 .. 2 /\ ~(0 > 0)
  OBVIOUS
<1> QED
  BY <1>1, <1>3, <1>4, <1>5 DEF SentIsSplit, Nothing

(* An opener that has been cut once is not cut again.                      *)
LEMMA CutStays ==
  ASSUME TextIsDecoded, SentIsSplit, NEW token \in Tokens, Advance(token)
  PROVE  /\ cut' \in Seq(Character)
         /\ Len(text') = 1 /\ text'[1] = "<" => cut' = text'
         /\ IsOpened(text') => cut' = cut
         /\ IsOpened(text) => IsOpened(text')
<1>1. /\ text \in Seq(Character) /\ text' \in Seq(Character) /\ Begins(text, text')
      /\ cut \in Seq(Character) /\ cut' = IF Opening(text') THEN text' ELSE cut
  BY AdvanceGrows DEF TextIsDecoded, SentIsSplit, Advance
<1>2. Opener \in Seq(Character) /\ Len(Opener) = 2 /\ Opener[1] = "<"
  BY DEF Opener, Character
<1> DEFINE u == text'
<1>3. u \in Seq(Character) /\ (IsPrefix(u, Opener) <=> Begins(u, Opener))
  BY <1>1, <1>2, PrefixPlaces
<1> HIDE DEF u
<1>4. Opening(u) <=> u # << >> /\ u # Opener /\ Begins(u, Opener)
  BY <1>3 DEF Opening
<1>5. ASSUME Len(u) = 1, u[1] = "<" PROVE Opening(u)
  <2>1. u # << >> /\ u # Opener
    <3>1. Len(u) # 0 /\ Len(u) # Len(Opener)
      BY <1>2, <1>5
    <3>2. u # << >>
      BY <1>3, <3>1, EmptySeq
    <3> QED
      BY <3>1, <3>2
  <2>2. Begins(u, Opener)
    <3>1. \A i \in 1 .. 1 : i = 1
      OBVIOUS
    <3> QED
      BY <1>2, <1>5, <3>1 DEF Begins
  <2> QED
    BY <1>4, <2>1, <2>2
<1>6. ASSUME IsOpened(u) PROVE ~Opening(u)
  <2>1. Begins(u, Opener) => Len(u) = 2
    BY <1>2, <1>3, <1>6 DEF Begins, IsOpened
  <2>2. Opener[2] = ">"
    BY DEF Opener
  <2>3. Len(u) = 2 => u = Opener
    <3> SUFFICES ASSUME Len(u) = 2 PROVE u = Opener
      OBVIOUS
    <3>1. \A i \in 1 .. 2 : i = 1 \/ i = 2
      OBVIOUS
    <3>2. \A i \in 1 .. 2 : u[i] = Opener[i]
      BY <1>2, <1>6, <2>2, <3>1 DEF IsOpened
    <3> QED
      BY <1>2, <1>3, <3>2, SeqEqual
  <2> QED
    BY <1>4, <2>1, <2>3
<1>7. IsOpened(text) => IsOpened(u)
  <2>1. /\ Len(text) \in Nat /\ Len(u) \in Nat /\ Len(text) <= Len(u)
        /\ \A i \in 1 .. Len(text) : u[i] = text[i]
    BY <1>1, <1>3 DEF Begins, u
  <2>2. Len(text) >= 2 => 1 \in 1 .. Len(text) /\ 2 \in 1 .. Len(text) /\ Len(u) >= 2
    BY <2>1
  <2> QED
    BY <2>1, <2>2 DEF IsOpened
<1> QED
  BY <1>1, <1>5, <1>6, <1>7 DEF u

(* The streamed reasoning, with d put after the old one, or with nothing.  *)
LEMMA CarriedGoesOn ==
  ASSUME NEW r \in Seq(Character), NEW c \in Seq(Character), NEW t, NEW s \in Seq(Character),
         NEW d \in Seq(Character), NEW u, Carried(r, c, t, s), IsOpened(t) => IsOpened(u)
  PROVE  Carried(r \o d, c, u, s \o d) /\ Carried(r, c, u, s)
<1>1. CASE r = s
  BY <1>1 DEF Carried
<1>2. CASE r # s
  <2>1. c # << >> /\ IsOpened(u)
    BY <1>2 DEF Carried, Lost
  <2>2. PICK i \in 1 .. Len(s) + 1 : r = c \o SubSeq(s, i, Len(s))
    BY <1>2 DEF Carried, Lost
  <2>3. /\ i \in 1 .. Len(s \o d) + 1
        /\ (c \o SubSeq(s, i, Len(s))) \o d = c \o SubSeq(s \o d, i, Len(s \o d))
    BY LostGoesOn, ZenonT(40)
  <2> QED
    BY <2>1, <2>2, <2>3 DEF Carried, Lost
<1> QED
  BY <1>1, <1>2

LEMMA ReasoningSent ==
  ASSUME Mode = "thinking", TextIsDecoded, SentIsSplit, NEW token \in Tokens, Advance(token)
  PROVE  /\ sent'.reasoning \in Seq(Character)
         /\ \E k \in 0 .. 2 :
              /\ k > 0 => Occurs(Marker, text')
              /\ Carried(sent'.reasoning, cut', text', split'.reasoning \o Begun(k))
<1> DEFINE old == SplitReasoning(text).reasoning
           new == SplitReasoning(text').reasoning
           had == sent.reasoning
           has == sent'.reasoning
           u == text'
           c == cut'
<1>1. text \in Seq(Character) /\ u \in Seq(Character) /\ Begins(text, u)
  BY AdvanceGrows DEF TextIsDecoded
<1>2. old \in Seq(Character) /\ new \in Seq(Character) /\ had \in Seq(Character) /\ cut \in Seq(Character)
  BY <1>1, SplitParts DEF SentIsSplit
<1>3. split.reasoning = old /\ split'.reasoning = new
  BY DEF Advance, SentIsSplit
<1>4. has = had \o Added(old, new, << >>)
  BY <1>3 DEF Advance, Delta
<1>5. /\ c \in Seq(Character)
      /\ IsOpened(u) => c = cut
      /\ IsOpened(text) => IsOpened(u)
  BY CutStays
<1>6. PICK k \in 0 .. 2 : /\ k > 0 => Occurs(Marker, text)
                          /\ Carried(had, cut, text, old \o Begun(k))
  BY <1>3 DEF SentIsSplit
<1>7. ~Occurs(Marker, text) => k = 0 /\ Carried(had, cut, text, old)
  <2>1. ~Occurs(Marker, text) => k = 0
    BY <1>6
  <2> QED
    BY <1>2, <1>6, <2>1, NothingBegun
<1>8. CASE Occurs(Marker, text)
  <2>1. Occurs(Marker, u) /\ new = old
    BY <1>1, <1>8, ReasoningStays
  <2> DEFINE s == old \o Begun(k)
  <2>2. s \in Seq(Character) /\ << >> \in Seq(Character)
    BY <1>2, BegunIs
  <2> HIDE DEF old, new, had, has, u, c
  <2>3. has = had
    <3>1. Added(old, new, << >>) = << >>
      BY <1>2, <2>1, AddedCompletes
    <3> QED
      BY <1>2, <1>4, <3>1, ConcatEmptySeq
  <2> HIDE DEF s
  <2>4. Carried(had, c, u, s)
    <3>1. Carried(had, cut, u, s)
      BY <1>2, <1>5, <1>6, <2>2, CarriedGoesOn DEF s
    <3> QED
      BY <1>5, <3>1 DEF Carried, Lost
  <2> QED
    BY <1>2, <1>3, <2>1, <2>3, <2>4 DEF s, has, new, u, c
<1>9. CASE ~Occurs(Marker, text) /\ Begins(old, new)
  <2> HIDE DEF old, new, had, has, u, c
  <2> DEFINE d == Added(old, new, << >>)
  <2>1. old \o d = new /\ d \in Seq(Character)
    <3>1. IsPrefix(old, new)
      BY <1>2, <1>9, PrefixPlaces
    <3>2. d = SubSeq(new, Len(old) + 1, Len(new))
      BY <3>1 DEF Added
    <3> DEFINE i == Len(old) + 1
    <3>3. i \in 1 .. Len(new) + 1
      <4>1. Len(old) \in Nat /\ Len(new) \in Nat /\ Len(old) <= Len(new)
        BY <1>2, <1>9 DEF Begins
      <4> QED
        BY <4>1
    <3> HIDE DEF i
    <3>4. SubSeq(new, i, Len(new)) \in Seq(Character)
      BY <1>2, <3>3, CutAt
    <3>5. old \o d = new
      BY <1>2, <1>9, AddedCompletes
    <3> QED
      BY <3>2, <3>4, <3>5 DEF i
  <2> HIDE DEF d
  <2>2. has = had \o d
    BY <1>4 DEF d
  <2>3. Carried(had, cut, text, old)
    BY <1>7, <1>9
  <2>4. Carried(had \o d, cut, u, old \o d)
    BY <1>2, <1>5, <2>1, <2>3, CarriedGoesOn
  <2>5. Carried(has, cut, u, new)
    BY <2>1, <2>2, <2>4
  <2>6. Carried(has, c, u, new)
    BY <1>5, <2>5 DEF Carried, Lost
  <2>7. new \o Begun(0) = new /\ has \in Seq(Character)
    <3>1. had \o d \in Seq(Character)
      BY <1>2, <2>1
    <3> QED
      BY <1>2, <2>2, <3>1, NothingBegun
  <2>8. 0 \in 0 .. 2 /\ ~(0 > 0)
    OBVIOUS
  <2>9. Carried(has, c, u, new \o Begun(0))
    BY <2>6, <2>7
  <2> QED
    BY <1>3, <2>7, <2>8, <2>9 DEF new, has, u, c
<1>10. CASE ~Occurs(Marker, text) /\ ~Begins(old, new)
  <2>1. \/ Occurs(Marker, u) /\ \E j \in 1 .. 2 : old = new \o Begun(j)
        \/ Len(text) = 1 /\ text[1] = "<" /\ IsOpened(u) /\ old = text
    BY <1>1, <1>10, ReasoningGrows
  <2> HIDE DEF old, new, had, has, u, c
  <2>2. has = had
    <3>1. Added(old, new, << >>) = << >>
      BY <1>2, <1>10, AddedCompletes
    <3> QED
      BY <1>2, <1>4, <3>1, ConcatEmptySeq
  <2>3. Carried(had, cut, text, old)
    BY <1>7, <1>10
  <2>4. ASSUME Occurs(Marker, u), NEW j \in 1 .. 2, old = new \o Begun(j)
        PROVE  j \in 0 .. 2 /\ Carried(has, c, u, new \o Begun(j))
    <3>1. << >> \in Seq(Character) /\ j \in 0 .. 2
      OBVIOUS
    <3>2. Carried(had, cut, u, old)
      BY <1>2, <1>5, <2>3, <3>1, CarriedGoesOn
    <3>3. Carried(had, c, u, old)
      BY <1>5, <3>2 DEF Carried, Lost
    <3> QED
      BY <2>2, <2>4, <3>1, <3>3
  <2>5. ASSUME Len(text) = 1, text[1] = "<", IsOpened(u), old = text
        PROVE  Carried(has, c, u, new \o Begun(0))
    <3>1. cut = text /\ c = text /\ text # << >>
      <4>1. cut = text
        BY <2>5 DEF SentIsSplit
      <4>2. text # << >>
        <5>1. Len(<< >>) = 0
          OBVIOUS
        <5> QED
          BY <2>5, <5>1
      <4> QED
        BY <1>5, <2>5, <4>1, <4>2
    <3>2. ~IsOpened(text)
      BY <2>5 DEF IsOpened
    <3>3. had = text
      BY <2>3, <2>5, <3>2 DEF Carried, Lost
    <3>4. Len(new) \in Nat /\ Len(new) + 1 \in 1 .. Len(new) + 1 /\ SubSeq(new, Len(new) + 1, Len(new)) = << >>
      BY <1>2, SubSeqEmpty
    <3>5. text \o << >> = text
      BY <1>1, ConcatEmptySeq
    <3>6. Lost(has, c, u, new)
      <4> DEFINE i == Len(new) + 1
      <4>1. i \in 1 .. Len(new) + 1 /\ has = c \o SubSeq(new, i, Len(new))
        BY <2>2, <3>1, <3>3, <3>4, <3>5
      <4> HIDE DEF i
      <4> QED
        BY <2>5, <3>1, <4>1 DEF Lost
    <3>7. new \o Begun(0) = new
      BY <1>2, NothingBegun
    <3> QED
      BY <3>6, <3>7 DEF Carried
  <2>6. 0 \in 0 .. 2 /\ ~(0 > 0)
    OBVIOUS
  <2>7. \E j \in 0 .. 2 : (j > 0 => Occurs(Marker, u)) /\ Carried(has, c, u, new \o Begun(j))
    <3>1. CASE Occurs(Marker, u) /\ \E j \in 1 .. 2 : old = new \o Begun(j)
      BY <2>4, <3>1
    <3>2. CASE Len(text) = 1 /\ text[1] = "<" /\ IsOpened(u) /\ old = text
      BY <2>5, <2>6, <3>2
    <3> QED
      BY <2>1, <3>1, <3>2
  <2> QED
    BY <1>2, <1>3, <2>2, <2>7 DEF new, has, u, c
<1> QED
  BY <1>8, <1>9, <1>10

LEMMA AdvanceSends ==
  ASSUME Mode = "thinking", TextIsDecoded, SentIsSplit, NEW token \in Tokens, Advance(token)
  PROVE  SentIsSplit'
<1> DEFINE old == SplitReasoning(text)
           new == SplitReasoning(text')
<1>1. text \in Seq(Character) /\ text' \in Seq(Character) /\ Begins(text, text')
  BY AdvanceGrows DEF TextIsDecoded
<1>2. old.content \in Seq(Character) /\ new.content \in Seq(Character)
  BY <1>1, SplitParts
<1>3. split = old /\ split' = new /\ finish = "none" /\ result' = result
  BY DEF Advance, SentIsSplit
<1>4. sent'.content = sent.content \o Added(old.content, new.content, new.content)
  BY <1>3 DEF Advance, Delta
<1>5. sent'.content = new.content
  <2>1. Begins(old.content, new.content) /\ sent.content = old.content
    BY <1>1, <1>3, AnswerGrows DEF SentIsSplit
  <2> HIDE DEF old, new
  <2>2. old.content \o Added(old.content, new.content, new.content) = new.content
    BY <1>2, <2>1, AddedCompletes
  <2> QED
    BY <1>4, <2>1, <2>2
<1>6. result' = NoResult
  BY <1>3 DEF SentIsSplit
<1> HIDE DEF new
<1>7. split' = new /\ new = SplitReasoning(text')
  BY <1>3 DEF new
<1>8. cut' \in Seq(Character) /\ (Len(text') = 1 /\ text'[1] = "<" => cut' = text')
  BY CutStays
<1>9. sent'.reasoning \in Seq(Character)
  BY ReasoningSent
<1>10. \E k \in 0 .. 2 :
         /\ k > 0 => Occurs(Marker, text')
         /\ Carried(sent'.reasoning, cut', text', split'.reasoning \o Begun(k))
  BY ReasoningSent
<1> QED
  BY <1>5, <1>6, <1>7, <1>8, <1>9, <1>10 DEF SentIsSplit, NoResult

LEMMA SentNext ==
  ASSUME Mode = "thinking", TextIsDecoded, SentIsSplit, [Next]_vars
  PROVE  SentIsSplit'
<1>1. CASE Eos \/ UNCHANGED vars
  <2>1. UNCHANGED <<text, split, sent, cut, result>> /\ (finish # "none" => finish' # "none")
    BY <1>1 DEF Eos, vars
  <2> QED
    BY <2>1 DEF SentIsSplit, NoResult
<1>2. CASE FinishJob
  <2>1. UNCHANGED <<text, split, sent, cut, finish>> /\ finish # "none" /\ result' = SplitReasoning(TrimStop(text))
    BY <1>2 DEF FinishJob
  <2> QED
    BY <2>1 DEF SentIsSplit
<1>3. ASSUME NEW token \in Tokens, Advance(token) PROVE SentIsSplit'
  BY <1>3, AdvanceSends
<1> QED
  BY <1>1, <1>2, <1>3 DEF Next

(* Of a model that thinks, the stream carries the collected answer when no
   stop sequence ended it, in whatever tokens it came; and its reasoning,
   but for what a marker or an opener that straddles tokens costs.  In
   "chat" mode it does not: what comes before a "</think>" was sent as
   answer, and the collected answer has it not.                            *)
THEOREM StreamIsTheAnswer ==
  ASSUME Mode = "thinking"
  PROVE  Spec => []AnswerIsResult
<1>1. Init => SentIsSplit
  BY SentInit
<1>2. TextIsDecoded /\ TextIsDecoded' /\ SentIsSplit /\ [Next]_vars => SentIsSplit'
  BY SentNext
<1>3. TextIsDecoded /\ SentIsSplit => AnswerIsResult
  <2> SUFFICES ASSUME TextIsDecoded, SentIsSplit, result # NoResult, ~Stopped(text)
               PROVE  /\ sent.content = result.content
                      /\ \E said \in WithMarkerBegun(result.reasoning) :
                           sent.reasoning \in {said} \cup OpenerLost(said)
    BY DEF AnswerIsResult
  <2>1. result = split
    BY DEF SentIsSplit, TrimStop
  <2>2. PICK k \in 0 .. 2 : Carried(sent.reasoning, cut, text, split.reasoning \o Begun(k))
    BY DEF SentIsSplit
  <2> DEFINE said == split.reasoning \o Begun(k)
  <2>3. said \in WithMarkerBegun(result.reasoning)
    <3>1. Len(Marker) - 1 = 2
      BY DEF Marker
    <3> QED
      BY <2>1, <3>1 DEF WithMarkerBegun, Begun
  <2>4. IsPrefix(Opener, text) <=> IsOpened(text)
    BY OpenedBy DEF TextIsDecoded
  <2> HIDE DEF said
  <2>5. Carried(sent.reasoning, cut, text, said)
    BY <2>2 DEF said
  <2>6. sent.reasoning \in {said} \cup OpenerLost(said)
    BY <2>4, <2>5 DEF Carried, Lost, OpenerLost
  <2> QED
    BY <2>1, <2>3, <2>6 DEF SentIsSplit
<1> QED
  BY <1>1, <1>2, <1>3, TextIsAlwaysDecoded, PTL DEF Spec
====
