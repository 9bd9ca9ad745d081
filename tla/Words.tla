------------------------------- MODULE Words -------------------------------
(***************************************************************************)
(* Text to tokens and back (tokenizer/): special tokens are cut out of the *)
(* text, what is left is split into words by the rules of a regex, a       *)
(* word's bytes are written as characters, and adjacent pieces are merged. *)
(* A text is a sequence of bytes or of code points; a token is the         *)
(* sequence of characters it is spelled with.                              *)
(***************************************************************************)
EXTENDS Integers, Sequences, FiniteSets, FiniteSetsExt, SequencesExt

(* unicode_data.cpp, of the code points tried: U+00E9 is a letter, U+FF5C
   is neither letter, number nor space.                                    *)
Letters == (65 .. 90) \cup (97 .. 122) \cup {233}
Digits  == 48 .. 57
Spaces  == (9 .. 13) \cup {32}
Newlines == {10, 13}

CptLower(c) == IF c \in 65 .. 90 THEN c + 32 ELSE c

-----------------------------------------------------------------------------
(* pretokenize.  Each rule gives where a word that starts at p ends, or 0
   when it is not that rule's; positions are 1-based, and past the end
   there is no flag.                                                       *)
Flagged(text, p, class) == p \in DOMAIN text /\ text[p] \in class
RunEnd(text, p, class) == Min({e \in p .. Len(text) + 1 : ~Flagged(text, e, class)})

Contraction(text, p) ==
  LET next(i) == IF p + i \in DOMAIN text THEN CptLower(text[p + i]) ELSE -1
  IN  IF text[p] # 39 THEN 0
      ELSE IF next(1) \in {115, 116, 109, 100} THEN p + 2
      ELSE IF <<next(1), next(2)>> \in {<<114, 101>>, <<118, 101>>, <<108, 108>>} THEN p + 3
      ELSE 0

LetterRun(text, p) ==
  IF text[p] \notin Newlines \cup Digits /\ (text[p] \in Letters \/ Flagged(text, p + 1, Letters))
  THEN RunEnd(text, p + 1, Letters) ELSE 0

DigitRun(text, p, maxDigits) ==
  IF text[p] \in Digits THEN Min({RunEnd(text, p, Digits), p + maxDigits}) ELSE 0

Marks(text) == ToSet(text) \ (Letters \cup Digits \cup Spaces)
MarkRun(text, p) ==
  LET first == IF text[p] = 32 THEN p + 1 ELSE p
  IN  IF Flagged(text, first, Marks(text))
      THEN RunEnd(text, RunEnd(text, first, Marks(text)), Newlines) ELSE 0

(* Wrong variant of SpaceRun: the last space before a word stays behind.   *)
SpaceRun_Whole(text, p) == RunEnd(text, p, Spaces)

(* Through the last newline; else all but one, which goes to the word that
   follows; a single space goes alone.                                     *)
SpaceRun(text, p) ==
  LET end == RunEnd(text, p, Spaces)
      newlines == {i \in p .. end - 1 : text[i] \in Newlines}
  IN  IF newlines # {} THEN Max(newlines) + 1
      ELSE IF end - p > 1 /\ end <= Len(text) THEN end - 1
      ELSE end

WordEnd(text, p, maxDigits) ==
  LET rules == <<Contraction(text, p), LetterRun(text, p), DigitRun(text, p, maxDigits),
                 MarkRun(text, p), SpaceRun(text, p)>>
      end == rules[Min({r \in DOMAIN rules : r = 5 \/ rules[r] # 0})]
  IN  IF end = p THEN p + 1 ELSE end

(* The words' ends, one after another.                                     *)
Pretokenize(text, maxDigits) ==
  LET ends[n \in 0 .. Len(text)] ==
        IF n = 0 THEN <<1>>
        ELSE IF Last(ends[n - 1]) > Len(text) THEN ends[n - 1]
        ELSE Append(ends[n - 1], WordEnd(text, Last(ends[n - 1]), maxDigits))
  IN  ends[Len(text)]

-----------------------------------------------------------------------------
(* merge_word.  merges is the checkpoint's list; a pair's rank is its first
   place in it.  A symbol is its text, << >> once it was absorbed.         *)
Rank(merges, a, b) ==
  LET at == {i \in DOMAIN merges : merges[i] = <<a, b>>} IN IF at = {} THEN 0 ELSE Min(at)

Bigrams(merges, s, left, right) ==
  IF left = 0 \/ right = 0 \/ Rank(merges, s[left].text, s[right].text) = 0 THEN {}
  ELSE {[left |-> left, right |-> right, text |-> s[left].text \o s[right].text,
         rank |-> Rank(merges, s[left].text, s[right].text)]}

Foremost(queue) ==
  CHOOSE b \in queue : \A o \in queue : b.rank < o.rank \/ (b.rank = o.rank /\ b.left <= o.left)

(* One of the symbols was merged since the bigram was queued.              *)
Stale(s, b) ==
  \/ s[b.left].text = << >> \/ s[b.right].text = << >>
  \/ s[b.left].text \o s[b.right].text # b.text

Merged(s, b) ==
  LET next == s[b.right].next
      joined == [s EXCEPT ![b.left].text = @ \o s[b.right].text, ![b.left].next = next,
                          ![b.right].text = << >>]
  IN  IF next = 0 THEN joined ELSE [joined EXCEPT ![next].prev = b.left]

(* Pops of the queue until it is empty: each merge pushes two at most.     *)
MergeWord(word, merges) ==
  LET n == Len(word)
      start == [i \in 1 .. n |-> [text |-> <<word[i]>>, prev |-> i - 1,
                                  next |-> IF i = n THEN 0 ELSE i + 1]]
      after[pops \in 0 .. 3 * n] ==
        IF pops = 0
        THEN [symbols |-> start, queue |-> UNION {Bigrams(merges, start, i - 1, i) : i \in 2 .. n}]
        ELSE LET was == after[pops - 1]
                 b == Foremost(was.queue)
                 s == Merged(was.symbols, b)
             IN  IF was.queue = {} THEN was
                 ELSE IF Stale(was.symbols, b) THEN [was EXCEPT !.queue = @ \ {b}]
                 ELSE [symbols |-> s,
                       queue |-> (was.queue \ {b}) \cup Bigrams(merges, s, s[b.left].prev, b.left)
                                   \cup Bigrams(merges, s, b.left, s[b.left].next)]
  IN  [ends |-> after[3 * n].queue = {},
       pieces |-> SelectSeq([i \in 1 .. n |-> after[3 * n].symbols[i].text], LAMBDA t : t # << >>)]

-----------------------------------------------------------------------------
(* cpts_from_utf8 and cpt_to_utf8.                                         *)
Utf8Extra(b) ==
  CASE b \in 192 .. 223 -> 1 [] b \in 224 .. 239 -> 2 [] b \in 240 .. 247 -> 3 [] OTHER -> 0

CptAt(bytes, i) ==
  LET extra == Utf8Extra(bytes[i])
      whole == i + extra <= Len(bytes) /\ \A k \in 1 .. extra : bytes[i + k] \in 128 .. 191
      lead == IF extra = 0 THEN bytes[i] ELSE bytes[i] % 2^(6 - extra)
  IN  IF whole THEN [cpt |-> FoldLeft(LAMBDA c, b : 64 * c + (b % 64), lead, SubSeq(bytes, i + 1, i + extra)),
                     next |-> i + extra + 1]
      ELSE [cpt |-> bytes[i], next |-> i + 1]

CptsFromUtf8(bytes) ==
  LET read[n \in 0 .. Len(bytes)] ==
        IF n = 0 THEN [cpts |-> << >>, next |-> 1]
        ELSE IF read[n - 1].next > Len(bytes) THEN read[n - 1]
        ELSE LET c == CptAt(bytes, read[n - 1].next)
             IN  [cpts |-> Append(read[n - 1].cpts, c.cpt), next |-> c.next]
  IN  read[Len(bytes)].cpts

CptToUtf8(c) ==
  LET tail(shift) == 128 + ((c \div 2^shift) % 64)
  IN  CASE c < 128 -> <<c>>
        [] c \in 128 .. 2047 -> <<192 + (c \div 64), tail(0)>>
        [] c \in 2048 .. 65535 -> <<224 + (c \div 4096), tail(6), tail(0)>>
        [] OTHER -> <<240 + (c \div 262144), tail(12), tail(6), tail(0)>>

CptsToUtf8(cpts) == FlattenSeq([i \in DOMAIN cpts |-> CptToUtf8(cpts[i])])

(* The character a byte is written as in the vocabulary.                   *)
Printable == (33 .. 126) \cup (161 .. 172) \cup (174 .. 255)
ByteToCpt[b \in 0 .. 255] ==
  IF b \in Printable THEN b ELSE 256 + Cardinality({o \in 0 .. b - 1 : o \notin Printable})

(* byte_unmap: a character that stands for no byte is left as it is.       *)
ByteUnmap(piece) ==
  FlattenSeq([i \in DOMAIN piece |->
    LET bytes == {b \in 0 .. 255 : ByteToCpt[b] = piece[i]}
    IN  IF bytes = {} THEN CptToUtf8(piece[i]) ELSE <<CHOOSE b \in bytes : TRUE>>])

-----------------------------------------------------------------------------
(* split_specials: longest first, then by id; each is cut out of what the
   ones before left as text, from the left.                                *)
Places(text, needle) ==
  {i \in 1 .. Len(text) + 1 - Len(needle) : SubSeq(text, i, i + Len(needle) - 1) = needle}

CutOut(text, special) ==
  LET n == Len(special.text)
      Part(t) == IF t = << >> THEN << >> ELSE <<[token |-> FALSE, text |-> t]>>
      cut[left \in 0 .. Len(text)] ==       \* of the last `left` bytes
        LET rest == SubSeq(text, Len(text) - left + 1, Len(text))
            at == IF Places(rest, special.text) = {} THEN 0 ELSE Min(Places(rest, special.text))
        IN  IF at = 0 THEN Part(rest)
            ELSE Part(SubSeq(rest, 1, at - 1)) \o <<[token |-> TRUE, text |-> special.text]>>
                   \o cut[left - (at - 1) - n]
  IN  cut[Len(text)]

SpecialOrder(specials) ==
  SortSeq(specials, LAMBDA a, b : Len(a.text) > Len(b.text) \/ (Len(a.text) = Len(b.text) /\ a.id < b.id))

SplitSpecials(specials, text, parseSpecial) ==
  LET used == SelectSeq(SpecialOrder(specials), LAMBDA s : s.type = 4 \/ parseSpecial)
      Cut(fragments, special) ==
        FlattenSeq([i \in DOMAIN fragments |->
          IF fragments[i].token THEN <<fragments[i]>> ELSE CutOut(fragments[i].text, special)])
  IN  FoldLeft(Cut, <<[token |-> FALSE, text |-> text]>>, used)

(* encode of one fragment, and of a text.  Every byte's character is in
   the vocabulary, so a piece that is not is its characters.               *)
EncodeFragment(bytes, maxDigits, merges) ==
  LET cpts == CptsFromUtf8(bytes)
      ends == Pretokenize(cpts, maxDigits)
      Word(w) == LET b == CptsToUtf8(SubSeq(cpts, ends[w], ends[w + 1] - 1)) IN [i \in DOMAIN b |-> ByteToCpt[b[i]]]
  IN  FlattenSeq([w \in 1 .. Len(ends) - 1 |-> MergeWord(Word(w), merges).pieces])

Encode(text, c) ==
  LET fragments == SplitSpecials(c.specials, text, c.parse)
  IN  FlattenSeq([i \in DOMAIN fragments |->
        IF fragments[i].token THEN <<CptsFromUtf8(fragments[i].text)>>
        ELSE EncodeFragment(fragments[i].text, c.digits, c.merges)])

(* Wrong variant of Decode: the pieces are their own text.                 *)
Decode_AsSpelled(pieces) == FlattenSeq([i \in DOMAIN pieces |-> CptsToUtf8(pieces[i])])

(* The vocabulary's piece of an id below 0 or past its end.                *)
NoPiece == << >>

(* The value of a hex digit.                                               *)
HexValue(c) == CASE c \in 48 .. 57 -> c - 48 [] c \in 65 .. 70 -> c - 55 [] c \in 97 .. 102 -> c - 87

(* A "<0xXX>" token, whose byte is spelled.                                *)
IsByteToken(piece) == Len(piece) = 6 /\ SubSeq(piece, 1, 3) = <<60, 48, 120>> /\ piece[6] = 62

Decode(pieces) ==
  FlattenSeq([i \in DOMAIN pieces |->
    LET p == pieces[i]
    IN  IF p = NoPiece THEN << >>
        ELSE IF IsByteToken(p) THEN <<16 * HexValue(p[4]) + HexValue(p[5])>>
        ELSE ByteUnmap(p)])
=============================================================================
