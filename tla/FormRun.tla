------------------------------ MODULE FormRun ------------------------------
(***************************************************************************)
(* A dot product being taken, in one of the forms the engine has for it.   *)
(* Which form runs depends on the format, the build, the row count and     *)
(* environment variables; the weights, and the order of the sum where the  *)
(* code promises one, must not.                                            *)
(***************************************************************************)
EXTENDS PanelForms, SequencesExt

CONSTANTS
  DotSizes,    \* lengths k of an attention dot
  TileRows     \* rows of a tile: even

ASSUME FormAssumption == DotSizes \subseteq Nat /\ TileRows \in Nat \ {0} /\ TileRows % 2 = 0

VARIABLES
  form,     \* [name, type, k]
  step,     \* runs taken
  last,     \* the terms of the last run
  met,      \* the addresses of all runs so far
  chains,   \* of a dot, chains[r, c]: the products on chain c of row r, in order
  sums      \* of a dot that is over, sums[r]: what row r is the sum of

formVars == <<form, step, last, met, chains, sums>>

-----------------------------------------------------------------------------
(* Attention's f32 dot product: one row, two rows, R rows, and R rows whose
   queries were woven together once per tile.  A sum of floats depends on
   its order: there are four chains of every fourth product, and the vector
   forms have a tail of their own.                                         *)

TailChain == 4

(* A term of output row p: the two factors and the chain.                  *)
DotTerm(p, i, query, key, chain) ==
  [at |-> <<"q", p, 0, i>>, got |-> [query |-> query, key |-> key, chain |-> chain], lane |-> << >>]

(* dot: four strided chains; what is left goes on the first.               *)
Dot(k, p, s) ==
  LET i == 4 * s
  IN  IF i + 4 <= k THEN {DotTerm(p, i + e, <<p, i + e>>, i + e, e) : e \in 0 .. 3}
      ELSE {DotTerm(p, j, <<p, j>>, j, 0) : j \in i .. k - 1}

(* dot4, without the scalar selector.                                      *)
Dot4(k, p, s) ==
  LET i == 4 * s
  IN  IF i + 4 <= k THEN {DotTerm(p, i + lane, <<p, i + lane>>, i + lane, lane) : lane \in 0 .. 3}
      ELSE {DotTerm(p, j, <<p, j>>, j, TailChain) : j \in i .. k - 1}

(* dot_pair and dot_tile_r: a register of eight lanes holds rows 2p and
   2p + 1; the key's four floats are in both halves.                       *)
DotTile(k, rows, s) ==
  LET i == 4 * s
      a(p, l) == IF l < 4 THEN <<2 * p, i + l>> ELSE <<2 * p + 1, i + l - 4>>
      kv(l) == i + (l % 4)
      (* output row r is the sum of lanes (r % 2) * 4 + 0 .. 3 of register r \div 2 *)
      vector(r, e) == LET l == (r % 2) * 4 + e IN DotTerm(r, kv(l), a(r \div 2, l), kv(l), e)
  IN  IF i + 4 <= k THEN {vector(r, e) : r \in 0 .. rows - 1, e \in 0 .. 3}
      ELSE {DotTerm(r, j, <<r, j>>, j, TailChain) : r \in 0 .. rows - 1, j \in i .. k - 1}

(* Wrong variant of Interleaved: the second row's floats start where the
   first row's do.                                                         *)
Interleaved_OneRow(k, at) ==
  LET group == at \div 8
      p == group \div (k \div 4)
      i == group % (k \div 4)
      e == at % 8
  IN  IF e < 4 THEN <<2 * p, 4 * i + e>> ELSE <<2 * p, 4 * i + e - 4>>

(* interleave_query: the float at place `at` of the woven queries.         *)
Interleaved(k, at) ==
  LET group == at \div 8
      p == group \div (k \div 4)
      i == group % (k \div 4)
      e == at % 8
  IN  IF e < 4 THEN <<2 * p, 4 * i + e>> ELSE <<2 * p + 1, 4 * i + e - 4>>

(* dot_tile_pre_r and its scalar mirror, over k \div 4 groups.             *)
DotTilePre(k, rows, s) ==
  LET n4 == k \div 4
      at(r, e) == (r \div 2) * n4 * 8 + 8 * s + (r % 2) * 4 + e
  IN  IF s < n4
      THEN {DotTerm(r, 4 * s + e, Interleaved(k, at(r, e)), 4 * s + e, e) : r \in 0 .. rows - 1, e \in 0 .. 3}
      ELSE {}

(* What a row of a finished dot is the sum of: (0 + 1) + (2 + 3), and after
   that the tail, in the forms that have one.                              *)
Reduced(f, c) ==
  [pairs |-> << <<c[0], c[1]>>, <<c[2], c[3]>> >>,
   tail  |-> IF f.name \in {"dot4", "dot_pair", "dot_tile"} THEN c[TailChain] ELSE << >>]

-----------------------------------------------------------------------------
(* dot_row, gemm_quant and quant_block_accumulate choose among these.      *)
WeightForms ==
  {[name |-> "generic", type |-> t, k |-> 256] : t \in Formats} \cup
  {[name |-> n, type |-> t, k |-> 256] :
     n \in {"scalar", "avx2", "q8k", "cuda"}, t \in {"q4_k", "q6_k"}} \cup
  {[name |-> "repacked", type |-> "q6_k", k |-> 256]} \cup
  {[name |-> n, type |-> "q4_k", k |-> 256] : n \in {"gemv", "gemm"}}

DotFormNames == {"dot", "dot4", "dot_pair", "dot_tile", "dot_tile_pre"}
DotCalls ==
  {[name |-> n, type |-> "f32", k |-> k] : n \in DotFormNames \ {"dot_tile_pre"}, k \in DotSizes} \cup
  {[name |-> "dot_tile_pre", type |-> "f32", k |-> k] : k \in {d \in DotSizes : d % 4 = 0}}

Terms(f, s) ==
  CASE f.name = "generic" -> GenericRun(f.type, s)
    [] f.name = "scalar"  -> IF f.type = "q4_k" THEN Q4Group(s) ELSE Q6Run(s)
    [] f.name = "avx2"    -> IF f.type = "q4_k" THEN Q4Group(s) ELSE Q6Lanes(s)
    [] f.name = "q8k"     -> IF f.type = "q4_k" THEN UNION {Q8K4(r, s) : r \in 0 .. TileRows - 1}
                             ELSE UNION {Q8K6(r, s) : r \in 0 .. TileRows - 1}
    [] f.name = "cuda"    -> IF f.type = "q4_k" THEN Q4Words(s) ELSE Q6Run(s)
    [] f.name = "repacked" -> Q6RepackedRun(s)
    [] f.name = "gemv"    -> Gemv(s)
    [] f.name = "gemm"    -> Gemm(s)
    [] f.name = "dot"     -> Dot(f.k, 0, s)
    [] f.name = "dot4"    -> Dot4(f.k, 0, s)
    [] f.name = "dot_pair" -> DotTile(f.k, 2, s)
    [] f.name = "dot_tile" -> DotTile(f.k, TileRows, s)
    [] f.name = "dot_tile_pre" -> DotTilePre(f.k, TileRows, s)

RowsOf(f) ==
  CASE f.name \in {"q8k", "dot_tile", "dot_tile_pre"} -> 0 .. TileRows - 1
    [] f.name = "gemm" -> Rows [] f.name = "dot_pair" -> 0 .. 1 [] OTHER -> {0}

Steps(f) == IF f.type = "f32" THEN (f.k \div 4) + 1 ELSE 8

FormInit ==
  /\ form \in WeightForms \cup DotCalls
  /\ step = 0
  /\ last = {}
  /\ met = {}
  /\ chains = IF form.type = "f32" THEN [x \in RowsOf(form) \X (0 .. TailChain) |-> << >>] ELSE << >>
  /\ sums = << >>

(* The products a run adds to a chain, in the order it adds them.          *)
OnChain(terms, x) ==
  LET on == {t \in terms : t.at[2] = x[1] /\ t.got.chain = x[2]}
      ordered == SetToSortSeq(on, LAMBDA t, u : t.at[4] < u.at[4])
  IN  [n \in DOMAIN ordered |-> <<ordered[n].got.query, ordered[n].got.key>>]

Walk ==
  /\ step < Steps(form)
  /\ step' = step + 1
  /\ last' = Terms(form, step)
  /\ met' = met \cup {t.at : t \in last'}
  /\ chains' = [x \in DOMAIN chains |-> chains[x] \o OnChain(last', x)]
  /\ UNCHANGED <<form, sums>>

(* The end of a dot.                                                       *)
Reduce ==
  /\ form.type = "f32" /\ step = Steps(form) /\ sums = << >>
  /\ sums' = [r \in RowsOf(form) |-> Reduced(form, [c \in 0 .. TailChain |-> chains[r, c]])]
  /\ UNCHANGED <<form, step, last, met, chains>>

FormNext == Walk \/ Reduce
FormSpec == FormInit /\ [][FormNext]_formVars

-----------------------------------------------------------------------------
ColumnsOf(f) == IF f.name \in {"gemv", "gemm"} THEN Columns ELSE {0}

(* What weight x of column c is, as the Python reference unpacks it.       *)
Reference(f, c) ==
  LET scattered == ReferenceScatter(f.type, 144 * c)
  IN  [x \in 0 .. 255 |-> (CHOOSE p \in scattered : p[1] = x)[2]]

(* What the form owes at an address.  The integer q6_k form takes the 32
   off afterwards, a whole sum at a time.                                  *)
OwedAt(f, reference, at) ==
  LET w == reference[at[3]][at[4]]
      later == f.name = "q8k" /\ f.type = "q6_k"
  IN  CASE at[1] = "m" -> w.min
        [] at[1] = "o" -> w.scale
        [] OTHER -> [w EXCEPT !.min = << >>, !.less = IF later THEN 0 ELSE @]

Addresses(f) ==
  LET parts == {"q"} \cup (IF f.type \in {"q2_k", "q4_k", "q5_k"} THEN {"m"} ELSE {})
                     \cup (IF f.name = "q8k" /\ f.type = "q6_k" THEN {"o"} ELSE {})
  IN  parts \X RowsOf(f) \X ColumnsOf(f) \X (0 .. f.k - 1)

(* Every form of every format multiplies activation x with the bits the
   format assigns to weight x of that column, under that weight's own scale
   and min, and with no others: a nibble, a high bit, a scale's byte or a
   lane that is taken from a neighbour is a wrong weight that still looks
   like one.                                                               *)
ReadsItsOwn ==
  form.type # "f32" =>
    LET reference == [c \in ColumnsOf(form) |-> Reference(form, c)]
    IN  \A t \in last : t.at \in Addresses(form) /\ t.got = OwedAt(form, reference, t.at)

(* A form that has finished has met every weight: with runs of a fixed
   number of products, none is met twice either.                           *)
MeetsAll == step = Steps(form) => met = Addresses(form)

(* A chain nothing was added to is 0.0F, which no sum shows.               *)
ShownSum(sum) ==
  IF \A h, l \in 1 .. 2 : sum.pairs[h][l] = << >>
  THEN [pairs |-> << <<sum.tail, << >> >>, << << >>, << >> >> >>, tail |-> << >>] ELSE sum

(* Row p as a sum of four chains of every fourth product, with what is left
   in a tail, or on the first chain.                                       *)
RowProducts(p, numbers) == [n \in DOMAIN numbers |-> << <<p, numbers[n]>>, numbers[n]>>]
Every4th(k, e) == [n \in 1 .. k \div 4 |-> 4 * (n - 1) + e]
Rest(k) == [n \in 1 .. k % 4 |-> 4 * (k \div 4) + n - 1]
FourChains(p, k, onFirst, inTail) ==
  [pairs |-> << <<RowProducts(p, Every4th(k, 0) \o onFirst), RowProducts(p, Every4th(k, 1))>>,
                <<RowProducts(p, Every4th(k, 2)), RowProducts(p, Every4th(k, 3))>> >>,
   tail |-> RowProducts(p, inTail)]

(* Every form of an attention dot gives every row the sum `dot4` gives it:
   the same products, on the same chains, in the same order, put together
   in the same way; so a prefill's tile and a decode's single row have the
   same bits.  The scalar `dot` is one of them when nothing is left over
   beside four whole chains; SwitchKeepsBytes is about the other lengths.  *)
OneOrder ==
  sums # << >> /\ (form.name = "dot" => form.k % 4 = 0 \/ form.k < 4) =>
    \A r \in RowsOf(form) : ShownSum(sums[r]) = ShownSum(FourChains(r, form.k, << >>, Rest(form.k)))

(* "The two forms compute the same number": POCKETLLM_CPU_SCALAR_DOT, which
   puts `dot` in the place of any of the forms, changes no byte of a score,
   and the tail loops are there for the lengths that are not whole.        *)
SwitchKeepsBytes ==
  sums # << >> =>
    \A r \in RowsOf(form) : ShownSum(sums[r]) = ShownSum(FourChains(r, form.k, Rest(form.k), << >>))

(* The largest code of so many bits, and of an activation.                 *)
LargestCode(t) == 2 ^ Len(t.got.code) - 1
LargestActivation == 127

(* The products the int8 forms add up in 16 bits, before a scale widens
   them, cannot saturate it, whatever the weights and the activations.     *)
FitsInt16 ==
  \A lane \in {t.lane : t \in last} \ {<< >>} :
    LET added == {t \in last : t.lane = lane}
        bound == MapThenSumSet(LAMBDA t : LargestCode(t) * LargestActivation, added)
    IN  bound <= 32767
=============================================================================
