------------------------------ MODULE KvSession ------------------------------
(***************************************************************************)
(* One session's KV cache: `Session` (runtime/session.cpp) over            *)
(* `Qwen3Model` (model/qwen3.cpp), as the C API drives it.                 *)
(*                                                                         *)
(* A slab is an array of position rows, addressed as the code computes it; *)
(* kv_width, the element type and the twin V slab (always handled like K)  *)
(* are abstracted.  A row records the layer, the position, the token and   *)
(* the rotary position of the forward that wrote it.  Allocations succeed. *)
(***************************************************************************)
EXTENDS Integers, SequencesExt

CONSTANTS
  LayerCounts,       \* n_layer_ of the checkpoints
  Capacity,          \* capacity_: the checkpoint's context length
  InitialPositions,  \* kInitialPositions
  Tokens,            \* token ids
  Junk               \* a row nothing has written

ASSUME KvAssumption ==
  /\ LayerCounts \subseteq Nat \ {0} /\ Capacity \in Nat \ {0} /\ InitialPositions \in Nat \ {0}

Turn == [1 .. 3 -> Nat]       \* a rotary position, in its three sections

(* A row a forward may write, told apart from the junk.                    *)
Row == [layer : Nat, pos : Nat, tok : Tokens, rot : Turn]

ASSUME JunkAssumption == Junk \notin Row

VARIABLES
  layers,     \* n_layer_
  position,   \* Session::position_
  seqLen,     \* seq_len_, one length per sequence
  kv,         \* [cap: cache_capacity_, slots: kv_slots_, rows: the K slab]
  ropeRows,   \* position_capacity_: the rows of the rotary table
  call,       \* the last call: what it was and the batch it gave
  reply       \* how it returned

vars == <<layers, position, seqLen, kv, ropeRows, call, reply>>

NoSlab == [cap |-> 0, slots |-> 0, rows |-> << >>]   \* k_cache_.handle == 0

Smaller(a, b) == IF a < b THEN a ELSE b
Larger(a, b) == IF a < b THEN b ELSE a

(* Session::open: Qwen3Model::load has built the rotary table.             *)
Init ==
  /\ layers \in LayerCounts
  /\ position = 0 /\ seqLen = <<0>>
  /\ kv = NoSlab
  /\ ropeRows = Smaller(InitialPositions, Capacity)
  /\ call = [op |-> "open", batch |-> << >>] /\ reply = "ok"

-----------------------------------------------------------------------------
(* The slab.                                                               *)

(* forward_impl's address of (sequence, layer, position), all from 0.      *)
Address(cap, s, il, p) == (cap * layers) * s + (cap * il + p)

(* The sequence, layer and position that forward_impl keeps at address a.  *)
SeqAt(cap, a)   == a \div (cap * layers)
LayerAt(cap, a) == (a \div cap) % layers
PosAt(cap, a)   == a % cap

(* Doubling from `from` until `positions` fit, capped at the context: the
   least of the context and the doublings that is enough.                  *)
GrowTo(from, positions) ==
  LET enough == {g \in 1 .. Capacity :
                   g >= positions /\ (g = Capacity \/ \E k \in 0 .. g : g = from * 2 ^ k)}
  IN  IF from >= positions THEN from
      ELSE CHOOSE g \in enough : \A h \in enough : g <= h

Empty(cap, slots) ==
  [cap |-> cap, slots |-> slots, rows |-> [a \in 0 .. cap * layers * slots - 1 |-> Junk]]

(* Wrong variant of Room: one position too many is let through.            *)
Room_OneShort(k, positions, n) == k.cap > 0 /\ positions <= k.cap + 1 /\ n <= k.slots

Room(k, positions, n) == k.cap > 0 /\ positions <= k.cap /\ n <= k.slots

(* The growth's copy.  It places the slab of (layer, slot) at slab number
   layer * slots + slot, in the old slabs and in the new ones.             *)
CarriedRows(old, new) ==
  [a \in DOMAIN new.rows |->
     LET number == a \div new.cap
         layer  == number \div new.slots
         slot   == number % new.slots
         row    == a % new.cap
     IN  IF row < old.cap /\ slot < old.slots
         THEN old.rows[(layer * old.slots + slot) * old.cap + row]
         ELSE new.rows[a]]

Carried(old, new) == [new EXCEPT !.rows = CarriedRows(old, new)]

(* Wrong variant of EnsureKv: the slabs are reallocated empty, as they once
   were.                                                                   *)
EnsureKv_Empty(k, positions, n) ==
  IF Room(k, positions, n) THEN k
  ELSE Empty(GrowTo(Larger(k.cap, InitialPositions), positions), n)

(* ensure_kv                                                               *)
EnsureKv(k, positions, n) ==
  IF Room(k, positions, n) THEN k
  ELSE Carried(k, Empty(GrowTo(Larger(k.cap, InitialPositions), positions), n))

(* Wrong variant of GrowRope: one doubling, however far the batch reaches. *)
GrowRope_Once(positions) ==
  IF positions <= ropeRows THEN ropeRows ELSE Smaller(ropeRows * 2, Capacity)

(* grow_rope_table                                                         *)
GrowRope(positions) ==
  IF positions <= ropeRows THEN ropeRows ELSE GrowTo(ropeRows, positions)

(* The call's tokens in one plane, and where sequence s begins in it.      *)
Packed(runs) == FlattenSeq(runs)

RowOf(batch, s) == FoldLeft(LAMBDA n, run : n + Len(run), 0, SubSeq(batch, 1, s - 1))

(* Where a plain forward turns its tokens: each at its own position, by all
   three sections alike.                                                   *)
Plain(starts, batch) ==
  [s \in 1 .. Len(batch) |-> [i \in 1 .. Len(batch[s]) |-> [j \in 1 .. 3 |-> starts[s] + i - 1]]]

(* Every layer appends the rows of the plane at each sequence's own position. *)
AppendedRows(k, starts, batch, rots) ==
  LET toks == Packed(batch)
      turned == Packed(rots)
  IN  [a \in DOMAIN k.rows |->
         LET s == SeqAt(k.cap, a) + 1
             p == PosAt(k.cap, a)
             row == RowOf(batch, s) + p - starts[s] + 1
         IN  IF s <= Len(batch) /\ starts[s] <= p /\ p < starts[s] + Len(batch[s])
             THEN [layer |-> LayerAt(k.cap, a), pos |-> p, tok |-> toks[row], rot |-> turned[row]]
             ELSE k.rows[a]]

Appended(k, starts, batch, rots) == [k EXCEPT !.rows = AppendedRows(k, starts, batch, rots)]

(* What the attention of layer il reads for position p of sequence s: the
   token of the row at that address, if it is a row of that place.         *)
ReadBack(il, s, p) ==
  LET a == Address(kv.cap, s, il, p)
      row == kv.rows[a]
  IN  IF a \in DOMAIN kv.rows /\ row # Junk /\ row.layer = il /\ row.pos = p
      THEN row.tok ELSE Junk

-----------------------------------------------------------------------------
(* The calls.  Batches are sequences of token sequences, all non-empty.    *)

Runs == Seq(Tokens) \ {<< >>}
Batches == Seq(Runs) \ {<< >>}
Turns == Seq(Turn)      \* rotary positions a caller may give

(* A refused call throws before it touches the model.                      *)
Refuse(why) ==
  /\ call' = [op |-> "refused", batch |-> << >>] /\ reply' = why
  /\ UNCHANGED <<layers, position, seqLen, kv, ropeRows>>

(* forward_impl: refuse a sequence past the context; make room for the
   batch in the slabs and in the rotary table; run; record the lengths.    *)
ForwardImpl(starts, batch, rots) ==
  LET ends == [s \in 1 .. Len(batch) |-> starts[s] + Len(batch[s])]
      maxEnd == Max({ends[s] : s \in 1 .. Len(batch)})
  IN  IF \E s \in 1 .. Len(batch) : ends[s] > Capacity
      THEN Refuse("context_length")
      ELSE /\ kv' = Appended(EnsureKv(kv, maxEnd, Len(batch)), starts, batch, rots)
           /\ ropeRows' = GrowRope(maxEnd)
           /\ seqLen' = ends
           /\ position' = ends[1]
           /\ call' = [op |-> "forward", batch |-> batch] /\ reply' = "ok"
           /\ UNCHANGED layers

(* pocketllm_forward, pocketllm_forward_argmax: from Session::position_.   *)
Forward(run) ==
  IF position # seqLen[1] THEN Refuse("error")
  ELSE ForwardImpl(<<position>>, <<run>>, Plain(<<position>>, <<run>>))

(* forward_embeddings, forward_positions: from the caller's start_pos, with
   the caller's rotary positions.                                          *)
ForwardTurned(run, start, rots) ==
  IF start # seqLen[1] THEN Refuse("error") ELSE ForwardImpl(<<start>>, <<run>>, <<rots>>)

(* forward_embeddings with no positions of its own.                        *)
ForwardSpan(run, start) == ForwardTurned(run, start, Plain(<<start>>, <<run>>)[1])

(* pocketllm_forward_batch: each sequence from its own cached length.      *)
ForwardBatch(batch) ==
  LET starts == [s \in 1 .. Len(batch) |-> IF s <= Len(seqLen) THEN seqLen[s] ELSE 0]
  IN  ForwardImpl(starts, batch, Plain(starts, batch))

(* pocketllm_reserve.                                                      *)
Reserve(positions, slots) ==
  LET grown == GrowTo(Larger(kv.cap, InitialPositions), positions)
  IN  IF positions > Capacity
      THEN Refuse("context_length")
      ELSE /\ IF kv.cap > 0 /\ grown <= kv.cap /\ slots <= kv.slots
              THEN UNCHANGED <<kv, ropeRows>>
              ELSE kv' = Empty(grown, slots) /\ ropeRows' = GrowRope(positions)
           /\ position' = 0
           /\ call' = [op |-> "reserve", batch |-> << >>] /\ reply' = "ok"
           /\ UNCHANGED <<layers, seqLen>>

(* pocketllm_reset: the slabs are kept.                                    *)
Reset ==
  /\ position' = 0 /\ seqLen' = <<0>>
  /\ call' = [op |-> "reset", batch |-> << >>] /\ reply' = "ok"
  /\ UNCHANGED <<layers, kv, ropeRows>>

-----------------------------------------------------------------------------
(* Every call Session exports, in any order, with any arguments: what the
   proofs are about.  KvHosts has the calls the programs make.             *)
Next ==
  \/ \E run \in Runs : Forward(run)
  \/ \E run \in Runs, start \in Nat, rots \in Turns : ForwardTurned(run, start, rots)
  \/ \E batch \in Batches : ForwardBatch(batch)
  \/ \E positions, slots \in Nat : Reserve(positions, slots)
  \/ Reset

Spec == Init /\ [][Next]_vars

-----------------------------------------------------------------------------
(* Properties.                                                             *)

(* "A token that fits the cache but not the table would be a read past the
   end of the table" (model/qwen3.h): every cached position has its rotary
   row, whichever of the calls made the two grow.                          *)
RopeCoversCache == \A s \in 1 .. Len(seqLen) : seqLen[s] <= ropeRows

(* A forward touches rows of its own slabs only: after any history of
   growths, reservations and narrower or wider batches, the rows it has
   written and attends to are inside the allocation.                       *)
ForwardStaysInside ==
  [][call'.op = "forward" =>
       \A s \in 1 .. Len(seqLen'), il \in 0 .. layers - 1 : \A p \in 0 .. seqLen'[s] - 1 :
         Address(kv'.cap, s - 1, il, p) \in DOMAIN kv'.rows]_vars

(* What attention reads of each live sequence -- in every layer -- is an
   append-only log of what the caller has fed: no reset, growth, reservation
   or other sequence changes it.                                           *)
Attended ==
  [s \in 1 .. Len(seqLen) |-> [p \in 1 .. seqLen[s] |->
     LET tok == ReadBack(0, s - 1, p - 1)
     IN  IF \A il \in 1 .. layers - 1 : ReadBack(il, s - 1, p - 1) = tok THEN tok ELSE Junk]]

=============================================================================
