----------------------------- MODULE HostsProofs -----------------------------
(***************************************************************************)
(* What the programs over one KV cache are promised, for every context,    *)
(* window, batch width, prompt and budget: they stay inside the slabs, a   *)
(* group fits its reservation, a serial request is refused only when it    *)
(* asked for too much, the cache is a log of what was fed to it, and an    *)
(* image or a recording in a prompt lies where it was laid out.            *)
(*                                                                         *)
(* First the session alone (KvSession): for every context length, layer    *)
(* count, batch and history of calls, a forward's rows are inside the      *)
(* slabs and every cached position has its row in the rotary table.  Then  *)
(* what a forward makes of the rows: where the tokens of a packed batch    *)
(* are, which rows a growth carries to the place they had, and what is     *)
(* read at each place afterwards.  Then the programs that drive it.        *)
(***************************************************************************)
EXTENDS KvHosts, SequenceLemmas

(* A nonempty bounded set of numbers has a largest one, and Max is it.     *)
LEMMA MaxIsLargest ==
  ASSUME NEW b \in Nat, NEW T, T \subseteq 0 .. b, T # {}
  PROVE  Max(T) \in T /\ \A y \in T : y <= Max(T)
<1> DEFINE Far == {b - y : y \in T}
<1>1. Far \subseteq Nat /\ Far # {}
  <2>1. \A y \in 0 .. b : b - y \in Nat
    OBVIOUS
  <2>2. PICK y \in T : TRUE
    OBVIOUS
  <2>3. b - y \in Far
    OBVIOUS
  <2> QED
    BY <2>1, <2>3
<1>2. PICK x \in Far : \A y \in Far : x <= y
  BY <1>1, LeastExists
<1>3. PICK m \in T : x = b - m
  OBVIOUS
<1>4. \A y \in T : m >= y
  <2> SUFFICES ASSUME NEW y \in T PROVE m >= y
    OBVIOUS
  <2>1. b - y \in Far
    OBVIOUS
  <2>2. b - m <= b - y
    BY <1>2, <1>3, <2>1
  <2>3. b \in Nat /\ m \in Nat /\ y \in Nat
    OBVIOUS
  <2> QED
    BY <2>2, <2>3
<1> QED
  BY <1>4 DEF Max

(* Doubling, capped at the context, reaches what fits in the context.      *)
LEMMA GrowToReaches ==
  ASSUME NEW from \in Nat, NEW positions \in Nat, positions <= Capacity
  PROVE  GrowTo(from, positions) \in Nat /\ GrowTo(from, positions) >= positions
<1> DEFINE enough == {g \in 1 .. Capacity :
                        g >= positions /\ (g = Capacity \/ \E k \in 0 .. g : g = from * 2 ^ k)}
<1>1. CASE from >= positions
  BY <1>1 DEF GrowTo
<1>2. CASE ~(from >= positions)
  <2>1. GrowTo(from, positions) = CHOOSE g \in enough : \A h \in enough : g <= h
    BY <1>2 DEF GrowTo
  <2>2. enough \subseteq Nat /\ Capacity \in enough
    BY KvAssumption
  <2>3. \A g \in enough : g \in Nat /\ g >= positions
    OBVIOUS
  <2> HIDE DEF enough
  <2>4. \E g \in enough : \A h \in enough : g <= h
    BY <2>2, LeastExists
  <2> QED
    BY <2>1, <2>3, <2>4
<1> QED
  BY <1>1, <1>2

LEMMA GrowRopeReaches ==
  ASSUME ropeRows \in Nat, NEW positions \in Nat, positions <= Capacity
  PROVE  GrowRope(positions) \in Nat /\ GrowRope(positions) >= positions
                                     /\ GrowRope(positions) >= ropeRows
<1>1. CASE positions <= ropeRows
  BY <1>1 DEF GrowRope
<1>2. CASE ~(positions <= ropeRows)
  BY <1>2, GrowToReaches DEF GrowRope
<1> QED
  BY <1>1, <1>2

(* forward_impl's address of a row of a slab with room for it.             *)
LEMMA AddressInside ==
  ASSUME NEW cap \in Nat, NEW n \in Nat, layers \in Nat,
         NEW s \in 0 .. n - 1, NEW il \in 0 .. layers - 1, NEW p \in 0 .. cap - 1
  PROVE  Address(cap, s, il, p) \in 0 .. cap * layers * n - 1
<1> DEFINE slab == cap * layers
<1>1. slab \in Nat /\ cap * il \in Nat /\ slab * s \in Nat /\ slab * n \in Nat
  OBVIOUS
<1>2. cap * il + p < cap * (il + 1)
  OBVIOUS
<1>3. cap * (il + 1) <= slab
  OBVIOUS
<1>4. slab * (s + 1) <= slab * n
  <2>1. \A a, b, c \in Nat : b <= c => a * b <= a * c
    OBVIOUS
  <2> QED
    BY <2>1, <1>1
<1>5. slab * (s + 1) = slab * s + slab
  <2>1. \A a, b \in Nat : a * (b + 1) = a * b + a
    OBVIOUS
  <2> QED
    BY <2>1, <1>1
<1> QED
  BY <1>1, <1>2, <1>3, <1>4, <1>5 DEF Address

-----------------------------------------------------------------------------
(* A slab as ensure_kv and reserve leave it: one row for each position of
   each layer of each slot.                                                *)
SlabOK(k) ==
  /\ k = [cap |-> k.cap, slots |-> k.slots, rows |-> k.rows]
  /\ k.cap \in Nat /\ k.slots \in Nat
  /\ DOMAIN k.rows = 0 .. k.cap * layers * k.slots - 1

(* The inductive invariant.                                                *)
IInv ==
  /\ layers \in Nat
  /\ seqLen \in Seq(0 .. Capacity) /\ Len(seqLen) > 0
  /\ SlabOK(kv)
  /\ ropeRows \in Nat
  /\ RopeCoversCache

LEMMA EmptyIsSlab ==
  ASSUME NEW cap \in Nat, NEW n \in Nat
  PROVE  SlabOK(Empty(cap, n)) /\ Empty(cap, n).cap = cap /\ Empty(cap, n).slots = n
BY DEF SlabOK, Empty

(* Other rows at the same addresses.                                       *)
LEMMA RowsReplaced ==
  ASSUME NEW k, SlabOK(k), NEW rows, DOMAIN rows = DOMAIN k.rows
  PROVE  LET r == [k EXCEPT !.rows = rows]
         IN  SlabOK(r) /\ r.cap = k.cap /\ r.slots = k.slots
<1>1. [k EXCEPT !.rows = rows] = [cap |-> k.cap, slots |-> k.slots, rows |-> rows]
  BY DEF SlabOK
<1> QED
  BY <1>1 DEF SlabOK

LEMMA CarriedIsSlab ==
  ASSUME NEW old, NEW new, SlabOK(new)
  PROVE  SlabOK(Carried(old, new)) /\ Carried(old, new).cap = new.cap
                                   /\ Carried(old, new).slots = new.slots
<1>1. DOMAIN CarriedRows(old, new) = DOMAIN new.rows
  BY DEF CarriedRows
<1> QED
  BY <1>1, RowsReplaced DEF Carried

(* After ensure_kv there is room for the batch.                            *)
LEMMA EnsureKvMakesRoom ==
  ASSUME SlabOK(kv), NEW positions \in Nat, positions <= Capacity, NEW n \in Nat
  PROVE  LET k == EnsureKv(kv, positions, n)
         IN  SlabOK(k) /\ k.cap >= positions /\ k.slots >= n
<1> DEFINE grown == GrowTo(Larger(kv.cap, InitialPositions), positions)
<1>1. CASE Room(kv, positions, n)
  BY <1>1 DEF EnsureKv, Room, SlabOK
<1>2. CASE ~Room(kv, positions, n)
  <2>1. Larger(kv.cap, InitialPositions) \in Nat
    BY KvAssumption DEF Larger, SlabOK
  <2>2. grown \in Nat /\ grown >= positions
    BY <2>1, GrowToReaches
  <2>3. EnsureKv(kv, positions, n) = Carried(kv, Empty(grown, n))
    BY <1>2 DEF EnsureKv
  <2> HIDE DEF grown
  <2> QED
    BY <2>2, <2>3, EmptyIsSlab, CarriedIsSlab
<1> QED
  BY <1>1, <1>2

(* The forward's own rows go into the slab as it is.                       *)
LEMMA AppendedIsSlab ==
  ASSUME NEW k, SlabOK(k), NEW starts, NEW batch, NEW rots
  PROVE  LET a == Appended(k, starts, batch, rots)
         IN  SlabOK(a) /\ a.cap = k.cap /\ a.slots = k.slots
<1>1. DOMAIN AppendedRows(k, starts, batch, rots) = DOMAIN k.rows
  BY DEF AppendedRows
<1> QED
  BY <1>1, RowsReplaced DEF Appended

-----------------------------------------------------------------------------
(* The cached positions of every sequence are inside the slabs.            *)
Fits == Len(seqLen) <= kv.slots /\ \A s \in 1 .. Len(seqLen) : seqLen[s] <= kv.cap

Unmoved == UNCHANGED <<layers, seqLen, kv, ropeRows>>

LEMMA UnmovedKeeps == ASSUME IInv, Unmoved PROVE IInv'
BY DEF IInv, Unmoved, SlabOK, RopeCoversCache

(* Every forward ends here.                                                *)
LEMMA ForwardImplKeeps ==
  ASSUME IInv, NEW batch \in Batches, NEW starts, NEW rots,
         \A s \in 1 .. Len(batch) : starts[s] \in Nat,
         ForwardImpl(starts, batch, rots)
  PROVE  IInv' /\ layers' = layers /\ (call'.op = "forward" => Fits')
<1> DEFINE n == Len(batch)
           ends == [s \in 1 .. n |-> starts[s] + Len(batch[s])]
           maxEnd == Max({ends[s] : s \in 1 .. n})
<1>1. n \in Nat /\ n > 0 /\ \A s \in 1 .. n : Len(batch[s]) \in Nat
  <2>1. batch \in Seq(Runs) /\ batch # << >>
    BY DEF Batches
  <2>2. \A s \in 1 .. n : batch[s] \in Seq(Tokens)
    BY <2>1 DEF Runs
  <2> QED
    BY <2>1, <2>2
<1>2. \A s \in 1 .. n : ends[s] \in Nat
  BY <1>1
<1>3. CASE \E s \in 1 .. n : ends[s] > Capacity
  <2>1. Refuse("context_length")
    BY <1>3 DEF ForwardImpl
  <2> QED
    BY <2>1, UnmovedKeeps DEF Refuse, Unmoved
<1>4. CASE ~ \E s \in 1 .. n : ends[s] > Capacity
  <2>1. /\ kv' = Appended(EnsureKv(kv, maxEnd, n), starts, batch, rots)
        /\ ropeRows' = GrowRope(maxEnd)
        /\ seqLen' = ends
        /\ layers' = layers
    BY <1>4 DEF ForwardImpl
  <2>2. \A s \in 1 .. n : ends[s] \in 0 .. Capacity
    BY <1>2, <1>4, KvAssumption
  <2>3. maxEnd \in 0 .. Capacity /\ \A s \in 1 .. n : ends[s] <= maxEnd
    <3> HIDE DEF ends
    <3> DEFINE T == {ends[s] : s \in 1 .. n}
    <3>1. T \subseteq 0 .. Capacity /\ ends[1] \in T /\ Capacity \in Nat
      BY <1>1, <2>2, KvAssumption
    <3>2. Max(T) \in T /\ \A y \in T : y <= Max(T)
      BY <3>1, MaxIsLargest
    <3> QED
      BY <3>1, <3>2
  <2>4. seqLen' \in Seq(0 .. Capacity) /\ Len(seqLen') = n
    <3>1. seqLen' \in [1 .. n -> 0 .. Capacity]
      BY <2>1, <2>2
    <3> HIDE DEF n
    <3> QED
      BY <3>1, <1>1, FunctionIsSeq
  <2> HIDE DEF ends, maxEnd
  <2>5. SlabOK(kv') /\ kv'.cap >= maxEnd /\ kv'.slots >= n
    <3>1. SlabOK(kv) /\ maxEnd \in Nat /\ maxEnd <= Capacity
      BY <2>3, KvAssumption DEF IInv
    <3>2. LET k == EnsureKv(kv, maxEnd, n)
          IN  SlabOK(k) /\ k.cap >= maxEnd /\ k.slots >= n
      BY <3>1, <1>1, EnsureKvMakesRoom
    <3> HIDE DEF n
    <3> QED
      BY <2>1, <3>2, AppendedIsSlab
  <2>6. ropeRows' \in Nat /\ ropeRows' >= maxEnd
    BY <2>1, <2>3, GrowRopeReaches, KvAssumption DEF IInv
  <2>7. \A s \in 1 .. Len(seqLen') : seqLen'[s] <= maxEnd /\ seqLen'[s] \in Nat
    BY <2>1, <2>2, <2>3, <2>4
  <2>8. IInv'
    <3>1. SlabOK(kv)'
      BY <2>1, <2>5 DEF SlabOK
    <3>2. RopeCoversCache'
      BY <2>3, <2>6, <2>7 DEF RopeCoversCache
    <3> QED
      BY <2>1, <2>4, <2>6, <3>1, <3>2, <1>1 DEF IInv
  <2>9. Fits'
    <3>1. kv'.cap \in Nat /\ kv'.slots \in Nat
      BY <2>5 DEF SlabOK
    <3> QED
      BY <2>3, <2>4, <2>5, <2>7, <3>1, <1>1 DEF Fits
  <2> QED
    BY <2>1, <2>8, <2>9
<1> HIDE DEF n, ends
<1> QED
  BY <1>3, <1>4

(* The lengths that every forward starts from.                             *)
LEMMA LengthsAreNumbers ==
  ASSUME IInv
  PROVE  \A s \in 1 .. Len(seqLen) : seqLen[s] \in Nat /\ seqLen[s] <= Capacity
<1>1. seqLen \in Seq(0 .. Capacity)
  BY DEF IInv
<1>2. \A s \in 1 .. Len(seqLen) : seqLen[s] \in 0 .. Capacity
  BY <1>1, ElementOfSeq
<1> QED
  BY <1>2, KvAssumption

LEMMA SingleBatch ==
  ASSUME NEW run \in Runs
  PROVE  <<run>> \in Batches /\ Len(<<run>>) = 1
BY DEF Batches

(* A call in the middle of any history keeps the invariant, and a forward
   stays inside.                                                           *)
LEMMA StepKeeps ==
  ASSUME IInv, Next
  PROVE  IInv' /\ (call'.op = "forward" => Fits' /\ layers' = layers)
<1>1. ASSUME NEW run \in Runs, Forward(run) PROVE IInv' /\ (call'.op = "forward" => Fits' /\ layers' = layers)
  <2>1. CASE position # seqLen[1]
    BY <1>1, <2>1, UnmovedKeeps DEF Forward, Refuse, Unmoved
  <2>2. CASE position = seqLen[1]
    <3> DEFINE rots == Plain(<<position>>, <<run>>)
    <3>1. ForwardImpl(<<position>>, <<run>>, rots)
      BY <1>1, <2>2 DEF Forward
    <3>2. \A s \in 1 .. Len(<<run>>) : <<position>>[s] \in Nat
      BY <2>2, LengthsAreNumbers DEF IInv
    <3> HIDE DEF rots
    <3> QED
      BY <3>1, <3>2, SingleBatch, ForwardImplKeeps
  <2> QED
    BY <2>1, <2>2
<1>2. ASSUME NEW run \in Runs, NEW start \in Nat, NEW rots \in Turns, ForwardTurned(run, start, rots)
      PROVE IInv' /\ (call'.op = "forward" => Fits' /\ layers' = layers)
  <2>1. CASE start # seqLen[1]
    BY <1>2, <2>1, UnmovedKeeps DEF ForwardTurned, Refuse, Unmoved
  <2>2. CASE start = seqLen[1]
    <3>1. ForwardImpl(<<start>>, <<run>>, <<rots>>)
      BY <1>2, <2>2 DEF ForwardTurned
    <3>2. \A s \in 1 .. Len(<<run>>) : <<start>>[s] \in Nat
      OBVIOUS
    <3> QED
      BY <3>1, <3>2, SingleBatch, ForwardImplKeeps
  <2> QED
    BY <2>1, <2>2
<1>3. ASSUME NEW batch \in Batches, ForwardBatch(batch)
      PROVE IInv' /\ (call'.op = "forward" => Fits' /\ layers' = layers)
  <2> DEFINE starts == [s \in 1 .. Len(batch) |-> IF s <= Len(seqLen) THEN seqLen[s] ELSE 0]
             rots == Plain(starts, batch)
  <2>1. ForwardImpl(starts, batch, rots)
    BY <1>3 DEF ForwardBatch
  <2>2. \A s \in 1 .. Len(batch) : starts[s] \in Nat
    <3>1. Len(seqLen) \in Nat
      BY DEF IInv
    <3> QED
      BY <3>1, LengthsAreNumbers
  <2> HIDE DEF starts, rots
  <2> QED
    BY <2>1, <2>2, ForwardImplKeeps
<1>4. ASSUME NEW positions \in Nat, NEW slots \in Nat, Reserve(positions, slots)
      PROVE IInv' /\ call'.op # "forward"
  <2> DEFINE grown == GrowTo(Larger(kv.cap, InitialPositions), positions)
  <2>1. CASE positions > Capacity
    BY <1>4, <2>1, UnmovedKeeps DEF Reserve, Refuse, Unmoved
  <2>2. CASE ~(positions > Capacity) /\ kv.cap > 0 /\ grown <= kv.cap /\ slots <= kv.slots
    BY <1>4, <2>2, UnmovedKeeps DEF Reserve, Unmoved
  <2>3. CASE ~(positions > Capacity) /\ ~(kv.cap > 0 /\ grown <= kv.cap /\ slots <= kv.slots)
    <3>1. /\ kv' = Empty(grown, slots) /\ ropeRows' = GrowRope(positions)
          /\ UNCHANGED <<layers, seqLen>> /\ call'.op = "reserve"
      BY <1>4, <2>3 DEF Reserve
    <3>2. positions <= Capacity
      BY <2>3, KvAssumption
    <3>3. grown \in Nat
      <4>1. Larger(kv.cap, InitialPositions) \in Nat
        BY KvAssumption DEF Larger, SlabOK, IInv
      <4> QED
        BY <4>1, <3>2, GrowToReaches
    <3> HIDE DEF grown
    <3>4. SlabOK(kv)'
      BY <3>1, <3>3, EmptyIsSlab DEF SlabOK
    <3>5. ropeRows' \in Nat /\ ropeRows' >= ropeRows
      BY <3>1, <3>2, GrowRopeReaches DEF IInv
    <3>6. RopeCoversCache'
      BY <3>1, <3>5, LengthsAreNumbers DEF IInv, RopeCoversCache
    <3> QED
      BY <3>1, <3>4, <3>5, <3>6 DEF IInv
  <2> QED
    BY <2>1, <2>2, <2>3
<1>5. ASSUME Reset PROVE IInv' /\ call'.op # "forward"
  <2>1. seqLen' = <<0>> /\ UNCHANGED <<layers, kv, ropeRows>> /\ call'.op = "reset"
    BY <1>5 DEF Reset
  <2>2. 0 \in 0 .. Capacity
    BY KvAssumption
  <2>3. <<0>> \in Seq(0 .. Capacity) /\ Len(<<0>>) = 1 /\ <<0>>[1] = 0
    BY <2>2
  <2> QED
    BY <2>1, <2>3 DEF IInv, SlabOK, RopeCoversCache
<1> QED
  BY <1>1, <1>2, <1>3, <1>4, <1>5 DEF Next

LEMMA InitHolds == ASSUME Init PROVE IInv
<1>1. layers \in Nat /\ seqLen = <<0>> /\ kv = NoSlab
  BY KvAssumption DEF Init
<1>2. 0 \in 0 .. Capacity
  BY KvAssumption
<1>3. <<0>> \in Seq(0 .. Capacity) /\ Len(<<0>>) = 1 /\ <<0>>[1] = 0
  BY <1>2
<1>4. ropeRows \in Nat
  BY KvAssumption DEF Init, Smaller
<1>5. SlabOK(kv)
  <2>1. DOMAIN << >> = 0 .. 0 * layers * 0 - 1
    BY <1>1
  <2> QED
    BY <1>1, <2>1 DEF SlabOK, NoSlab
<1>6. RopeCoversCache
  BY <1>1, <1>3, <1>4 DEF RopeCoversCache
<1> QED
  BY <1>1, <1>3, <1>4, <1>5, <1>6 DEF IInv

LEMMA StutterKeeps == ASSUME IInv, UNCHANGED vars PROVE IInv'
BY UnmovedKeeps DEF vars, Unmoved

(* The slabs' extents are those of their allocation, the lengths are within
   the context and the table covers them, in every reachable state.        *)
THEOREM Invariance == Spec => []IInv
<1>1. Init => IInv
  BY InitHolds
<1>2. IInv /\ [Next]_vars => IInv'
  BY StepKeeps, StutterKeeps
<1> QED
  BY <1>1, <1>2, PTL DEF Spec

(* No cached position is past the end of the rotary table, whichever of
   forward, forward_batch, forward_positions and reserve made the cache
   grow ("A token that fits the cache but not the table would be a read past
   the end of the table").                                                 *)
THEOREM TableCoversCache == Spec => []RopeCoversCache
<1>1. IInv => RopeCoversCache
  BY DEF IInv
<1> QED
  BY <1>1, Invariance, PTL

(* What fits has its addresses inside the allocation.                      *)
Inside ==
  \A s \in 1 .. Len(seqLen), il \in 0 .. layers - 1 : \A p \in 0 .. seqLen[s] - 1 :
    Address(kv.cap, s - 1, il, p) \in DOMAIN kv.rows

LEMMA FitIsInside == IInv /\ Fits => Inside
<1> SUFFICES ASSUME IInv, Fits, NEW s \in 1 .. Len(seqLen), NEW il \in 0 .. layers - 1,
                    NEW p \in 0 .. seqLen[s] - 1
             PROVE  Address(kv.cap, s - 1, il, p) \in DOMAIN kv.rows
  BY DEF Inside
<1>1. /\ layers \in Nat /\ kv.cap \in Nat /\ kv.slots \in Nat
      /\ DOMAIN kv.rows = 0 .. kv.cap * layers * kv.slots - 1
      /\ Len(seqLen) \in Nat /\ Len(seqLen) <= kv.slots /\ seqLen[s] <= kv.cap
  BY DEF IInv, SlabOK, Fits
<1>2. seqLen[s] \in Nat
  BY LengthsAreNumbers
<1>3. s - 1 \in 0 .. kv.slots - 1 /\ p \in 0 .. kv.cap - 1
  <2> DEFINE n == Len(seqLen)
             len == seqLen[s]
             cap == kv.cap
             slots == kv.slots
  <2>1. /\ n \in Nat /\ len \in Nat /\ cap \in Nat /\ slots \in Nat /\ n <= slots /\ len <= cap
        /\ s \in 1 .. n /\ p \in 0 .. len - 1
    BY <1>1, <1>2
  <2> HIDE DEF n, len, cap, slots
  <2>2. s - 1 \in 0 .. slots - 1 /\ p \in 0 .. cap - 1
    BY <2>1
  <2> QED
    BY <2>2 DEF cap, slots
<1> QED
  BY <1>1, <1>3, AddressInside

(* No forward writes or attends to a row outside the slabs, after any
   history of growths, reservations, resets and batches of any width.      *)
THEOREM ForwardsStayInside == Spec => ForwardStaysInside
<1>1. IInv /\ Fits => Inside
  BY FitIsInside
<1>2. (IInv /\ Fits)' => Inside'
  BY <1>1, PTL
<1>3. IInv /\ Next /\ call'.op = "forward" =>
        \A s \in 1 .. Len(seqLen'), il \in 0 .. layers - 1 : \A p \in 0 .. seqLen'[s] - 1 :
          Address(kv'.cap, s - 1, il, p) \in DOMAIN kv'.rows
  <2> SUFFICES ASSUME IInv, Next, call'.op = "forward"
               PROVE  \A s \in 1 .. Len(seqLen'), il \in 0 .. layers - 1 :
                        \A p \in 0 .. seqLen'[s] - 1 :
                          Address(kv'.cap, s - 1, il, p) \in DOMAIN kv'.rows
    OBVIOUS
  <2>1. IInv' /\ Fits' /\ layers' = layers
    BY StepKeeps
  <2>2. Inside'
    BY <2>1, <1>2
  <2> QED
    BY <2>1, <2>2 DEF Inside, Address
<1>4. Spec => [][call'.op = "forward" =>
        \A s \in 1 .. Len(seqLen'), il \in 0 .. layers - 1 : \A p \in 0 .. seqLen'[s] - 1 :
          Address(kv'.cap, s - 1, il, p) \in DOMAIN kv'.rows]_vars
  BY <1>3, Invariance, PTL DEF Spec
<1> QED
  BY <1>4 DEF ForwardStaysInside

-----------------------------------------------------------------------------
(* Where each sequence of a batch begins.                                  *)

(* A function that sums the lengths of the sequences at a set of places.   *)
Sums(seqs, m, g) ==
  g = [T \in SUBSET (1 .. m) |-> IF T = {} THEN 0 ELSE g[T \ {Max(T)}] + Len(seqs[Max(T)])]

LEMMA MaxOfPlaces ==
  ASSUME NEW m \in Nat, NEW T \in SUBSET (1 .. m), T # {}
  PROVE  Max(T) \in T /\ Max(T) \in 1 .. m /\ \A y \in T : y <= Max(T)
<1>1. T \subseteq 0 .. m
  OBVIOUS
<1> QED
  BY <1>1, MaxIsLargest

LEMMA SumExists ==
  ASSUME NEW seqs, NEW n \in Nat
  PROVE  \E g : Sums(seqs, n, g)
<1> DEFINE Bad == {m \in Nat : ~ \E g : Sums(seqs, m, g)}
<1> SUFFICES ASSUME Bad # {} PROVE FALSE
  OBVIOUS
<1>1. PICK m \in Bad : \A y \in Bad : m <= y
  <2>1. Bad \subseteq Nat
    OBVIOUS
  <2> HIDE DEF Bad
  <2> QED
    BY <2>1, LeastExists
<1>2. m \in Nat /\ ~ \E g : Sums(seqs, m, g)
  BY <1>1
<1>3. CASE m = 0
  <2> DEFINE g == [T \in SUBSET (1 .. 0) |-> 0]
  <2>1. \A T \in SUBSET (1 .. 0) : T = {}
    OBVIOUS
  <2>2. g = [T \in SUBSET (1 .. 0) |-> IF T = {} THEN 0 ELSE g[T \ {Max(T)}] + Len(seqs[Max(T)])]
    BY <2>1
  <2> HIDE DEF g
  <2> QED
    BY <1>2, <1>3, <2>2 DEF Sums
<1>4. CASE m # 0
  <2>1. m - 1 \in Nat /\ ~(m <= m - 1)
    BY <1>2, <1>4
  <2>2. m - 1 \notin Bad
    BY <1>1, <2>1
  <2>3. PICK f : Sums(seqs, m - 1, f)
    BY <2>1, <2>2
  <2> DEFINE g == [T \in SUBSET (1 .. m) |-> IF m \in T THEN f[T \ {m}] + Len(seqs[m]) ELSE f[T]]
  <2>4. ASSUME NEW T \in SUBSET (1 .. m)
        PROVE  g[T] = IF T = {} THEN 0 ELSE g[T \ {Max(T)}] + Len(seqs[Max(T)])
    <3>1. CASE m \in T
      <4>1. Max(T) = m
        <5>1. Max(T) \in 1 .. m /\ m <= Max(T)
          BY <1>2, <3>1, MaxOfPlaces
        <5> QED
          BY <1>2, <5>1
      <4>2. T \ {m} \in SUBSET (1 .. m) /\ m \notin T \ {m}
        OBVIOUS
      <4>3. g[T \ {m}] = f[T \ {m}]
        BY <4>2
      <4>4. g[T] = f[T \ {m}] + Len(seqs[m])
        BY <3>1
      <4> HIDE DEF g
      <4> QED
        BY <3>1, <4>1, <4>3, <4>4
    <3>2. CASE m \notin T
      <4>1. T \in SUBSET (1 .. m - 1)
        BY <1>2, <3>2
      <4>2. f[T] = IF T = {} THEN 0 ELSE f[T \ {Max(T)}] + Len(seqs[Max(T)])
        BY <2>3, <4>1, Zenon DEF Sums
      <4>3. T \ {Max(T)} \in SUBSET (1 .. m) /\ m \notin T \ {Max(T)}
        BY <3>2
      <4>4. g[T] = f[T] /\ g[T \ {Max(T)}] = f[T \ {Max(T)}]
        BY <3>2, <4>3, Zenon
      <4> HIDE DEF g
      <4> QED
        BY <4>2, <4>4
    <3> QED
      BY <3>1, <3>2
  <2>5. g = [T \in SUBSET (1 .. m) |-> IF T = {} THEN 0 ELSE g[T \ {Max(T)}] + Len(seqs[Max(T)])]
    <3>1. g = [T \in SUBSET (1 .. m) |-> g[T]]
      OBVIOUS
    <3> HIDE DEF g
    <3> QED
      BY <2>4, <3>1
  <2> HIDE DEF g
  <2> QED
    BY <1>2, <2>5 DEF Sums
<1> QED
  BY <1>3, <1>4

(* The sum up to a place.                                                  *)
LEMMA SumSteps ==
  ASSUME NEW seqs, NEW m \in Nat, NEW g, Sums(seqs, m, g)
  PROVE  g[{}] = 0 /\ \A j \in 1 .. m : g[1 .. j] = g[1 .. j - 1] + Len(seqs[j])
<1>1. \A T \in SUBSET (1 .. m) : g[T] = IF T = {} THEN 0 ELSE g[T \ {Max(T)}] + Len(seqs[Max(T)])
  BY Zenon DEF Sums
<1>2. ASSUME NEW j \in 1 .. m PROVE g[1 .. j] = g[1 .. j - 1] + Len(seqs[j])
  <2>1. 1 .. j \in SUBSET (1 .. m) /\ j \in 1 .. j
    OBVIOUS
  <2>2. Max(1 .. j) = j
    <3>1. Max(1 .. j) \in 1 .. j /\ j <= Max(1 .. j)
      BY <2>1, MaxOfPlaces
    <3> QED
      BY <3>1
  <2>3. (1 .. j) \ {j} = 1 .. j - 1
    OBVIOUS
  <2>4. 1 .. j # {}
    BY <2>1
  <2> QED
    BY <1>1, <2>1, <2>2, <2>3, <2>4, Zenon
<1> QED
  BY <1>1, <1>2

SameTo(seqs, more, m) == \A i \in 1 .. m : seqs[i] = more[i]

LEMMA SumsAgree ==
  ASSUME NEW seqs, NEW more, NEW m \in Nat, NEW n \in Nat, NEW f, NEW g,
         m <= n, SameTo(seqs, more, m), Sums(seqs, m, f), Sums(more, n, g)
  PROVE  f[1 .. m] = g[1 .. m]
<1> USE DEF SameTo
<1> DEFINE Bad == {i \in 0 .. m : f[1 .. i] # g[1 .. i]}
<1> SUFFICES ASSUME Bad # {} PROVE FALSE
  OBVIOUS
<1>1. PICK i \in Bad : \A y \in Bad : i <= y
  <2>1. Bad \subseteq Nat
    OBVIOUS
  <2> HIDE DEF Bad
  <2> QED
    BY <2>1, LeastExists
<1>2. i \in 0 .. m /\ f[1 .. i] # g[1 .. i]
  BY <1>1
<1>3. CASE i = 0
  <2>1. 1 .. 0 = {}
    OBVIOUS
  <2>2. f[{}] = 0 /\ g[{}] = 0
    BY SumSteps
  <2> QED
    BY <1>2, <1>3, <2>1, <2>2
<1>4. CASE i # 0
  <2>1. i - 1 \in 0 .. m /\ ~(i <= i - 1) /\ i \in 1 .. m /\ i \in 1 .. n
    BY <1>2, <1>4
  <2>2. i - 1 \notin Bad
    BY <1>1, <2>1
  <2>3. f[1 .. i - 1] = g[1 .. i - 1]
    BY <2>1, <2>2
  <2>4. f[1 .. i] = f[1 .. i - 1] + Len(seqs[i]) /\ g[1 .. i] = g[1 .. i - 1] + Len(more[i])
    BY <2>1, SumSteps
  <2> QED
    BY <1>2, <2>1, <2>3, <2>4
<1> QED
  BY <1>3, <1>4

LEMMA SubSeqPlaces ==
  ASSUME NEW n \in Nat, NEW batch \in [1 .. n -> Runs], NEW m \in 0 .. n
  PROVE  /\ DOMAIN SubSeq(batch, 1, m) = 1 .. m
         /\ \A i \in 1 .. m : SubSeq(batch, 1, m)[i] = batch[i]
OBVIOUS

LEMMA RowIsSum ==
  ASSUME NEW n \in Nat, NEW batch \in [1 .. n -> Runs], NEW s \in 1 .. n + 1
  PROVE  \E g : Sums(SubSeq(batch, 1, s - 1), s - 1, g) /\ RowOf(batch, s) = g[1 .. s - 1]
<1> DEFINE seqs == SubSeq(batch, 1, s - 1)
           m == s - 1
           g == CHOOSE g : Sums(seqs, m, g)
<1>1. m \in 0 .. n /\ m \in Nat
  OBVIOUS
<1>2. DOMAIN seqs = 1 .. m
  BY <1>1, SubSeqPlaces
<1>3. Sums(seqs, m, g)
  <2> HIDE DEF seqs, m
  <2> QED
    BY <1>1, SumExists
<1>4. RowOf(batch, s) = FoldLeft(LAMBDA k, run : k + Len(run), 0, seqs)
  BY DEF RowOf
<1>5. FoldLeft(LAMBDA k, run : k + Len(run), 0, seqs) = g[1 .. m]
  <2> HIDE DEF seqs, m
  <2> QED
    BY <1>2 DEF FoldLeft, MapThenFoldSet, Sums
<1> QED
  BY <1>3, <1>4, <1>5

(* A sequence begins where the one before it ends.                         *)
LEMMA RowsAdd ==
  ASSUME NEW n \in Nat, NEW batch \in [1 .. n -> Runs]
  PROVE  RowOf(batch, 1) = 0 /\ \A s \in 1 .. n : RowOf(batch, s + 1) = RowOf(batch, s) + Len(batch[s])
<1>1. RowOf(batch, 1) = 0
  <2>1. PICK g : Sums(SubSeq(batch, 1, 1 - 1), 1 - 1, g) /\ RowOf(batch, 1) = g[1 .. 1 - 1]
    BY RowIsSum
  <2>2. 1 - 1 = 0 /\ 1 .. 0 = {}
    OBVIOUS
  <2> QED
    BY <2>1, <2>2, SumSteps
<1>2. ASSUME NEW s \in 1 .. n PROVE RowOf(batch, s + 1) = RowOf(batch, s) + Len(batch[s])
  <2> DEFINE more == SubSeq(batch, 1, s)
             seqs == SubSeq(batch, 1, s - 1)
  <2>1. s + 1 \in 1 .. n + 1 /\ s \in 1 .. n + 1 /\ (s + 1) - 1 = s /\ s - 1 \in Nat /\ s \in Nat
        /\ s - 1 <= s /\ s - 1 \in 0 .. n /\ s \in 0 .. n /\ s \in 1 .. s
    OBVIOUS
  <2>2. PICK g : Sums(more, s, g) /\ RowOf(batch, s + 1) = g[1 .. s]
    BY <2>1, RowIsSum
  <2>3. PICK f : Sums(seqs, s - 1, f) /\ RowOf(batch, s) = f[1 .. s - 1]
    BY <2>1, RowIsSum
  <2>4. \A i \in 1 .. s - 1 : seqs[i] = batch[i]
    BY <2>1, SubSeqPlaces
  <2>5. \A i \in 1 .. s : more[i] = batch[i]
    BY <2>1, SubSeqPlaces
  <2> HIDE DEF more, seqs
  <2>6. \A i \in 1 .. s - 1 : seqs[i] = more[i]
    BY <2>4, <2>5
  <2>7. f[1 .. s - 1] = g[1 .. s - 1]
    <3>1. Sums(seqs, s - 1, f) /\ Sums(more, s, g)
      BY <2>2, <2>3
    <3> DEFINE m == s - 1
    <3>2. m \in Nat /\ m <= s /\ Sums(seqs, m, f) /\ SameTo(seqs, more, m)
      BY <2>1, <2>6, <3>1 DEF SameTo
    <3> HIDE DEF m
    <3>3. f[1 .. m] = g[1 .. m]
      BY <2>1, <3>1, <3>2, SumsAgree
    <3> QED
      BY <3>3 DEF m
  <2>8. g[1 .. s] = g[1 .. s - 1] + Len(more[s])
    BY <2>1, <2>2, SumSteps
  <2> QED
    BY <2>1, <2>2, <2>3, <2>5, <2>7, <2>8
<1> QED
  BY <1>1, <1>2

-----------------------------------------------------------------------------
(* The plane of a call.                                                    *)

(* The plane holds the first m sequences, each from where it begins.       *)
Placed(batch, seqs, m, plane) ==
  /\ Len(plane) = RowOf(batch, m) + Len(batch[m])
  /\ \A s \in 1 .. m : \A i \in 1 .. Len(batch[s]) :
       RowOf(batch, s) + i \in 1 .. Len(plane) /\ plane[RowOf(batch, s) + i] = seqs[s][i]

LEMMA RowsAreNumbers ==
  ASSUME NEW n \in Nat, NEW batch \in [1 .. n -> Runs]
  PROVE  \A s \in 1 .. n : RowOf(batch, s) \in Nat /\ Len(batch[s]) \in Nat \ {0}
<1>1. \A s \in 1 .. n : Len(batch[s]) \in Nat \ {0}
  BY DEF Runs
<1> DEFINE Bad == {s \in 1 .. n : RowOf(batch, s) \notin Nat}
<1> SUFFICES ASSUME Bad # {} PROVE FALSE
  BY <1>1
<1>2. PICK s \in Bad : \A y \in Bad : s <= y
  <2>1. Bad \subseteq Nat
    OBVIOUS
  <2> HIDE DEF Bad
  <2> QED
    BY <2>1, LeastExists
<1>3. s \in 1 .. n /\ RowOf(batch, s) \notin Nat
  BY <1>2
<1>4. s # 1
  BY <1>3, RowsAdd
<1>5. s - 1 \in 1 .. n /\ ~(s <= s - 1) /\ (s - 1) + 1 = s
  BY <1>3, <1>4
<1>6. s - 1 \notin Bad
  BY <1>2, <1>5
<1>7. RowOf(batch, s - 1) \in Nat /\ Len(batch[s - 1]) \in Nat
  BY <1>1, <1>5, <1>6
<1>8. RowOf(batch, s) = RowOf(batch, s - 1) + Len(batch[s - 1])
  BY <1>5, RowsAdd
<1> QED
  BY <1>3, <1>7, <1>8

SameLengths(batch, seqs, n) == \A s \in 1 .. n : Len(seqs[s]) = Len(batch[s])

LEMMA PlaneStep ==
  ASSUME NEW S, NEW n \in Nat, NEW batch \in [1 .. n -> Runs], NEW seqs \in [1 .. n -> Seq(S)],
         SameLengths(batch, seqs, n),
         NEW m \in 1 .. n - 1, NEW plane \in Seq(S), Placed(batch, seqs, m, plane)
  PROVE  plane \o seqs[m + 1] \in Seq(S) /\ Placed(batch, seqs, m + 1, plane \o seqs[m + 1])
<1> DEFINE next == seqs[m + 1]
           longer == plane \o next
<1>1. m + 1 \in 1 .. n /\ m \in 1 .. n
  OBVIOUS
<1>2. /\ RowOf(batch, m + 1) = RowOf(batch, m) + Len(batch[m])
      /\ RowOf(batch, m + 1) \in Nat /\ RowOf(batch, m) \in Nat /\ Len(batch[m]) \in Nat
      /\ Len(batch[m + 1]) \in Nat /\ Len(next) = Len(batch[m + 1]) /\ next \in Seq(S)
  BY <1>1, RowsAdd, RowsAreNumbers DEF SameLengths
<1>3. Len(plane) = RowOf(batch, m + 1)
  BY <1>2 DEF Placed
<1> HIDE DEF next
<1>4. /\ longer \in Seq(S) /\ Len(longer) = Len(plane) + Len(next)
      /\ \A i \in 1 .. Len(plane) : longer[i] = plane[i]
      /\ \A i \in 1 .. Len(next) : longer[Len(plane) + i] = next[i]
      /\ Len(plane) \in Nat /\ Len(next) \in Nat
  <2>1. next \in Seq(S)
    BY <1>2
  <2> QED
    BY <2>1, Joined
<1> HIDE DEF longer
<1>5. Len(longer) = RowOf(batch, m + 1) + Len(batch[m + 1])
  BY <1>2, <1>3, <1>4
<1>6. ASSUME NEW s \in 1 .. m + 1, NEW i \in 1 .. Len(batch[s])
      PROVE  RowOf(batch, s) + i \in 1 .. Len(longer) /\ longer[RowOf(batch, s) + i] = seqs[s][i]
  <2> DEFINE at == RowOf(batch, s) + i
  <2>1. CASE s \in 1 .. m
    <3>1. at \in 1 .. Len(plane) /\ plane[at] = seqs[s][i]
      BY <2>1 DEF Placed
    <3> HIDE DEF at
    <3>2. longer[at] = seqs[s][i]
      BY <1>4, <3>1
    <3>3. at \in 1 .. Len(longer)
      <4> DEFINE first == Len(plane)
                 more == Len(next)
      <4>1. first \in Nat /\ more \in Nat /\ Len(longer) = first + more /\ at \in 1 .. first
        BY <1>4, <3>1
      <4> HIDE DEF first, more
      <4> QED
        BY <4>1
    <3> QED
      BY <3>2, <3>3 DEF at
  <2>2. CASE s = m + 1
    <3>1. i \in 1 .. Len(next) /\ at = Len(plane) + i /\ seqs[s] = next
      BY <1>2, <1>3, <2>2 DEF next
    <3> HIDE DEF at
    <3>2. at \in 1 .. Len(longer)
      BY <1>4, <3>1
    <3>3. longer[at] = seqs[s][i]
      BY <1>4, <3>1
    <3> QED
      BY <3>2, <3>3 DEF at
  <2>3. s \in 1 .. m \/ s = m + 1
    OBVIOUS
  <2> QED
    BY <2>1, <2>2, <2>3
<1> QED
  BY <1>4, <1>5, <1>6 DEF Placed, longer, next

LEMMA PlaneStarts ==
  ASSUME NEW S, NEW n \in Nat \ {0}, NEW batch \in [1 .. n -> Runs], NEW seqs \in [1 .. n -> Seq(S)],
         \A s \in 1 .. n : Len(seqs[s]) = Len(batch[s])
  PROVE  seqs[1] \in Seq(S) /\ Placed(batch, seqs, 1, seqs[1])
<1>1. 1 \in 1 .. n /\ RowOf(batch, 1) = 0
  BY RowsAdd
<1>2. seqs[1] \in Seq(S) /\ Len(seqs[1]) = Len(batch[1]) /\ Len(batch[1]) \in Nat
  BY <1>1, RowsAreNumbers
<1> QED
  BY <1>1, <1>2 DEF Placed

LEMMA FlatIsPlaced ==
  ASSUME NEW S, NEW n \in Nat, NEW batch \in [1 .. n -> Runs], NEW seqs \in [1 .. n -> Seq(S)],
         \A s \in 1 .. n : Len(seqs[s]) = Len(batch[s]),
         NEW f, Flattens(seqs, n, f)
  PROVE  \A m \in 1 .. n : f[m] \in Seq(S) /\ Placed(batch, seqs, m, f[m])
<1> DEFINE Good(m) == f[m] \in Seq(S) /\ Placed(batch, seqs, m, f[m])
           Bad == {m \in 1 .. n : ~Good(m)}
<1> SUFFICES ASSUME Bad # {} PROVE FALSE
  OBVIOUS
<1>1. PICK m \in Bad : \A y \in Bad : m <= y
  <2>1. Bad \subseteq Nat
    OBVIOUS
  <2> HIDE DEF Bad
  <2> QED
    BY <2>1, LeastExists
<1>2. m \in 1 .. n /\ ~Good(m)
  BY <1>1
<1>3. f[m] = IF m = 1 THEN seqs[m] ELSE f[m - 1] \o seqs[m]
  BY <1>2, Zenon DEF Flattens
<1>4. CASE m = 1
  <2>1. n \in Nat \ {0}
    BY <1>2
  <2>2. seqs[1] \in Seq(S) /\ Placed(batch, seqs, 1, seqs[1])
    BY <2>1, PlaneStarts
  <2> QED
    BY <1>2, <1>3, <1>4, <2>2
<1>5. CASE m # 1
  <2> DEFINE k == m - 1
  <2>1. k \in 1 .. n - 1 /\ k \in 1 .. n /\ ~(m <= k) /\ k + 1 = m
    BY <1>2, <1>5
  <2>2. k \notin Bad
    BY <1>1, <2>1
  <2>3. f[k] \in Seq(S) /\ Placed(batch, seqs, k, f[k])
    BY <2>1, <2>2
  <2>4. f[k + 1] = f[k] \o seqs[k + 1]
    BY <1>3, <1>5, <2>1
  <2> HIDE DEF k
  <2>5. SameLengths(batch, seqs, n)
    BY DEF SameLengths
  <2>6. f[k] \o seqs[k + 1] \in Seq(S) /\ Placed(batch, seqs, k + 1, f[k] \o seqs[k + 1])
    BY <2>1, <2>3, <2>5, PlaneStep
  <2>7. Good(k + 1)
    BY <2>4, <2>6
  <2> QED
    BY <1>2, <2>1, <2>7
<1> QED
  BY <1>4, <1>5

(* Every token of a call, and every rotary position, is in the plane where
   its sequence begins.                                                    *)
Packs(batch, seqs, n, plane) ==
  \A s \in 1 .. n : \A i \in 1 .. Len(batch[s]) : plane[RowOf(batch, s) + i] = seqs[s][i]

SequencesOf(S, n) == [1 .. n -> Seq(S)]

LEMMA PackedPlaces ==
  ASSUME NEW S, NEW n \in Nat \ {0}, NEW batch \in [1 .. n -> Runs], NEW seqs \in SequencesOf(S, n),
         SameLengths(batch, seqs, n)
  PROVE  Packs(batch, seqs, n, Packed(seqs))
<1> USE DEF SequencesOf, SameLengths, Packs
<1> DEFINE f == CHOOSE f : Flattens(seqs, n, f)
<1>1. Flattens(seqs, n, f)
  BY FlatExists
<1>2. Packed(seqs) = f[n]
  <2>1. Len(seqs) = n /\ n # 0
    OBVIOUS
  <2> QED
    BY <2>1 DEF Packed, FlattenSeq, Flattens
<1> HIDE DEF f
<1>3. n \in 1 .. n
  OBVIOUS
<1>4. Placed(batch, seqs, n, f[n])
  BY <1>1, <1>3, FlatIsPlaced
<1> QED
  BY <1>2, <1>4 DEF Placed

-----------------------------------------------------------------------------
(* The rows of a slab.                                                     *)

LEMMA DivMod ==
  ASSUME NEW b \in Nat \ {0}, NEW q \in Nat, NEW r \in 0 .. b - 1
  PROVE  (b * q + r) \div b = q /\ (b * q + r) % b = r
OBVIOUS

LEMMA Products ==
  /\ \A a, b \in Nat : a * b \in Nat
  /\ \A a, b, c \in Nat : (a * b) * c = a * (b * c)
  /\ \A a, b, c \in Nat : a * (b + c) = a * b + a * c
  /\ \A a, b, c \in Nat : b <= c => a * b <= a * c
OBVIOUS

(* A place is found again from its address.                                *)
LEMMA AddressParts ==
  ASSUME layers \in Nat \ {0}, NEW cap \in Nat \ {0}, NEW s \in Nat, NEW il \in 0 .. layers - 1,
         NEW p \in 0 .. cap - 1
  PROVE  LET a == Address(cap, s, il, p)
         IN  /\ a \div cap = layers * s + il /\ a % cap = p
             /\ SeqAt(cap, a) = s /\ LayerAt(cap, a) = il /\ PosAt(cap, a) = p
<1> DEFINE a == Address(cap, s, il, p)
           slab == cap * layers
           place == cap * il + p
           number == layers * s + il
<1>1. il \in Nat /\ p \in Nat /\ cap * il \in Nat /\ layers * s \in Nat /\ slab \in Nat \ {0}
  BY Products
<1>2. place \in 0 .. slab - 1
  <2>1. cap * (il + 1) <= slab
    BY <1>1, Products
  <2>2. cap * (il + 1) = cap * il + cap
    OBVIOUS
  <2> QED
    BY <1>1, <2>1, <2>2
<1>3. a = slab * s + place
  BY DEF Address
<1>4. a = cap * number + p
  <2>1. slab * s = cap * (layers * s)
    BY Products
  <2>2. cap * number = cap * (layers * s) + cap * il
    BY <1>1, Products
  <2> QED
    BY <1>1, <1>3, <2>1, <2>2, Products
<1>5. number \in Nat
  BY <1>1
<1> HIDE DEF a, slab, place, number
<1>6. a \div slab = s
  BY <1>1, <1>2, <1>3, DivMod
<1>7. a \div cap = number /\ a % cap = p
  BY <1>4, <1>5, DivMod
<1>8. number % layers = il
  BY DivMod DEF number
<1> QED
  BY <1>6, <1>7, <1>8 DEF SeqAt, LayerAt, PosAt, a, slab, number

(* The row of a place.                                                     *)
RowAt(k, s, il, p) == k.rows[Address(k.cap, s, il, p)]

(* The places forward_impl can keep a row in.                              *)
Holds(k, s, p) == s \in 0 .. k.slots - 1 /\ p \in 0 .. k.cap - 1

LEMMA HeldIsInside ==
  ASSUME layers \in Nat, NEW k, SlabOK(k), NEW s \in Nat, NEW p \in Nat, Holds(k, s, p),
         NEW il \in 0 .. layers - 1
  PROVE  Address(k.cap, s, il, p) \in DOMAIN k.rows
<1>1. k.cap \in Nat /\ k.slots \in Nat /\ DOMAIN k.rows = 0 .. k.cap * layers * k.slots - 1
  BY DEF SlabOK
<1>2. s \in 0 .. k.slots - 1 /\ p \in 0 .. k.cap - 1
  BY DEF Holds
<1> QED
  BY <1>1, <1>2, AddressInside

(* The growth carries every row to the place it had, when the cache has one
   layer, or one slot before and after.                                    *)
LEMMA CarriedReads ==
  ASSUME layers \in Nat \ {0}, NEW old, SlabOK(old), NEW new, SlabOK(new),
         NEW s \in Nat, NEW p \in Nat, NEW il \in 0 .. layers - 1,
         Holds(old, s, p), Holds(new, s, p),
         layers = 1 \/ (old.slots = 1 /\ new.slots = 1)
  PROVE  RowAt(Carried(old, new), s, il, p) = RowAt(old, s, il, p)
<1> DEFINE a == Address(new.cap, s, il, p)
           number == a \div new.cap
           layer == number \div new.slots
           slot == number % new.slots
           row == a % new.cap
<1>1. /\ new.cap \in Nat \ {0} /\ new.slots \in Nat \ {0} /\ old.cap \in Nat \ {0} /\ old.slots \in Nat \ {0}
      /\ p < old.cap /\ s < old.slots /\ p < new.cap /\ s < new.slots /\ p \in 0 .. new.cap - 1
  <2>1. new.cap \in Nat /\ new.slots \in Nat /\ old.cap \in Nat /\ old.slots \in Nat
    BY DEF SlabOK
  <2>2. /\ s \in 0 .. old.slots - 1 /\ p \in 0 .. old.cap - 1
        /\ s \in 0 .. new.slots - 1 /\ p \in 0 .. new.cap - 1
    BY DEF Holds
  <2> QED
    BY <2>1, <2>2
<1>2. a \in DOMAIN new.rows
  BY HeldIsInside
<1>3. Carried(old, new).rows = CarriedRows(old, new) /\ Carried(old, new).cap = new.cap
  <2>1. new = [cap |-> new.cap, slots |-> new.slots, rows |-> new.rows]
    BY DEF SlabOK
  <2>2. Carried(old, new) = [cap |-> new.cap, slots |-> new.slots, rows |-> CarriedRows(old, new)]
    BY <2>1 DEF Carried
  <2> QED
    BY <2>2
<1>4. RowAt(Carried(old, new), s, il, p) = CarriedRows(old, new)[a]
  BY <1>3 DEF RowAt
<1>5. CarriedRows(old, new)[a] =
        IF row < old.cap /\ slot < old.slots
        THEN old.rows[(layer * old.slots + slot) * old.cap + row]
        ELSE new.rows[a]
  BY <1>2 DEF CarriedRows
<1>6. number = layers * s + il /\ row = p
  BY <1>1, AddressParts
<1> HIDE DEF a, number, row
<1>7. CASE layers = 1
  <2>1. il = 0 /\ number = s
    BY <1>6, <1>7
  <2>2. layer = 0 /\ slot = s
    <3>1. new.slots * 0 + s = s /\ s \in 0 .. new.slots - 1
      BY <1>1
    <3>2. (new.slots * 0 + s) \div new.slots = 0 /\ (new.slots * 0 + s) % new.slots = s
      BY <1>1, <3>1, DivMod
    <3> QED
      BY <2>1, <3>1, <3>2
  <2> HIDE DEF layer, slot
  <2>3. (layer * old.slots + slot) * old.cap + row = s * old.cap + p
    BY <1>1, <1>6, <2>2
  <2>4. Address(old.cap, s, il, p) = (old.cap * 1) * s + (old.cap * 0 + p)
    BY <1>7, <2>1 DEF Address
  <2>5. (old.cap * 1) * s + (old.cap * 0 + p) = s * old.cap + p
    BY <1>1
  <2> QED
    BY <1>1, <1>4, <1>5, <1>6, <2>2, <2>3, <2>4, <2>5 DEF RowAt
<1>8. CASE old.slots = 1 /\ new.slots = 1
  <2>1. s = 0 /\ number = il
    <3>1. s = 0
      BY <1>1, <1>8
    <3>2. layers * 0 = 0
      OBVIOUS
    <3> QED
      BY <1>6, <3>1, <3>2
  <2>2. layer = il /\ slot = 0
    BY <1>8, <2>1
  <2> HIDE DEF layer, slot
  <2>3. (layer * old.slots + slot) * old.cap + row = il * old.cap + p
    BY <1>1, <1>6, <1>8, <2>2
  <2>4. Address(old.cap, s, il, p) = (old.cap * layers) * 0 + (old.cap * il + p)
    BY <2>1 DEF Address
  <2>5. (old.cap * layers) * 0 + (old.cap * il + p) = il * old.cap + p
    <3>1. old.cap * layers \in Nat
      BY <1>1, Products
    <3> QED
      BY <1>1, <3>1
  <2> QED
    BY <1>1, <1>4, <1>5, <1>6, <1>8, <2>2, <2>3, <2>4, <2>5 DEF RowAt
<1> QED
  BY <1>7, <1>8

(* What becomes of the rest of a slab when its rows are replaced.          *)
LEMMA RowsPut ==
  ASSUME NEW k, SlabOK(k), NEW rows
  PROVE  [k EXCEPT !.rows = rows].cap = k.cap /\ [k EXCEPT !.rows = rows].rows = rows
<1>1. [k EXCEPT !.rows = rows] = [cap |-> k.cap, slots |-> k.slots, rows |-> rows]
  BY DEF SlabOK
<1> QED
  BY <1>1

LEMMA PlaceFound ==
  ASSUME layers \in Nat \ {0}, NEW cap \in Nat \ {0}, NEW s \in Nat, NEW il \in 0 .. layers - 1,
         NEW p \in 0 .. cap - 1
  PROVE  /\ SeqAt(cap, Address(cap, s, il, p)) = s
         /\ LayerAt(cap, Address(cap, s, il, p)) = il
         /\ PosAt(cap, Address(cap, s, il, p)) = p
BY AddressParts

(* What the next lemmas know of a batch of n.                              *)
Given(n, starts, batch, rots) ==
  /\ n \in Nat \ {0} /\ batch \in [1 .. n -> Runs] /\ starts \in [1 .. n -> Nat]
  /\ rots \in [1 .. n -> Turns] /\ SameLengths(batch, rots, n)

LEMMA PackedTokens ==
  ASSUME NEW n, NEW starts, NEW batch, NEW rots, Given(n, starts, batch, rots),
         NEW s \in 1 .. n, NEW i \in 1 .. Len(batch[s])
  PROVE  /\ Packed(batch)[RowOf(batch, s) + i] = batch[s][i]
         /\ Packed(rots)[RowOf(batch, s) + i] = rots[s][i]
<1>1. n \in Nat \ {0} /\ SameLengths(batch, rots, n) /\ SameLengths(batch, batch, n)
  BY DEF Given, SameLengths
<1>0. batch \in [1 .. n -> Runs]
  BY DEF Given
<1>2. batch \in SequencesOf(Tokens, n)
  BY <1>0 DEF Runs, SequencesOf
<1>3. rots \in SequencesOf(Turn, n)
  BY DEF Given, Turns, SequencesOf
<1>4. Packs(batch, batch, n, Packed(batch))
  BY <1>0, <1>1, <1>2, PackedPlaces, Zenon
<1>5. Packs(batch, rots, n, Packed(rots))
  BY <1>0, <1>1, <1>3, PackedPlaces, Zenon
<1> QED
  BY <1>4, <1>5 DEF Packs

(* What forward_impl leaves at a place of one of its sequences: the row that
   was there before the batch's own positions, the batch's row from there on. *)
LEMMA AppendedReads ==
  ASSUME NEW k, NEW n, NEW starts, NEW batch, NEW rots, NEW s \in 1 .. n, NEW il \in 0 .. layers - 1,
         NEW p \in 0 .. starts[s] + Len(batch[s]) - 1,
         layers \in Nat \ {0}, SlabOK(k), Given(n, starts, batch, rots), Holds(k, s - 1, p)
  PROVE  RowAt(Appended(k, starts, batch, rots), s - 1, il, p) =
           IF p < starts[s] THEN RowAt(k, s - 1, il, p)
           ELSE [layer |-> il, pos |-> p, tok |-> batch[s][p - starts[s] + 1],
                 rot |-> rots[s][p - starts[s] + 1]]
<1> DEFINE cap == k.cap
           q == s - 1
           a == Address(cap, q, il, p)
           at == RowOf(batch, s) + p - starts[s] + 1
           i == p - starts[s] + 1
<1>0. /\ n \in Nat \ {0} /\ batch \in [1 .. n -> Runs] /\ starts \in [1 .. n -> Nat]
      /\ rots \in [1 .. n -> Turns] /\ SameLengths(batch, rots, n)
  BY DEF Given
<1>a. RowOf(batch, s) \in Nat /\ Len(batch[s]) \in Nat \ {0}
  BY <1>0, RowsAreNumbers, Zenon
<1>1. s - 1 \in Nat /\ p \in Nat /\ starts[s] \in Nat /\ Len(batch[s]) \in Nat /\ RowOf(batch, s) \in Nat
  BY <1>0, <1>a
<1>2. k.cap \in Nat \ {0} /\ p \in 0 .. k.cap - 1
  BY <1>1 DEF SlabOK, Holds
<1>3. a \in DOMAIN k.rows
  BY <1>1, HeldIsInside
<1>4. SeqAt(k.cap, a) + 1 = s /\ LayerAt(k.cap, a) = il /\ PosAt(k.cap, a) = p
  <2>1. q \in Nat /\ q + 1 = s /\ cap \in Nat \ {0} /\ p \in 0 .. cap - 1
    BY <1>1, <1>2
  <2> HIDE DEF q, cap
  <2>2. SeqAt(cap, a) = q /\ LayerAt(cap, a) = il /\ PosAt(cap, a) = p
    BY <2>1, PlaceFound
  <2> QED
    BY <2>1, <2>2 DEF cap
<1>5. /\ Appended(k, starts, batch, rots).cap = k.cap
      /\ Appended(k, starts, batch, rots).rows = AppendedRows(k, starts, batch, rots)
  BY RowsPut DEF Appended
<1>6. RowAt(Appended(k, starts, batch, rots), s - 1, il, p) = AppendedRows(k, starts, batch, rots)[a]
  BY <1>5 DEF RowAt
<1>7. Len(batch) = n
  BY <1>0
<1> HIDE DEF a
<1>8. AppendedRows(k, starts, batch, rots)[a] =
        IF s <= Len(batch) /\ starts[s] <= p /\ p < starts[s] + Len(batch[s])
        THEN [layer |-> il, pos |-> p, tok |-> Packed(batch)[at], rot |-> Packed(rots)[at]]
        ELSE k.rows[a]
  BY <1>3, <1>4 DEF AppendedRows
<1>9. CASE p < starts[s]
  <2>1. ~(starts[s] <= p)
    BY <1>1, <1>9
  <2> QED
    BY <1>6, <1>8, <1>9, <2>1 DEF RowAt, a
<1>10. CASE ~(p < starts[s])
  <2>1. s <= Len(batch) /\ starts[s] <= p /\ p < starts[s] + Len(batch[s])
    BY <1>1, <1>7, <1>10
  <2>2. i \in 1 .. Len(batch[s]) /\ at = RowOf(batch, s) + i
    <3> DEFINE base == RowOf(batch, s)
               start == starts[s]
               len == Len(batch[s])
    <3>1. base \in Nat /\ start \in Nat /\ len \in Nat /\ p \in Nat /\ start <= p /\ p < start + len
      BY <1>1, <2>1
    <3> HIDE DEF base, start, len
    <3>2. p - start + 1 \in 1 .. len /\ base + p - start + 1 = base + (p - start + 1)
      BY <3>1
    <3> QED
      BY <3>2 DEF base, start, len
  <2> HIDE DEF i, at
  <2>5. Packed(batch)[RowOf(batch, s) + i] = batch[s][i]
    BY <2>2, PackedTokens
  <2>6. Packed(rots)[RowOf(batch, s) + i] = rots[s][i]
    BY <2>2, PackedTokens
  <2> QED
    BY <1>6, <1>8, <1>10, <2>1, <2>2, <2>5, <2>6 DEF i
<1> QED
  BY <1>9, <1>10

(* The growth is one that carries the rows to their places.                *)
GrowsInPlace(positions, n) ==
  Room(kv, positions, n) \/ layers = 1 \/ (n = 1 /\ kv.slots = 1)

LEMMA EnsureKvReads ==
  ASSUME layers \in Nat \ {0}, SlabOK(kv), NEW positions \in Nat, positions <= Capacity,
         NEW n \in Nat, GrowsInPlace(positions, n),
         NEW s \in 0 .. n - 1, NEW p \in 0 .. positions - 1, NEW il \in 0 .. layers - 1,
         Holds(kv, s, p)
  PROVE  RowAt(EnsureKv(kv, positions, n), s, il, p) = RowAt(kv, s, il, p)
<1> DEFINE grown == GrowTo(Larger(kv.cap, InitialPositions), positions)
<1>1. CASE Room(kv, positions, n)
  BY <1>1 DEF EnsureKv
<1>2. CASE ~Room(kv, positions, n)
  <2>1. Larger(kv.cap, InitialPositions) \in Nat
    BY KvAssumption DEF Larger, SlabOK
  <2>2. grown \in Nat /\ grown >= positions
    BY <2>1, GrowToReaches
  <2>3. EnsureKv(kv, positions, n) = Carried(kv, Empty(grown, n))
    BY <1>2 DEF EnsureKv
  <2> HIDE DEF grown
  <2> DEFINE new == Empty(grown, n)
  <2>4. SlabOK(new) /\ new.cap = grown /\ new.slots = n
    BY <2>2, EmptyIsSlab
  <2> HIDE DEF new
  <2>5. Holds(new, s, p) /\ s \in Nat /\ p \in Nat
    BY <2>2, <2>4 DEF Holds
  <2>6. layers = 1 \/ (kv.slots = 1 /\ new.slots = 1)
    BY <1>2, <2>4 DEF GrowsInPlace
  <2>7. RowAt(Carried(kv, new), s, il, p) = RowAt(kv, s, il, p)
    BY <2>4, <2>5, <2>6, CarriedReads
  <2> QED
    BY <2>3, <2>7 DEF new
<1> QED
  BY <1>1, <1>2

-----------------------------------------------------------------------------
(* The calls the programs make are calls of the session.                   *)

(* A member of a group, or the serial job.                                 *)
JobRecord == [tok : 1 .. 2 * MaxBatch, prompt : Prompts, asked : MaxTokens \cup {0},
              budget : Nat \ {0}, made : Nat, done : BOOLEAN]

ServingTypes ==
  /\ phase \in {"idle", "serial", "reserve", "prefill", "decode"}
  /\ round \in {0, 1} /\ groupSteps \in Nat /\ steps \in Nat
  /\ jobs \in Seq(JobRecord) /\ Len(jobs) <= MaxBatch

(* Before its first step every job has all its budget.                     *)
Fresh(job) == job.made = 0 /\ ~job.done

(* The serial generation: the position is what the prompt and the tokens
   made so far have filled.                                                *)
SerialInPlace ==
  LET job == jobs[1]
  IN  /\ Len(jobs) = 1 /\ ~job.done /\ job.made < job.budget
      /\ job.prompt < Capacity /\ job.budget = Budget(job.prompt, job.asked)
      /\ Len(seqLen) = 1 /\ position = seqLen[1]
      /\ seqLen[1] = IF job.made = 0 THEN 0 ELSE job.prompt + job.made - 1

(* Every member's prompt and every step the group can still run fit in the
   window, and the slabs hold the window for every slot.                   *)
GroupHasRoom ==
  /\ Window <= Capacity /\ kv.cap >= Window /\ kv.slots >= MaxBatch
  /\ groupSteps \in Nat \ {0}
  /\ \A s \in 1 .. Len(jobs) : /\ jobs[s].prompt + groupSteps <= Window
                               /\ jobs[s].budget <= groupSteps

GroupStarts ==
  /\ Len(jobs) >= 2 /\ seqLen = << 0 >>
  /\ \A s \in 1 .. Len(jobs) : Fresh(jobs[s])

(* The members that are done are padded, so that every length has advanced
   by the same number of steps; one member at least has budget left.       *)
GroupRuns ==
  /\ Len(seqLen) = Len(jobs) /\ Len(jobs) >= 2
  /\ \A s \in 1 .. Len(jobs) : seqLen[s] = jobs[s].prompt + steps
  /\ \A s \in 1 .. Len(jobs) : ~jobs[s].done => jobs[s].made = steps + 1 /\ jobs[s].made < jobs[s].budget
  /\ \E s \in 1 .. Len(jobs) : ~jobs[s].done

ServingInv ==
  /\ ServingTypes
  /\ phase = "idle" => jobs = << >>
  /\ phase = "serial" => SerialInPlace
  /\ phase = "reserve" => GroupStarts
  /\ phase = "prefill" => GroupStarts /\ GroupHasRoom
  /\ phase = "decode" => GroupRuns /\ GroupHasRoom

(* What compose was given, and where it is.                                *)
ComposingTypes ==
  \/ composing = Nothing
  \/ /\ composing \in [at : {"before", "span", "after", "done"}, before : Lengths, after : Lengths,
                       w : Nat, h : Nat, windows : Nat, width : Nat, start : Nat, made : Nat]
     /\ host = "vlm" => composing.w \in Sides /\ composing.h \in Sides
     /\ host = "asr" => composing.width \in Lengths

(* The serving loop runs in one of the hosts only.                         *)
HInv == /\ IInv /\ ServingInv /\ ComposingTypes
        /\ position \in Nat
        /\ host # "serving" => phase = "idle"

-----------------------------------------------------------------------------
(* Sequences of tokens.                                                    *)

LEMMA TokensAreRuns ==
  ASSUME NEW n \in Nat \ {0}, NEW run \in [1 .. n -> Tokens]
  PROVE  run \in Runs /\ Len(run) = n
BY DEF Runs

LEMMA TokensOfIsRun ==
  ASSUME NEW token \in Tokens, NEW n \in Nat \ {0}
  PROVE  TokensOf(token, n) \in Runs /\ Len(TokensOf(token, n)) = n
<1>1. TokensOf(token, n) \in [1 .. n -> Tokens]
  BY DEF TokensOf
<1> QED
  BY <1>1, TokensAreRuns

LEMMA OneTokenIsRun ==
  ASSUME NEW token \in Tokens
  PROVE  <<token>> \in Runs /\ Len(<<token>>) = 1
BY DEF Runs

LEMMA HostTokens == /\ BeforeToken \in Tokens /\ MediaToken \in Tokens
                    /\ AfterToken \in Tokens /\ MadeToken \in Tokens /\ {1, 2} \subseteq Tokens
                    /\ FinishedToken \in Tokens /\ 1 .. 2 * MaxBatch \subseteq Tokens
BY HostsAssumption, ServingAssumption
   DEF BeforeToken, MediaToken, AfterToken, MadeToken, FinishedToken

LEMMA JobFields ==
  ASSUME NEW job \in JobRecord
  PROVE  /\ job.tok \in Tokens /\ job.prompt \in Nat \ {0} /\ job.asked \in Nat
         /\ job.budget \in Nat \ {0} /\ job.made \in Nat /\ job.done \in BOOLEAN
<1>1. job.tok \in 1 .. 2 * MaxBatch /\ job.prompt \in Prompts /\ job.asked \in MaxTokens \cup {0}
  BY DEF JobRecord
<1>2. job.budget \in Nat \ {0} /\ job.made \in Nat /\ job.done \in BOOLEAN
  BY DEF JobRecord
<1>3. job.tok \in Tokens
  BY <1>1, HostTokens
<1>4. Prompts \subseteq Nat \ {0} /\ MaxTokens \cup {0} \subseteq Nat
  BY ServingAssumption
<1>5. job.prompt \in Nat \ {0} /\ job.asked \in Nat
  BY <1>1, <1>4, Zenon
<1> QED
  BY <1>2, <1>3, <1>5

LEMMA PromptIsRun ==
  ASSUME NEW job \in JobRecord
  PROVE  Prompt(job) \in Runs /\ Len(Prompt(job)) = job.prompt /\ job.prompt \in Nat \ {0}
<1>1. job.prompt \in Nat \ {0} /\ job.tok \in Tokens
  BY JobFields
<1>2. Prompt(job) \in [1 .. job.prompt -> Tokens]
  BY <1>1 DEF Prompt
<1> QED
  BY <1>1, <1>2, TokensAreRuns

LEMMA RunsMakeBatch ==
  ASSUME NEW n \in Nat \ {0}, NEW batch \in [1 .. n -> Runs]
  PROVE  batch \in Batches /\ Len(batch) = n
BY DEF Batches

-----------------------------------------------------------------------------
(* Rotary positions.                                                       *)

(* The rounded root of a token count.                                      *)
LEMMA SideRounds ==
  ASSUME NEW tokens \in Nat \ {0}
  PROVE  /\ Side(tokens) \in Nat \ {0}
         /\ (2 * Side(tokens) - 1) * (2 * Side(tokens) - 1) <= 4 * tokens
         /\ 4 * tokens < (2 * Side(tokens) + 1) * (2 * Side(tokens) + 1)
<1> DEFINE Above == {s \in 0 .. tokens : 4 * tokens < (2 * s + 1) * (2 * s + 1)}
<1>1. tokens \in Above
  <2>1. (2 * tokens + 1) * (2 * tokens + 1) = 4 * (tokens * tokens) + 4 * tokens + 1
    OBVIOUS
  <2>2. tokens * tokens \in Nat
    OBVIOUS
  <2> QED
    BY <2>1, <2>2
<1>2. Above \subseteq Nat
  OBVIOUS
<1>3. PICK s \in Above : \A y \in Above : s <= y
  <2> HIDE DEF Above
  <2> QED
    BY <1>1, <1>2, LeastExists
<1>4. s \in 0 .. tokens /\ 4 * tokens < (2 * s + 1) * (2 * s + 1)
  OBVIOUS
<1>5. (2 * s - 1) * (2 * s - 1) <= 4 * tokens
  <2>1. CASE s = 0
    BY <2>1
  <2>2. CASE s # 0
    <3>1. s - 1 \in 0 .. tokens /\ ~(s <= s - 1)
      BY <1>4, <2>2
    <3>2. s - 1 \notin Above
      BY <1>3, <3>1
    <3>3. ~(4 * tokens < (2 * (s - 1) + 1) * (2 * (s - 1) + 1))
      BY <3>1, <3>2
    <3>4. 2 * (s - 1) + 1 = 2 * s - 1 /\ 2 * s - 1 \in Nat
      BY <1>4, <2>2
    <3>5. (2 * s - 1) * (2 * s - 1) \in Nat
      BY <3>4
    <3> QED
      BY <3>3, <3>4, <3>5
  <2> QED
    BY <2>1, <2>2
<1> HIDE DEF Above
<1>6. LET t == Side(tokens)
      IN  t \in 0 .. tokens /\ (2 * t - 1) * (2 * t - 1) <= 4 * tokens
          /\ 4 * tokens < (2 * t + 1) * (2 * t + 1)
  BY <1>4, <1>5 DEF Side
<1>7. Side(tokens) # 0
  <2>1. ~(4 * tokens < (2 * 0 + 1) * (2 * 0 + 1))
    OBVIOUS
  <2> QED
    BY <1>6, <2>1
<1> QED
  BY <1>6, <1>7

LEMMA GridIsTurns ==
  ASSUME NEW start \in Nat, NEW tokens \in Nat \ {0}
  PROVE  GridPositions(start, tokens) \in Turns /\ Len(GridPositions(start, tokens)) = tokens
<1>1. Side(tokens) \in Nat \ {0}
  BY SideRounds
<1>2. \A i \in 1 .. tokens : <<start, start + (i - 1) \div Side(tokens),
                               start + ((i - 1) % Side(tokens))>> \in Turn
  <2> SUFFICES ASSUME NEW i \in 1 .. tokens
               PROVE  <<start, start + (i - 1) \div Side(tokens),
                        start + ((i - 1) % Side(tokens))>> \in Turn
    OBVIOUS
  <2>1. (i - 1) \div Side(tokens) \in Nat /\ (i - 1) % Side(tokens) \in Nat
    BY <1>1
  <2>2. \A a, b, c \in Nat : <<a, b, c>> \in Turn
    BY DEF Turn
  <2> QED
    BY <2>1, <2>2
<1>3. GridPositions(start, tokens) \in [1 .. tokens -> Turn]
  BY <1>2 DEF GridPositions
<1> QED
  BY <1>3 DEF Turns

LEMMA TextIsTurns ==
  ASSUME NEW base \in Nat, NEW n \in Nat
  PROVE  TextPositions(base, n) \in Turns /\ Len(TextPositions(base, n)) = n
<1>1. \A i \in 1 .. n : [j \in 1 .. 3 |-> base + i - 1] \in Turn
  BY DEF Turn
<1>2. TextPositions(base, n) \in [1 .. n -> Turn]
  BY <1>1 DEF TextPositions
<1> QED
  BY <1>2 DEF Turns

(* A plain forward turns its tokens by positions.                          *)
LEMMA PlainIsTurns ==
  ASSUME NEW n \in Nat \ {0}, NEW batch \in [1 .. n -> Runs], NEW starts \in [1 .. n -> Nat]
  PROVE  /\ Plain(starts, batch) \in [1 .. n -> Turns]
         /\ \A s \in 1 .. n : Len(Plain(starts, batch)[s]) = Len(batch[s])
<1> DEFINE turned(s) == [i \in 1 .. Len(batch[s]) |-> [j \in 1 .. 3 |-> starts[s] + i - 1]]
<1>1. Plain(starts, batch) = [s \in 1 .. n |-> turned(s)]
  <2>1. Len(batch) = n
    OBVIOUS
  <2> QED
    BY <2>1 DEF Plain
<1>2. ASSUME NEW s \in 1 .. n PROVE turned(s) \in Turns /\ Len(turned(s)) = Len(batch[s])
  <2>1. Len(batch[s]) \in Nat /\ starts[s] \in Nat
    BY DEF Runs
  <2>2. \A i \in 1 .. Len(batch[s]) : [j \in 1 .. 3 |-> starts[s] + i - 1] \in Turn
    BY <2>1 DEF Turn
  <2>3. turned(s) \in [1 .. Len(batch[s]) -> Turn]
    BY <2>2
  <2> HIDE DEF turned
  <2> QED
    BY <2>1, <2>3 DEF Turns
<1> HIDE DEF turned
<1> QED
  BY <1>1, <1>2

-----------------------------------------------------------------------------
(* Every step of a program is a call of the session, or none.              *)

LEMMA SeqLenStart == IInv => seqLen[1] \in Nat
BY LengthsAreNumbers DEF IInv

LEMMA SpanIsTurned ==
  ASSUME NEW run \in Runs, NEW start \in Nat
  PROVE  \E rots \in Turns : Len(rots) = Len(run) /\ rots = Plain(<<start>>, <<run>>)[1]
<1> DEFINE batch == <<run>>
           starts == <<start>>
           plain == Plain(starts, batch)
<1>1. batch \in [1 .. 1 -> Runs] /\ starts \in [1 .. 1 -> Nat] /\ batch[1] = run /\ 1 \in Nat \ {0}
  OBVIOUS
<1> HIDE DEF batch, starts
<1>2. plain \in [1 .. 1 -> Turns] /\ \A s \in 1 .. 1 : Len(plain[s]) = Len(batch[s])
  BY <1>1, PlainIsTurns
<1> HIDE DEF plain
<1>3. plain[1] \in Turns /\ Len(plain[1]) = Len(run)
  BY <1>1, <1>2
<1> QED
  BY <1>3 DEF plain, batch, starts

LEMMA SpanIsCall ==
  ASSUME NEW run \in Runs, NEW start \in Nat, ForwardSpan(run, start)
  PROVE  Next
<1>1. PICK rots \in Turns : rots = Plain(<<start>>, <<run>>)[1]
  BY SpanIsTurned
<1>2. ForwardTurned(run, start, rots)
  BY <1>1 DEF ForwardSpan
<1> QED
  BY <1>2 DEF Next

LEMMA SessionStepIsCall == ASSUME SessionNext PROVE Next
<1>1. CASE Reset
  BY <1>1 DEF Next
<1>2. ASSUME NEW n \in 1 .. 2, NEW run \in [1 .. n -> {1, 2}], Forward(run) PROVE Next
  <2>1. run \in [1 .. n -> Tokens] /\ n \in Nat \ {0}
    BY HostTokens
  <2>2. run \in Runs
    BY <2>1, TokensAreRuns
  <2> QED
    BY <1>2, <2>2 DEF Next
<1> QED
  BY <1>1, <1>2 DEF SessionNext

LEMMA AbiRunsAreRuns == AbiRuns \subseteq Runs
<1>1. TokensOf(1, 1) \in Runs /\ TokensOf(1, 2) \in Runs
  BY HostTokens, TokensOfIsRun
<1> QED
  BY <1>1 DEF AbiRuns

LEMMA AbiStepIsCall == ASSUME HInv, AbiNext PROVE Next
<1>1. CASE Reset
  BY <1>1 DEF Next
<1>2. ASSUME NEW run \in AbiRuns, Forward(run) PROVE Next
  BY <1>2, AbiRunsAreRuns DEF Next
<1>3. ASSUME NEW run \in AbiRuns, NEW start \in {position, seqLen[1]}, ForwardSpan(run, start) PROVE Next
  <2>1. start \in Nat
    BY SeqLenStart DEF HInv
  <2> QED
    BY <1>3, <2>1, AbiRunsAreRuns, SpanIsCall
<1>4. ASSUME NEW n \in 1 .. MaxBatch, NEW batch \in [1 .. n -> AbiRuns], ForwardBatch(batch) PROVE Next
  <2>1. n \in Nat \ {0} /\ batch \in [1 .. n -> Runs]
    BY ServingAssumption, AbiRunsAreRuns
  <2>2. batch \in Batches
    BY <2>1, RunsMakeBatch
  <2> QED
    BY <1>4, <2>2 DEF Next
<1>5. ASSUME NEW positions \in 1 .. Capacity + 1, NEW slots \in 1 .. MaxBatch, Reserve(positions, slots)
      PROVE Next
  <2>1. positions \in Nat /\ slots \in Nat
    BY ServingAssumption, KvAssumption
  <2> QED
    BY <1>5, <2>1 DEF Next
<1> QED
  BY <1>1, <1>2, <1>3, <1>4, <1>5 DEF AbiNext

LEMMA SerialRun ==
  ASSUME NEW job \in JobRecord
  PROVE  LET run == IF job.made = 0 THEN Prompt(job) ELSE <<job.tok>>
         IN  run \in Runs /\ Len(run) = IF job.made = 0 THEN job.prompt ELSE 1
<1>1. job.tok \in Tokens
  BY HostTokens DEF JobRecord
<1> QED
  BY <1>1, PromptIsRun, OneTokenIsRun

(* The jobs, and the batches made of them.                                 *)
PromptBatch == [s \in 1 .. Len(jobs) |-> Prompt(jobs[s])]

StepBatch == [s \in 1 .. Len(jobs) |-> IF jobs[s].done THEN <<FinishedToken>> ELSE <<jobs[s].tok>>]

LEMMA JobsAreJobs ==
  ASSUME ServingTypes
  PROVE  Len(jobs) \in Nat /\ \A s \in 1 .. Len(jobs) : jobs[s] \in JobRecord
BY DEF ServingTypes

LEMMA GroupBatches ==
  ASSUME ServingTypes, Len(jobs) >= 2
  PROVE  /\ PromptBatch \in Batches /\ Len(PromptBatch) = Len(jobs)
         /\ StepBatch \in Batches /\ Len(StepBatch) = Len(jobs)
         /\ \A s \in 1 .. Len(jobs) : Len(PromptBatch[s]) = jobs[s].prompt /\ Len(StepBatch[s]) = 1
<1>1. Len(jobs) \in Nat \ {0}
  BY JobsAreJobs
<1>2. \A s \in 1 .. Len(jobs) : Prompt(jobs[s]) \in Runs /\ Len(Prompt(jobs[s])) = jobs[s].prompt
  BY JobsAreJobs, PromptIsRun
<1>3. \A s \in 1 .. Len(jobs) :
        LET run == IF jobs[s].done THEN <<FinishedToken>> ELSE <<jobs[s].tok>>
        IN  run \in Runs /\ Len(run) = 1
  <2> SUFFICES ASSUME NEW s \in 1 .. Len(jobs)
               PROVE  LET run == IF jobs[s].done THEN <<FinishedToken>> ELSE <<jobs[s].tok>>
                      IN  run \in Runs /\ Len(run) = 1
    OBVIOUS
  <2>1. jobs[s].tok \in Tokens /\ FinishedToken \in Tokens
    BY JobsAreJobs, HostTokens DEF JobRecord
  <2> QED
    BY <2>1, OneTokenIsRun
<1>4. PromptBatch \in [1 .. Len(jobs) -> Runs]
  BY <1>2 DEF PromptBatch
<1>5. StepBatch \in [1 .. Len(jobs) -> Runs]
  BY <1>3 DEF StepBatch
<1>6. /\ PromptBatch \in Batches /\ Len(PromptBatch) = Len(jobs)
      /\ StepBatch \in Batches /\ Len(StepBatch) = Len(jobs)
  BY <1>1, <1>4, <1>5, RunsMakeBatch
<1> QED
  BY <1>2, <1>3, <1>6 DEF PromptBatch, StepBatch

LEMMA ServingStepIsCall == ASSUME HInv, ServingNext PROVE Next
<1>1. CASE SerialStart
  BY <1>1 DEF SerialStart, Next
<1>2. CASE GroupStart
  BY <1>2 DEF GroupStart, Next
<1>3. CASE SerialToken
  <2> DEFINE job == jobs[1]
             run == IF job.made = 0 THEN Prompt(job) ELSE <<job.tok>>
  <2>1. phase = "serial" /\ Forward(run)
    BY <1>3 DEF SerialToken
  <2>2. job \in JobRecord
    BY <2>1, JobsAreJobs DEF HInv, ServingInv, SerialInPlace
  <2> HIDE DEF job
  <2>3. run \in Runs
    BY <2>2, SerialRun
  <2> HIDE DEF run
  <2> QED
    BY <2>1, <2>3 DEF Next
<1>4. CASE GroupReserve
  <2>1. Reserve(Window, MaxBatch)
    BY <1>4 DEF GroupReserve
  <2> QED
    BY <2>1, ServingAssumption DEF Next
<1>5. CASE GroupPrefill
  <2>1. phase = "prefill" /\ ForwardBatch(PromptBatch)
    BY <1>5 DEF GroupPrefill, PromptBatch
  <2>2. PromptBatch \in Batches
    BY <2>1, GroupBatches DEF HInv, ServingInv, GroupStarts
  <2> QED
    BY <2>1, <2>2 DEF Next
<1>6. CASE GroupDecode
  <2>1. phase = "decode" /\ ForwardBatch(StepBatch)
    BY <1>6 DEF GroupDecode, StepBatch
  <2>2. StepBatch \in Batches
    BY <2>1, GroupBatches DEF HInv, ServingInv, GroupRuns
  <2> QED
    BY <2>1, <2>2 DEF Next
<1> QED
  BY <1>1, <1>2, <1>3, <1>4, <1>5, <1>6 DEF ServingNext, ServeNext

(* What compose was given, when it is somewhere.                           *)
LEMMA ComposingFields ==
  ASSUME ComposingTypes, composing.at # "no"
  PROVE  /\ composing.at \in {"before", "span", "after", "done"}
         /\ composing.before \in Nat \ {0} /\ composing.after \in Nat \ {0}
         /\ composing.start \in Nat /\ composing.made \in Nat /\ composing.windows \in Nat
         /\ composing.w \in Nat /\ composing.h \in Nat /\ composing.width \in Nat
         /\ host = "vlm" => composing.w \in Nat \ {0} /\ composing.h \in Nat \ {0}
         /\ host = "asr" => composing.width \in Nat \ {0}
<1>1. composing # Nothing
  BY DEF Nothing
<1> QED
  BY <1>1, HostsAssumption DEF ComposingTypes

LEMMA ProductPositive == \A a, b \in Nat \ {0} : a * b \in Nat \ {0}
OBVIOUS

LEMMA ComposeStepIsCall == ASSUME HInv, ComposeNext PROVE Next \/ UNCHANGED vars
<1>1. CASE ComposeImage \/ ComposeSound
  BY <1>1 DEF ComposeImage, ComposeSound, Next
<1>2. CASE ImageBefore \/ SoundBefore
  <2>1. composing.at = "before" /\ Forward(TokensOf(BeforeToken, composing.before))
    BY <1>2 DEF ImageBefore, SoundBefore
  <2>2. composing.before \in Nat \ {0}
    BY <2>1, ComposingFields DEF HInv
  <2>3. TokensOf(BeforeToken, composing.before) \in Runs
    BY <2>2, HostTokens, TokensOfIsRun
  <2> QED
    BY <2>1, <2>3 DEF Next
<1>3. CASE ImageSpan
  <2> DEFINE tokens == composing.w * composing.h
             run == TokensOf(MediaToken, tokens)
             rots == GridPositions(composing.start, tokens)
  <2>1. host = "vlm" /\ composing.at = "span" /\ ForwardTurned(run, composing.start, rots)
    BY <1>3 DEF ImageSpan
  <2>2. tokens \in Nat \ {0} /\ composing.start \in Nat
    BY <2>1, ComposingFields, ProductPositive DEF HInv
  <2> HIDE DEF tokens
  <2>3. run \in Runs /\ rots \in Turns
    BY <2>2, HostTokens, TokensOfIsRun, GridIsTurns
  <2> HIDE DEF run, rots
  <2> QED
    BY <2>1, <2>2, <2>3 DEF Next
<1>4. CASE ImageAfter
  <2> DEFINE base == AfterBase(composing.start, composing.w * composing.h)
             run == TokensOf(AfterToken, composing.after)
             rots == TextPositions(base, composing.after)
  <2>1. host = "vlm" /\ composing.at = "after" /\ ForwardTurned(run, seqLen[1], rots)
    BY <1>4 DEF ImageAfter
  <2>2. /\ composing.w * composing.h \in Nat \ {0} /\ composing.start \in Nat
        /\ composing.after \in Nat \ {0}
    BY <2>1, ComposingFields, ProductPositive DEF HInv
  <2>3. base \in Nat
    <3>1. Side(composing.w * composing.h) \in Nat
      BY <2>2, SideRounds
    <3> QED
      BY <2>2, <3>1 DEF AfterBase
  <2> HIDE DEF base
  <2>4. run \in Runs /\ rots \in Turns
    BY <2>2, <2>3, HostTokens, TokensOfIsRun, TextIsTurns
  <2>5. seqLen[1] \in Nat
    BY SeqLenStart DEF HInv
  <2> HIDE DEF run, rots
  <2> QED
    BY <2>1, <2>4, <2>5 DEF Next
<1>5. CASE SoundWindow
  <2> DEFINE run == TokensOf(MediaToken, composing.width)
  <2>1. host = "asr" /\ composing.at = "span" /\ ForwardSpan(run, seqLen[1])
    BY <1>5 DEF SoundWindow, WindowStart
  <2>2. composing.width \in Nat \ {0} /\ seqLen[1] \in Nat
    BY <2>1, ComposingFields, SeqLenStart DEF HInv
  <2>3. run \in Runs
    BY <2>2, HostTokens, TokensOfIsRun
  <2> HIDE DEF run
  <2> QED
    BY <2>1, <2>2, <2>3, SpanIsCall
<1>6. CASE SoundThrows
  BY <1>6 DEF SoundThrows, allVars
<1>7. CASE SoundAfter
  <2>1. composing.at = "after" /\ Forward(TokensOf(AfterToken, composing.after))
    BY <1>7 DEF SoundAfter
  <2>2. composing.after \in Nat \ {0}
    BY <2>1, ComposingFields DEF HInv
  <2>3. TokensOf(AfterToken, composing.after) \in Runs
    BY <2>2, HostTokens, TokensOfIsRun
  <2> QED
    BY <2>1, <2>3 DEF Next
<1>8. CASE SoundToken
  <2>1. Forward(<<MadeToken>>) /\ <<MadeToken>> \in Runs
    BY <1>8, HostTokens, OneTokenIsRun DEF SoundToken
  <2> QED
    BY <2>1 DEF Next
<1> QED
  BY <1>1, <1>2, <1>3, <1>4, <1>5, <1>6, <1>7, <1>8 DEF ComposeNext

LEMMA HostsStepIsCall == ASSUME HInv, HostsNext PROVE [Next]_vars
BY SessionStepIsCall, AbiStepIsCall, ServingStepIsCall, ComposeStepIsCall DEF HostsNext

-----------------------------------------------------------------------------
(* The serving loop.                                                       *)

(* A forward that ran.                                                     *)
Ran(starts, batch) ==
  /\ \A s \in 1 .. Len(batch) : starts[s] + Len(batch[s]) <= Capacity
  /\ seqLen' = [s \in 1 .. Len(batch) |-> starts[s] + Len(batch[s])]
  /\ position' = starts[1] + Len(batch[1])
  /\ call' = [op |-> "forward", batch |-> batch] /\ reply' = "ok" /\ layers' = layers

LEMMA ForwardImplDoes ==
  ASSUME IInv, NEW batch \in Batches, NEW starts, NEW rots,
         \A s \in 1 .. Len(batch) : starts[s] \in Nat,
         ForwardImpl(starts, batch, rots)
  PROVE  \/ /\ \E s \in 1 .. Len(batch) : starts[s] + Len(batch[s]) > Capacity
            /\ Refuse("context_length")
         \/ Ran(starts, batch)
<1> DEFINE ends == [s \in 1 .. Len(batch) |-> starts[s] + Len(batch[s])]
<1>1. Len(batch) \in Nat \ {0} /\ \A s \in 1 .. Len(batch) : Len(batch[s]) \in Nat
  <2>1. batch \in Seq(Runs) /\ batch # << >>
    BY DEF Batches
  <2>2. \A s \in 1 .. Len(batch) : batch[s] \in Seq(Tokens)
    BY <2>1 DEF Runs
  <2> QED
    BY <2>1, <2>2
<1>2. CASE \E s \in 1 .. Len(batch) : ends[s] > Capacity
  <2>1. Refuse("context_length")
    BY <1>2 DEF ForwardImpl
  <2> QED
    BY <1>2, <2>1
<1>3. CASE ~ \E s \in 1 .. Len(batch) : ends[s] > Capacity
  <2>1. /\ seqLen' = ends /\ position' = ends[1] /\ layers' = layers
        /\ call' = [op |-> "forward", batch |-> batch] /\ reply' = "ok"
    BY <1>3 DEF ForwardImpl
  <2>2. \A s \in 1 .. Len(batch) : starts[s] + Len(batch[s]) <= Capacity
    BY <1>1, <1>3, KvAssumption
  <2> QED
    BY <1>1, <2>1, <2>2 DEF Ran
<1> QED
  BY <1>2, <1>3

(* A forward that has room leaves the slabs' extents alone.                *)
LEMMA RoomStays ==
  ASSUME IInv, NEW batch \in Batches, NEW starts, NEW rots,
         \A s \in 1 .. Len(batch) : starts[s] \in Nat /\ starts[s] + Len(batch[s]) <= kv.cap,
         Len(batch) <= kv.slots,
         ForwardImpl(starts, batch, rots)
  PROVE  kv'.cap = kv.cap /\ kv'.slots = kv.slots
<1> DEFINE n == Len(batch)
           ends == [s \in 1 .. n |-> starts[s] + Len(batch[s])]
           maxEnd == Max({ends[s] : s \in 1 .. n})
<1>1. n \in Nat \ {0} /\ \A s \in 1 .. n : Len(batch[s]) \in Nat \ {0}
  <2>1. batch \in Seq(Runs) /\ batch # << >>
    BY DEF Batches
  <2>2. \A s \in 1 .. n : batch[s] \in Seq(Tokens) /\ batch[s] # << >>
    BY <2>1 DEF Runs
  <2> QED
    BY <2>1, <2>2
<1>2. kv.cap \in Nat /\ kv.slots \in Nat /\ SlabOK(kv)
  BY DEF IInv, SlabOK
<1>3. \A s \in 1 .. n : ends[s] \in 0 .. kv.cap /\ ends[s] > 0
  BY <1>1, <1>2
<1>4. maxEnd \in 0 .. kv.cap /\ kv.cap > 0
  <2> HIDE DEF ends
  <2> DEFINE T == {ends[s] : s \in 1 .. n}
  <2>1. T \subseteq 0 .. kv.cap /\ ends[1] \in T
    BY <1>1, <1>3
  <2>2. Max(T) \in T
    BY <1>2, <2>1, MaxIsLargest
  <2>3. kv.cap > 0
    BY <1>1, <1>2, <1>3
  <2> QED
    BY <2>1, <2>2, <2>3
<1>5. Room(kv, maxEnd, n)
  <2> HIDE DEF maxEnd, n
  <2>1. maxEnd <= kv.cap
    BY <1>2, <1>4
  <2> QED
    BY <2>1, <1>4 DEF Room, n
<1>6. CASE \E s \in 1 .. n : ends[s] > Capacity
  <2>1. Refuse("context_length")
    BY <1>6 DEF ForwardImpl
  <2> QED
    BY <2>1 DEF Refuse
<1>7. CASE ~ \E s \in 1 .. n : ends[s] > Capacity
  <2>1. kv' = Appended(EnsureKv(kv, maxEnd, n), starts, batch, rots)
    BY <1>7 DEF ForwardImpl
  <2> HIDE DEF maxEnd, n
  <2>2. EnsureKv(kv, maxEnd, n) = kv
    BY <1>5 DEF EnsureKv
  <2> QED
    BY <1>2, <2>1, <2>2, AppendedIsSlab
<1> QED
  BY <1>6, <1>7

LEMMA PositionIsNumber ==
  ASSUME IInv, position \in Nat, Next
  PROVE  position' \in Nat
<1>1. ASSUME NEW batch \in Batches, NEW starts, NEW rots,
             \A s \in 1 .. Len(batch) : starts[s] \in Nat, ForwardImpl(starts, batch, rots)
      PROVE  position' \in Nat
  <2>1. batch \in Seq(Runs) /\ batch # << >>
    BY DEF Batches
  <2>2. Len(batch) \in Nat \ {0} /\ Len(batch[1]) \in Nat
    BY <2>1 DEF Runs
  <2>3. Refuse("context_length") \/ Ran(starts, batch)
    BY <1>1, ForwardImplDoes
  <2> QED
    BY <1>1, <2>2, <2>3 DEF Refuse, Ran
<1>2. ASSUME NEW run \in Runs, Forward(run) PROVE position' \in Nat
  <2>1. CASE position = seqLen[1]
    <3> DEFINE rots == Plain(<<position>>, <<run>>)
    <3>1. ForwardImpl(<<position>>, <<run>>, rots)
      BY <1>2, <2>1 DEF Forward
    <3>2. <<run>> \in Batches /\ \A s \in 1 .. Len(<<run>>) : <<position>>[s] \in Nat
      BY SingleBatch
    <3> HIDE DEF rots
    <3> QED
      BY <1>1, <3>1, <3>2
  <2> QED
    BY <1>2, <2>1 DEF Forward, Refuse
<1>3. ASSUME NEW run \in Runs, NEW start \in Nat, NEW rots \in Turns, ForwardTurned(run, start, rots)
      PROVE position' \in Nat
  <2>1. CASE start = seqLen[1]
    <3>1. ForwardImpl(<<start>>, <<run>>, <<rots>>)
      BY <1>3, <2>1 DEF ForwardTurned
    <3>2. <<run>> \in Batches /\ Len(<<run>>) = 1
      BY SingleBatch
    <3>3. \A s \in 1 .. Len(<<run>>) : <<start>>[s] \in Nat
      OBVIOUS
    <3> QED
      BY <1>1, <3>1, <3>2, <3>3
  <2> QED
    BY <1>3, <2>1 DEF ForwardTurned, Refuse
<1>4. ASSUME NEW batch \in Batches, ForwardBatch(batch) PROVE position' \in Nat
  <2> DEFINE starts == [s \in 1 .. Len(batch) |-> IF s <= Len(seqLen) THEN seqLen[s] ELSE 0]
             rots == Plain(starts, batch)
  <2>1. ForwardImpl(starts, batch, rots)
    BY <1>4 DEF ForwardBatch
  <2>2. \A s \in 1 .. Len(batch) : starts[s] \in Nat
    <3>1. Len(seqLen) \in Nat
      BY DEF IInv
    <3> QED
      BY <3>1, LengthsAreNumbers
  <2> HIDE DEF starts, rots
  <2> QED
    BY <1>1, <2>1, <2>2
<1>5. ASSUME NEW positions \in Nat, NEW slots \in Nat, Reserve(positions, slots) PROVE position' \in Nat
  BY <1>5 DEF Reserve, Refuse
<1>6. ASSUME Reset PROVE position' \in Nat
  BY <1>6 DEF Reset
<1> QED
  BY <1>2, <1>3, <1>4, <1>5, <1>6 DEF Next

LEMMA JobMade ==
  ASSUME NEW slot \in 1 .. MaxBatch, NEW prompt \in Prompts, NEW max \in MaxTokens \cup {0},
         round \in {0, 1}
  PROVE  LET job == Job(slot, prompt, max)
         IN  /\ job \in JobRecord /\ Fresh(job)
             /\ job.prompt = prompt /\ job.asked = max /\ job.budget = Budget(prompt, max)
<1>1. MaxBatch \in Nat /\ prompt \in Nat \ {0} /\ max \in Nat /\ Capacity \in Nat
  BY ServingAssumption, KvAssumption
<1>2. Budget(prompt, max) \in Nat \ {0}
  BY <1>1 DEF Budget, Larger
<1>3. slot + round * MaxBatch \in 1 .. 2 * MaxBatch
  <2>1. CASE round = 0
    BY <1>1, <2>1
  <2>2. CASE round = 1
    BY <1>1, <2>2
  <2> QED
    BY <2>1, <2>2
<1> QED
  BY <1>2, <1>3 DEF Job, JobRecord, Fresh

(* A job that advances and is not done has one token more and budget left. *)
LEMMA AdvanceMakes ==
  ASSUME NEW job \in JobRecord, NEW ends \in BOOLEAN
  PROVE  LET after == Advance(job, ends)
         IN  /\ after \in JobRecord /\ after.made = job.made + 1
             /\ after.prompt = job.prompt /\ after.asked = job.asked /\ after.budget = job.budget
             /\ ~after.done => after.made < after.budget
<1>1. job.made \in Nat /\ job.budget \in Nat
  BY DEF JobRecord
<1> DEFINE done == ends \/ job.made + 1 >= job.budget
           after == [job EXCEPT !.made = job.made + 1, !.done = done]
<1>2. done \in BOOLEAN /\ (~done => job.made + 1 < job.budget)
  BY <1>1
<1>3. Advance(job, ends) = after
  BY DEF Advance
<1> HIDE DEF done
<1>4. /\ after \in JobRecord /\ after.made = job.made + 1 /\ after.done = done
      /\ after.prompt = job.prompt /\ after.asked = job.asked /\ after.budget = job.budget
  <2> DEFINE made == job.made + 1
  <2>1. made \in Nat
    BY <1>1
  <2> HIDE DEF made
  <2>2. after = [job EXCEPT !.made = made, !.done = done]
    BY DEF made
  <2>3. after \in JobRecord
    BY <1>2, <2>1, <2>2, Zenon DEF JobRecord
  <2>4. /\ after.made = made /\ after.done = done
        /\ after.prompt = job.prompt /\ after.asked = job.asked /\ after.budget = job.budget
    BY <2>2 DEF JobRecord
  <2> QED
    BY <2>3, <2>4 DEF made
<1> HIDE DEF after
<1>5. ~after.done => after.made < after.budget
  BY <1>2, <1>4, Zenon
<1> QED
  BY <1>3, <1>4, <1>5, Zenon

LEMMA FinishKeeps ==
  ASSUME Finish, round' \in {0, 1}
  PROVE  ServingInv'
<1>1. << >> \in Seq(JobRecord) /\ Len(<< >>) = 0
  OBVIOUS
<1> QED
  BY <1>1, ServingAssumption DEF Finish, ServingInv, ServingTypes

LEMMA SerialStartKeeps ==
  ASSUME HInv, SerialStart
  PROVE  ServingInv' /\ position' \in Nat
<1>1. /\ phase = "idle" /\ jobs = << >> /\ ServingTypes
      /\ position' = 0 /\ seqLen' = << 0 >> /\ round' = 1 - round
      /\ UNCHANGED <<groupSteps, steps>>
  BY DEF SerialStart, Reset, HInv, ServingInv
<1>2. round \in {0, 1} /\ round' \in {0, 1}
  BY <1>1 DEF ServingTypes
<1>3. PICK prompt \in Prompts, max \in MaxTokens \cup {0} :
        IF prompt >= Capacity THEN UNCHANGED <<phase, jobs>>
        ELSE phase' = "serial" /\ jobs' = <<Job(1, prompt, max)>>
  BY DEF SerialStart
<1>4. CASE prompt >= Capacity
  BY <1>1, <1>2, <1>3, <1>4 DEF ServingInv, ServingTypes
<1>5. CASE ~(prompt >= Capacity)
  <2> DEFINE job == Job(1, prompt, max)
  <2>1. phase' = "serial" /\ jobs' = <<job>>
    BY <1>3, <1>5
  <2>2. /\ job \in JobRecord /\ Fresh(job)
        /\ job.prompt = prompt /\ job.asked = max /\ job.budget = Budget(prompt, max)
    BY <1>2, JobMade, ServingAssumption
  <2> HIDE DEF job
  <2>3. jobs' \in Seq(JobRecord) /\ Len(jobs') = 1 /\ jobs'[1] = job
    BY <2>1, <2>2
  <2>4. ServingTypes'
    BY <1>1, <1>2, <2>1, <2>3, ServingAssumption DEF ServingTypes
  <2>5. prompt < Capacity
    BY <1>5, ServingAssumption, KvAssumption
  <2>6. job.made = 0 /\ ~job.done /\ job.made < job.budget
    BY <2>2 DEF Fresh, JobRecord
  <2>7. Len(seqLen') = 1 /\ position' = seqLen'[1] /\ seqLen'[1] = 0
    BY <1>1
  <2>8. SerialInPlace'
    BY <2>2, <2>3, <2>5, <2>6, <2>7 DEF SerialInPlace, Budget
  <2> QED
    BY <1>1, <2>1, <2>4, <2>8 DEF ServingInv
<1> QED
  BY <1>4, <1>5

(* One sequence, from where the conversation is.                           *)
LEMMA OneForward ==
  ASSUME IInv, position = seqLen[1], NEW run \in Runs, Forward(run)
  PROVE  /\ position \in Nat /\ Len(run) \in Nat \ {0}
         /\ \/ position + Len(run) > Capacity /\ Refuse("context_length")
            \/ /\ position + Len(run) <= Capacity /\ reply' = "ok"
               /\ seqLen' = <<position + Len(run)>> /\ position' = position + Len(run)
<1> DEFINE batch == <<run>>
           starts == <<position>>
           rots == Plain(starts, batch)
<1>1. position \in Nat
  BY SeqLenStart
<1>2. Len(run) \in Nat \ {0}
  BY DEF Runs
<1>3. /\ batch \in Batches /\ Len(batch) = 1 /\ batch[1] = run
      /\ \A s \in 1 .. Len(batch) : starts[s] \in Nat
  BY <1>1, SingleBatch
<1>4. ForwardImpl(starts, batch, rots)
  BY DEF Forward
<1>5. starts[1] = position
  OBVIOUS
<1> HIDE DEF batch, starts, rots
<1>6. CASE Refuse("context_length") /\ \E s \in 1 .. Len(batch) : starts[s] + Len(batch[s]) > Capacity
  BY <1>1, <1>2, <1>3, <1>5, <1>6
<1>7. CASE Ran(starts, batch)
  <2>1. seqLen' = [s \in 1 .. 1 |-> position + Len(run)]
    BY <1>3, <1>5, <1>7 DEF Ran
  <2>2. seqLen' = <<position + Len(run)>>
    BY <2>1
  <2> QED
    BY <1>1, <1>2, <1>3, <1>5, <1>7, <2>2 DEF Ran
<1> QED
  BY <1>3, <1>4, <1>6, <1>7, ForwardImplDoes

LEMMA SerialTokenKeeps ==
  ASSUME HInv, SerialToken
  PROVE  /\ ServingInv' /\ position' \in Nat
         /\ reply' # "ok" => /\ reply' = "context_length"
                             /\ jobs[1].prompt + jobs[1].asked > Capacity + 1
<1> DEFINE job == jobs[1]
           run == IF job.made = 0 THEN Prompt(job) ELSE <<job.tok>>
<1>1. phase = "serial" /\ SerialInPlace /\ ServingTypes /\ IInv /\ Forward(run) /\ round' = round
  BY DEF SerialToken, HInv, ServingInv
<1>2. job \in JobRecord
  BY <1>1, JobsAreJobs DEF SerialInPlace
<1>3. /\ job.prompt \in Nat \ {0} /\ job.made \in Nat /\ job.budget \in Nat \ {0} /\ job.asked \in Nat
      /\ Capacity \in Nat
  <2> HIDE DEF job
  <2> QED
    BY <1>2, JobFields, KvAssumption
<1>4. /\ ~job.done /\ job.made < job.budget /\ job.prompt < Capacity
      /\ job.budget = Budget(job.prompt, job.asked)
      /\ position = seqLen[1] /\ position = IF job.made = 0 THEN 0 ELSE job.prompt + job.made - 1
  BY <1>1 DEF SerialInPlace
<1>5. round' \in {0, 1}
  BY <1>1 DEF ServingTypes
<1>6. IF reply' = "ok"
      THEN \E ends \in BOOLEAN :
             LET after == Advance(job, ends)
             IN  IF after.done THEN Finish
                 ELSE jobs' = <<after>> /\ UNCHANGED <<phase, groupSteps, steps>>
      ELSE Finish
  BY DEF SerialToken
<1> HIDE DEF job
<1>7. run \in Runs /\ Len(run) = IF job.made = 0 THEN job.prompt ELSE 1
  BY <1>2, SerialRun
<1> HIDE DEF run
<1>8. position + Len(run) = job.prompt + job.made
  BY <1>3, <1>4, <1>7
<1>9. CASE job.prompt + job.made > Capacity /\ Refuse("context_length")
  <2>1. reply' = "context_length" /\ position' = position
    BY <1>9 DEF Refuse
  <2>2. Finish
    BY <1>6, <2>1
  <2>3. job.asked # 0
    <3>1. CASE job.asked = 0
      BY <1>3, <1>4, <1>9, <3>1 DEF Budget, Larger
    <3> QED
      BY <3>1
  <2>4. job.budget = job.asked
    BY <1>4, <2>3 DEF Budget
  <2>5. job.prompt + job.asked > Capacity + 1
    BY <1>3, <1>4, <1>9, <2>4
  <2>6. position' \in Nat
    BY <2>1 DEF HInv
  <2> QED
    BY <1>5, <2>1, <2>2, <2>5, <2>6, FinishKeeps DEF job
<1>10. CASE /\ job.prompt + job.made <= Capacity /\ reply' = "ok"
            /\ seqLen' = <<job.prompt + job.made>> /\ position' = job.prompt + job.made
  <2>1. PICK ends \in BOOLEAN :
          LET after == Advance(job, ends)
          IN  IF after.done THEN Finish
              ELSE jobs' = <<after>> /\ UNCHANGED <<phase, groupSteps, steps>>
    BY <1>6, <1>10
  <2> DEFINE after == Advance(job, ends)
  <2>2. /\ after \in JobRecord /\ after.made = job.made + 1
        /\ after.prompt = job.prompt /\ after.asked = job.asked /\ after.budget = job.budget
        /\ ~after.done => after.made < after.budget
    BY <1>2, AdvanceMakes
  <2>3. position' \in Nat
    BY <1>3, <1>10
  <2>4. CASE after.done
    BY <1>5, <1>10, <2>1, <2>3, <2>4, FinishKeeps
  <2>5. CASE ~after.done
    <3>1. jobs' = <<after>> /\ UNCHANGED <<phase, groupSteps, steps>>
      BY <2>1, <2>5
    <3> HIDE DEF after
    <3>2. jobs' \in Seq(JobRecord) /\ Len(jobs') = 1 /\ jobs'[1] = after
      BY <2>2, <3>1
    <3>3. ServingTypes'
      BY <1>1, <1>5, <3>1, <3>2, ServingAssumption DEF ServingTypes
    <3>4. Len(seqLen') = 1 /\ seqLen'[1] = job.prompt + job.made
      BY <1>10
    <3>5. after.made # 0 /\ seqLen'[1] = after.prompt + after.made - 1
      BY <1>3, <2>2, <3>4
    <3>6. SerialInPlace'
      BY <1>4, <1>10, <2>2, <2>5, <3>2, <3>4, <3>5 DEF SerialInPlace, Budget
    <3> QED
      BY <1>1, <1>10, <2>3, <3>1, <3>3, <3>6 DEF ServingInv
  <2> QED
    BY <2>4, <2>5
<1> QED
  BY <1>1, <1>4, <1>7, <1>8, <1>9, <1>10, OneForward

LEMMA JobsMade ==
  ASSUME ServingTypes, NEW n \in 2 .. MaxBatch, NEW prompts \in [1 .. n -> Prompts],
         NEW max \in MaxTokens \cup {0}
  PROVE  LET made == [s \in 1 .. n |-> Job(s, prompts[s], max)]
         IN  made \in Seq(JobRecord) /\ Len(made) = n /\ \A s \in 1 .. n : Fresh(made[s])
<1>1. \A s \in 1 .. n : Job(s, prompts[s], max) \in JobRecord /\ Fresh(Job(s, prompts[s], max))
  <2> SUFFICES ASSUME NEW s \in 1 .. n
               PROVE  Job(s, prompts[s], max) \in JobRecord /\ Fresh(Job(s, prompts[s], max))
    OBVIOUS
  <2>1. s \in 1 .. MaxBatch /\ prompts[s] \in Prompts /\ round \in {0, 1}
    BY ServingAssumption DEF ServingTypes
  <2> QED
    BY <2>1, JobMade
<1> DEFINE made == [s \in 1 .. n |-> Job(s, prompts[s], max)]
<1>2. made \in [1 .. n -> JobRecord] /\ n \in Nat
  BY <1>1
<1>3. made \in Seq(JobRecord) /\ Len(made) = n
  BY <1>2, FunctionIsSeq
<1> QED
  BY <1>1, <1>3

LEMMA GroupStartKeeps ==
  ASSUME HInv, GroupStart
  PROVE  ServingInv' /\ position' \in Nat
<1>1. /\ ServingTypes /\ phase' = "reserve" /\ position' = 0 /\ seqLen' = << 0 >>
      /\ round' = 1 - round /\ UNCHANGED <<groupSteps, steps>>
  BY DEF GroupStart, Reset, HInv, ServingInv
<1>2. PICK n \in 2 .. MaxBatch : \E prompts \in [1 .. n -> Prompts], max \in MaxTokens \cup {0} :
        jobs' = [s \in 1 .. n |-> Job(s, prompts[s], max)]
  BY DEF GroupStart
<1>3. jobs' \in Seq(JobRecord) /\ Len(jobs') = n /\ \A s \in 1 .. n : Fresh(jobs'[s])
  <2>1. PICK prompts \in [1 .. n -> Prompts], max \in MaxTokens \cup {0} :
          jobs' = [s \in 1 .. n |-> Job(s, prompts[s], max)]
    BY <1>2
  <2> QED
    BY <1>1, <2>1, JobsMade
<1>4. round' \in {0, 1}
  BY <1>1 DEF ServingTypes
<1>5. ServingTypes'
  BY <1>1, <1>3, <1>4, ServingAssumption DEF ServingTypes
<1>6. GroupStarts'
  BY <1>1, <1>3, ServingAssumption DEF GroupStarts, Fresh
<1> QED
  BY <1>1, <1>5, <1>6 DEF ServingInv

(* After a reservation that is not refused the slabs hold what it asked for. *)
LEMMA ReserveDoes ==
  ASSUME IInv, NEW positions \in Nat, NEW slots \in Nat, Reserve(positions, slots)
  PROVE  \/ Refuse("context_length") /\ positions > Capacity
         \/ /\ positions <= Capacity /\ reply' = "ok" /\ position' = 0 /\ UNCHANGED <<layers, seqLen>>
            /\ kv'.cap >= positions /\ kv'.slots >= slots
<1> DEFINE grown == GrowTo(Larger(kv.cap, InitialPositions), positions)
<1>1. CASE positions > Capacity
  BY <1>1 DEF Reserve
<1>2. CASE ~(positions > Capacity)
  <2>1. positions <= Capacity
    BY <1>2, KvAssumption
  <2>2. kv.cap \in Nat /\ kv.slots \in Nat /\ Larger(kv.cap, InitialPositions) \in Nat
    BY KvAssumption DEF IInv, SlabOK, Larger
  <2>3. grown \in Nat /\ grown >= positions
    BY <2>1, <2>2, GrowToReaches
  <2>4. /\ IF kv.cap > 0 /\ grown <= kv.cap /\ slots <= kv.slots
           THEN UNCHANGED <<kv, ropeRows>>
           ELSE kv' = Empty(grown, slots) /\ ropeRows' = GrowRope(positions)
        /\ reply' = "ok" /\ position' = 0 /\ UNCHANGED <<layers, seqLen>>
    BY <1>2 DEF Reserve
  <2> HIDE DEF grown
  <2>5. CASE kv.cap > 0 /\ grown <= kv.cap /\ slots <= kv.slots
    BY <2>1, <2>2, <2>3, <2>4, <2>5
  <2>6. CASE ~(kv.cap > 0 /\ grown <= kv.cap /\ slots <= kv.slots)
    <3>1. kv' = Empty(grown, slots)
      BY <2>4, <2>6
    <3>2. kv'.cap = grown /\ kv'.slots = slots
      BY <3>1, <2>3, EmptyIsSlab
    <3> QED
      BY <2>1, <2>3, <2>4, <3>2
  <2> QED
    BY <2>5, <2>6
<1> QED
  BY <1>1, <1>2

(* The largest prompt of the group bounds the others.                      *)
LEMMA LongestPrompt ==
  ASSUME ServingTypes, Len(jobs) >= 2, \A s \in 1 .. Len(jobs) : jobs[s].prompt + 1 <= Window
  PROVE  LET longest == Max({jobs[s].prompt : s \in 1 .. Len(jobs)})
         IN  /\ longest \in Nat /\ longest + 1 <= Window
             /\ \A s \in 1 .. Len(jobs) : jobs[s].prompt <= longest
<1> DEFINE T == {jobs[s].prompt : s \in 1 .. Len(jobs)}
<1>1. Len(jobs) \in Nat /\ \A s \in 1 .. Len(jobs) : jobs[s].prompt \in Nat
  BY JobsAreJobs, JobFields
<1>2. T \subseteq 0 .. Window
  BY <1>1, ServingAssumption
<1>3. T # {}
  <2>1. jobs[1].prompt \in T
    BY <1>1
  <2> QED
    BY <2>1
<1>4. Max(T) \in T /\ \A y \in T : y <= Max(T)
  <2> HIDE DEF T
  <2> QED
    BY <1>2, <1>3, ServingAssumption, MaxIsLargest
<1>5. PICK s \in 1 .. Len(jobs) : Max(T) = jobs[s].prompt
  BY <1>4
<1> QED
  BY <1>1, <1>4, <1>5

(* The share of the window a member's budget is cut to.                    *)
LEMMA CutJob ==
  ASSUME NEW job \in JobRecord, NEW left \in Nat \ {0}
  PROVE  LET cut == [job EXCEPT !.budget = GroupBudget(job, left)]
         IN  /\ cut \in JobRecord /\ cut.budget <= left
             /\ cut.prompt = job.prompt /\ (Fresh(job) => Fresh(cut))
<1> DEFINE budget == GroupBudget(job, left)
           cut == [job EXCEPT !.budget = budget]
<1>1. budget \in Nat \ {0} /\ budget <= left
  BY JobFields DEF GroupBudget, Larger, Smaller
<1> HIDE DEF budget
<1>2. cut \in JobRecord
  BY <1>1, Zenon DEF JobRecord
<1>3. cut.budget = budget /\ cut.prompt = job.prompt /\ cut.made = job.made /\ cut.done = job.done
  BY DEF JobRecord
<1> HIDE DEF cut
<1>4. Fresh(job) => Fresh(cut)
  BY <1>3, Zenon DEF Fresh
<1> QED
  BY <1>1, <1>2, <1>3, <1>4 DEF cut, budget

LEMMA GroupReserveKeeps ==
  ASSUME HInv, GroupReserve
  PROVE  ServingInv' /\ position' \in Nat
<1> DEFINE longest == Max({jobs[s].prompt : s \in 1 .. Len(jobs)})
           left == Window - longest
<1>1. /\ phase = "reserve" /\ IInv /\ ServingTypes /\ GroupStarts /\ round' = round /\ position \in Nat
      /\ Reserve(Window, MaxBatch)
      /\ IF reply' # "ok" \/ \E s \in 1 .. Len(jobs) : jobs[s].prompt + 1 > Window
         THEN Finish
         ELSE /\ groupSteps' = left
              /\ jobs' = [s \in 1 .. Len(jobs) |->
                   [jobs[s] EXCEPT !.budget = GroupBudget(jobs[s], left)]]
              /\ phase' = "prefill"
              /\ UNCHANGED steps
  BY DEF GroupReserve, HInv, ServingInv
<1>2. round' \in {0, 1}
  BY <1>1 DEF ServingTypes
<1>3. Window \in Nat /\ MaxBatch \in Nat
  BY ServingAssumption
<1>4. position' \in Nat
  BY <1>1, <1>3, ReserveDoes DEF Refuse
<1>5. CASE reply' # "ok" \/ \E s \in 1 .. Len(jobs) : jobs[s].prompt + 1 > Window
  BY <1>1, <1>2, <1>4, <1>5, FinishKeeps
<1>6. CASE ~(reply' # "ok" \/ \E s \in 1 .. Len(jobs) : jobs[s].prompt + 1 > Window)
  <2>1. /\ Window <= Capacity /\ kv'.cap >= Window /\ kv'.slots >= MaxBatch /\ seqLen' = seqLen
    BY <1>1, <1>3, <1>6, ReserveDoes DEF Refuse
  <2>2. \A s \in 1 .. Len(jobs) : jobs[s] \in JobRecord /\ jobs[s].prompt \in Nat
    BY <1>1, JobsAreJobs, JobFields
  <2>3. \A s \in 1 .. Len(jobs) : jobs[s].prompt + 1 <= Window
    BY <1>3, <1>6, <2>2
  <2>4. /\ longest \in Nat /\ longest + 1 <= Window
        /\ \A s \in 1 .. Len(jobs) : jobs[s].prompt <= longest
    BY <1>1, <2>3, LongestPrompt DEF GroupStarts
  <2> HIDE DEF longest
  <2>5. left \in Nat \ {0} /\ \A s \in 1 .. Len(jobs) : jobs[s].prompt + left <= Window
    BY <1>3, <2>2, <2>4
  <2>6. /\ groupSteps' = left /\ phase' = "prefill" /\ steps' = steps
        /\ jobs' = [s \in 1 .. Len(jobs) |-> [jobs[s] EXCEPT !.budget = GroupBudget(jobs[s], left)]]
    BY <1>1, <1>6
  <2> HIDE DEF left
  <2>7. \A s \in 1 .. Len(jobs) :
          LET cut == [jobs[s] EXCEPT !.budget = GroupBudget(jobs[s], left)]
          IN  /\ cut \in JobRecord /\ cut.budget <= left
              /\ cut.prompt = jobs[s].prompt /\ (Fresh(jobs[s]) => Fresh(cut))
    BY <2>2, <2>5, CutJob
  <2>8. /\ jobs' \in [1 .. Len(jobs) -> JobRecord]
        /\ \A s \in 1 .. Len(jobs) : /\ jobs'[s].budget <= left /\ jobs'[s].prompt = jobs[s].prompt
                                     /\ Fresh(jobs[s]) => Fresh(jobs'[s])
    BY <2>6, <2>7
  <2>9. Len(jobs) \in Nat /\ Len(jobs) >= 2 /\ Len(jobs) <= MaxBatch
    BY <1>1 DEF ServingTypes, GroupStarts
  <2>10. jobs' \in Seq(JobRecord) /\ Len(jobs') = Len(jobs)
    BY <2>8, <2>9, FunctionIsSeq
  <2>11. ServingTypes'
    BY <1>1, <1>2, <2>5, <2>6, <2>9, <2>10 DEF ServingTypes
  <2>12. GroupStarts'
    <3>1. \A s \in 1 .. Len(jobs') : Fresh(jobs'[s])
      BY <1>1, <2>8, <2>10 DEF GroupStarts
    <3> QED
      BY <1>1, <2>1, <2>9, <2>10, <3>1 DEF GroupStarts, Fresh
  <2>13. GroupHasRoom'
    BY <2>1, <2>5, <2>6, <2>8, <2>10 DEF GroupHasRoom
  <2> QED
    BY <1>4, <2>6, <2>11, <2>12, <2>13 DEF ServingInv
<1> QED
  BY <1>5, <1>6

(* A group takes its step: it ends, or the members that are left have one
   token more and budget left.                                             *)
LEMMA LiveAdvance ==
  ASSUME ServingTypes, Len(jobs) >= 2, AdvanceLive
  PROVE  \/ Finish
         \/ /\ jobs' \in Seq(JobRecord) /\ Len(jobs') = Len(jobs)
            /\ phase' = "decode" /\ groupSteps' = groupSteps
            /\ steps' = IF phase = "decode" THEN steps + 1 ELSE 0
            /\ \A s \in 1 .. Len(jobs) :
                 /\ jobs'[s].prompt = jobs[s].prompt /\ jobs'[s].budget = jobs[s].budget
                 /\ ~jobs'[s].done => /\ ~jobs[s].done /\ jobs'[s].made = jobs[s].made + 1
                                      /\ jobs'[s].made < jobs'[s].budget
            /\ \E s \in 1 .. Len(jobs) : ~jobs'[s].done
<1>1. PICK ends \in [1 .. Len(jobs) -> BOOLEAN] :
        LET after == [s \in 1 .. Len(jobs) |->
                        IF jobs[s].done THEN jobs[s] ELSE Advance(jobs[s], ends[s])]
        IN  IF \A s \in 1 .. Len(jobs) : after[s].done
            THEN Finish
            ELSE /\ jobs' = after /\ phase' = "decode"
                 /\ steps' = IF phase = "decode" THEN steps + 1 ELSE 0
                 /\ UNCHANGED groupSteps
  BY DEF AdvanceLive
<1> DEFINE next(s) == IF jobs[s].done THEN jobs[s] ELSE Advance(jobs[s], ends[s])
           after == [s \in 1 .. Len(jobs) |-> next(s)]
<1>2. CASE \A s \in 1 .. Len(jobs) : after[s].done
  BY <1>1, <1>2
<1>3. CASE ~ \A s \in 1 .. Len(jobs) : after[s].done
  <2>1. /\ jobs' = after /\ phase' = "decode"
        /\ steps' = IF phase = "decode" THEN steps + 1 ELSE 0
        /\ UNCHANGED groupSteps
    BY <1>1, <1>3
  <2>2. ASSUME NEW s \in 1 .. Len(jobs)
        PROVE  /\ next(s) \in JobRecord
               /\ next(s).prompt = jobs[s].prompt /\ next(s).budget = jobs[s].budget
               /\ ~next(s).done => /\ ~jobs[s].done /\ next(s).made = jobs[s].made + 1
                                   /\ next(s).made < next(s).budget
    <3>1. jobs[s] \in JobRecord /\ ends[s] \in BOOLEAN
      BY <2>2, JobsAreJobs
    <3>2. CASE jobs[s].done
      BY <3>1, <3>2
    <3>3. CASE ~jobs[s].done
      <4>1. next(s) = Advance(jobs[s], ends[s])
        BY <3>3
      <4> HIDE DEF next
      <4> QED
        BY <3>1, <3>3, <4>1, AdvanceMakes
    <3> QED
      BY <3>2, <3>3
  <2> HIDE DEF next
  <2>3. after \in [1 .. Len(jobs) -> JobRecord] /\ \A s \in 1 .. Len(jobs) : after[s] = next(s)
    BY <2>2
  <2>4. PICK s \in 1 .. Len(jobs) : ~after[s].done
    BY <1>3
  <2> HIDE DEF after
  <2>5. jobs' \in Seq(JobRecord) /\ Len(jobs') = Len(jobs)
    BY <2>1, <2>3, JobsAreJobs, FunctionIsSeq
  <2> QED
    BY <2>1, <2>2, <2>3, <2>4, <2>5
<1> QED
  BY <1>2, <1>3

(* Where sequence s of a batch begins.                                     *)
StartOf(s) == IF s <= Len(seqLen) THEN seqLen[s] ELSE 0

LEMMA StartsAreNumbers ==
  ASSUME IInv, NEW n \in Nat
  PROVE  \A s \in 1 .. n : StartOf(s) \in Nat
<1>1. Len(seqLen) \in Nat
  BY DEF IInv
<1> QED
  BY <1>1, LengthsAreNumbers DEF StartOf

(* A batch with room in the slabs and in the context runs as it is.        *)
LEMMA BatchWithRoom ==
  ASSUME IInv, NEW batch \in Batches, Len(batch) <= kv.slots,
         \A s \in 1 .. Len(batch) : /\ StartOf(s) + Len(batch[s]) <= kv.cap
                                    /\ StartOf(s) + Len(batch[s]) <= Capacity,
         ForwardBatch(batch)
  PROVE  /\ kv'.cap = kv.cap /\ kv'.slots = kv.slots /\ reply' = "ok"
         /\ seqLen' = [s \in 1 .. Len(batch) |-> StartOf(s) + Len(batch[s])]
         /\ position' \in Nat
<1> DEFINE starts == [s \in 1 .. Len(batch) |-> StartOf(s)]
           rots == Plain(starts, batch)
<1>1. ForwardImpl(starts, batch, rots)
  BY DEF ForwardBatch, StartOf
<1>2. batch \in Seq(Runs) /\ Len(batch) \in Nat \ {0}
  BY DEF Batches
<1>3. \A s \in 1 .. Len(batch) : starts[s] = StartOf(s) /\ starts[s] \in Nat /\ Len(batch[s]) \in Nat
  <2>1. \A s \in 1 .. Len(batch) : batch[s] \in Seq(Tokens)
    BY <1>2 DEF Runs
  <2>2. \A s \in 1 .. Len(batch) : StartOf(s) \in Nat
    BY <1>2, StartsAreNumbers
  <2> QED
    BY <2>1, <2>2
<1> HIDE DEF starts, rots
<1>4. kv'.cap = kv.cap /\ kv'.slots = kv.slots
  BY <1>1, <1>3, RoomStays
<1>5. Ran(starts, batch)
  <2>1. ~ \E s \in 1 .. Len(batch) : starts[s] + Len(batch[s]) > Capacity
    BY <1>3, KvAssumption
  <2> QED
    BY <1>1, <1>3, <2>1, ForwardImplDoes
<1>6. position' \in Nat
  BY <1>2, <1>3, <1>5 DEF Ran
<1> QED
  BY <1>3, <1>4, <1>5, <1>6 DEF Ran

(* The reservation is as it was, and the call was not refused.             *)
ExtentsStay == kv'.cap = kv.cap /\ kv'.slots = kv.slots /\ reply' = "ok"

LEMMA GroupPrefillKeeps ==
  ASSUME HInv, GroupPrefill
  PROVE  ServingInv' /\ position' \in Nat /\ ExtentsStay
<1>1. /\ phase = "prefill" /\ IInv /\ ServingTypes /\ GroupStarts /\ GroupHasRoom
      /\ ForwardBatch(PromptBatch) /\ round' = round
      /\ IF reply' = "ok" THEN AdvanceLive ELSE Finish
  BY DEF GroupPrefill, PromptBatch, HInv, ServingInv
<1>2. Len(jobs) \in Nat /\ Len(jobs) >= 2 /\ Len(jobs) <= MaxBatch /\ seqLen = << 0 >>
  BY <1>1 DEF GroupStarts, ServingTypes
<1>3. /\ PromptBatch \in Batches /\ Len(PromptBatch) = Len(jobs)
      /\ \A s \in 1 .. Len(jobs) : Len(PromptBatch[s]) = jobs[s].prompt
  BY <1>1, <1>2, GroupBatches
<1>4. \A s \in 1 .. Len(jobs) : /\ jobs[s].prompt \in Nat \ {0} /\ jobs[s].made \in Nat
                                /\ jobs[s].budget \in Nat
  BY <1>1, JobsAreJobs, JobFields
<1>5. /\ Window \in Nat /\ MaxBatch \in Nat /\ Capacity \in Nat /\ kv.cap \in Nat /\ kv.slots \in Nat
      /\ groupSteps \in Nat \ {0}
      /\ Window <= Capacity /\ kv.cap >= Window /\ kv.slots >= MaxBatch
      /\ \A s \in 1 .. Len(jobs) : /\ jobs[s].prompt + groupSteps <= Window
                                   /\ jobs[s].budget <= groupSteps
  BY <1>1, ServingAssumption, KvAssumption DEF GroupHasRoom, IInv, SlabOK
<1>6. \A s \in 1 .. Len(jobs) : StartOf(s) = 0
  BY <1>2 DEF StartOf
<1>7. /\ kv'.cap = kv.cap /\ kv'.slots = kv.slots /\ reply' = "ok"
      /\ seqLen' = [s \in 1 .. Len(jobs) |-> StartOf(s) + Len(PromptBatch[s])]
      /\ position' \in Nat
  <2>1. Len(PromptBatch) <= kv.slots
    BY <1>2, <1>3, <1>5
  <2>2. ASSUME NEW s \in 1 .. Len(PromptBatch)
        PROVE  StartOf(s) + Len(PromptBatch[s]) <= kv.cap /\ StartOf(s) + Len(PromptBatch[s]) <= Capacity
    <3>1. s \in 1 .. Len(jobs)
      BY <1>3
    <3>2. StartOf(s) + Len(PromptBatch[s]) = jobs[s].prompt
      BY <1>3, <1>4, <1>6, <3>1
    <3> DEFINE prompt == jobs[s].prompt
    <3>3. prompt \in Nat /\ prompt + groupSteps <= Window
      BY <1>4, <1>5, <3>1
    <3>4. /\ Window \in Nat /\ Capacity \in Nat /\ kv.cap \in Nat /\ groupSteps \in Nat
          /\ Window <= Capacity /\ kv.cap >= Window
      BY <1>5
    <3> HIDE DEF prompt
    <3>5. prompt <= kv.cap /\ prompt <= Capacity
      BY <3>3, <3>4
    <3> QED
      BY <3>2, <3>5 DEF prompt
  <2> QED
    BY <1>1, <1>3, <2>1, <2>2, BatchWithRoom
<1>8. round' \in {0, 1}
  BY <1>1 DEF ServingTypes
<1>9. CASE Finish
  BY <1>7, <1>8, <1>9, FinishKeeps DEF ExtentsStay
<1>10. CASE ~Finish
  <2>1. /\ jobs' \in Seq(JobRecord) /\ Len(jobs') = Len(jobs)
        /\ phase' = "decode" /\ groupSteps' = groupSteps /\ steps' = 0
        /\ \A s \in 1 .. Len(jobs) :
             /\ jobs'[s].prompt = jobs[s].prompt /\ jobs'[s].budget = jobs[s].budget
             /\ ~jobs'[s].done => /\ ~jobs[s].done /\ jobs'[s].made = jobs[s].made + 1
                                  /\ jobs'[s].made < jobs'[s].budget
        /\ \E s \in 1 .. Len(jobs) : ~jobs'[s].done
    BY <1>1, <1>2, <1>7, <1>10, LiveAdvance
  <2>2. ServingTypes'
    BY <1>1, <1>2, <1>8, <2>1 DEF ServingTypes
  <2>3. GroupHasRoom'
    BY <1>5, <1>7, <2>1 DEF GroupHasRoom
  <2>4. GroupRuns'
    <3>1. Len(seqLen') = Len(jobs') /\ Len(jobs') >= 2
      BY <1>2, <1>7, <2>1
    <3>2. \A s \in 1 .. Len(jobs') : seqLen'[s] = jobs'[s].prompt + steps'
      BY <1>3, <1>4, <1>6, <1>7, <2>1
    <3>3. \A s \in 1 .. Len(jobs') :
            ~jobs'[s].done => jobs'[s].made = steps' + 1 /\ jobs'[s].made < jobs'[s].budget
      <4>1. \A s \in 1 .. Len(jobs) : jobs[s].made = 0
        BY <1>1 DEF GroupStarts, Fresh
      <4> QED
        BY <2>1, <4>1
    <3> QED
      BY <2>1, <3>1, <3>2, <3>3 DEF GroupRuns
  <2> QED
    BY <1>7, <2>1, <2>2, <2>3, <2>4 DEF ServingInv, ExtentsStay
<1> QED
  BY <1>9, <1>10

LEMMA GroupDecodeKeeps ==
  ASSUME HInv, GroupDecode
  PROVE  ServingInv' /\ position' \in Nat /\ ExtentsStay
<1>1. /\ phase = "decode" /\ IInv /\ ServingTypes /\ GroupRuns /\ GroupHasRoom
      /\ ForwardBatch(StepBatch) /\ round' = round
      /\ IF reply' = "ok" THEN AdvanceLive ELSE Finish
  BY DEF GroupDecode, StepBatch, HInv, ServingInv
<1>2. Len(jobs) \in Nat /\ Len(jobs) >= 2 /\ Len(jobs) <= MaxBatch /\ steps \in Nat
  BY <1>1 DEF GroupRuns, ServingTypes
<1>3. /\ StepBatch \in Batches /\ Len(StepBatch) = Len(jobs)
      /\ \A s \in 1 .. Len(jobs) : Len(StepBatch[s]) = 1
  BY <1>1, <1>2, GroupBatches
<1>4. \A s \in 1 .. Len(jobs) : /\ jobs[s].prompt \in Nat \ {0} /\ jobs[s].made \in Nat
                                /\ jobs[s].budget \in Nat
  BY <1>1, JobsAreJobs, JobFields
<1>5. /\ Window \in Nat /\ MaxBatch \in Nat /\ Capacity \in Nat /\ kv.cap \in Nat /\ kv.slots \in Nat
      /\ groupSteps \in Nat \ {0}
      /\ Window <= Capacity /\ kv.cap >= Window /\ kv.slots >= MaxBatch
      /\ \A s \in 1 .. Len(jobs) : /\ jobs[s].prompt + groupSteps <= Window
                                   /\ jobs[s].budget <= groupSteps
  BY <1>1, ServingAssumption, KvAssumption DEF GroupHasRoom, IInv, SlabOK
<1>6. /\ \A s \in 1 .. Len(jobs) : StartOf(s) = jobs[s].prompt + steps
      /\ \A s \in 1 .. Len(jobs) : ~jobs[s].done => jobs[s].made = steps + 1 /\ jobs[s].made < jobs[s].budget
  BY <1>1, <1>2 DEF StartOf, GroupRuns
<1>7. steps + 1 < groupSteps
  <2>1. PICK s \in 1 .. Len(jobs) : ~jobs[s].done
    BY <1>1 DEF GroupRuns
  <2> QED
    BY <1>2, <1>4, <1>5, <1>6, <2>1
<1>8. /\ kv'.cap = kv.cap /\ kv'.slots = kv.slots /\ reply' = "ok"
      /\ seqLen' = [s \in 1 .. Len(jobs) |-> StartOf(s) + Len(StepBatch[s])]
      /\ position' \in Nat
  <2>1. Len(StepBatch) <= kv.slots
    BY <1>2, <1>3, <1>5
  <2>2. ASSUME NEW s \in 1 .. Len(StepBatch)
        PROVE  StartOf(s) + Len(StepBatch[s]) <= kv.cap /\ StartOf(s) + Len(StepBatch[s]) <= Capacity
    <3>1. s \in 1 .. Len(jobs)
      BY <1>3
    <3>2. StartOf(s) = jobs[s].prompt + steps /\ Len(StepBatch[s]) = 1
      BY <1>3, <1>6, <3>1
    <3>3. jobs[s].prompt + groupSteps <= Window /\ jobs[s].prompt \in Nat
      BY <1>4, <1>5, <3>1
    <3>4. /\ Window \in Nat /\ Capacity \in Nat /\ kv.cap \in Nat /\ groupSteps \in Nat /\ steps \in Nat
          /\ Window <= Capacity /\ kv.cap >= Window /\ steps + 1 < groupSteps
      BY <1>2, <1>5, <1>7
    <3> DEFINE prompt == jobs[s].prompt
    <3>5. prompt \in Nat /\ prompt + groupSteps <= Window
      BY <3>3
    <3>6. StartOf(s) + Len(StepBatch[s]) = prompt + steps + 1
      BY <3>2
    <3> HIDE DEF prompt
    <3>7. prompt + steps + 1 <= kv.cap /\ prompt + steps + 1 <= Capacity
      BY <3>4, <3>5
    <3> QED
      BY <3>6, <3>7
  <2> QED
    BY <1>1, <1>3, <2>1, <2>2, BatchWithRoom
<1>9. round' \in {0, 1}
  BY <1>1 DEF ServingTypes
<1>10. CASE Finish
  BY <1>8, <1>9, <1>10, FinishKeeps DEF ExtentsStay
<1>11. CASE ~Finish
  <2>1. /\ jobs' \in Seq(JobRecord) /\ Len(jobs') = Len(jobs)
        /\ phase' = "decode" /\ groupSteps' = groupSteps /\ steps' = steps + 1
        /\ \A s \in 1 .. Len(jobs) :
             /\ jobs'[s].prompt = jobs[s].prompt /\ jobs'[s].budget = jobs[s].budget
             /\ ~jobs'[s].done => /\ ~jobs[s].done /\ jobs'[s].made = jobs[s].made + 1
                                  /\ jobs'[s].made < jobs'[s].budget
        /\ \E s \in 1 .. Len(jobs) : ~jobs'[s].done
    BY <1>1, <1>2, <1>8, <1>11, LiveAdvance
  <2>2. ServingTypes'
    BY <1>1, <1>2, <1>9, <2>1 DEF ServingTypes
  <2>3. GroupHasRoom'
    BY <1>5, <1>8, <2>1 DEF GroupHasRoom
  <2>4. GroupRuns'
    <3>1. Len(seqLen') = Len(jobs') /\ Len(jobs') >= 2
      BY <1>2, <1>8, <2>1
    <3>2. \A s \in 1 .. Len(jobs') : seqLen'[s] = jobs'[s].prompt + steps'
      <4> SUFFICES ASSUME NEW s \in 1 .. Len(jobs')
                   PROVE  seqLen'[s] = jobs'[s].prompt + steps'
        OBVIOUS
      <4>1. s \in 1 .. Len(jobs)
        BY <2>1
      <4>2. seqLen'[s] = jobs[s].prompt + steps + 1
        BY <1>3, <1>6, <1>8, <4>1
      <4>3. jobs'[s].prompt = jobs[s].prompt /\ steps' = steps + 1
        BY <2>1, <4>1
      <4>4. jobs[s].prompt \in Nat
        BY <1>4, <4>1
      <4>5. steps \in Nat
        BY <1>2 DEF ServingTypes
      <4>6. \A a, b \in Nat : a + b + 1 = a + (b + 1)
        OBVIOUS
      <4>7. seqLen'[s] = jobs[s].prompt + (steps + 1)
        BY <4>2, <4>4, <4>5, <4>6
      <4> QED
        BY <4>3, <4>7, Zenon
    <3>3. \A s \in 1 .. Len(jobs') :
            ~jobs'[s].done => jobs'[s].made = steps' + 1 /\ jobs'[s].made < jobs'[s].budget
      BY <1>2, <1>4, <1>6, <2>1
    <3> QED
      BY <2>1, <3>1, <3>2, <3>3 DEF GroupRuns
  <2> QED
    BY <1>8, <2>1, <2>2, <2>3, <2>4 DEF ServingInv, ExtentsStay
<1> QED
  BY <1>10, <1>11

-----------------------------------------------------------------------------
(* Every program, step by step.                                            *)

LEMMA IdleKeeps ==
  ASSUME HInv, host # "serving", UNCHANGED serveVars, UNCHANGED host
  PROVE  ServingInv' /\ (host' # "serving" => phase' = "idle")
<1>1. phase = "idle" /\ jobs = << >> /\ ServingTypes
  BY DEF HInv, ServingInv
<1>2. UNCHANGED <<phase, jobs, groupSteps, steps, round, host>>
  BY DEF serveVars
<1> QED
  BY <1>1, <1>2 DEF ServingInv, ServingTypes

(* The next step of compose keeps what it was given.                       *)
LEMMA ThenKeeps ==
  ASSUME ComposingTypes, composing.at # "no", host' = host,
         NEW at \in {"before", "span", "after", "done"}, NEW start \in Nat, Then(at, start)
  PROVE  ComposingTypes'
<1>1. /\ composing \in [at : {"before", "span", "after", "done"}, before : Lengths, after : Lengths,
                       w : Nat, h : Nat, windows : Nat, width : Nat, start : Nat, made : Nat]
      /\ host = "vlm" => composing.w \in Sides /\ composing.h \in Sides
      /\ host = "asr" => composing.width \in Lengths
  <2>1. composing # Nothing
    BY DEF Nothing
  <2> QED
    BY <2>1 DEF ComposingTypes
<1>2. CASE reply' = "ok"
  <2>1. composing' = [composing EXCEPT !.at = at, !.start = start]
    BY <1>2 DEF Then
  <2> QED
    BY <1>1, <2>1 DEF ComposingTypes
<1>3. CASE reply' # "ok"
  BY <1>3 DEF Then, ComposingTypes
<1> QED
  BY <1>2, <1>3

LEMMA ComposeKeeps ==
  ASSUME HInv, IInv', ComposeNext
  PROVE  ComposingTypes'
<1>1. ComposingTypes /\ host' = host /\ seqLen[1] \in Nat /\ seqLen'[1] \in Nat
  <2>1. seqLen[1] \in Nat
    BY SeqLenStart DEF HInv
  <2>2. (IInv => seqLen[1] \in Nat)'
    BY SeqLenStart, PTL
  <2> QED
    BY <2>1, <2>2 DEF HInv, ComposeNext
<1>2. CASE ComposeImage
  <2>1. PICK b \in Lengths, a \in Lengths, w \in Sides, h \in Sides :
          composing' = [at |-> "before", before |-> b, after |-> a, w |-> w, h |-> h,
                        windows |-> 0, width |-> 0, start |-> 0, made |-> 0]
    BY <1>2 DEF ComposeImage
  <2>2. host' = "vlm" /\ w \in Nat /\ h \in Nat
    BY <1>1, <1>2, HostsAssumption DEF ComposeImage
  <2> QED
    BY <2>1, <2>2 DEF ComposingTypes
<1>3. CASE ComposeSound
  <2>1. PICK b \in Lengths, a \in Lengths, n \in Windows, width \in Lengths :
          composing' = [at |-> "before", before |-> b, after |-> a, w |-> 0, h |-> 0,
                        windows |-> n, width |-> width, start |-> 0, made |-> 0]
    BY <1>3 DEF ComposeSound
  <2>2. host' = "asr" /\ n \in Nat /\ width \in Nat
    BY <1>1, <1>3, HostsAssumption DEF ComposeSound
  <2> QED
    BY <2>1, <2>2 DEF ComposingTypes
<1>4. CASE ImageBefore
  BY <1>1, <1>4, ThenKeeps DEF ImageBefore
<1>5. CASE ImageSpan
  <2>1. composing.at = "span" /\ Then("after", composing.start)
    BY <1>5 DEF ImageSpan
  <2>2. composing.start \in Nat
    BY <1>1, <2>1, ComposingFields
  <2> QED
    BY <1>1, <2>1, <2>2, ThenKeeps
<1>6. CASE ImageAfter
  <2>1. composing.at = "after" /\ Then("done", composing.start)
    BY <1>6 DEF ImageAfter
  <2>2. composing.start \in Nat
    BY <1>1, <2>1, ComposingFields
  <2> QED
    BY <1>1, <2>1, <2>2, ThenKeeps
<1>7. CASE SoundBefore
  BY <1>1, <1>7, ThenKeeps DEF SoundBefore
<1>8. CASE SoundWindow
  <2> DEFINE at == IF composing.start + 1 = composing.windows THEN "after" ELSE "span"
  <2>1. composing.at = "span" /\ Then(at, composing.start + 1)
    BY <1>8 DEF SoundWindow
  <2>2. composing.start + 1 \in Nat /\ at \in {"before", "span", "after", "done"}
    BY <1>1, <2>1, ComposingFields
  <2> HIDE DEF at
  <2> QED
    BY <1>1, <2>1, <2>2, ThenKeeps
<1>9. CASE SoundThrows
  BY <1>9 DEF SoundThrows, ComposingTypes
<1>10. CASE SoundAfter
  BY <1>1, <1>10, ThenKeeps DEF SoundAfter
<1>11. CASE SoundToken
  <2>1. /\ host = "asr" /\ composing.at = "done"
        /\ composing' = IF reply' = "ok" THEN [composing EXCEPT !.made = @ + 1] ELSE Nothing
    BY <1>11 DEF SoundToken
  <2>2. /\ composing \in [at : {"before", "span", "after", "done"}, before : Lengths, after : Lengths,
                          w : Nat, h : Nat, windows : Nat, width : Nat, start : Nat, made : Nat]
        /\ composing.width \in Lengths
    <3>1. composing # Nothing
      BY <2>1 DEF Nothing
    <3> QED
      BY <1>1, <2>1, <3>1 DEF ComposingTypes
  <2>3. CASE reply' = "ok"
    <3> DEFINE made == composing.made + 1
    <3>1. made \in Nat
      BY <2>2
    <3>2. composing' = [composing EXCEPT !.made = made]
      BY <2>1, <2>3
    <3> HIDE DEF made
    <3> QED
      BY <1>1, <2>1, <2>2, <3>1, <3>2 DEF ComposingTypes
  <2>4. CASE reply' # "ok"
    BY <2>1, <2>4 DEF ComposingTypes
  <2> QED
    BY <2>3, <2>4
<1> QED
  BY <1>2, <1>3, <1>4, <1>5, <1>6, <1>7, <1>8, <1>9, <1>10, <1>11 DEF ComposeNext

LEMMA HostsStepKeeps ==
  ASSUME HInv, HostsNext
  PROVE  HInv'
<1>1. IInv /\ [Next]_vars /\ position \in Nat
  BY HostsStepIsCall DEF HInv
<1>2. IInv'
  BY <1>1, StepKeeps, StutterKeeps
<1>3. position' \in Nat
  BY <1>1, PositionIsNumber DEF vars
<1>4. CASE SessionNext \/ AbiNext
  <2>1. host # "serving" /\ UNCHANGED <<serveVars, hostVars>>
    BY <1>4 DEF SessionNext, AbiNext
  <2>2. ComposingTypes'
    BY <2>1 DEF HInv, ComposingTypes, hostVars
  <2> QED
    BY <1>2, <1>3, <2>1, <2>2, IdleKeeps DEF HInv, hostVars
<1>5. CASE ServingNext
  <2>1. host = "serving" /\ UNCHANGED hostVars
    BY <1>5 DEF ServingNext
  <2>2. ComposingTypes'
    BY <2>1 DEF HInv, ComposingTypes, hostVars
  <2>3. ServingInv'
    BY <1>5, SerialStartKeeps, SerialTokenKeeps, GroupStartKeeps, GroupReserveKeeps, GroupPrefillKeeps,
       GroupDecodeKeeps DEF ServingNext, ServeNext
  <2> QED
    BY <1>2, <1>3, <2>1, <2>2, <2>3 DEF HInv, hostVars
<1>6. CASE ComposeNext
  <2>1. host # "serving"
    BY <1>6 DEF ComposeNext, ComposeImage, ImageBefore, ImageSpan, ImageAfter, ComposeSound,
       SoundBefore, SoundWindow, SoundThrows, SoundAfter, SoundToken
  <2>2. UNCHANGED <<serveVars, host>>
    BY <1>6 DEF ComposeNext
  <2> QED
    BY <1>2, <1>3, <1>6, <2>1, <2>2, ComposeKeeps, IdleKeeps DEF HInv
<1> QED
  BY <1>4, <1>5, <1>6 DEF HostsNext

LEMMA HostsStutterKeeps == ASSUME HInv, UNCHANGED everything PROVE HInv'
<1>1. UNCHANGED vars /\ UNCHANGED serveVars /\ UNCHANGED hostVars
  BY DEF everything, allVars
<1>2. IInv' /\ position' = position
  BY <1>1, StutterKeeps DEF HInv, vars
<1>3. ComposingTypes' /\ host' = host
  BY <1>1 DEF HInv, ComposingTypes, hostVars
<1>4. UNCHANGED <<phase, jobs, groupSteps, steps, round, position, seqLen, kv>>
  BY <1>1 DEF serveVars, vars
<1>5. ServingInv'
  BY <1>4 DEF HInv, ServingInv, ServingTypes, SerialInPlace, GroupHasRoom, GroupStarts, GroupRuns, Fresh
<1> QED
  BY <1>2, <1>3, <1>4, <1>5 DEF HInv

LEMMA HostsInitHolds == ASSUME HostsInit PROVE HInv
<1>1. IInv /\ position \in Nat
  BY InitHolds DEF HostsInit, ServeInit, Init
<1>2. phase = "idle" /\ jobs = << >> /\ groupSteps = 0 /\ steps = 0 /\ round = 0 /\ composing = Nothing
  BY DEF HostsInit, ServeInit
<1>3. << >> \in Seq(JobRecord) /\ Len(<< >>) = 0
  OBVIOUS
<1>4. ServingInv
  BY <1>2, <1>3, ServingAssumption DEF ServingInv, ServingTypes
<1> QED
  BY <1>1, <1>2, <1>4 DEF HInv, ComposingTypes

(* In every reachable state the programs' own state and the session's agree:
   where each loop is, what it has made and what the slabs hold for it.    *)
THEOREM HostsInvariance == HostsSpec => []HInv
<1>1. HostsInit => HInv
  BY HostsInitHolds
<1>2. HInv /\ [HostsNext]_everything => HInv'
  BY HostsStepKeeps, HostsStutterKeeps
<1> QED
  BY <1>1, <1>2, PTL DEF HostsSpec

(* Every program over the cache is a history of its calls: what holds of
   every history holds of every program.                                   *)
THEOREM HostsAreHistories == HostsSpec => Spec
<1>1. HostsInit => Init
  BY DEF HostsInit, ServeInit
<1>2. HInv /\ [HostsNext]_everything => [Next]_vars
  BY HostsStepIsCall DEF everything, allVars
<1> QED
  BY <1>1, <1>2, HostsInvariance, PTL DEF HostsSpec, Spec

(* No program brings a forward to a row outside the slabs, nor the cache past
   the end of the rotary table.                                            *)
THEOREM HostsStayInside == HostsSpec => []RopeCoversCache /\ ForwardStaysInside
BY HostsAreHistories, TableCoversCache, ForwardsStayInside, PTL

(* From its reservation to its last step a group grows nothing and is refused
   nothing, for every window, width, mix of prompts and budgets and order in
   which the members end ("The KV slabs are reserved once and never grow").*)
THEOREM ReservationHolds == HostsSpec => GroupFitsItsReservation
<1>1. HInv /\ [HostsNext]_everything =>
        [InGroup => kv'.cap = kv.cap /\ kv'.slots = kv.slots /\ reply' = "ok"]_allVars
  <2> SUFFICES ASSUME HInv, [HostsNext]_everything, InGroup, ~UNCHANGED allVars
               PROVE  kv'.cap = kv.cap /\ kv'.slots = kv.slots /\ reply' = "ok"
    OBVIOUS
  <2>1. HostsNext
    BY DEF everything
  <2>2. phase \in {"prefill", "decode"} /\ host = "serving"
    BY DEF InGroup, HInv
  <2>3. ServeNext
    BY <2>1, <2>2 DEF HostsNext, SessionNext, AbiNext, ServingNext, ComposeNext, ComposeImage,
       ImageBefore, ImageSpan, ImageAfter, ComposeSound, SoundBefore, SoundWindow, SoundThrows,
       SoundAfter, SoundToken
  <2>4. GroupPrefill \/ GroupDecode
    BY <2>2, <2>3 DEF ServeNext, SerialStart, SerialToken, GroupStart, GroupReserve
  <2> QED
    BY <2>4, GroupPrefillKeeps, GroupDecodeKeeps DEF ExtentsStay
<1> QED
  BY <1>1, HostsInvariance, PTL DEF HostsSpec, GroupFitsItsReservation

(* A serial generation runs into the end of the context only when its request
   asked for more than the context holds.                                  *)
THEOREM OnlyTooMuchIsRefused == HostsSpec => RefusedOnlyPastContext
<1>1. HInv /\ [HostsNext]_everything =>
        [phase = "serial" /\ reply' # "ok" =>
           reply' = "context_length" /\ jobs[1].prompt + jobs[1].asked > Capacity + 1]_allVars
  <2> SUFFICES ASSUME HInv, [HostsNext]_everything, phase = "serial", reply' # "ok", ~UNCHANGED allVars
               PROVE  reply' = "context_length" /\ jobs[1].prompt + jobs[1].asked > Capacity + 1
    OBVIOUS
  <2>1. HostsNext
    BY DEF everything
  <2>2. host = "serving"
    BY DEF HInv
  <2>3. ServeNext
    BY <2>1, <2>2 DEF HostsNext, SessionNext, AbiNext, ServingNext, ComposeNext, ComposeImage,
       ImageBefore, ImageSpan, ImageAfter, ComposeSound, SoundBefore, SoundWindow, SoundThrows,
       SoundAfter, SoundToken
  <2>4. SerialToken
    BY <2>3 DEF ServeNext, SerialStart, GroupStart, GroupReserve, GroupPrefill, GroupDecode
  <2> QED
    BY <2>4, SerialTokenKeeps
<1> QED
  BY <1>1, HostsInvariance, PTL DEF HostsSpec, RefusedOnlyPastContext

-----------------------------------------------------------------------------
(* The log.                                                                *)

(* The row of layer il at position p of sequence s is one that a forward
   wrote there, and the other layers' rows are of the same token.          *)
Written(s, il, p) ==
  LET row == RowAt(kv, s - 1, il, p)
  IN  /\ Holds(kv, s - 1, p)
      /\ row \in Row /\ row.layer = il /\ row.pos = p
      /\ row.tok = RowAt(kv, s - 1, 0, p).tok /\ row.rot = RowAt(kv, s - 1, 0, p).rot

Contents ==
  \A s \in 1 .. Len(seqLen), il \in 0 .. layers - 1 : \A p \in 0 .. seqLen[s] - 1 : Written(s, il, p)

(* A batch of n sequences finds its rows again after ensure_kv: there is
   room for the whole context, or the growth carries the slabs in place.   *)
Safe(n) ==
  \/ layers = 1
  \/ n = 1 /\ kv.slots <= 1
  \/ kv.cap >= Capacity /\ kv.slots >= n

(* Nobody outgrows the reservation, and who makes none has one slot.       *)
Reserved ==
  /\ host = "serving" =>
       \/ layers = 1
       \/ Window >= Capacity /\ (kv.slots <= 1 \/ (kv.cap >= Capacity /\ kv.slots >= MaxBatch))
  /\ host \notin {"serving", "abi"} => kv.slots <= 1

LInv == layers # 0 /\ Reserved /\ (host # "abi" => Contents)

(* What a forward that ran leaves at position p of its sequence s.         *)
Wrote(starts, batch, rots, s, il, p) ==
  /\ Holds(kv', s - 1, p)
  /\ p < starts[s] /\ Holds(kv, s - 1, p) => RowAt(kv', s - 1, il, p) = RowAt(kv, s - 1, il, p)
  /\ ~(p < starts[s]) => RowAt(kv', s - 1, il, p) =
       [layer |-> il, pos |-> p, tok |-> batch[s][p - starts[s] + 1], rot |-> rots[s][p - starts[s] + 1]]

LEMMA GivenRuns ==
  ASSUME NEW n, NEW starts, NEW batch, NEW rots, Given(n, starts, batch, rots)
  PROVE  /\ batch \in Batches /\ Len(batch) = n /\ n \in Nat /\ n >= 1
         /\ \A s \in 1 .. n : /\ Len(batch[s]) \in Nat \ {0} /\ starts[s] \in Nat
                              /\ Len(rots[s]) = Len(batch[s])
<1>1. batch \in Batches /\ Len(batch) = n /\ n \in Nat /\ n >= 1
  BY RunsMakeBatch DEF Given
<1>2. ASSUME NEW s \in 1 .. n
      PROVE  Len(batch[s]) \in Nat \ {0} /\ starts[s] \in Nat /\ Len(rots[s]) = Len(batch[s])
  <2>1. batch[s] \in Seq(Tokens) /\ batch[s] # << >> /\ starts[s] \in Nat
    BY DEF Given, Runs
  <2>2. Len(rots[s]) = Len(batch[s])
    BY DEF Given, SameLengths
  <2> QED
    BY <2>1, <2>2
<1> QED
  BY <1>1, <1>2

(* How a forward that ran grew the slabs, and to what.                     *)
LEMMA ForwardGrows ==
  ASSUME IInv, NEW n, NEW starts, NEW batch, NEW rots, Given(n, starts, batch, rots),
         ForwardImpl(starts, batch, rots), reply' = "ok"
  PROVE  /\ Ran(starts, batch)
         /\ \E maxEnd \in 0 .. Capacity :
              /\ kv' = Appended(EnsureKv(kv, maxEnd, n), starts, batch, rots)
              /\ \A s \in 1 .. n : starts[s] + Len(batch[s]) <= maxEnd
              /\ maxEnd > 0
<1> DEFINE ends == [s \in 1 .. Len(batch) |-> starts[s] + Len(batch[s])]
           maxEnd == Max({ends[s] : s \in 1 .. Len(batch)})
<1>1. batch \in Batches /\ Len(batch) = n /\ n \in Nat /\ n >= 1
      /\ \A s \in 1 .. n : Len(batch[s]) \in Nat \ {0} /\ starts[s] \in Nat
  BY GivenRuns
<1>2. Ran(starts, batch)
  BY <1>1, ForwardImplDoes DEF Refuse
<1>3. ~ \E s \in 1 .. Len(batch) : ends[s] > Capacity
  BY DEF ForwardImpl, Refuse
<1>4. kv' = Appended(EnsureKv(kv, maxEnd, Len(batch)), starts, batch, rots)
  BY <1>3 DEF ForwardImpl
<1>5. \A s \in 1 .. n : ends[s] \in 1 .. Capacity /\ ends[s] = starts[s] + Len(batch[s])
  BY <1>1, <1>3, KvAssumption
<1> DEFINE T == {ends[s] : s \in 1 .. n}
<1>6. Max(T) \in 1 .. Capacity /\ \A s \in 1 .. n : ends[s] <= Max(T)
  <2> HIDE DEF ends
  <2>1. T \subseteq 0 .. Capacity /\ ends[1] \in T /\ Capacity \in Nat
    BY <1>1, <1>5, KvAssumption
  <2>2. Max(T) \in T /\ \A y \in T : y <= Max(T)
    <3> HIDE DEF T
    <3> QED
      BY <2>1, MaxIsLargest
  <2> QED
    BY <1>5, <2>2
<1>7. maxEnd = Max(T)
  BY <1>1
<1> HIDE DEF maxEnd, T
<1>8. kv' = Appended(EnsureKv(kv, Max(T), n), starts, batch, rots)
  BY <1>1, <1>4, <1>7
<1>9. \A s \in 1 .. n : starts[s] + Len(batch[s]) <= Max(T)
  BY <1>5, <1>6
<1> HIDE DEF ends
<1> QED
  BY <1>2, <1>6, <1>8, <1>9

LEMMA ForwardWrites ==
  ASSUME IInv, layers # 0, NEW n, NEW starts, NEW batch, NEW rots, Given(n, starts, batch, rots),
         Safe(n), ForwardImpl(starts, batch, rots), reply' = "ok"
  PROVE  /\ Ran(starts, batch)
         /\ (kv'.cap = kv.cap /\ kv'.slots = kv.slots) \/ (kv'.slots = n /\ ~(kv.cap >= Capacity /\ kv.slots >= n))
         /\ \A s \in 1 .. n, il \in 0 .. layers - 1 : \A p \in 0 .. starts[s] + Len(batch[s]) - 1 :
              Wrote(starts, batch, rots, s, il, p)
<1>1. batch \in Batches /\ Len(batch) = n /\ n \in Nat /\ n >= 1
      /\ \A s \in 1 .. n : Len(batch[s]) \in Nat \ {0} /\ starts[s] \in Nat
  BY GivenRuns
<1>2. SlabOK(kv) /\ kv.cap \in Nat /\ kv.slots \in Nat /\ layers \in Nat \ {0} /\ Capacity \in Nat
  BY KvAssumption DEF IInv, SlabOK
<1>3. Ran(starts, batch)
  BY ForwardGrows
<1>4. PICK maxEnd \in 0 .. Capacity :
         /\ kv' = Appended(EnsureKv(kv, maxEnd, n), starts, batch, rots)
         /\ \A s \in 1 .. n : starts[s] + Len(batch[s]) <= maxEnd
         /\ maxEnd > 0
  BY ForwardGrows
<1>5. maxEnd \in Nat /\ maxEnd <= Capacity
  BY <1>2
<1> DEFINE k == EnsureKv(kv, maxEnd, n)
<1>6. SlabOK(k) /\ k.cap >= maxEnd /\ k.slots >= n
  BY <1>1, <1>2, <1>5, EnsureKvMakesRoom
<1>7. Room(kv, maxEnd, n) => k = kv
  BY DEF EnsureKv
<1>8. ~Room(kv, maxEnd, n) => k.slots = n
  <2> SUFFICES ASSUME ~Room(kv, maxEnd, n) PROVE k.slots = n
    OBVIOUS
  <2> DEFINE grown == GrowTo(Larger(kv.cap, InitialPositions), maxEnd)
  <2>1. k = Carried(kv, Empty(grown, n))
    BY DEF EnsureKv
  <2>2. Larger(kv.cap, InitialPositions) \in Nat
    BY <1>2, KvAssumption DEF Larger
  <2>3. grown \in Nat
    BY <1>5, <2>2, GrowToReaches
  <2> HIDE DEF grown, k
  <2> QED
    BY <1>1, <2>1, <2>3, EmptyIsSlab, CarriedIsSlab
<1> HIDE DEF k
<1>9. kv' = Appended(k, starts, batch, rots) /\ kv'.cap = k.cap /\ kv'.slots = k.slots
  <2>1. kv' = Appended(k, starts, batch, rots)
    BY <1>4 DEF k
  <2> QED
    BY <1>6, <2>1, AppendedIsSlab
<1>10. Room(kv, maxEnd, n) \/ ~(kv.cap >= Capacity /\ kv.slots >= n)
  BY <1>1, <1>2, <1>4, <1>5 DEF Room
<1>11. ASSUME NEW s \in 1 .. n, NEW il \in 0 .. layers - 1, NEW p \in 0 .. starts[s] + Len(batch[s]) - 1
       PROVE  Wrote(starts, batch, rots, s, il, p)
  <2>1. p \in 0 .. maxEnd - 1 /\ s - 1 \in 0 .. n - 1 /\ p \in Nat
    <3>1. starts[s] \in Nat /\ Len(batch[s]) \in Nat /\ starts[s] + Len(batch[s]) <= maxEnd
      BY <1>1, <1>4
    <3> DEFINE end == starts[s] + Len(batch[s])
    <3>2. end \in Nat /\ end <= maxEnd /\ p \in 0 .. end - 1 /\ maxEnd \in Nat /\ n \in Nat
      BY <1>1, <1>5, <3>1
    <3> HIDE DEF end
    <3> QED
      BY <3>2
  <2>2. Holds(k, s - 1, p)
    <3> DEFINE cap == k.cap
               slots == k.slots
    <3>1. cap \in Nat /\ slots \in Nat /\ cap >= maxEnd /\ slots >= n
      BY <1>6 DEF SlabOK
    <3> HIDE DEF cap, slots
    <3>2. s - 1 \in 0 .. slots - 1 /\ p \in 0 .. cap - 1
      BY <1>1, <1>5, <2>1, <3>1
    <3> QED
      BY <3>2 DEF Holds, cap, slots
  <2>3. Holds(kv', s - 1, p)
    BY <1>9, <2>2 DEF Holds
  <2>4. RowAt(kv', s - 1, il, p) =
           IF p < starts[s] THEN RowAt(k, s - 1, il, p)
           ELSE [layer |-> il, pos |-> p, tok |-> batch[s][p - starts[s] + 1],
                 rot |-> rots[s][p - starts[s] + 1]]
    BY <1>2, <1>6, <1>9, <2>2, AppendedReads
  <2>5. ASSUME Holds(kv, s - 1, p) PROVE RowAt(k, s - 1, il, p) = RowAt(kv, s - 1, il, p)
    <3>1. GrowsInPlace(maxEnd, n)
      <4>1. kv.slots >= 1
        BY <1>2, <2>5, <1>1 DEF Holds
      <4> QED
        BY <1>1, <1>2, <1>10, <4>1 DEF Safe, GrowsInPlace
    <3> QED
      BY <1>1, <1>2, <1>5, <2>1, <2>5, <3>1, EnsureKvReads DEF k
  <2> QED
    BY <2>3, <2>4, <2>5 DEF Wrote
<1> QED
  BY <1>3, <1>7, <1>8, <1>9, <1>10, <1>11

(* The token at position p, from 1, of sequence s.                         *)
TokenAt(s, p) == RowAt(kv, s - 1, 0, p - 1).tok

LEMMA WrittenReads ==
  ASSUME IInv, layers # 0, NEW s \in 1 .. Len(seqLen), NEW il \in 0 .. layers - 1,
         NEW p \in 1 .. seqLen[s], Written(s, il, p - 1)
  PROVE  ReadBack(il, s - 1, p - 1) = TokenAt(s, p)
<1> DEFINE q == s - 1
           b == p - 1
           row == RowAt(kv, q, il, b)
<1>1. SlabOK(kv) /\ layers \in Nat /\ s \in Nat /\ seqLen[s] \in Nat /\ Len(seqLen) \in Nat
  BY LengthsAreNumbers DEF IInv
<1>2. q \in Nat /\ b \in Nat
  BY <1>1
<1>3. Holds(kv, q, b) /\ row \in Row /\ row.layer = il /\ row.pos = b /\ row.tok = RowAt(kv, q, 0, b).tok
  BY DEF Written
<1> HIDE DEF q, b
<1>4. Address(kv.cap, q, il, b) \in DOMAIN kv.rows
  BY <1>1, <1>2, <1>3, HeldIsInside
<1>5. row # Junk
  BY <1>3, JunkAssumption
<1>6. ReadBack(il, q, b) = row.tok
  BY <1>3, <1>4, <1>5 DEF ReadBack, RowAt
<1> QED
  BY <1>3, <1>6 DEF q, b, TokenAt

(* With every row written, what attention reads is the tokens of the rows. *)
LEMMA AttendedTokens ==
  ASSUME IInv, layers # 0, Contents
  PROVE  Attended = [s \in 1 .. Len(seqLen) |-> [p \in 1 .. seqLen[s] |-> TokenAt(s, p)]]
<1>1. ASSUME NEW s \in 1 .. Len(seqLen), NEW p \in 1 .. seqLen[s], NEW il \in 0 .. layers - 1
      PROVE  ReadBack(il, s - 1, p - 1) = TokenAt(s, p)
  <2>1. seqLen[s] \in Nat
    BY LengthsAreNumbers
  <2>2. p - 1 \in 0 .. seqLen[s] - 1
    BY <2>1
  <2>3. Written(s, il, p - 1)
    BY <2>2 DEF Contents
  <2> QED
    BY <2>3, WrittenReads
<1>2. 0 \in 0 .. layers - 1 /\ 1 .. layers - 1 \subseteq 0 .. layers - 1
  BY DEF IInv
<1> DEFINE read(s, p) ==
             LET tok == ReadBack(0, s - 1, p - 1)
             IN  IF \A il \in 1 .. layers - 1 : ReadBack(il, s - 1, p - 1) = tok THEN tok ELSE Junk
<1>3. ASSUME NEW s \in 1 .. Len(seqLen), NEW p \in 1 .. seqLen[s] PROVE read(s, p) = TokenAt(s, p)
  <2> HIDE DEF TokenAt
  <2>1. ReadBack(0, s - 1, p - 1) = TokenAt(s, p)
    BY <1>1, <1>2
  <2>2. \A il \in 1 .. layers - 1 : ReadBack(il, s - 1, p - 1) = TokenAt(s, p)
    BY <1>1, <1>2
  <2> QED
    BY <2>1, <2>2
<1>4. Attended = [s \in 1 .. Len(seqLen) |-> [p \in 1 .. seqLen[s] |-> read(s, p)]]
  BY DEF Attended
<1> HIDE DEF read
<1> QED
  BY <1>3, <1>4

LEMMA RowAfter ==
  ASSUME layers' = layers, NEW s, NEW il, NEW p
  PROVE  RowAt(kv, s, il, p)' = RowAt(kv', s, il, p)
BY DEF RowAt, Address

(* Each sequence of the batch goes on from where it is.                    *)
Continues(n, starts) == \A s \in 1 .. n : starts[s] = StartOf(s)

LEMMA OldRowsStay ==
  ASSUME IInv, layers # 0, Contents, NEW n \in Nat, NEW starts, NEW batch, NEW rots,
         Continues(n, starts), NEW s \in 1 .. n, NEW il \in 0 .. layers - 1, NEW p \in Nat,
         p < starts[s], Wrote(starts, batch, rots, s, il, p)
  PROVE  /\ s \in 1 .. Len(seqLen) /\ p \in 0 .. seqLen[s] - 1 /\ Written(s, il, p)
         /\ RowAt(kv', s - 1, il, p) = RowAt(kv, s - 1, il, p)
<1>1. starts[s] = StartOf(s)
  BY DEF Continues
<1>2. Len(seqLen) \in Nat
  BY DEF IInv
<1>3. s \in 1 .. Len(seqLen) /\ starts[s] = seqLen[s]
  BY <1>1, <1>2 DEF StartOf
<1>4. seqLen[s] \in Nat
  BY <1>3, LengthsAreNumbers
<1>5. p \in 0 .. seqLen[s] - 1
  BY <1>3, <1>4
<1>6. Written(s, il, p)
  BY <1>3, <1>5 DEF Contents
<1>7. Holds(kv, s - 1, p)
  BY <1>6 DEF Written
<1> QED
  BY <1>3, <1>5, <1>6, <1>7 DEF Wrote

(* The batch's own rows are rows of its tokens.                            *)
LEMMA NewRowsAreRows ==
  ASSUME NEW n, NEW starts, NEW batch, NEW rots, Given(n, starts, batch, rots),
         NEW s \in 1 .. n, NEW il \in Nat, NEW p \in 0 .. starts[s] + Len(batch[s]) - 1,
         ~(p < starts[s])
  PROVE  LET i == p - starts[s] + 1
         IN  /\ i \in 1 .. Len(batch[s])
             /\ [layer |-> il, pos |-> p, tok |-> batch[s][i], rot |-> rots[s][i]] \in Row
<1> DEFINE i == p - starts[s] + 1
<1>1. Len(batch[s]) \in Nat /\ starts[s] \in Nat /\ Len(rots[s]) = Len(batch[s])
  BY GivenRuns
<1>2. i \in 1 .. Len(batch[s]) /\ p \in Nat
  BY <1>1
<1>3. batch[s] \in Seq(Tokens) /\ rots[s] \in Seq(Turn)
  BY DEF Given, Runs, Turns
<1> HIDE DEF i
<1>4. batch[s][i] \in Tokens /\ rots[s][i] \in Turn
  BY <1>1, <1>2, <1>3
<1> QED
  BY <1>2, <1>4 DEF i, Row

(* The row a forward leaves, in every layer.                               *)
LEMMA RowsAfterForward ==
  ASSUME IInv, layers # 0, Contents, NEW n, NEW starts, NEW batch, NEW rots,
         Given(n, starts, batch, rots), Continues(n, starts),
         NEW s \in 1 .. n, NEW il \in 0 .. layers - 1,
         NEW p \in 0 .. starts[s] + Len(batch[s]) - 1,
         Wrote(starts, batch, rots, s, il, p), Wrote(starts, batch, rots, s, 0, p)
  PROVE  LET row == RowAt(kv', s - 1, il, p)
             first == RowAt(kv', s - 1, 0, p)
         IN  /\ Holds(kv', s - 1, p)
             /\ row \in Row /\ row.layer = il /\ row.pos = p /\ row.tok = first.tok /\ row.rot = first.rot
             /\ first.tok = IF p < starts[s] THEN TokenAt(s, p + 1) ELSE batch[s][p - starts[s] + 1]
<1>1. /\ n \in Nat /\ starts[s] \in Nat /\ Len(batch[s]) \in Nat /\ layers \in Nat
      /\ 0 \in 0 .. layers - 1 /\ il \in Nat
  BY GivenRuns DEF IInv
<1>2. p \in Nat /\ p + 1 - 1 = p
  BY <1>1
<1>3. Holds(kv', s - 1, p)
  BY DEF Wrote
<1>4. CASE p < starts[s]
  <2>1. /\ Written(s, il, p)
        /\ RowAt(kv', s - 1, il, p) = RowAt(kv, s - 1, il, p)
    BY <1>1, <1>2, <1>4, OldRowsStay
  <2>2. RowAt(kv', s - 1, 0, p) = RowAt(kv, s - 1, 0, p)
    BY <1>1, <1>2, <1>4, OldRowsStay
  <2>3. TokenAt(s, p + 1) = RowAt(kv, s - 1, 0, p).tok
    BY <1>2 DEF TokenAt
  <2>4. /\ RowAt(kv, s - 1, il, p) \in Row /\ RowAt(kv, s - 1, il, p).layer = il
        /\ RowAt(kv, s - 1, il, p).pos = p
        /\ RowAt(kv, s - 1, il, p).tok = RowAt(kv, s - 1, 0, p).tok
        /\ RowAt(kv, s - 1, il, p).rot = RowAt(kv, s - 1, 0, p).rot
    BY <2>1 DEF Written
  <2> QED
    BY <1>3, <1>4, <2>1, <2>2, <2>3, <2>4, Zenon
<1>5. CASE ~(p < starts[s])
  <2> DEFINE i == p - starts[s] + 1
             new(l) == [layer |-> l, pos |-> p, tok |-> batch[s][i], rot |-> rots[s][i]]
  <2>1. RowAt(kv', s - 1, il, p) = new(il) /\ RowAt(kv', s - 1, 0, p) = new(0)
    BY <1>5 DEF Wrote
  <2>2. new(il) \in Row
    BY <1>1, <1>5, NewRowsAreRows
  <2>3. /\ new(il).layer = il /\ new(il).pos = p
        /\ new(il).tok = batch[s][i] /\ new(0).tok = batch[s][i] /\ new(il).rot = new(0).rot
    OBVIOUS
  <2> HIDE DEF new
  <2>4. /\ RowAt(kv', s - 1, il, p) \in Row /\ RowAt(kv', s - 1, il, p).layer = il
        /\ RowAt(kv', s - 1, il, p).pos = p
        /\ RowAt(kv', s - 1, il, p).tok = RowAt(kv', s - 1, 0, p).tok
        /\ RowAt(kv', s - 1, il, p).rot = RowAt(kv', s - 1, 0, p).rot
        /\ RowAt(kv', s - 1, 0, p).tok = batch[s][i]
    BY <2>1, <2>2, <2>3, Zenon
  <2> QED
    BY <1>3, <1>5, <2>4, Zenon
<1> QED
  BY <1>4, <1>5

LEMMA ForwardKeepsContents ==
  ASSUME IInv, layers # 0, Contents, NEW n, NEW starts, NEW batch, NEW rots,
         Given(n, starts, batch, rots), Continues(n, starts), Safe(n),
         ForwardImpl(starts, batch, rots), reply' = "ok"
  PROVE  /\ Contents' /\ Ran(starts, batch)
         /\ \A s \in 1 .. n : \A p \in 1 .. starts[s] + Len(batch[s]) :
              TokenAt(s, p)' = IF p <= starts[s] THEN TokenAt(s, p) ELSE batch[s][p - starts[s]]
<1>1. /\ Len(batch) = n /\ n \in Nat /\ layers \in Nat /\ 0 \in 0 .. layers - 1
      /\ \A s \in 1 .. n : Len(batch[s]) \in Nat \ {0} /\ starts[s] \in Nat
  BY GivenRuns DEF IInv
<1>2. /\ Ran(starts, batch)
      /\ \A s \in 1 .. n, il \in 0 .. layers - 1 : \A p \in 0 .. starts[s] + Len(batch[s]) - 1 :
           Wrote(starts, batch, rots, s, il, p)
  BY ForwardWrites
<1>3. layers' = layers /\ Len(seqLen') = n /\ \A s \in 1 .. n : seqLen'[s] = starts[s] + Len(batch[s])
  BY <1>1, <1>2 DEF Ran
<1>5. Contents'
  <2> SUFFICES ASSUME NEW s \in 1 .. Len(seqLen'), NEW il \in 0 .. layers' - 1, NEW p \in 0 .. seqLen'[s] - 1
               PROVE  Written(s, il, p)'
    BY DEF Contents
  <2> DEFINE row == RowAt(kv', s - 1, il, p)
             first == RowAt(kv', s - 1, 0, p)
  <2>1. s \in 1 .. n /\ il \in 0 .. layers - 1
    BY <1>3
  <2>2. seqLen'[s] = starts[s] + Len(batch[s])
    BY <1>3, <2>1
  <2>3. p \in 0 .. starts[s] + Len(batch[s]) - 1
    <3>1. starts[s] \in Nat /\ Len(batch[s]) \in Nat
      BY <1>1, <2>1
    <3> QED
      BY <2>2, <3>1
  <2>4. Wrote(starts, batch, rots, s, il, p) /\ Wrote(starts, batch, rots, s, 0, p)
    BY <1>1, <1>2, <2>1, <2>3
  <2>5. /\ Holds(kv', s - 1, p)
        /\ row \in Row /\ row.layer = il /\ row.pos = p /\ row.tok = first.tok /\ row.rot = first.rot
    BY <2>1, <2>3, <2>4, RowsAfterForward
  <2>6. RowAt(kv, s - 1, il, p)' = row /\ RowAt(kv, s - 1, 0, p)' = first
    BY <1>3, RowAfter
  <2> HIDE DEF row, first
  <2> QED
    BY <2>5, <2>6 DEF Written
<1>6. ASSUME NEW s \in 1 .. n, NEW p \in 1 .. starts[s] + Len(batch[s])
      PROVE  TokenAt(s, p)' = IF p <= starts[s] THEN TokenAt(s, p) ELSE batch[s][p - starts[s]]
  <2> DEFINE b == p - 1
             first == RowAt(kv', s - 1, 0, b)
  <2>1. starts[s] \in Nat /\ Len(batch[s]) \in Nat
    BY <1>1
  <2>2. b \in 0 .. starts[s] + Len(batch[s]) - 1 /\ b + 1 = p /\ b - starts[s] + 1 = p - starts[s]
        /\ (b < starts[s] <=> p <= starts[s])
    BY <2>1
  <2>3. TokenAt(s, p)' = first.tok
    BY <1>3, RowAfter DEF TokenAt
  <2> HIDE DEF b
  <2>4. first.tok = IF b < starts[s] THEN TokenAt(s, b + 1) ELSE batch[s][b - starts[s] + 1]
    BY <1>1, <1>2, <2>2, RowsAfterForward
  <2> HIDE DEF first
  <2> QED
    BY <2>2, <2>3, <2>4
<1> QED
  BY <1>2, <1>5, <1>6

(* The log of sequence s, or what a new sequence starts with.              *)
LogOf(s) == IF s <= Len(Attended) THEN Attended[s] ELSE << >>

LEMMA LogIs ==
  ASSUME IInv, layers # 0, Contents, NEW s \in Nat \ {0}
  PROVE  LogOf(s) = [p \in 1 .. StartOf(s) |-> TokenAt(s, p)]
<1> DEFINE tokens(t) == [p \in 1 .. seqLen[t] |-> TokenAt(t, p)]
<1>1. Attended = [t \in 1 .. Len(seqLen) |-> tokens(t)]
  BY AttendedTokens
<1>2. Len(seqLen) \in Nat
  BY DEF IInv
<1> HIDE DEF tokens
<1>3. Len(Attended) = Len(seqLen)
  BY <1>1, <1>2
<1>4. CASE s <= Len(seqLen)
  <2>1. LogOf(s) = tokens(s)
    BY <1>1, <1>2, <1>3, <1>4 DEF LogOf
  <2>2. StartOf(s) = seqLen[s]
    BY <1>4 DEF StartOf
  <2> QED
    BY <2>1, <2>2 DEF tokens
<1>5. CASE ~(s <= Len(seqLen))
  <2>1. LogOf(s) = << >> /\ StartOf(s) = 0
    BY <1>3, <1>5 DEF LogOf, StartOf
  <2>2. [p \in 1 .. 0 |-> TokenAt(s, p)] = << >>
    OBVIOUS
  <2> QED
    BY <2>1, <2>2
<1> QED
  BY <1>4, <1>5

(* g goes on after the first a elements, those of f, with the ones of v.   *)
GoesOn(f, a, v, g) ==
  /\ f = [i \in 1 .. a |-> f[i]] /\ g = [i \in 1 .. a + Len(v) |-> g[i]]
  /\ \A i \in 1 .. a + Len(v) : g[i] = IF i <= a THEN f[i] ELSE v[i - a]

LEMMA SeqIsFunction ==
  ASSUME NEW S, NEW q \in Seq(S)
  PROVE  q = [i \in 1 .. Len(q) |-> q[i]]
OBVIOUS

LEMMA Extends ==
  ASSUME NEW S, NEW v \in Seq(S), NEW a \in Nat, NEW f, NEW g, GoesOn(f, a, v, g)
  PROVE  f \o v = g
<1>1. \A i \in 1 .. a + Len(v) : g[i] = IF i <= a THEN f[i] ELSE v[i - a]
  BY DEF GoesOn
<1> DEFINE T == S \cup {f[i] : i \in 1 .. a}
<1>2. f \in [1 .. a -> T]
  BY DEF GoesOn
<1>3. v \in Seq(T)
  OBVIOUS
<1> HIDE DEF T
<1>4. f \in Seq(T) /\ Len(f) = a
  BY <1>2, FunctionIsSeq
<1>5. /\ f \o v \in Seq(T) /\ Len(f \o v) = a + Len(v)
      /\ \A i \in 1 .. a + Len(v) : (f \o v)[i] = IF i <= a THEN f[i] ELSE v[i - a]
  BY <1>3, <1>4, ConcatProperties
<1>6. f \o v = [i \in 1 .. a + Len(v) |-> (f \o v)[i]]
  <2> DEFINE q == f \o v
  <2>1. q \in Seq(T) /\ Len(q) = a + Len(v)
    BY <1>5
  <2> HIDE DEF q
  <2>2. q = [i \in 1 .. a + Len(v) |-> q[i]]
    BY <2>1, SeqIsFunction
  <2> QED
    BY <2>2 DEF q
<1>7. \A i \in 1 .. a + Len(v) : (f \o v)[i] = g[i]
  BY <1>1, <1>5
<1>8. g = [i \in 1 .. a + Len(v) |-> g[i]]
  BY DEF GoesOn
<1> QED
  BY <1>6, <1>7, <1>8, Zenon

(* A forward appends to every log of its batch exactly its tokens.         *)
LEMMA ForwardExtendsLogs ==
  ASSUME IInv, IInv', layers # 0, Contents, NEW n, NEW starts, NEW batch, NEW rots,
         Given(n, starts, batch, rots), Continues(n, starts), Safe(n),
         ForwardImpl(starts, batch, rots), reply' = "ok"
  PROVE  /\ Contents' /\ Ran(starts, batch)
         /\ Attended' = [s \in 1 .. Len(batch) |-> LogOf(s) \o batch[s]]
<1>1. /\ Contents' /\ Ran(starts, batch)
      /\ \A s \in 1 .. n : \A p \in 1 .. starts[s] + Len(batch[s]) :
           TokenAt(s, p)' = IF p <= starts[s] THEN TokenAt(s, p) ELSE batch[s][p - starts[s]]
  BY ForwardKeepsContents
<1>2. /\ Len(batch) = n /\ n \in Nat
      /\ \A s \in 1 .. n : Len(batch[s]) \in Nat /\ starts[s] \in Nat
  BY GivenRuns
<1>3. layers' = layers /\ Len(seqLen') = n /\ \A s \in 1 .. n : seqLen'[s] = starts[s] + Len(batch[s])
  BY <1>1, <1>2 DEF Ran
<1>4. (IInv /\ layers # 0 /\ Contents =>
        Attended = [s \in 1 .. Len(seqLen) |-> [p \in 1 .. seqLen[s] |-> TokenAt(s, p)]])'
  BY AttendedTokens, PTL
<1>5. Attended' = [s \in 1 .. n |-> [p \in 1 .. starts[s] + Len(batch[s]) |-> TokenAt(s, p)']]
  BY <1>1, <1>3, <1>4
<1>6. ASSUME NEW s \in 1 .. n
      PROVE  LogOf(s) \o batch[s] = [p \in 1 .. starts[s] + Len(batch[s]) |-> TokenAt(s, p)']
  <2>1. starts[s] = StartOf(s) /\ starts[s] \in Nat /\ s \in Nat \ {0}
    BY <1>2 DEF Continues
  <2>2. LogOf(s) = [p \in 1 .. starts[s] |-> TokenAt(s, p)]
    BY <2>1, LogIs
  <2>3. batch[s] \in Seq(Tokens)
    BY DEF Given, Runs
  <2>4. [p \in 1 .. starts[s] |-> TokenAt(s, p)] \o batch[s] =
          [p \in 1 .. starts[s] + Len(batch[s]) |-> TokenAt(s, p)']
    <3> DEFINE f == [p \in 1 .. starts[s] |-> TokenAt(s, p)]
               g == [p \in 1 .. starts[s] + Len(batch[s]) |-> TokenAt(s, p)']
    <3>1. \A p \in 1 .. starts[s] : f[p] = TokenAt(s, p)
      OBVIOUS
    <3>2. \A p \in 1 .. starts[s] + Len(batch[s]) :
            g[p] = IF p <= starts[s] THEN TokenAt(s, p) ELSE batch[s][p - starts[s]]
      BY <1>1
    <3>3. f = [p \in 1 .. starts[s] |-> f[p]] /\ g = [p \in 1 .. starts[s] + Len(batch[s]) |-> g[p]]
      OBVIOUS
    <3> HIDE DEF f, g
    <3>4. Len(batch[s]) \in Nat
      BY <1>2
    <3>5. GoesOn(f, starts[s], batch[s], g)
      <4>1. \A i \in 1 .. starts[s] + Len(batch[s]) :
              g[i] = IF i <= starts[s] THEN f[i] ELSE batch[s][i - starts[s]]
        BY <2>1, <3>1, <3>2, <3>4
      <4> QED
        BY <3>3, <4>1, Zenon DEF GoesOn
    <3>6. f \o batch[s] = g
      <4> DEFINE v == batch[s]
                 a == starts[s]
      <4>1. v \in Seq(Tokens) /\ a \in Nat /\ GoesOn(f, a, v, g)
        BY <2>1, <2>3, <3>5
      <4> HIDE DEF v, a
      <4>2. f \o v = g
        BY <4>1, Extends
      <4> QED
        BY <4>2 DEF v
    <3> QED
      BY <3>6 DEF f, g
  <2> QED
    BY <2>2, <2>4
<1> QED
  BY <1>1, <1>2, <1>5, <1>6

-----------------------------------------------------------------------------
(* What every call of the hosts does to the log.                           *)

LogNext ==
  \/ call'.op = "forward" /\ Attended' = [s \in 1 .. Len(call'.batch) |-> LogOf(s) \o call'.batch[s]]
  \/ call'.op = "reset" /\ Attended' = << << >> >>
  \/ call'.op \in {"reserve", "refused"} /\ Attended' = Attended
  \/ call' = call /\ Attended' = Attended

(* The slabs after a call of n sequences.                                  *)
Outgrown(n) ==
  \/ kv'.cap = kv.cap /\ kv'.slots = kv.slots
  \/ kv'.slots = n /\ ~(kv.cap >= Capacity /\ kv.slots >= n)

LEMMA StillLogs ==
  ASSUME Contents, UNCHANGED <<layers, seqLen, kv>>
  PROVE  Contents' /\ Attended' = Attended /\ \A n : Outgrown(n)
BY DEF Contents, Written, Holds, RowAt, Address, Attended, ReadBack, Outgrown

(* With nothing cached there is nothing to keep.                           *)
LEMMA NothingCached ==
  /\ seqLen = << 0 >> => Contents /\ Attended = << << >> >>
<1> SUFFICES ASSUME seqLen = << 0 >> PROVE Contents /\ Attended = << << >> >>
  OBVIOUS
<1>1. Len(seqLen) = 1 /\ seqLen[1] = 0
  OBVIOUS
<1>2. Contents
  BY <1>1 DEF Contents
<1> DEFINE read(s, p) ==
             LET tok == ReadBack(0, s - 1, p - 1)
             IN  IF \A il \in 1 .. layers - 1 : ReadBack(il, s - 1, p - 1) = tok THEN tok ELSE Junk
<1>3. Attended = [s \in 1 .. Len(seqLen) |-> [p \in 1 .. seqLen[s] |-> read(s, p)]]
  BY DEF Attended
<1> HIDE DEF read
<1>4. Attended = [s \in 1 .. 1 |-> << >>]
  BY <1>1, <1>3
<1> QED
  BY <1>2, <1>4

LEMMA ResetLogs ==
  ASSUME Contents, Reset
  PROVE  Contents' /\ LogNext /\ layers' = layers /\ kv' = kv
<1>1. seqLen' = << 0 >> /\ call'.op = "reset" /\ layers' = layers /\ kv' = kv
  BY DEF Reset
<1>2. (seqLen = << 0 >> => Contents /\ Attended = << << >> >>)'
  BY NothingCached, PTL
<1> QED
  BY <1>1, <1>2 DEF LogNext

LEMMA RefusalLogs ==
  ASSUME Contents, NEW why, Refuse(why)
  PROVE  Contents' /\ LogNext /\ layers' = layers /\ \A n : Outgrown(n)
<1>1. UNCHANGED <<layers, seqLen, kv>> /\ call'.op = "refused"
  BY DEF Refuse
<1> QED
  BY <1>1, StillLogs DEF LogNext

(* A reservation, with nothing cached: the slabs may be new.               *)
LEMMA ReserveLogs ==
  ASSUME Contents, seqLen = << 0 >>, NEW positions, NEW slots, Reserve(positions, slots)
  PROVE  Contents' /\ LogNext /\ layers' = layers
<1>1. CASE positions > Capacity
  BY <1>1, RefusalLogs DEF Reserve
<1>2. CASE ~(positions > Capacity)
  <2>1. seqLen' = << 0 >> /\ call'.op = "reserve" /\ layers' = layers
    BY <1>2 DEF Reserve
  <2>2. Attended = << << >> >>
    BY NothingCached
  <2>3. (seqLen = << 0 >> => Contents /\ Attended = << << >> >>)'
    BY NothingCached, PTL
  <2> QED
    BY <2>1, <2>2, <2>3 DEF LogNext
<1> QED
  BY <1>1, <1>2

LEMMA BatchLogs ==
  ASSUME IInv, IInv', layers # 0, Contents, NEW n, NEW starts, NEW batch, NEW rots,
         Given(n, starts, batch, rots), Continues(n, starts), Safe(n),
         ForwardImpl(starts, batch, rots)
  PROVE  Contents' /\ LogNext /\ layers' = layers /\ Outgrown(n)
<1>1. /\ batch \in Batches /\ Len(batch) = n
      /\ \A s \in 1 .. Len(batch) : starts[s] \in Nat
  BY GivenRuns
<1>2. CASE Refuse("context_length")
  BY <1>2, RefusalLogs
<1>3. CASE Ran(starts, batch)
  <2>1. reply' = "ok" /\ layers' = layers /\ call' = [op |-> "forward", batch |-> batch]
    BY <1>3 DEF Ran
  <2>2. /\ Contents'
        /\ Attended' = [s \in 1 .. Len(batch) |-> LogOf(s) \o batch[s]]
    BY <2>1, ForwardExtendsLogs
  <2>3. Outgrown(n)
    BY <2>1, ForwardWrites DEF Outgrown
  <2>4. call'.op = "forward" /\ call'.batch = batch
    BY <2>1
  <2> QED
    BY <2>1, <2>2, <2>3, <2>4 DEF LogNext
<1> QED
  BY <1>1, <1>2, <1>3, ForwardImplDoes

(* One sequence, from where it is.                                         *)
LEMMA OneGiven ==
  ASSUME IInv, NEW run \in Runs, NEW rots \in Turns, Len(rots) = Len(run), NEW start \in Nat,
         start = seqLen[1]
  PROVE  Given(1, <<start>>, <<run>>, <<rots>>) /\ Continues(1, <<start>>)
<1> DEFINE batch == <<run>>
           starts == <<start>>
           turned == <<rots>>
<1>1. /\ batch \in [1 .. 1 -> Runs] /\ starts \in [1 .. 1 -> Nat] /\ turned \in [1 .. 1 -> Turns]
      /\ batch[1] = run /\ starts[1] = start /\ turned[1] = rots /\ 1 \in Nat \ {0}
  OBVIOUS
<1>2. Len(seqLen) \in Nat \ {0}
  BY DEF IInv
<1> HIDE DEF batch, starts, turned
<1>3. SameLengths(batch, turned, 1)
  BY <1>1 DEF SameLengths
<1>4. Given(1, starts, batch, turned)
  BY <1>1, <1>3 DEF Given
<1>5. Continues(1, starts)
  BY <1>1, <1>2 DEF Continues, StartOf
<1> QED
  BY <1>4, <1>5 DEF batch, starts, turned

LEMMA TurnedLogs ==
  ASSUME IInv, IInv', layers # 0, Contents, Safe(1), NEW run \in Runs, NEW start, NEW rots \in Turns,
         Len(rots) = Len(run), ForwardTurned(run, start, rots)
  PROVE  Contents' /\ LogNext /\ layers' = layers /\ Outgrown(1)
<1>1. CASE start # seqLen[1]
  BY <1>1, RefusalLogs DEF ForwardTurned
<1>2. CASE start = seqLen[1]
  <2>1. start \in Nat
    BY <1>2, SeqLenStart
  <2>2. ForwardImpl(<<start>>, <<run>>, <<rots>>)
    BY <1>2 DEF ForwardTurned
  <2>3. Given(1, <<start>>, <<run>>, <<rots>>) /\ Continues(1, <<start>>)
    BY <1>2, <2>1, OneGiven
  <2> QED
    BY <2>2, <2>3, BatchLogs
<1> QED
  BY <1>1, <1>2

LEMMA SpanLogs ==
  ASSUME IInv, IInv', layers # 0, Contents, Safe(1), NEW run \in Runs, NEW start \in Nat,
         ForwardSpan(run, start)
  PROVE  Contents' /\ LogNext /\ layers' = layers /\ Outgrown(1)
<1>1. PICK rots \in Turns : Len(rots) = Len(run) /\ rots = Plain(<<start>>, <<run>>)[1]
  BY SpanIsTurned
<1>2. ForwardTurned(run, start, rots)
  BY <1>1 DEF ForwardSpan
<1> QED
  BY <1>1, <1>2, TurnedLogs

LEMMA OneLogs ==
  ASSUME IInv, IInv', layers # 0, Contents, Safe(1), NEW run \in Runs, Forward(run)
  PROVE  Contents' /\ LogNext /\ layers' = layers /\ Outgrown(1)
<1>1. CASE position # seqLen[1]
  BY <1>1, RefusalLogs DEF Forward
<1>2. CASE position = seqLen[1]
  <2> DEFINE batch == <<run>>
             starts == <<position>>
             rots == Plain(starts, batch)
  <2>1. position \in Nat /\ Len(seqLen) \in Nat \ {0}
    BY <1>2, SeqLenStart DEF IInv
  <2>2. ForwardImpl(starts, batch, rots)
    BY <1>2 DEF Forward
  <2>3. /\ batch \in [1 .. 1 -> Runs] /\ starts \in [1 .. 1 -> Nat] /\ starts[1] = position
        /\ 1 \in Nat \ {0}
    BY <2>1
  <2> HIDE DEF batch, starts
  <2>4. rots \in [1 .. 1 -> Turns] /\ \A s \in 1 .. 1 : Len(rots[s]) = Len(batch[s])
    BY <2>3, PlainIsTurns
  <2> HIDE DEF rots
  <2>5. Given(1, starts, batch, rots)
    BY <2>3, <2>4 DEF Given, SameLengths
  <2>6. Continues(1, starts)
    BY <1>2, <2>1, <2>3 DEF Continues, StartOf
  <2> QED
    BY <2>2, <2>5, <2>6, BatchLogs
<1> QED
  BY <1>1, <1>2

LEMMA GroupLogs ==
  ASSUME IInv, IInv', layers # 0, Contents, NEW n \in Nat \ {0}, NEW batch \in [1 .. n -> Runs],
         Safe(n), ForwardBatch(batch)
  PROVE  Contents' /\ LogNext /\ layers' = layers /\ Outgrown(n)
<1> DEFINE starts == [s \in 1 .. Len(batch) |-> IF s <= Len(seqLen) THEN seqLen[s] ELSE 0]
           rots == Plain(starts, batch)
<1>1. ForwardImpl(starts, batch, rots)
  BY DEF ForwardBatch
<1>2. Len(batch) = n
  OBVIOUS
<1>3. starts = [s \in 1 .. n |-> StartOf(s)]
  BY <1>2 DEF StartOf
<1>4. \A s \in 1 .. n : StartOf(s) \in Nat
  BY StartsAreNumbers
<1> HIDE DEF starts
<1>5. starts \in [1 .. n -> Nat] /\ Continues(n, starts)
  BY <1>3, <1>4 DEF Continues
<1>6. rots \in [1 .. n -> Turns] /\ \A s \in 1 .. n : Len(rots[s]) = Len(batch[s])
  BY <1>5, PlainIsTurns
<1> HIDE DEF rots
<1>7. Given(n, starts, batch, rots)
  BY <1>5, <1>6 DEF Given, SameLengths
<1> QED
  BY <1>1, <1>5, <1>7, BatchLogs

(* The hosts that make no reservation have one slot and go on having one.  *)
LEMMA OneSlot ==
  ASSUME LInv, host \notin {"serving", "abi"}
  PROVE  /\ Safe(1) /\ Contents /\ layers # 0
         /\ Contents' /\ LogNext /\ layers' = layers /\ host' = host
            /\ (Outgrown(1) \/ kv' = kv) => LInv' /\ LogNext
<1>1. kv.slots <= 1 /\ Contents /\ layers # 0
  BY DEF LInv, Reserved
<1>2. Safe(1)
  BY <1>1 DEF Safe
<1>3. ASSUME Contents', LogNext, layers' = layers, host' = host, Outgrown(1) \/ kv' = kv
      PROVE  LInv' /\ LogNext
  <2>1. kv'.slots <= 1
    BY <1>1, <1>3 DEF Outgrown
  <2> QED
    BY <1>1, <1>3, <2>1 DEF LInv, Reserved
<1> QED
  BY <1>1, <1>2, <1>3

LEMMA SessionLogs ==
  ASSUME HInv, LInv, IInv', SessionNext
  PROVE  LInv' /\ LogNext
<1>1. host = "session" /\ host' = host /\ IInv
  BY DEF SessionNext, hostVars, HInv
<1>2. CASE Reset
  BY <1>1, <1>2, OneSlot, ResetLogs
<1>3. ASSUME NEW n \in 1 .. 2, NEW run \in [1 .. n -> {1, 2}], Forward(run) PROVE LInv' /\ LogNext
  <2>1. run \in [1 .. n -> Tokens] /\ n \in Nat \ {0}
    BY HostTokens
  <2>2. run \in Runs
    BY <2>1, TokensAreRuns
  <2> QED
    BY <1>1, <1>3, <2>2, OneSlot, OneLogs
<1> QED
  BY <1>2, <1>3 DEF SessionNext

LEMMA ComposeLogs ==
  ASSUME HInv, LInv, IInv', ComposeNext
  PROVE  LInv' /\ LogNext
<1>0. host \notin {"serving", "abi"}
  BY DEF ComposeNext, ComposeImage, ImageBefore, ImageSpan, ImageAfter, ComposeSound,
     SoundBefore, SoundWindow, SoundThrows, SoundAfter, SoundToken
<1>1. host' = host /\ IInv /\ Safe(1) /\ Contents /\ layers # 0
  BY <1>0, OneSlot DEF ComposeNext, HInv
<1>2. CASE ComposeImage \/ ComposeSound
  <2>1. Reset
    BY <1>2 DEF ComposeImage, ComposeSound
  <2> QED
    BY <1>0, <1>1, <2>1, OneSlot, ResetLogs
<1>3. ASSUME NEW run \in Runs, Forward(run) PROVE LInv' /\ LogNext
  BY <1>0, <1>1, <1>3, OneSlot, OneLogs
<1>4. CASE ImageBefore \/ SoundBefore
  <2>1. composing.at = "before" /\ Forward(TokensOf(BeforeToken, composing.before))
    BY <1>4 DEF ImageBefore, SoundBefore
  <2>2. composing.before \in Nat \ {0}
    BY <2>1, ComposingFields DEF HInv
  <2>3. TokensOf(BeforeToken, composing.before) \in Runs
    BY <2>2, HostTokens, TokensOfIsRun
  <2> QED
    BY <1>3, <2>1, <2>3
<1>5. ASSUME NEW run \in Runs, NEW start, NEW rots \in Turns, Len(rots) = Len(run),
             ForwardTurned(run, start, rots)
      PROVE  LInv' /\ LogNext
  BY <1>0, <1>1, <1>5, OneSlot, TurnedLogs
<1>6. CASE ImageSpan
  <2> DEFINE tokens == composing.w * composing.h
             run == TokensOf(MediaToken, tokens)
             rots == GridPositions(composing.start, tokens)
  <2>1. host = "vlm" /\ composing.at = "span" /\ ForwardTurned(run, composing.start, rots)
    BY <1>6 DEF ImageSpan
  <2>2. tokens \in Nat \ {0} /\ composing.start \in Nat
    BY <2>1, ComposingFields, ProductPositive DEF HInv
  <2> HIDE DEF tokens
  <2>3. run \in Runs /\ rots \in Turns /\ Len(run) = tokens /\ Len(rots) = tokens
    BY <2>2, HostTokens, TokensOfIsRun, GridIsTurns
  <2> HIDE DEF run, rots
  <2> QED
    BY <1>5, <2>1, <2>3
<1>7. CASE ImageAfter
  <2> DEFINE base == AfterBase(composing.start, composing.w * composing.h)
             run == TokensOf(AfterToken, composing.after)
             rots == TextPositions(base, composing.after)
  <2>1. host = "vlm" /\ composing.at = "after" /\ ForwardTurned(run, seqLen[1], rots)
    BY <1>7 DEF ImageAfter
  <2>2. /\ composing.w * composing.h \in Nat \ {0} /\ composing.start \in Nat
        /\ composing.after \in Nat \ {0}
    BY <2>1, ComposingFields, ProductPositive DEF HInv
  <2>3. base \in Nat
    <3>1. Side(composing.w * composing.h) \in Nat
      BY <2>2, SideRounds
    <3> QED
      BY <2>2, <3>1 DEF AfterBase
  <2> HIDE DEF base
  <2>4. run \in Runs /\ rots \in Turns /\ Len(run) = composing.after /\ Len(rots) = composing.after
    BY <2>2, <2>3, HostTokens, TokensOfIsRun, TextIsTurns
  <2> HIDE DEF run, rots
  <2> QED
    BY <1>5, <2>1, <2>4
<1>8. CASE SoundWindow
  <2> DEFINE run == TokensOf(MediaToken, composing.width)
  <2>1. host = "asr" /\ composing.at = "span" /\ ForwardSpan(run, seqLen[1])
    BY <1>8 DEF SoundWindow, WindowStart
  <2>2. composing.width \in Nat \ {0} /\ seqLen[1] \in Nat
    BY <1>1, <2>1, ComposingFields, SeqLenStart DEF HInv
  <2>3. run \in Runs
    BY <2>2, HostTokens, TokensOfIsRun
  <2> HIDE DEF run
  <2> QED
    BY <1>0, <1>1, <2>1, <2>2, <2>3, OneSlot, SpanLogs
<1>9. CASE SoundThrows
  <2>1. UNCHANGED <<layers, seqLen, kv, call>>
    BY <1>9 DEF SoundThrows, allVars, vars
  <2>2. Contents' /\ Attended' = Attended /\ kv' = kv /\ layers' = layers
    BY <1>1, <2>1, StillLogs
  <2>3. LogNext
    BY <2>1, <2>2 DEF LogNext
  <2> QED
    BY <1>0, <1>1, <2>2, <2>3, OneSlot
<1>10. CASE SoundAfter
  <2>1. composing.at = "after" /\ Forward(TokensOf(AfterToken, composing.after))
    BY <1>10 DEF SoundAfter
  <2>2. composing.after \in Nat \ {0}
    BY <2>1, ComposingFields DEF HInv
  <2>3. TokensOf(AfterToken, composing.after) \in Runs
    BY <2>2, HostTokens, TokensOfIsRun
  <2> QED
    BY <1>3, <2>1, <2>3
<1>11. CASE SoundToken
  <2>1. Forward(<<MadeToken>>) /\ <<MadeToken>> \in Runs
    BY <1>11, HostTokens, OneTokenIsRun DEF SoundToken
  <2> QED
    BY <1>3, <2>1
<1> QED
  BY <1>2, <1>4, <1>6, <1>7, <1>8, <1>9, <1>10, <1>11 DEF ComposeNext

(* The serving loop: over one layer, or with the whole context reserved.   *)
LEMMA ServingLogs ==
  ASSUME HInv, LInv, IInv', ServingNext
  PROVE  LInv' /\ LogNext
<1>1. /\ host = "serving" /\ host' = host /\ IInv /\ Contents /\ layers # 0 /\ ServingInv
      /\ \/ layers = 1
         \/ Window >= Capacity /\ (kv.slots <= 1 \/ (kv.cap >= Capacity /\ kv.slots >= MaxBatch))
  BY DEF ServingNext, hostVars, HInv, LInv, Reserved
<1>2. /\ Window \in Nat /\ Capacity \in Nat /\ MaxBatch \in Nat \ {0}
      /\ kv.cap \in Nat /\ kv.slots \in Nat
  BY <1>1, ServingAssumption, KvAssumption DEF IInv, SlabOK
<1>3. CASE SerialStart \/ GroupStart
  <2>1. Reset
    BY <1>3 DEF SerialStart, GroupStart
  <2>2. Contents' /\ LogNext /\ layers' = layers /\ kv' = kv
    BY <1>1, <2>1, ResetLogs
  <2> QED
    BY <1>1, <2>2 DEF LInv, Reserved
<1>4. CASE SerialToken
  <2> DEFINE job == jobs[1]
             run == IF job.made = 0 THEN Prompt(job) ELSE <<job.tok>>
  <2>1. phase = "serial" /\ Forward(run)
    BY <1>4 DEF SerialToken
  <2>2. job \in JobRecord
    <3>1. ServingTypes /\ Len(jobs) = 1
      BY <1>1, <2>1 DEF ServingInv, SerialInPlace
    <3> QED
      BY <3>1, JobsAreJobs
  <2> HIDE DEF job
  <2>3. run \in Runs
    BY <2>2, SerialRun
  <2> HIDE DEF run
  <2>4. Safe(1)
    BY <1>1, <1>2 DEF Safe
  <2>5. Contents' /\ LogNext /\ layers' = layers /\ Outgrown(1)
    BY <1>1, <2>1, <2>3, <2>4, OneLogs
  <2>6. Reserved'
    BY <1>1, <1>2, <2>5 DEF Reserved, Outgrown
  <2> QED
    BY <1>1, <2>5, <2>6 DEF LInv
<1>5. CASE GroupReserve
  <2>1. phase = "reserve" /\ Reserve(Window, MaxBatch)
    BY <1>5 DEF GroupReserve
  <2>2. seqLen = << 0 >>
    BY <1>1, <2>1 DEF ServingInv, GroupStarts
  <2>3. Contents' /\ LogNext /\ layers' = layers
    BY <1>1, <2>1, <2>2, ReserveLogs
  <2>4. kv' = kv \/ (kv'.cap >= Window /\ kv'.slots >= MaxBatch)
    BY <1>1, <1>2, <2>1, ReserveDoes DEF Refuse
  <2>5. kv'.cap \in Nat
    BY DEF IInv, SlabOK
  <2>6. Reserved'
    BY <1>1, <1>2, <2>3, <2>4, <2>5 DEF Reserved
  <2> QED
    BY <1>1, <2>3, <2>6 DEF LInv
<1>6. ASSUME NEW batch \in [1 .. Len(jobs) -> Runs], phase \in {"prefill", "decode"}, ForwardBatch(batch)
      PROVE  LInv' /\ LogNext
  <2>1. /\ Len(jobs) \in Nat \ {0} /\ Len(jobs) <= MaxBatch
        /\ kv.cap >= Window /\ kv.slots >= MaxBatch
    <3>1. GroupHasRoom /\ Len(jobs) >= 2 /\ ServingTypes
      BY <1>1, <1>6 DEF ServingInv, GroupStarts, GroupRuns
    <3> QED
      BY <3>1, JobsAreJobs DEF GroupHasRoom, ServingTypes
  <2>2. Safe(Len(jobs))
    BY <1>1, <1>2, <2>1 DEF Safe
  <2>3. Contents' /\ LogNext /\ layers' = layers /\ Outgrown(Len(jobs))
    <3> DEFINE n == Len(jobs)
    <3>1. n \in Nat \ {0} /\ batch \in [1 .. n -> Runs] /\ Safe(n)
      BY <2>1, <2>2
    <3> HIDE DEF n
    <3>2. Contents' /\ LogNext /\ layers' = layers /\ Outgrown(n)
      BY <1>1, <1>6, <3>1, GroupLogs
    <3> QED
      BY <3>2 DEF n
  <2>4. Reserved'
    BY <1>1, <1>2, <2>1, <2>3 DEF Reserved, Outgrown
  <2> QED
    BY <1>1, <2>3, <2>4 DEF LInv
<1>7. CASE GroupPrefill
  <2>1. phase = "prefill" /\ ForwardBatch(PromptBatch)
    BY <1>7 DEF GroupPrefill, PromptBatch
  <2>2. \A s \in 1 .. Len(jobs) : Prompt(jobs[s]) \in Runs
    BY <1>1, JobsAreJobs, PromptIsRun DEF ServingInv
  <2>3. PromptBatch \in [1 .. Len(jobs) -> Runs]
    BY <2>2 DEF PromptBatch
  <2> QED
    BY <1>6, <2>1, <2>3
<1>8. CASE GroupDecode
  <2>1. phase = "decode" /\ ForwardBatch(StepBatch)
    BY <1>8 DEF GroupDecode, StepBatch
  <2>2. \A s \in 1 .. Len(jobs) : jobs[s].tok \in Tokens
    BY <1>1, JobsAreJobs, JobFields DEF ServingInv
  <2>3. \A s \in 1 .. Len(jobs) :
          (IF jobs[s].done THEN <<FinishedToken>> ELSE <<jobs[s].tok>>) \in Runs
    BY <2>2, HostTokens, OneTokenIsRun
  <2>4. StepBatch \in [1 .. Len(jobs) -> Runs]
    BY <2>3 DEF StepBatch
  <2> QED
    BY <1>6, <2>1, <2>4
<1> QED
  BY <1>3, <1>4, <1>5, <1>7, <1>8 DEF ServingNext, ServeNext

(* No call changes the number of layers.                                   *)
LEMMA LayersStay == [Next]_vars => layers' = layers
<1>1. \A starts, batch, rots : ForwardImpl(starts, batch, rots) => layers' = layers
  BY DEF ForwardImpl, Refuse
<1> QED
  BY <1>1 DEF Next, Forward, ForwardTurned, ForwardBatch, Reserve, Reset, Refuse, vars

LEMMA LogStep ==
  ASSUME HInv, LInv, HostsNext
  PROVE  /\ LInv'
         /\ \/ host # "abi" /\ host' # "abi" /\ LogNext
            \/ host = "abi" /\ host' = "abi"
<1>1. IInv' /\ layers' = layers
  <2>1. [Next]_vars /\ IInv
    BY HostsStepIsCall DEF HInv
  <2> QED
    BY <2>1, StepKeeps, StutterKeeps, LayersStay
<1>2. CASE SessionNext
  <2>1. host = "session" /\ host' = host
    BY <1>2 DEF SessionNext, hostVars
  <2> QED
    BY <1>1, <1>2, <2>1, SessionLogs
<1>3. CASE AbiNext
  <2>1. host = "abi" /\ host' = "abi"
    BY <1>3 DEF AbiNext, hostVars
  <2>2. layers # 0
    BY DEF LInv
  <2> QED
    BY <1>1, <2>1, <2>2 DEF LInv, Reserved
<1>4. CASE ServingNext
  <2>1. host = "serving" /\ host' = host
    BY <1>4 DEF ServingNext, hostVars
  <2> QED
    BY <1>1, <1>4, <2>1, ServingLogs
<1>5. CASE ComposeNext
  <2>1. host \notin {"serving", "abi"} /\ host' = host
    BY <1>5 DEF ComposeNext, ComposeImage, ImageBefore, ImageSpan, ImageAfter, ComposeSound,
       SoundBefore, SoundWindow, SoundThrows, SoundAfter, SoundToken
  <2> QED
    BY <1>1, <1>5, <2>1, ComposeLogs
<1> QED
  BY <1>2, <1>3, <1>4, <1>5 DEF HostsNext

LEMMA LogStutter ==
  ASSUME HInv, LInv, UNCHANGED everything
  PROVE  LInv' /\ UNCHANGED <<call, host>> /\ (host # "abi" => Attended' = Attended)
<1>1. UNCHANGED <<layers, seqLen, kv, call, host>>
  BY DEF everything, allVars, vars, hostVars
<1>2. Contents => Contents' /\ Attended' = Attended
  BY <1>1, StillLogs
<1> QED
  BY <1>1, <1>2 DEF LInv, Reserved

LEMMA LogStarts ==
  ASSUME HostsInit, Min(LayerCounts) = 1 \/ Window >= Capacity
  PROVE  LInv /\ Attended = << << >> >> /\ call = [op |-> "open", batch |-> << >>]
<1>1. /\ layers \in LayerCounts /\ kv = NoSlab /\ seqLen = << 0 >>
      /\ call = [op |-> "open", batch |-> << >>]
      /\ host = "serving" => layers = Min(LayerCounts)
  BY DEF HostsInit, ServeInit, Init
<1>2. layers # 0 /\ kv.slots = 0
  BY <1>1, KvAssumption DEF NoSlab
<1>3. Contents /\ Attended = << << >> >>
  BY <1>1, NothingCached
<1> QED
  BY <1>1, <1>2, <1>3 DEF LInv, Reserved

(* LogNext is a step of KvLog.                                             *)
LEMMA LogNextIsLogStep ==
  ASSUME host # "abi", host' # "abi", LogNext
  PROVE  [Log!Next]_(Log!vars)
<1>1. CASE call'.op = "forward" /\ Attended' = [s \in 1 .. Len(call'.batch) |-> LogOf(s) \o call'.batch[s]]
  <2>1. Log!Forward
    BY <1>1 DEF Log!Forward, LogOf
  <2> QED
    BY <2>1 DEF Log!Next
<1>2. CASE call'.op = "reset" /\ Attended' = << << >> >>
  BY <1>2 DEF Log!Next, Log!Reset
<1>3. CASE call'.op \in {"reserve", "refused"} /\ Attended' = Attended
  BY <1>3 DEF Log!Next, Log!Other
<1>4. CASE call' = call /\ Attended' = Attended
  BY <1>4 DEF Log!vars
<1> QED
  BY <1>1, <1>2, <1>3, <1>4 DEF LogNext

(* A conversation, a served request and a composition attend, in every layer,
   to exactly what was fed to them since the last reset, through every growth
   of the slabs, reservation, refusal and other member of a batch (KvLog).  The
   serving loop must run over one layer or reserve the whole context: with two
   layers and a smaller window the growth misplaces the rows (the README gives
   the sequence).                                                          *)
THEOREM HostsKeepTheLog ==
  ASSUME Min(LayerCounts) = 1 \/ Window >= Capacity
  PROVE  HostsSpec => ImplementsLog
<1>1. HostsInit => LInv /\ Log!Init
  <2> SUFFICES ASSUME HostsInit PROVE LInv /\ Log!Init
    OBVIOUS
  <2>1. LInv /\ Attended = << << >> >> /\ call = [op |-> "open", batch |-> << >>]
    BY LogStarts
  <2> QED
    BY <2>1 DEF Log!Init
<1>2. HInv /\ LInv /\ [HostsNext]_everything => LInv' /\ [Log!Next]_(Log!vars)
  <2> SUFFICES ASSUME HInv, LInv, [HostsNext]_everything
               PROVE  LInv' /\ [Log!Next]_(Log!vars)
    OBVIOUS
  <2>1. CASE HostsNext
    <3>1. CASE host = "abi" /\ host' = "abi"
      BY <2>1, <3>1, LogStep DEF Log!vars
    <3> QED
      BY <2>1, <3>1, LogStep, LogNextIsLogStep
  <2>2. CASE UNCHANGED everything
    BY <2>2, LogStutter DEF Log!vars
  <2> QED
    BY <2>1, <2>2
<1> QED
  BY <1>1, <1>2, HostsInvariance, PTL DEF HostsSpec, ImplementsLog, Log!Spec

-----------------------------------------------------------------------------
(* Compositions: which token each row is of, and what it is turned by.  A
   composition lies in the cache as it was laid out at every stage of compose
   and after every history of earlier ones; CompositionInPlace is read off
   the last stage, and over a square grid it needs that the rounded root of a
   square is its side (Modalities).                                          *)

AllThree(position3) == [j \in 1 .. 3 |-> position3]

Media(c) == c.w * c.h + c.windows * c.width

(* How a composition given c lays the cache out.                           *)
LaidToken(c, p) ==
  IF p < c.before THEN BeforeToken
  ELSE IF p < c.before + Media(c) THEN MediaToken
  ELSE IF p < c.before + Media(c) + c.after THEN AfterToken ELSE MadeToken

LaidTurn(program, c, p) ==
  LET grid == c.w * c.h
  IN  IF program = "asr" \/ p < c.before THEN AllThree(p)
      ELSE IF p < c.before + grid THEN GridPositions(c.before, grid)[p - c.before + 1]
      ELSE AllThree(AfterBase(c.before, grid) + (p - (c.before + grid)))

(* How many of the rows are in, at each stage.                             *)
LaidRows(program, c) ==
  IF c.at = "before" THEN 0
  ELSE IF c.at = "span" THEN c.before + (IF program = "asr" THEN c.start * c.width ELSE 0)
  ELSE IF c.at = "after" THEN c.before + Media(c)
  ELSE c.before + Media(c) + c.after + c.made

FirstRow(p) == RowAt(kv, 0, 0, p)

LaidOut(c) ==
  /\ seqLen = << LaidRows(host, c) >>
  /\ \A p \in 0 .. LaidRows(host, c) - 1 :
       FirstRow(p).tok = LaidToken(c, p) /\ FirstRow(p).rot = LaidTurn(host, c, p)

VisionStage(c) ==
  /\ c.windows = 0 /\ c.made = 0
  /\ c.at # "before" => c.start = c.before
  /\ c.at = "done" => report.positions = AfterBase(c.before, c.w * c.h) + c.after

SoundStage(c) ==
  /\ c.w = 0 /\ c.windows \in Nat \ {0}
  /\ c.at = "span" => c.start < c.windows

Staged(c) ==
  /\ host \in {"vlm", "asr"}
  /\ host = "vlm" => VisionStage(c)
  /\ host = "asr" => SoundStage(c)
  /\ c.at # "done" => c.made = 0
  /\ c.at = "done" => report.rows = c.before + Media(c) + c.after
  /\ LaidOut(c)

CInv == composing.at # "no" => Staged(composing)

-----------------------------------------------------------------------------
(* What a forward of one run adds to the rows of the first layer.          *)
Laid(run, rots) ==
  /\ layers' = layers /\ seqLen' = << seqLen[1] + Len(run) >>
  /\ \A p \in 0 .. seqLen[1] - 1 : RowAt(kv', 0, 0, p) = FirstRow(p)
  /\ \A i \in 1 .. Len(run) : /\ RowAt(kv', 0, 0, seqLen[1] + i - 1).tok = run[i]
                              /\ RowAt(kv', 0, 0, seqLen[1] + i - 1).rot = rots[i]

LEMMA RunLays ==
  ASSUME IInv, layers # 0, Contents, Safe(1), NEW run \in Runs, NEW rots \in Turns,
         Len(rots) = Len(run), ForwardImpl(<< seqLen[1] >>, << run >>, << rots >>), reply' = "ok"
  PROVE  Laid(run, rots)
<1> DEFINE start == seqLen[1]
           starts == << start >>
           batch == << run >>
           turned == << rots >>
<1>1. start \in Nat /\ Len(run) \in Nat \ {0} /\ layers \in Nat
  BY SeqLenStart DEF IInv, Runs
<1>2. Given(1, starts, batch, turned) /\ Continues(1, starts)
  BY <1>1, OneGiven
<1>3. starts[1] = start /\ batch[1] = run /\ turned[1] = rots /\ Len(batch) = 1 /\ Len(turned) = 1
  OBVIOUS
<1>4. ForwardImpl(starts, batch, turned)
  OBVIOUS
<1> HIDE DEF starts, batch, turned
<1>5. /\ Ran(starts, batch)
      /\ \A s \in 1 .. 1, il \in 0 .. layers - 1 : \A p \in 0 .. starts[s] + Len(batch[s]) - 1 :
           Wrote(starts, batch, turned, s, il, p)
  BY <1>2, <1>4, ForwardWrites
<1>6. layers' = layers /\ seqLen' = << start + Len(run) >>
  BY <1>3, <1>5 DEF Ran
<1>7. 0 \in 0 .. layers - 1
  BY <1>1
<1>8. ASSUME NEW p \in 0 .. start + Len(run) - 1 PROVE Wrote(starts, batch, turned, 1, 0, p)
  BY <1>3, <1>5, <1>7
<1>9. ASSUME NEW p \in 0 .. start - 1 PROVE RowAt(kv', 0, 0, p) = FirstRow(p)
  <2>1. p \in 0 .. start + Len(run) - 1 /\ p \in Nat /\ p < starts[1]
    BY <1>1, <1>3
  <2>2. Wrote(starts, batch, turned, 1, 0, p)
    BY <1>8, <2>1
  <2>3. RowAt(kv', 1 - 1, 0, p) = RowAt(kv, 1 - 1, 0, p)
    BY <1>2, <1>7, <2>1, <2>2, OldRowsStay
  <2> QED
    BY <2>3 DEF FirstRow
<1>10. ASSUME NEW i \in 1 .. Len(run)
       PROVE  /\ RowAt(kv', 0, 0, start + i - 1).tok = run[i]
              /\ RowAt(kv', 0, 0, start + i - 1).rot = rots[i]
  <2> DEFINE p == start + i - 1
  <2>1. p \in 0 .. start + Len(run) - 1 /\ ~(p < starts[1]) /\ p - starts[1] + 1 = i
    BY <1>1, <1>3
  <2>2. Wrote(starts, batch, turned, 1, 0, p)
    BY <1>8, <2>1
  <2> HIDE DEF p
  <2>3. RowAt(kv', 1 - 1, 0, p) = [layer |-> 0, pos |-> p, tok |-> run[i], rot |-> rots[i]]
    BY <1>3, <2>1, <2>2 DEF Wrote
  <2>4. RowAt(kv', 0, 0, p).tok = run[i] /\ RowAt(kv', 0, 0, p).rot = rots[i]
    BY <2>3
  <2> QED
    BY <2>4 DEF p
<1> QED
  BY <1>6, <1>9, <1>10 DEF Laid

LEMMA TurnedLays ==
  ASSUME IInv, layers # 0, Contents, Safe(1), NEW run \in Runs, NEW start, NEW rots \in Turns,
         Len(rots) = Len(run), ForwardTurned(run, start, rots), reply' = "ok"
  PROVE  Laid(run, rots)
<1>1. start = seqLen[1] /\ ForwardImpl(<< seqLen[1] >>, << run >>, << rots >>)
  BY DEF ForwardTurned, Refuse
<1> QED
  BY <1>1, RunLays

(* A plain forward turns its tokens as text.                               *)
LEMMA PlainIsText ==
  ASSUME NEW start \in Nat, NEW run \in Runs
  PROVE  /\ Plain(<< start >>, << run >>) = << TextPositions(start, Len(run)) >>
         /\ TextPositions(start, Len(run)) \in Turns /\ Len(TextPositions(start, Len(run))) = Len(run)
<1>1. Len(run) \in Nat
  BY DEF Runs
<1>2. TextPositions(start, Len(run)) \in Turns /\ Len(TextPositions(start, Len(run))) = Len(run)
  BY <1>1, TextIsTurns
<1>3. Plain(<< start >>, << run >>) = [s \in 1 .. 1 |-> TextPositions(start, Len(run))]
  BY DEF Plain, TextPositions
<1>4. [s \in 1 .. 1 |-> TextPositions(start, Len(run))] = << TextPositions(start, Len(run)) >>
  OBVIOUS
<1> QED
  BY <1>2, <1>3, <1>4

LEMMA PlainLays ==
  ASSUME IInv, layers # 0, Contents, Safe(1), NEW run \in Runs, reply' = "ok",
         Forward(run) \/ ForwardSpan(run, seqLen[1])
  PROVE  Laid(run, TextPositions(seqLen[1], Len(run)))
<1> DEFINE rots == TextPositions(seqLen[1], Len(run))
<1>1. seqLen[1] \in Nat
  BY SeqLenStart
<1>2. Plain(<< seqLen[1] >>, << run >>) = << rots >> /\ rots \in Turns /\ Len(rots) = Len(run)
  BY <1>1, PlainIsText
<1>3. << rots >>[1] = rots
  OBVIOUS
<1> HIDE DEF rots
<1>4. CASE Forward(run)
  <2>1. ForwardImpl(<< seqLen[1] >>, << run >>, << rots >>)
    BY <1>2, <1>4 DEF Forward, Refuse
  <2> QED
    BY <1>2, <2>1, RunLays DEF rots
<1>5. CASE ForwardSpan(run, seqLen[1])
  <2>1. ForwardTurned(run, seqLen[1], rots)
    BY <1>2, <1>3, <1>5 DEF ForwardSpan
  <2> QED
    BY <1>2, <2>1, TurnedLays DEF rots
<1> QED
  BY <1>4, <1>5

-----------------------------------------------------------------------------
(* A stage goes on where the one before left off.                          *)

SameMedia(c, d) ==
  /\ d.before = c.before /\ d.after = c.after /\ d.w = c.w /\ d.h = c.h
  /\ d.windows = c.windows /\ d.width = c.width

Counts(c) ==
  /\ c.before \in Nat \ {0} /\ c.after \in Nat \ {0} /\ c.start \in Nat /\ c.made \in Nat
  /\ c.w \in Nat /\ c.h \in Nat /\ c.windows \in Nat /\ c.width \in Nat

LEMMA MediaIsNumber ==
  ASSUME NEW c, Counts(c)
  PROVE  /\ Media(c) \in Nat /\ c.w * c.h \in Nat /\ c.windows * c.width \in Nat
         /\ c.start * c.width \in Nat
<1>1. c.w * c.h \in Nat /\ c.windows * c.width \in Nat /\ c.start * c.width \in Nat
  BY Products DEF Counts
<1> QED
  BY <1>1 DEF Media

LEMMA SameMediaLaysSame ==
  ASSUME NEW c, NEW d, SameMedia(c, d), NEW program, NEW p
  PROVE  /\ LaidToken(d, p) = LaidToken(c, p) /\ LaidTurn(program, d, p) = LaidTurn(program, c, p)
         /\ Media(d) = Media(c)
BY DEF SameMedia, LaidToken, LaidTurn, Media

(* The run is what the composition wants at the rows it takes.             *)
Fills(program, c, from, run, rots) ==
  \A i \in 1 .. Len(run) : /\ run[i] = LaidToken(c, from + i - 1)
                           /\ rots[i] = LaidTurn(program, c, from + i - 1)

LEMMA StageGoesOn ==
  ASSUME NEW c, NEW d, SameMedia(c, d), LaidOut(c), NEW run \in Runs, NEW rots, Laid(run, rots),
         host' = host, LaidRows(host, c) \in Nat, Fills(host, c, LaidRows(host, c), run, rots),
         LaidRows(host, d) = LaidRows(host, c) + Len(run), composing' = d
  PROVE  LaidOut(composing)'
<1> DEFINE from == LaidRows(host, c)
           after == LaidRows(host, d)
<1>1. from \in Nat /\ Len(run) \in Nat /\ seqLen = << from >> /\ seqLen[1] = from /\ after = from + Len(run)
  BY DEF LaidOut, Runs
<1>2. seqLen' = << after >> /\ layers' = layers
  BY <1>1 DEF Laid
<1>3. ASSUME NEW p \in 0 .. after - 1
      PROVE  /\ RowAt(kv', 0, 0, p).tok = LaidToken(d, p)
             /\ RowAt(kv', 0, 0, p).rot = LaidTurn(host, d, p)
  <2>0. LaidToken(d, p) = LaidToken(c, p) /\ LaidTurn(host, d, p) = LaidTurn(host, c, p)
    BY SameMediaLaysSame
  <2> HIDE DEF from, after
  <2>1. CASE p < from
    <3>1. p \in 0 .. seqLen[1] - 1 /\ p \in 0 .. from - 1
      BY <1>1, <2>1
    <3>2. RowAt(kv', 0, 0, p) = FirstRow(p)
      BY <3>1 DEF Laid
    <3>3. FirstRow(p).tok = LaidToken(c, p) /\ FirstRow(p).rot = LaidTurn(host, c, p)
      BY <3>1 DEF LaidOut, from
    <3> QED
      BY <2>0, <3>2, <3>3
  <2>2. CASE ~(p < from)
    <3> DEFINE i == p - from + 1
    <3>1. i \in 1 .. Len(run) /\ from + i - 1 = p
      BY <1>1, <2>2
    <3> HIDE DEF i
    <3>2. RowAt(kv', 0, 0, from + i - 1).tok = run[i] /\ RowAt(kv', 0, 0, from + i - 1).rot = rots[i]
      BY <1>1, <3>1 DEF Laid
    <3>3. run[i] = LaidToken(c, from + i - 1) /\ rots[i] = LaidTurn(host, c, from + i - 1)
      BY <3>1 DEF Fills, from
    <3> QED
      BY <2>0, <3>1, <3>2, <3>3
  <2> QED
    BY <2>1, <2>2
<1>4. ASSUME NEW p PROVE FirstRow(p)' = RowAt(kv', 0, 0, p)
  BY <1>2, RowAfter DEF FirstRow
<1> HIDE DEF from
<1>5. \A p \in 0 .. after - 1 : FirstRow(p)'.tok = LaidToken(d, p) /\ FirstRow(p)'.rot = LaidTurn(host, d, p)
  BY <1>3, <1>4
<1> QED
  BY <1>2, <1>5 DEF LaidOut

LEMMA TextFills ==
  ASSUME NEW n \in Nat \ {0}, NEW base \in Nat, NEW i \in 1 .. n
  PROVE  TextPositions(base, n)[i] = AllThree(base + i - 1)
BY DEF TextPositions, AllThree

LEMMA SameTokens ==
  ASSUME NEW token \in Tokens, NEW n \in Nat \ {0}
  PROVE  /\ Len(TokensOf(token, n)) = n /\ TokensOf(token, n) \in Runs
         /\ \A i \in 1 .. n : TokensOf(token, n)[i] = token
<1>1. TokensOf(token, n) \in Runs /\ Len(TokensOf(token, n)) = n
  BY TokensOfIsRun
<1> QED
  BY <1>1 DEF TokensOf

LEMMA ComposingCounts ==
  ASSUME HInv, composing.at # "no"
  PROVE  Counts(composing)
BY ComposingFields DEF HInv, Counts

(* Compose's record, while it is somewhere.                                *)
Composings == [at : {"before", "span", "after", "done"}, before : Lengths, after : Lengths,
               w : Nat, h : Nat, windows : Nat, width : Nat, start : Nat, made : Nat]

LEMMA Stepping ==
  ASSUME HInv, CInv, LInv, composing.at # "no"
  PROVE  /\ Counts(composing) /\ Staged(composing) /\ composing \in Composings
         /\ IInv /\ layers # 0 /\ Contents /\ Safe(1)
<1>1. composing # Nothing
  BY DEF Nothing
<1>2. composing \in Composings
  BY <1>1 DEF HInv, ComposingTypes, Composings
<1>3. Staged(composing)
  BY DEF CInv
<1>4. host \notin {"serving", "abi"}
  BY <1>3 DEF Staged
<1> QED
  BY <1>2, <1>3, <1>4, ComposingCounts, OneSlot DEF HInv

LEMMA ImageBeforeStages ==
  ASSUME HInv, LInv, CInv, ImageBefore, host' = host, reply' = "ok"
  PROVE  CInv'
<1> DEFINE c == composing
           d == [composing EXCEPT !.at = "span", !.start = seqLen'[1]]
           run == TokensOf(BeforeToken, c.before)
           rots == TextPositions(seqLen[1], Len(run))
<1>1. /\ host = "vlm" /\ c.at = "before" /\ composing' = d /\ report' = report /\ Forward(run)
  BY DEF ImageBefore, Then
<1>2. /\ Counts(c) /\ Staged(c) /\ SameMedia(c, d)
      /\ d.at = "span" /\ d.start = seqLen'[1] /\ d.made = c.made
      /\ IInv /\ layers # 0 /\ Contents /\ Safe(1)
  <2>1. /\ Counts(c) /\ Staged(c) /\ c \in Composings
        /\ IInv /\ layers # 0 /\ Contents /\ Safe(1)
    BY <1>1, Stepping
  <2> QED
    BY <2>1 DEF SameMedia, Composings
<1>3. Len(run) = c.before /\ run \in Runs /\ \A i \in 1 .. c.before : run[i] = BeforeToken
  BY <1>2, HostTokens, SameTokens DEF Counts
<1>4. LaidRows(host, c) = 0 /\ seqLen[1] = 0
  BY <1>1, <1>2 DEF LaidRows, Staged, LaidOut
<1> HIDE DEF c, d, run
<1>5. Laid(run, rots)
  BY <1>1, <1>2, <1>3, PlainLays
<1>6. Fills(host, c, 0, run, rots)
  <2> SUFFICES ASSUME NEW i \in 1 .. c.before
               PROVE  run[i] = LaidToken(c, 0 + i - 1) /\ rots[i] = LaidTurn(host, c, 0 + i - 1)
    BY <1>3 DEF Fills
  <2>1. c.before \in Nat \ {0} /\ i - 1 < c.before /\ 0 + i - 1 = i - 1
    BY <1>2 DEF Counts
  <2>2. i \in 1 .. Len(run) /\ Len(run) \in Nat \ {0} /\ seqLen[1] \in Nat /\ seqLen[1] + i - 1 = i - 1
    BY <1>3, <1>4, <2>1
  <2>3. rots[i] = AllThree(seqLen[1] + i - 1)
    BY <2>2, TextFills
  <2> QED
    BY <1>3, <2>1, <2>2, <2>3 DEF LaidToken, LaidTurn
<1>7. LaidRows(host, d) = 0 + Len(run)
  BY <1>1, <1>2, <1>3 DEF LaidRows, SameMedia, Counts
<1>8. LaidOut(composing)'
  BY <1>1, <1>2, <1>3, <1>4, <1>5, <1>6, <1>7, StageGoesOn DEF Staged
<1>9. seqLen'[1] = d.before
  BY <1>2, <1>3, <1>4, <1>5 DEF Laid, SameMedia, Counts
<1>10. Staged(composing)'
  BY <1>1, <1>2, <1>8, <1>9 DEF Staged, VisionStage, SameMedia
<1> QED
  BY <1>10 DEF CInv

LEMMA ImageSpanStages ==
  ASSUME HInv, LInv, CInv, ImageSpan, host' = host, reply' = "ok"
  PROVE  CInv'
<1> DEFINE c == composing
           d == [composing EXCEPT !.at = "after", !.start = c.start]
           grid == c.w * c.h
           run == TokensOf(MediaToken, grid)
           rots == GridPositions(c.start, grid)
<1>1. /\ host = "vlm" /\ c.at = "span" /\ composing' = d /\ report' = report
      /\ ForwardTurned(run, c.start, rots)
  BY DEF ImageSpan, Then
<1>2. /\ Counts(c) /\ Staged(c) /\ SameMedia(c, d)
      /\ d.at = "after" /\ d.start = c.start /\ d.made = c.made
      /\ IInv /\ layers # 0 /\ Contents /\ Safe(1)
  <2>1. /\ Counts(c) /\ Staged(c) /\ c \in Composings
        /\ IInv /\ layers # 0 /\ Contents /\ Safe(1)
    BY <1>1, Stepping
  <2> QED
    BY <2>1 DEF SameMedia, Composings
<1>3. grid \in Nat \ {0} /\ c.windows = 0 /\ c.start = c.before /\ Media(c) = grid
  <2>1. grid \in Nat \ {0}
    BY <1>1, ComposingFields, ProductPositive DEF HInv
  <2>2. c.windows = 0 /\ c.start = c.before
    BY <1>1, <1>2 DEF Staged, VisionStage
  <2>3. c.windows * c.width = 0
    BY <1>2, <2>2 DEF Counts
  <2> QED
    BY <2>1, <2>2, <2>3 DEF Media
<1>4. LaidRows(host, c) = c.before /\ seqLen[1] = c.before /\ c.before \in Nat
  BY <1>1, <1>2 DEF LaidRows, Staged, LaidOut, Counts
<1> HIDE DEF c, d, grid
<1>5. Len(run) = grid /\ run \in Runs /\ \A i \in 1 .. grid : run[i] = MediaToken
  BY <1>3, HostTokens, SameTokens
<1>6. rots \in Turns /\ Len(rots) = grid
  BY <1>3, <1>4, GridIsTurns
<1>7. rots = GridPositions(c.before, grid)
  BY <1>3
<1> HIDE DEF run, rots
<1>8. Laid(run, rots)
  BY <1>1, <1>2, <1>5, <1>6, TurnedLays
<1>9. Fills(host, c, c.before, run, rots)
  <2> SUFFICES ASSUME NEW i \in 1 .. grid
               PROVE  /\ run[i] = LaidToken(c, c.before + i - 1)
                      /\ rots[i] = LaidTurn(host, c, c.before + i - 1)
    BY <1>5 DEF Fills
  <2> DEFINE p == c.before + i - 1
  <2>1. ~(p < c.before) /\ p < c.before + grid /\ p - c.before + 1 = i
    BY <1>3, <1>4
  <2> HIDE DEF p
  <2>2. LaidTurn(host, c, p) = GridPositions(c.before, grid)[i]
    BY <1>1, <2>1 DEF LaidTurn, grid
  <2>3. LaidToken(c, p) = MediaToken
    BY <1>3, <2>1 DEF LaidToken
  <2> QED
    BY <1>5, <1>7, <2>2, <2>3 DEF p
<1>10. LaidRows(host, d) = c.before + Len(run)
  BY <1>2, <1>3, <1>5, SameMediaLaysSame DEF LaidRows, SameMedia
<1>11. LaidOut(composing)'
  BY <1>1, <1>2, <1>4, <1>5, <1>8, <1>9, <1>10, StageGoesOn DEF Staged
<1>12. Staged(composing)'
  BY <1>1, <1>2, <1>3, <1>11 DEF Staged, VisionStage, SameMedia
<1> QED
  BY <1>12 DEF CInv

LEMMA ImageAfterStages ==
  ASSUME HInv, LInv, CInv, ImageAfter, host' = host, reply' = "ok"
  PROVE  CInv'
<1> DEFINE c == composing
           d == [composing EXCEPT !.at = "done", !.start = c.start]
           grid == c.w * c.h
           base == AfterBase(c.start, grid)
           run == TokensOf(AfterToken, c.after)
           rots == TextPositions(base, c.after)
<1>1. /\ host = "vlm" /\ c.at = "after" /\ composing' = d
      /\ report' = [positions |-> base + c.after, rows |-> seqLen'[1]]
      /\ ForwardTurned(run, seqLen[1], rots)
  BY DEF ImageAfter, Then
<1>2. /\ Counts(c) /\ Staged(c) /\ SameMedia(c, d)
      /\ d.at = "done" /\ d.start = c.start /\ d.made = c.made
      /\ IInv /\ layers # 0 /\ Contents /\ Safe(1)
  <2>1. /\ Counts(c) /\ Staged(c) /\ c \in Composings
        /\ IInv /\ layers # 0 /\ Contents /\ Safe(1)
    BY <1>1, Stepping
  <2> QED
    BY <2>1 DEF SameMedia, Composings
<1>3. grid \in Nat \ {0} /\ c.windows = 0 /\ c.start = c.before /\ Media(c) = grid /\ c.made = 0
  <2>1. grid \in Nat \ {0}
    BY <1>1, ComposingFields, ProductPositive DEF HInv
  <2>2. c.windows = 0 /\ c.start = c.before /\ c.made = 0
    BY <1>1, <1>2 DEF Staged, VisionStage
  <2>3. c.windows * c.width = 0
    BY <1>2, <2>2 DEF Counts
  <2> QED
    BY <2>1, <2>2, <2>3 DEF Media
<1>4. LaidRows(host, c) = c.before + grid /\ seqLen[1] = c.before + grid
      /\ c.before \in Nat /\ c.after \in Nat \ {0}
  BY <1>1, <1>2, <1>3 DEF LaidRows, Staged, LaidOut, Counts
<1> HIDE DEF c, d, grid
<1>5. base \in Nat /\ base = AfterBase(c.before, grid)
  BY <1>3, <1>4, SideRounds DEF AfterBase
<1> HIDE DEF base
<1>6. Len(run) = c.after /\ run \in Runs /\ \A i \in 1 .. c.after : run[i] = AfterToken
  BY <1>4, HostTokens, SameTokens
<1>7. rots \in Turns /\ Len(rots) = c.after
  BY <1>4, <1>5, TextIsTurns
<1>8. \A i \in 1 .. c.after : rots[i] = AllThree(base + i - 1)
  BY <1>4, <1>5, TextFills
<1> HIDE DEF run, rots
<1>9. Laid(run, rots)
  BY <1>1, <1>2, <1>6, <1>7, TurnedLays
<1>10. Fills(host, c, c.before + grid, run, rots)
  <2> SUFFICES ASSUME NEW i \in 1 .. c.after
               PROVE  /\ run[i] = LaidToken(c, c.before + grid + i - 1)
                      /\ rots[i] = LaidTurn(host, c, c.before + grid + i - 1)
    BY <1>6 DEF Fills
  <2> DEFINE p == c.before + grid + i - 1
  <2>1. ~(p < c.before) /\ ~(p < c.before + grid) /\ p < c.before + grid + c.after
        /\ base + (p - (c.before + grid)) = base + i - 1
    BY <1>3, <1>4, <1>5
  <2> HIDE DEF p
  <2>2. LaidTurn(host, c, p) = AllThree(base + i - 1)
    BY <1>1, <1>5, <2>1 DEF LaidTurn, grid
  <2>3. LaidToken(c, p) = AfterToken
    BY <1>3, <2>1 DEF LaidToken
  <2> QED
    BY <1>6, <1>8, <2>2, <2>3 DEF p
<1>11. LaidRows(host, d) = c.before + grid + Len(run)
  <2>1. Media(d) = grid /\ d.before = c.before /\ d.after = c.after /\ d.made = 0 /\ d.at = "done"
    BY <1>2, <1>3, SameMediaLaysSame DEF SameMedia
  <2> QED
    BY <1>3, <1>4, <1>6, <2>1 DEF LaidRows
<1>12. LaidOut(composing)'
  BY <1>1, <1>2, <1>3, <1>4, <1>6, <1>9, <1>10, <1>11, StageGoesOn DEF Staged
<1>13. report'.positions = base + c.after /\ report'.rows = c.before + grid + c.after
  <2>1. seqLen'[1] = c.before + grid + c.after
    BY <1>4, <1>6, <1>9 DEF Laid
  <2> QED
    BY <1>1, <2>1
<1>14. Staged(composing)'
  <2>1. /\ Media(d) = grid /\ d.before = c.before /\ d.after = c.after /\ d.made = 0 /\ d.at = "done"
        /\ d.w * d.h = grid /\ d.windows = 0 /\ d.start = d.before
    BY <1>2, <1>3, SameMediaLaysSame DEF SameMedia, grid
  <2>2. VisionStage(composing)'
    BY <1>1, <1>5, <1>13, <2>1 DEF VisionStage
  <2>3. report'.rows = d.before + Media(d) + d.after
    BY <1>13, <2>1
  <2> QED
    BY <1>1, <1>12, <2>1, <2>2, <2>3 DEF Staged
<1> QED
  BY <1>14 DEF CInv

LEMMA SoundBeforeStages ==
  ASSUME HInv, LInv, CInv, SoundBefore, host' = host, reply' = "ok"
  PROVE  CInv'
<1> DEFINE c == composing
           d == [composing EXCEPT !.at = "span", !.start = 0]
           run == TokensOf(BeforeToken, c.before)
           rots == TextPositions(seqLen[1], Len(run))
<1>1. /\ host = "asr" /\ c.at = "before" /\ composing' = d /\ report' = report /\ Forward(run)
  BY DEF SoundBefore, Then
<1>2. /\ Counts(c) /\ Staged(c) /\ SameMedia(c, d)
      /\ d.at = "span" /\ d.start = 0 /\ d.made = c.made
      /\ IInv /\ layers # 0 /\ Contents /\ Safe(1)
  <2>1. /\ Counts(c) /\ Staged(c) /\ c \in Composings
        /\ IInv /\ layers # 0 /\ Contents /\ Safe(1)
    BY <1>1, Stepping
  <2> QED
    BY <2>1 DEF SameMedia, Composings
<1>3. Len(run) = c.before /\ run \in Runs /\ \A i \in 1 .. c.before : run[i] = BeforeToken
  BY <1>2, HostTokens, SameTokens DEF Counts
<1>4. LaidRows(host, c) = 0 /\ seqLen[1] = 0
  BY <1>1, <1>2 DEF LaidRows, Staged, LaidOut
<1> HIDE DEF c, d, run
<1>5. Laid(run, rots)
  BY <1>1, <1>2, <1>3, PlainLays
<1>6. Fills(host, c, 0, run, rots)
  <2> SUFFICES ASSUME NEW i \in 1 .. c.before
               PROVE  run[i] = LaidToken(c, 0 + i - 1) /\ rots[i] = LaidTurn(host, c, 0 + i - 1)
    BY <1>3 DEF Fills
  <2>1. c.before \in Nat \ {0} /\ i - 1 < c.before /\ 0 + i - 1 = i - 1
    BY <1>2 DEF Counts
  <2>2. i \in 1 .. Len(run) /\ Len(run) \in Nat \ {0} /\ seqLen[1] \in Nat /\ seqLen[1] + i - 1 = i - 1
    BY <1>3, <1>4, <2>1
  <2>3. rots[i] = AllThree(seqLen[1] + i - 1)
    BY <2>2, TextFills
  <2> QED
    BY <1>3, <2>1, <2>2, <2>3 DEF LaidToken, LaidTurn
<1>7. LaidRows(host, d) = 0 + Len(run)
  <2>1. d.width \in Nat /\ d.before \in Nat /\ d.before = c.before
    BY <1>2 DEF SameMedia, Counts
  <2>2. 0 * d.width = 0
    BY <2>1
  <2> QED
    BY <1>1, <1>2, <1>3, <2>1, <2>2 DEF LaidRows
<1>8. LaidOut(composing)'
  BY <1>1, <1>2, <1>3, <1>4, <1>5, <1>6, <1>7, StageGoesOn DEF Staged
<1>9. Staged(composing)'
  BY <1>1, <1>2, <1>8 DEF Staged, SoundStage, SameMedia, Counts
<1> QED
  BY <1>9 DEF CInv

LEMMA SoundWindowStages ==
  ASSUME HInv, LInv, CInv, SoundWindow, host' = host, reply' = "ok"
  PROVE  CInv'
<1> DEFINE c == composing
           at == IF c.start + 1 = c.windows THEN "after" ELSE "span"
           d == [composing EXCEPT !.at = at, !.start = c.start + 1]
           run == TokensOf(MediaToken, c.width)
           rots == TextPositions(seqLen[1], Len(run))
           from == c.before + c.start * c.width
<1>1. /\ host = "asr" /\ c.at = "span" /\ composing' = d /\ report' = report
      /\ ForwardSpan(run, seqLen[1])
  BY DEF SoundWindow, Then, WindowStart
<1>2. /\ Counts(c) /\ Staged(c) /\ SameMedia(c, d)
      /\ d.at = at /\ d.start = c.start + 1 /\ d.made = c.made
      /\ IInv /\ layers # 0 /\ Contents /\ Safe(1)
  <2>1. /\ Counts(c) /\ Staged(c) /\ c \in Composings
        /\ IInv /\ layers # 0 /\ Contents /\ Safe(1)
    BY <1>1, Stepping
  <2> QED
    BY <2>1 DEF SameMedia, Composings
<1>3. /\ c.w = 0 /\ c.start + 1 <= c.windows /\ c.windows \in Nat /\ c.start \in Nat
      /\ c.width \in Nat \ {0} /\ c.before \in Nat /\ c.h \in Nat
  BY <1>1, <1>2, ComposingFields DEF HInv, Counts, Staged, SoundStage
<1>4. /\ Media(c) = c.windows * c.width /\ Media(c) \in Nat /\ c.start * c.width \in Nat
      /\ (c.start + 1) * c.width = c.start * c.width + c.width
      /\ (c.start + 1) * c.width <= Media(c)
  <2>1. c.w * c.h = 0
    BY <1>3
  <2>2. /\ Media(c) \in Nat /\ c.start * c.width \in Nat /\ c.windows * c.width \in Nat
    BY <1>2, MediaIsNumber
  <2>3. \A a, b, n \in Nat : a <= b => a * n <= b * n
    OBVIOUS
  <2>4. \A a, n \in Nat : (a + 1) * n = a * n + n
    OBVIOUS
  <2>5. (c.start + 1) * c.width <= c.windows * c.width
    BY <1>3, <2>3
  <2>6. (c.start + 1) * c.width = c.start * c.width + c.width
    BY <1>3, <2>4
  <2>7. Media(c) = c.windows * c.width
    BY <2>1, <2>2 DEF Media
  <2> QED
    BY <2>2, <2>5, <2>6, <2>7
<1>5. LaidRows(host, c) = from /\ seqLen[1] = from /\ from \in Nat
  BY <1>1, <1>2, <1>3, <1>4 DEF LaidRows, Staged, LaidOut
<1>6. Len(run) = c.width /\ run \in Runs /\ \A i \in 1 .. c.width : run[i] = MediaToken
  BY <1>3, HostTokens, SameTokens
<1> HIDE DEF c, d, run
<1>7. Laid(run, rots)
  BY <1>1, <1>2, <1>6, PlainLays
<1>8. Fills(host, c, from, run, rots)
  <2> SUFFICES ASSUME NEW i \in 1 .. c.width
               PROVE  /\ run[i] = LaidToken(c, from + i - 1)
                      /\ rots[i] = LaidTurn(host, c, from + i - 1)
    BY <1>6 DEF Fills
  <2> DEFINE p == from + i - 1
  <2>1. ~(p < c.before) /\ p < c.before + Media(c)
    BY <1>3, <1>4
  <2>2. rots[i] = AllThree(p)
    <3>1. seqLen[1] \in Nat /\ Len(run) \in Nat \ {0} /\ i \in 1 .. Len(run) /\ seqLen[1] = from
      BY <1>3, <1>5, <1>6
    <3>2. rots[i] = AllThree(seqLen[1] + i - 1)
      BY <3>1, TextFills
    <3> QED
      BY <3>1, <3>2
  <2> HIDE DEF p
  <2>3. LaidToken(c, p) = MediaToken /\ LaidTurn(host, c, p) = AllThree(p)
    BY <1>1, <2>1 DEF LaidToken, LaidTurn
  <2> QED
    BY <1>6, <2>2, <2>3 DEF p
<1>9. LaidRows(host, d) = from + Len(run)
  <2>1. /\ d.width = c.width /\ d.before = c.before /\ Media(d) = Media(c)
    BY <1>2, SameMediaLaysSame DEF SameMedia
  <2>2. CASE d.at = "span"
    BY <1>1, <1>2, <1>3, <1>4, <1>6, <2>1, <2>2 DEF LaidRows
  <2>3. CASE d.at = "after"
    <3>1. c.start + 1 = c.windows
      BY <1>2, <2>3
    <3>2. Media(d) = c.start * c.width + c.width
      BY <1>3, <1>4, <2>1, <3>1
    <3>3. LaidRows(host, d) = c.before + Media(d)
      BY <2>1, <2>3 DEF LaidRows
    <3> QED
      BY <1>3, <1>4, <1>6, <3>2, <3>3
  <2> QED
    BY <1>2, <2>2, <2>3
<1>10. LaidOut(composing)'
  BY <1>1, <1>2, <1>5, <1>6, <1>7, <1>8, <1>9, StageGoesOn DEF Staged
<1>11. d.at \in {"span", "after"} /\ (d.at = "span" => d.start < d.windows)
  BY <1>2, <1>3 DEF SameMedia
<1>12. Staged(composing)'
  BY <1>1, <1>2, <1>10, <1>11 DEF Staged, SoundStage, SameMedia
<1> QED
  BY <1>12 DEF CInv

LEMMA SoundAfterStages ==
  ASSUME HInv, LInv, CInv, SoundAfter, host' = host, reply' = "ok"
  PROVE  CInv'
<1> DEFINE c == composing
           d == [composing EXCEPT !.at = "done", !.start = 0]
           run == TokensOf(AfterToken, c.after)
           rots == TextPositions(seqLen[1], Len(run))
           from == c.before + Media(c)
<1>1. /\ host = "asr" /\ c.at = "after" /\ composing' = d /\ Forward(run)
      /\ report' = [positions |-> seqLen'[1], rows |-> seqLen'[1]]
  BY DEF SoundAfter, Then
<1>2. /\ Counts(c) /\ Staged(c) /\ SameMedia(c, d)
      /\ d.at = "done" /\ d.start = 0 /\ d.made = c.made
      /\ IInv /\ layers # 0 /\ Contents /\ Safe(1)
  <2>1. /\ Counts(c) /\ Staged(c) /\ c \in Composings
        /\ IInv /\ layers # 0 /\ Contents /\ Safe(1)
    BY <1>1, Stepping
  <2> QED
    BY <2>1 DEF SameMedia, Composings
<1>3. Len(run) = c.after /\ run \in Runs /\ \A i \in 1 .. c.after : run[i] = AfterToken
  BY <1>2, HostTokens, SameTokens DEF Counts
<1>4. /\ LaidRows(host, c) = from /\ seqLen[1] = from /\ from \in Nat /\ c.made = 0
      /\ c.before \in Nat /\ Media(c) \in Nat /\ c.after \in Nat \ {0}
  BY <1>1, <1>2, MediaIsNumber DEF LaidRows, Staged, LaidOut, Counts
<1> HIDE DEF c, d, run
<1>5. Laid(run, rots)
  BY <1>1, <1>2, <1>3, PlainLays
<1>6. Fills(host, c, from, run, rots)
  <2> SUFFICES ASSUME NEW i \in 1 .. c.after
               PROVE  run[i] = LaidToken(c, from + i - 1) /\ rots[i] = LaidTurn(host, c, from + i - 1)
    BY <1>3 DEF Fills
  <2> DEFINE p == from + i - 1
  <2>1. ~(p < c.before) /\ ~(p < c.before + Media(c)) /\ p < c.before + Media(c) + c.after
    BY <1>4
  <2>2. rots[i] = AllThree(p)
    <3>1. seqLen[1] \in Nat /\ Len(run) \in Nat \ {0} /\ i \in 1 .. Len(run) /\ seqLen[1] = from
      BY <1>3, <1>4
    <3>2. rots[i] = AllThree(seqLen[1] + i - 1)
      BY <3>1, TextFills
    <3> QED
      BY <3>1, <3>2
  <2> HIDE DEF p
  <2>3. LaidToken(c, p) = AfterToken /\ LaidTurn(host, c, p) = AllThree(p)
    BY <1>1, <2>1 DEF LaidToken, LaidTurn
  <2> QED
    BY <1>3, <2>2, <2>3 DEF p
<1>7. Media(d) = Media(c) /\ d.before = c.before /\ d.after = c.after /\ d.made = 0 /\ d.at = "done"
  BY <1>2, <1>4, SameMediaLaysSame DEF SameMedia
<1>8. LaidRows(host, d) = from + Len(run)
  BY <1>3, <1>4, <1>7 DEF LaidRows
<1>9. LaidOut(composing)'
  BY <1>1, <1>2, <1>3, <1>4, <1>5, <1>6, <1>8, StageGoesOn DEF Staged
<1>10. report'.rows = d.before + Media(d) + d.after
  BY <1>1, <1>3, <1>4, <1>5, <1>7 DEF Laid
<1>11. Staged(composing)'
  BY <1>1, <1>2, <1>7, <1>9, <1>10 DEF Staged, SoundStage, SameMedia
<1> QED
  BY <1>11 DEF CInv

LEMMA SoundTokenStages ==
  ASSUME HInv, LInv, CInv, SoundToken, host' = host, reply' = "ok"
  PROVE  CInv'
<1> DEFINE c == composing
           d == [composing EXCEPT !.made = @ + 1]
           run == << MadeToken >>
           rots == TextPositions(seqLen[1], Len(run))
           from == c.before + Media(c) + c.after + c.made
<1>1. /\ host = "asr" /\ c.at = "done" /\ composing' = d /\ Forward(run) /\ report' = report
  BY DEF SoundToken
<1>2. /\ Counts(c) /\ Staged(c) /\ SameMedia(c, d)
      /\ d.at = "done" /\ d.made = c.made + 1
      /\ IInv /\ layers # 0 /\ Contents /\ Safe(1)
  <2>1. /\ Counts(c) /\ Staged(c) /\ c \in Composings
        /\ IInv /\ layers # 0 /\ Contents /\ Safe(1)
    BY <1>1, Stepping
  <2> DEFINE made == c.made + 1
             moved == [composing EXCEPT !.made = made]
  <2>2. d = moved
    OBVIOUS
  <2> HIDE DEF made, d
  <2>3. SameMedia(c, moved) /\ moved.at = c.at /\ moved.made = made
    BY <2>1 DEF SameMedia, Composings
  <2> HIDE DEF moved
  <2> QED
    BY <1>1, <2>1, <2>2, <2>3 DEF made
<1>3. Len(run) = 1 /\ run \in Runs /\ run[1] = MadeToken
  BY HostTokens, OneTokenIsRun
<1>4. /\ LaidRows(host, c) = from /\ seqLen[1] = from /\ from \in Nat
      /\ c.before \in Nat /\ Media(c) \in Nat /\ c.after \in Nat \ {0} /\ c.made \in Nat
  BY <1>1, <1>2, MediaIsNumber DEF LaidRows, Staged, LaidOut, Counts
<1> HIDE DEF c, d, run
<1>5. Laid(run, rots)
  BY <1>1, <1>2, <1>3, PlainLays
<1>6. Fills(host, c, from, run, rots)
  <2>1. ~(from < c.before) /\ ~(from < c.before + Media(c)) /\ ~(from < c.before + Media(c) + c.after)
    BY <1>4
  <2>2. seqLen[1] \in Nat /\ seqLen[1] + 1 - 1 = from /\ 1 \in 1 .. Len(run) /\ Len(run) \in Nat \ {0}
    BY <1>3, <1>4
  <2> HIDE DEF from
  <2>3. rots[1] = AllThree(from)
    <3>1. rots[1] = AllThree(seqLen[1] + 1 - 1)
      BY <2>2, TextFills
    <3> QED
      BY <2>2, <3>1
  <2>4. LaidToken(c, from) = MadeToken /\ LaidTurn(host, c, from) = AllThree(from)
    BY <1>1, <2>1 DEF LaidToken, LaidTurn
  <2>5. ASSUME NEW i \in 1 .. Len(run) PROVE i = 1 /\ from + i - 1 = from
    <3>1. i = 1
      BY <1>3
    <3> QED
      BY <1>4, <3>1 DEF from
  <2> HIDE DEF rots
  <2>6. ASSUME NEW i \in 1 .. Len(run)
        PROVE  run[i] = LaidToken(c, from + i - 1) /\ rots[i] = LaidTurn(host, c, from + i - 1)
    <3>1. i = 1 /\ from + i - 1 = from
      BY <2>5
    <3> QED
      BY <1>3, <2>3, <2>4, <3>1
  <2> QED
    BY <2>6 DEF Fills
<1>7. Media(d) = Media(c) /\ d.before = c.before /\ d.after = c.after
  BY <1>2, SameMediaLaysSame DEF SameMedia
<1>8. LaidRows(host, d) = from + Len(run)
  BY <1>2, <1>3, <1>4, <1>7 DEF LaidRows
<1>9. LaidOut(composing)'
  BY <1>1, <1>2, <1>3, <1>4, <1>5, <1>6, <1>8, StageGoesOn DEF Staged
<1>10. report'.rows = d.before + Media(d) + d.after
  BY <1>1, <1>2, <1>7 DEF Staged
<1>11. Staged(composing)'
  BY <1>1, <1>2, <1>9, <1>10 DEF Staged, SoundStage, SameMedia
<1> QED
  BY <1>11 DEF CInv

(* A refused call ends the composition, and the ones that ran go on.       *)
LEMMA ComposeStages ==
  ASSUME HInv, LInv, CInv, ComposeNext
  PROVE  CInv'
<1>1. host' = host
  BY DEF ComposeNext
<1>2. ASSUME composing' = Nothing PROVE CInv'
  BY <1>2 DEF CInv, Nothing
<1>3. CASE ComposeImage
  <2>1. PICK b \in Lengths, a \in Lengths, w \in Sides, h \in Sides :
          composing' = [at |-> "before", before |-> b, after |-> a, w |-> w, h |-> h,
                        windows |-> 0, width |-> 0, start |-> 0, made |-> 0]
    BY <1>3 DEF ComposeImage
  <2>2. /\ composing'.at = "before" /\ composing'.windows = 0 /\ composing'.made = 0
        /\ host' = "vlm" /\ seqLen' = << 0 >>
    BY <1>1, <1>3, <2>1 DEF ComposeImage, Reset
  <2>3. LaidOut(composing)'
    BY <2>2 DEF LaidOut, LaidRows
  <2> QED
    BY <2>2, <2>3 DEF CInv, Staged, VisionStage
<1>4. CASE ComposeSound
  <2>1. PICK b \in Lengths, a \in Lengths, n \in Windows, width \in Lengths :
          composing' = [at |-> "before", before |-> b, after |-> a, w |-> 0, h |-> 0,
                        windows |-> n, width |-> width, start |-> 0, made |-> 0]
    BY <1>4 DEF ComposeSound
  <2>2. /\ composing'.at = "before" /\ composing'.windows \in Nat \ {0} /\ composing'.made = 0
        /\ composing'.w = 0 /\ host' = "asr" /\ seqLen' = << 0 >>
    BY <1>1, <1>4, <2>1, HostsAssumption DEF ComposeSound, Reset
  <2>3. LaidOut(composing)'
    BY <2>2 DEF LaidOut, LaidRows
  <2> QED
    BY <2>2, <2>3 DEF CInv, Staged, SoundStage
<1>5. CASE reply' = "ok"
  BY <1>1, <1>2, <1>3, <1>4, <1>5, ImageBeforeStages, ImageSpanStages, ImageAfterStages, SoundBeforeStages,
     SoundWindowStages, SoundAfterStages, SoundTokenStages DEF ComposeNext, SoundThrows
<1>6. CASE reply' # "ok"
  BY <1>2, <1>3, <1>4, <1>6 DEF ComposeNext, ImageBefore, ImageSpan, ImageAfter, SoundBefore,
     SoundWindow, SoundThrows, SoundAfter, SoundToken, Then
<1> QED
  BY <1>5, <1>6

(* Where something is composed, the cache holds what was fed to it.        *)
Fed == host \in {"vlm", "asr"} => LInv

LEMMA ComposesThere == ComposeNext => host \in {"vlm", "asr"} /\ host' = host
BY DEF ComposeNext, ComposeImage, ImageBefore, ImageSpan, ImageAfter, ComposeSound,
   SoundBefore, SoundWindow, SoundThrows, SoundAfter, SoundToken

LEMMA FedStays ==
  ASSUME HInv, Fed, [HostsNext]_everything
  PROVE  Fed'
<1>1. CASE ComposeNext
  <2>1. IInv'
    <3>1. [Next]_vars /\ IInv
      BY <1>1, HostsStepIsCall DEF HInv, HostsNext
    <3> QED
      BY <3>1, StepKeeps, StutterKeeps
  <2> QED
    BY <1>1, <2>1, ComposesThere, ComposeLogs DEF Fed
<1>2. CASE SessionNext \/ AbiNext \/ ServingNext
  <2>1. host \notin {"vlm", "asr"} /\ host' = host
    BY <1>2 DEF SessionNext, AbiNext, ServingNext, hostVars
  <2> QED
    BY <2>1 DEF Fed
<1>3. CASE UNCHANGED everything
  <2>1. host' = host
    BY <1>3 DEF everything, hostVars
  <2> QED
    BY <1>3, <2>1, LogStutter DEF Fed
<1> QED
  BY <1>1, <1>2, <1>3 DEF HostsNext

LEMMA StagesKept ==
  ASSUME HInv, Fed, CInv, [HostsNext]_everything
  PROVE  CInv'
<1>1. CASE ComposeNext
  BY <1>1, ComposesThere, ComposeStages DEF Fed
<1>2. CASE SessionNext \/ AbiNext \/ ServingNext
  <2>1. host \notin {"vlm", "asr"} /\ composing' = composing
    BY <1>2 DEF SessionNext, AbiNext, ServingNext, hostVars
  <2>2. composing.at = "no"
    BY <2>1 DEF CInv, Staged
  <2> QED
    BY <2>1, <2>2 DEF CInv
<1>3. CASE UNCHANGED everything
  BY <1>3 DEF everything, allVars, vars, hostVars, CInv, Staged, VisionStage, SoundStage, LaidOut,
     LaidRows, FirstRow, RowAt, Address
<1> QED
  BY <1>1, <1>2, <1>3 DEF HostsNext

-----------------------------------------------------------------------------
(* A square grid.                                                          *)

LEMMA SideOfSquare ==
  ASSUME NEW w \in Nat \ {0}
  PROVE  Side(w * w) = w
<1> DEFINE t == Side(w * w)
<1>1. w * w \in Nat \ {0}
  BY ProductPositive
<1>2. /\ t \in Nat \ {0}
      /\ (2 * t - 1) * (2 * t - 1) <= 4 * (w * w)
      /\ 4 * (w * w) < (2 * t + 1) * (2 * t + 1)
  BY <1>1, SideRounds
<1>3. 4 * (w * w) = (2 * w) * (2 * w)
  OBVIOUS
<1> HIDE DEF t
<1>4. \A a, b \in Nat : a <= b => a * a <= b * b
  OBVIOUS
<1>5. ~(t < w)
  <2> SUFFICES ASSUME t < w PROVE FALSE
    OBVIOUS
  <2>1. 2 * t + 1 \in Nat /\ 2 * w \in Nat /\ 2 * t + 1 <= 2 * w
    BY <1>2
  <2>2. (2 * t + 1) * (2 * t + 1) <= (2 * w) * (2 * w)
    BY <1>4, <2>1
  <2> QED
    BY <1>2, <1>3, <2>1, <2>2
<1>6. ~(w < t)
  <2> SUFFICES ASSUME w < t PROVE FALSE
    OBVIOUS
  <2>1. 2 * w + 1 \in Nat /\ 2 * t - 1 \in Nat /\ 2 * w + 1 <= 2 * t - 1
    BY <1>2
  <2>2. (2 * w + 1) * (2 * w + 1) <= (2 * t - 1) * (2 * t - 1)
    BY <1>4, <2>1
  <2>3. (2 * w + 1) * (2 * w + 1) = (2 * w) * (2 * w) + 4 * w + 1
    OBVIOUS
  <2>4. (2 * w) * (2 * w) \in Nat
    OBVIOUS
  <2> QED
    BY <1>2, <1>3, <2>2, <2>3, <2>4
<1> QED
  BY <1>2, <1>5, <1>6 DEF t

LEMMA InGrid ==
  ASSUME NEW w \in Nat \ {0}, NEW k \in 0 .. w * w - 1
  PROVE  k \div w \in 0 .. w - 1 /\ k % w \in 0 .. w - 1 /\ k = w * (k \div w) + (k % w)
<1> DEFINE q == k \div w
           r == k % w
<1>1. w * w \in Nat /\ k \in Nat
  BY ProductPositive
<1>2. q \in Nat /\ r \in 0 .. w - 1 /\ k = w * q + r
  BY <1>1
<1> HIDE DEF q, r
<1>3. q < w
  <2> SUFFICES ASSUME w <= q PROVE FALSE
    BY <1>2
  <2>1. w * w <= w * q
    BY <1>2, Products
  <2>2. w * q \in Nat
    BY <1>2, Products
  <2> QED
    BY <1>1, <1>2, <2>1, <2>2
<1>4. q \in 0 .. w - 1 /\ r \in 0 .. w - 1 /\ k = w * q + r
  BY <1>2, <1>3
<1> QED
  BY <1>4 DEF q, r

(* The rotary positions of a composition around a square grid.             *)
LEMMA SquareTurns ==
  ASSUME NEW c, Counts(c), c.w \in Nat \ {0}, c.w = c.h, c.windows = 0, NEW p \in Nat
  PROVE  LET grid == c.w * c.w
             turn == LaidTurn("vlm", c, p)
         IN  /\ Media(c) = grid /\ grid \in Nat \ {0} /\ AfterBase(c.before, c.w * c.h) = c.before + c.w
             /\ p < c.before => \A j \in 1 .. 3 : turn[j] = p
             /\ c.before <= p /\ p < c.before + grid =>
                  /\ turn[1] = c.before
                  /\ turn[2] = c.before + (p - c.before) \div c.w
                  /\ turn[3] = c.before + ((p - c.before) % c.w)
             /\ c.before + grid <= p =>
                  \A j \in 1 .. 3 : turn[j] = c.before + c.w + (p - (c.before + grid))
<1> DEFINE grid == c.w * c.w
           turn == LaidTurn("vlm", c, p)
<1>1. grid \in Nat \ {0} /\ c.before \in Nat /\ c.width \in Nat
  BY ProductPositive DEF Counts
<1>2. Side(grid) = c.w
  BY SideOfSquare
<1>3. c.w * c.h = grid /\ c.windows * c.width = 0
  BY <1>1
<1>4. Media(c) = grid /\ AfterBase(c.before, c.w * c.h) = c.before + c.w
  BY <1>1, <1>2, <1>3 DEF Media, AfterBase
<1> HIDE DEF grid
<1>5. turn = IF p < c.before THEN AllThree(p)
             ELSE IF p < c.before + grid THEN GridPositions(c.before, grid)[p - c.before + 1]
             ELSE AllThree(c.before + c.w + (p - (c.before + grid)))
  BY <1>3, <1>4 DEF LaidTurn
<1>6. CASE p < c.before
  BY <1>1, <1>5, <1>6, <1>4 DEF AllThree, grid
<1>7. CASE c.before <= p /\ p < c.before + grid
  <2> DEFINE i == p - c.before + 1
  <2>1. i \in 1 .. grid /\ i - 1 = p - c.before /\ ~(p < c.before)
    BY <1>1, <1>7
  <2>2. turn = GridPositions(c.before, grid)[i]
    BY <1>5, <1>7, <2>1
  <2> DEFINE k == p - c.before
             row == c.before + k \div c.w
             column == c.before + (k % c.w)
  <2> HIDE DEF i, turn
  <2>3. turn = << c.before, row, column >>
    BY <1>2, <2>1, <2>2 DEF GridPositions
  <2> HIDE DEF row, column
  <2>4. turn[1] = c.before /\ turn[2] = row /\ turn[3] = column
    BY <2>3
  <2> QED
    BY <1>1, <1>4, <1>7, <2>1, <2>4 DEF grid, turn, row, column
<1>8. CASE c.before + grid <= p
  <2>1. ~(p < c.before) /\ ~(p < c.before + grid)
    BY <1>1, <1>8
  <2>2. turn = AllThree(c.before + c.w + (p - (c.before + grid)))
    BY <1>5, <2>1
  <2> HIDE DEF turn
  <2>3. \A j \in 1 .. 3 : turn[j] = c.before + c.w + (p - (c.before + grid))
    BY <2>2 DEF AllThree
  <2> QED
    BY <1>1, <1>4, <2>1, <2>3 DEF grid, turn
<1> QED
  BY <1>1, <1>6, <1>7, <1>8

LEMMA ReadsRow ==
  ASSUME IInv, layers # 0, Contents, NEW p \in 0 .. seqLen[1] - 1
  PROVE  ReadBack(0, 0, p) = FirstRow(p).tok
<1> DEFINE q == p + 1
<1>1. /\ Len(seqLen) \in Nat \ {0} /\ layers \in Nat /\ seqLen[1] \in Nat
  BY SeqLenStart DEF IInv
<1>2. 1 \in 1 .. Len(seqLen) /\ 0 \in 0 .. layers - 1 /\ q \in 1 .. seqLen[1] /\ q - 1 = p
  BY <1>1
<1>3. Written(1, 0, p)
  BY <1>2 DEF Contents
<1> HIDE DEF q
<1>4. ReadBack(0, 1 - 1, q - 1) = TokenAt(1, q)
  BY <1>2, <1>3, WrittenReads
<1> QED
  BY <1>2, <1>4 DEF TokenAt, FirstRow

LEMMA TurnedIsRow == \A p : Turned(p) = FirstRow(p).rot
BY DEF Turned, FirstRow, RowAt

(* No two rows turn alike.                                                 *)
LEMMA SquareApart ==
  ASSUME NEW c, Counts(c), c.w \in Nat \ {0}, c.w = c.h, c.windows = 0, NEW p \in Nat, NEW q \in Nat,
         p < q
  PROVE  LaidTurn("vlm", c, p) # LaidTurn("vlm", c, q)
<1> DEFINE grid == c.w * c.w
           tp == LaidTurn("vlm", c, p)
           tq == LaidTurn("vlm", c, q)
           b == c.before
           w == c.w
           j == p - b
           k == q - b
<1>1. b \in Nat /\ w \in Nat \ {0} /\ grid \in Nat \ {0}
  BY ProductPositive DEF Counts
<1>2. /\ p < b => tp[1] = p
      /\ b <= p /\ p < b + grid => tp[1] = b /\ tp[2] = b + j \div w /\ tp[3] = b + (j % w)
      /\ b + grid <= p => tp[1] = b + w + (p - (b + grid))
  BY SquareTurns
<1>3. /\ q < b => tq[1] = q
      /\ b <= q /\ q < b + grid => tq[1] = b /\ tq[2] = b + k \div w /\ tq[3] = b + (k % w)
      /\ b + grid <= q => tq[1] = b + w + (q - (b + grid))
  BY SquareTurns
<1> HIDE DEF grid, tp, tq, b, w
<1>4. CASE b <= p /\ p < b + grid /\ b <= q /\ q < b + grid
  <2> SUFFICES ASSUME tp[2] = tq[2], tp[3] = tq[3] PROVE FALSE
    BY DEF tp, tq
  <2>1. j \in 0 .. grid - 1 /\ k \in 0 .. grid - 1 /\ j < k
    BY <1>1, <1>4
  <2> HIDE DEF j, k
  <2>2. /\ j \div w \in Nat /\ j % w \in Nat /\ j = w * (j \div w) + (j % w)
        /\ k \div w \in Nat /\ k % w \in Nat /\ k = w * (k \div w) + (k % w)
    <3>1. grid = w * w
      BY DEF grid, w
    <3>2. j \in 0 .. w * w - 1 /\ k \in 0 .. w * w - 1
      BY <2>1, <3>1
    <3>3. j \div w \in 0 .. w - 1 /\ j % w \in 0 .. w - 1 /\ j = w * (j \div w) + (j % w)
      BY <1>1, <3>2, InGrid
    <3>4. k \div w \in 0 .. w - 1 /\ k % w \in 0 .. w - 1 /\ k = w * (k \div w) + (k % w)
      BY <1>1, <3>2, InGrid
    <3>5. \A x \in 0 .. w - 1 : x \in Nat
      BY <1>1
    <3> QED
      BY <3>3, <3>4, <3>5
  <2> DEFINE jd == j \div w
             jm == j % w
             kd == k \div w
             km == k % w
  <2>3. b + jd = b + kd /\ b + jm = b + km
    BY <1>2, <1>3, <1>4
  <2>4. jd \in Nat /\ jm \in Nat /\ kd \in Nat /\ km \in Nat /\ j = w * jd + jm /\ k = w * kd + km
    BY <2>2
  <2> HIDE DEF jd, jm, kd, km
  <2>5. jd = kd /\ jm = km
    BY <1>1, <2>3, <2>4
  <2> QED
    BY <2>1, <2>4, <2>5
<1>5. CASE ~(b <= p /\ p < b + grid /\ b <= q /\ q < b + grid)
  <2>1. tp[1] # tq[1]
    BY <1>1, <1>2, <1>3, <1>5
  <2> QED
    BY <2>1 DEF tp, tq
<1> QED
  BY <1>4, <1>5

(* The furthest position of the text before and the image.                 *)
LEMMA SquareReach ==
  ASSUME NEW c, Counts(c), c.w \in Nat \ {0}, c.w = c.h, c.windows = 0
  PROVE  Max(UNION {{LaidTurn("vlm", c, p)[j] : j \in 1 .. 3} : p \in 0 .. c.before + c.w * c.w - 1})
           = c.before + c.w - 1
<1> DEFINE grid == c.w * c.w
           turn(p) == LaidTurn("vlm", c, p)
           last == c.before + grid - 1
           T == UNION {{turn(p)[j] : j \in 1 .. 3} : p \in 0 .. last}
           far == c.before + c.w - 1
<1>1. c.before \in Nat /\ c.w \in Nat \ {0} /\ grid \in Nat \ {0}
  BY ProductPositive DEF Counts
<1>2. far \in Nat /\ last \in Nat
  BY <1>1
<1>3. ASSUME NEW p \in 0 .. last, NEW j \in 1 .. 3 PROVE turn(p)[j] \in 0 .. far
  <2>1. p \in Nat
    BY <1>2
  <2>2. CASE p < c.before
    <3>1. turn(p)[j] = p
      BY <2>1, <2>2, SquareTurns
    <3> QED
      BY <1>1, <2>1, <2>2, <3>1
  <2>3. CASE ~(p < c.before)
    <3> DEFINE k == p - c.before
    <3>1. k \in 0 .. grid - 1 /\ c.before <= p /\ p < c.before + grid
      BY <1>1, <2>1, <2>3
    <3>2. /\ turn(p)[1] = c.before /\ turn(p)[2] = c.before + k \div c.w
          /\ turn(p)[3] = c.before + (k % c.w)
      BY <2>1, <3>1, SquareTurns
    <3> HIDE DEF k
    <3>3. k \div c.w \in 0 .. c.w - 1 /\ k % c.w \in 0 .. c.w - 1
      BY <1>1, <3>1, InGrid
    <3> DEFINE row == k \div c.w
               column == k % c.w
    <3>4. row \in 0 .. c.w - 1 /\ column \in 0 .. c.w - 1
      BY <3>3
    <3>5. turn(p)[1] = c.before /\ turn(p)[2] = c.before + row /\ turn(p)[3] = c.before + column
      BY <3>2
    <3> HIDE DEF row, column, turn
    <3>6. turn(p)[1] \in 0 .. far /\ turn(p)[2] \in 0 .. far /\ turn(p)[3] \in 0 .. far
      BY <1>1, <3>4, <3>5
    <3>7. j = 1 \/ j = 2 \/ j = 3
      OBVIOUS
    <3> QED
      BY <3>6, <3>7
  <2> QED
    BY <2>2, <2>3
<1>4. far \in T
  <2> DEFINE k == grid - 1
  <2>1. grid - 1 = c.w * (c.w - 1) + (c.w - 1)
    <3>1. c.w * (c.w - 1) = c.w * c.w - c.w
      BY <1>1
    <3> QED
      BY <1>1, <3>1
  <2>2. c.w - 1 \in Nat /\ c.w - 1 \in 0 .. c.w - 1
    BY <1>1
  <2>3. k \div c.w = c.w - 1
    BY <1>1, <2>1, <2>2, DivMod
  <2>4. last \in Nat /\ c.before <= last /\ last < c.before + grid /\ last - c.before = k
    <3> HIDE DEF grid
    <3> QED
      BY <1>1
  <2>5. turn(last)[2] = c.before + (last - c.before) \div c.w
    BY <2>4, SquareTurns
  <2>6. turn(last)[2] = far
    BY <1>1, <2>3, <2>4, <2>5
  <2> HIDE DEF turn, far
  <2>7. last \in 0 .. last /\ 2 \in 1 .. 3
    BY <1>2
  <2> HIDE DEF last
  <2> QED
    BY <2>6, <2>7
<1>5. T \subseteq 0 .. far
  <2> HIDE DEF turn, far, last
  <2> QED
    BY <1>3
<1> HIDE DEF T, far
<1>6. Max(T) \in T /\ \A y \in T : y <= Max(T)
  BY <1>2, <1>4, <1>5, MaxIsLargest
<1>7. Max(T) = far
  <2> DEFINE most == Max(T)
  <2>1. most \in 0 .. far /\ far <= most
    BY <1>4, <1>5, <1>6
  <2> HIDE DEF most
  <2>2. most = far
    BY <1>2, <2>1
  <2> QED
    BY <2>2 DEF most
<1> QED
  BY <1>7 DEF T, far

-----------------------------------------------------------------------------
(* What CompositionInPlace reads off the stages.                           *)

LEMMA RowsAreLaid ==
  ASSUME HInv, LInv, CInv, composing.at = "done"
  PROVE  LET c == composing
         IN  /\ Counts(c) /\ Media(c) \in Nat /\ c.w * c.h \in Nat /\ c.windows * c.width \in Nat
             /\ host \in {"vlm", "asr"}
             /\ report.rows = c.before + Media(c) + c.after
             /\ seqLen = << report.rows + c.made >>
             /\ \A p \in 0 .. seqLen[1] - 1 : /\ ReadBack(0, 0, p) = LaidToken(c, p)
                                             /\ Turned(p) = LaidTurn(host, c, p)
<1> DEFINE c == composing
<1>1. /\ Counts(c) /\ Staged(c) /\ IInv /\ layers # 0 /\ Contents
  BY Stepping
<1>2. /\ host \in {"vlm", "asr"} /\ report.rows = c.before + Media(c) + c.after
      /\ LaidRows(host, c) = report.rows + c.made /\ LaidOut(c)
  BY <1>1 DEF Staged, LaidRows
<1>3. seqLen = << report.rows + c.made >> /\ seqLen[1] = LaidRows(host, c)
  BY <1>2 DEF LaidOut
<1>4. ASSUME NEW p \in 0 .. seqLen[1] - 1
      PROVE  ReadBack(0, 0, p) = LaidToken(c, p) /\ Turned(p) = LaidTurn(host, c, p)
  <2>1. ReadBack(0, 0, p) = FirstRow(p).tok
    BY <1>1, ReadsRow
  <2>2. FirstRow(p).tok = LaidToken(c, p) /\ FirstRow(p).rot = LaidTurn(host, c, p)
    BY <1>2, <1>3 DEF LaidOut
  <2> QED
    BY <2>1, <2>2, TurnedIsRow
<1>5. Media(c) \in Nat /\ c.w * c.h \in Nat /\ c.windows * c.width \in Nat
  BY <1>1, MediaIsNumber
<1> QED
  BY <1>1, <1>2, <1>3, <1>4, <1>5

LEMMA TokensInPlace ==
  ASSUME NEW c, Counts(c), Media(c) \in Nat, NEW p \in Nat
  PROVE  LET last == c.before + Media(c) + c.after - 1
         IN  LaidToken(c, p) = CASE p < c.before -> BeforeToken
                                 [] p \in c.before .. last - c.after -> MediaToken
                                 [] p \in last - c.after + 1 .. last -> AfterToken
                                 [] OTHER -> MadeToken
<1> DEFINE m == Media(c)
           b == c.before
           a == c.after
           last == b + m + a - 1
<1>1. b \in Nat /\ a \in Nat /\ m \in Nat
  BY DEF Counts
<1>2. LaidToken(c, p) = IF p < b THEN BeforeToken ELSE IF p < b + m THEN MediaToken
                        ELSE IF p < b + m + a THEN AfterToken ELSE MadeToken
  BY DEF LaidToken
<1> HIDE DEF m, a, b
<1>3. /\ p \in b .. last - a <=> b <= p /\ p < b + m
      /\ p \in last - a + 1 .. last <=> b + m <= p /\ p < b + m + a
  BY <1>1
<1> HIDE DEF last
<1>4. LaidToken(c, p) = CASE p < b -> BeforeToken
                          [] p \in b .. last - a -> MediaToken
                          [] p \in last - a + 1 .. last -> AfterToken
                          [] OTHER -> MadeToken
  <2>1. CASE p < b
    BY <1>1, <1>2, <1>3, <2>1
  <2>2. CASE b <= p /\ p < b + m
    BY <1>1, <1>2, <1>3, <2>2
  <2>3. CASE b + m <= p /\ p < b + m + a
    BY <1>1, <1>2, <1>3, <2>3
  <2>4. CASE b + m + a <= p
    BY <1>1, <1>2, <1>3, <2>4
  <2> QED
    BY <1>1, <2>1, <2>2, <2>3, <2>4
<1> QED
  BY <1>4 DEF b, a, m, last

LEMMA StagesInPlace ==
  ASSUME HInv, LInv, CInv
  PROVE  CompositionInPlace
<1> SUFFICES ASSUME composing.at = "done" PROVE CompositionInPlace
  BY DEF CompositionInPlace
<1> DEFINE c == composing
           rows == report.rows
           last == rows - 1
           reach == Max(UNION {{Turned(p)[j] : j \in 1 .. 3} : p \in 0 .. last - c.after})
<1>1. /\ Counts(c) /\ Media(c) \in Nat /\ c.w * c.h \in Nat /\ c.windows * c.width \in Nat
      /\ host \in {"vlm", "asr"}
      /\ rows = c.before + Media(c) + c.after /\ seqLen = << rows + c.made >>
      /\ \A p \in 0 .. seqLen[1] - 1 : /\ ReadBack(0, 0, p) = LaidToken(c, p)
                                      /\ Turned(p) = LaidTurn(host, c, p)
  BY RowsAreLaid
<1>2. Staged(c)
  BY DEF CInv
<1>3. /\ c.before \in Nat \ {0} /\ c.after \in Nat \ {0} /\ c.made \in Nat /\ rows \in Nat
      /\ seqLen[1] = rows + c.made
  BY <1>1 DEF Counts
<1>4. rows = c.before + c.w * c.h + c.windows * c.width + c.after
  BY <1>1, <1>3 DEF Media
<1>5. ASSUME NEW p \in 0 .. seqLen[1] - 1
      PROVE  ReadBack(0, 0, p) =
               CASE p < c.before -> BeforeToken
                 [] p \in c.before .. last - c.after -> MediaToken
                 [] p \in last - c.after + 1 .. last -> AfterToken
                 [] OTHER -> MadeToken
  <2>1. p \in Nat /\ ReadBack(0, 0, p) = LaidToken(c, p)
    BY <1>1, <1>3
  <2>2. last = c.before + Media(c) + c.after - 1
    BY <1>1, <1>3
  <2> HIDE DEF c, last
  <2> QED
    BY <1>1, <2>1, <2>2, TokensInPlace
<1>6. ASSUME host = "vlm", c.w = c.h
      PROVE  /\ \A p, q \in 0 .. last : p # q => Turned(p) # Turned(q)
             /\ \A j \in 1 .. 3 : Turned(last - c.after + 1)[j] = reach + 1
             /\ \A j \in 1 .. 3 : Turned(last)[j] = report.positions - 1
  <2> DEFINE w == c.w
             grid == w * w
             turn(p) == LaidTurn("vlm", c, p)
  <2>1. c.w \in Nat \ {0}
    BY <1>6, ComposingFields DEF HInv
  <2>2. c.windows = 0 /\ report.positions = AfterBase(c.before, c.w * c.h) + c.after
    BY <1>2, <1>6 DEF Staged, VisionStage
  <2>3. /\ Media(c) = grid /\ grid \in Nat \ {0}
        /\ AfterBase(c.before, c.w * c.h) = c.before + c.w
    BY <1>1, <1>3, <1>6, <2>1, <2>2, SquareTurns
  <2>4. \A p \in 0 .. last : Turned(p) = turn(p)
    <3>1. \A p \in 0 .. last : p \in 0 .. seqLen[1] - 1
      BY <1>3
    <3> QED
      BY <1>1, <1>6, <3>1
  <2>5. ASSUME NEW p \in Nat, c.before + grid <= p, NEW j \in 1 .. 3
        PROVE  turn(p)[j] = c.before + c.w + (p - (c.before + grid))
    BY <1>1, <1>6, <2>1, <2>2, <2>5, SquareTurns
  <2>6. ASSUME NEW p \in Nat, NEW q \in Nat, p < q PROVE turn(p) # turn(q)
    BY <1>1, <1>6, <2>1, <2>2, <2>6, SquareApart
  <2>7. Max(UNION {{turn(p)[j] : j \in 1 .. 3} : p \in 0 .. c.before + grid - 1}) = c.before + c.w - 1
    BY <1>1, <1>6, <2>1, <2>2, SquareReach
  <2> HIDE DEF turn, grid
  <2>8. rows = c.before + grid + c.after
    BY <1>1, <2>3
  <2>9. ASSUME NEW p \in 0 .. last, NEW q \in 0 .. last, p # q PROVE Turned(p) # Turned(q)
    <3>1. p \in Nat /\ q \in Nat /\ (p < q \/ q < p)
      BY <1>3, <2>9
    <3>2. Turned(p) = turn(p) /\ Turned(q) = turn(q)
      BY <2>4
    <3> QED
      BY <2>6, <3>1, <3>2
  <2>10. /\ last - c.after = c.before + grid - 1 /\ last - c.after + 1 = c.before + grid
         /\ c.before + grid \in Nat /\ c.before + grid \in 0 .. last
         /\ last \in Nat /\ last \in 0 .. last /\ c.before + grid <= last
         /\ \A p \in 0 .. c.before + grid - 1 : p \in 0 .. last
    BY <1>3, <2>3, <2>8
  <2>11. reach = c.before + c.w - 1
    <3> DEFINE n == c.before + grid - 1
    <3>1. \A p \in 0 .. n : Turned(p) = turn(p)
      BY <2>4, <2>10
    <3> HIDE DEF n
    <3>2. {{Turned(p)[j] : j \in 1 .. 3} : p \in 0 .. n} = {{turn(p)[j] : j \in 1 .. 3} : p \in 0 .. n}
      BY <3>1
    <3> QED
      BY <2>7, <2>10, <3>2 DEF n
  <2> HIDE DEF last, reach
  <2>12. ASSUME NEW j \in 1 .. 3 PROVE Turned(last - c.after + 1)[j] = reach + 1
    <3>1. Turned(c.before + grid)[j] = turn(c.before + grid)[j]
      BY <2>4, <2>10
    <3> DEFINE first == c.before + grid
    <3>2. first \in Nat /\ c.before + grid <= first /\ first - (c.before + grid) = 0
      BY <1>3, <2>3
    <3> HIDE DEF first
    <3>3. turn(first)[j] = c.before + c.w + (first - (c.before + grid))
      BY <2>5, <3>2
    <3>4. turn(first)[j] = c.before + c.w
      BY <1>3, <2>1, <3>2, <3>3
    <3>5. Turned(last - c.after + 1)[j] = turn(first)[j]
      BY <2>10, <3>1 DEF first
    <3> QED
      BY <1>3, <2>1, <2>11, <3>4, <3>5
  <2>13. ASSUME NEW j \in 1 .. 3 PROVE Turned(last)[j] = report.positions - 1
    <3>1. Turned(last)[j] = turn(last)[j]
      BY <2>4, <2>10
    <3>2. turn(last)[j] = c.before + c.w + (last - (c.before + grid))
      BY <2>5, <2>10
    <3>3. last = c.before + grid + c.after - 1
      BY <1>3, <2>3, <2>8 DEF last
    <3> QED
      BY <1>3, <2>1, <2>2, <2>3, <3>1, <3>2, <3>3
  <2> QED
    BY <2>9, <2>12, <2>13
<1>7. ASSUME host = "asr", NEW p \in 0 .. seqLen[1] - 1, NEW j \in 1 .. 3 PROVE Turned(p)[j] = p
  <2>1. Turned(p) = LaidTurn(host, c, p)
    BY <1>1
  <2>2. LaidTurn(host, c, p) = AllThree(p)
    BY <1>7 DEF LaidTurn
  <2> QED
    BY <2>1, <2>2 DEF AllThree
<1> HIDE DEF rows
<1> QED
  BY <1>1, <1>4, <1>5, <1>6, <1>7 DEF CompositionInPlace, rows

(* A picture's text starts one past the furthest position of a square grid,
   no two rows of it turn alike, the rows hold the text or the media they were
   laid out for, and sound counts its rows: whatever is composed, after what.
   (vlm_session.cpp, asr_session.cpp: run_composition, compose.)           *)
THEOREM CompositionsStayInPlace == HostsSpec => []CompositionInPlace
<1>1. HostsInit => Fed /\ CInv
  <2> SUFFICES ASSUME HostsInit PROVE Fed /\ CInv
    OBVIOUS
  <2>1. layers \in LayerCounts /\ kv = NoSlab /\ seqLen = << 0 >>
    BY DEF HostsInit, ServeInit, Init
  <2>2. layers # 0 /\ kv.slots = 0
    BY <2>1, KvAssumption DEF NoSlab
  <2>3. Contents
    BY <2>1, NothingCached
  <2>4. CInv
    BY DEF HostsInit, CInv, Nothing
  <2> QED
    BY <2>2, <2>3, <2>4 DEF Fed, LInv, Reserved
<1>2. HInv /\ Fed /\ CInv /\ [HostsNext]_everything => Fed' /\ CInv'
  BY FedStays, StagesKept
<1>3. HInv /\ Fed /\ CInv => CompositionInPlace
  <2> SUFFICES ASSUME HInv, Fed, CInv PROVE CompositionInPlace
    OBVIOUS
  <2>1. CASE composing.at = "no"
    BY <2>1 DEF CompositionInPlace
  <2>2. CASE composing.at # "no"
    <3>1. host \in {"vlm", "asr"}
      BY <2>2 DEF CInv, Staged
    <3> QED
      BY <3>1, StagesInPlace DEF Fed
  <2> QED
    BY <2>1, <2>2
<1> QED
  BY <1>1, <1>2, <1>3, HostsInvariance, PTL DEF HostsSpec
=============================================================================
