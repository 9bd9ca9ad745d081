---------------------------- MODULE MemoryProofs ----------------------------
(***************************************************************************)
(* Proofs about the memory of the Python engine (GraphExecutor), about the *)
(* memory of a session and its tower (ModelMemory, TowerMemory), and about *)
(* the runs of both (MCMemory).                                            *)
(***************************************************************************)
EXTENDS MCMemory, SequenceLemmas

-----------------------------------------------------------------------------
(* The arena.                                                              *)

(* One more element in the sum. *)
LEMMA SumMore ==
  ASSUME NEW f, NEW S, IsFiniteSet(S), \A y \in S : f[y] \in Nat, NEW x, x \notin S, f[x] \in Nat
  PROVE  SumOf(f, S \cup {x}) = f[x] + SumOf(f, S)
<1> DEFINE T == S \cup {x}
<1>1. IsFiniteSet(T) /\ x \in T /\ T \ {x} = S /\ \A y \in T : f[y] \in Nat
  BY FS_AddElement
<1> HIDE DEF T
<1>2. SumOf(f, T) = f[x] + SumOf(f, T \ {x})
  BY <1>1, SumLess
<1> QED
  BY <1>1, <1>2 DEF T

-----------------------------------------------------------------------------
ArenaShape(a, g) ==
  a \in [free : [Range(g.size) -> Seq(Nat)], live : SUBSET Nat, sizes : Seq(Range(g.size)),
         reuses : Nat, held : Nat, peak : Nat]

(* What waits is in the pool of its size, once.                             *)
Waits(a, n) ==
  /\ \A i \in DOMAIN a.free[n] : /\ a.free[n][i] \in DOMAIN a.sizes \ a.live
                                 /\ a.sizes[a.free[n][i]] = n
  /\ \A i, j \in DOMAIN a.free[n] : a.free[n][i] = a.free[n][j] => i = j

InPool(a, b) == \E i \in DOMAIN a.free[a.sizes[b]] : a.free[a.sizes[b]][i] = b

ArenaOK(a, g) ==
  /\ ArenaShape(a, g)
  /\ a.live \subseteq DOMAIN a.sizes
  /\ \A n \in DOMAIN a.free : Waits(a, n)
  /\ \A b \in DOMAIN a.sizes \ a.live : InPool(a, b)
  /\ a.held = SumOf(a.sizes, a.live)

NatSizes(g) == \A n \in Range(g.size) : n \in Nat

(* What the shape of an arena says of its parts. *)
LEMMA ArenaFacts ==
  ASSUME NEW g, NatSizes(g), NEW a, ArenaOK(a, g)
  PROVE  /\ IsFiniteSet(a.live) /\ DOMAIN a.sizes = 1 .. Len(a.sizes) /\ Len(a.sizes) \in Nat
         /\ \A b \in DOMAIN a.sizes : a.sizes[b] \in Range(g.size) /\ a.sizes[b] \in Nat /\ b \in Nat
         /\ DOMAIN a.free = Range(g.size)
<1> DEFINE S == Range(g.size)
<1>1. a.sizes \in Seq(S) /\ a.free \in [S -> Seq(Nat)] /\ a.live \subseteq DOMAIN a.sizes
  BY DEF ArenaOK, ArenaShape
<1>2. \A n \in S : n \in Nat
  BY DEF NatSizes
<1> HIDE DEF S
<1>3. DOMAIN a.sizes = 1 .. Len(a.sizes) /\ Len(a.sizes) \in Nat
  BY <1>1
<1>4. IsFiniteSet(1 .. Len(a.sizes))
  BY <1>3, FS_Interval
<1>5. IsFiniteSet(a.live)
  BY <1>1, <1>3, <1>4, FS_Subset
<1> QED
  BY <1>1, <1>2, <1>3, <1>5 DEF S

(* A new buffer lengthens the sizes, and moves none.                        *)
Lengthens(s, t) == Len(s) <= Len(t) /\ \A b \in DOMAIN s : b \in DOMAIN t /\ t[b] = s[b]

Acquired(a, g, n, r) ==
  /\ ArenaOK(r.arena, g) /\ r.at \notin a.live /\ r.at \in DOMAIN r.arena.sizes
  /\ r.arena.live = a.live \cup {r.at} /\ r.arena.sizes[r.at] = n
  /\ Lengthens(a.sizes, r.arena.sizes)

(* The peak stays a number. *)
LEMMA MaxOfTwo == ASSUME NEW x \in Nat, NEW y \in Nat PROVE Max({x, y}) \in Nat
<1>1. \E z \in {x, y} : \A w \in {x, y} : z >= w
  OBVIOUS
<1>2. Max({x, y}) \in {x, y}
  BY <1>1 DEF Max
<1> QED
  BY <1>2

(* BufferArena.acquire: a buffer of the asked size that was not live, from
   the pool or new; the arena stays sound. *)
LEMMA AcquireOK ==
  ASSUME NEW g, NatSizes(g), NEW a, ArenaOK(a, g), NEW n \in Range(g.size)
  PROVE  Acquired(a, g, n, Acquire(a, n))
<1> DEFINE S == Range(g.size)
           c == Acquire(a, n).arena
           at == Acquire(a, n).at
<1>1. /\ a.sizes \in Seq(S) /\ a.free \in [S -> Seq(Nat)] /\ a.live \subseteq DOMAIN a.sizes
      /\ a.live \in SUBSET Nat /\ a.reuses \in Nat /\ a.held \in Nat /\ a.peak \in Nat
      /\ a = [free |-> a.free, live |-> a.live, sizes |-> a.sizes, reuses |-> a.reuses,
              held |-> a.held, peak |-> a.peak]
  BY DEF ArenaOK, ArenaShape
<1>2. /\ IsFiniteSet(a.live) /\ DOMAIN a.sizes = 1 .. Len(a.sizes) /\ Len(a.sizes) \in Nat
      /\ \A b \in DOMAIN a.sizes : a.sizes[b] \in S /\ a.sizes[b] \in Nat /\ b \in Nat
      /\ DOMAIN a.free = S
  BY ArenaFacts
<1>3. n \in Nat /\ n \in S
  BY DEF NatSizes
<1>4. /\ \A m \in S : Waits(a, m)
      /\ \A b \in DOMAIN a.sizes \ a.live : InPool(a, b)
      /\ a.held = SumOf(a.sizes, a.live)
  BY <1>2 DEF ArenaOK
<1>5. CASE a.free[n] # << >>
  <2> DEFINE p == a.free[n]
             k == Len(p)
  <2>1. p \in Seq(Nat) /\ p # << >> /\ k \in Nat \ {0} /\ DOMAIN p = 1 .. k /\ k \in DOMAIN p
    BY <1>1, <1>3, <1>5
  <2>2. Waits(a, n)
    BY <1>3, <1>4
  <2>3. at = p[k] /\ c.live = a.live \cup {at} /\ c.sizes = a.sizes /\ c.held = a.held + n
        /\ c.free = [a.free EXCEPT ![n] = Front(p)] /\ c.reuses = a.reuses + 1
        /\ c.peak = Max({a.peak, a.held + n})
        /\ c = [free |-> c.free, live |-> c.live, sizes |-> c.sizes, reuses |-> c.reuses,
                held |-> c.held, peak |-> c.peak]
    BY <1>1, <1>5 DEF Acquire, Last
  <2>4. at \in DOMAIN a.sizes /\ at \notin a.live /\ a.sizes[at] = n
    BY <2>1, <2>2, <2>3 DEF Waits
  <2> DEFINE q == Front(p)
  <2>5. /\ q \in Seq(Nat) /\ DOMAIN q = 1 .. k - 1 /\ \A i \in 1 .. k - 1 : q[i] = p[i]
        /\ 1 .. k - 1 \subseteq DOMAIN p /\ \A i \in DOMAIN p : i \in 1 .. k - 1 \/ i = k
    BY <2>1 DEF Front
  <2> HIDE DEF p, q
  <2>6. c.free \in [S -> Seq(Nat)] /\ c.free[n] = q /\ \A m \in S \ {n} : c.free[m] = a.free[m]
    <3>1. c.free = [a.free EXCEPT ![n] = q]
      BY <2>3 DEF p, q
    <3> HIDE DEF c, S
    <3> QED
      BY <1>1, <1>3, <2>5, <3>1
  <2>7. c.held = SumOf(c.sizes, c.live) /\ c.held \in Nat
    <3>1. SumOf(a.sizes, a.live \cup {at}) = a.sizes[at] + SumOf(a.sizes, a.live)
      BY <1>1, <1>2, <2>4, SumMore
    <3> HIDE DEF at, c
    <3> QED
      BY <1>1, <1>3, <1>4, <2>3, <2>4, <3>1
  <2>8. c.peak \in Nat
    <3>1. a.held + n \in Nat /\ a.peak \in Nat
      BY <1>1, <1>3
    <3>2. Max({a.peak, a.held + n}) \in Nat
      BY <3>1, MaxOfTwo
    <3> HIDE DEF c
    <3> QED
      BY <2>3, <3>2
  <2>9. ASSUME NEW m \in S PROVE Waits(c, m)
    <3>1. CASE m = n
      <4> HIDE DEF c, at
      <4>0. \A i, j \in DOMAIN p : p[i] = p[j] => i = j
        BY <2>2 DEF Waits, p
      <4>1. ASSUME NEW i \in DOMAIN q PROVE q[i] = p[i] /\ i \in DOMAIN p /\ p[i] # at
        <5>1. i \in 1 .. k - 1 /\ i # k
          BY <2>1, <2>5
        <5> QED
          BY <2>1, <2>3, <2>5, <4>0, <5>1 DEF p
      <4> QED
        BY <2>2, <2>3, <2>6, <3>1, <4>1 DEF Waits, p
    <3>2. CASE m # n
      <4>1. Waits(a, m) /\ c.free[m] = a.free[m]
        BY <1>4, <2>6, <3>2
      <4> HIDE DEF c, at
      <4> QED
        BY <2>3, <2>4, <3>2, <4>1 DEF Waits
    <3> QED
      BY <3>1, <3>2
  <2>10. ASSUME NEW b \in DOMAIN c.sizes \ c.live PROVE InPool(c, b)
    <3> HIDE DEF c, at
    <3>1. b \in DOMAIN a.sizes \ a.live /\ b # at /\ a.sizes[b] \in S
      BY <1>2, <2>3
    <3>2. PICK i \in DOMAIN a.free[a.sizes[b]] : a.free[a.sizes[b]][i] = b
      BY <1>4, <3>1 DEF InPool
    <3>3. CASE a.sizes[b] = n
      <4>1. i \in DOMAIN p /\ p[i] = b /\ i # k
        BY <2>3, <3>1, <3>2, <3>3 DEF p
      <4>2. i \in DOMAIN q /\ q[i] = b
        BY <2>5, <4>1
      <4> QED
        BY <2>3, <2>6, <3>3, <4>2 DEF InPool
    <3>4. CASE a.sizes[b] # n
      BY <2>3, <2>6, <3>1, <3>2, <3>4 DEF InPool
    <3> QED
      BY <3>3, <3>4
  <2>11. ArenaOK(c, g)
    <3>1. ArenaShape(c, g)
      <4>1. c.live \in SUBSET Nat /\ c.reuses \in Nat /\ c.sizes \in Seq(S)
        BY <1>1, <1>2, <2>3, <2>4
      <4> HIDE DEF c, at
      <4> QED
        BY <2>3, <2>6, <2>7, <2>8, <4>1 DEF ArenaShape
    <3>2. c.live \subseteq DOMAIN c.sizes /\ DOMAIN c.free = S
      BY <1>1, <2>3, <2>4, <2>6
    <3> HIDE DEF c, at
    <3> QED
      BY <2>7, <2>9, <2>10, <3>1, <3>2 DEF ArenaOK
  <2>12. Lengthens(a.sizes, c.sizes)
    BY <1>2, <2>3 DEF Lengthens
  <2> QED
    BY <2>3, <2>4, <2>11, <2>12 DEF Acquired
<1>6. CASE a.free[n] = << >>
  <2>1. at = Len(a.sizes) + 1 /\ c.live = a.live \cup {at} /\ c.sizes = Append(a.sizes, n)
        /\ c.held = a.held + n /\ c.free = a.free /\ c.reuses = a.reuses
        /\ c.peak = Max({a.peak, a.held + n})
        /\ c = [free |-> c.free, live |-> c.live, sizes |-> c.sizes, reuses |-> c.reuses,
                held |-> c.held, peak |-> c.peak]
    BY <1>1, <1>6 DEF Acquire
  <2> HIDE DEF c, at
  <2>2. /\ c.sizes \in Seq(S) /\ DOMAIN c.sizes = DOMAIN a.sizes \cup {at} /\ at \notin DOMAIN a.sizes
        /\ at \notin a.live /\ c.sizes[at] = n /\ \A b \in DOMAIN a.sizes : c.sizes[b] = a.sizes[b]
        /\ at \in Nat /\ Len(c.sizes) = Len(a.sizes) + 1
    <3>1. c.sizes \in Seq(S) /\ Len(c.sizes) = Len(a.sizes) + 1 /\ at \in Nat
      BY <1>1, <1>2, <1>3, <2>1
    <3>2. DOMAIN c.sizes = DOMAIN a.sizes \cup {at} /\ at \notin DOMAIN a.sizes
      BY <1>2, <2>1, <3>1
    <3> QED
      BY <1>1, <1>2, <1>3, <2>1, <3>1, <3>2
  <2>3. Lengthens(a.sizes, c.sizes)
    BY <1>2, <2>2 DEF Lengthens
  <2>4. c.held = SumOf(c.sizes, c.live) /\ c.held \in Nat
    <3>1. \A y \in a.live : c.sizes[y] \in Nat
      BY <1>1, <1>2, <2>2
    <3>2. SumOf(c.sizes, a.live \cup {at}) = c.sizes[at] + SumOf(c.sizes, a.live)
      BY <1>2, <1>3, <2>2, <3>1, SumMore
    <3>3. SameOn(c.sizes, a.sizes, a.live)
      BY <1>1, <2>2 DEF SameOn
    <3>4. SumOf(c.sizes, a.live) = SumOf(a.sizes, a.live)
      BY <1>2, <3>3, SumSame
    <3> QED
      BY <1>1, <1>3, <1>4, <2>1, <2>2, <3>2, <3>4
  <2>5. c.peak \in Nat
    <3>1. a.held + n \in Nat /\ a.peak \in Nat
      BY <1>1, <1>3
    <3>2. Max({a.peak, a.held + n}) \in Nat
      BY <3>1, MaxOfTwo
    <3> HIDE DEF c
    <3> QED
      BY <2>1, <3>2
  <2>6. ASSUME NEW m \in S PROVE Waits(c, m)
    <3>1. Waits(a, m)
      BY <1>4
    <3>2. ASSUME NEW i \in DOMAIN c.free[m]
          PROVE  c.free[m][i] \in DOMAIN c.sizes \ c.live /\ c.sizes[c.free[m][i]] = m
      <4>1. a.free[m][i] \in DOMAIN a.sizes \ a.live /\ a.sizes[a.free[m][i]] = m
        BY <2>1, <3>1, <3>2 DEF Waits
      <4> QED
        BY <2>1, <2>2, <4>1
    <3> QED
      BY <2>1, <3>1, <3>2 DEF Waits
  <2>7. ASSUME NEW b \in DOMAIN c.sizes \ c.live PROVE InPool(c, b)
    <3>1. b \in DOMAIN a.sizes \ a.live /\ c.sizes[b] = a.sizes[b]
      BY <2>1, <2>2
    <3>2. InPool(a, b)
      BY <1>4, <3>1
    <3> QED
      BY <2>1, <3>1, <3>2 DEF InPool
  <2>8. ArenaOK(c, g)
    <3>1. ArenaShape(c, g)
      <4>1. c.live \in SUBSET Nat /\ c.reuses \in Nat
        BY <1>1, <2>1, <2>2
      <4> QED
        BY <1>1, <2>1, <2>2, <2>4, <2>5, <4>1 DEF ArenaShape
    <3>2. c.live \subseteq DOMAIN c.sizes /\ DOMAIN c.free = S
      BY <1>1, <2>1, <2>2
    <3> QED
      BY <2>4, <2>6, <2>7, <3>1, <3>2 DEF ArenaOK
  <2> QED
    BY <2>1, <2>2, <2>3, <2>8 DEF Acquired, c, at
<1> QED
  BY <1>5, <1>6

(* What went back is no more live; nothing else changes but the pools.      *)
Returned(a, g, gone, c) ==
  /\ ArenaOK(c, g) /\ c.live = a.live \ gone /\ c.sizes = a.sizes
  /\ c.reuses = a.reuses /\ c.peak = a.peak

(* BufferArena.release: the buffer goes to the pool of its size, once. *)
LEMMA GiveBackOK ==
  ASSUME NEW g, NatSizes(g), NEW a, ArenaOK(a, g), NEW b
  PROVE  Returned(a, g, {b}, GiveBack(a, b))
<1>1. CASE b \notin a.live
  BY <1>1 DEF Returned, GiveBack
<1>2. CASE b \in a.live
  <2> DEFINE S == Range(g.size)
             c == GiveBack(a, b)
             n == a.sizes[b]
             p == a.free[n]
             q == Append(p, b)
  <2>1. /\ a.sizes \in Seq(S) /\ a.free \in [S -> Seq(Nat)] /\ a.live \subseteq DOMAIN a.sizes
        /\ a.live \in SUBSET Nat /\ a.reuses \in Nat /\ a.held \in Nat /\ a.peak \in Nat
        /\ a = [free |-> a.free, live |-> a.live, sizes |-> a.sizes, reuses |-> a.reuses,
                held |-> a.held, peak |-> a.peak]
    BY DEF ArenaOK, ArenaShape
  <2>2. /\ IsFiniteSet(a.live) /\ DOMAIN a.sizes = 1 .. Len(a.sizes) /\ Len(a.sizes) \in Nat
        /\ \A x \in DOMAIN a.sizes : a.sizes[x] \in S /\ a.sizes[x] \in Nat /\ x \in Nat
        /\ DOMAIN a.free = S
    BY ArenaFacts
  <2>3. /\ \A m \in S : Waits(a, m)
        /\ \A x \in DOMAIN a.sizes \ a.live : InPool(a, x)
        /\ a.held = SumOf(a.sizes, a.live)
    BY <2>2 DEF ArenaOK
  <2>4. n \in S /\ n \in Nat /\ b \in Nat /\ b \in DOMAIN a.sizes
    BY <1>2, <2>1, <2>2
  <2>5. c.live = a.live \ {b} /\ c.sizes = a.sizes /\ c.held = a.held - n /\ c.reuses = a.reuses
        /\ c.peak = a.peak /\ c.free = [a.free EXCEPT ![n] = q]
        /\ c = [free |-> c.free, live |-> c.live, sizes |-> c.sizes, reuses |-> c.reuses,
                held |-> c.held, peak |-> c.peak]
    BY <1>2, <2>1, <2>4 DEF GiveBack
  <2>6. /\ p \in Seq(Nat) /\ DOMAIN p = 1 .. Len(p) /\ Len(p) \in Nat /\ q \in Seq(Nat)
        /\ DOMAIN q = 1 .. Len(p) + 1 /\ q[Len(p) + 1] = b /\ \A i \in DOMAIN p : q[i] = p[i] /\ i \in DOMAIN q
    <3>1. p \in Seq(Nat)
      BY <2>1, <2>4
    <3> HIDE DEF p
    <3> QED
      BY <2>4, <3>1
  <2> HIDE DEF c, S, q
  <2>7. c.free \in [S -> Seq(Nat)] /\ c.free[n] = q /\ \A m \in S \ {n} : c.free[m] = a.free[m]
    BY <2>1, <2>4, <2>5, <2>6
  <2>8. c.held = SumOf(c.sizes, c.live) /\ c.held \in Nat
    <3>1. \A y \in a.live : a.sizes[y] \in Nat
      BY <2>1, <2>2
    <3>2. SumOf(a.sizes, a.live) = a.sizes[b] + SumOf(a.sizes, a.live \ {b}) /\ SumOf(a.sizes, a.live \ {b}) \in Nat
      <4> DEFINE z == a.sizes
                 live == a.live
      <4>1. IsFiniteSet(live) /\ b \in live /\ \A y \in live : z[y] \in Nat
        BY <1>2, <2>2, <3>1
      <4> HIDE DEF z, live
      <4>2. SumOf(z, live) = z[b] + SumOf(z, live \ {b}) /\ SumOf(z, live \ {b}) \in Nat
        BY <4>1, SumLess
      <4> QED
        BY <4>2 DEF z, live
    <3> QED
      BY <2>3, <2>4, <2>5, <3>2
  <2>9. ASSUME NEW m \in S PROVE Waits(c, m)
    <3>1. CASE m = n
      <4>1. Waits(a, n)
        BY <2>3, <2>4
      <4>2. ASSUME NEW i \in DOMAIN p
            PROVE  p[i] # b /\ p[i] \in DOMAIN a.sizes \ a.live /\ a.sizes[p[i]] = n
        BY <1>2, <4>1 DEF Waits
      <4>3. \A i, j \in DOMAIN p : p[i] = p[j] => i = j
        BY <4>1 DEF Waits
      <4> HIDE DEF n, p
      <4>4. \A i \in DOMAIN q : i \in DOMAIN p \/ i = Len(p) + 1
        BY <2>6
      <4>5. ASSUME NEW i \in DOMAIN q PROVE q[i] \in DOMAIN c.sizes \ c.live /\ c.sizes[q[i]] = n
        <5>1. DOMAIN c.sizes = DOMAIN a.sizes /\ c.live = a.live \ {b} /\ c.sizes = a.sizes
          BY <2>5
        <5>2. CASE i \in DOMAIN p
          <6>1. q[i] = p[i]
            BY <2>6, <5>2
          <6> QED
            BY <4>2, <5>1, <5>2, <6>1
        <5>3. CASE i = Len(p) + 1
          <6>1. q[i] = b /\ a.sizes[b] = n
            BY <2>6, <5>3 DEF n
          <6> QED
            BY <2>4, <5>1, <6>1
        <5> QED
          BY <4>4, <5>2, <5>3
      <4>6. \A i, j \in DOMAIN q : q[i] = q[j] => i = j
        BY <2>6, <4>2, <4>3, <4>4
      <4> QED
        BY <2>7, <3>1, <4>5, <4>6 DEF Waits
    <3>2. CASE m # n
      <4>1. Waits(a, m) /\ c.free[m] = a.free[m]
        BY <2>3, <2>7, <3>2
      <4> QED
        BY <2>5, <4>1 DEF Waits
    <3> QED
      BY <3>1, <3>2
  <2>10. ASSUME NEW x \in DOMAIN c.sizes \ c.live PROVE InPool(c, x)
    <3>1. CASE x = b
      <4>1. Len(p) + 1 \in DOMAIN q
        BY <2>6
      <4> QED
        BY <2>5, <2>6, <2>7, <3>1, <4>1 DEF InPool
    <3>2. CASE x # b
      <4>1. x \in DOMAIN a.sizes \ a.live /\ a.sizes[x] \in S
        BY <2>2, <2>5, <3>2
      <4>2. PICK i \in DOMAIN a.free[a.sizes[x]] : a.free[a.sizes[x]][i] = x
        BY <2>3, <4>1 DEF InPool
      <4>3. CASE a.sizes[x] = n
        <5>1. i \in DOMAIN q /\ q[i] = x
          BY <2>6, <4>2, <4>3
        <5> QED
          BY <2>5, <2>7, <4>3, <5>1 DEF InPool
      <4>4. CASE a.sizes[x] # n
        BY <2>5, <2>7, <4>1, <4>2, <4>4 DEF InPool
      <4> QED
        BY <4>3, <4>4
    <3> QED
      BY <3>1, <3>2
  <2>11. ArenaOK(c, g)
    <3>1. ArenaShape(c, g)
      BY <2>1, <2>5, <2>7, <2>8 DEF ArenaShape, S
    <3>2. c.live \subseteq DOMAIN c.sizes /\ DOMAIN c.free = S
      BY <2>1, <2>5, <2>7
    <3> QED
      BY <2>8, <2>9, <2>10, <3>1, <3>2 DEF ArenaOK
  <2> QED
    BY <2>5, <2>11 DEF Returned, c
<1> QED
  BY <1>1, <1>2

-----------------------------------------------------------------------------
(* Buffers given back one after another.                                    *)

Gives(a, bufs, m, f) == f = [k \in 0 .. m |-> IF k = 0 THEN a ELSE GiveBack(f[k - 1], bufs[k])]

(* The loop of releases is a function of the step. *)
LEMMA GivesExists ==
  ASSUME NEW a, NEW bufs, NEW n \in Nat
  PROVE  \E f : Gives(a, bufs, n, f)
<1> DEFINE P == {m \in Nat : \E f : Gives(a, bufs, m, f)}
<1>1. 0 \in P
  <2> DEFINE g == [k \in 0 .. 0 |-> a]
  <2>1. g = [k \in 0 .. 0 |-> IF k = 0 THEN a ELSE GiveBack(g[k - 1], bufs[k])]
    OBVIOUS
  <2> HIDE DEF g
  <2>2. Gives(a, bufs, 0, g)
    BY <2>1 DEF Gives
  <2> QED
    BY <2>2
<1>2. ASSUME NEW m \in 0 .. n - 1, m \in P PROVE m + 1 \in P
  <2>1. PICK f : Gives(a, bufs, m, f)
    BY <1>2
  <2> DEFINE g == [k \in 0 .. m + 1 |-> IF k = m + 1 THEN GiveBack(f[m], bufs[m + 1]) ELSE f[k]]
  <2>2. ASSUME NEW k \in 0 .. m + 1
        PROVE  g[k] = IF k = 0 THEN a ELSE GiveBack(g[k - 1], bufs[k])
    <3>1. CASE k = m + 1
      <4>1. g[m + 1] = GiveBack(f[m], bufs[m + 1]) /\ g[m] = f[m] /\ (m + 1) - 1 = m /\ m + 1 # 0
        OBVIOUS
      <4> HIDE DEF g
      <4> QED
        BY <3>1, <4>1
    <3>2. CASE k # m + 1
      <4>1. k \in 0 .. m /\ (k # 0 => k - 1 \in 0 .. m)
        BY <3>2
      <4>2. f[k] = IF k = 0 THEN a ELSE GiveBack(f[k - 1], bufs[k])
        BY <2>1, <4>1, Zenon DEF Gives
      <4>3. g[k] = f[k] /\ (k # 0 => g[k - 1] = f[k - 1])
        BY <3>2, <4>1
      <4> HIDE DEF g
      <4> QED
        BY <4>2, <4>3
    <3> QED
      BY <3>1, <3>2
  <2>3. g = [k \in 0 .. m + 1 |-> IF k = 0 THEN a ELSE GiveBack(g[k - 1], bufs[k])]
    <3>1. g = [k \in 0 .. m + 1 |-> g[k]]
      OBVIOUS
    <3> HIDE DEF g
    <3> QED
      BY <2>2, <3>1
  <2> HIDE DEF g
  <2>4. Gives(a, bufs, m + 1, g)
    BY <2>3 DEF Gives
  <2> QED
    BY <2>4
<1>3. Climbs(P, n)
  BY <1>1, <1>2 DEF Climbs
<1>4. n \in 0 .. n
  OBVIOUS
<1> HIDE DEF P
<1>5. n \in P
  BY <1>3, <1>4, Climbed
<1> QED
  BY <1>5 DEF P

(* A loop of releases returns exactly the buffers it names that are live. *)
LEMMA GiveBackAllOK ==
  ASSUME NEW g, NatSizes(g), NEW a, ArenaOK(a, g), NEW bufs, Len(bufs) \in Nat
  PROVE  Returned(a, g, {bufs[j] : j \in 1 .. Len(bufs)}, GiveBackAll(a, bufs))
<1> DEFINE n == Len(bufs)
           f == CHOOSE x : Gives(a, bufs, n, x)
<1>1. Gives(a, bufs, n, f)
  BY GivesExists
<1>2. GiveBackAll(a, bufs) = f[n]
  BY DEF GiveBackAll, Gives
<1> HIDE DEF f
<1> DEFINE gone(k) == {bufs[j] : j \in 1 .. k}
           P == {k \in 0 .. n : Returned(a, g, gone(k), f[k])}
<1>3. f[0] = a /\ \A k \in 0 .. n - 1 : f[k + 1] = GiveBack(f[k], bufs[k + 1])
  <2>1. ASSUME NEW k \in 0 .. n PROVE f[k] = IF k = 0 THEN a ELSE GiveBack(f[k - 1], bufs[k])
    BY <1>1, Zenon DEF Gives
  <2>2. ASSUME NEW k \in 0 .. n - 1 PROVE f[k + 1] = GiveBack(f[k], bufs[k + 1])
    <3>1. k + 1 \in 0 .. n /\ (k + 1) - 1 = k /\ k + 1 # 0
      OBVIOUS
    <3>2. f[k + 1] = GiveBack(f[(k + 1) - 1], bufs[k + 1])
      BY <2>1, <3>1
    <3> QED
      BY <3>1, <3>2
  <2> QED
    BY <2>1, <2>2
<1>4. 0 \in P
  <2>1. gone(0) = {}
    OBVIOUS
  <2>2. Returned(a, g, {}, a)
    BY DEF Returned
  <2>3. 0 \in 0 .. n
    OBVIOUS
  <2> HIDE DEF gone, n
  <2>4. Returned(a, g, gone(0), f[0])
    BY <1>3, <2>1, <2>2
  <2> QED
    BY <2>3, <2>4
<1>5. ASSUME NEW k \in 0 .. n - 1, k \in P PROVE k + 1 \in P
  <2>1. Returned(a, g, gone(k), f[k]) /\ k + 1 \in 0 .. n
    BY <1>5
  <2>2. gone(k + 1) = gone(k) \cup {bufs[k + 1]}
    <3>1. \A j : j \in 1 .. k + 1 <=> j \in 1 .. k \/ j = k + 1
      OBVIOUS
    <3> QED
      BY <3>1
  <2> HIDE DEF gone
  <2>3. Returned(f[k], g, {bufs[k + 1]}, f[k + 1])
    BY <1>3, <2>1, GiveBackOK DEF Returned
  <2>4. Returned(a, g, gone(k + 1), f[k + 1])
    BY <2>1, <2>2, <2>3 DEF Returned
  <2> QED
    BY <2>1, <2>4
<1>6. Climbs(P, n)
  BY <1>4, <1>5 DEF Climbs
<1>7. n \in 0 .. n
  OBVIOUS
<1> HIDE DEF P
<1>8. n \in P
  BY <1>6, <1>7, Climbed
<1> QED
  BY <1>2, <1>8 DEF P

-----------------------------------------------------------------------------
(* Buffers taken one after another.                                         *)

Got(r, n) == [arena |-> Acquire(r.arena, n).arena, at |-> Append(r.at, Acquire(r.arena, n).at)]

Gets(a, g, names, m, f) ==
  f = [k \in 0 .. m |-> IF k = 0 THEN [arena |-> a, at |-> << >>] ELSE Got(f[k - 1], g.size[names[k]])]

(* The loop of acquires is a function of the step. *)
LEMMA GetsExists ==
  ASSUME NEW a, NEW g, NEW names, NEW n \in Nat
  PROVE  \E f : Gets(a, g, names, n, f)
<1> DEFINE P == {m \in Nat : \E f : Gets(a, g, names, m, f)}
<1>1. 0 \in P
  <2> DEFINE h == [k \in 0 .. 0 |-> [arena |-> a, at |-> << >>]]
  <2>1. h = [k \in 0 .. 0 |-> IF k = 0 THEN [arena |-> a, at |-> << >>] ELSE Got(h[k - 1], g.size[names[k]])]
    OBVIOUS
  <2> HIDE DEF h
  <2>2. Gets(a, g, names, 0, h)
    BY <2>1 DEF Gets
  <2> QED
    BY <2>2
<1>2. ASSUME NEW m \in 0 .. n - 1, m \in P PROVE m + 1 \in P
  <2>1. PICK f : Gets(a, g, names, m, f)
    BY <1>2
  <2> DEFINE h == [k \in 0 .. m + 1 |-> IF k = m + 1 THEN Got(f[m], g.size[names[m + 1]]) ELSE f[k]]
  <2>2. ASSUME NEW k \in 0 .. m + 1
        PROVE  h[k] = IF k = 0 THEN [arena |-> a, at |-> << >>] ELSE Got(h[k - 1], g.size[names[k]])
    <3>1. CASE k = m + 1
      <4>1. h[m + 1] = Got(f[m], g.size[names[m + 1]]) /\ h[m] = f[m] /\ (m + 1) - 1 = m /\ m + 1 # 0
        OBVIOUS
      <4> HIDE DEF h
      <4> QED
        BY <3>1, <4>1
    <3>2. CASE k # m + 1
      <4>1. k \in 0 .. m /\ (k # 0 => k - 1 \in 0 .. m)
        BY <3>2
      <4>2. f[k] = IF k = 0 THEN [arena |-> a, at |-> << >>] ELSE Got(f[k - 1], g.size[names[k]])
        BY <2>1, <4>1, Zenon DEF Gets
      <4>3. h[k] = f[k] /\ (k # 0 => h[k - 1] = f[k - 1])
        BY <3>2, <4>1
      <4> HIDE DEF h
      <4> QED
        BY <4>2, <4>3
    <3> QED
      BY <3>1, <3>2
  <2>3. h = [k \in 0 .. m + 1 |-> IF k = 0 THEN [arena |-> a, at |-> << >>] ELSE Got(h[k - 1], g.size[names[k]])]
    <3>1. h = [k \in 0 .. m + 1 |-> h[k]]
      OBVIOUS
    <3> HIDE DEF h
    <3> QED
      BY <2>2, <3>1
  <2> HIDE DEF h
  <2>4. Gets(a, g, names, m + 1, h)
    BY <2>3 DEF Gets
  <2> QED
    BY <2>4
<1>3. Climbs(P, n)
  BY <1>1, <1>2 DEF Climbs
<1>4. n \in 0 .. n
  OBVIOUS
<1> HIDE DEF P
<1>5. n \in P
  BY <1>3, <1>4, Climbed
<1> QED
  BY <1>5 DEF P


(* The first k of the names have a buffer each, of their size, that no one had. *)
Took(a, g, names, k, r) ==
  /\ ArenaOK(r.arena, g) /\ r.at \in Seq(Nat) /\ Len(r.at) = k
  /\ \A j \in 1 .. k : /\ r.at[j] \in DOMAIN r.arena.sizes /\ r.at[j] \notin a.live
                       /\ r.arena.sizes[r.at[j]] = g.size[names[j]]
  /\ \A i, j \in 1 .. k : r.at[i] = r.at[j] => i = j
  /\ r.arena.live = a.live \cup {r.at[j] : j \in 1 .. k}
  /\ Lengthens(a.sizes, r.arena.sizes)

(* One acquire more. *)
LEMMA TookMore ==
  ASSUME NEW g, NatSizes(g), NEW a, NEW names, NEW k \in Nat, NEW r, Took(a, g, names, k, r),
         g.size[names[k + 1]] \in Range(g.size)
  PROVE  Took(a, g, names, k + 1, Got(r, g.size[names[k + 1]]))
<1> DEFINE n == g.size[names[k + 1]]
           c == Acquire(r.arena, n).arena
           b == Acquire(r.arena, n).at
           at == Append(r.at, b)
           t == Got(r, n)
<1>1. Acquired(r.arena, g, n, Acquire(r.arena, n))
  BY AcquireOK DEF Took
<1>2. t.arena = c /\ t.at = at
  BY DEF Got
<1> HIDE DEF t, c, b, n
<1>3. /\ ArenaOK(c, g) /\ b \notin r.arena.live /\ b \in DOMAIN c.sizes
      /\ c.live = r.arena.live \cup {b} /\ c.sizes[b] = n /\ Lengthens(r.arena.sizes, c.sizes)
  BY <1>1 DEF Acquired, c, b
<1>4. b \in Nat
  <2>1. c.sizes \in Seq(Range(g.size))
    BY <1>3 DEF ArenaOK, ArenaShape
  <2> QED
    BY <1>3, <2>1
<1>5. r.at \in Seq(Nat) /\ Len(r.at) = k
  BY DEF Took
<1>6. /\ at \in Seq(Nat) /\ Len(at) = k + 1 /\ at[k + 1] = b /\ \A j \in 1 .. k : at[j] = r.at[j]
      /\ \A j \in 1 .. k + 1 : j \in 1 .. k \/ j = k + 1
  BY <1>4, <1>5
<1> HIDE DEF at
<1>7. ASSUME NEW j \in 1 .. k
      PROVE  /\ at[j] \in DOMAIN c.sizes /\ at[j] \notin a.live /\ at[j] # b
             /\ c.sizes[at[j]] = g.size[names[j]]
  <2>1. /\ r.at[j] \in DOMAIN r.arena.sizes /\ r.at[j] \notin a.live /\ r.at[j] \in r.arena.live
        /\ r.arena.sizes[r.at[j]] = g.size[names[j]] /\ at[j] = r.at[j]
    BY <1>6 DEF Took
  <2> QED
    BY <1>3, <2>1 DEF Lengthens
<1>8. b \notin a.live
  BY <1>3 DEF Took
<1>9. \A j \in 1 .. k + 1 : /\ at[j] \in DOMAIN c.sizes /\ at[j] \notin a.live
                           /\ c.sizes[at[j]] = g.size[names[j]]
  BY <1>3, <1>6, <1>7, <1>8 DEF n
<1>10. \A i, j \in 1 .. k + 1 : at[i] = at[j] => i = j
  <2>1. \A i, j \in 1 .. k : at[i] = at[j] => i = j
    BY <1>6 DEF Took
  <2> QED
    BY <1>6, <1>7, <2>1
<1>11. c.live = a.live \cup {at[j] : j \in 1 .. k + 1}
  <2>1. {at[j] : j \in 1 .. k + 1} = {at[j] : j \in 1 .. k} \cup {b}
    <3>1. k + 1 \in 1 .. k + 1 /\ \A j \in 1 .. k : j \in 1 .. k + 1
      OBVIOUS
    <3> QED
      BY <1>6, <3>1
  <2>2. {at[j] : j \in 1 .. k} = {r.at[j] : j \in 1 .. k}
    BY <1>6
  <2>3. r.arena.live = a.live \cup {r.at[j] : j \in 1 .. k}
    BY DEF Took
  <2> QED
    BY <1>3, <2>1, <2>2, <2>3
<1>12. Lengthens(a.sizes, c.sizes)
  <2>1. /\ Lengthens(a.sizes, r.arena.sizes)
    BY DEF Took
  <2>2. Len(c.sizes) \in Nat /\ Len(r.arena.sizes) \in Nat
    <3>1. ArenaOK(r.arena, g)
      BY DEF Took
    <3> QED
      BY <1>3, <3>1, ArenaFacts
  <2>3. Len(a.sizes) <= Len(c.sizes)
    BY <1>3, <2>1, <2>2 DEF Lengthens
  <2> QED
    BY <1>3, <2>1, <2>3 DEF Lengthens
<1> QED
  BY <1>2, <1>3, <1>6, <1>9, <1>10, <1>11, <1>12 DEF Took, t, n

(* A loop of acquires: one buffer per name, each of its own, none live before. *)
LEMMA AcquireAllOK ==
  ASSUME NEW g, NatSizes(g), NEW a, ArenaOK(a, g), NEW names, Len(names) \in Nat,
         \A j \in 1 .. Len(names) : g.size[names[j]] \in Range(g.size)
  PROVE  Took(a, g, names, Len(names), AcquireAll(a, g, names))
<1> DEFINE n == Len(names)
           f == CHOOSE x : Gets(a, g, names, n, x)
<1>1. Gets(a, g, names, n, f)
  BY GetsExists
<1>2. AcquireAll(a, g, names) = f[n]
  BY DEF AcquireAll, Gets, Got
<1> HIDE DEF f
<1> DEFINE P == {k \in 0 .. n : Took(a, g, names, k, f[k])}
<1>3. f[0] = [arena |-> a, at |-> << >>] /\ \A k \in 0 .. n - 1 : f[k + 1] = Got(f[k], g.size[names[k + 1]])
  <2>1. ASSUME NEW k \in 0 .. n PROVE f[k] = IF k = 0 THEN [arena |-> a, at |-> << >>] ELSE Got(f[k - 1], g.size[names[k]])
    BY <1>1, Zenon DEF Gets
  <2>2. ASSUME NEW k \in 0 .. n - 1 PROVE f[k + 1] = Got(f[k], g.size[names[k + 1]])
    <3>1. k + 1 \in 0 .. n /\ (k + 1) - 1 = k /\ k + 1 # 0
      OBVIOUS
    <3>2. f[k + 1] = Got(f[(k + 1) - 1], g.size[names[k + 1]])
      BY <2>1, <3>1
    <3> QED
      BY <3>1, <3>2
  <2> QED
    BY <2>1, <2>2
<1>4. 0 \in P
  <2>1. 0 \in 0 .. n
    OBVIOUS
  <2>2. Took(a, g, names, 0, f[0])
    <3>1. f[0].arena = a /\ f[0].at = << >>
      BY <1>3
    <3>2. Lengthens(a.sizes, a.sizes)
      BY DEF Lengthens, ArenaOK, ArenaShape
    <3> QED
      BY <3>1, <3>2 DEF Took
  <2> QED
    BY <2>1, <2>2
<1>5. ASSUME NEW k \in 0 .. n - 1, k \in P PROVE k + 1 \in P
  <2>1. Took(a, g, names, k, f[k]) /\ k + 1 \in 0 .. n /\ k + 1 \in 1 .. n /\ k \in Nat
    BY <1>5
  <2>2. Took(a, g, names, k + 1, Got(f[k], g.size[names[k + 1]]))
    BY <2>1, TookMore
  <2>3. f[k + 1] = Got(f[k], g.size[names[k + 1]])
    BY <1>3
  <2> HIDE DEF n
  <2> QED
    BY <2>1, <2>2, <2>3
<1>6. Climbs(P, n)
  BY <1>4, <1>5 DEF Climbs
<1>7. n \in 0 .. n
  OBVIOUS
<1> HIDE DEF P
<1>8. n \in P
  BY <1>6, <1>7, Climbed
<1> QED
  BY <1>2, <1>8 DEF P

-----------------------------------------------------------------------------
(* The graph.                                                              *)

(* A set of numbers as far as n has a greatest one.                         *)
LEMMA GreatestIs ==
  ASSUME NEW n \in Nat, NEW T, T \subseteq 0 .. n, T # {}
  PROVE  Max(T) \in T /\ \A y \in T : Max(T) >= y
<1> DEFINE Down == {n - y : y \in T}
<1>1. PICK d \in Down : \A y \in Down : d <= y
  <2>1. \A y \in T : n - y \in Nat
    OBVIOUS
  <2>2. Down \subseteq Nat /\ Down # {}
    BY <2>1
  <2> HIDE DEF Down
  <2> QED
    BY <2>2, LeastExists
<1>2. PICK x \in T : d = n - x
  OBVIOUS
<1>3. \A y \in T : x >= y
  <2>1. SUFFICES ASSUME NEW y \in T PROVE x >= y
    OBVIOUS
  <2>2. d <= n - y
    BY <1>1
  <2>3. x \in 0 .. n /\ y \in 0 .. n
    OBVIOUS
  <2> HIDE DEF Down
  <2> QED
    BY <1>2, <2>2, <2>3
<1>4. \E z \in T : \A y \in T : z >= y
  BY <1>3
<1> HIDE DEF Down
<1> QED
  BY <1>4 DEF Max

(* What Graph.verify says of the lists of a graph. *)
LEMMA GraphFacts ==
  ASSUME NEW g \in Graphs
  PROVE  /\ Verified(g) /\ NatSizes(g) /\ Len(g.nodes) \in Nat /\ Nodes(g) = 1 .. Len(g.nodes)
         /\ g.inputs \in Seq(DOMAIN g.size) /\ g.outputs \in Seq(DOMAIN g.size)
         /\ \A i \in Nodes(g) : g.nodes[i].args \in Seq(DOMAIN g.size) /\ g.nodes[i].outs \in Seq(DOMAIN g.size)
<1>1. Verified(g)
  BY GraphAssumption
<1>2. \A v \in DOMAIN g.size : g.size[v] \in Nat
  BY <1>1 DEF Verified, WellFormed
<1>3. NatSizes(g)
  BY <1>2 DEF NatSizes, Range
<1>4. g.nodes \in Seq(Range(g.nodes))
  BY <1>1 DEF Verified, WellFormed
<1>5. Len(g.nodes) \in Nat /\ Nodes(g) = 1 .. Len(g.nodes)
  <2> DEFINE S == Range(g.nodes)
             s == g.nodes
  <2>1. s \in Seq(S)
    BY <1>4
  <2> HIDE DEF S, s
  <2>2. Len(s) \in Nat /\ DOMAIN s = 1 .. Len(s)
    BY <2>1
  <2> QED
    BY <2>2 DEF s, Nodes
<1>6. /\ g.inputs \in Seq(DOMAIN g.size) /\ g.outputs \in Seq(DOMAIN g.size)
      /\ \A i \in Nodes(g) : g.nodes[i].args \in Seq(DOMAIN g.size) /\ g.nodes[i].outs \in Seq(DOMAIN g.size)
  BY <1>1, Zenon DEF Verified, WellFormed
<1> QED
  BY <1>1, <1>3, <1>5, <1>6

(* A sequence of names is names. *)
LEMMA NamesAre ==
  ASSUME NEW S, NEW s \in Seq(S)
  PROVE  Len(s) \in Nat /\ DOMAIN s = 1 .. Len(s) /\ Range(s) \subseteq S /\ Range(s) = {s[j] : j \in 1 .. Len(s)}
         /\ \A j \in 1 .. Len(s) : s[j] \in S /\ s[j] \in Range(s)
BY DEF Range

(* The environment lists every name: an input, or what some node makes. *)
LEMMA EnvIs ==
  ASSUME NEW g \in Graphs
  PROVE  /\ Len(Env(g)) \in Nat /\ DOMAIN Env(g) = 1 .. Len(Env(g)) /\ Range(Env(g)) = DOMAIN g.size
         /\ \A v \in DOMAIN g.size : v \in Range(g.inputs) \/ \E i \in Nodes(g) : v \in Outs(g, i)
<1> DEFINE made == UNION {Outs(g, i) : i \in Nodes(g)}
           lists == [i \in Nodes(g) |-> g.nodes[i].outs]
           all == Range(g.inputs) \cup made
<1>1. /\ Len(g.nodes) \in Nat /\ Nodes(g) = 1 .. Len(g.nodes)
      /\ g.inputs \in Seq(DOMAIN g.size)
      /\ \A i \in Nodes(g) : g.nodes[i].outs \in Seq(DOMAIN g.size)
  BY GraphFacts
<1>2. ASSUME NEW i \in Nodes(g) PROVE g.nodes[i].outs \in Seq(made)
  <2> DEFINE s == g.nodes[i].outs
  <2>0. s \in Seq(DOMAIN g.size) /\ Range(s) \subseteq made
    BY <1>1 DEF Outs
  <2> HIDE DEF s, made
  <2>1. Len(s) \in Nat /\ DOMAIN s = 1 .. Len(s) /\ \A j \in 1 .. Len(s) : s[j] \in made
    BY <2>0, NamesAre
  <2>2. s = [j \in 1 .. Len(s) |-> s[j]]
    BY <2>0
  <2>3. s \in [1 .. Len(s) -> made]
    BY <2>1, <2>2
  <2> QED
    BY <2>1, <2>3, FunctionIsSeq DEF s
<1>3. lists \in Seq(Seq(made))
  <2> DEFINE T == Seq(made)
  <2>1. lists \in [1 .. Len(g.nodes) -> T]
    BY <1>1, <1>2
  <2> HIDE DEF T, lists
  <2>2. lists \in Seq(T)
    BY <1>1, <2>1, FunctionIsSeq
  <2> QED
    BY <2>2 DEF T
<1> DEFINE f == FlattenSeq(lists)
<1> HIDE DEF lists, made
<1>4. f \in Seq(made)
  BY <1>3, FlattenIsSeq
<1>5. g.inputs \in Seq(all) /\ f \in Seq(all)
  <2> DEFINE s == g.inputs
  <2>1. s \in Seq(DOMAIN g.size)
    BY <1>1
  <2> HIDE DEF f
  <2>2. f \in Seq(all)
    BY <1>4
  <2>3. Len(s) \in Nat /\ DOMAIN s = 1 .. Len(s) /\ \A j \in 1 .. Len(s) : s[j] \in all
    BY <2>1, NamesAre
  <2> HIDE DEF s, all
  <2>4. s = [j \in 1 .. Len(s) |-> s[j]]
    BY <2>1
  <2>5. s \in [1 .. Len(s) -> all]
    BY <2>3, <2>4
  <2>6. s \in Seq(all)
    BY <2>3, <2>5, FunctionIsSeq
  <2> QED
    BY <2>2, <2>6 DEF s
<1>6. Env(g) \in Seq(all)
  <2> DEFINE s == g.inputs
  <2>1. Env(g) = s \o f
    BY DEF Env, f, lists
  <2>2. s \in Seq(all) /\ f \in Seq(all)
    BY <1>5
  <2> HIDE DEF s, f, all
  <2> QED
    BY <2>1, <2>2
<1>7. Range(Env(g)) = DOMAIN g.size
  BY GraphFacts DEF Verified
<1>8. Len(Env(g)) \in Nat /\ DOMAIN Env(g) = 1 .. Len(Env(g)) /\ Range(Env(g)) \subseteq all
  <2> HIDE DEF all
  <2> QED
    BY <1>6, NamesAre
<1> QED
  BY <1>7, <1>8 DEF made

(* A value is born where it is made, and dies no earlier than its last reader. *)
LEMMA BornIs ==
  ASSUME NEW g \in Graphs, NEW v \in DOMAIN g.size
  PROVE  /\ Born(g, v) \in 0 .. Len(g.nodes) /\ Dies(g, v) \in 0 .. Len(g.nodes) /\ Born(g, v) <= Dies(g, v)
         /\ \A i \in Nodes(g) : v \in Outs(g, i) <=> Born(g, v) = i
         /\ v \in Range(g.inputs) <=> Born(g, v) = 0
         /\ \A i \in Nodes(g) : v \in Args(g, i) => Born(g, v) < i /\ i <= Dies(g, v)
<1> DEFINE n == Len(g.nodes)
           makers == {0} \cup {i \in Nodes(g) : v \in Outs(g, i)}
           readers == {Born(g, v)} \cup {i \in Nodes(g) : v \in Args(g, i)}
<1>1. n \in Nat /\ Nodes(g) = 1 .. n /\ Verified(g)
  BY GraphFacts
<1>2. Born(g, v) \in makers /\ \A y \in makers : Born(g, v) >= y
  <2>1. makers \subseteq 0 .. n /\ makers # {}
    BY <1>1
  <2>2. Born(g, v) = Max(makers)
    BY DEF Born
  <2> HIDE DEF makers, n
  <2> QED
    BY <1>1, <2>1, <2>2, GreatestIs
<1>3. Born(g, v) \in 0 .. n
  BY <1>1, <1>2
<1>4. Dies(g, v) \in readers /\ \A y \in readers : Dies(g, v) >= y
  <2>1. readers \subseteq 0 .. n /\ readers # {}
    BY <1>1, <1>3
  <2>2. Dies(g, v) = Max(readers)
    BY DEF Dies
  <2> HIDE DEF readers, n
  <2> QED
    BY <1>1, <2>1, <2>2, GreatestIs
<1>5. Dies(g, v) \in 0 .. n /\ Born(g, v) <= Dies(g, v)
  BY <1>1, <1>3, <1>4
<1>6. ASSUME NEW i \in Nodes(g), NEW j \in Nodes(g), v \in Outs(g, i), v \in Outs(g, j), j < i PROVE FALSE
  <2>1. j \in 1 .. i - 1
    BY <1>1, <1>6
  <2>2. Outs(g, i) \cap Outs(g, j) = {}
    BY <1>1, <2>1 DEF Verified
  <2> QED
    BY <1>6, <2>2
<1>7. ASSUME NEW i \in Nodes(g) PROVE v \in Outs(g, i) <=> Born(g, v) = i
  <2>1. CASE v \in Outs(g, i)
    <3>1. Born(g, v) >= i /\ Born(g, v) # 0
      BY <1>1, <1>2, <1>3, <2>1
    <3>2. Born(g, v) \in Nodes(g) /\ v \in Outs(g, Born(g, v))
      BY <1>2, <3>1
    <3>3. ~(i < Born(g, v))
      BY <1>6, <2>1, <3>2
    <3> QED
      BY <1>1, <1>3, <2>1, <3>1, <3>3
  <2>2. CASE v \notin Outs(g, i)
    <3>1. Born(g, v) # i
      BY <1>1, <1>2, <2>2
    <3> QED
      BY <2>2, <3>1
  <2> QED
    BY <2>1, <2>2
<1>8. v \in Range(g.inputs) <=> Born(g, v) = 0
  <2>1. CASE v \in Range(g.inputs)
    <3>1. \A i \in Nodes(g) : v \notin Outs(g, i)
      BY <1>1, <2>1 DEF Verified
    <3> QED
      BY <1>2, <2>1, <3>1
  <2>2. CASE v \notin Range(g.inputs)
    <3>1. PICK i \in Nodes(g) : v \in Outs(g, i)
      BY <2>2, EnvIs
    <3> QED
      BY <1>1, <1>7, <2>2, <3>1
  <2> QED
    BY <2>1, <2>2
<1>9. ASSUME NEW i \in Nodes(g), v \in Args(g, i) PROVE Born(g, v) < i /\ i <= Dies(g, v)
  <2>1. i <= Dies(g, v)
    BY <1>1, <1>4, <1>5, <1>9
  <2>2. v \in Range(g.inputs) \cup UNION {Outs(g, j) : j \in 1 .. i - 1}
    BY <1>1, <1>9 DEF Verified
  <2>3. CASE v \in Range(g.inputs)
    BY <1>1, <1>8, <2>1, <2>3
  <2>4. CASE v \notin Range(g.inputs)
    <3>1. PICK j \in 1 .. i - 1 : v \in Outs(g, j)
      BY <2>2, <2>4
    <3>2. j \in Nodes(g) /\ j < i
      BY <1>1
    <3> QED
      BY <1>7, <2>1, <3>1, <3>2
  <2> QED
    BY <2>3, <2>4
<1> QED
  BY <1>3, <1>5, <1>7, <1>8, <1>9

(* Where the k-th of the names is. *)
LEMMA WhereIs ==
  ASSUME NEW names, NEW at, NEW k \in DOMAIN names,
         \A i, j \in DOMAIN names : names[i] = names[j] => i = j
  PROVE  Where(names, at, names[k]) = at[k]
<1> DEFINE c == CHOOSE i \in DOMAIN names : names[i] = names[k]
<1>1. c \in DOMAIN names /\ names[c] = names[k]
  OBVIOUS
<1>2. c = k
  <2> HIDE DEF c
  <2> QED
    BY <1>1
<1> QED
  BY <1>2, Zenon DEF Where

(* The dead go back, and what is in buffer 0 is not the arena's. *)
LEMMA EvictOK ==
  ASSUME NEW g \in Graphs, NEW a, ArenaOK(a, g), NEW at, NEW dead \in SUBSET DOMAIN g.size
  PROVE  Returned(a, g, {at[v] : v \in dead}, Evict(a, g, at, dead))
<1> DEFINE env == Env(g)
           n == Len(env)
           bufs == [k \in DOMAIN env |-> IF env[k] \in dead THEN at[env[k]] ELSE 0]
           gone == {bufs[j] : j \in 1 .. Len(bufs)}
           kept == {at[v] : v \in dead}
<1>1. n \in Nat /\ DOMAIN env = 1 .. n /\ Range(env) = DOMAIN g.size /\ NatSizes(g)
  BY EnvIs, GraphFacts
<1>2. Len(bufs) = n
  BY <1>1
<1>3. Returned(a, g, gone, GiveBackAll(a, bufs))
  <2> HIDE DEF bufs, n
  <2> QED
    BY <1>1, <1>2, GiveBackAllOK
<1>4. \A x : x # 0 => (x \in gone <=> x \in kept)
  <2>1. ASSUME NEW x, x # 0, x \in gone PROVE x \in kept
    BY <1>1, <1>2, <2>1
  <2>2. ASSUME NEW v \in dead PROVE at[v] \in gone
    <3>1. PICK k \in 1 .. n : env[k] = v
      BY <1>1 DEF Range
    <3>2. bufs[k] = at[v]
      BY <1>1, <3>1
    <3> HIDE DEF bufs, n
    <3> QED
      BY <1>2, <3>2
  <2> HIDE DEF gone
  <2> QED
    BY <2>1, <2>2
<1>5. 0 \notin a.live
  <2>1. a.live \subseteq DOMAIN a.sizes /\ DOMAIN a.sizes = 1 .. Len(a.sizes) /\ Len(a.sizes) \in Nat
    BY <1>1, ArenaFacts DEF ArenaOK
  <2> QED
    BY <2>1
<1>6. Evict(a, g, at, dead) = GiveBackAll(a, bufs)
  BY DEF Evict
<1> HIDE DEF bufs, gone, kept, env, n
<1>7. a.live \ gone = a.live \ kept
  BY <1>4, <1>5
<1> QED
  BY <1>3, <1>6, <1>7 DEF Returned, kept

-----------------------------------------------------------------------------
(* The engine: its invariant, action by action.                            *)

Tensors(g) == [at : Nat, means : Nat \X DOMAIN g.size]
Calls(g) == [run : Nat, outs : [Range(g.outputs) -> Tensors(g)], kept : BOOLEAN,
             cost : [allocations : Nat, reuses : Nat, peak : Nat]]

(* What a run holds as it comes to node p: the inputs, and what is made by
   then and is read later or handed back.                                  *)
HeldBy(g, p) ==
  {v \in DOMAIN g.size : /\ Born(g, v) < p
                         /\ Born(g, v) = 0 \/ v \in Range(g.outputs) \/ Dies(g, v) >= p}

EngineTypes ==
  /\ graph \in Graphs /\ runs \in Nat /\ position \in 0 .. Len(graph.nodes) + 1
  /\ results \in Seq(Calls(graph))
  /\ values \in [IF position = 0 THEN {} ELSE HeldBy(graph, position) -> Tensors(graph)]
  /\ position # 0 => runs # 0 /\ freed = << >>

(* A tensor whose live buffer still is what was written for it. *)
InPlace(t) == t.at \in arena.live \ stranded /\ t.at \in DOMAIN bytes /\ bytes[t.at] = t.means

Own(v) == values[v].means = <<runs, v>> /\ InPlace(values[v])
Lent(v) == values[v] = Tensor(0, <<0, v>>) \/ (values[v] \in Kept /\ values[v].at # 0 /\ v \notin Range(graph.outputs))

ValuesOK == \A v \in DOMAIN values : IF Born(graph, v) = 0 THEN Lent(v) ELSE Own(v)

Handed(r, v) ==
  \/ results[r].outs[v] = Tensor(0, <<0, v>>)
  \/ results[r].outs[v].at # 0 /\ results[r].outs[v].means = <<results[r].run, v>>

ResultOK(r) ==
  /\ results[r].run \in 1 .. runs /\ (position # 0 => results[r].run # runs)
  /\ \A s \in DOMAIN results : s # r => results[s].run # results[r].run
  /\ \A v \in Range(graph.outputs) : Handed(r, v)

ResultsOK == \A r \in DOMAIN results : ResultOK(r)

KeptOK == \A t \in Kept : t.at # 0 => InPlace(t)

LiveOK == stranded \subseteq arena.live /\ arena.live \subseteq stranded \cup {t.at : t \in InUse}

EngineOK == freed = << >> => ArenaOK(arena, graph) /\ ValuesOK /\ ResultsOK /\ KeptOK /\ LiveOK

NotBegun == runs = 0 => results = << >> /\ arena = NewArena(graph)

EngineInv == EngineTypes /\ EngineOK /\ NotBegun /\ ClosedFreesAll

-----------------------------------------------------------------------------
(* A tensor the caller keeps is an output of a call not yet released. *)
LEMMA KeptIs ==
  ASSUME EngineTypes, NEW t \in Kept
  PROVE  \E r \in DOMAIN results : results[r].kept /\ \E v \in Range(graph.outputs) : t = results[r].outs[v]
<1>1. PICK r \in DOMAIN results : results[r].kept /\ t \in Range(results[r].outs)
  BY DEF Kept
<1>2. DOMAIN results[r].outs = Range(graph.outputs)
  <2>1. results \in Seq(Calls(graph))
    BY DEF EngineTypes
  <2>2. results[r] \in Calls(graph)
    <3> DEFINE S == Calls(graph)
    <3> HIDE DEF S
    <3> QED
      BY <2>1
  <2> QED
    BY <2>2 DEF Calls
<1> QED
  BY <1>1, <1>2 DEF Range

(* It means what that call gave the name. *)
LEMMA KeptMeans ==
  ASSUME EngineTypes, ResultsOK, NEW t \in Kept, t.at # 0
  PROVE  \E r \in DOMAIN results : \E v \in Range(graph.outputs) :
           /\ results[r].kept /\ t = results[r].outs[v] /\ t.means = <<results[r].run, v>>
           /\ results[r].run \in 1 .. runs /\ (position # 0 => results[r].run # runs)
<1>1. PICK r \in DOMAIN results : results[r].kept /\ \E v \in Range(graph.outputs) : t = results[r].outs[v]
  BY KeptIs
<1>2. PICK v \in Range(graph.outputs) : t = results[r].outs[v]
  BY <1>1
<1>3. ResultOK(r) /\ Handed(r, v)
  BY DEF ResultsOK, ResultOK
<1>4. t.means = <<results[r].run, v>>
  BY <1>2, <1>3 DEF Handed, Tensor
<1> QED
  BY <1>1, <1>2, <1>3, <1>4 DEF ResultOK

(* What is filled: the new buffers, and no other. *)
Fills(new, names, k, at) ==
  /\ DOMAIN new = DOMAIN bytes \cup {at[j] : j \in 1 .. k}
  /\ \A j \in 1 .. k : new[at[j]] = <<runs, names[j]>>
  /\ \A b \in DOMAIN bytes : b \in arena.live => new[b] = bytes[b]

(* What an op leaves in the buffers of its outputs, and in the others. *)
LEMMA Filling ==
  ASSUME NEW names, NEW k \in Nat, NEW got, Took(arena, graph, names, k, got)
  PROVE  Fills(Filled(got.at, names), names, k, got.at)
<1> DEFINE at == got.at
           new == Filled(at, names)
<1>1. at \in Seq(Nat) /\ Len(at) = k /\ \A i, j \in 1 .. k : at[i] = at[j] => i = j
  BY DEF Took
<1>2. \A j \in 1 .. k : at[j] \notin arena.live
  BY DEF Took
<1> HIDE DEF at
<1>3. DOMAIN at = 1 .. k /\ Range(at) = {at[j] : j \in 1 .. k}
  BY <1>1 DEF Range
<1>4. DOMAIN new = DOMAIN bytes \cup Range(at)
  BY DEF Filled
<1>5. ASSUME NEW j \in 1 .. k PROVE new[at[j]] = <<runs, names[j]>>
  <2>1. at[j] \in Range(at)
    BY <1>3
  <2>2. new[at[j]] = <<runs, Where(at, names, at[j])>>
    BY <2>1 DEF Filled
  <2>3. Where(at, names, at[j]) = names[j]
    BY <1>1, <1>3, WhereIs
  <2> QED
    BY <2>2, <2>3
<1>6. ASSUME NEW b \in DOMAIN bytes, b \in arena.live PROVE new[b] = bytes[b]
  <2>1. b \notin Range(at)
    BY <1>2, <1>3, <1>6
  <2> QED
    BY <2>1 DEF Filled
<1> QED
  BY <1>3, <1>4, <1>5, <1>6 DEF at, Fills

(* A tensor in place stays in place while buffers are taken and filled. *)
Placed(a, contents, t) == t.at \in a.live \ stranded /\ t.at \in DOMAIN contents /\ contents[t.at] = t.means

(* A tensor whose buffer is not written stays what it is. *)
LEMMA StaysPlaced ==
  ASSUME NEW names, NEW k \in Nat, NEW got, Took(arena, graph, names, k, got), NEW t, InPlace(t)
  PROVE  Placed(got.arena, Filled(got.at, names), t)
<1> DEFINE new == Filled(got.at, names)
<1>1. t.at \in DOMAIN new /\ new[t.at] = bytes[t.at]
  <2>1. Fills(new, names, k, got.at)
    BY Filling
  <2> HIDE DEF new
  <2> QED
    BY <2>1 DEF InPlace, Fills
<1>2. t.at \in got.arena.live
  BY DEF Took, InPlace
<1> HIDE DEF new
<1> QED
  BY <1>1, <1>2 DEF InPlace, Placed, new

-----------------------------------------------------------------------------
(* One node.                                                               *)

NodeOuts == graph.nodes[position].outs
NodeGot == AcquireAll(arena, graph, NodeOuts)
NodeAt(v) == Where(NodeOuts, NodeGot.at, v)
NodeHeld ==
  [v \in DOMAIN values \cup Range(NodeOuts) |->
     IF v \in Range(NodeOuts) THEN Tensor(NodeAt(v), <<runs, v>>) ELSE values[v]]
NodeDead == (FreeAfter(graph, position) \cap DOMAIN NodeHeld) \ Range(graph.outputs)

(* The node's outputs are acquired, one buffer each. *)
LEMMA NodeGotOK ==
  ASSUME EngineTypes, position \in Nodes(graph), ArenaOK(arena, graph)
  PROVE  /\ Len(NodeOuts) \in Nat /\ DOMAIN NodeOuts = 1 .. Len(NodeOuts) /\ NodeOuts \in Seq(DOMAIN graph.size)
         /\ Took(arena, graph, NodeOuts, Len(NodeOuts), NodeGot)
         /\ Range(NodeOuts) = Outs(graph, position) /\ Outs(graph, position) \subseteq DOMAIN graph.size
         /\ \A i, j \in DOMAIN NodeOuts : NodeOuts[i] = NodeOuts[j] => i = j
<1>1. graph \in Graphs /\ NatSizes(graph) /\ Verified(graph)
  BY GraphFacts DEF EngineTypes
<1>2. NodeOuts \in Seq(DOMAIN graph.size)
  BY <1>1, GraphFacts DEF NodeOuts
<1>3. Len(NodeOuts) \in Nat /\ DOMAIN NodeOuts = 1 .. Len(NodeOuts) /\ Range(NodeOuts) \subseteq DOMAIN graph.size
      /\ \A j \in 1 .. Len(NodeOuts) : NodeOuts[j] \in DOMAIN graph.size
  BY <1>2, NamesAre
<1>4. \A j \in 1 .. Len(NodeOuts) : graph.size[NodeOuts[j]] \in Range(graph.size)
  BY <1>3 DEF Range
<1>5. Took(arena, graph, NodeOuts, Len(NodeOuts), NodeGot)
  BY <1>1, <1>3, <1>4, AcquireAllOK DEF NodeGot
<1>6. Range(NodeOuts) = Outs(graph, position)
  BY DEF NodeOuts, Outs
<1>7. \A i, j \in DOMAIN NodeOuts : NodeOuts[i] = NodeOuts[j] => i = j
  BY <1>1 DEF Verified, IsInjective, NodeOuts
<1> QED
  BY <1>2, <1>3, <1>5, <1>6, <1>7

(* Where each output of the node went. *)
LEMMA NodeAtOK ==
  ASSUME EngineTypes, position \in Nodes(graph), ArenaOK(arena, graph), NEW v \in Outs(graph, position)
  PROVE  /\ NodeAt(v) \in NodeGot.arena.live /\ NodeAt(v) \notin arena.live /\ NodeAt(v) \in Nat
         /\ NodeAt(v) \in DOMAIN Filled(NodeGot.at, NodeOuts)
         /\ Filled(NodeGot.at, NodeOuts)[NodeAt(v)] = <<runs, v>>
         /\ NodeAt(v) \in {NodeGot.at[j] : j \in 1 .. Len(NodeOuts)}
<1> DEFINE outs == NodeOuts
           got == NodeGot
           k == Len(outs)
<1>1. /\ k \in Nat /\ DOMAIN outs = 1 .. k /\ Took(arena, graph, outs, k, got)
      /\ Range(outs) = Outs(graph, position) /\ \A i, j \in DOMAIN outs : outs[i] = outs[j] => i = j
  BY NodeGotOK
<1>2. PICK j \in 1 .. k : outs[j] = v
  BY <1>1 DEF Range
<1> HIDE DEF outs, got, k
<1>3. Where(outs, got.at, outs[j]) = got.at[j]
  BY <1>1, <1>2, WhereIs
<1>4. NodeAt(v) = got.at[j]
  BY <1>2, <1>3 DEF NodeAt, outs, got
<1>5. Fills(Filled(got.at, outs), outs, k, got.at)
  BY <1>1, Filling
<1>6. /\ got.at[j] \notin arena.live /\ got.at \in Seq(Nat) /\ Len(got.at) = k
      /\ got.arena.live = arena.live \cup {got.at[i] : i \in 1 .. k}
  BY <1>1 DEF Took
<1>7. got.at[j] \in Nat /\ got.at[j] \in {got.at[i] : i \in 1 .. k}
  BY <1>1, <1>6
<1>8. got.at[j] \in DOMAIN Filled(got.at, outs) /\ Filled(got.at, outs)[got.at[j]] = <<runs, v>>
  <2> DEFINE new == Filled(got.at, outs)
  <2>1. DOMAIN new = DOMAIN bytes \cup {got.at[i] : i \in 1 .. k} /\ \A i \in 1 .. k : new[got.at[i]] = <<runs, outs[i]>>
    BY <1>5 DEF Fills
  <2> HIDE DEF new
  <2>2. got.at[j] \in DOMAIN new /\ new[got.at[j]] = <<runs, v>>
    BY <1>2, <1>7, <2>1
  <2> QED
    BY <2>2 DEF new
<1> QED
  BY <1>4, <1>6, <1>7, <1>8 DEF outs, got, k

(* What is held when the node has run, and what then dies. *)
LEMMA NodeHeldOK ==
  ASSUME EngineTypes, position \in Nodes(graph), ArenaOK(arena, graph)
  PROVE  /\ DOMAIN values = HeldBy(graph, position)
         /\ DOMAIN NodeHeld = DOMAIN values \cup Outs(graph, position)
         /\ DOMAIN NodeHeld \subseteq DOMAIN graph.size
         /\ NodeDead = {v \in DOMAIN NodeHeld : Born(graph, v) > 0 /\ Dies(graph, v) = position /\ v \notin Range(graph.outputs)}
         /\ DOMAIN NodeHeld \ NodeDead = HeldBy(graph, position + 1)
         /\ \A v \in Outs(graph, position) : NodeHeld[v] = Tensor(NodeAt(v), <<runs, v>>) /\ Born(graph, v) = position
         /\ \A v \in DOMAIN values : v \notin Outs(graph, position) /\ NodeHeld[v] = values[v]
<1> DEFINE i == position
           V == DOMAIN graph.size
           N == Len(graph.nodes)
           outs == Outs(graph, i)
<1>1. graph \in Graphs /\ N \in Nat /\ Nodes(graph) = 1 .. N
  BY GraphFacts DEF EngineTypes
<1>2. i \in 1 .. N
  BY <1>1
<1>3. Range(NodeOuts) = outs /\ outs \subseteq V
  BY NodeGotOK
<1>4. DOMAIN values = HeldBy(graph, i)
  BY <1>2 DEF EngineTypes
<1>5. DOMAIN NodeHeld = DOMAIN values \cup outs
  BY <1>3 DEF NodeHeld
<1>6. DOMAIN values \subseteq V
  BY <1>4 DEF HeldBy
<1>7. NodeDead = {v \in DOMAIN NodeHeld : Born(graph, v) > 0 /\ Dies(graph, v) = i /\ v \notin Range(graph.outputs)}
  <2> DEFINE now == DOMAIN NodeHeld
  <2>1. now \subseteq V
    BY <1>3, <1>5, <1>6
  <2> HIDE DEF now
  <2>2. NodeDead = ({v \in V : Born(graph, v) > 0 /\ Dies(graph, v) = i} \cap now) \ Range(graph.outputs)
    BY DEF NodeDead, FreeAfter, now
  <2> QED
    BY <2>1, <2>2 DEF now
<1>8. ASSUME NEW v \in V
      PROVE  (v \in DOMAIN NodeHeld /\ v \notin NodeDead) <=> v \in HeldBy(graph, i + 1)
  <2>1. /\ Born(graph, v) \in 0 .. N /\ Dies(graph, v) \in 0 .. N /\ Born(graph, v) <= Dies(graph, v)
        /\ v \in outs <=> Born(graph, v) = i
    BY <1>1, BornIs
  <2>2. v \in DOMAIN NodeHeld <=> \/ Born(graph, v) = i
                                  \/ Born(graph, v) < i /\ (Born(graph, v) = 0 \/ v \in Range(graph.outputs) \/ Dies(graph, v) >= i)
    BY <1>4, <1>5, <2>1 DEF HeldBy
  <2>3. v \in NodeDead <=> v \in DOMAIN NodeHeld /\ Born(graph, v) > 0 /\ Dies(graph, v) = i /\ v \notin Range(graph.outputs)
    BY <1>7
  <2>4. v \in HeldBy(graph, i + 1) <=> Born(graph, v) < i + 1 /\ (Born(graph, v) = 0 \/ v \in Range(graph.outputs) \/ Dies(graph, v) >= i + 1)
    BY DEF HeldBy
  <2> HIDE DEF i, N
  <2> QED
    BY <1>2, <2>1, <2>2, <2>3, <2>4
<1>9. DOMAIN NodeHeld \subseteq V /\ HeldBy(graph, i + 1) \subseteq V
  BY <1>3, <1>5, <1>6 DEF HeldBy
<1>10. DOMAIN NodeHeld \ NodeDead = HeldBy(graph, i + 1)
  BY <1>8, <1>9
<1>11. ASSUME NEW v \in outs PROVE NodeHeld[v] = Tensor(NodeAt(v), <<runs, v>>) /\ Born(graph, v) = i
  BY <1>1, <1>3, BornIs DEF NodeHeld
<1>12. ASSUME NEW v \in DOMAIN values PROVE v \notin outs /\ NodeHeld[v] = values[v]
  <2>1. Born(graph, v) < i /\ v \in V
    BY <1>4 DEF HeldBy
  <2>2. v \notin outs
    BY <1>1, <1>2, <2>1, BornIs
  <2> QED
    BY <1>3, <2>2 DEF NodeHeld
<1> QED
  BY <1>4, <1>5, <1>7, <1>9, <1>10, <1>11, <1>12

NodeBytes == Filled(NodeGot.at, NodeOuts)

(* What this run made is where the ops put it, the node's own included. *)
LEMMA NodeOwn ==
  ASSUME EngineTypes, position \in Nodes(graph), ArenaOK(arena, graph), ValuesOK, stranded \subseteq arena.live,
         NEW v \in DOMAIN NodeHeld, Born(graph, v) # 0
  PROVE  NodeHeld[v].means = <<runs, v>> /\ Placed(NodeGot.arena, NodeBytes, NodeHeld[v])
<1>1. Took(arena, graph, NodeOuts, Len(NodeOuts), NodeGot) /\ Len(NodeOuts) \in Nat
  BY NodeGotOK
<1>2. CASE v \in Outs(graph, position)
  <2>1. NodeHeld[v] = Tensor(NodeAt(v), <<runs, v>>)
    BY <1>2, NodeHeldOK
  <2>2. NodeHeld[v].at = NodeAt(v) /\ NodeHeld[v].means = <<runs, v>>
    BY <2>1 DEF Tensor
  <2>3. NodeAt(v) \in NodeGot.arena.live /\ NodeAt(v) \notin arena.live
        /\ NodeAt(v) \in DOMAIN NodeBytes /\ NodeBytes[NodeAt(v)] = <<runs, v>>
    BY <1>2, NodeAtOK DEF NodeBytes
  <2> QED
    BY <2>2, <2>3 DEF Placed
<1>3. CASE v \notin Outs(graph, position)
  <2>1. v \in DOMAIN values /\ NodeHeld[v] = values[v]
    BY <1>3, NodeHeldOK
  <2>2. Own(v)
    BY <2>1 DEF ValuesOK
  <2> DEFINE t == values[v]
  <2>3. InPlace(t) /\ t.means = <<runs, v>>
    BY <2>2 DEF Own
  <2> HIDE DEF t
  <2>4. Placed(NodeGot.arena, NodeBytes, t)
    BY <1>1, <2>3, StaysPlaced DEF NodeBytes
  <2> QED
    BY <2>1, <2>3, <2>4 DEF t
<1> QED
  BY <1>2, <1>3

(* What the caller keeps of earlier runs is where it was. *)
LEMMA NodeKept ==
  ASSUME EngineTypes, position \in Nodes(graph), ArenaOK(arena, graph), KeptOK, ResultsOK,
         NEW t \in Kept, t.at # 0
  PROVE  Placed(NodeGot.arena, NodeBytes, t) /\ \E x, w : t.means = <<x, w>> /\ x # runs
<1>1. Took(arena, graph, NodeOuts, Len(NodeOuts), NodeGot) /\ Len(NodeOuts) \in Nat
  BY NodeGotOK
<1>2. InPlace(t)
  BY DEF KeptOK
<1>3. Placed(NodeGot.arena, NodeBytes, t)
  BY <1>1, <1>2, StaysPlaced DEF NodeBytes
<1>4. position # 0
  BY GraphFacts DEF EngineTypes
<1>5. PICK r \in DOMAIN results : \E v \in Range(graph.outputs) :
        t.means = <<results[r].run, v>> /\ (position # 0 => results[r].run # runs)
  BY KeptMeans
<1> QED
  BY <1>3, <1>4, <1>5

NodeGone == {NodeHeld[v].at : v \in NodeDead}

(* The node's dead values go back to the arena. *)
LEMMA NodeEvicts ==
  ASSUME EngineTypes, position \in Nodes(graph), ArenaOK(arena, graph)
  PROVE  Returned(NodeGot.arena, graph, NodeGone,
                  Evict(NodeGot.arena, graph, [v \in NodeDead |-> NodeHeld[v].at], NodeDead))
<1> DEFINE at == [v \in NodeDead |-> NodeHeld[v].at]
           a == NodeGot.arena
           dead == NodeDead
<1>1. graph \in Graphs /\ ArenaOK(a, graph)
  BY NodeGotOK DEF Took, EngineTypes
<1>2. dead \in SUBSET DOMAIN graph.size
  BY NodeHeldOK
<1>3. NodeGone = {at[v] : v \in dead}
  BY DEF NodeGone
<1> HIDE DEF at, a, dead
<1>4. Returned(a, graph, {at[v] : v \in dead}, Evict(a, graph, at, dead))
  BY <1>1, <1>2, EvictOK
<1>5. Returned(a, graph, NodeGone, Evict(a, graph, at, dead))
  BY <1>3, <1>4
<1> QED
  BY <1>5 DEF a, at, dead

(* None of what goes back is still held or kept. *)
LEMMA NodeKeepsHeld ==
  ASSUME EngineTypes, position \in Nodes(graph), ArenaOK(arena, graph), ValuesOK, stranded \subseteq arena.live,
         NEW v \in DOMAIN NodeHeld \ NodeDead, Born(graph, v) # 0
  PROVE  NodeHeld[v].at \notin NodeGone
<1> SUFFICES ASSUME NEW w \in NodeDead, NodeHeld[v].at = NodeHeld[w].at PROVE FALSE
  BY DEF NodeGone
<1>1. graph \in Graphs /\ w \in DOMAIN NodeHeld /\ w \in DOMAIN graph.size
  BY NodeHeldOK DEF EngineTypes
<1>2. Born(graph, w) # 0
  <2>1. Born(graph, w) > 0 /\ Born(graph, w) \in 0 .. Len(graph.nodes)
    BY <1>1, NodeHeldOK, BornIs
  <2> QED
    BY <2>1, <1>1, GraphFacts
<1>3. NodeHeld[v].means = <<runs, v>> /\ NodeBytes[NodeHeld[v].at] = NodeHeld[v].means
  BY NodeOwn DEF Placed
<1>4. NodeHeld[w].means = <<runs, w>> /\ NodeBytes[NodeHeld[w].at] = NodeHeld[w].means
  BY <1>1, <1>2, NodeOwn DEF Placed
<1>5. v # w
  OBVIOUS
<1> QED
  BY <1>3, <1>4, <1>5

(* What callers keep is not touched by the node. *)
LEMMA NodeKeepsKept ==
  ASSUME EngineTypes, position \in Nodes(graph), ArenaOK(arena, graph), ValuesOK, stranded \subseteq arena.live,
         KeptOK, ResultsOK, NEW t \in Kept, t.at # 0
  PROVE  t.at \notin NodeGone
<1> SUFFICES ASSUME NEW w \in NodeDead, t.at = NodeHeld[w].at PROVE FALSE
  BY DEF NodeGone
<1>1. graph \in Graphs /\ w \in DOMAIN NodeHeld /\ w \in DOMAIN graph.size
  BY NodeHeldOK DEF EngineTypes
<1>2. Born(graph, w) # 0
  <2>1. Born(graph, w) > 0 /\ Born(graph, w) \in 0 .. Len(graph.nodes)
    BY <1>1, NodeHeldOK, BornIs
  <2> QED
    BY <2>1, <1>1, GraphFacts
<1>3. PICK x, y : t.means = <<x, y>> /\ x # runs
  BY NodeKept
<1>4. NodeBytes[t.at] = t.means
  BY NodeKept DEF Placed
<1>5. NodeHeld[w].means = <<runs, w>> /\ NodeBytes[NodeHeld[w].at] = NodeHeld[w].means
  BY <1>1, <1>2, NodeOwn DEF Placed
<1> QED
  BY <1>3, <1>4, <1>5

(* The assignments of one node of Executor.run, in terms of what it acquired. *)
LEMMA NodeStep ==
  ASSUME RunNode
  PROVE  /\ position \in Nodes(graph) /\ bytes' = NodeBytes
         /\ arena' = Evict(NodeGot.arena, graph, [v \in NodeDead |-> NodeHeld[v].at], NodeDead)
         /\ values' = [v \in DOMAIN NodeHeld \ NodeDead |-> NodeHeld[v]]
         /\ position' = position + 1
         /\ graph' = graph /\ runs' = runs /\ results' = results /\ stranded' = stranded /\ freed' = freed
BY DEF RunNode, NodeBytes, NodeGot, NodeOuts, NodeHeld, NodeDead, NodeAt

(* The node keeps the types. *)
LEMMA NodeTypes ==
  ASSUME EngineTypes, ArenaOK(arena, graph), RunNode
  PROVE  EngineTypes'
<1>1. /\ position \in Nodes(graph) /\ position' = position + 1
      /\ values' = [v \in DOMAIN NodeHeld \ NodeDead |-> NodeHeld[v]]
      /\ graph' = graph /\ runs' = runs /\ results' = results /\ freed' = freed
  BY NodeStep
<1>2. graph \in Graphs /\ Len(graph.nodes) \in Nat /\ Nodes(graph) = 1 .. Len(graph.nodes) /\ runs \in Nat
  BY GraphFacts DEF EngineTypes
<1>3. position' \in 0 .. Len(graph.nodes) + 1 /\ position' # 0 /\ position # 0
  BY <1>1, <1>2
<1>4. ASSUME NEW v \in DOMAIN NodeHeld PROVE NodeHeld[v] \in Tensors(graph)
  <2>0. v \in DOMAIN graph.size
    BY <1>1, NodeHeldOK
  <2>1. CASE v \in Outs(graph, position)
    <3>1. NodeHeld[v] = Tensor(NodeAt(v), <<runs, v>>) /\ NodeAt(v) \in Nat
      BY <1>1, <2>1, NodeHeldOK, NodeAtOK
    <3> QED
      BY <1>2, <2>0, <3>1 DEF Tensor, Tensors
  <2>2. CASE v \notin Outs(graph, position)
    <3>1. v \in DOMAIN values /\ NodeHeld[v] = values[v]
      BY <1>1, <2>2, NodeHeldOK
    <3>2. values \in [HeldBy(graph, position) -> Tensors(graph)]
      BY <1>3 DEF EngineTypes
    <3> QED
      BY <3>1, <3>2
  <2> QED
    BY <2>1, <2>2
<1>5. DOMAIN NodeHeld \ NodeDead = HeldBy(graph, position + 1)
  BY <1>1, NodeHeldOK
<1>6. values' \in [HeldBy(graph, position') -> Tensors(graph)]
  BY <1>1, <1>4, <1>5
<1>7. results' \in Seq(Calls(graph')) /\ graph' \in Graphs /\ runs' \in Nat /\ runs' # 0 /\ freed' = << >>
  BY <1>1, <1>2, <1>3 DEF EngineTypes
<1> QED
  BY <1>1, <1>3, <1>6, <1>7 DEF EngineTypes

(* After the node each tensor in place is in place in the arena it leaves. *)
LEMMA NodePlaced ==
  ASSUME EngineTypes, ArenaOK(arena, graph), RunNode,
         NEW t, Placed(NodeGot.arena, NodeBytes, t), t.at \notin NodeGone
  PROVE  t.at \in arena'.live \ stranded' /\ t.at \in DOMAIN bytes' /\ bytes'[t.at] = t.means
<1>1. arena'.live = NodeGot.arena.live \ NodeGone /\ bytes' = NodeBytes /\ stranded' = stranded
  BY NodeStep, NodeEvicts DEF Returned
<1> QED
  BY <1>1 DEF Placed

(* The node keeps the engine sound. *)
LEMMA NodeKeeps ==
  ASSUME EngineTypes, EngineOK, RunNode
  PROVE  EngineOK'
<1>1. /\ position \in Nodes(graph) /\ position' = position + 1 /\ bytes' = NodeBytes
      /\ arena' = Evict(NodeGot.arena, graph, [v \in NodeDead |-> NodeHeld[v].at], NodeDead)
      /\ values' = [v \in DOMAIN NodeHeld \ NodeDead |-> NodeHeld[v]]
      /\ graph' = graph /\ runs' = runs /\ results' = results /\ stranded' = stranded /\ freed' = freed
  BY NodeStep
<1>2. position \in Nat /\ position # 0 /\ freed = << >>
  BY <1>1, GraphFacts DEF EngineTypes
<1>3. ArenaOK(arena, graph) /\ ValuesOK /\ ResultsOK /\ KeptOK /\ LiveOK /\ stranded \subseteq arena.live
  BY <1>2 DEF EngineOK, LiveOK
<1>4. Returned(NodeGot.arena, graph, NodeGone, arena') /\ Kept' = Kept
  BY <1>1, <1>3, NodeEvicts DEF Kept
<1>5. ArenaOK(arena', graph')
  BY <1>1, <1>4 DEF Returned
<1>6. ValuesOK'
  <2>1. SUFFICES ASSUME NEW v \in DOMAIN NodeHeld \ NodeDead
                 PROVE  IF Born(graph, v) = 0 THEN Lent(v)' ELSE Own(v)'
    BY <1>1 DEF ValuesOK
  <2>2. values'[v] = NodeHeld[v]
    BY <1>1
  <2>3. CASE Born(graph, v) = 0
    <3>1. v \in DOMAIN values /\ NodeHeld[v] = values[v]
      BY <1>1, <1>2, <1>3, <2>3, NodeHeldOK
    <3>2. Lent(v)
      BY <1>3, <2>3, <3>1 DEF ValuesOK
    <3>3. Lent(v)'
      BY <1>1, <1>4, <2>2, <3>1, <3>2 DEF Lent
    <3> QED
      BY <2>3, <3>3
  <2>4. CASE Born(graph, v) # 0
    <3>1. NodeHeld[v].means = <<runs, v>> /\ Placed(NodeGot.arena, NodeBytes, NodeHeld[v]) /\ NodeHeld[v].at \notin NodeGone
      BY <1>1, <1>3, <2>4, NodeOwn, NodeKeepsHeld
    <3> DEFINE t == NodeHeld[v]
    <3>2. t.at \in arena'.live \ stranded' /\ t.at \in DOMAIN bytes' /\ bytes'[t.at] = t.means
      BY <1>3, <3>1, NodePlaced
    <3>3. Own(v)'
      BY <1>1, <2>2, <3>1, <3>2 DEF Own, InPlace
    <3> QED
      BY <2>4, <3>3
  <2> QED
    BY <2>3, <2>4
<1>7. ResultsOK'
  <2>1. ASSUME NEW r \in DOMAIN results PROVE ResultOK(r)'
    <3>1. ResultOK(r) /\ results[r].run # runs
      BY <1>2, <1>3 DEF ResultsOK, ResultOK
    <3> QED
      BY <1>1, <3>1 DEF ResultOK, Handed
  <2> QED
    BY <1>1, <2>1 DEF ResultsOK
<1>8. KeptOK'
  <2>1. SUFFICES ASSUME NEW t \in Kept, t.at # 0 PROVE InPlace(t)'
    BY <1>4 DEF KeptOK
  <2>2. Placed(NodeGot.arena, NodeBytes, t) /\ t.at \notin NodeGone
    BY <1>1, <1>3, <2>1, NodeKept, NodeKeepsKept
  <2> QED
    BY <1>3, <2>2, NodePlaced DEF InPlace
<1>9. LiveOK'
  <2>1. arena'.live = NodeGot.arena.live \ NodeGone
    BY <1>4 DEF Returned
  <2>2. NodeGot.arena.live = arena.live \cup {NodeGot.at[j] : j \in 1 .. Len(NodeOuts)}
    BY <1>1, <1>3, NodeGotOK DEF Took
  <2>3. stranded' \subseteq arena'.live
    <3>1. SUFFICES ASSUME NEW x \in stranded PROVE x \notin NodeGone
      BY <1>1, <1>3, <2>1, <2>2
    <3>2. SUFFICES ASSUME NEW w \in NodeDead, x = NodeHeld[w].at PROVE FALSE
      BY DEF NodeGone
    <3>3. w \in DOMAIN NodeHeld /\ Born(graph, w) # 0
      <4>1. Born(graph, w) > 0 /\ Born(graph, w) \in 0 .. Len(graph.nodes) /\ w \in DOMAIN NodeHeld
        BY <1>1, <1>3, NodeHeldOK, BornIs DEF EngineTypes
      <4> QED
        BY <4>1, GraphFacts DEF EngineTypes
    <3>4. Placed(NodeGot.arena, NodeBytes, NodeHeld[w])
      BY <1>1, <1>3, <3>3, NodeOwn
    <3> QED
      BY <3>1, <3>2, <3>4 DEF Placed
  <2>4. ASSUME NEW x \in arena'.live, x \notin stranded PROVE \E t \in InUse' : t.at = x
    <3>0. x \in NodeGot.arena.live /\ x \notin NodeGone
      BY <2>1
    <3>1. ASSUME NEW v \in DOMAIN NodeHeld, NodeHeld[v].at = x, x # 0 PROVE \E t \in InUse' : t.at = x
      <4>1. v \notin NodeDead
        BY <3>0, <3>1 DEF NodeGone
      <4>2. v \in DOMAIN values' /\ values'[v] = NodeHeld[v]
        BY <1>1, <4>1
      <4>3. values'[v] \in InUse'
        BY <3>1, <4>2 DEF InUse, Range
      <4> QED
        BY <3>1, <4>2, <4>3
    <3>2. x # 0
      <4>1. arena'.live \subseteq DOMAIN arena'.sizes /\ DOMAIN arena'.sizes = 1 .. Len(arena'.sizes) /\ Len(arena'.sizes) \in Nat
        BY <1>1, <1>5, ArenaFacts, GraphFacts DEF ArenaOK, EngineTypes
      <4> QED
        BY <4>1
    <3>3. CASE x \in arena.live
      <4>1. PICK t \in InUse : t.at = x
        BY <1>3, <2>4, <3>3 DEF LiveOK
      <4>2. CASE t \in Kept
        BY <1>4, <3>2, <4>1, <4>2 DEF InUse
      <4>3. CASE t \notin Kept
        <5>1. PICK v \in DOMAIN values : values[v] = t
          BY <4>3 DEF InUse, Range
        <5>2. v \in DOMAIN NodeHeld /\ NodeHeld[v] = values[v]
          BY <1>1, <1>3, NodeHeldOK
        <5> QED
          BY <3>1, <3>2, <4>1, <5>1, <5>2
      <4> QED
        BY <4>2, <4>3
    <3>4. CASE x \notin arena.live
      <4>1. PICK j \in 1 .. Len(NodeOuts) : x = NodeGot.at[j]
        BY <2>2, <3>0, <3>4
      <4> DEFINE v == NodeOuts[j]
      <4>2. v \in Outs(graph, position) /\ j \in DOMAIN NodeOuts
        BY <1>1, <1>3, NodeGotOK DEF Range
      <4>3. NodeAt(v) = x
        BY <1>1, <1>3, <4>1, <4>2, NodeGotOK, WhereIs DEF NodeAt
      <4>4. v \in DOMAIN NodeHeld /\ NodeHeld[v] = Tensor(NodeAt(v), <<runs, v>>)
        BY <1>1, <1>3, <4>2, NodeHeldOK
      <4> HIDE DEF v
      <4>5. NodeHeld[v].at = x
        BY <4>3, <4>4 DEF Tensor
      <4> QED
        BY <3>1, <3>2, <4>4, <4>5
    <3> QED
      BY <3>3, <3>4
  <2> QED
    BY <1>1, <2>3, <2>4 DEF LiveOK
<1> QED
  BY <1>5, <1>6, <1>7, <1>8, <1>9 DEF EngineOK

-----------------------------------------------------------------------------
(* The other steps of a run.                                               *)

(* The record of calls, element by element. *)
LEMMA CallsAre ==
  ASSUME EngineTypes
  PROVE  /\ Len(results) \in Nat /\ DOMAIN results = 1 .. Len(results)
         /\ \A r \in DOMAIN results : results[r] \in Calls(graph)
<1> DEFINE S == Calls(graph)
<1>1. results \in Seq(S)
  BY DEF EngineTypes
<1> HIDE DEF S
<1>2. Len(results) \in Nat /\ DOMAIN results = 1 .. Len(results) /\ \A r \in DOMAIN results : results[r] \in S
  BY <1>1
<1> QED
  BY <1>2 DEF S

(* A kept tensor is a tensor of the graph. *)
LEMMA KeptTypes == ASSUME EngineTypes, NEW t \in Kept PROVE t \in Tensors(graph)
<1>1. PICK r \in DOMAIN results : \E v \in Range(graph.outputs) : t = results[r].outs[v]
  BY KeptIs
<1>2. results[r] \in Calls(graph)
  BY CallsAre
<1> QED
  BY <1>1, <1>2 DEF Calls

(* A live buffer has a number, which is not 0. *)
LEMMA LiveIsNumbered ==
  ASSUME EngineTypes, ArenaOK(arena, graph), NEW b \in arena.live
  PROVE  b \in DOMAIN arena.sizes /\ b \in Nat \ {0}
<1>1. NatSizes(graph) /\ arena.live \subseteq DOMAIN arena.sizes
  BY GraphFacts DEF EngineTypes, ArenaOK
<1>2. DOMAIN arena.sizes = 1 .. Len(arena.sizes) /\ Len(arena.sizes) \in Nat
  BY <1>1, ArenaFacts
<1> QED
  BY <1>1, <1>2

(* A call that begins keeps the types, and holds its inputs. *)
LEMMA BeginTypes ==
  ASSUME EngineTypes, BeginRun
  PROVE  EngineTypes' /\ DOMAIN values' = Range(graph.inputs)
<1>1. PICK tensors \in [Range(graph.inputs) -> UNION {Given(v) : v \in Range(graph.inputs)}] :
        (\A v \in Range(graph.inputs) : tensors[v] \in Given(v)) /\ values' = tensors
  BY DEF BeginRun
<1>2. /\ position = 0 /\ freed = << >> /\ position' = 1 /\ runs' = runs + 1
      /\ graph' = graph /\ results' = results /\ freed' = freed
  BY DEF BeginRun
<1>3. graph \in Graphs /\ Len(graph.nodes) \in Nat /\ runs \in Nat
  BY GraphFacts DEF EngineTypes
<1>4. Range(graph.inputs) \subseteq DOMAIN graph.size
  <2> DEFINE s == graph.inputs
  <2>1. s \in Seq(DOMAIN graph.size)
    BY <1>3, GraphFacts
  <2> HIDE DEF s
  <2>2. Range(s) \subseteq DOMAIN graph.size
    BY <2>1, NamesAre
  <2> QED
    BY <2>2 DEF s
<1>5. HeldBy(graph, 1) = Range(graph.inputs)
  <2>1. ASSUME NEW v \in DOMAIN graph.size PROVE v \in HeldBy(graph, 1) <=> v \in Range(graph.inputs)
    <3>1. Born(graph, v) \in 0 .. Len(graph.nodes) /\ (v \in Range(graph.inputs) <=> Born(graph, v) = 0)
      BY <1>3, BornIs
    <3> QED
      BY <1>3, <3>1 DEF HeldBy
  <2>2. HeldBy(graph, 1) \subseteq DOMAIN graph.size
    BY DEF HeldBy
  <2> QED
    BY <1>4, <2>1, <2>2
<1>6. ASSUME NEW v \in Range(graph.inputs) PROVE tensors[v] \in Tensors(graph)
  <2>1. CASE tensors[v] = Tensor(0, <<0, v>>)
    BY <1>4, <2>1 DEF Tensor, Tensors
  <2>2. CASE tensors[v] \in Kept
    BY <2>2, KeptTypes
  <2> QED
    BY <1>1, <2>1, <2>2 DEF Given
<1>7. values' \in [HeldBy(graph, 1) -> Tensors(graph)]
  BY <1>1, <1>5, <1>6
<1> QED
  BY <1>1, <1>2, <1>3, <1>5, <1>7 DEF EngineTypes

(* A call that begins keeps the engine sound: an output it is handed as an
   input stays the caller's. *)
LEMMA BeginKeeps ==
  ASSUME EngineTypes, EngineOK, BeginRun
  PROVE  EngineOK'
<1>1. PICK tensors \in [Range(graph.inputs) -> UNION {Given(v) : v \in Range(graph.inputs)}] :
        (\A v \in Range(graph.inputs) : tensors[v] \in Given(v)) /\ values' = tensors
  BY DEF BeginRun
<1>2. /\ position = 0 /\ freed = << >> /\ position' = 1 /\ runs' = runs + 1
      /\ graph' = graph /\ results' = results /\ freed' = freed /\ arena' = arena /\ bytes' = bytes
      /\ stranded' = stranded
  BY DEF BeginRun
<1>3. ArenaOK(arena, graph) /\ ValuesOK /\ ResultsOK /\ KeptOK /\ LiveOK
  BY <1>2 DEF EngineOK
<1>4. Kept' = Kept /\ \A t : InPlace(t)' = InPlace(t)
  BY <1>2 DEF Kept, InPlace
<1>5. ArenaOK(arena', graph')
  BY <1>2, <1>3
<1>6. ValuesOK'
  <2>1. ASSUME NEW v \in Range(graph.inputs) PROVE Born(graph, v) = 0 /\ Lent(v)'
    <3>1. v \in DOMAIN graph.size /\ graph \in Graphs
      <4> DEFINE s == graph.inputs
      <4>1. s \in Seq(DOMAIN graph.size) /\ graph \in Graphs
        BY GraphFacts DEF EngineTypes
      <4> HIDE DEF s
      <4>2. Range(s) \subseteq DOMAIN graph.size
        BY <4>1, NamesAre
      <4> QED
        BY <4>1, <4>2 DEF s
    <3>2. Born(graph, v) = 0
      BY <3>1, BornIs
    <3>3. values'[v] \in Given(v)
      BY <1>1
    <3> QED
      BY <1>2, <1>4, <3>2, <3>3 DEF Given, Lent
  <2> QED
    BY <1>1, <1>2, <2>1 DEF ValuesOK
<1>7. ResultsOK'
  <2>1. ASSUME NEW r \in DOMAIN results PROVE ResultOK(r)'
    <3>1. ResultOK(r) /\ runs \in Nat
      BY <1>3 DEF ResultsOK, EngineTypes
    <3>2. results[r].run \in 1 .. runs + 1 /\ results[r].run # runs + 1
      BY <3>1 DEF ResultOK
    <3> QED
      BY <1>2, <3>1, <3>2 DEF ResultOK, Handed
  <2> QED
    BY <1>2, <2>1 DEF ResultsOK
<1>8. KeptOK'
  BY <1>3, <1>4 DEF KeptOK
<1>9. LiveOK'
  <2>1. ASSUME NEW t \in InUse PROVE t \in InUse'
    <3>1. values = << >> \/ DOMAIN values = {}
      BY <1>2 DEF EngineTypes
    <3>2. Range(values) = {}
      BY <3>1 DEF Range
    <3> QED
      BY <1>4, <3>2 DEF InUse
  <2> QED
    BY <1>2, <1>3, <2>1 DEF LiveOK
<1> QED
  BY <1>5, <1>6, <1>7, <1>8, <1>9 DEF EngineOK

(* What this run holds of its own is what it made. *)
LEMMA OwnIsMade ==
  ASSUME EngineTypes, ArenaOK(arena, graph), ValuesOK, ResultsOK, position # 0, NEW v \in DOMAIN values
  PROVE  IF Born(graph, v) = 0 THEN values[v].means[1] # runs /\ (values[v].at # 0 => values[v] \in Kept)
         ELSE values[v].means = <<runs, v>> /\ InPlace(values[v])
<1> DEFINE t == values[v]
<1>1. CASE Born(graph, v) # 0
  BY <1>1 DEF ValuesOK, Own
<1>2. CASE Born(graph, v) = 0
  <2>1. Lent(v) /\ runs # 0
    BY <1>2 DEF ValuesOK, EngineTypes
  <2>2. CASE t = Tensor(0, <<0, v>>)
    BY <1>2, <2>1, <2>2 DEF Tensor
  <2>3. CASE t \in Kept /\ t.at # 0
    <3> HIDE DEF t
    <3>1. PICK r \in DOMAIN results : \E w \in Range(graph.outputs) :
            t.means = <<results[r].run, w>> /\ (position # 0 => results[r].run # runs)
      BY <2>3, KeptMeans
    <3>2. t.means[1] # runs
      BY <3>1
    <3> QED
      BY <1>2, <2>3, <3>2 DEF t
  <2> QED
    BY <2>1, <2>2, <2>3 DEF Lent
<1> QED
  BY <1>1, <1>2

RunHeld == {t.at : t \in {u \in Range(values) : u.means[1] = runs}}

(* The buffers the run in progress made. *)
LEMMA RunHeldIs ==
  ASSUME EngineTypes, ArenaOK(arena, graph), ValuesOK, ResultsOK, position # 0, NEW x \in RunHeld
  PROVE  \E v \in DOMAIN values : /\ Born(graph, v) # 0 /\ x = values[v].at
                                 /\ values[v].means = <<runs, v>> /\ InPlace(values[v])
<1>1. PICK v \in DOMAIN values : x = values[v].at /\ values[v].means[1] = runs
  BY DEF RunHeld, Range
<1>2. Born(graph, v) # 0
  BY <1>1, OwnIsMade
<1> QED
  BY <1>1, <1>2, OwnIsMade

(* A run that is given up: what it made stays live, and no one's. *)
Untouched(also) ==
  /\ ArenaOK(arena', graph) /\ arena'.live = arena.live \cup also /\ also \cap arena.live = {}
  /\ \A b \in DOMAIN bytes : b \in arena.live => b \in DOMAIN bytes' /\ bytes'[b] = bytes[b]

(* A call that raises leaves its buffers live and stranded, and nothing else. *)
LEMMA AbandonKeeps ==
  ASSUME EngineTypes, EngineOK, position # 0, NEW also, Untouched(also), Abandon(also)
  PROVE  EngineTypes' /\ EngineOK'
<1>1. /\ values' = << >> /\ position' = 0 /\ stranded' = stranded \cup also \cup RunHeld
      /\ graph' = graph /\ runs' = runs /\ results' = results /\ freed' = freed
  BY DEF Abandon, RunHeld
<1>2. freed = << >> /\ runs \in Nat
  BY DEF EngineTypes
<1>3. ArenaOK(arena, graph) /\ ValuesOK /\ ResultsOK /\ KeptOK /\ LiveOK
  BY <1>2 DEF EngineOK
<1>4. EngineTypes'
  <2>1. 0 \in 0 .. Len(graph.nodes) + 1
    BY GraphFacts DEF EngineTypes
  <2>2. values' \in [{} -> Tensors(graph)]
    BY <1>1
  <2> QED
    BY <1>1, <2>1, <2>2 DEF EngineTypes
<1>5. ArenaOK(arena', graph')
  BY <1>1 DEF Untouched
<1>6. ValuesOK'
  BY <1>1 DEF ValuesOK
<1>7. ResultsOK'
  <2>1. ASSUME NEW r \in DOMAIN results PROVE ResultOK(r)'
    <3>1. ResultOK(r)
      BY <1>3 DEF ResultsOK
    <3> QED
      BY <1>1, <3>1 DEF ResultOK, Handed
  <2> QED
    BY <1>1, <2>1 DEF ResultsOK
<1>8. Kept' = Kept
  BY <1>1 DEF Kept
<1>9. KeptOK'
  <2>1. SUFFICES ASSUME NEW t \in Kept, t.at # 0 PROVE InPlace(t)'
    BY <1>8 DEF KeptOK
  <2>2. InPlace(t)
    BY <1>3, <2>1 DEF KeptOK
  <2>3. t.at \notin also /\ t.at \in arena'.live /\ t.at \in DOMAIN bytes' /\ bytes'[t.at] = t.means
    BY <2>2 DEF InPlace, Untouched
  <2>4. t.at \notin RunHeld
    <3>1. SUFFICES ASSUME t.at \in RunHeld PROVE FALSE
      OBVIOUS
    <3>2. PICK v \in DOMAIN values : t.at = values[v].at /\ values[v].means = <<runs, v>> /\ InPlace(values[v])
      BY <1>3, <3>1, RunHeldIs
    <3>3. PICK r \in DOMAIN results : \E w \in Range(graph.outputs) :
            t.means = <<results[r].run, w>> /\ (position # 0 => results[r].run # runs)
      BY <1>3, <2>1, KeptMeans
    <3>4. t.means = <<runs, v>>
      BY <2>2, <3>2 DEF InPlace
    <3> QED
      BY <3>3, <3>4
  <2> QED
    BY <1>1, <2>2, <2>3, <2>4 DEF InPlace
<1>10. LiveOK'
  <2>1. stranded' \subseteq arena'.live
    <3>1. ASSUME NEW x \in RunHeld PROVE x \in arena.live
      BY <1>3, RunHeldIs DEF InPlace
    <3> QED
      BY <1>1, <1>3, <3>1 DEF LiveOK, Untouched
  <2>2. ASSUME NEW x \in arena'.live, x \notin stranded' PROVE \E t \in InUse' : t.at = x
    <3>1. x \in arena.live /\ x \notin stranded /\ x \notin RunHeld
      BY <1>1, <2>2 DEF Untouched
    <3>2. PICK t \in InUse : t.at = x
      BY <1>3, <3>1 DEF LiveOK
    <3>3. t \in Kept
      <4>1. SUFFICES ASSUME t \notin Kept PROVE FALSE
        OBVIOUS
      <4>2. PICK v \in DOMAIN values : values[v] = t /\ t.at # 0
        BY <3>2, <4>1 DEF InUse, Range
      <4>3. values[v].means = <<runs, v>>
        BY <1>3, <4>1, <4>2, OwnIsMade
      <4>4. x \in RunHeld
        BY <3>2, <4>2, <4>3 DEF RunHeld, Range
      <4> QED
        BY <3>1, <4>4
    <3> QED
      BY <1>8, <3>2, <3>3 DEF InUse
  <2> QED
    BY <2>1, <2>2 DEF LiveOK
<1> QED
  BY <1>4, <1>5, <1>6, <1>7, <1>9, <1>10 DEF EngineOK

(* An op that raises: its own outputs are back in the pools. *)
LEMMA RefusedKeeps ==
  ASSUME EngineTypes, EngineOK, OpRefused
  PROVE  EngineTypes' /\ EngineOK'
<1>1. /\ position \in Nodes(graph) /\ bytes' = Filled(NodeGot.at, NodeOuts)
      /\ arena' = GiveBackAll(NodeGot.arena, NodeGot.at) /\ Abandon({})
  BY DEF OpRefused, NodeGot, NodeOuts
<1>2. position # 0 /\ freed = << >> /\ NatSizes(graph)
  BY <1>1, GraphFacts DEF EngineTypes
<1>3. ArenaOK(arena, graph)
  BY <1>2 DEF EngineOK
<1> DEFINE got == NodeGot
           k == Len(NodeOuts)
           at == got.at
<1>4. k \in Nat /\ Took(arena, graph, NodeOuts, k, got)
  BY <1>1, <1>3, NodeGotOK
<1>5. /\ ArenaOK(got.arena, graph) /\ at \in Seq(Nat) /\ Len(at) = k
      /\ got.arena.live = arena.live \cup {at[j] : j \in 1 .. k} /\ \A j \in 1 .. k : at[j] \notin arena.live
  BY <1>4 DEF Took
<1>6. Fills(bytes', NodeOuts, k, at)
  BY <1>1, <1>4, Filling
<1> HIDE DEF got, at, k
<1>7. Returned(got.arena, graph, {at[j] : j \in 1 .. k}, GiveBackAll(got.arena, at))
  BY <1>2, <1>4, <1>5, GiveBackAllOK
<1>8. Returned(got.arena, graph, {at[j] : j \in 1 .. k}, arena')
  BY <1>1, <1>7 DEF got, at
<1>9. Untouched({})
  <2>1. arena'.live = arena.live
    BY <1>5, <1>8 DEF Returned
  <2> QED
    BY <1>6, <1>8, <2>1 DEF Untouched, Returned, Fills
<1> QED
  BY <1>1, <1>2, <1>9, AbandonKeeps

(* An allocation that raises: those made before it for the node are stranded. *)
LEMMA NoMemoryKeeps ==
  ASSUME EngineTypes, EngineOK, NoMemory
  PROVE  EngineTypes' /\ EngineOK'
<1> DEFINE outs == graph.nodes[position].outs
<1>1. PICK m \in DOMAIN outs :
        LET got == AcquireAll(arena, graph, SubSeq(outs, 1, m - 1))
        IN  arena' = got.arena /\ bytes' = Filled(got.at, outs) /\ Abandon(Range(got.at))
  BY DEF NoMemory
<1>2. position \in Nodes(graph) /\ position # 0 /\ freed = << >> /\ NatSizes(graph)
  <2>1. position \in Nodes(graph)
    BY DEF NoMemory
  <2>2. graph \in Graphs /\ (position # 0 => freed = << >>)
    BY DEF EngineTypes
  <2>3. NatSizes(graph) /\ Nodes(graph) = 1 .. Len(graph.nodes) /\ Len(graph.nodes) \in Nat
    BY <2>2, GraphFacts
  <2>4. position # 0
    BY <2>1, <2>3
  <2> QED
    BY <2>1, <2>2, <2>3, <2>4
<1>3. ArenaOK(arena, graph)
  BY <1>2 DEF EngineOK
<1> DEFINE names == SubSeq(outs, 1, m - 1)
           k == m - 1
           got == AcquireAll(arena, graph, names)
           at == got.at
<1>4. /\ Len(NodeOuts) \in Nat /\ DOMAIN NodeOuts = 1 .. Len(NodeOuts) /\ NodeOuts \in Seq(DOMAIN graph.size) /\ NodeOuts = outs
  BY <1>2, <1>3, NodeGotOK DEF NodeOuts
<1>5. k \in Nat /\ Len(names) = k /\ \A j \in 1 .. k : names[j] = outs[j] /\ names[j] \in DOMAIN graph.size
  <2> HIDE DEF outs
  <2> DEFINE V == DOMAIN graph.size
  <2>1. outs \in Seq(V) /\ m \in 1 .. Len(outs)
    BY <1>4
  <2> HIDE DEF V
  <2>2. k \in Nat /\ Len(names) = k /\ \A j \in 1 .. k : names[j] = outs[j] /\ names[j] \in V
    BY <2>1
  <2> QED
    BY <2>2 DEF V
<1>6. arena' = got.arena /\ bytes' = Filled(at, outs) /\ Abandon(Range(at))
  BY <1>1
<1> HIDE DEF names, outs
<1>7. Took(arena, graph, names, k, got)
  <2>1. \A j \in 1 .. Len(names) : graph.size[names[j]] \in Range(graph.size)
    BY <1>5 DEF Range
  <2>2. Took(arena, graph, names, Len(names), AcquireAll(arena, graph, names))
    BY <1>2, <1>3, <1>5, <2>1, AcquireAllOK
  <2> QED
    BY <1>5, <2>2
<1> HIDE DEF got, at
<1>8. Took(arena, graph, outs, k, got)
  <2>1. \A j \in 1 .. k : graph.size[names[j]] = graph.size[outs[j]]
    BY <1>5
  <2> HIDE DEF k
  <2> QED
    BY <1>7, <2>1 DEF Took
<1>9. Fills(bytes', outs, k, at)
  <2>1. Fills(Filled(got.at, outs), outs, k, got.at)
    <3> HIDE DEF k
    <3> QED
      BY <1>5, <1>8, Filling
  <2> QED
    BY <1>6, <2>1 DEF at
<1>10. Range(at) = {at[j] : j \in 1 .. k}
  <2>1. at \in Seq(Nat) /\ Len(at) = k
    BY <1>7 DEF Took, at
  <2> QED
    BY <2>1, NamesAre
<1>11. Untouched(Range(at))
  <2>1. /\ ArenaOK(got.arena, graph) /\ got.arena.live = arena.live \cup {at[j] : j \in 1 .. k}
        /\ \A j \in 1 .. k : at[j] \notin arena.live
    BY <1>7 DEF Took, at
  <2> HIDE DEF k
  <2> QED
    BY <1>6, <1>9, <1>10, <2>1 DEF Untouched, Fills
<1> QED
  BY <1>2, <1>6, <1>11, AbandonKeeps

FinishedCall ==
  [run |-> runs, outs |-> [v \in Range(graph.outputs) |-> values[v]], kept |-> TRUE, cost |-> Cost(arena)]

(* The assignments of a call's return. *)
LEMMA FinishStep ==
  ASSUME FinishRun
  PROVE  /\ position = Len(graph.nodes) + 1 /\ results' = Append(results, FinishedCall)
         /\ values' = << >> /\ position' = 0
         /\ graph' = graph /\ arena' = arena /\ bytes' = bytes /\ runs' = runs /\ stranded' = stranded /\ freed' = freed
BY DEF FinishRun, FinishedCall

(* At the end each output is held, an input or made by this run. *)
LEMMA OutputsHeld ==
  ASSUME EngineTypes, position = Len(graph.nodes) + 1, NEW v \in Range(graph.outputs)
  PROVE  v \in DOMAIN values /\ v \in DOMAIN graph.size /\ values[v] \in Tensors(graph)
<1>1. graph \in Graphs /\ Len(graph.nodes) \in Nat /\ graph.outputs \in Seq(DOMAIN graph.size)
  BY GraphFacts DEF EngineTypes
<1>2. v \in DOMAIN graph.size
  <2> DEFINE s == graph.outputs
  <2>1. s \in Seq(DOMAIN graph.size)
    BY <1>1
  <2> HIDE DEF s
  <2>2. Range(s) \subseteq DOMAIN graph.size
    BY <2>1, NamesAre
  <2> QED
    BY <2>2 DEF s
<1>3. values \in [HeldBy(graph, position) -> Tensors(graph)]
  BY <1>1 DEF EngineTypes
<1>4. Born(graph, v) < position
  <2>1. Born(graph, v) \in 0 .. Len(graph.nodes)
    BY <1>1, <1>2, BornIs
  <2> QED
    BY <1>1, <2>1
<1>5. v \in HeldBy(graph, position)
  BY <1>2, <1>4 DEF HeldBy
<1> QED
  BY <1>2, <1>3, <1>5

(* What a call is recorded to have cost is numbers. *)
LEMMA CostIs == ASSUME NEW a, NEW g, ArenaOK(a, g), NatSizes(g)
                PROVE Cost(a) \in [allocations : Nat, reuses : Nat, peak : Nat]
<1>1. Len(a.sizes) \in Nat
  BY ArenaFacts
<1>2. a.reuses \in Nat /\ a.peak \in Nat
  BY DEF ArenaOK, ArenaShape
<1> QED
  BY <1>1, <1>2 DEF Cost

(* The return keeps the types, and records the call. *)
LEMMA FinishTypes ==
  ASSUME EngineTypes, ArenaOK(arena, graph), FinishRun
  PROVE  /\ EngineTypes' /\ FinishedCall \in Calls(graph)
         /\ DOMAIN results' = DOMAIN results \cup {Len(results) + 1} /\ Len(results) + 1 \notin DOMAIN results
         /\ results'[Len(results) + 1] = FinishedCall /\ \A r \in DOMAIN results : results'[r] = results[r]
<1>1. /\ position = Len(graph.nodes) + 1 /\ results' = Append(results, FinishedCall)
      /\ values' = << >> /\ position' = 0
      /\ graph' = graph /\ runs' = runs /\ freed' = freed
  BY FinishStep
<1>2. graph \in Graphs /\ Len(graph.nodes) \in Nat /\ NatSizes(graph) /\ runs \in Nat
  BY GraphFacts DEF EngineTypes
<1>3. FinishedCall \in Calls(graph)
  <2>1. \A v \in Range(graph.outputs) : values[v] \in Tensors(graph)
    BY <1>1, OutputsHeld
  <2>2. Cost(arena) \in [allocations : Nat, reuses : Nat, peak : Nat]
    BY <1>2, CostIs
  <2> QED
    BY <1>2, <2>1, <2>2 DEF FinishedCall, Calls
<1> DEFINE S == Calls(graph)
           c == FinishedCall
           n == Len(results)
<1>4. results \in Seq(S) /\ c \in S
  BY <1>3 DEF EngineTypes
<1> HIDE DEF S, c
<1>5. /\ Append(results, c) \in Seq(S) /\ n \in Nat /\ DOMAIN results = 1 .. n
      /\ DOMAIN Append(results, c) = 1 .. n + 1 /\ Append(results, c)[n + 1] = c
      /\ \A r \in 1 .. n : Append(results, c)[r] = results[r]
  BY <1>4
<1>6. 1 .. n + 1 = 1 .. n \cup {n + 1} /\ n + 1 \notin 1 .. n
  BY <1>5
<1>7. EngineTypes'
  <2>1. values' \in [{} -> Tensors(graph)] /\ 0 \in 0 .. Len(graph.nodes) + 1
    BY <1>1, <1>2
  <2>2. results' \in Seq(Calls(graph))
    BY <1>1, <1>5 DEF S, c
  <2> QED
    BY <1>1, <1>2, <2>1, <2>2 DEF EngineTypes
<1> QED
  BY <1>1, <1>3, <1>5, <1>6, <1>7 DEF c

(* The return hands the outputs over: they are kept where they are. *)
LEMMA FinishKeeps ==
  ASSUME EngineTypes, EngineOK, FinishRun
  PROVE  EngineOK'
<1>1. /\ position = Len(graph.nodes) + 1
      /\ values' = << >> /\ position' = 0
      /\ graph' = graph /\ arena' = arena /\ bytes' = bytes /\ runs' = runs /\ stranded' = stranded /\ freed' = freed
  BY FinishStep
<1>2. position # 0 /\ freed = << >> /\ graph \in Graphs /\ Len(graph.nodes) \in Nat /\ runs \in Nat /\ runs # 0
  BY <1>1, GraphFacts DEF EngineTypes
<1>3. ArenaOK(arena, graph) /\ ValuesOK /\ ResultsOK /\ KeptOK /\ LiveOK
  BY <1>2 DEF EngineOK
<1>0. PICK n : n = Len(results) + 1
  OBVIOUS
<1> DEFINE c == FinishedCall
<1>4. /\ DOMAIN results' = DOMAIN results \cup {n} /\ n \notin DOMAIN results
      /\ results'[n] = c /\ \A r \in DOMAIN results : results'[r] = results[r]
  BY <1>0, <1>3, FinishTypes
<1>5. c.run = runs /\ c.kept = TRUE /\ c.outs = [v \in Range(graph.outputs) |-> values[v]]
  BY DEF FinishedCall
<1> HIDE DEF c
<1>6. ArenaOK(arena', graph') /\ \A t : InPlace(t)' = InPlace(t)
  BY <1>1, <1>3 DEF InPlace
<1>7. ValuesOK'
  BY <1>1 DEF ValuesOK
<1>8. ResultsOK'
  <2>1. ASSUME NEW r \in DOMAIN results PROVE ResultOK(r) /\ results[r].run # runs
    BY <1>2, <1>3 DEF ResultsOK, ResultOK
  <2>2. ASSUME NEW r \in DOMAIN results PROVE ResultOK(r)'
    <3>1. \A s \in DOMAIN results' : s # r => results'[s].run # results'[r].run
      BY <1>4, <1>5, <2>1 DEF ResultOK
    <3>2. ASSUME NEW v \in Range(graph.outputs) PROVE Handed(r, v)'
      <4>1. Handed(r, v)
        BY <2>1 DEF ResultOK
      <4>2. graph' = graph /\ bytes' = bytes /\ arena' = arena /\ runs' = runs /\ results'[r] = results[r]
        BY <1>1, <1>4
      <4> QED
        BY <4>1, <4>2 DEF Handed
    <3>3. results'[r].run \in 1 .. runs
      BY <1>4, <2>1 DEF ResultOK
    <3> QED
      BY <1>1, <3>1, <3>2, <3>3 DEF ResultOK
  <2>3. ResultOK(n)'
    <3>1. \A s \in DOMAIN results' : s # n => results'[s].run # results'[n].run
      BY <1>4, <1>5, <2>1
    <3>2. ASSUME NEW v \in Range(graph.outputs) PROVE Handed(n, v)'
      <4>1. v \in DOMAIN values /\ results'[n].outs[v] = values[v] /\ results'[n].run = runs
        BY <1>1, <1>4, <1>5, OutputsHeld
      <4>2. CASE Born(graph, v) = 0
        <5>1. Lent(v)
          BY <1>3, <4>1, <4>2 DEF ValuesOK
        <5>2. values[v] = Tensor(0, <<0, v>>)
          BY <5>1 DEF Lent
        <5> QED
          BY <4>1, <5>2 DEF Handed
      <4>3. CASE Born(graph, v) # 0
        <5>1. Own(v)
          BY <1>3, <4>1, <4>3 DEF ValuesOK
        <5>2. values[v].at \in arena.live /\ values[v].means = <<runs, v>>
          BY <5>1 DEF Own, InPlace
        <5>3. values[v].at # 0
          BY <1>3, <5>2, LiveIsNumbered
        <5> QED
          BY <4>1, <5>2, <5>3 DEF Handed
      <4> QED
        BY <4>2, <4>3
    <3>3. results'[n].run \in 1 .. runs
      BY <1>2, <1>4, <1>5
    <3> QED
      BY <1>1, <3>1, <3>2, <3>3 DEF ResultOK
  <2> QED
    BY <1>4, <2>2, <2>3 DEF ResultsOK
<1>9. ASSUME NEW t PROVE t \in Kept' <=> t \in Kept \/ \E v \in Range(graph.outputs) : t = values[v]
  <2>1. t \in Kept' <=> \E r \in DOMAIN results' : results'[r].kept /\ t \in Range(results'[r].outs)
    BY DEF Kept
  <2>2. t \in Kept <=> \E r \in DOMAIN results : results[r].kept /\ t \in Range(results[r].outs)
    BY DEF Kept
  <2>3. t \in Range(results'[n].outs) <=> \E v \in Range(graph.outputs) : t = values[v]
    BY <1>4, <1>5 DEF Range
  <2> QED
    BY <1>4, <1>5, <2>1, <2>2, <2>3
<1>10. KeptOK'
  <2>1. SUFFICES ASSUME NEW t \in Kept', t.at # 0 PROVE InPlace(t)
    BY <1>6 DEF KeptOK
  <2>2. CASE t \in Kept
    BY <1>3, <2>1, <2>2 DEF KeptOK
  <2>3. CASE t \notin Kept
    <3>1. PICK v \in Range(graph.outputs) : t = values[v]
      BY <1>9, <2>1, <2>3
    <3>2. v \in DOMAIN values
      BY <1>1, OutputsHeld
    <3> QED
      BY <1>2, <1>3, <2>1, <2>3, <3>1, <3>2, OwnIsMade
  <2> QED
    BY <2>2, <2>3
<1>11. LiveOK'
  <2>1. ASSUME NEW x \in arena.live, x \notin stranded PROVE \E t \in InUse' : t.at = x
    <3>1. PICK t \in InUse : t.at = x
      BY <1>3, <2>1 DEF LiveOK
    <3>2. t \in Kept'
      <4>1. CASE t \in Kept
        BY <1>9, <4>1
      <4>2. CASE t \notin Kept
        <5>1. PICK v \in DOMAIN values : values[v] = t /\ t.at # 0
          BY <3>1, <4>2 DEF InUse, Range
        <5>2. Born(graph, v) # 0
          BY <1>2, <1>3, <4>2, <5>1, OwnIsMade
        <5>3. v \in HeldBy(graph, position) /\ v \in DOMAIN graph.size
          BY <1>2, <5>1 DEF EngineTypes, HeldBy
        <5>4. ~(Dies(graph, v) >= position)
          <6>1. Dies(graph, v) \in 0 .. Len(graph.nodes)
            BY <1>2, <5>3, BornIs
          <6> QED
            BY <1>1, <1>2, <6>1
        <5>5. v \in Range(graph.outputs)
          BY <5>2, <5>3, <5>4 DEF HeldBy
        <5> QED
          BY <1>9, <5>1, <5>5
      <4> QED
        BY <4>1, <4>2
    <3>3. t \in InUse'
      BY <3>1, <3>2 DEF InUse
    <3> QED
      BY <3>1, <3>3
  <2> QED
    BY <1>1, <1>3, <2>1 DEF LiveOK
<1> QED
  BY <1>6, <1>7, <1>8, <1>10, <1>11 DEF EngineOK

-----------------------------------------------------------------------------
(* The caller releases what a run returned.                                *)

GivenUp(r) == {results[r].outs[v].at : v \in Range(graph.outputs)}

(* Which buffers Execution.release gives back. *)
LEMMA ReleaseStep ==
  ASSUME EngineTypes, ReleaseResult, freed = << >> => ArenaOK(arena, graph)
  PROVE  \E r \in DOMAIN results :
           /\ results[r].kept /\ Returned(arena, graph, GivenUp(r), arena')
           /\ results' = [results EXCEPT ![r].kept = FALSE]
<1>1. PICK r \in {s \in DOMAIN results : results[s].kept} :
       /\ arena' = GiveBackAll(arena, [j \in DOMAIN graph.outputs |-> results[r].outs[graph.outputs[j]].at])
       /\ results' = [results EXCEPT ![r].kept = FALSE]
  BY DEF ReleaseResult
<1> DEFINE s == graph.outputs
           bufs == [j \in DOMAIN s |-> results[r].outs[s[j]].at]
           gone == {bufs[j] : j \in 1 .. Len(bufs)}
<1>2. s \in Seq(DOMAIN graph.size) /\ NatSizes(graph) /\ ArenaOK(arena, graph)
  BY GraphFacts DEF EngineTypes, ReleaseResult
<1> HIDE DEF s
<1>3. Len(s) \in Nat /\ DOMAIN s = 1 .. Len(s) /\ Range(s) = {s[j] : j \in 1 .. Len(s)}
  BY <1>2, NamesAre
<1>4. Len(bufs) = Len(s) /\ \A j \in 1 .. Len(s) : bufs[j] = results[r].outs[s[j]].at
  BY <1>3
<1> HIDE DEF bufs
<1>5. Returned(arena, graph, gone, GiveBackAll(arena, bufs))
  BY <1>2, <1>3, <1>4, GiveBackAllOK
<1>6. gone = GivenUp(r)
  <2>1. gone = {results[r].outs[s[j]].at : j \in 1 .. Len(s)}
    BY <1>4
  <2>2. GivenUp(r) = {results[r].outs[v].at : v \in Range(s)}
    BY DEF GivenUp, s
  <2>3. ASSUME NEW b \in gone PROVE b \in GivenUp(r)
    <3>1. PICK j \in 1 .. Len(s) : b = results[r].outs[s[j]].at
      BY <2>1
    <3>2. s[j] \in Range(s)
      BY <1>3
    <3> QED
      BY <2>2, <3>1, <3>2
  <2>4. ASSUME NEW b \in GivenUp(r) PROVE b \in gone
    <3>1. PICK v \in Range(s) : b = results[r].outs[v].at
      BY <2>2
    <3>2. PICK j \in 1 .. Len(s) : v = s[j]
      BY <1>3
    <3> QED
      BY <2>1, <3>1, <3>2
  <2> QED
    BY <2>3, <2>4
<1>7. arena' = GiveBackAll(arena, bufs)
  BY <1>1 DEF bufs, s
<1> QED
  BY <1>1, <1>5, <1>6, <1>7

(* Execution.release keeps the engine sound: no other result shares its buffers. *)
LEMMA ReleaseKeeps ==
  ASSUME EngineTypes, EngineOK, ReleaseResult
  PROVE  EngineTypes' /\ EngineOK'
<1>1. /\ position = 0 /\ freed = << >> /\ graph' = graph /\ bytes' = bytes /\ values' = values
      /\ position' = position /\ runs' = runs /\ stranded' = stranded /\ freed' = freed
  BY DEF ReleaseResult
<1>2. ArenaOK(arena, graph) /\ ValuesOK /\ ResultsOK /\ KeptOK /\ LiveOK
  BY <1>1 DEF EngineOK
<1>3. PICK r \in DOMAIN results :
           /\ results[r].kept /\ Returned(arena, graph, GivenUp(r), arena')
           /\ results' = [results EXCEPT ![r].kept = FALSE]
  BY <1>2, ReleaseStep
<1>4. /\ Len(results) \in Nat /\ DOMAIN results = 1 .. Len(results)
      /\ \A s \in DOMAIN results : results[s] \in Calls(graph)
  BY CallsAre
<1>5. /\ DOMAIN results' = DOMAIN results /\ Len(results') = Len(results)
      /\ \A s \in DOMAIN results : /\ results'[s].run = results[s].run /\ results'[s].outs = results[s].outs
                                   /\ results'[s].kept <=> s # r /\ results[s].kept
  BY <1>3, <1>4 DEF Calls
<1>6. EngineTypes'
  <2> DEFINE S == Calls(graph)
  <2>1. [results[r] EXCEPT !.kept = FALSE] \in S
    BY <1>4 DEF Calls
  <2>2. results \in Seq(S)
    BY DEF EngineTypes
  <2> HIDE DEF S
  <2>3. results' \in Seq(S)
    BY <1>3, <2>1, <2>2
  <2> QED
    BY <1>1, <2>3 DEF EngineTypes, S
<1>7. ASSUME NEW v \in Range(graph.outputs)
      PROVE  results[r].outs[v] \in Kept
  <2>1. DOMAIN results[r].outs = Range(graph.outputs)
    BY <1>4 DEF Calls
  <2> QED
    BY <1>3, <2>1 DEF Kept, Range
<1>8. ASSUME NEW t, t \in Kept'
      PROVE  t \in Kept /\ (t.at # 0 => t.at \notin GivenUp(r))
  <2>1. PICK s \in DOMAIN results : s # r /\ results[s].kept /\ t \in Range(results[s].outs)
    BY <1>5, <1>8 DEF Kept
  <2>2. t \in Kept
    BY <2>1 DEF Kept
  <2>3. ASSUME t.at # 0, NEW w \in Range(graph.outputs), t.at = results[r].outs[w].at PROVE FALSE
    <3> DEFINE u == results[r].outs[w]
    <3>1. u \in Kept /\ u.at # 0
      BY <1>7, <2>3
    <3>2. t.means = u.means
      BY <1>2, <2>2, <2>3, <3>1 DEF KeptOK, InPlace
    <3>3. u.means = <<results[r].run, w>>
      <4>1. Handed(r, w)
        BY <1>2 DEF ResultsOK, ResultOK
      <4> QED
        BY <3>1, <4>1 DEF Handed, Tensor
    <3>4. PICK v \in Range(graph.outputs) : t = results[s].outs[v]
      BY <1>4, <2>1 DEF Calls, Range
    <3>5. t.means = <<results[s].run, v>>
      <4>1. Handed(s, v)
        BY <1>2 DEF ResultsOK, ResultOK
      <4> QED
        BY <2>3, <3>4, <4>1 DEF Handed, Tensor
    <3>6. results[s].run # results[r].run
      BY <1>2, <2>1 DEF ResultsOK, ResultOK
    <3> QED
      BY <3>2, <3>3, <3>5, <3>6
  <2> QED
    BY <2>2, <2>3 DEF GivenUp
<1>9. arena'.live = arena.live \ GivenUp(r) /\ ArenaOK(arena', graph')
  BY <1>1, <1>3 DEF Returned
<1>10. ValuesOK'
  <2>1. DOMAIN values = {}
    BY <1>1 DEF EngineTypes
  <2> QED
    BY <1>1, <2>1 DEF ValuesOK
<1>11. ResultsOK'
  <2>1. ASSUME NEW s \in DOMAIN results PROVE ResultOK(s)'
    <3>1. ResultOK(s)
      BY <1>2 DEF ResultsOK
    <3>2. \A v \in Range(graph.outputs) : Handed(s, v)'
      BY <1>1, <1>5, <3>1 DEF ResultOK, Handed
    <3>3. \A q \in DOMAIN results' : q # s => results'[q].run # results'[s].run
      BY <1>5, <3>1 DEF ResultOK
    <3>4. results'[s].run \in 1 .. runs'
      BY <1>1, <1>5, <3>1 DEF ResultOK
    <3> QED
      BY <1>1, <3>2, <3>3, <3>4 DEF ResultOK
  <2> QED
    BY <1>5, <2>1 DEF ResultsOK
<1>12. KeptOK'
  <2>1. SUFFICES ASSUME NEW t, t \in Kept', t.at # 0 PROVE InPlace(t)'
    BY DEF KeptOK
  <2>2. InPlace(t) /\ t.at \notin GivenUp(r)
    BY <1>2, <1>8, <2>1 DEF KeptOK
  <2> QED
    BY <1>1, <1>9, <2>2 DEF InPlace
<1>13. LiveOK'
  <2>1. ASSUME NEW x \in stranded PROVE x \in arena.live /\ x \notin GivenUp(r)
    <3>1. x \in arena.live /\ x # 0
      BY <1>2, LiveIsNumbered DEF LiveOK
    <3>2. ASSUME NEW w \in Range(graph.outputs), x = results[r].outs[w].at PROVE FALSE
      <4>1. InPlace(results[r].outs[w])
        BY <1>2, <1>7, <3>1, <3>2 DEF KeptOK
      <4> QED
        BY <3>2, <4>1 DEF InPlace
    <3> QED
      BY <3>1, <3>2 DEF GivenUp
  <2>2. ASSUME NEW x \in arena.live, x \notin GivenUp(r), x \notin stranded PROVE \E t \in InUse' : t.at = x
    <3>1. PICK t \in InUse : t.at = x
      BY <1>2, <2>2 DEF LiveOK
    <3>2. t \in Kept
      <4>1. Range(values) = {}
        <5>1. DOMAIN values = {}
          BY <1>1 DEF EngineTypes
        <5> QED
          BY <5>1 DEF Range
      <4> QED
        BY <3>1, <4>1 DEF InUse
    <3>3. PICK s \in DOMAIN results : results[s].kept /\ \E v \in Range(graph.outputs) : t = results[s].outs[v]
      BY <3>2, KeptIs
    <3>4. s # r
      BY <2>2, <3>1, <3>3 DEF GivenUp
    <3>5. t \in Range(results[s].outs)
      BY <1>4, <3>3 DEF Calls, Range
    <3>6. t \in Kept'
      BY <1>5, <3>3, <3>4, <3>5 DEF Kept
    <3> QED
      BY <3>1, <3>6 DEF InUse
  <2> QED
    BY <1>1, <1>9, <2>1, <2>2 DEF LiveOK
<1> QED
  BY <1>6, <1>9, <1>10, <1>11, <1>12, <1>13 DEF EngineOK

-----------------------------------------------------------------------------
(* The close.                                                              *)

(* Each buffer of an arena is live, or waits once in the pool of its size.  *)
LEMMA TimesOne ==
  ASSUME EngineTypes, ArenaOK(arena, graph), NEW b \in DOMAIN arena.sizes
  PROVE  Times(b) = 1
<1> DEFINE at(n) == {k \in DOMAIN arena.free[n] : arena.free[n][k] = b}
           places == UNION {{<<n, j>> : j \in at(n)} : n \in DOMAIN arena.free}
           n0 == arena.sizes[b]
<1>1. Times(b) = Cardinality(places) + Cardinality(arena.live \cap {b})
  BY DEF Times
<1>2. /\ \A n \in DOMAIN arena.free : Waits(arena, n)
      /\ \A x \in DOMAIN arena.sizes \ arena.live : InPool(arena, x)
  BY DEF ArenaOK
<1>3. n0 \in DOMAIN arena.free
  BY ArenaFacts, GraphFacts DEF EngineTypes
<1>4. CASE b \in arena.live
  <2>1. \A n \in DOMAIN arena.free : at(n) = {}
    BY <1>2, <1>4 DEF Waits
  <2>2. places = {}
    BY <2>1
  <2>3. arena.live \cap {b} = {b}
    BY <1>4
  <2>4. Cardinality({}) = 0 /\ Cardinality({b}) = 1
    BY FS_EmptySet, FS_Singleton
  <2> HIDE DEF places
  <2> QED
    BY <1>1, <2>2, <2>3, <2>4
<1>5. CASE b \notin arena.live
  <2>1. PICK k \in DOMAIN arena.free[n0] : arena.free[n0][k] = b
    BY <1>2, <1>5 DEF InPool
  <2>2. ASSUME NEW n \in DOMAIN arena.free, NEW j \in at(n) PROVE n = n0 /\ j = k
    <3>1. Waits(arena, n) /\ j \in DOMAIN arena.free[n] /\ arena.free[n][j] = b
      BY <1>2
    <3>2. n = n0
      BY <3>1 DEF Waits
    <3> QED
      BY <2>1, <3>1, <3>2 DEF Waits
  <2>3. places = {<<n0, k>>}
    <3>1. <<n0, k>> \in places
      BY <1>3, <2>1
    <3>2. ASSUME NEW p \in places PROVE p = <<n0, k>>
      <4>1. PICK n \in DOMAIN arena.free : \E j \in at(n) : p = <<n, j>>
        OBVIOUS
      <4> HIDE DEF at, n0
      <4> QED
        BY <2>2, <4>1
    <3> HIDE DEF places
    <3> QED
      BY <3>1, <3>2
  <2>4. arena.live \cap {b} = {}
    BY <1>5
  <2>5. Cardinality({}) = 0 /\ Cardinality({<<n0, k>>}) = 1
    BY FS_EmptySet, FS_Singleton
  <2> HIDE DEF places, n0
  <2> QED
    BY <1>1, <2>3, <2>4, <2>5
<1> QED
  BY <1>4, <1>5

(* Executor.close keeps the types, and frees each buffer once. *)
LEMMA CloseKeeps ==
  ASSUME EngineTypes, EngineOK, CloseArena
  PROVE  EngineTypes' /\ EngineOK' /\ ClosedFreesAll'
<1>1. /\ position = 0 /\ freed = << >> /\ graph' = graph /\ bytes' = bytes /\ values' = values
      /\ position' = position /\ runs' = runs /\ stranded' = stranded /\ results' = results
      /\ freed' = [b \in DOMAIN arena.sizes |-> Times(b)]
      /\ arena' = [arena EXCEPT !.free = [n \in DOMAIN @ |-> << >>], !.live = {}, !.held = 0]
  BY DEF CloseArena
<1>2. ArenaOK(arena, graph) /\ ValuesOK /\ ResultsOK /\ KeptOK /\ LiveOK
  BY <1>1 DEF EngineOK
<1>3. NatSizes(graph) /\ DOMAIN arena.free = Range(graph.size) /\ ArenaShape(arena, graph)
      /\ DOMAIN arena.sizes = 1 .. Len(arena.sizes) /\ Len(arena.sizes) \in Nat
  BY <1>2, GraphFacts, ArenaFacts DEF EngineTypes, ArenaOK
<1>4. /\ arena'.free = [n \in Range(graph.size) |-> << >>] /\ arena'.live = {} /\ arena'.held = 0
      /\ arena'.sizes = arena.sizes /\ arena'.reuses = arena.reuses /\ arena'.peak = arena.peak
      /\ arena' = [free |-> arena'.free, live |-> arena'.live, sizes |-> arena'.sizes,
                    reuses |-> arena'.reuses, held |-> arena'.held, peak |-> arena'.peak]
  BY <1>1, <1>3 DEF ArenaShape
<1>5. EngineTypes'
  <2>1. position = 0 /\ values \in [{} -> Tensors(graph)]
    BY <1>1 DEF EngineTypes
  <2> QED
    BY <1>1, <2>1 DEF EngineTypes
<1>6. ClosedFreesAll'
  <2>1. \A b \in DOMAIN arena.sizes : Times(b) = 1
    BY <1>2, TimesOne
  <2> QED
    BY <1>1, <1>4, <2>1 DEF ClosedFreesAll
<1>7. EngineOK'
  <2>1. SUFFICES ASSUME freed' = << >>
                 PROVE  ArenaOK(arena', graph') /\ ValuesOK' /\ ResultsOK' /\ KeptOK' /\ LiveOK'
    BY DEF EngineOK
  <2>2. DOMAIN arena.sizes = {}
    BY <1>1, <2>1
  <2>3. arena.live = {} /\ stranded = {}
    BY <1>2, <2>2 DEF ArenaOK, LiveOK
  <2>4. ArenaOK(arena', graph')
    <3>1. ArenaShape(arena', graph)
      <4>1. arena'.free \in [Range(graph.size) -> Seq(Nat)]
        BY <1>4
      <4>2. arena.sizes \in Seq(Range(graph.size)) /\ arena.reuses \in Nat /\ arena.peak \in Nat
        BY <1>3 DEF ArenaShape
      <4>3. arena'.live \in SUBSET Nat /\ arena'.held \in Nat /\ arena'.sizes \in Seq(Range(graph.size))
            /\ arena'.reuses \in Nat /\ arena'.peak \in Nat
        BY <1>4, <4>2
      <4>4. arena' = [free |-> arena'.free, live |-> arena'.live, sizes |-> arena'.sizes,
                      reuses |-> arena'.reuses, held |-> arena'.held, peak |-> arena'.peak]
        BY <1>4
      <4> DEFINE c == arena'
      <4>5. c.free \in [Range(graph.size) -> Seq(Nat)] /\ c.live \in SUBSET Nat /\ c.held \in Nat
            /\ c.sizes \in Seq(Range(graph.size)) /\ c.reuses \in Nat /\ c.peak \in Nat
            /\ c = [free |-> c.free, live |-> c.live, sizes |-> c.sizes, reuses |-> c.reuses,
                    held |-> c.held, peak |-> c.peak]
        BY <4>1, <4>3, <4>4
      <4> HIDE DEF c
      <4>6. ArenaShape(c, graph)
        BY <4>5 DEF ArenaShape
      <4> QED
        BY <4>6 DEF c
    <3>2. \A n \in DOMAIN arena'.free : Waits(arena', n)
      BY <1>4 DEF Waits
    <3>3. arena'.held = SumOf(arena'.sizes, arena'.live)
      BY <1>4, SumEmpty
    <3> QED
      BY <1>1, <1>4, <2>2, <3>1, <3>2, <3>3 DEF ArenaOK
  <2>5. ValuesOK'
    <3>1. DOMAIN values = {}
      BY <1>1 DEF EngineTypes
    <3> QED
      BY <1>1, <3>1 DEF ValuesOK
  <2>6. ResultsOK'
    <3>1. ASSUME NEW r \in DOMAIN results PROVE ResultOK(r)'
      <4>1. ResultOK(r)
        BY <1>2 DEF ResultsOK
      <4> QED
        BY <1>1, <4>1 DEF ResultOK, Handed
    <3> QED
      BY <1>1, <3>1 DEF ResultsOK
  <2>7. Kept' = Kept
    BY <1>1 DEF Kept
  <2>8. KeptOK'
    BY <1>2, <2>3, <2>7 DEF KeptOK, InPlace
  <2>9. LiveOK'
    BY <1>1, <1>4, <2>3 DEF LiveOK
  <2> QED
    BY <2>4, <2>5, <2>6, <2>8, <2>9
<1> QED
  BY <1>5, <1>6, <1>7

-----------------------------------------------------------------------------
(* The invariant of the engine.                                            *)

(* An arena nobody has used is sound. *)
LEMMA NewArenaOK == ASSUME NEW g, NatSizes(g) PROVE ArenaOK(NewArena(g), g)
<1> DEFINE a == NewArena(g)
<1>1. /\ a.free = [n \in Range(g.size) |-> << >>] /\ a.live = {} /\ a.sizes = << >>
      /\ a.reuses = 0 /\ a.held = 0 /\ a.peak = 0
      /\ a = [free |-> a.free, live |-> a.live, sizes |-> a.sizes, reuses |-> a.reuses,
              held |-> a.held, peak |-> a.peak]
  BY DEF NewArena
<1> HIDE DEF a
<1>2. ArenaShape(a, g)
  <2>1. a.free \in [Range(g.size) -> Seq(Nat)] /\ a.sizes \in Seq(Range(g.size))
    BY <1>1
  <2>2. a.live \in SUBSET Nat /\ a.reuses \in Nat /\ a.held \in Nat /\ a.peak \in Nat
    BY <1>1
  <2>3. a = [free |-> a.free, live |-> a.live, sizes |-> a.sizes, reuses |-> a.reuses,
             held |-> a.held, peak |-> a.peak]
    BY <1>1
  <2> QED
    BY <2>1, <2>2, <2>3 DEF ArenaShape
<1>3. \A n \in DOMAIN a.free : Waits(a, n)
  BY <1>1 DEF Waits
<1>4. a.held = SumOf(a.sizes, a.live)
  BY <1>1, SumEmpty
<1>5. ArenaOK(a, g)
  BY <1>1, <1>2, <1>3, <1>4 DEF ArenaOK
<1> QED
  BY <1>5 DEF a

(* A fresh engine, or one that will make no call, is sound. *)
LEMMA EngineStarts == ASSUME EngineInit \/ (graph \in Graphs /\ arena = NewArena(graph) /\ bytes = << >> /\ values = << >>
  /\ position = 0 /\ runs = MaxRuns /\ results = << >> /\ stranded = {} /\ freed = << >>)
                PROVE EngineInv
<1>1. /\ graph \in Graphs /\ arena = NewArena(graph) /\ bytes = << >> /\ values = << >>
      /\ position = 0 /\ runs \in Nat /\ results = << >> /\ stranded = {} /\ freed = << >>
  BY GraphAssumption DEF EngineInit
<1>2. EngineTypes
  <2>1. values \in [{} -> Tensors(graph)] /\ 0 \in 0 .. Len(graph.nodes) + 1
    BY <1>1, GraphFacts
  <2>2. results \in Seq(Calls(graph))
    BY <1>1
  <2> QED
    BY <1>1, <2>1, <2>2 DEF EngineTypes
<1>3. ArenaOK(arena, graph)
  BY <1>1, GraphFacts, NewArenaOK
<1>4. DOMAIN results = {} /\ DOMAIN values = {}
  BY <1>1
<1>5. Kept = {}
  BY <1>4 DEF Kept
<1>6. arena.live = {}
  BY <1>1 DEF NewArena
<1>7. EngineOK
  BY <1>1, <1>3, <1>4, <1>5, <1>6 DEF EngineOK, ValuesOK, ResultsOK, KeptOK, LiveOK
<1> QED
  BY <1>1, <1>2, <1>7 DEF EngineInv, NotBegun, ClosedFreesAll

(* Every step of the engine keeps it sound. *)
LEMMA EngineStep == ASSUME EngineInv, EngineNext PROVE EngineInv'
<1>1. EngineTypes /\ EngineOK /\ NotBegun /\ ClosedFreesAll /\ runs \in Nat
  BY DEF EngineInv, EngineTypes
<1>2. CASE BeginRun
  <2>1. freed' = << >> /\ runs' # 0
    BY <1>1, <1>2 DEF BeginRun
  <2> QED
    BY <1>1, <1>2, <2>1, BeginTypes, BeginKeeps DEF EngineInv, NotBegun, ClosedFreesAll
<1>3. ASSUME position # 0, runs' = runs, freed' = freed PROVE NotBegun' /\ ClosedFreesAll'
  BY <1>1, <1>3 DEF EngineTypes, NotBegun, ClosedFreesAll
<1>4. position \in Nodes(graph) \/ position = Len(graph.nodes) + 1 => position # 0 /\ freed = << >>
  BY <1>1, GraphFacts DEF EngineTypes
<1>5. CASE RunNode
  <2>1. position # 0 /\ freed = << >> /\ runs' = runs /\ freed' = freed
    BY <1>4, <1>5 DEF RunNode
  <2>2. ArenaOK(arena, graph)
    BY <1>1, <2>1 DEF EngineOK
  <2> QED
    BY <1>1, <1>3, <1>5, <2>1, <2>2, NodeTypes, NodeKeeps DEF EngineInv
<1>6. CASE OpRefused
  <2>1. position # 0 /\ runs' = runs /\ freed' = freed
    BY <1>4, <1>6 DEF OpRefused, Abandon
  <2> QED
    BY <1>1, <1>3, <1>6, <2>1, RefusedKeeps DEF EngineInv
<1>7. CASE NoMemory
  <2>1. position # 0 /\ runs' = runs /\ freed' = freed
    BY <1>4, <1>7 DEF NoMemory, Abandon
  <2> QED
    BY <1>1, <1>3, <1>7, <2>1, NoMemoryKeeps DEF EngineInv
<1>8. CASE FinishRun
  <2>1. position # 0 /\ freed = << >> /\ runs' = runs /\ freed' = freed
    BY <1>4, <1>8 DEF FinishRun
  <2>2. ArenaOK(arena, graph)
    BY <1>1, <2>1 DEF EngineOK
  <2> QED
    BY <1>1, <1>3, <1>8, <2>1, <2>2, FinishTypes, FinishKeeps DEF EngineInv
<1>9. CASE ReleaseResult
  <2>1. freed = << >> /\ runs' = runs /\ freed' = freed /\ results # << >>
    BY <1>9 DEF ReleaseResult
  <2>2. NotBegun' /\ ClosedFreesAll'
    BY <1>1, <2>1 DEF NotBegun, ClosedFreesAll
  <2> QED
    BY <1>1, <1>9, <2>2, ReleaseKeeps DEF EngineInv
<1>10. CASE CloseArena
  <2>1. runs' # 0
    BY <1>1, <1>10 DEF CloseArena
  <2>2. NotBegun'
    BY <2>1 DEF NotBegun
  <2> QED
    BY <1>1, <1>10, <2>2, CloseKeeps DEF EngineInv
<1> QED
  BY <1>2, <1>5, <1>6, <1>7, <1>8, <1>9, <1>10 DEF EngineNext

(* So does a step that leaves it alone. *)
LEMMA EngineStutters == ASSUME EngineInv, UNCHANGED engine PROVE EngineInv'
BY DEF EngineInv, EngineTypes, EngineOK, NotBegun, ClosedFreesAll, engine, ValuesOK, ResultsOK, KeptOK, LiveOK, Own, Lent,
       ResultOK, Handed, InPlace, Kept, InUse

(* The engine is sound at every step, for every set of verified graphs and
   any number of calls (engine/executor.py, engine/memory.py). *)
THEOREM EngineInvariant == EngineSpec => []EngineInv
<1>1. EngineInit => EngineInv
  BY EngineStarts
<1>2. EngineInv /\ [EngineNext]_engine => EngineInv'
  BY EngineStep, EngineStutters
<1> QED
  BY <1>1, <1>2, PTL DEF EngineSpec

(* Each node finds its values, and they are what was written. *)
LEMMA EngineIntact == ASSUME EngineInv PROVE ValuesIntact
<1>1. EngineTypes /\ EngineOK
  BY DEF EngineInv
<1>2. graph \in Graphs /\ Len(graph.nodes) \in Nat /\ Nodes(graph) = 1 .. Len(graph.nodes) /\ position \in 0 .. Len(graph.nodes) + 1
  BY <1>1, GraphFacts DEF EngineTypes
<1>3. ASSUME position \in Nodes(graph), NEW v \in Args(graph, position) PROVE v \in DOMAIN values
  <2>1. v \in DOMAIN graph.size
    <3> DEFINE s == graph.nodes[position].args
    <3>1. s \in Seq(DOMAIN graph.size) /\ v \in Range(s)
      BY <1>2, <1>3, GraphFacts DEF Args
    <3> HIDE DEF s
    <3> QED
      BY <3>1, NamesAre
  <2>2. Born(graph, v) < position /\ position <= Dies(graph, v) /\ Dies(graph, v) \in 0 .. Len(graph.nodes)
    BY <1>2, <1>3, <2>1, BornIs
  <2>3. v \in HeldBy(graph, position)
    BY <1>2, <1>3, <2>1, <2>2 DEF HeldBy
  <2> QED
    BY <1>1, <1>2, <1>3, <2>3 DEF EngineTypes
<1>4. ASSUME position > Len(graph.nodes), NEW v \in Range(graph.outputs) PROVE v \in DOMAIN values
  BY <1>1, <1>2, <1>4, OutputsHeld
<1>5. ASSUME freed = << >>, NEW t \in InUse PROVE InPlace(t)
  <2>1. ArenaOK(arena, graph) /\ ValuesOK /\ ResultsOK /\ KeptOK /\ t.at # 0
    BY <1>1, <1>5 DEF EngineOK, InUse
  <2>2. CASE t \in Kept
    BY <2>1, <2>2 DEF KeptOK
  <2>3. CASE t \notin Kept
    <3>1. PICK v \in DOMAIN values : values[v] = t
      BY <1>5, <2>3 DEF InUse, Range
    <3>2. position # 0
      BY <1>1, <3>1 DEF EngineTypes
    <3> QED
      BY <1>1, <2>1, <2>3, <3>1, <3>2, OwnIsMade
  <2> QED
    BY <2>2, <2>3
<1> QED
  BY <1>3, <1>4, <1>5 DEF ValuesIntact, InPlace

(* Of a sound engine, each buffer has one owner and the count of bytes is true. *)
LEMMA EngineOwned == ASSUME EngineInv PROVE BuffersOwnedOnce
<1> SUFFICES ASSUME freed = << >>
    PROVE
    /\ \A b \in DOMAIN arena.sizes : Times(b) = 1
    /\ \A n \in DOMAIN arena.free : \A b \in Range(arena.free[n]) : arena.sizes[b] = n
    /\ arena.held = MapThenSumSet(LAMBDA b : arena.sizes[b], arena.live)
    /\ \A t, u \in InUse : t.at = u.at => t.means = u.means
    /\ arena.live \ stranded = {t.at : t \in InUse}
  BY DEF BuffersOwnedOnce
<1>1. EngineTypes /\ ArenaOK(arena, graph) /\ ValuesOK /\ ResultsOK /\ KeptOK /\ LiveOK
  BY DEF EngineInv, EngineOK
<1>2. \A b \in DOMAIN arena.sizes : Times(b) = 1
  BY <1>1, TimesOne
<1>3. \A n \in DOMAIN arena.free : \A b \in Range(arena.free[n]) : arena.sizes[b] = n
  BY <1>1 DEF ArenaOK, Waits, Range
<1>4. arena.held = MapThenSumSet(LAMBDA b : arena.sizes[b], arena.live)
  BY <1>1 DEF ArenaOK, SumOf
<1>5. ASSUME NEW t \in InUse PROVE InPlace(t)
  <2>1. t.at # 0
    BY DEF InUse
  <2>2. CASE t \in Kept
    BY <1>1, <2>1, <2>2 DEF KeptOK
  <2>3. CASE t \notin Kept
    <3>1. PICK v \in DOMAIN values : values[v] = t
      BY <2>3 DEF InUse, Range
    <3>2. position # 0
      BY <1>1, <3>1 DEF EngineTypes
    <3> QED
      BY <1>1, <2>1, <2>3, <3>1, <3>2, OwnIsMade
  <2> QED
    BY <2>2, <2>3
<1>6. \A t, u \in InUse : t.at = u.at => t.means = u.means
  BY <1>5 DEF InPlace
<1>7. arena.live \ stranded = {t.at : t \in InUse}
  BY <1>1, <1>5 DEF LiveOK, InPlace
<1> QED
  BY <1>2, <1>3, <1>4, <1>6, <1>7

-----------------------------------------------------------------------------
(* The plan of memory: the first run does what plan_memory did.            *)

PlanStart(g) == [arena |-> NewArena(g), held |-> << >>]

Plans(g, n, f) == f = [i \in 0 .. n |-> IF i = 0 THEN PlanStart(g) ELSE PlanNode(g, f[i - 1], i)]

(* plan_memory's loop is a function of the node. *)
LEMMA PlansExists ==
  ASSUME NEW g, NEW n \in Nat
  PROVE  \E f : Plans(g, n, f)
<1> DEFINE P == {m \in Nat : \E f : Plans(g, m, f)}
<1>1. 0 \in P
  <2> DEFINE h == [k \in 0 .. 0 |-> PlanStart(g)]
  <2>1. h = [k \in 0 .. 0 |-> IF k = 0 THEN PlanStart(g) ELSE PlanNode(g, h[k - 1], k)]
    OBVIOUS
  <2> HIDE DEF h
  <2>2. Plans(g, 0, h)
    BY <2>1 DEF Plans
  <2> QED
    BY <2>2
<1>2. ASSUME NEW m \in 0 .. n - 1, m \in P PROVE m + 1 \in P
  <2>1. PICK f : Plans(g, m, f)
    BY <1>2
  <2> DEFINE h == [k \in 0 .. m + 1 |-> IF k = m + 1 THEN PlanNode(g, f[m], m + 1) ELSE f[k]]
  <2>2. ASSUME NEW k \in 0 .. m + 1
        PROVE  h[k] = IF k = 0 THEN PlanStart(g) ELSE PlanNode(g, h[k - 1], k)
    <3>1. CASE k = m + 1
      <4>1. h[m + 1] = PlanNode(g, f[m], m + 1) /\ h[m] = f[m] /\ (m + 1) - 1 = m /\ m + 1 # 0
        OBVIOUS
      <4> HIDE DEF h
      <4> QED
        BY <3>1, <4>1
    <3>2. CASE k # m + 1
      <4>1. k \in 0 .. m /\ (k # 0 => k - 1 \in 0 .. m)
        BY <3>2
      <4>2. f[k] = IF k = 0 THEN PlanStart(g) ELSE PlanNode(g, f[k - 1], k)
        BY <2>1, <4>1, Zenon DEF Plans
      <4>3. h[k] = f[k] /\ (k # 0 => h[k - 1] = f[k - 1])
        BY <3>2, <4>1
      <4> HIDE DEF h
      <4> QED
        BY <4>2, <4>3
    <3> QED
      BY <3>1, <3>2
  <2>3. h = [k \in 0 .. m + 1 |-> IF k = 0 THEN PlanStart(g) ELSE PlanNode(g, h[k - 1], k)]
    <3>1. h = [k \in 0 .. m + 1 |-> h[k]]
      OBVIOUS
    <3> HIDE DEF h
    <3> QED
      BY <2>2, <3>1
  <2> HIDE DEF h
  <2>4. Plans(g, m + 1, h)
    BY <2>3 DEF Plans
  <2> QED
    BY <2>4
<1>3. Climbs(P, n)
  BY <1>1, <1>2 DEF Climbs
<1>4. n \in 0 .. n
  OBVIOUS
<1> HIDE DEF P
<1>5. n \in P
  BY <1>3, <1>4, Climbed
<1> QED
  BY <1>5 DEF P

Plan(g) == CHOOSE f : Plans(g, Len(g.nodes), f)

(* The plan of each node, from the plan before it; the cost is the last one's. *)
LEMMA PlanIs ==
  ASSUME NEW g, Len(g.nodes) \in Nat
  PROVE  /\ Plan(g)[0] = PlanStart(g)
         /\ \A i \in 1 .. Len(g.nodes) : Plan(g)[i] = PlanNode(g, Plan(g)[i - 1], i)
         /\ PlanMemory(g) = Cost(Plan(g)[Len(g.nodes)].arena)
<1> DEFINE n == Len(g.nodes)
           f == Plan(g)
<1>1. Plans(g, n, f)
  BY PlansExists DEF Plan
<1>2. PlanMemory(g) = Cost(f[n].arena)
  BY DEF PlanMemory, Plan, Plans, PlanStart
<1> HIDE DEF f
<1>3. ASSUME NEW i \in 0 .. n PROVE f[i] = IF i = 0 THEN PlanStart(g) ELSE PlanNode(g, f[i - 1], i)
  BY <1>1, Zenon DEF Plans
<1>4. f[0] = PlanStart(g)
  BY <1>3
<1>5. ASSUME NEW i \in 1 .. n PROVE f[i] = PlanNode(g, f[i - 1], i)
  <2>1. i \in 0 .. n /\ i # 0
    OBVIOUS
  <2> QED
    BY <1>3, <2>1
<1> QED
  BY <1>2, <1>4, <1>5 DEF f

(* An eviction looks only at where the dead are. *)
LEMMA EvictSame ==
  ASSUME NEW a, NEW g, NEW at, NEW more, NEW dead, \A v \in dead : at[v] = more[v]
  PROVE  Evict(a, g, at, dead) = Evict(a, g, more, dead)
<1>1. [k \in DOMAIN Env(g) |-> IF Env(g)[k] \in dead THEN at[Env(g)[k]] ELSE 0]
      = [k \in DOMAIN Env(g) |-> IF Env(g)[k] \in dead THEN more[Env(g)[k]] ELSE 0]
  OBVIOUS
<1> QED
  BY <1>1 DEF Evict

(* What the plan of a node is in: the run's arena, and where its values are. *)
SameAs(p, a, vals) ==
  /\ p.arena = a /\ DOMAIN p.held = {v \in DOMAIN vals : Born(graph, v) # 0}
  /\ \A v \in DOMAIN p.held : p.held[v] = vals[v].at

Follows == runs = 1 /\ position # 0 => SameAs(Plan(graph)[position - 1], arena, values)

FirstCost == results # << >> /\ results[1].run = 1 => results[1].cost = PlanMemory(graph)

PlanInv == Follows /\ FirstCost

(* A node of the first run does to its arena what the node of the plan does. *)
LEMMA NodeFollows ==
  ASSUME EngineTypes, EngineOK, RunNode, Follows
  PROVE  Follows'
<1>1. /\ position \in Nodes(graph) /\ position' = position + 1
      /\ arena' = Evict(NodeGot.arena, graph, [v \in NodeDead |-> NodeHeld[v].at], NodeDead)
      /\ values' = [v \in DOMAIN NodeHeld \ NodeDead |-> NodeHeld[v]]
      /\ graph' = graph /\ runs' = runs
  BY NodeStep
<1>2. /\ graph \in Graphs /\ Len(graph.nodes) \in Nat /\ Nodes(graph) = 1 .. Len(graph.nodes)
      /\ position \in 1 .. Len(graph.nodes) /\ position # 0 /\ freed = << >>
  BY <1>1, GraphFacts DEF EngineTypes
<1>3. ArenaOK(arena, graph)
  BY <1>2 DEF EngineOK
<1> SUFFICES ASSUME runs = 1 PROVE SameAs(Plan(graph)[position], arena', values')
  <2>1. position' - 1 = position
    BY <1>1, <1>2
  <2>2. Plan(graph')[position' - 1] = Plan(graph)[position]
    BY <1>1, <2>1
  <2> DEFINE p == Plan(graph)[position]
  <2>3. Follows' <=> (runs = 1 /\ position' # 0 => /\ p.arena = arena' /\ DOMAIN p.held = {v \in DOMAIN values' : Born(graph, v) # 0}
                                                  /\ \A v \in DOMAIN p.held : p.held[v] = values'[v].at)
    BY <1>1, <2>2 DEF Follows, SameAs
  <2> QED
    BY <2>3 DEF SameAs
<1> DEFINE p == Plan(graph)[position - 1]
           next == Plan(graph)[position]
           outs == NodeOuts
           places == [v \in DOMAIN p.held \cup Range(outs) |->
                      IF v \in Range(outs) THEN NodeAt(v) ELSE p.held[v]]
           dead == {v \in DOMAIN places : v \notin Range(graph.outputs) /\ Born(graph, v) > 0 /\ Dies(graph, v) <= position}
<1>4. SameAs(p, arena, values)
  BY <1>2 DEF Follows
<1>5. next = PlanNode(graph, p, position)
  BY <1>2, PlanIs
<1>6. next = [arena |-> Evict(NodeGot.arena, graph, places, dead), held |-> [v \in DOMAIN places \ dead |-> places[v]]]
  <2>1. p.arena = arena
    BY <1>4 DEF SameAs
  <2> HIDE DEF p
  <2> QED
    BY <1>5, <2>1 DEF PlanNode, NodeGot, NodeOuts, NodeAt
<1> HIDE DEF p, next
<1>7. ASSUME NEW v \in DOMAIN graph.size
      PROVE  Born(graph, v) \in Nat /\ Dies(graph, v) \in Nat /\ Born(graph, v) <= Dies(graph, v)
  BY <1>2, BornIs
<1>8. /\ DOMAIN values = HeldBy(graph, position) /\ Range(outs) = Outs(graph, position)
      /\ DOMAIN NodeHeld = DOMAIN values \cup Outs(graph, position)
      /\ DOMAIN NodeHeld \subseteq DOMAIN graph.size
      /\ NodeDead = {v \in DOMAIN NodeHeld : Born(graph, v) > 0 /\ Dies(graph, v) = position /\ v \notin Range(graph.outputs)}
  BY <1>1, <1>3, NodeHeldOK, NodeGotOK
<1>9. /\ \A v \in Outs(graph, position) : NodeHeld[v] = Tensor(NodeAt(v), <<runs, v>>) /\ Born(graph, v) = position
      /\ \A v \in DOMAIN values : v \notin Outs(graph, position) /\ NodeHeld[v] = values[v]
  BY <1>1, <1>3, NodeHeldOK
<1>10. DOMAIN places = {v \in DOMAIN NodeHeld : Born(graph, v) # 0}
  <2>1. DOMAIN places = DOMAIN p.held \cup Outs(graph, position)
    BY <1>8
  <2> HIDE DEF places
  <2>2. DOMAIN p.held = {v \in DOMAIN values : Born(graph, v) # 0}
    BY <1>4 DEF SameAs
  <2>3. \A v \in Outs(graph, position) : Born(graph, v) # 0
    BY <1>2, <1>9
  <2> QED
    BY <1>8, <2>1, <2>2, <2>3
<1>11. ASSUME NEW v \in DOMAIN places PROVE places[v] = NodeHeld[v].at
  <2>1. CASE v \in Outs(graph, position)
    BY <1>8, <1>9, <2>1 DEF Tensor
  <2>2. CASE v \notin Outs(graph, position)
    <3>1. v \in DOMAIN p.held /\ places[v] = p.held[v]
      BY <1>8, <2>2
    <3>2. v \in DOMAIN values /\ p.held[v] = values[v].at
      BY <1>4, <3>1 DEF SameAs
    <3> QED
      BY <1>9, <3>1, <3>2
  <2> QED
    BY <2>1, <2>2
<1> HIDE DEF places
<1>12. dead = NodeDead
  <2>1. ASSUME NEW v \in DOMAIN NodeHeld PROVE v \in dead <=> v \in NodeDead
    <3>1. v \in DOMAIN graph.size /\ Born(graph, v) \in Nat /\ Dies(graph, v) \in Nat /\ Born(graph, v) <= Dies(graph, v)
      BY <1>7, <1>8
    <3>2. v \notin Range(graph.outputs) /\ Born(graph, v) > 0 => Dies(graph, v) >= position
      <4>1. CASE v \in Outs(graph, position)
        BY <1>2, <1>9, <3>1, <4>1
      <4>2. CASE v \notin Outs(graph, position)
        <5>1. v \in HeldBy(graph, position)
          BY <1>8, <4>2
        <5> QED
          BY <3>1, <5>1 DEF HeldBy
      <4> QED
        BY <4>1, <4>2
    <3>3. v \in dead <=> Born(graph, v) # 0 /\ v \notin Range(graph.outputs) /\ Born(graph, v) > 0 /\ Dies(graph, v) <= position
      BY <1>10
    <3>4. v \in NodeDead <=> Born(graph, v) > 0 /\ Dies(graph, v) = position /\ v \notin Range(graph.outputs)
      BY <1>8
    <3> HIDE DEF dead
    <3> QED
      BY <1>2, <3>1, <3>2, <3>3, <3>4
  <2>2. dead \subseteq DOMAIN NodeHeld /\ NodeDead \subseteq DOMAIN NodeHeld
    BY <1>8, <1>10
  <2> HIDE DEF dead
  <2> QED
    BY <2>1, <2>2
<1> DEFINE at == [v \in NodeDead |-> NodeHeld[v].at]
<1>13. next.arena = arena'
  <2>1. ASSUME NEW v \in NodeDead PROVE places[v] = at[v]
    <3>1. v \in DOMAIN places
      BY <1>12
    <3> QED
      BY <1>11, <3>1
  <2> HIDE DEF at, dead
  <2>2. Evict(NodeGot.arena, graph, places, NodeDead) = Evict(NodeGot.arena, graph, at, NodeDead)
    BY <2>1, EvictSame
  <2>3. next.arena = Evict(NodeGot.arena, graph, places, NodeDead)
    BY <1>6, <1>12
  <2> QED
    BY <1>1, <2>2, <2>3 DEF at
<1> HIDE DEF dead
<1>14. next.held = [v \in DOMAIN places \ NodeDead |-> places[v]]
  BY <1>6, <1>12
<1>15. DOMAIN next.held = {v \in DOMAIN values' : Born(graph, v) # 0}
  BY <1>1, <1>10, <1>14
<1>16. ASSUME NEW v \in DOMAIN next.held PROVE next.held[v] = values'[v].at
  BY <1>1, <1>11, <1>14, <1>15
<1> QED
  BY <1>13, <1>15, <1>16 DEF SameAs, next

(* The first run follows the plan, and its cost is the plan's. *)
LEMMA PlanFollowed ==
  ASSUME EngineInv, PlanInv, EngineNext
  PROVE  PlanInv'
<1>1. EngineTypes /\ EngineOK /\ NotBegun /\ Follows /\ FirstCost
  BY DEF EngineInv, PlanInv
<1>2. /\ graph \in Graphs /\ Len(graph.nodes) \in Nat /\ Nodes(graph) = 1 .. Len(graph.nodes) /\ runs \in Nat
      /\ Len(results) \in Nat /\ DOMAIN results = 1 .. Len(results)
  BY <1>1, GraphFacts, CallsAre DEF EngineTypes
<1>3. CASE BeginRun
  <2>1. position' = 1 /\ runs' = runs + 1 /\ graph' = graph /\ arena' = arena /\ results' = results
    BY <1>3 DEF BeginRun
  <2>2. ASSUME runs = 0 PROVE SameAs(Plan(graph)[0], arena, values')
    <3>1. arena = NewArena(graph) /\ Plan(graph)[0] = PlanStart(graph)
      BY <1>1, <1>2, <2>2, PlanIs DEF NotBegun
    <3>2. DOMAIN values' = Range(graph.inputs)
      BY <1>1, <1>3, BeginTypes
    <3>3. ASSUME NEW v \in Range(graph.inputs) PROVE Born(graph, v) = 0
      <4>1. v \in DOMAIN graph.size
        <5> DEFINE s == graph.inputs
        <5>1. s \in Seq(DOMAIN graph.size)
          BY <1>2, GraphFacts
        <5> HIDE DEF s
        <5>2. Range(s) \subseteq DOMAIN graph.size
          BY <5>1, NamesAre
        <5> QED
          BY <5>2 DEF s
      <4> QED
        BY <1>2, <4>1, BornIs
    <3>4. DOMAIN PlanStart(graph).held = {} /\ PlanStart(graph).arena = NewArena(graph)
      BY DEF PlanStart
    <3> QED
      BY <3>1, <3>2, <3>3, <3>4 DEF SameAs
  <2>3. Follows'
    <3>1. ASSUME runs' = 1 PROVE SameAs(Plan(graph)[0], arena', values')
      BY <1>2, <2>1, <2>2, <3>1
    <3> QED
      BY <2>1, <3>1 DEF Follows, SameAs
  <2>4. FirstCost'
    BY <1>1, <2>1 DEF FirstCost
  <2> QED
    BY <2>3, <2>4 DEF PlanInv
<1>4. CASE RunNode
  <2>1. results' = results /\ graph' = graph
    BY <1>4, NodeStep
  <2> QED
    BY <1>1, <1>4, <2>1, NodeFollows DEF PlanInv, FirstCost
<1>5. CASE OpRefused \/ NoMemory
  <2>1. position' = 0 /\ results' = results /\ graph' = graph
    BY <1>5 DEF OpRefused, NoMemory, Abandon
  <2> QED
    BY <1>1, <2>1 DEF PlanInv, Follows, FirstCost
<1>6. CASE FinishRun
  <2>1. /\ position = Len(graph.nodes) + 1 /\ position' = 0 /\ graph' = graph
        /\ position # 0 /\ position - 1 = Len(graph.nodes)
    BY <1>2, <1>6, FinishStep
  <2>2. ArenaOK(arena, graph)
    BY <1>1, <2>1 DEF EngineOK, EngineTypes
  <2>3. /\ DOMAIN results' = DOMAIN results \cup {Len(results) + 1}
        /\ results'[Len(results) + 1] = FinishedCall /\ \A r \in DOMAIN results : results'[r] = results[r]
    BY <1>1, <1>6, <2>2, FinishTypes
  <2>4. FirstCost'
    <3>1. CASE results = << >>
      <4>1. results'[1] = FinishedCall
        BY <2>3, <3>1
      <4>2. FinishedCall.run = runs /\ FinishedCall.cost = Cost(arena)
        BY DEF FinishedCall
      <4>3. ASSUME runs = 1 PROVE Cost(arena) = PlanMemory(graph)
        <5>1. arena = Plan(graph)[Len(graph.nodes)].arena
          BY <1>1, <2>1, <4>3 DEF Follows, SameAs
        <5> QED
          BY <1>2, <5>1, PlanIs
      <4> QED
        BY <2>1, <4>1, <4>2, <4>3 DEF FirstCost
    <3>2. CASE results # << >>
      <4>1. 1 \in DOMAIN results
        <5> DEFINE S == Calls(graph)
        <5>1. results \in Seq(S)
          BY <1>1 DEF EngineTypes
        <5> HIDE DEF S
        <5> QED
          BY <3>2, <5>1
      <4>2. results'[1] = results[1]
        BY <2>3, <4>1
      <4> QED
        BY <1>1, <2>1, <3>2, <4>2 DEF FirstCost
    <3> QED
      BY <3>1, <3>2
  <2> QED
    BY <2>1, <2>4 DEF PlanInv, Follows
<1>7. CASE ReleaseResult
  <2>1. position = 0 /\ position' = position /\ graph' = graph
    BY <1>7 DEF ReleaseResult
  <2>2. PICK r \in DOMAIN results : results' = [results EXCEPT ![r].kept = FALSE]
    BY <1>7 DEF ReleaseResult
  <2>3. results # << >> /\ 1 \in DOMAIN results /\ results'[1].run = results[1].run /\ results'[1].cost = results[1].cost
    <3>1. 1 \in DOMAIN results /\ results # << >>
      BY <1>2
    <3>2. results[1] \in Calls(graph)
      BY <1>1, <3>1, CallsAre
    <3> QED
      BY <2>2, <3>1, <3>2 DEF Calls
  <2> QED
    BY <1>1, <2>1, <2>3 DEF PlanInv, Follows, FirstCost
<1>8. CASE CloseArena
  <2>1. position' = 0 /\ results' = results /\ graph' = graph
    BY <1>8 DEF CloseArena
  <2> QED
    BY <1>1, <2>1 DEF PlanInv, Follows, FirstCost
<1> QED
  BY <1>3, <1>4, <1>5, <1>6, <1>7, <1>8 DEF EngineNext

(* So it does when nothing of the engine changes. *)
LEMMA PlanStutters == ASSUME PlanInv, UNCHANGED engine PROVE PlanInv'
BY DEF PlanInv, Follows, FirstCost, SameAs, engine

-----------------------------------------------------------------------------
(* The plan of regions.                                                    *)

Size(r) == r.last - r.first + 1
Full(g, r) == g.most > 0 /\ Size(r) = g.most

Regions(g) ==
  [first : Nat, last : Nat, captured : BOOLEAN, inputs : SUBSET DOMAIN g.size, outputs : SUBSET DOMAIN g.size]

(* A region of the plan: nodes of the graph, and only such as its kind takes. *)
Fits(g, r) ==
  /\ r = Region(g, r.first, r.last, r.captured)
  /\ r.first \in Nodes(g) /\ r.last \in Nodes(g) /\ r.first <= r.last
  /\ r.captured => /\ \A i \in r.first .. r.last : g.nodes[i].op \in g.captures
                   /\ g.most > 0 => Size(r) <= g.most
  /\ ~r.captured => g.nodes[r.first].op \notin g.captures

(* The nodes before next, cut into regions in order. *)
Cut(g, regions, next) ==
  /\ regions \in Seq(Regions(g)) /\ \A k \in DOMAIN regions : Fits(g, regions[k]) /\ regions[k].last < next
  /\ \A k \in DOMAIN regions : regions[k].first = IF k = 1 THEN 1 ELSE regions[k - 1].last + 1
  /\ next = IF regions = << >> THEN 1 ELSE regions[Len(regions)].last + 1
  /\ \A j, k \in DOMAIN regions : j < k => regions[j].last < regions[k].first
  /\ \A x \in 1 .. next - 1 : \E k \in DOMAIN regions : x \in regions[k].first .. regions[k].last
  /\ \A k \in DOMAIN regions : k > 1 /\ regions[k].captured /\ regions[k - 1].captured => Full(g, regions[k - 1])

(* A region's fields. *)
LEMMA RegionIs ==
  ASSUME NEW g \in Graphs, NEW a \in Nodes(g), NEW b \in Nodes(g), NEW c \in BOOLEAN
  PROVE  /\ Region(g, a, b, c) \in Regions(g)
         /\ Region(g, a, b, c).first = a /\ Region(g, a, b, c).last = b /\ Region(g, a, b, c).captured = c
         /\ Region(g, a, b, c).inputs = (UNION {Args(g, i) : i \in a .. b}) \ UNION {Outs(g, i) : i \in a .. b}
         /\ Region(g, a, b, c).outputs = (UNION {Outs(g, i) : i \in a .. b})
               \cap (Range(g.outputs) \cup UNION {Args(g, i) : i \in b + 1 .. Len(g.nodes)})
<1> DEFINE V == DOMAIN g.size
           r == Region(g, a, b, c)
           ins == (UNION {Args(g, i) : i \in a .. b}) \ UNION {Outs(g, i) : i \in a .. b}
           outs == (UNION {Outs(g, i) : i \in a .. b})
               \cap (Range(g.outputs) \cup UNION {Args(g, i) : i \in b + 1 .. Len(g.nodes)})
<1>1. a .. b \subseteq Nodes(g) /\ a \in Nat /\ b \in Nat
  BY GraphFacts
<1>2. ASSUME NEW i \in Nodes(g) PROVE Args(g, i) \subseteq V /\ Outs(g, i) \subseteq V
  <2> DEFINE s == g.nodes[i].args
             t == g.nodes[i].outs
  <2>1. s \in Seq(V) /\ t \in Seq(V)
    BY GraphFacts
  <2> HIDE DEF s, t, V
  <2>2. Range(s) \subseteq V /\ Range(t) \subseteq V
    BY <2>1, NamesAre
  <2> QED
    BY <2>2 DEF Args, Outs, s, t
<1>3. ins \subseteq V /\ outs \subseteq V
  BY <1>1, <1>2
<1>4. r = [first |-> a, last |-> b, captured |-> c, inputs |-> ins, outputs |-> outs]
  BY DEF Region
<1> HIDE DEF r, ins, outs
<1>5. r.first = a /\ r.last = b /\ r.captured = c /\ r.inputs = ins /\ r.outputs = outs
  BY <1>4
<1>6. r \in Regions(g)
  BY <1>1, <1>3, <1>4 DEF Regions
<1> QED
  BY <1>5, <1>6 DEF r, ins, outs

(* What a cut says of its regions. *)
LEMMA CutFacts ==
  ASSUME NEW g, NEW regions, NEW next, Cut(g, regions, next)
  PROVE  /\ Len(regions) \in Nat /\ DOMAIN regions = 1 .. Len(regions)
         /\ \A k \in DOMAIN regions : regions[k] \in Regions(g) /\ regions[k].first \in Nat /\ regions[k].last \in Nat
         /\ regions # << >> => Len(regions) \in DOMAIN regions
<1> DEFINE S == Regions(g)
<1>1. regions \in Seq(S)
  BY DEF Cut
<1> HIDE DEF S
<1>2. Len(regions) \in Nat /\ DOMAIN regions = 1 .. Len(regions) /\ \A k \in DOMAIN regions : regions[k] \in S
  BY <1>1
<1>3. regions # << >> => Len(regions) \in DOMAIN regions
  BY <1>1
<1> QED
  BY <1>2, <1>3 DEF S, Regions

(* A region that begins where the last one ended extends the cut. *)
LEMMA CutMore ==
  ASSUME NEW g \in Graphs, NEW regions, NEW next \in Nodes(g), Cut(g, regions, next),
         NEW b \in Nodes(g), next <= b, NEW c \in BOOLEAN,
         Fits(g, Region(g, next, b, c)),
         c /\ regions # << >> /\ regions[Len(regions)].captured => Full(g, regions[Len(regions)])
  PROVE  Cut(g, Append(regions, Region(g, next, b, c)), b + 1)
<1> DEFINE r == Region(g, next, b, c)
           n == Len(regions)
           more == Append(regions, r)
           S == Regions(g)
<1>1. /\ n \in Nat /\ DOMAIN regions = 1 .. n /\ regions # << >> => n \in DOMAIN regions
      /\ \A k \in DOMAIN regions : regions[k].first \in Nat /\ regions[k].last \in Nat
  BY CutFacts
<1>2. r \in S /\ r.first = next /\ r.last = b /\ r.captured = c /\ Fits(g, r)
  BY RegionIs
<1>3. regions \in Seq(S) /\ next \in Nat /\ b \in Nat
  BY GraphFacts DEF Cut
<1> HIDE DEF r, S
<1>4. /\ more \in Seq(S) /\ Len(more) = n + 1 /\ DOMAIN more = 1 .. n + 1 /\ more[n + 1] = r
      /\ \A k \in 1 .. n : more[k] = regions[k]
      /\ \A k \in 1 .. n + 1 : k \in 1 .. n \/ k = n + 1
      /\ more # << >> /\ (regions = << >> <=> n = 0)
  BY <1>1, <1>2, <1>3
<1> HIDE DEF more
<1>5. \A k \in 1 .. n : Fits(g, regions[k]) /\ regions[k].last < next
  BY <1>1 DEF Cut
<1>6. ASSUME NEW k \in DOMAIN more PROVE Fits(g, more[k]) /\ more[k].last < b + 1
  <2>1. CASE k = n + 1
    BY <1>2, <1>3, <1>4, <2>1
  <2>2. CASE k # n + 1
    <3>1. k \in 1 .. n /\ more[k] = regions[k] /\ regions[k].last \in Nat
      BY <1>1, <1>4, <2>2
    <3>2. regions[k].last < b + 1
      BY <1>3, <1>5, <3>1
    <3> QED
      BY <1>5, <3>1, <3>2
  <2> QED
    BY <2>1, <2>2
<1>7. ASSUME NEW k \in DOMAIN more PROVE more[k].first = IF k = 1 THEN 1 ELSE more[k - 1].last + 1
  <2>1. CASE k = n + 1
    <3>1. next = IF n = 0 THEN 1 ELSE regions[n].last + 1
      BY <1>4 DEF Cut
    <3>2. n # 0 => n \in 1 .. n /\ more[n] = regions[n] /\ (n + 1) - 1 = n /\ n + 1 # 1
      BY <1>1, <1>4
    <3> QED
      BY <1>2, <1>4, <2>1, <3>1, <3>2
  <2>2. CASE k # n + 1
    <3>1. k \in 1 .. n /\ more[k] = regions[k] /\ (k # 1 => k - 1 \in 1 .. n /\ more[k - 1] = regions[k - 1])
      BY <1>1, <1>4, <2>2
    <3>2. regions[k].first = IF k = 1 THEN 1 ELSE regions[k - 1].last + 1
      BY <1>1, <3>1 DEF Cut
    <3> QED
      BY <3>1, <3>2
  <2> QED
    BY <2>1, <2>2
<1>8. ASSUME NEW j \in DOMAIN more, NEW k \in DOMAIN more, j < k PROVE more[j].last < more[k].first
  <2>1. j \in 1 .. n /\ more[j] = regions[j]
    BY <1>1, <1>4, <1>8
  <2>2. CASE k = n + 1
    BY <1>2, <1>4, <1>5, <2>1, <2>2
  <2>3. CASE k # n + 1
    <3>1. k \in 1 .. n /\ more[k] = regions[k]
      BY <1>4, <2>3
    <3> QED
      BY <1>1, <1>8, <2>1, <3>1 DEF Cut
  <2> QED
    BY <2>2, <2>3
<1>9. ASSUME NEW x \in 1 .. (b + 1) - 1 PROVE \E k \in DOMAIN more : x \in more[k].first .. more[k].last
  <2>1. CASE x < next
    <3>1. x \in 1 .. next - 1
      BY <1>3, <2>1
    <3>2. PICK k \in DOMAIN regions : x \in regions[k].first .. regions[k].last
      BY <3>1 DEF Cut
    <3>3. k \in DOMAIN more /\ more[k] = regions[k]
      BY <1>1, <1>4
    <3> QED
      BY <3>2, <3>3
  <2>2. CASE ~(x < next)
    <3>1. x \in next .. b
      BY <1>3, <2>2
    <3>2. n + 1 \in DOMAIN more
      BY <1>1, <1>4
    <3> QED
      BY <1>2, <1>4, <3>1, <3>2
  <2> QED
    BY <2>1, <2>2
<1>10. ASSUME NEW k \in DOMAIN more, k > 1, more[k].captured, more[k - 1].captured PROVE Full(g, more[k - 1])
  <2>1. k - 1 \in 1 .. n /\ more[k - 1] = regions[k - 1]
    BY <1>1, <1>4, <1>10
  <2>2. CASE k = n + 1
    <3>1. c /\ regions # << >> /\ k - 1 = n
      BY <1>1, <1>2, <1>4, <1>10, <2>1, <2>2
    <3> QED
      BY <1>10, <2>1, <3>1
  <2>3. CASE k # n + 1
    <3>1. k \in 1 .. n /\ more[k] = regions[k]
      BY <1>4, <2>3
    <3> QED
      BY <1>1, <1>10, <2>1, <3>1 DEF Cut
  <2> QED
    BY <2>2, <2>3
<1>11. b + 1 = IF more = << >> THEN 1 ELSE more[Len(more)].last + 1
  BY <1>2, <1>4
<1>12. Cut(g, more, b + 1)
  BY <1>4, <1>6, <1>7, <1>8, <1>9, <1>10, <1>11 DEF Cut, S
<1> QED
  BY <1>12 DEF more, r

(* The plan after i nodes: those before first are cut, the rest fit together. *)
Open(g, p, i) ==
  /\ Cut(g, p.regions, p.first) /\ p.first \in 1 .. i + 1
  /\ \A x \in p.first .. i : g.nodes[x].op \in g.captures
  /\ g.most > 0 => (i + 1) - p.first <= g.most
  /\ p.regions # << >> /\ p.regions[Len(p.regions)].captured => Full(g, p.regions[Len(p.regions)])

(* A region begins and ends where it is asked to. *)
LEMMA RegionEnds ==
  ASSUME NEW g \in Graphs, NEW a \in Nodes(g), NEW b \in Nodes(g)
  PROVE  /\ Region(g, a, b, TRUE).first = a /\ Region(g, a, b, TRUE).last = b /\ Region(g, a, b, TRUE).captured = TRUE
         /\ Region(g, a, b, FALSE).first = a /\ Region(g, a, b, FALSE).last = b
         /\ Region(g, a, b, FALSE).captured = FALSE
<1>1. ASSUME NEW c \in BOOLEAN
      PROVE  Region(g, a, b, c).first = a /\ Region(g, a, b, c).last = b /\ Region(g, a, b, c).captured = c
  BY RegionIs
<1> QED
  BY <1>1, Zenon

(* Flushing closes the open region, and the cut reaches the node. *)
LEMMA FlushOK ==
  ASSUME NEW g \in Graphs, NEW i \in 1 .. Len(g.nodes) + 1, NEW p, Open(g, p, i - 1)
  PROVE  /\ Cut(g, Flush(g, p, i), i)
         /\ p.first # i => /\ Len(Flush(g, p, i)) # 0
                           /\ Flush(g, p, i)[Len(Flush(g, p, i))] = Region(g, p.first, i - 1, TRUE)
<1> DEFINE n == Len(g.nodes)
           r == Region(g, p.first, i - 1, TRUE)
<1>1. n \in Nat /\ Nodes(g) = 1 .. n /\ i \in 1 .. n + 1 /\ g.most \in Nat
  BY GraphFacts DEF Verified, WellFormed
<1>2. Cut(g, p.regions, p.first) /\ p.first \in 1 .. (i - 1) + 1
  BY DEF Open
<1>3. CASE p.first = i
  BY <1>2, <1>3 DEF Flush
<1>4. CASE p.first # i
  <2>1. p.first \in Nodes(g) /\ i - 1 \in Nodes(g) /\ p.first <= i - 1 /\ (i - 1) + 1 = i
    BY <1>1, <1>2, <1>4
  <2>2. r.first = p.first /\ r.last = i - 1 /\ r.captured = TRUE
    BY <2>1, RegionEnds, Zenon
  <2>3. \A x \in p.first .. i - 1 : g.nodes[x].op \in g.captures
    BY DEF Open
  <2>4. g.most > 0 => ((i - 1) + 1) - p.first <= g.most
    BY DEF Open
  <2>6. r = Region(g, r.first, r.last, r.captured)
    BY <2>2, Zenon
  <2> HIDE DEF r
  <2>5. Size(r) = ((i - 1) + 1) - p.first
    <3> DEFINE a == p.first
    <3>1. a \in 1 .. n /\ r.first = a /\ r.last = i - 1
      BY <1>1, <2>1, <2>2
    <3> HIDE DEF a
    <3>2. Size(r) = ((i - 1) + 1) - a
      BY <1>1, <3>1 DEF Size
    <3> QED
      BY <3>2 DEF a
  <2>7. Fits(g, r)
    BY <2>1, <2>2, <2>3, <2>4, <2>5, <2>6 DEF Fits
  <2>8. p.regions # << >> /\ p.regions[Len(p.regions)].captured => Full(g, p.regions[Len(p.regions)])
    BY DEF Open
  <2>9. Cut(g, Append(p.regions, r), (i - 1) + 1)
    BY <1>2, <2>1, <2>7, <2>8, CutMore DEF r
  <2>10. Flush(g, p, i) = Append(p.regions, r)
    BY <1>4 DEF Flush, r
  <2>11. Len(Append(p.regions, r)) # 0 /\ Append(p.regions, r)[Len(Append(p.regions, r))] = r
    <3> DEFINE s == p.regions
               S == Regions(g)
               T == S \cup {r}
    <3>1. s \in Seq(S)
      BY <1>2 DEF Cut
    <3> HIDE DEF s, S
    <3>2. Len(s) \in Nat /\ Len(Append(s, r)) = Len(s) + 1 /\ Append(s, r)[Len(s) + 1] = r
      BY <3>1
    <3> QED
      BY <3>2 DEF s
  <2> QED
    BY <2>1, <2>9, <2>10, <2>11 DEF r
<1> QED
  BY <1>3, <1>4

(* Each node of plan_execution's loop keeps the plan a cut with an open end. *)
LEMMA SplitOK ==
  ASSUME NEW g \in Graphs, NEW i \in Nodes(g), NEW p, Open(g, p, i - 1)
  PROVE  Open(g, Split(g, p, i), i)
<1> DEFINE n == Len(g.nodes)
           done == Flush(g, p, i)
           c == Split(g, p, i)
<1>1. n \in Nat /\ Nodes(g) = 1 .. n /\ i \in 1 .. n /\ g.most \in Nat
  BY GraphFacts DEF Verified, WellFormed
<1>2. /\ Cut(g, done, i)
      /\ p.first # i => Len(done) # 0 /\ done[Len(done)] = Region(g, p.first, i - 1, TRUE)
  <2>1. i \in 1 .. Len(g.nodes) + 1
    BY <1>1
  <2> QED
    BY <2>1, FlushOK, Zenon
<1>3. p.first \in 1 .. i /\ Cut(g, p.regions, p.first)
  BY <1>1 DEF Open
<1>4. g.most > 0 => i - p.first <= g.most
  <2>1. g.most > 0 => ((i - 1) + 1) - p.first <= g.most
    BY DEF Open
  <2> QED
    BY <1>1, <1>3, <2>1
<1>5. \A x \in p.first .. i - 1 : g.nodes[x].op \in g.captures
  BY DEF Open
<1>6. p.regions # << >> /\ p.regions[Len(p.regions)].captured => Full(g, p.regions[Len(p.regions)])
  BY DEF Open
<1> HIDE DEF done
<1>7. CASE g.nodes[i].op \notin g.captures
  <2> DEFINE r == Region(g, i, i, FALSE)
             more == Append(done, r)
  <2>1. r.first = i /\ r.last = i /\ r.captured = FALSE
    BY RegionEnds, Zenon
  <2>2. r = Region(g, r.first, r.last, r.captured)
    BY <2>1, Zenon
  <2> HIDE DEF r
  <2>3. Fits(g, r)
    BY <1>1, <1>7, <2>1, <2>2 DEF Fits
  <2>4. Cut(g, more, i + 1)
    <3> DEFINE no == FALSE
    <3>1. no \in BOOLEAN /\ ~no /\ r = Region(g, i, i, no) /\ i <= i
      BY <1>1 DEF r
    <3> HIDE DEF no
    <3>2. Fits(g, Region(g, i, i, no))
      BY <2>3, <3>1
    <3>3. Cut(g, Append(done, Region(g, i, i, no)), i + 1)
      BY <1>2, <3>1, <3>2, CutMore
    <3> QED
      BY <3>1, <3>3
  <2>5. more[Len(more)] = r
    <3> DEFINE S == Regions(g)
    <3>1. done \in Seq(S)
      BY <1>2 DEF Cut
    <3> HIDE DEF S
    <3> QED
      BY <3>1
  <2>6. c = [regions |-> more, first |-> i + 1]
    BY <1>7 DEF Split, done, r
  <2> HIDE DEF more, c
  <2>7. c.regions = more /\ c.first = i + 1
    BY <2>6
  <2>8. c.first \in 1 .. i + 1 /\ \A x \in c.first .. i : g.nodes[x].op \in g.captures
    BY <1>1, <2>7
  <2>9. g.most > 0 => (i + 1) - c.first <= g.most
    BY <1>1, <2>7
  <2>10. Open(g, c, i)
    BY <2>1, <2>4, <2>5, <2>7, <2>8, <2>9 DEF Open
  <2> QED
    BY <2>10 DEF c
<1>8. CASE g.nodes[i].op \in g.captures /\ g.most > 0 /\ i - p.first >= g.most
  <2>1. p.first # i /\ p.first \in Nodes(g) /\ i - 1 \in Nodes(g) /\ i - p.first = g.most
    <3> DEFINE a == p.first
               most == g.most
               size == Len(g.nodes)
    <3>1. a \in 1 .. i /\ i \in 1 .. size /\ size \in Nat /\ Nodes(g) = 1 .. size
      BY <1>1, <1>3, <1>4
    <3>2. most \in Int /\ most > 0 /\ i - a >= most /\ (most > 0 => i - a <= most)
      BY <1>1, <1>3, <1>4, <1>8
    <3> HIDE DEF a, most, size
    <3>3. a # i /\ i - a = most /\ a \in 1 .. size /\ i - 1 \in 1 .. size
      BY <3>1, <3>2
    <3> QED
      BY <3>1, <3>3 DEF a, most
  <2> DEFINE r == Region(g, p.first, i - 1, TRUE)
  <2>2. r.first = p.first /\ r.last = i - 1
    <3>1. p.first \in Nodes(g) /\ i - 1 \in Nodes(g)
      BY <2>1
    <3> QED
      BY <3>1, RegionEnds, Zenon
  <2>3. done[Len(done)] = r
    BY <1>2, <2>1
  <2> HIDE DEF r
  <2>4. Full(g, done[Len(done)])
    BY <1>1, <1>8, <2>1, <2>2, <2>3 DEF Full, Size
  <2>5. c = [regions |-> done, first |-> i]
    BY <1>8 DEF Split, done
  <2> HIDE DEF c
  <2>6. c.regions = done /\ c.first = i
    BY <2>5
  <2>7. c.first \in 1 .. i + 1 /\ (g.most > 0 => (i + 1) - c.first <= g.most)
    BY <1>1, <2>6
  <2>8. ASSUME NEW x \in c.first .. i PROVE g.nodes[x].op \in g.captures
    <3>1. x = i
      BY <1>1, <2>6
    <3> QED
      BY <1>8, <3>1
  <2>9. Open(g, c, i)
    BY <1>2, <2>4, <2>6, <2>7, <2>8 DEF Open
  <2> QED
    BY <2>9 DEF c
<1>9. CASE g.nodes[i].op \in g.captures /\ ~(g.most > 0 /\ i - p.first >= g.most)
  <2>1. c = p
    BY <1>9 DEF Split
  <2>2. p.first \in 1 .. i + 1 /\ (g.most > 0 => (i + 1) - p.first <= g.most)
    BY <1>1, <1>3, <1>9
  <2>3. ASSUME NEW x \in p.first .. i PROVE g.nodes[x].op \in g.captures
    <3>1. x = i \/ x \in p.first .. i - 1
      BY <1>1, <1>3
    <3> QED
      BY <1>5, <1>9, <3>1
  <2> QED
    BY <1>3, <1>6, <2>1, <2>2, <2>3 DEF Open
<1> QED
  BY <1>7, <1>8, <1>9

SplitStart == [regions |-> << >>, first |-> 1]

Splits(g, n, f) == f = [i \in 0 .. n |-> IF i = 0 THEN SplitStart ELSE Split(g, f[i - 1], i)]

(* plan_execution's loop is a function of the node. *)
LEMMA SplitsExists ==
  ASSUME NEW g, NEW n \in Nat
  PROVE  \E f : Splits(g, n, f)
<1> DEFINE P == {m \in Nat : \E f : Splits(g, m, f)}
<1>1. 0 \in P
  <2> DEFINE h == [k \in 0 .. 0 |-> SplitStart]
  <2>1. h = [k \in 0 .. 0 |-> IF k = 0 THEN SplitStart ELSE Split(g, h[k - 1], k)]
    OBVIOUS
  <2> HIDE DEF h
  <2>2. Splits(g, 0, h)
    BY <2>1 DEF Splits
  <2> QED
    BY <2>2
<1>2. ASSUME NEW m \in 0 .. n - 1, m \in P PROVE m + 1 \in P
  <2>1. PICK f : Splits(g, m, f)
    BY <1>2
  <2> DEFINE h == [k \in 0 .. m + 1 |-> IF k = m + 1 THEN Split(g, f[m], m + 1) ELSE f[k]]
  <2>2. ASSUME NEW k \in 0 .. m + 1
        PROVE  h[k] = IF k = 0 THEN SplitStart ELSE Split(g, h[k - 1], k)
    <3>1. CASE k = m + 1
      <4>1. h[m + 1] = Split(g, f[m], m + 1) /\ h[m] = f[m] /\ (m + 1) - 1 = m /\ m + 1 # 0
        OBVIOUS
      <4> HIDE DEF h
      <4> QED
        BY <3>1, <4>1
    <3>2. CASE k # m + 1
      <4>1. k \in 0 .. m /\ (k # 0 => k - 1 \in 0 .. m)
        BY <3>2
      <4>2. f[k] = IF k = 0 THEN SplitStart ELSE Split(g, f[k - 1], k)
        BY <2>1, <4>1, Zenon DEF Splits
      <4>3. h[k] = f[k] /\ (k # 0 => h[k - 1] = f[k - 1])
        BY <3>2, <4>1
      <4> HIDE DEF h
      <4> QED
        BY <4>2, <4>3
    <3> QED
      BY <3>1, <3>2
  <2>3. h = [k \in 0 .. m + 1 |-> IF k = 0 THEN SplitStart ELSE Split(g, h[k - 1], k)]
    <3>1. h = [k \in 0 .. m + 1 |-> h[k]]
      OBVIOUS
    <3> HIDE DEF h
    <3> QED
      BY <2>2, <3>1
  <2> HIDE DEF h
  <2>4. Splits(g, m + 1, h)
    BY <2>3 DEF Splits
  <2> QED
    BY <2>4
<1>3. Climbs(P, n)
  BY <1>1, <1>2 DEF Climbs
<1>4. n \in 0 .. n
  OBVIOUS
<1> HIDE DEF P
<1>5. n \in P
  BY <1>3, <1>4, Climbed
<1> QED
  BY <1>5 DEF P

(* No regions cut nothing. *)
LEMMA EmptyCut == ASSUME NEW g PROVE Cut(g, << >>, 1)
<1> DEFINE S == Regions(g)
<1>1. << >> \in Seq(S) /\ DOMAIN << >> = {}
  <2> HIDE DEF S
  <2> QED
    OBVIOUS
<1> QED
  BY <1>1 DEF Cut

(* plan_execution cuts the whole graph into regions. *)
LEMMA PlanCuts ==
  ASSUME NEW g \in Graphs
  PROVE  Cut(g, PlanExecution(g), Len(g.nodes) + 1)
<1> DEFINE n == Len(g.nodes)
<1>1. n \in Nat /\ Nodes(g) = 1 .. n /\ g.most \in Nat /\ g.nodes \in Seq(Range(g.nodes))
  BY GraphFacts DEF Verified, WellFormed
<1>2. g.nodes = << >> <=> n = 0
  <2> DEFINE S == Range(g.nodes)
             s == g.nodes
  <2>1. s \in Seq(S)
    BY <1>1
  <2> HIDE DEF S, s
  <2>2. s = << >> <=> Len(s) = 0
    BY <2>1
  <2> QED
    BY <2>2 DEF s
<1>3. CASE g.captures = {}
  <2>1. CASE g.nodes = << >>
    BY <1>2, <1>3, <2>1, EmptyCut DEF PlanExecution
  <2>2. CASE g.nodes # << >>
    <3> DEFINE r == Region(g, 1, n, FALSE)
    <3>1. 1 \in Nodes(g) /\ n \in Nodes(g) /\ 1 <= n
      BY <1>1, <1>2, <2>2
    <3>2. r.first = 1 /\ r.last = n /\ r.captured = FALSE
      <4>1. PICK a \in Nodes(g), b \in Nodes(g) : a = 1 /\ b = n
        BY <3>1
      <4>2. /\ Region(g, a, b, FALSE).first = a /\ Region(g, a, b, FALSE).last = b
            /\ Region(g, a, b, FALSE).captured = FALSE
        BY RegionEnds, Zenon
      <4> QED
        BY <4>1, <4>2, Zenon
    <3>3. r = Region(g, r.first, r.last, r.captured)
      BY <3>2, Zenon
    <3> HIDE DEF r
    <3>4. Fits(g, r)
      BY <1>3, <3>1, <3>2, <3>3 DEF Fits
    <3>5. Cut(g, Append(<< >>, r), n + 1)
      BY <3>1, <3>4, EmptyCut, CutMore DEF r
    <3>6. PlanExecution(g) = Append(<< >>, r)
      <4>1. PlanExecution(g) = << r >>
        BY <1>3, <2>2 DEF PlanExecution, r
      <4> QED
        BY <4>1
    <3> QED
      BY <3>5, <3>6
  <2> QED
    BY <2>1, <2>2
<1>4. CASE g.captures # {}
  <2> DEFINE f == CHOOSE h : Splits(g, n, h)
  <2>1. Splits(g, n, f)
    BY <1>1, SplitsExists
  <2>2. PlanExecution(g) = Flush(g, f[n], n + 1)
    BY <1>4 DEF PlanExecution, Splits, SplitStart
  <2> HIDE DEF f
  <2>3. ASSUME NEW i \in 0 .. n PROVE f[i] = IF i = 0 THEN SplitStart ELSE Split(g, f[i - 1], i)
    BY <2>1, Zenon DEF Splits
  <2> DEFINE P == {i \in 0 .. n : Open(g, f[i], i)}
  <2>4. 0 \in P
    <3>1. f[0] = SplitStart
      BY <1>1, <2>3
    <3>2. SplitStart.regions = << >> /\ SplitStart.first = 1
      BY DEF SplitStart
    <3>3. Open(g, SplitStart, 0)
      BY <1>1, <3>2, EmptyCut DEF Open
    <3> QED
      BY <1>1, <3>1, <3>3
  <2>5. ASSUME NEW m \in 0 .. n - 1, m \in P PROVE m + 1 \in P
    <3>1. m + 1 \in 0 .. n /\ m + 1 # 0 /\ (m + 1) - 1 = m /\ m + 1 \in Nodes(g)
      BY <1>1
    <3>2. f[m + 1] = Split(g, f[m], m + 1)
      BY <2>3, <3>1
    <3>3. Open(g, f[m], (m + 1) - 1)
      BY <2>5, <3>1
    <3>4. Open(g, f[m + 1], m + 1)
      BY <3>1, <3>2, <3>3, SplitOK
    <3> QED
      BY <3>1, <3>4
  <2>6. n \in 0 .. n /\ Climbs(P, n)
    BY <1>1, <2>4, <2>5 DEF Climbs
  <2> HIDE DEF P
  <2>7. n \in P
    BY <1>1, <2>6, Climbed
  <2>8. Open(g, f[n], (n + 1) - 1) /\ n + 1 \in 1 .. n + 1
    BY <1>1, <2>7 DEF P
  <2>9. Cut(g, Flush(g, f[n], n + 1), n + 1)
    BY <2>8, FlushOK
  <2> QED
    BY <2>2, <2>9
<1> QED
  BY <1>3, <1>4

(* Regions that cut the whole graph compose to it. *)
LEMMA CutComposes ==
  ASSUME NEW g \in Graphs, NEW regions, Cut(g, regions, Len(g.nodes) + 1), NEW v \in DOMAIN g.size
  PROVE  /\ \A k \in DOMAIN regions : v \in regions[k].inputs =>
              v \in Range(g.inputs) \/ \E j \in 1 .. k - 1 : v \in regions[j].outputs
         /\ \A k \in DOMAIN regions : \A i \in regions[k].first .. regions[k].last : v \in Args(g, i) =>
              v \in regions[k].inputs \/ \E j \in regions[k].first .. i - 1 : v \in Outs(g, j)
         /\ v \in Range(g.outputs) =>
              v \in Range(g.inputs) \/ \E j \in 1 .. Len(regions) : v \in regions[j].outputs
<1> DEFINE n == Len(g.nodes)
<1>1. n \in Nat /\ Nodes(g) = 1 .. n
  BY GraphFacts
<1>2. /\ Len(regions) \in Nat /\ DOMAIN regions = 1 .. Len(regions)
      /\ \A k \in DOMAIN regions : regions[k].first \in Nat /\ regions[k].last \in Nat
  BY CutFacts
<1>3. /\ Born(g, v) \in 0 .. n
      /\ \A i \in Nodes(g) : v \in Outs(g, i) <=> Born(g, v) = i
      /\ v \in Range(g.inputs) <=> Born(g, v) = 0
      /\ \A i \in Nodes(g) : v \in Args(g, i) => Born(g, v) < i
  BY BornIs
<1>4. ASSUME NEW k \in DOMAIN regions
      PROVE  /\ regions[k].first \in Nodes(g) /\ regions[k].last \in Nodes(g)
             /\ v \in regions[k].inputs <=>
                  (\E i \in regions[k].first .. regions[k].last : v \in Args(g, i))
                  /\ ~(\E i \in regions[k].first .. regions[k].last : v \in Outs(g, i))
             /\ v \in regions[k].outputs <=>
                  (\E i \in regions[k].first .. regions[k].last : v \in Outs(g, i))
                  /\ (v \in Range(g.outputs) \/ \E i \in regions[k].last + 1 .. n : v \in Args(g, i))
  <2> DEFINE r == regions[k]
             a == regions[k].first
             b == regions[k].last
             c == regions[k].captured
  <2>1. r = Region(g, a, b, c) /\ a \in Nodes(g) /\ b \in Nodes(g)
    BY DEF Cut, Fits
  <2>2. c \in BOOLEAN
    BY CutFacts DEF Regions
  <2> HIDE DEF a, b, c
  <2>3. /\ r.inputs = (UNION {Args(g, i) : i \in a .. b}) \ UNION {Outs(g, i) : i \in a .. b}
        /\ r.outputs = (UNION {Outs(g, i) : i \in a .. b})
               \cap (Range(g.outputs) \cup UNION {Args(g, i) : i \in b + 1 .. Len(g.nodes)})
    BY <2>1, <2>2, RegionIs
  <2> HIDE DEF r
  <2>4. /\ v \in r.inputs <=>
                  (\E i \in a .. b : v \in Args(g, i)) /\ ~(\E i \in a .. b : v \in Outs(g, i))
        /\ v \in r.outputs <=>
                  (\E i \in a .. b : v \in Outs(g, i))
                  /\ (v \in Range(g.outputs) \/ \E i \in b + 1 .. n : v \in Args(g, i))
    BY <2>3
  <2> QED
    BY <2>1, <2>4 DEF r, a, b
<1>5. ASSUME Born(g, v) # 0
      PROVE  \E j \in DOMAIN regions : Born(g, v) \in regions[j].first .. regions[j].last
  <2>1. Born(g, v) \in 1 .. (n + 1) - 1
    BY <1>1, <1>3, <1>5
  <2> QED
    BY <2>1 DEF Cut
<1>6. ASSUME NEW k \in DOMAIN regions, v \in regions[k].inputs, v \notin Range(g.inputs)
      PROVE  \E j \in 1 .. k - 1 : v \in regions[j].outputs
  <2>1. PICK i \in regions[k].first .. regions[k].last : v \in Args(g, i)
    BY <1>4, <1>6
  <2>2. PICK j \in DOMAIN regions : Born(g, v) \in regions[j].first .. regions[j].last
    BY <1>3, <1>5, <1>6
  <2>3. i \in Nodes(g) /\ Born(g, v) < i /\ Born(g, v) \in Nodes(g) /\ v \in Outs(g, Born(g, v))
    <3>1. i \in Nodes(g)
      BY <1>1, <1>4
    <3> QED
      BY <1>1, <1>3, <1>6, <2>1, <3>1
  <2>4. j # k
    BY <1>4, <1>6, <2>2, <2>3
  <2>5. ~(k < j)
    <3>1. ASSUME k < j PROVE FALSE
      <4>1. regions[k].last < regions[j].first
        BY <3>1 DEF Cut
      <4> QED
        BY <1>1, <1>2, <2>1, <2>2, <2>3, <4>1
    <3> QED
      BY <3>1
  <2>6. j \in 1 .. k - 1 /\ j < k
    BY <1>2, <2>4, <2>5
  <2>7. regions[j].last < regions[k].first
    BY <2>6 DEF Cut
  <2>8. i \in regions[j].last + 1 .. n
    BY <1>1, <1>2, <2>1, <2>3, <2>7
  <2>9. v \in regions[j].outputs
    BY <1>4, <2>1, <2>2, <2>3, <2>8
  <2> QED
    BY <2>6, <2>9
<1>7. ASSUME NEW k \in DOMAIN regions, NEW i \in regions[k].first .. regions[k].last, v \in Args(g, i),
             v \notin regions[k].inputs
      PROVE  \E j \in regions[k].first .. i - 1 : v \in Outs(g, j)
  <2>1. PICK j \in regions[k].first .. regions[k].last : v \in Outs(g, j)
    BY <1>4, <1>7
  <2>2. i \in Nodes(g) /\ j \in Nodes(g)
    BY <1>1, <1>4
  <2>3. j < i
    BY <1>3, <1>7, <2>1, <2>2
  <2>4. j \in regions[k].first .. i - 1
    BY <1>1, <1>2, <2>1, <2>2, <2>3
  <2> QED
    BY <2>1, <2>4
<1>8. ASSUME v \in Range(g.outputs), v \notin Range(g.inputs)
      PROVE  \E j \in 1 .. Len(regions) : v \in regions[j].outputs
  <2>1. PICK j \in DOMAIN regions : Born(g, v) \in regions[j].first .. regions[j].last
    BY <1>3, <1>5, <1>8
  <2>2. v \in Outs(g, Born(g, v))
    BY <1>1, <1>3, <1>8
  <2>3. v \in regions[j].outputs
    BY <1>4, <1>8, <2>1, <2>2
  <2> QED
    BY <1>2, <2>3
<1> QED
  BY <1>6, <1>7, <1>8

(* The regions plan_execution returns compose to the graph. *)
LEMMA PlanComposes == ASSUME graph \in Graphs PROVE RegionsCompose
<1> DEFINE g == graph
           regions == PlanExecution(g)
           n == Len(g.nodes)
           known(k) == Range(graph.inputs) \cup UNION {regions[j].outputs : j \in 1 .. k}
           made(r, i) == UNION {Outs(graph, j) : j \in r.first .. i - 1}
           full(q) == graph.most > 0 /\ q.last - q.first + 1 = graph.most
<1>1. Cut(g, regions, n + 1)
  BY PlanCuts
<1>2. n \in Nat /\ Nodes(g) = 1 .. n /\ g.nodes \in Seq(Range(g.nodes)) /\ g.outputs \in Seq(DOMAIN g.size)
  BY GraphFacts DEF Verified, WellFormed
<1> HIDE DEF regions
<1>3. /\ Len(regions) \in Nat /\ DOMAIN regions = 1 .. Len(regions)
      /\ \A k \in DOMAIN regions : /\ regions[k].inputs \subseteq DOMAIN g.size
                                   /\ regions[k].first \in Nat /\ regions[k].last \in Nat
      /\ regions # << >> => Len(regions) \in DOMAIN regions
  BY <1>1, CutFacts DEF Regions
<1>4. \A k \in DOMAIN regions : regions[k].first = IF k = 1 THEN 1 ELSE regions[k - 1].last + 1
  BY <1>1 DEF Cut
<1>5. graph.nodes # << >> => Last(regions).last = n
  <2>1. graph.nodes # << >> => n # 0
    <3> DEFINE S == Range(g.nodes)
               s == g.nodes
    <3>1. s \in Seq(S)
      BY <1>2
    <3> HIDE DEF S, s
    <3>2. s # << >> => Len(s) # 0
      BY <3>1
    <3> QED
      BY <3>2 DEF s
  <2>2. n + 1 = IF regions = << >> THEN 1 ELSE regions[Len(regions)].last + 1
    BY <1>1 DEF Cut
  <2> QED
    BY <1>2, <1>3, <2>1, <2>2 DEF Last
<1>6. ASSUME NEW k \in DOMAIN regions
      PROVE  /\ regions[k].captured => /\ \A i \in regions[k].first .. regions[k].last : g.nodes[i].op \in g.captures
                                       /\ g.most > 0 => regions[k].last - regions[k].first + 1 <= g.most
             /\ regions[k].captured /\ k > 1 /\ regions[k - 1].captured => full(regions[k - 1])
             /\ ~regions[k].captured /\ graph.captures # {} => graph.nodes[regions[k].first].op \notin graph.captures
  <2>1. Fits(g, regions[k])
    BY <1>1 DEF Cut
  <2>2. k > 1 /\ regions[k].captured /\ regions[k - 1].captured => Full(g, regions[k - 1])
    BY <1>1 DEF Cut
  <2> QED
    BY <2>1, <2>2 DEF Fits, Full, Size
<1>7. ASSUME NEW k \in DOMAIN regions PROVE regions[k].inputs \subseteq known(k - 1)
  <2>1. ASSUME NEW v \in regions[k].inputs PROVE v \in known(k - 1)
    <3>1. v \in DOMAIN g.size
      BY <1>3
    <3>2. v \in Range(g.inputs) \/ \E j \in 1 .. k - 1 : v \in regions[j].outputs
      BY <1>1, <3>1, CutComposes
    <3> QED
      BY <3>2
  <2> HIDE DEF known
  <2> QED
    BY <2>1
<1>8. ASSUME NEW k \in DOMAIN regions, NEW i \in regions[k].first .. regions[k].last
      PROVE  Args(graph, i) \subseteq regions[k].inputs \cup made(regions[k], i)
  <2>1. ASSUME NEW v \in Args(graph, i) PROVE v \in regions[k].inputs \cup made(regions[k], i)
    <3>1. v \in DOMAIN g.size
      <4>1. regions[k].first \in Nodes(g) /\ regions[k].last \in Nodes(g)
        BY <1>1 DEF Cut, Fits
      <4>2. i \in Nodes(g)
        BY <1>2, <4>1
      <4> DEFINE s == g.nodes[i].args
      <4>3. s \in Seq(DOMAIN g.size) /\ v \in Range(s)
        BY <2>1, <4>2, GraphFacts DEF Args
      <4> HIDE DEF s
      <4> QED
        BY <4>3, NamesAre
    <3>2. v \in regions[k].inputs \/ \E j \in regions[k].first .. i - 1 : v \in Outs(g, j)
      BY <1>1, <3>1, CutComposes
    <3> QED
      BY <3>2
  <2> HIDE DEF made
  <2> QED
    BY <2>1
<1>9. Range(graph.outputs) \subseteq known(Len(regions))
  <2>1. ASSUME NEW v \in Range(graph.outputs) PROVE v \in known(Len(regions))
    <3>1. v \in DOMAIN g.size
      <4> DEFINE s == g.outputs
      <4>1. s \in Seq(DOMAIN g.size)
        BY <1>2
      <4> HIDE DEF s
      <4>2. Range(s) \subseteq DOMAIN g.size
        BY <4>1, NamesAre
      <4> QED
        BY <4>2 DEF s
    <3>2. v \in Range(g.inputs) \/ \E j \in 1 .. Len(regions) : v \in regions[j].outputs
      BY <1>1, <2>1, <3>1, CutComposes
    <3> QED
      BY <3>2
  <2> HIDE DEF known
  <2> QED
    BY <2>1
<1> QED
  BY <1>4, <1>5, <1>6, <1>7, <1>8, <1>9 DEF RegionsCompose, regions

-----------------------------------------------------------------------------
(* The engine, whole.                                                      *)

(* Everything that is proved of the engine, together. *)
WholeInv == EngineInv /\ PlanInv

(* A fresh engine, or one that will make no call, is sound and follows its plan. *)
LEMMA WholeStarts ==
  ASSUME EngineInit \/ (graph \in Graphs /\ arena = NewArena(graph) /\ bytes = << >> /\ values = << >>
                        /\ position = 0 /\ runs = MaxRuns /\ results = << >> /\ stranded = {} /\ freed = << >>)
  PROVE  WholeInv
<1>1. EngineInv
  BY EngineStarts
<1>2. position = 0 /\ results = << >>
  BY DEF EngineInit
<1> QED
  BY <1>1, <1>2 DEF WholeInv, PlanInv, Follows, FirstCost

(* So it stays. *)
LEMMA WholeStep == ASSUME WholeInv, [EngineNext]_engine PROVE WholeInv'
<1>1. EngineInv /\ PlanInv
  BY DEF WholeInv
<1>2. CASE EngineNext
  BY <1>1, <1>2, EngineStep, PlanFollowed DEF WholeInv
<1>3. CASE UNCHANGED engine
  BY <1>1, <1>3, EngineStutters, PlanStutters DEF WholeInv
<1> QED
  BY <1>2, <1>3

(* What the invariant says of the engine, in the words of its properties. *)
LEMMA WholeMeans == ASSUME WholeInv PROVE ValuesIntact /\ BuffersOwnedOnce /\ ClosedFreesAll /\ RunsAsPlanned
<1>1. EngineInv /\ PlanInv /\ graph \in Graphs
  BY DEF WholeInv, EngineInv, EngineTypes
<1>2. ValuesIntact /\ BuffersOwnedOnce
  BY <1>1, EngineIntact, EngineOwned
<1>3. ClosedFreesAll
  BY <1>1 DEF EngineInv
<1>4. RunsAsPlanned
  BY <1>1, PlanComposes DEF RunsAsPlanned, PlanInv, FirstCost
<1> QED
  BY <1>2, <1>3, <1>4

(* The engine, for every set of verified graphs and any number of calls: values
   are read as they were written, each buffer has one owner, a close frees each
   once, and the first run costs what was planned, in regions that compose. *)
THEOREM EngineCorrect == EngineSpec => [](ValuesIntact /\ BuffersOwnedOnce /\ ClosedFreesAll /\ RunsAsPlanned)
<1>1. EngineInit => WholeInv
  BY WholeStarts
<1>2. WholeInv /\ [EngineNext]_engine => WholeInv'
  BY WholeStep
<1>3. WholeInv => ValuesIntact /\ BuffersOwnedOnce /\ ClosedFreesAll /\ RunsAsPlanned
  BY WholeMeans
<1> QED
  BY <1>1, <1>2, <1>3, PTL DEF EngineSpec

-----------------------------------------------------------------------------
(* The device: the places and who owns them.                               *)

(* The device as a record, its heap a sequence.                            *)
HeapOK(d) ==
  /\ d = [heap |-> d.heap, planes |-> d.planes, spent |-> d.spent, twice |-> d.twice]
  /\ d.heap \in Seq(Range(d.heap)) /\ d.twice \in BOOLEAN

(* Every buffer that can own a place; "spare" is what a load holds for the
   length of one repacking.                                                *)
Names == Buffers \cup TowerBuffers \cup {"spare"}

(* A name or a plane is at the place x.                                    *)
Claimed(d, own, x) ==
  \/ \E b \in Names : own[b] = x
  \/ \E k \in DOMAIN d.planes : d.planes[k] = x

(* What b is the owner of holds what con says.                             *)
Owns(d, own, con, b) == own[b] # 0 => Holds(d, own[b]) = con[b] /\ con[b] # Free

(* What a plane is at holds what pc says, and is no name's.                *)
Keeps(d, own, pc, k) ==
  /\ d.planes[k] \in Nat \ {0}
  /\ Holds(d, d.planes[k]) = pc[k] /\ pc[k] # Free
  /\ \A b \in Names : own[b] # d.planes[k]

(* The live places are exactly those of the names in own and of the planes,
   each name's its own, and they hold what con and pc say.                 *)
Tidy(d, own, con, pc) ==
  /\ HeapOK(d) /\ d.twice = FALSE
  /\ own \in [Names -> Nat] /\ con = [b \in Names |-> con[b]]
  /\ pc = [k \in DOMAIN d.planes |-> pc[k]] /\ d.planes = [k \in DOMAIN d.planes |-> d.planes[k]]
  /\ \A b \in Names : Owns(d, own, con, b)
  /\ \A b, c \in Names : own[b] = own[c] /\ own[b] # 0 => b = c
  /\ \A k \in DOMAIN d.planes : Keeps(d, own, pc, k)
  /\ \A x \in Nat : Holds(d, x) # Free => Claimed(d, own, x)

(* Only the heap differs.                                                  *)
Aside(d, e) == e.planes = d.planes /\ e.spent = d.spent /\ e.twice = d.twice

-----------------------------------------------------------------------------
(* The heap is a sequence. *)
LEMMA HeapFacts ==
  ASSUME NEW d, HeapOK(d)
  PROVE  Len(d.heap) \in Nat /\ DOMAIN d.heap = 1 .. Len(d.heap)
<1> DEFINE S == Range(d.heap)
           s == d.heap
<1>1. s \in Seq(S)
  BY DEF HeapOK
<1> HIDE DEF S, s
<1>2. Len(s) \in Nat /\ DOMAIN s = 1 .. Len(s)
  BY <1>1
<1> QED
  BY <1>2 DEF s

(* A place is written; the others keep what they hold. *)
LEMMA WrittenOK ==
  ASSUME NEW d, HeapOK(d), NEW c, NEW a \in 1 .. Len(d.heap) + 1
  PROVE  /\ HeapOK(Written(d, a, c)) /\ Aside(d, Written(d, a, c))
         /\ \A x \in Nat : Holds(Written(d, a, c), x) = IF x = a THEN c ELSE Holds(d, x)
<1> DEFINE e == Written(d, a, c)
           s == d.heap
           t == IF a <= Len(s) THEN [s EXCEPT ![a] = c] ELSE Append(s, c)
           S == Range(s) \cup {c}
<1>1. Len(s) \in Nat /\ DOMAIN s = 1 .. Len(s) /\ s \in Seq(Range(s))
  BY HeapFacts DEF HeapOK
<1>2. s \in Seq(S)
  <2> DEFINE R == Range(s)
  <2>1. s \in Seq(R) /\ R \subseteq S
    BY <1>1
  <2> HIDE DEF R, S, s
  <2> QED
    BY <2>1
<1>3. e.heap = t /\ Aside(d, e) /\ e = [heap |-> e.heap, planes |-> e.planes, spent |-> e.spent, twice |-> e.twice]
  BY DEF HeapOK, Written, Aside
<1>4. c \in S
  OBVIOUS
<1>5. t \in Seq(S) /\ DOMAIN t = 1 .. Len(t)
      /\ \A x \in Nat : (IF x \in DOMAIN t THEN t[x] ELSE Free)
                        = IF x = a THEN c ELSE IF x \in DOMAIN s THEN s[x] ELSE Free
  <2> HIDE DEF S, s
  <2>1. a \in 1 .. Len(s) + 1
    BY DEF s
  <2>2. CASE a <= Len(s)
    <3>1. t = [s EXCEPT ![a] = c] /\ a \in DOMAIN s
      BY <1>1, <2>1, <2>2
    <3>2. DOMAIN t = DOMAIN s /\ \A x \in DOMAIN s : t[x] = IF x = a THEN c ELSE s[x]
      BY <3>1
    <3>3. t \in Seq(S) /\ Len(t) = Len(s)
      BY <1>2, <1>4, <3>1
    <3> HIDE DEF t
    <3> QED
      BY <1>1, <3>1, <3>2, <3>3
  <2>3. CASE ~(a <= Len(s))
    <3>1. t = Append(s, c) /\ a = Len(s) + 1
      BY <1>1, <2>1, <2>3
    <3> DEFINE u == Append(s, c)
    <3> HIDE DEF S
    <3>4. u \in Seq(S) /\ Len(u) = Len(s) + 1 /\ DOMAIN u = 1 .. Len(s) + 1
          /\ \A x \in 1 .. Len(s) + 1 : u[x] = IF x = Len(s) + 1 THEN c ELSE s[x]
      BY <1>1, <1>2, <1>4
    <3>2. t \in Seq(S) /\ Len(t) = Len(s) + 1
      BY <3>1, <3>4
    <3>3. \A x \in 1 .. Len(s) + 1 : t[x] = IF x = a THEN c ELSE s[x]
      BY <3>1, <3>4
    <3> HIDE DEF t
    <3> QED
      BY <1>1, <3>1, <3>2, <3>3
  <2> QED
    BY <2>2, <2>3
<1>6. t \in Seq(Range(t))
  <2> HIDE DEF S, t
  <2> QED
    BY <1>5, SeqOfRange
<1>9. e.twice \in BOOLEAN
  BY <1>3 DEF HeapOK, Aside
<1> HIDE DEF t
<1>7. HeapOK(e)
  BY <1>3, <1>6, <1>9 DEF HeapOK
<1>8. \A x \in Nat : Holds(e, x) = IF x = a THEN c ELSE Holds(d, x)
  <2> HIDE DEF e
  <2> QED
    BY <1>3, <1>5 DEF Holds, s
<1> QED
  BY <1>3, <1>7, <1>8

(* What an allocation returns was free, and holds what was copied to it. *)
LEMMA AllocatedOK ==
  ASSUME NEW d, HeapOK(d), NEW c, NEW o \in Allocated(d, c)
  PROVE  /\ o.at \in Nat \ {0} /\ Holds(d, o.at) = Free
         /\ HeapOK(o.dev) /\ Aside(d, o.dev)
         /\ \A x \in Nat : Holds(o.dev, x) = IF x = o.at THEN c ELSE Holds(d, x)
<1>1. PICK a \in Places(d) : o = [dev |-> Written(d, a, c), at |-> a]
  BY DEF Allocated
<1>2. Len(d.heap) \in Nat /\ DOMAIN d.heap = 1 .. Len(d.heap)
  BY HeapFacts
<1>3. a \in 1 .. Len(d.heap) + 1 /\ Holds(d, a) = Free
  <2> DEFINE n == Len(d.heap)
  <2>1. (a \in 1 .. n /\ d.heap[a] = Free) \/ a = n + 1
    BY <1>1, <1>2 DEF Places
  <2>2. n + 1 \notin DOMAIN d.heap
    BY <1>2
  <2> QED
    BY <1>2, <2>1, <2>2 DEF Holds
<1>4. o.at = a /\ o.dev = Written(d, a, c)
  BY <1>1
<1>5. a \in Nat \ {0}
  BY <1>2, <1>3
<1> QED
  BY <1>3, <1>4, <1>5, WrittenOK

(* A live place is released. *)
LEMMA ReleasedOK ==
  ASSUME NEW d, HeapOK(d), NEW a \in Nat, Holds(d, a) # Free
  PROVE  /\ HeapOK(Released(d, a)) /\ Aside(d, Released(d, a))
         /\ \A x \in Nat : Holds(Released(d, a), x) = IF x = a THEN Free ELSE Holds(d, x)
<1>1. Len(d.heap) \in Nat /\ DOMAIN d.heap = 1 .. Len(d.heap)
  BY HeapFacts
<1>2. a \in DOMAIN d.heap /\ d.heap[a] # Free
  BY DEF Holds
<1>3. a # 0 /\ a \in 1 .. Len(d.heap) + 1 /\ a <= Len(d.heap)
  BY <1>1, <1>2
<1> DEFINE e == Released(d, a)
           w == Written(d, a, Free)
<1>4. /\ e.heap = [d.heap EXCEPT ![a] = Free] /\ e.planes = d.planes /\ e.spent = d.spent
      /\ e.twice = (d.twice \/ d.heap[a] = Free)
      /\ e = [heap |-> e.heap, planes |-> e.planes, spent |-> e.spent, twice |-> e.twice]
  BY <1>3 DEF HeapOK, Released
<1>5. w.heap = [d.heap EXCEPT ![a] = Free]
  BY <1>3 DEF HeapOK, Written
<1>6. HeapOK(w) /\ \A x \in Nat : Holds(w, x) = IF x = a THEN Free ELSE Holds(d, x)
  BY <1>3, WrittenOK
<1>9. e.twice = d.twice /\ d.twice \in BOOLEAN
  BY <1>2, <1>4 DEF HeapOK
<1> HIDE DEF e, w
<1>7. HeapOK(e)
  BY <1>4, <1>5, <1>6, <1>9 DEF HeapOK
<1>8. \A x \in Nat : Holds(e, x) = Holds(w, x)
  BY <1>4, <1>5 DEF Holds
<1>10. Aside(d, e)
  BY <1>4, <1>9 DEF Aside
<1> QED
  BY <1>6, <1>7, <1>8, <1>10 DEF e

(* Any place is released, live or not. *)
LEMMA ReleasedAny ==
  ASSUME NEW d, HeapOK(d), NEW a \in Nat
  PROVE  /\ HeapOK(Released(d, a)) /\ Released(d, a).planes = d.planes
         /\ \A x \in Nat : Holds(Released(d, a), x) # Free => Holds(d, x) # Free /\ x # a
<1>1. Len(d.heap) \in Nat /\ DOMAIN d.heap = 1 .. Len(d.heap)
  BY HeapFacts
<1> DEFINE e == Released(d, a)
<1>2. CASE a # 0 /\ Holds(d, a) # Free
  BY <1>2, ReleasedOK DEF Aside
<1>3. CASE a = 0
  <2>1. e = d /\ Holds(d, 0) = Free
    BY <1>1, <1>3 DEF Released, Holds
  <2> QED
    BY <1>3, <2>1
<1>4. CASE a # 0 /\ Holds(d, a) = Free
  <2>1. /\ e.heap = [d.heap EXCEPT ![a] = Free] /\ e.planes = d.planes /\ e.spent = d.spent
        /\ e = [heap |-> e.heap, planes |-> e.planes, spent |-> e.spent, twice |-> e.twice] /\ e.twice \in BOOLEAN
    BY <1>4 DEF HeapOK, Released
  <2>2. e.heap = d.heap
    <3> DEFINE s == d.heap
    <3>1. s = [x \in DOMAIN s |-> s[x]] /\ (a \in DOMAIN s => s[a] = Free)
      BY <1>4 DEF HeapOK, Holds
    <3> HIDE DEF s
    <3>2. [s EXCEPT ![a] = Free] = s
      BY <3>1
    <3> QED
      BY <2>1, <3>2 DEF s
  <2> HIDE DEF e
  <2> QED
    BY <1>4, <2>1, <2>2 DEF HeapOK, Holds, e
<1> QED
  BY <1>2, <1>3, <1>4

-----------------------------------------------------------------------------
(* A name that owns nothing takes a fresh place. *)
LEMMA TidyGain ==
  ASSUME NEW d, NEW own, NEW con, NEW pc, Tidy(d, own, con, pc),
         NEW b \in Names, own[b] = 0, NEW c, c # Free, NEW o \in Allocated(d, c)
  PROVE  /\ Tidy(o.dev, [own EXCEPT ![b] = o.at], [con EXCEPT ![b] = c], pc)
         /\ o.at \in Nat \ {0} /\ Aside(d, o.dev)
         /\ \A n \in Names : own[n] # o.at
<1> DEFINE e == o.dev
           a == o.at
           w == [own EXCEPT ![b] = a]
           q == [con EXCEPT ![b] = c]
<1>1. HeapOK(d)
  BY DEF Tidy
<1>2. /\ a \in Nat \ {0} /\ Holds(d, a) = Free /\ HeapOK(e) /\ Aside(d, e)
      /\ \A x \in Nat : Holds(e, x) = IF x = a THEN c ELSE Holds(d, x)
  BY <1>1, AllocatedOK
<1>3. \A n \in Names : own[n] \in Nat /\ (own[n] # 0 => Holds(d, own[n]) = con[n] /\ con[n] # Free)
  BY DEF Tidy, Owns
<1>4. \A n \in Names : own[n] # a
  BY <1>2, <1>3
<1>5. w \in [Names -> Nat] /\ q = [n \in Names |-> q[n]]
      /\ \A n \in Names : w[n] = (IF n = b THEN a ELSE own[n]) /\ q[n] = (IF n = b THEN c ELSE con[n])
  BY <1>2 DEF Tidy
<1> HIDE DEF e, a, w, q
<1>6. ASSUME NEW n \in Names PROVE Owns(e, w, q, n)
  <2>1. CASE n = b
    BY <1>2, <1>5, <2>1 DEF Owns
  <2>2. CASE n # b
    BY <1>2, <1>3, <1>4, <1>5, <2>2 DEF Owns
  <2> QED
    BY <2>1, <2>2
<1>7. \A m, n \in Names : w[m] = w[n] /\ w[m] # 0 => m = n
  <2>1. \A m, n \in Names : own[m] = own[n] /\ own[m] # 0 => m = n
    BY DEF Tidy
  <2> QED
    BY <1>4, <1>5, <2>1
<1>8. ASSUME NEW k \in DOMAIN e.planes PROVE Keeps(e, w, pc, k)
  <2>1. Keeps(d, own, pc, k) /\ e.planes = d.planes
    BY <1>2, <1>8 DEF Tidy, Aside
  <2>2. e.planes[k] # a
    BY <1>2, <2>1 DEF Keeps
  <2> QED
    BY <1>2, <1>5, <2>1, <2>2 DEF Keeps
<1>9. ASSUME NEW x \in Nat, Holds(e, x) # Free PROVE Claimed(e, w, x)
  <2>1. CASE x = a
    BY <1>5, <2>1 DEF Claimed
  <2>2. CASE x # a
    <3>1. Claimed(d, own, x)
      BY <1>2, <1>9, <2>2 DEF Tidy
    <3>2. CASE \E n \in Names : own[n] = x
      <4>1. PICK n \in Names : own[n] = x
        BY <3>2
      <4>2. CASE n # b
        BY <1>5, <4>1, <4>2 DEF Claimed
      <4>3. CASE n = b
        <5>1. x = 0
          BY <4>1, <4>3
        <5>2. Holds(d, 0) = Free
          <6>1. DOMAIN d.heap = 1 .. Len(d.heap) /\ Len(d.heap) \in Nat
            BY <1>1, HeapFacts
          <6>2. 0 \notin DOMAIN d.heap
            BY <6>1
          <6> QED
            BY <6>2 DEF Holds
        <5> QED
          BY <1>2, <1>9, <2>2, <5>1, <5>2
      <4> QED
        BY <4>2, <4>3
    <3>3. CASE \E k \in DOMAIN d.planes : d.planes[k] = x
      BY <1>2, <3>3 DEF Claimed, Aside
    <3> QED
      BY <3>1, <3>2, <3>3 DEF Claimed
  <2> QED
    BY <2>1, <2>2
<1>10. Tidy(e, w, q, pc)
  <2>1. e.twice = FALSE /\ e.planes = d.planes /\ pc = [k \in DOMAIN d.planes |-> pc[k]]
        /\ d.planes = [k \in DOMAIN d.planes |-> d.planes[k]]
    BY <1>2 DEF Tidy, Aside
  <2> QED
    BY <1>2, <1>5, <1>6, <1>7, <1>8, <1>9, <2>1 DEF Tidy
<1> QED
  BY <1>2, <1>4, <1>10 DEF e, a, w, q

(* A name gives its place up; a name without one gives up nothing. *)
LEMMA TidyLose ==
  ASSUME NEW d, NEW own, NEW con, NEW pc, Tidy(d, own, con, pc), NEW b \in Names
  PROVE  /\ Tidy(Released(d, own[b]), [own EXCEPT ![b] = 0], con, pc)
         /\ Aside(d, Released(d, own[b]))
<1> DEFINE a == own[b]
           e == Released(d, a)
           w == [own EXCEPT ![b] = 0]
<1>1. HeapOK(d) /\ own \in [Names -> Nat] /\ a \in Nat
  BY DEF Tidy
<1>2. CASE a = 0
  <2>1. e = d
    BY <1>2 DEF Released
  <2>2. w = own
    BY <1>1, <1>2
  <2> QED
    BY <2>1, <2>2 DEF Aside
<1>3. CASE a # 0
  <2>1. Holds(d, a) # Free
    BY <1>3 DEF Tidy, Owns
  <2>2. HeapOK(e) /\ Aside(d, e) /\ \A x \in Nat : Holds(e, x) = IF x = a THEN Free ELSE Holds(d, x)
    BY <1>1, <2>1, ReleasedOK
  <2>3. \A n \in Names : own[n] \in Nat /\ (own[n] # 0 => Holds(d, own[n]) = con[n] /\ con[n] # Free)
    BY DEF Tidy, Owns
  <2>4. w \in [Names -> Nat] /\ \A n \in Names : w[n] = IF n = b THEN 0 ELSE own[n]
    BY <1>1
  <2>5. \A m, n \in Names : own[m] = own[n] /\ own[m] # 0 => m = n
    BY DEF Tidy
  <2>6. \A n \in Names : w[n] # a
    BY <1>3, <2>4, <2>5
  <2> HIDE DEF e, w
  <2>7. ASSUME NEW n \in Names PROVE Owns(e, w, con, n)
    <3>1. w[n] # 0 => w[n] = own[n] /\ own[n] # a /\ own[n] \in Nat /\ own[n] # 0
      BY <2>3, <2>4, <2>6
    <3> QED
      BY <2>2, <2>3, <3>1 DEF Owns
  <2>8. \A m, n \in Names : w[m] = w[n] /\ w[m] # 0 => m = n
    BY <2>4, <2>5
  <2>9. ASSUME NEW k \in DOMAIN e.planes PROVE Keeps(e, w, pc, k)
    <3>1. Keeps(d, own, pc, k) /\ e.planes = d.planes
      BY <2>2, <2>9 DEF Tidy, Aside
    <3>2. e.planes[k] # a /\ e.planes[k] # 0 /\ e.planes[k] \in Nat
      BY <3>1 DEF Keeps
    <3> QED
      BY <2>2, <2>4, <3>1, <3>2 DEF Keeps
  <2>10. ASSUME NEW x \in Nat, Holds(e, x) # Free PROVE Claimed(e, w, x)
    <3>1. x # a /\ Claimed(d, own, x)
      BY <2>2, <2>10 DEF Tidy
    <3>2. CASE \E n \in Names : own[n] = x
      <4>1. PICK n \in Names : own[n] = x
        BY <3>2
      <4> QED
        BY <2>4, <3>1, <4>1 DEF Claimed
    <3>3. CASE \E k \in DOMAIN d.planes : d.planes[k] = x
      BY <2>2, <3>3 DEF Claimed, Aside
    <3> QED
      BY <3>1, <3>2, <3>3 DEF Claimed
  <2>11. e.twice = FALSE /\ e.planes = d.planes /\ pc = [k \in DOMAIN d.planes |-> pc[k]]
        /\ d.planes = [k \in DOMAIN d.planes |-> d.planes[k]] /\ con = [n \in Names |-> con[n]]
    BY <2>2 DEF Tidy, Aside
  <2>12. Tidy(e, w, con, pc)
    BY <2>2, <2>4, <2>7, <2>8, <2>9, <2>10, <2>11 DEF Tidy
  <2> QED
    BY <2>2, <2>12 DEF e, w
<1> QED
  BY <1>2, <1>3

(* What a name owns is written anew. *)
LEMMA TidyPut ==
  ASSUME NEW d, NEW own, NEW con, NEW pc, Tidy(d, own, con, pc),
         NEW b \in Names, own[b] # 0, NEW c, c # Free
  PROVE  /\ Tidy(Written(d, own[b], c), own, [con EXCEPT ![b] = c], pc)
         /\ Aside(d, Written(d, own[b], c))
<1> DEFINE a == own[b]
           e == Written(d, a, c)
           q == [con EXCEPT ![b] = c]
<1>1. HeapOK(d) /\ own \in [Names -> Nat] /\ a \in Nat /\ Holds(d, a) # Free
  BY DEF Tidy, Owns
<1>2. a \in 1 .. Len(d.heap) + 1
  <2>1. DOMAIN d.heap = 1 .. Len(d.heap) /\ Len(d.heap) \in Nat /\ a \in DOMAIN d.heap
    BY <1>1, HeapFacts DEF Holds
  <2> QED
    BY <2>1
<1>3. HeapOK(e) /\ Aside(d, e) /\ \A x \in Nat : Holds(e, x) = IF x = a THEN c ELSE Holds(d, x)
  BY <1>1, <1>2, WrittenOK
<1>4. \A n \in Names : own[n] \in Nat /\ (own[n] # 0 => Holds(d, own[n]) = con[n] /\ con[n] # Free)
  BY DEF Tidy, Owns
<1>5. \A m, n \in Names : own[m] = own[n] /\ own[m] # 0 => m = n
  BY DEF Tidy
<1>6. q = [n \in Names |-> q[n]] /\ \A n \in Names : q[n] = IF n = b THEN c ELSE con[n]
  BY DEF Tidy
<1> HIDE DEF e, q
<1>7. ASSUME NEW n \in Names PROVE Owns(e, own, q, n)
  <2>1. CASE n = b
    BY <1>1, <1>3, <1>6, <2>1 DEF Owns
  <2>2. CASE n # b
    <3>1. own[n] # a
      BY <1>5, <2>2
    <3> QED
      BY <1>3, <1>4, <1>6, <2>2, <3>1 DEF Owns
  <2> QED
    BY <2>1, <2>2
<1>8. ASSUME NEW k \in DOMAIN e.planes PROVE Keeps(e, own, pc, k)
  <2>1. Keeps(d, own, pc, k) /\ e.planes = d.planes
    BY <1>3, <1>8 DEF Tidy, Aside
  <2> QED
    BY <1>3, <2>1 DEF Keeps
<1>9. ASSUME NEW x \in Nat, Holds(e, x) # Free PROVE Claimed(e, own, x)
  <2>1. Claimed(d, own, x)
    <3>1. Holds(d, x) # Free
      BY <1>1, <1>3, <1>9
    <3> QED
      BY <3>1 DEF Tidy
  <2> QED
    BY <1>3, <2>1 DEF Claimed, Aside
<1>10. e.twice = FALSE /\ e.planes = d.planes /\ pc = [k \in DOMAIN d.planes |-> pc[k]]
       /\ d.planes = [k \in DOMAIN d.planes |-> d.planes[k]]
  BY <1>3 DEF Tidy, Aside
<1>11. Tidy(e, own, q, pc)
  BY <1>1, <1>3, <1>5, <1>6, <1>7, <1>8, <1>9, <1>10 DEF Tidy
<1> QED
  BY <1>3, <1>11 DEF e, q

(* A place passes from one name to another. *)
LEMMA TidyMove ==
  ASSUME NEW d, NEW own, NEW con, NEW pc, Tidy(d, own, con, pc),
         NEW b \in Names, NEW c \in Names, b # c, own[c] = 0
  PROVE  Tidy(d, [own EXCEPT ![c] = own[b], ![b] = 0], [con EXCEPT ![c] = con[b]], pc)
<1> DEFINE w == [own EXCEPT ![c] = own[b], ![b] = 0]
           q == [con EXCEPT ![c] = con[b]]
<1>1. \A n \in Names : own[n] \in Nat /\ (own[n] # 0 => Holds(d, own[n]) = con[n] /\ con[n] # Free)
  BY DEF Tidy, Owns
<1>2. \A m, n \in Names : own[m] = own[n] /\ own[m] # 0 => m = n
  BY DEF Tidy
<1>3. w \in [Names -> Nat] /\ q = [n \in Names |-> q[n]]
      /\ (\A n \in Names : w[n] = IF n = b THEN 0 ELSE IF n = c THEN own[b] ELSE own[n])
      /\ \A n \in Names : q[n] = IF n = c THEN con[b] ELSE con[n]
  BY <1>1 DEF Tidy
<1> HIDE DEF w, q
<1>4. ASSUME NEW n \in Names PROVE Owns(d, w, q, n)
  BY <1>1, <1>3 DEF Owns
<1>5. \A m, n \in Names : w[m] = w[n] /\ w[m] # 0 => m = n
  BY <1>2, <1>3
<1>6. ASSUME NEW k \in DOMAIN d.planes PROVE Keeps(d, w, pc, k)
  <2>1. Keeps(d, own, pc, k)
    BY DEF Tidy
  <2> QED
    BY <1>3, <2>1 DEF Keeps
<1>7. ASSUME NEW x \in Nat, Holds(d, x) # Free PROVE Claimed(d, w, x)
  <2>1. Claimed(d, own, x)
    BY <1>7 DEF Tidy
  <2>2. CASE \E n \in Names : own[n] = x
    <3>1. PICK n \in Names : own[n] = x
      BY <2>2
    <3>2. x # 0
      <4>1. HeapOK(d)
        BY DEF Tidy
      <4>2. 0 \notin DOMAIN d.heap
        BY <4>1, HeapFacts
      <4> QED
        BY <1>7, <4>2 DEF Holds
    <3> QED
      BY <1>3, <3>1, <3>2 DEF Claimed
  <2> QED
    BY <2>1, <2>2 DEF Claimed
<1>8. Tidy(d, w, q, pc)
  BY <1>3, <1>4, <1>5, <1>6, <1>7 DEF Tidy
<1> QED
  BY <1>8 DEF w, q

(* Whose bytes were given back is not a matter of who owns what. *)
LEMMA TidyMark ==
  ASSUME NEW d, NEW own, NEW con, NEW pc, Tidy(d, own, con, pc), NEW z
  PROVE  Tidy([d EXCEPT !.spent = z], own, con, pc)
<1> DEFINE e == [d EXCEPT !.spent = z]
<1>1. /\ e.heap = d.heap /\ e.planes = d.planes /\ e.twice = d.twice
      /\ e = [heap |-> e.heap, planes |-> e.planes, spent |-> e.spent, twice |-> e.twice]
  BY SMTT(30) DEF Tidy, HeapOK
<1> HIDE DEF e
<1>2. HeapOK(e)
  BY <1>1 DEF HeapOK, Tidy
<1>3. \A x \in Nat : Holds(e, x) = Holds(d, x)
  BY <1>1 DEF Holds
<1>4. ASSUME NEW b \in Names PROVE Owns(e, own, con, b)
  BY <1>3 DEF Tidy, Owns
<1>5. ASSUME NEW k \in DOMAIN e.planes PROVE Keeps(e, own, pc, k)
  <2>1. Keeps(d, own, pc, k)
    BY <1>1 DEF Tidy
  <2> QED
    BY <1>1, <1>3, <2>1 DEF Keeps
<1>6. ASSUME NEW x \in Nat, Holds(e, x) # Free PROVE Claimed(e, own, x)
  BY <1>1, <1>3, <1>6 DEF Tidy, Claimed
<1>7. Tidy(e, own, con, pc)
  BY <1>1, <1>2, <1>4, <1>5, <1>6 DEF Tidy
<1> QED
  BY <1>7 DEF e

(* The contents of the planes, with one plane more.                        *)
Extended(pc, key, c) == [k \in DOMAIN pc \cup {key} |-> IF k = key THEN c ELSE pc[k]]

(* The backend keeps a plane more. *)
LEMMA TidyKeep ==
  ASSUME NEW d, NEW own, NEW con, NEW pc, Tidy(d, own, con, pc),
         NEW key, key \notin DOMAIN d.planes, NEW c, c # Free, NEW o \in Allocated(d, c)
  PROVE  LET e == [o.dev EXCEPT !.planes = Extended(@, key, o.at)]
         IN  /\ Tidy(e, own, con, Extended(pc, key, c)) /\ e.spent = d.spent
             /\ e.planes = Extended(d.planes, key, o.at) /\ Holds(e, o.at) = c
<1> DEFINE f == o.dev
           a == o.at
           e == [f EXCEPT !.planes = Extended(@, key, a)]
           q == Extended(pc, key, c)
<1>1. HeapOK(d)
  BY DEF Tidy
<1>2. /\ a \in Nat \ {0} /\ Holds(d, a) = Free /\ HeapOK(f) /\ Aside(d, f)
      /\ \A x \in Nat : Holds(f, x) = IF x = a THEN c ELSE Holds(d, x)
  BY <1>1, AllocatedOK
<1> HIDE DEF a, f
<1>3. /\ e.heap = f.heap /\ e.spent = d.spent /\ e.twice = d.twice /\ e.planes = Extended(d.planes, key, a)
      /\ e = [heap |-> e.heap, planes |-> e.planes, spent |-> e.spent, twice |-> e.twice]
  BY <1>2 DEF HeapOK, Aside
<1>4. DOMAIN pc = DOMAIN d.planes
  BY DEF Tidy
<1>5. /\ DOMAIN e.planes = DOMAIN d.planes \cup {key} /\ e.planes = [k \in DOMAIN e.planes |-> e.planes[k]]
      /\ \A k \in DOMAIN e.planes : e.planes[k] = IF k = key THEN a ELSE d.planes[k]
  BY <1>3 DEF Extended
<1>6. /\ q = [k \in DOMAIN e.planes |-> q[k]]
      /\ \A k \in DOMAIN e.planes : q[k] = IF k = key THEN c ELSE pc[k]
  BY <1>4, <1>5 DEF Extended
<1> HIDE DEF e, q
<1>7. HeapOK(e)
  BY <1>2, <1>3 DEF HeapOK, Aside, Tidy
<1>8. \A x \in Nat : Holds(e, x) = IF x = a THEN c ELSE Holds(d, x)
  BY <1>2, <1>3 DEF Holds
<1>9. \A n \in Names : own[n] \in Nat /\ (own[n] # 0 => Holds(d, own[n]) = con[n] /\ con[n] # Free)
  BY DEF Tidy, Owns
<1>10. \A n \in Names : own[n] # a
  BY <1>2, <1>9
<1>11. ASSUME NEW n \in Names PROVE Owns(e, own, con, n)
  BY <1>8, <1>9, <1>10 DEF Owns
<1>12. ASSUME NEW k \in DOMAIN e.planes PROVE Keeps(e, own, q, k)
  <2>1. CASE k = key
    BY <1>2, <1>5, <1>6, <1>8, <1>10, <2>1 DEF Keeps
  <2>2. CASE k # key
    <3>1. Keeps(d, own, pc, k)
      BY <1>5, <2>2 DEF Tidy
    <3>2. d.planes[k] # a
      BY <1>2, <3>1 DEF Keeps
    <3> QED
      BY <1>5, <1>6, <1>8, <2>2, <3>1, <3>2 DEF Keeps
  <2> QED
    BY <2>1, <2>2
<1>13. ASSUME NEW x \in Nat, Holds(e, x) # Free PROVE Claimed(e, own, x)
  <2>1. CASE x = a
    BY <1>5, <2>1 DEF Claimed
  <2>2. CASE x # a
    <3>1. Claimed(d, own, x)
      BY <1>8, <1>13, <2>2 DEF Tidy
    <3>2. ASSUME NEW k \in DOMAIN d.planes, d.planes[k] = x PROVE e.planes[k] = x /\ k \in DOMAIN e.planes
      BY <1>5, <3>2
    <3> QED
      BY <3>1, <3>2 DEF Claimed
  <2> QED
    BY <2>1, <2>2
<1>14. Tidy(e, own, con, q)
  <2>1. \A m, n \in Names : own[m] = own[n] /\ own[m] # 0 => m = n
    BY DEF Tidy
  <2>2. own \in [Names -> Nat] /\ con = [n \in Names |-> con[n]] /\ e.twice = FALSE
    BY <1>3 DEF Tidy
  <2> QED
    BY <1>5, <1>6, <1>7, <1>11, <1>12, <1>13, <2>1, <2>2 DEF Tidy
<1>15. Holds(e, a) = c
  BY <1>2, <1>8
<1> QED
  BY <1>3, <1>14, <1>15 DEF e, q, a, f

(* c is what key stands for: the plane is there already and holds it, or its
   source is there to be decoded.                                          *)
Stands(d, pc, key, a, as, c) ==
  /\ c # Free
  /\ key \in DOMAIN d.planes => pc[key] = c
  /\ key \notin DOMAIN d.planes => (as = "half" \/ a \notin d.spent) /\ InForm(Holds(d, a), as) = c

(* The plane is there, beside those that were.                             *)
Taken(d, own, con, pc, key, c, o) ==
  /\ Tidy(o.dev, own, con, Extended(pc, key, c)) /\ o.dev.spent = d.spent
  /\ DOMAIN o.dev.planes = DOMAIN d.planes \cup {key} /\ Holds(o.dev, o.at) = c

(* A plane asked for holds what its key stands for: it is there already, or it
   is decoded now, from bytes that were not given back. *)
LEMMA PlaneOK ==
  ASSUME NEW d, NEW own, NEW con, NEW pc, Tidy(d, own, con, pc),
         NEW key, NEW a, NEW as, NEW c, NEW o, o \in Plane(d, key, a, as), Stands(d, pc, key, a, as, c)
  PROVE  Taken(d, own, con, pc, key, c, o)
<1>1. CASE key \in DOMAIN d.planes
  <2>1. o = [dev |-> d, at |-> d.planes[key]]
    BY <1>1 DEF Plane
  <2>2. Extended(pc, key, c) = pc
    <3>1. pc = [k \in DOMAIN pc |-> pc[k]] /\ DOMAIN pc = DOMAIN d.planes
      BY DEF Tidy
    <3>2. DOMAIN pc \cup {key} = DOMAIN pc
      BY <1>1, <3>1
    <3> QED
      BY <1>1, <3>1, <3>2 DEF Extended, Stands
  <2>3. Holds(d, d.planes[key]) = pc[key]
    BY <1>1 DEF Tidy, Keeps
  <2>4. pc[key] = c
    BY <1>1 DEF Stands
  <2>5. DOMAIN d.planes \cup {key} = DOMAIN d.planes
    BY <1>1
  <2> QED
    BY <1>1, <2>1, <2>2, <2>3, <2>4, <2>5 DEF Taken
<1>2. CASE key \notin DOMAIN d.planes
  <2>1. PICK n \in Allocated(d, c) : o = [dev |-> [n.dev EXCEPT !.planes = Extended(@, key, n.at)], at |-> n.at]
    BY <1>2 DEF Plane, Extended, Stands
  <2>2. LET e == [n.dev EXCEPT !.planes = Extended(@, key, n.at)]
        IN  /\ Tidy(e, own, con, Extended(pc, key, c)) /\ e.spent = d.spent
            /\ e.planes = Extended(d.planes, key, n.at) /\ Holds(e, n.at) = c
    BY <1>2, TidyKeep DEF Stands
  <2>3. DOMAIN Extended(d.planes, key, n.at) = DOMAIN d.planes \cup {key}
    BY DEF Extended
  <2> QED
    BY <2>1, <2>2, <2>3 DEF Taken
<1> QED
  BY <1>1, <1>2

-----------------------------------------------------------------------------
(* Places released one after another.                                       *)

(* f[k] is the device after the first k releases.                          *)
Releases(d, places, m, f) ==
  f = [k \in 0 .. m |-> IF k = 0 THEN d ELSE Released(f[k - 1], places[k])]

(* The loop of releases is a function of the step. *)
LEMMA ReleasesExist ==
  ASSUME NEW d, NEW places, NEW n \in Nat
  PROVE  \E f : Releases(d, places, n, f)
<1> DEFINE P == {m \in Nat : \E f : Releases(d, places, m, f)}
<1>1. 0 \in P
  <2> DEFINE g == [k \in 0 .. 0 |-> d]
  <2>1. g = [k \in 0 .. 0 |-> IF k = 0 THEN d ELSE Released(g[k - 1], places[k])]
    OBVIOUS
  <2> HIDE DEF g
  <2>2. Releases(d, places, 0, g)
    BY <2>1 DEF Releases
  <2> QED
    BY <2>2
<1>2. ASSUME NEW m \in 0 .. n - 1, m \in P PROVE m + 1 \in P
  <2>1. PICK f : Releases(d, places, m, f)
    BY <1>2
  <2> DEFINE g == [k \in 0 .. m + 1 |-> IF k = m + 1 THEN Released(f[m], places[m + 1]) ELSE f[k]]
  <2>2. ASSUME NEW k \in 0 .. m + 1
        PROVE  g[k] = IF k = 0 THEN d ELSE Released(g[k - 1], places[k])
    <3>1. CASE k = m + 1
      <4>1. g[m + 1] = Released(f[m], places[m + 1]) /\ g[m] = f[m] /\ (m + 1) - 1 = m /\ m + 1 # 0
        OBVIOUS
      <4> HIDE DEF g
      <4> QED
        BY <3>1, <4>1
    <3>2. CASE k # m + 1
      <4>1. k \in 0 .. m /\ (k # 0 => k - 1 \in 0 .. m)
        BY <3>2
      <4>2. f[k] = IF k = 0 THEN d ELSE Released(f[k - 1], places[k])
        BY <2>1, <4>1, Zenon DEF Releases
      <4>3. g[k] = f[k] /\ (k # 0 => g[k - 1] = f[k - 1])
        BY <3>2, <4>1
      <4> HIDE DEF g
      <4> QED
        BY <4>2, <4>3
    <3> QED
      BY <3>1, <3>2
  <2>3. g = [k \in 0 .. m + 1 |-> IF k = 0 THEN d ELSE Released(g[k - 1], places[k])]
    <3>1. g = [k \in 0 .. m + 1 |-> g[k]]
      OBVIOUS
    <3> HIDE DEF g
    <3> QED
      BY <2>2, <3>1
  <2> HIDE DEF g
  <2>4. Releases(d, places, m + 1, g)
    BY <2>3 DEF Releases
  <2> QED
    BY <2>4
<1>3. Climbs(P, n)
  BY <1>1, <1>2 DEF Climbs
<1>4. n \in 0 .. n
  OBVIOUS
<1> HIDE DEF P
<1>5. n \in P
  BY <1>3, <1>4, Climbed
<1> QED
  BY <1>5 DEF P

(* After k of a list's releases nothing is live that was not before, and
   none of the k places is.                                                *)
Shrunk(d, e, places, k) ==
  /\ HeapOK(e) /\ e.planes = d.planes
  /\ \A x \in Nat : Holds(e, x) # Free => Holds(d, x) # Free /\ \A i \in 1 .. k : places[i] # x

(* A destructor's list, whoever's its places are by now. *)
LEMMA ReleasedAllShrinks ==
  ASSUME NEW d, HeapOK(d), NEW places, NEW n \in Nat, n = Len(places), \A i \in 1 .. n : places[i] \in Nat
  PROVE  Shrunk(d, ReleasedAll(d, places), places, n)
<1> DEFINE f == CHOOSE x : Releases(d, places, n, x)
           P == {k \in 0 .. n : Shrunk(d, f[k], places, k)}
<1>1. Releases(d, places, n, f)
  BY ReleasesExist
<1>2. ReleasedAll(d, places) = f[n]
  BY DEF ReleasedAll, Releases
<1> HIDE DEF f
<1>3. f[0] = d /\ \A k \in 1 .. n : f[k] = Released(f[k - 1], places[k])
  <2>1. \A k \in 0 .. n : f[k] = IF k = 0 THEN d ELSE Released(f[k - 1], places[k])
    BY <1>1, Zenon DEF Releases
  <2> QED
    BY <2>1
<1>4. 0 \in P
  BY <1>3 DEF Shrunk
<1>5. ASSUME NEW k \in 0 .. n - 1, k \in P PROVE k + 1 \in P
  <2> DEFINE a == places[k + 1]
             c == f[k]
             e == f[k + 1]
  <2>1. k + 1 \in 1 .. n /\ (k + 1) - 1 = k /\ a \in Nat /\ Shrunk(d, c, places, k)
    BY <1>5
  <2>2. e = Released(c, a)
    BY <1>3, <2>1
  <2> HIDE DEF a, c, e
  <2>3. HeapOK(c) /\ c.planes = d.planes
    BY <2>1 DEF Shrunk
  <2>4. HeapOK(e) /\ e.planes = d.planes /\ \A x \in Nat : Holds(e, x) # Free => Holds(c, x) # Free /\ x # a
    BY <2>1, <2>2, <2>3, ReleasedAny
  <2>5. \A i \in 1 .. k + 1 : i \in 1 .. k \/ i = k + 1
    OBVIOUS
  <2>6. Shrunk(d, e, places, k + 1)
    BY <2>1, <2>4, <2>5 DEF Shrunk, a
  <2> QED
    BY <2>1, <2>6 DEF e
<1>6. Climbs(P, n)
  BY <1>4, <1>5 DEF Climbs
<1>7. n \in 0 .. n
  OBVIOUS
<1> HIDE DEF P
<1>8. n \in P
  BY <1>6, <1>7, Climbed
<1> QED
  BY <1>2, <1>8 DEF P

(* The names in gone own nothing any more.                                 *)
Without(own, gone) == [n \in Names |-> IF n \in gone THEN 0 ELSE own[n]]

(* The list s names different buffers, places is where they are.           *)
Lists(own, s, places, gone) ==
  /\ Len(s) \in Nat /\ Len(places) = Len(s)
  /\ \A i \in 1 .. Len(s) : s[i] \in Names /\ places[i] = own[s[i]]
  /\ \A i, j \in 1 .. Len(s) : s[i] = s[j] => i = j
  /\ gone = {s[i] : i \in 1 .. Len(s)}

(* A destructor's list of different buffers gives each one's place up, once. *)
LEMMA TidyLoseAll ==
  ASSUME NEW d, NEW own, NEW con, NEW pc, Tidy(d, own, con, pc),
         NEW s, NEW places, NEW given, Lists(own, s, places, given)
  PROVE  Tidy(ReleasedAll(d, places), Without(own, given), con, pc) /\ Aside(d, ReleasedAll(d, places))
<1> USE DEF Lists
<1> DEFINE n == Len(s)
           f == CHOOSE x : Releases(d, places, n, x)
<1>1. Releases(d, places, n, f)
  BY ReleasesExist
<1>2. ReleasedAll(d, places) = f[n]
  BY DEF ReleasedAll, Releases
<1> HIDE DEF f
<1> DEFINE gone(k) == {s[i] : i \in 1 .. k}
           w(k) == Without(own, gone(k))
           P == {k \in 0 .. n : Tidy(f[k], w(k), con, pc) /\ Aside(d, f[k])}
<1>3. f[0] = d /\ \A k \in 0 .. n - 1 : f[k + 1] = Released(f[k], places[k + 1])
  <2>1. ASSUME NEW k \in 0 .. n PROVE f[k] = IF k = 0 THEN d ELSE Released(f[k - 1], places[k])
    BY <1>1, Zenon DEF Releases
  <2>2. ASSUME NEW k \in 0 .. n - 1 PROVE f[k + 1] = Released(f[k], places[k + 1])
    <3>1. k + 1 \in 0 .. n /\ (k + 1) - 1 = k /\ k + 1 # 0
      OBVIOUS
    <3>2. f[k + 1] = Released(f[(k + 1) - 1], places[k + 1])
      BY <2>1, <3>1
    <3> QED
      BY <3>1, <3>2
  <2> QED
    BY <2>1, <2>2
<1>4. 0 \in P
  <2>1. gone(0) = {} /\ 0 \in 0 .. n
    OBVIOUS
  <2> HIDE DEF gone
  <2>2. w(0) = own
    BY <2>1 DEF Without, Tidy
  <2> HIDE DEF w, n
  <2>3. Tidy(f[0], w(0), con, pc) /\ Aside(d, f[0])
    BY <1>3, <2>2 DEF Aside
  <2> QED
    BY <2>1, <2>3
<1>5. ASSUME NEW k \in 0 .. n - 1, k \in P PROVE k + 1 \in P
  <2>1. Tidy(f[k], w(k), con, pc) /\ Aside(d, f[k]) /\ k + 1 \in 0 .. n
    <3>1. k + 1 \in 0 .. n
      OBVIOUS
    <3>2. \A j \in P : Tidy(f[j], w(j), con, pc) /\ Aside(d, f[j])
      OBVIOUS
    <3> HIDE DEF P, w, n
    <3> QED
      BY <1>5, <3>1, <3>2
  <2> DEFINE b == s[k + 1]
  <2>2. b \in Names /\ places[k + 1] = own[b]
    BY <2>1
  <2>3. b \notin gone(k)
    <3>1. \A i \in 1 .. k : i \in 1 .. n /\ k + 1 \in 1 .. n /\ i # k + 1
      BY <2>1
    <3> QED
      BY <3>1
  <2>4. gone(k + 1) = gone(k) \cup {b}
    <3>1. \A j : j \in 1 .. k + 1 <=> j \in 1 .. k \/ j = k + 1
      OBVIOUS
    <3> QED
      BY <3>1
  <2> HIDE DEF b, gone
  <2>5. w(k)[b] = own[b] /\ w(k + 1) = [w(k) EXCEPT ![b] = 0]
    BY <2>2, <2>3, <2>4 DEF Without
  <2> HIDE DEF w
  <2>6. /\ Tidy(Released(f[k], w(k)[b]), [w(k) EXCEPT ![b] = 0], con, pc)
        /\ Aside(f[k], Released(f[k], w(k)[b]))
    BY <2>1, <2>2, TidyLose
  <2>7. f[k + 1] = Released(f[k], w(k)[b])
    BY <1>3, <2>2, <2>5
  <2>8. Tidy(f[k + 1], w(k + 1), con, pc) /\ Aside(d, f[k + 1])
    BY <2>1, <2>5, <2>6, <2>7 DEF Aside
  <2> QED
    BY <2>1, <2>8
<1>6. Climbs(P, n)
  BY <1>4, <1>5 DEF Climbs
<1>7. n \in 0 .. n
  OBVIOUS
<1> HIDE DEF P
<1>8. n \in P
  BY <1>6, <1>7, Climbed
<1> QED
  BY <1>2, <1>8 DEF P

-----------------------------------------------------------------------------
(* The session: what its memory is at each step.                           *)

(* The buffers that are no weights, one handle and one place each.         *)
Plain == {"rope", "x", "plane", "mrope", "kv"} \cup TowerBuffers

(* Every handle of a session.                                              *)
AllBuffers == Buffers \cup TowerBuffers

(* The place each buffer answers for: not a head that is the table's, nor a
   weight whose bytes were given back.                                     *)
Owners(h, f) ==
  [b \in Names |-> IF \/ b = "spare"
                      \/ b = "head" /\ h["head"] = h["embd"]
                      \/ b \in Weights /\ f[b] = "spent"
                   THEN 0 ELSE h[b]]

(* What the bytes of a buffer are.                                         *)
IsFor(b, c, f, r, t) ==
  CASE b \in Weights -> c = Content(b, f[b], 0)
    [] b \in {"norm", "gamma"} -> c = Content(b, "dense", 0)
    [] b = "rope" -> c = Content("rope", "f32", r.rope)
    [] b = "kv" -> c = Content("kv", "f16", r.kv)
    [] b \in {"x", "plane", "mrope"} -> c = Content(b, "f32", c.version)
    [] b = "t_weight" -> c = Content("t_weight", "dense", 0)
    [] b = "t_x" -> c = Content("t_x", "f32", 0)
    [] b = "t_scores" -> c = Content("t_scores", "f32", t.room)
    [] b \in {"t_index", "t_table"} -> c = Content(b, "f32", t.grid)

(* The weights with a handle of their own.                                 *)
Bodies(h) == {w \in Weights : h[w] # 0 /\ ~(w = "head" /\ h["head"] = h["embd"])}

(* What a plane is kept under, and what it holds.                          *)
PlaneIs(k, c, h) ==
  \/ h["embd"] # 0 /\ k = Key("emb", h["embd"], 0) /\ c = Content("embd", "table", 0)
  \/ \E w \in Bodies(h) : k = Key("cube", h[w], 0) /\ c = Content(w, "cube", 0)
  \/ \E b \in {"norm", "gamma"} : h[b] # 0 /\ k = Key("norm", h[b], 0) /\ c = Content(b, "half", 0)
  \/ \E a, n : k = Key("rope", a, n) /\ c = Content("rope", "half", n)

(* The planes a weight is read through.                                    *)
Through(h, w) ==
  IF w # "embd" THEN {Key("cube", h[w], 0)}
  ELSE {Key("emb", h[w], 0)} \cup (IF h["head"] = h["embd"] THEN {Key("cube", h[w], 0)} ELSE {})

(* A weight that was given back can be read through planes; one that was not
   is not marked as given back.                                            *)
Decodes(w, d, h, f) ==
  IF f[w] = "spent" THEN Through(h, w) \subseteq DOMAIN d.planes ELSE h[w] \notin d.spent

(* The session's memory: places, contents, planes.                         *)
Sound(d, h, f, con, pc, r, t) ==
  /\ Tidy(d, Owners(h, f), con, pc)
  /\ \A b \in AllBuffers : Owners(h, f)[b] # 0 => IsFor(b, con[b], f, r, t)
  /\ \A k \in DOMAIN d.planes : PlaneIs(k, pc[k], h)
  /\ \A w \in Bodies(h) : Decodes(w, d, h, f)
  /\ \A v, w \in Bodies(h) : h[v] = h[w] => v = w

(* The memory of the session is sound as it is.                            *)
SoundNow == \E con, pc : Sound(dev, held, form, con, pc, rows, tower)

(* What kind of value each variable of a session is.                       *)
Types ==
  /\ held \in [AllBuffers -> Nat] /\ form = [w \in Weights |-> form[w]]
  /\ rows = [rope |-> rows.rope, kv |-> rows.kv]
  /\ tower = [owned |-> tower.owned, grid |-> tower.grid, room |-> tower.room, regrown |-> tower.regrown]
  /\ tower.grid \in DOMAIN Patches /\ tower.room \in Nat /\ tower.regrown \in BOOLEAN
  /\ \A w \in Weights : form[w] = "spent" => shape.backend = "ascend"
  /\ Tied => form["head"] = form["embd"]
  /\ call.pos # 0 => ~Ascend

(* What ~Qwen3VlVision and ~Qwen3Audio find in owned_.                     *)
Owned(h) ==
  IF h["t_weight"] = 0 THEN << >>
  ELSE IF shape.tower = "vision" /\ h["t_x"] # 0 THEN <<h["t_weight"], h["t_x"], h["t_scores"], h["t_index"]>>
  ELSE <<h["t_weight"]>>

(* owned_ when the scores were replaced: the first are still in it.        *)
OwnedFirst == \E s \in Nat : tower.owned = <<held["t_weight"], held["t_x"], s, held["t_index"]>>

(* The tower's list of what it owns, and the room of its scores.           *)
TowerOK ==
  /\ ~tower.regrown => tower.owned = Owned(held)
  /\ tower.regrown => held["t_scores"] # 0 /\ shape.tower = "vision" /\ OwnedFirst
  /\ held["t_scores"] # 0 => Patches[tower.grid] <= tower.room
  /\ held["t_scores"] = 0 => tower.grid = 1

(* The checkpoint has a tower.                                             *)
HasTower == shape.tower \in {"vision", "audio"}

(* Which handles are set when step k of the load is next.                  *)
HeldAt(k) ==
  /\ held["embd"] # 0 <=> k > 1
  /\ held["head"] # 0 <=> k > 2
  /\ held["norm"] # 0 <=> k > 3
  /\ held["gamma"] # 0 <=> k > 4
  /\ held["wq"] # 0 <=> k > 5
  /\ held["w_down"] # 0 <=> k > 6
  /\ held["rope"] # 0 <=> k > 8
  /\ held["x"] # 0 <=> k > 9
  /\ held["mrope"] # 0 <=> k > 9
  /\ held["plane"] # 0 <=> (k > 9 /\ shape.deepstack)
  /\ held["t_weight"] # 0 <=> (k > 10 /\ HasTower)
  /\ held["t_x"] # 0 <=> (k > 11 /\ HasTower)
  /\ held["t_scores"] # 0 <=> (k > 11 /\ shape.tower = "vision")
  /\ held["t_index"] # 0 <=> (k > 11 /\ shape.tower = "vision")
  /\ held["t_table"] # 0 <=> (k > 11 /\ shape.tower = "vision")

(* Nothing was decoded, nothing given back.                                *)
Fresh == DOMAIN dev.planes = {} /\ dev.spent = {} /\ \A w \in Weights : form[w] # "spent"

(* The steps of s from step k on.                                          *)
Rest(s, k) == SubSeq(s, k, Len(s))

(* The steps of a load.                                                    *)
Loads == LoadSteps \o TowerSteps

(* The steps of reserve.                                                   *)
ReserveSteps == <<"reserve_kv", "grow_rope">>

(* The steps of a close, the tower's first.                                *)
Closing == <<"destroy_tower">> \o CloseSteps

(* Step k of the load is next.                                             *)
LoadingAt(k) ==
  /\ k \in 1 .. Len(Loads) /\ todo = Rest(Loads, k)
  /\ HeldAt(k) /\ (k <= 7 => Fresh)

(* The scratch buffers hold this call's inputs.                            *)
InputsIn ==
  /\ Holds(dev, held["x"]) = Content("x", "f32", 1)
  /\ call.kind = "planes" /\ shape.deepstack => Holds(dev, held["plane"]) = Content("plane", "f32", 1)
  /\ call.pos # 0 => Holds(dev, held["mrope"]) = Content("mrope", "f32", call.pos)

(* Step k of a call is next.                                               *)
CallingAt(k) ==
  /\ k \in 1 .. 6 /\ todo = Rest(CallSteps, k)
  /\ HeldAt(12) /\ (k > 2 => held["kv"] # 0) /\ (k = 5 => InputsIn)

(* Step k of reserve is next.                                              *)
ReservingAt(k) == k \in 1 .. 2 /\ todo = Rest(ReserveSteps, k) /\ HeldAt(12)

(* The session is loaded and has nothing under way.                        *)
Resting == todo = << >> /\ HeldAt(12)

(* A close has begun, and released nothing yet.                            *)
ClosingNow == todo = Closing /\ \E k \in 1 .. 12 : HeldAt(k)

(* Where a session that has not begun to release can be.                   *)
Alive ==
  \/ \E k \in Nat : LoadingAt(k) \/ CallingAt(k) \/ ReservingAt(k)
  \/ Resting \/ ClosingNow

(* What the tower's destructor releases.                                   *)
TowerParts == {"t_weight", "t_x", "t_scores", "t_index"}

(* What it leaves: the scores, if they are no longer the first.            *)
TowerGone == IF tower.regrown THEN TowerParts \ {"t_scores"} ELSE TowerParts

(* What is live is a name's or a plane's.                                  *)
Loose(d, own) ==
  /\ HeapOK(d) /\ own \in [Names -> Nat] /\ \A x \in Nat : Holds(d, x) # Free => Claimed(d, own, x)

(* The tower is gone, its table of positions is not.                       *)
Parted == \E con, pc : Tidy(dev, Without(Owners(held, form), TowerParts), con, pc)

(* The tower is gone; a place it owned twice may have been another's.      *)
TowerLeft == Loose(dev, Without(Owners(held, form), TowerGone)) /\ (~tower.regrown => Parted)

(* A session is loading or serving; has released its tower; or is closed.  *)
Stage ==
  \/ phase # "closed" /\ Alive /\ SoundNow
  \/ phase # "closed" /\ todo = CloseSteps /\ TowerLeft
  \/ phase = "closed" /\ todo = << >>

(* The inductive invariant of a session's memory.                          *)
SessionInv == Types /\ TowerOK /\ Stage /\ ReadsWhatItMeans /\ ClosedGivesBack

-----------------------------------------------------------------------------
(* The lists of steps.                                                      *)

(* One step further in a list. *)
LEMMA RestStep ==
  ASSUME NEW S, NEW s \in Seq(S), NEW k \in 1 .. Len(s)
  PROVE  Rest(s, k) # << >> /\ Head(Rest(s, k)) = s[k] /\ Tail(Rest(s, k)) = Rest(s, k + 1)
<1> DEFINE r == Rest(s, k)
           q == Rest(s, k + 1)
<1>1. /\ r \in Seq(S) /\ Len(r) = Len(s) - k + 1 /\ \A i \in 1 .. Len(r) : r[i] = s[k + i - 1]
      /\ Len(r) \in Nat /\ Len(r) # 0
  BY DEF Rest
<1>2. q \in Seq(S) /\ Len(q) = Len(s) - k /\ \A i \in 1 .. Len(q) : q[i] = s[k + i]
  BY DEF Rest
<1> HIDE DEF r, q
<1>3. r # << >> /\ Head(r) = r[1] /\ r[1] = s[k]
  BY <1>1
<1>4. Tail(r) \in Seq(S) /\ Len(Tail(r)) = Len(s) - k /\ \A i \in 1 .. Len(s) - k : Tail(r)[i] = r[i + 1]
  BY <1>1, <1>3
<1>5. Tail(r) = q
  <2>1. \A i \in 1 .. Len(q) : Tail(r)[i] = q[i]
    <3>1. ASSUME NEW i \in 1 .. Len(q) PROVE Tail(r)[i] = q[i]
      <4>1. i \in 1 .. Len(s) - k /\ i + 1 \in 1 .. Len(r) /\ k + (i + 1) - 1 = k + i
        BY <1>1, <1>2
      <4> QED
        BY <1>1, <1>2, <1>4, <4>1
    <3> QED
      BY <3>1
  <2> QED
    BY <1>2, <1>4, <2>1, SeqEqual
<1> QED
  BY <1>3, <1>5 DEF r, q

(* The end of a list. *)
LEMMA RestEnd ==
  ASSUME NEW S, NEW s \in Seq(S)
  PROVE  Rest(s, Len(s) + 1) = << >>
BY DEF Rest

(* The names of the steps.                                                 *)
StepNames ==
  {"embd", "head", "norm", "gamma", "wq", "w_down", "materialize", "rope", "scratch", "t_weight", "t_activations",
   "t_buffers", "kv", "grow_rope", "inputs", "layers", "logits", "reserve_kv", "destroy_tower", "destroy"}

(* A load, step by step. *)
LEMMA LoadsAre ==
  /\ Loads \in Seq(StepNames)
  /\ Loads[1] = "embd" /\ Loads[2] = "head" /\ Loads[3] = "norm" /\ Loads[4] = "gamma" /\ Loads[5] = "wq"
  /\ Loads[6] = "w_down" /\ Loads[7] = "materialize" /\ Loads[8] = "rope" /\ Loads[9] = "scratch"
  /\ ~HasTower => Len(Loads) = 9
  /\ HasTower => Len(Loads) = 11 /\ Loads[10] = "t_weight"
  /\ shape.tower = "vision" => Loads[11] = "t_activations"
  /\ shape.tower = "audio" => Loads[11] = "t_buffers"
<1>1. CASE shape.tower = "vision"
  <2>1. TowerSteps = <<"t_weight", "t_activations">>
    BY <1>1 DEF TowerSteps
  <2> QED
    BY <1>1, <2>1 DEF Loads, LoadSteps, HasTower, StepNames
<1>2. CASE shape.tower = "audio"
  <2>1. TowerSteps = <<"t_weight", "t_buffers">>
    BY <1>2 DEF TowerSteps
  <2> QED
    BY <1>2, <2>1 DEF Loads, LoadSteps, HasTower, StepNames
<1>3. CASE ~HasTower
  <2>1. TowerSteps = << >>
    BY <1>3 DEF TowerSteps, HasTower
  <2> QED
    BY <1>3, <2>1 DEF Loads, LoadSteps, HasTower, StepNames
<1> QED
  BY <1>1, <1>2, <1>3 DEF HasTower

(* The other lists. *)
LEMMA ListsAre ==
  /\ CallSteps \in Seq(StepNames) /\ Len(CallSteps) = 6
  /\ CallSteps[1] = "scratch" /\ CallSteps[2] = "kv" /\ CallSteps[3] = "grow_rope" /\ CallSteps[4] = "inputs"
  /\ CallSteps[5] = "layers" /\ CallSteps[6] = "logits"
  /\ ReserveSteps \in Seq(StepNames) /\ Len(ReserveSteps) = 2
  /\ ReserveSteps[1] = "reserve_kv" /\ ReserveSteps[2] = "grow_rope"
  /\ Closing = <<"destroy_tower", "destroy">> /\ CloseSteps = <<"destroy">>
<1>1. CallSteps \in Seq(StepNames) /\ Len(CallSteps) = 6 /\ ReserveSteps \in Seq(StepNames) /\ Len(ReserveSteps) = 2
  BY DEF CallSteps, ReserveSteps, StepNames
<1>2. Closing = <<"destroy_tower", "destroy">>
  <2> DEFINE u == <<"destroy_tower", "destroy">>
             v == <<"destroy_tower">> \o <<"destroy">>
  <2>1. u \in Seq(StepNames) /\ v \in Seq(StepNames) /\ Len(u) = 2 /\ Len(v) = 2 /\ \A i \in 1 .. 2 : u[i] = v[i]
    BY DEF StepNames
  <2> HIDE DEF u, v
  <2>2. u = v
    BY <2>1, SeqEqual
  <2> QED
    BY <2>2 DEF u, v, Closing, CloseSteps
<1> QED
  BY <1>1, <1>2 DEF CallSteps, ReserveSteps, CloseSteps

(* The session is open and its memory is sound. *)
Serving == phase # "closed" /\ SoundNow

(* Where the session is when it takes a step. *)
LEMMA Standing ==
  ASSUME Stage, NEW n, Step(n)
  PROVE  \/ Serving /\ \E k \in Nat : LoadingAt(k) /\ n = Loads[k] /\ todo' = Rest(Loads, k + 1)
         \/ Serving /\ \E k \in 1 .. 6 : CallingAt(k) /\ n = CallSteps[k] /\ todo' = Rest(CallSteps, k + 1)
         \/ Serving /\ \E k \in 1 .. 2 : ReservingAt(k) /\ n = ReserveSteps[k] /\ todo' = Rest(ReserveSteps, k + 1)
         \/ Serving /\ ClosingNow /\ n = "destroy_tower" /\ todo' = CloseSteps
         \/ /\ phase # "closed" /\ todo = CloseSteps /\ TowerLeft
            /\ n = "destroy" /\ todo' = << >>
<1>1. todo # << >> /\ n = Head(todo) /\ todo' = Tail(todo)
  BY DEF Step
<1>2. ASSUME NEW k \in Nat, LoadingAt(k) PROVE n = Loads[k] /\ todo' = Rest(Loads, k + 1)
  <2>1. k \in 1 .. Len(Loads) /\ todo = Rest(Loads, k)
    BY <1>2 DEF LoadingAt
  <2>2. Loads \in Seq(StepNames)
    BY LoadsAre
  <2> QED
    BY <1>1, <2>1, <2>2, RestStep
<1>3. ASSUME NEW k \in Nat, CallingAt(k) PROVE k \in 1 .. 6 /\ n = CallSteps[k] /\ todo' = Rest(CallSteps, k + 1)
  <2>1. k \in 1 .. 6 /\ todo = Rest(CallSteps, k)
    BY <1>3 DEF CallingAt
  <2>2. CallSteps \in Seq(StepNames) /\ Len(CallSteps) = 6
    BY ListsAre
  <2> QED
    BY <1>1, <2>1, <2>2, RestStep
<1>4. ASSUME NEW k \in Nat, ReservingAt(k)
      PROVE  k \in 1 .. 2 /\ n = ReserveSteps[k] /\ todo' = Rest(ReserveSteps, k + 1)
  <2>1. k \in 1 .. 2 /\ todo = Rest(ReserveSteps, k)
    BY <1>4 DEF ReservingAt
  <2>2. ReserveSteps \in Seq(StepNames) /\ Len(ReserveSteps) = 2
    BY ListsAre
  <2> QED
    BY <1>1, <2>1, <2>2, RestStep
<1>5. ASSUME ClosingNow PROVE n = "destroy_tower" /\ todo' = CloseSteps
  BY <1>1, <1>5, ListsAre DEF ClosingNow
<1>6. ASSUME todo = CloseSteps PROVE n = "destroy" /\ todo' = << >>
  BY <1>1, <1>6, ListsAre
<1>7. CASE phase # "closed" /\ Alive /\ SoundNow
  <2>1. Serving
    BY <1>7 DEF Serving
  <2>2. CASE \E k \in Nat : LoadingAt(k) \/ CallingAt(k) \/ ReservingAt(k)
    <3>1. PICK k \in Nat : LoadingAt(k) \/ CallingAt(k) \/ ReservingAt(k)
      BY <2>2
    <3> QED
      BY <1>2, <1>3, <1>4, <2>1, <3>1
  <2>3. CASE Resting
    BY <1>1, <2>3 DEF Resting
  <2>4. CASE ClosingNow
    BY <1>5, <2>1, <2>4
  <2> QED
    BY <1>7, <2>2, <2>3, <2>4 DEF Alive
<1>8. CASE phase # "closed" /\ todo = CloseSteps /\ TowerLeft
  BY <1>6, <1>8
<1>9. CASE phase = "closed" /\ todo = << >>
  BY <1>1, <1>9
<1> QED
  BY <1>7, <1>8, <1>9 DEF Stage

(* A step of the load leads to the next, or to rest. *)
LEMMA LoadMoves ==
  ASSUME NEW k \in 1 .. Len(Loads), todo' = Rest(Loads, k + 1), shape' = shape,
         phase' # "closed", SoundNow', HeldAt(k + 1)', k + 1 <= 7 => Fresh'
  PROVE  Stage'
<1>1. Loads \in Seq(StepNames) /\ (Len(Loads) = 9 \/ Len(Loads) = 11) /\ (Len(Loads) = 9 <=> ~HasTower)
  BY LoadsAre
<1>2. Loads' = Loads /\ HasTower' = HasTower
  BY DEF Loads, TowerSteps, HasTower
<1>3. CASE k = Len(Loads)
  <2>1. todo' = << >>
    BY <1>1, <1>3, RestEnd
  <2>2. HeldAt(12)'
    <3>1. CASE k = 9
      BY <1>1, <1>2, <1>3, <3>1 DEF HeldAt, HasTower
    <3>2. CASE k = 11
      BY <3>2
    <3> QED
      BY <1>1, <1>3, <3>1, <3>2
  <2>3. Resting'
    BY <2>1, <2>2 DEF Resting
  <2> QED
    BY <2>3 DEF Stage, Alive
<1>4. CASE k # Len(Loads)
  <2>1. k + 1 \in 1 .. Len(Loads) /\ k + 1 \in Nat
    BY <1>1, <1>4
  <2> DEFINE m == k + 1
  <2>2. LoadingAt(m)'
    BY <1>2, <2>1 DEF LoadingAt, Rest
  <2>3. m \in Nat
    BY <2>1
  <2> HIDE DEF m
  <2>4. Alive'
    BY <2>2, <2>3 DEF Alive
  <2> QED
    BY <2>4 DEF Stage
<1> QED
  BY <1>3, <1>4

(* So does a step of a forward. *)
LEMMA CallMoves ==
  ASSUME NEW k \in 1 .. 6, todo' = Rest(CallSteps, k + 1), phase' # "closed", SoundNow', HeldAt(12)',
         k > 1 => held'["kv"] # 0, k = 4 => InputsIn'
  PROVE  Stage'
<1>1. CASE k = 6
  <2>1. todo' = << >>
    BY <1>1, RestEnd, ListsAre
  <2>2. Resting'
    BY <2>1 DEF Resting
  <2> QED
    BY <2>2 DEF Stage, Alive
<1>2. CASE k # 6
  <2> DEFINE m == k + 1
  <2>1. m \in 1 .. 6 /\ m \in Nat /\ (m > 2 => k > 1) /\ (m = 5 => k = 4)
    BY <1>2
  <2>2. todo' = Rest(CallSteps, m)
    OBVIOUS
  <2> HIDE DEF m
  <2>3. CallingAt(m)'
    BY <2>1, <2>2 DEF CallingAt, Rest, CallSteps
  <2>4. Alive'
    BY <2>1, <2>3 DEF Alive
  <2> QED
    BY <2>4 DEF Stage
<1> QED
  BY <1>1, <1>2

(* And of a reserve. *)
LEMMA ReserveMoves ==
  ASSUME NEW k \in 1 .. 2, todo' = Rest(ReserveSteps, k + 1), phase' # "closed", SoundNow', HeldAt(12)'
  PROVE  Stage'
<1>1. CASE k = 2
  <2>1. todo' = << >>
    BY <1>1, RestEnd, ListsAre
  <2>2. Resting'
    BY <2>1 DEF Resting
  <2> QED
    BY <2>2 DEF Stage, Alive
<1>2. CASE k # 2
  <2>1. k + 1 \in 1 .. 2 /\ k + 1 \in Nat
    BY <1>2
  <2> DEFINE m == k + 1
  <2>2. todo' = Rest(ReserveSteps, m) /\ m \in 1 .. 2 /\ m \in Nat
    BY <2>1
  <2> HIDE DEF m
  <2>3. ReservingAt(m)'
    BY <2>2 DEF ReservingAt, Rest, ReserveSteps
  <2>4. Alive'
    BY <2>2, <2>3 DEF Alive
  <2> QED
    BY <2>4 DEF Stage
<1> QED
  BY <1>1, <1>2

(* Where a step of the load, of a name no other list has, is taken. *)
LEMMA LoadStands ==
  ASSUME Stage, NEW n, Step(n), n \notin {"scratch", "kv", "grow_rope", "inputs", "layers", "logits",
                                        "reserve_kv", "destroy_tower", "destroy"}
  PROVE  Serving /\ \E k \in 1 .. Len(Loads) : LoadingAt(k) /\ n = Loads[k] /\ todo' = Rest(Loads, k + 1)
<1>1. \A k \in 1 .. 6 : n # CallSteps[k]
  BY ListsAre
<1>2. \A k \in 1 .. 2 : n # ReserveSteps[k]
  BY ListsAre
<1>3. PICK k \in Nat : Serving /\ LoadingAt(k) /\ n = Loads[k] /\ todo' = Rest(Loads, k + 1)
  BY <1>1, <1>2, Standing
<1> QED
  BY <1>3 DEF LoadingAt

-----------------------------------------------------------------------------
(* Who answers for what.                                                    *)

(* The owner of each kind of buffer. *)
LEMMA OwnersAre ==
  ASSUME NEW h \in [AllBuffers -> Nat], NEW f
  PROVE  /\ Owners(h, f) \in [Names -> Nat] /\ Owners(h, f)["spare"] = 0
         /\ \A b \in AllBuffers \ Weights : Owners(h, f)[b] = h[b]
         /\ Owners(h, f)["embd"] = IF f["embd"] = "spent" THEN 0 ELSE h["embd"]
         /\ \A w \in Matrices : Owners(h, f)[w] = IF f[w] = "spent" THEN 0 ELSE h[w]
         /\ Owners(h, f)["head"] = IF h["head"] = h["embd"] \/ f["head"] = "spent" THEN 0 ELSE h["head"]
BY DEF Owners, Names, AllBuffers, Buffers, TowerBuffers, Weights, Matrices

(* The kinds of buffers. *)
LEMMA BuffersAre ==
  /\ Weights \subseteq AllBuffers /\ Plain \subseteq AllBuffers \ Weights /\ AllBuffers \subseteq Names
  /\ {"norm", "gamma"} \subseteq AllBuffers \ Weights /\ "spare" \in Names \ AllBuffers
  /\ AllBuffers = Weights \cup {"norm", "gamma"} \cup Plain /\ Names = AllBuffers \cup {"spare"}
BY DEF Plain, Names, AllBuffers, Buffers, TowerBuffers, Weights, Matrices

(* A plain buffer answers for its own place. *)
LEMMA PlainOwns ==
  ASSUME NEW h \in [AllBuffers -> Nat], NEW f, NEW b \in Plain
  PROVE  Owners(h, f)[b] = h[b] /\ b \in Names /\ b \in AllBuffers \ Weights /\ b # "spare"
BY OwnersAre, BuffersAre

(* The handle of b is set. *)
With(h, b, a) == [h EXCEPT ![b] = a]

(* Setting the handle of a plain buffer sets what it answers for. *)
LEMMA OwnersPlain ==
  ASSUME NEW h \in [AllBuffers -> Nat], NEW f, NEW b \in Plain, NEW a \in Nat
  PROVE  Owners(With(h, b, a), f) = With(Owners(h, f), b, a) /\ With(h, b, a) \in [AllBuffers -> Nat]
<1> DEFINE g == [h EXCEPT ![b] = a]
<1>1. b \in AllBuffers /\ b \in Names /\ b \notin Weights /\ b \notin {"embd", "head", "spare"}
  BY BuffersAre DEF Plain, TowerBuffers, Weights, Matrices
<1>2. g \in [AllBuffers -> Nat] /\ g["embd"] = h["embd"] /\ g["head"] = h["head"]
      /\ \A n \in Names : n # b => g[n] = h[n]
  BY <1>1 DEF Names, AllBuffers, Buffers, Weights, Matrices
<1>3. g[b] = a
  BY <1>1
<1> HIDE DEF g
<1>4. Owners(g, f)[b] = a /\ Owners(h, f)[b] = h[b]
  BY <1>1, <1>2, <1>3, OwnersAre
<1>5. \A n \in Names : n # b => Owners(g, f)[n] = Owners(h, f)[n]
  BY <1>2 DEF Owners
<1>6. Owners(g, f) = [Owners(h, f) EXCEPT ![b] = a]
  <2>1. Owners(g, f) \in [Names -> Nat] /\ Owners(h, f) \in [Names -> Nat]
    BY <1>2, OwnersAre
  <2> DEFINE u == Owners(g, f)
             v == Owners(h, f)
  <2>2. u \in [Names -> Nat] /\ v \in [Names -> Nat] /\ u[b] = a /\ \A n \in Names : n # b => u[n] = v[n]
    BY <1>4, <1>5, <2>1
  <2> HIDE DEF u, v
  <2>3. u = [v EXCEPT ![b] = a]
    BY <1>1, <2>2
  <2> QED
    BY <2>3 DEF u, v
<1> QED
  BY <1>1, <1>2, <1>4, <1>6 DEF g, With

(* Bytes stay of a buffer while what it is known by stays. *)
LEMMA IsForStays ==
  ASSUME NEW b \in AllBuffers, NEW c, NEW f, NEW r, NEW t, IsFor(b, c, f, r, t), NEW f2, NEW r2, NEW t2,
         b \in Weights => f2[b] = f[b], b = "rope" => r2.rope = r.rope, b = "kv" => r2.kv = r.kv,
         b = "t_scores" => t2.room = t.room, b \in {"t_index", "t_table"} => t2.grid = t.grid
  PROVE  IsFor(b, c, f2, r2, t2)
BY DEF IsFor, AllBuffers, Buffers, TowerBuffers, Weights, Matrices

(* A step that leaves the weights, the norms and the planes alone. *)
LEMMA SoundPlain ==
  ASSUME NEW d, NEW h, NEW f, NEW con, NEW pc, NEW r, NEW t, Sound(d, h, f, con, pc, r, t),
         NEW e, NEW g, NEW q, NEW r2, NEW t2, Tidy(e, Owners(g, f), q, pc), Aside(d, e),
         \A b \in Weights \cup {"norm", "gamma"} : g[b] = h[b],
         \A b \in AllBuffers : Owners(g, f)[b] # 0 => IsFor(b, q[b], f, r2, t2)
  PROVE  Sound(e, g, f, q, pc, r2, t2)
<1>1. g["embd"] = h["embd"] /\ g["head"] = h["head"] /\ (\A w \in Matrices : g[w] = h[w]) /\ g["norm"] = h["norm"]
      /\ g["gamma"] = h["gamma"]
  BY DEF Weights, Matrices
<1>2. e.planes = d.planes /\ e.spent = d.spent
  BY DEF Aside
<1>3. Bodies(g) = Bodies(h)
  BY <1>1 DEF Bodies
<1>4. ASSUME NEW k \in DOMAIN e.planes PROVE PlaneIs(k, pc[k], g)
  <2>1. PlaneIs(k, pc[k], h)
    BY <1>2 DEF Sound
  <2>2. \A w \in Bodies(h) : g[w] = h[w]
    BY DEF Bodies
  <2> QED
    BY <1>1, <1>3, <2>1, <2>2 DEF PlaneIs
<1>5. ASSUME NEW w \in Bodies(g) PROVE Decodes(w, e, g, f)
  <2>1. Decodes(w, d, h, f) /\ g[w] = h[w]
    BY <1>3 DEF Sound, Bodies
  <2>2. Through(g, w) = Through(h, w)
    BY <1>1, <2>1 DEF Through
  <2> QED
    BY <1>2, <2>1, <2>2 DEF Decodes
<1>6. ASSUME NEW v \in Bodies(g), NEW w \in Bodies(g), g[v] = g[w] PROVE v = w
  <2>1. g[v] = h[v] /\ g[w] = h[w]
    BY DEF Bodies
  <2> QED
    BY <1>3, <1>6, <2>1 DEF Sound
<1> QED
  BY <1>4, <1>5, <1>6 DEF Sound

-----------------------------------------------------------------------------
(* Planes and reads.                                                        *)

(* What a plane holds follows from its key. *)
LEMMA PlaneHolds ==
  ASSUME NEW h, NEW k, NEW c, PlaneIs(k, c, h), \A v, w \in Bodies(h) : h[v] = h[w] => v = w,
         h["norm"] = h["gamma"] => h["norm"] = 0
  PROVE  /\ \A w \in Bodies(h) : k = Key("cube", h[w], 0) => c = Content(w, "cube", 0)
         /\ \A a : k = Key("emb", a, 0) => c = Content("embd", "table", 0)
         /\ \A b \in {"norm", "gamma"} : k = Key("norm", h[b], 0) /\ h[b] # 0 => c = Content(b, "half", 0)
         /\ \A a, n : k = Key("rope", a, n) => c = Content("rope", "half", n)
<1>1. CASE h["embd"] # 0 /\ k = Key("emb", h["embd"], 0) /\ c = Content("embd", "table", 0)
  BY <1>1 DEF Key
<1>2. CASE \E w \in Bodies(h) : k = Key("cube", h[w], 0) /\ c = Content(w, "cube", 0)
  <2>1. PICK w \in Bodies(h) : k = Key("cube", h[w], 0) /\ c = Content(w, "cube", 0)
    BY <1>2
  <2>2. \A v \in Bodies(h) : k = Key("cube", h[v], 0) => v = w
    BY <2>1 DEF Key
  <2> QED
    BY <2>1, <2>2 DEF Key
<1>3. CASE \E b \in {"norm", "gamma"} : h[b] # 0 /\ k = Key("norm", h[b], 0) /\ c = Content(b, "half", 0)
  BY <1>3 DEF Key
<1>4. CASE \E a, n : k = Key("rope", a, n) /\ c = Content("rope", "half", n)
  BY <1>4 DEF Key
<1> QED
  BY <1>1, <1>2, <1>3, <1>4 DEF PlaneIs

(* A sound memory, whatever its planes hold. *)
Steady(d, h, f, con, r, t) == \E pc : Sound(d, h, f, con, pc, r, t)

(* One plane more, of what its key stands for. *)
LEMMA SoundKeeps ==
  ASSUME NEW d, NEW h, NEW f, NEW con, NEW pc, NEW r, NEW t, Sound(d, h, f, con, pc, r, t),
         NEW key, NEW c, PlaneIs(key, c, h), NEW e, Tidy(e, Owners(h, f), con, Extended(pc, key, c)),
         e.spent = d.spent, DOMAIN e.planes = DOMAIN d.planes \cup {key}
  PROVE  Sound(e, h, f, con, Extended(pc, key, c), r, t)
<1> DEFINE q == Extended(pc, key, c)
<1>1. DOMAIN pc = DOMAIN d.planes
  BY DEF Sound, Tidy
<1>2. \A k \in DOMAIN e.planes : q[k] = IF k = key THEN c ELSE pc[k]
  BY <1>1 DEF Extended
<1> HIDE DEF q
<1>3. ASSUME NEW k \in DOMAIN e.planes PROVE PlaneIs(k, q[k], h)
  <2>1. CASE k = key
    BY <1>2, <2>1
  <2>2. CASE k # key
    BY <1>2, <2>2 DEF Sound
  <2> QED
    BY <2>1, <2>2
<1>4. ASSUME NEW w \in Bodies(h) PROVE Decodes(w, e, h, f)
  BY DEF Sound, Decodes
<1>5. /\ \A b \in AllBuffers : Owners(h, f)[b] # 0 => IsFor(b, con[b], f, r, t)
      /\ \A v, w \in Bodies(h) : h[v] = h[w] => v = w
  BY DEF Sound
<1>6. Tidy(e, Owners(h, f), con, q)
  BY DEF q
<1> QED
  BY <1>3, <1>4, <1>5, <1>6 DEF Sound, q

(* What a handle of its own holds. *)
LEMMA SoundHolds ==
  ASSUME NEW d, NEW h, NEW f, NEW con, NEW pc, NEW r, NEW t, Sound(d, h, f, con, pc, r, t),
         NEW b \in AllBuffers, Owners(h, f)[b] # 0
  PROVE  Holds(d, Owners(h, f)[b]) = con[b] /\ IsFor(b, con[b], f, r, t) /\ con[b] # Free
BY BuffersAre DEF Sound, Tidy, Owns

(* A weight that was not given back answers for its own place. *)
LEMMA BodiesOwn ==
  ASSUME NEW h \in [AllBuffers -> Nat], NEW f, NEW w \in Bodies(h), f[w] # "spent"
  PROVE  Owners(h, f)[w] = h[w] /\ h[w] # 0 /\ w \in AllBuffers /\ w \in Weights
BY OwnersAre, BuffersAre DEF Bodies, Weights, Matrices

(* The two norms are apart. *)
LEMMA NormsApart ==
  ASSUME NEW d, NEW h \in [AllBuffers -> Nat], NEW f, NEW con, NEW pc, Tidy(d, Owners(h, f), con, pc)
  PROVE  h["norm"] = h["gamma"] => h["norm"] = 0
<1>1. Owners(h, f)["norm"] = h["norm"] /\ Owners(h, f)["gamma"] = h["gamma"] /\ "norm" \in Names /\ "gamma" \in Names
  BY OwnersAre, BuffersAre
<1>2. \A b, c \in Names : Owners(h, f)[b] = Owners(h, f)[c] /\ Owners(h, f)[b] # 0 => b = c
  BY DEF Tidy
<1> QED
  BY <1>1, <1>2

(* How the code asks for a weight's plane.                                 *)
Asked(h, f, w, kind, as) ==
  /\ \/ kind = "cube" /\ as = "cube"
     \/ kind = "emb" /\ as = "table" /\ w = "embd"
  /\ w = "embd" /\ kind = "cube" /\ f[w] = "spent" => h["head"] = h["embd"]

(* The plane holds the weight's bytes, decoded, beside those that were.    *)
Shown(d, h, f, con, r, t, w, kind, as, o) ==
  /\ Steady(o.dev, h, f, con, r, t) /\ Holds(o.dev, o.at) = Content(w, as, 0)
  /\ o.dev.spent = d.spent /\ DOMAIN o.dev.planes = DOMAIN d.planes \cup {Key(kind, h[w], 0)}

(* A weight read through a plane: the plane holds its bytes, decoded.  It is
   there already if the weight was given back.                             *)
LEMMA WeightPlane ==
  ASSUME NEW d, NEW h \in [AllBuffers -> Nat], NEW f, NEW con, NEW r, NEW t, Steady(d, h, f, con, r, t),
         NEW w \in Bodies(h), NEW kind, NEW as, Asked(h, f, w, kind, as),
         NEW o \in Plane(d, Key(kind, h[w], 0), h[w], as)
  PROVE  Shown(d, h, f, con, r, t, w, kind, as, o)
<1>1. PICK pc : Sound(d, h, f, con, pc, r, t)
  BY DEF Steady
<1> DEFINE key == Key(kind, h[w], 0)
           c == Content(w, as, 0)
<1>2. w \in Weights /\ h[w] # 0 /\ w # "free"
  BY DEF Bodies, Weights, Matrices
<1>3. c # Free
  BY <1>2 DEF Content, Free
<1>4. PlaneIs(key, c, h)
  BY <1>2 DEF PlaneIs, Asked
<1>5. ASSUME key \in DOMAIN d.planes PROVE pc[key] = c
  <2>1. PlaneIs(key, pc[key], h) /\ \A v, x \in Bodies(h) : h[v] = h[x] => v = x
    BY <1>1, <1>5 DEF Sound
  <2>2. h["norm"] = h["gamma"] => h["norm"] = 0
    BY <1>1, NormsApart DEF Sound
  <2> DEFINE x == pc[key]
  <2> HIDE DEF key, c, x
  <2>3. /\ \A v \in Bodies(h) : key = Key("cube", h[v], 0) => x = Content(v, "cube", 0)
        /\ \A a : key = Key("emb", a, 0) => x = Content("embd", "table", 0)
    BY <2>1, <2>2, PlaneHolds DEF x
  <2> QED
    BY <2>3 DEF key, c, x, Asked
<1>6. ASSUME key \notin DOMAIN d.planes
      PROVE  h[w] \notin d.spent /\ InForm(Holds(d, h[w]), as) = c
  <2>1. Decodes(w, d, h, f)
    BY <1>1 DEF Sound
  <2>2. key \in Through(h, w) \/ f[w] # "spent"
    BY DEF Through, Asked
  <2>3. f[w] # "spent" /\ h[w] \notin d.spent
    BY <1>6, <2>1, <2>2 DEF Decodes
  <2>4. Owners(h, f)[w] = h[w] /\ h[w] # 0 /\ w \in AllBuffers
    BY <2>3, BodiesOwn
  <2>5. Holds(d, h[w]) = con[w] /\ IsFor(w, con[w], f, r, t)
    BY <1>1, <2>4, SoundHolds
  <2>6. con[w] = Content(w, f[w], 0)
    BY <1>2, <2>5 DEF IsFor, Weights, Matrices
  <2>7. InForm(Content(w, f[w], 0), as) = Content(w, as, 0)
    BY DEF InForm, Content
  <2> QED
    BY <2>3, <2>5, <2>6, <2>7
<1>12. key \in DOMAIN d.planes => pc[key] = c
  BY <1>5
<1>11. key \notin DOMAIN d.planes => (as = "half" \/ h[w] \notin d.spent) /\ InForm(Holds(d, h[w]), as) = c
  BY <1>6
<1> HIDE DEF key, c
<1>7. Tidy(d, Owners(h, f), con, pc)
  BY <1>1 DEF Sound
<1>8. o \in Plane(d, key, h[w], as)
  BY DEF key
<1>9. /\ Tidy(o.dev, Owners(h, f), con, Extended(pc, key, c)) /\ o.dev.spent = d.spent
      /\ DOMAIN o.dev.planes = DOMAIN d.planes \cup {key} /\ Holds(o.dev, o.at) = c
  <2> DEFINE a == h[w]
             own == Owners(h, f)
  <2>1. Tidy(d, own, con, pc) /\ o \in Plane(d, key, a, as) /\ Stands(d, pc, key, a, as, c)
    BY <1>3, <1>7, <1>8, <1>11, <1>12 DEF Stands
  <2> HIDE DEF a, own
  <2>2. Taken(d, own, con, pc, key, c, o)
    BY <2>1, PlaneOK
  <2> QED
    BY <2>2 DEF own, Taken
<1>10. Sound(o.dev, h, f, con, Extended(pc, key, c), r, t)
  BY <1>1, <1>4, <1>9, SoundKeeps
<1> QED
  BY <1>9, <1>10 DEF Steady, key, c, Shown

(* The plane holds what is meant, narrowed.                                *)
Narrowed(d, h, f, con, r, t, meant, o) ==
  Steady(o.dev, h, f, con, r, t) /\ Holds(o.dev, o.at) = InForm(meant, "half") /\ o.dev.spent = d.spent

(* A norm or the rotary table, narrowed. *)
LEMMA NarrowPlane ==
  ASSUME NEW d, NEW h \in [AllBuffers -> Nat], NEW f, NEW con, NEW r, NEW t, Steady(d, h, f, con, r, t),
         NEW b, NEW key, NEW meant, h[b] # 0,
         \/ b \in {"norm", "gamma"} /\ key = Key("norm", h[b], 0) /\ meant = Content(b, "dense", 0)
         \/ b = "rope" /\ key = Key("rope", h[b], r.rope) /\ meant = Content("rope", "f32", r.rope),
         NEW o \in Plane(d, key, h[b], "half")
  PROVE  Narrowed(d, h, f, con, r, t, meant, o)
<1>1. PICK pc : Sound(d, h, f, con, pc, r, t)
  BY DEF Steady
<1> DEFINE c == InForm(meant, "half")
<1>2. b \in AllBuffers \ Weights /\ b \in {"norm", "gamma", "rope"}
  BY BuffersAre DEF Plain
<1>3. c = Content(b, "half", meant.version) /\ c # Free
  <2>1. meant.what = b /\ c = Content(b, "half", meant.version)
    BY DEF Content, InForm
  <2>2. Content(b, "half", meant.version) # Free
    BY <1>2 DEF Content, Free
  <2> QED
    BY <2>1, <2>2
<1>4. PlaneIs(key, c, h)
  <2>1. meant.version = IF b = "rope" THEN r.rope ELSE 0
    BY DEF Content
  <2> HIDE DEF c
  <2> QED
    BY <1>3, <2>1 DEF PlaneIs
<1>5. ASSUME key \in DOMAIN d.planes PROVE pc[key] = c
  <2>1. PlaneIs(key, pc[key], h) /\ \A v, x \in Bodies(h) : h[v] = h[x] => v = x
    BY <1>1, <1>5 DEF Sound
  <2>2. h["norm"] = h["gamma"] => h["norm"] = 0
    BY <1>1, NormsApart DEF Sound
  <2> DEFINE y == pc[key]
  <2> HIDE DEF y, c
  <2>3. /\ \A x \in {"norm", "gamma"} : key = Key("norm", h[x], 0) /\ h[x] # 0 => y = Content(x, "half", 0)
        /\ \A a, n : key = Key("rope", a, n) => y = Content("rope", "half", n)
    BY <2>1, <2>2, PlaneHolds DEF y
  <2>4. meant.version = IF b = "rope" THEN r.rope ELSE 0
    BY DEF Content
  <2> QED
    BY <1>3, <2>3, <2>4 DEF y
<1>6. InForm(Holds(d, h[b]), "half") = c
  <2>1. Owners(h, f)[b] = h[b]
    BY <1>2, OwnersAre
  <2>2. Holds(d, h[b]) = con[b] /\ IsFor(b, con[b], f, r, t)
    BY <1>1, <1>2, <2>1, SoundHolds
  <2>3. con[b] = meant
    BY <1>2, <2>2 DEF IsFor, Weights, Matrices
  <2> QED
    BY <2>2, <2>3
<1> HIDE DEF c
<1>7. Tidy(d, Owners(h, f), con, pc)
  BY <1>1 DEF Sound
<1>11. key \in DOMAIN d.planes => pc[key] = c
  BY <1>5
<1> DEFINE as == "half"
<1>8. o \in Plane(d, key, h[b], as)
      /\ (key \notin DOMAIN d.planes => (as = "half" \/ h[b] \notin d.spent) /\ InForm(Holds(d, h[b]), as) = c)
  BY <1>6
<1> HIDE DEF as
<1>9. /\ Tidy(o.dev, Owners(h, f), con, Extended(pc, key, c)) /\ o.dev.spent = d.spent
      /\ DOMAIN o.dev.planes = DOMAIN d.planes \cup {key} /\ Holds(o.dev, o.at) = c
  <2> DEFINE a == h[b]
             own == Owners(h, f)
  <2>1. Tidy(d, own, con, pc) /\ o \in Plane(d, key, a, as) /\ Stands(d, pc, key, a, as, c)
    BY <1>3, <1>7, <1>8, <1>11 DEF Stands
  <2> HIDE DEF a, own
  <2>2. Taken(d, own, con, pc, key, c, o)
    BY <2>1, PlaneOK
  <2> QED
    BY <2>2 DEF own, Taken
<1>10. Sound(o.dev, h, f, con, Extended(pc, key, c), r, t)
  BY <1>1, <1>4, <1>9, SoundKeeps
<1> QED
  BY <1>9, <1>10 DEF Steady, c, Narrowed

-----------------------------------------------------------------------------
(* Reading.                                                                *)

(* A read of a weight finds the weight that is meant, as its flags say. *)
LEMMA WeightReadOK ==
  ASSUME Types, NEW d, NEW con, Steady(d, held, form, con, rows, tower),
         NEW w \in Weights, NEW kind, NEW as, NEW of, of = (IF w = "head" /\ Tied THEN "embd" ELSE w),
         held[w] # 0,
         \/ w = "embd" /\ kind = "emb" /\ as = "table"
         \/ w # "embd" /\ kind = "cube" /\ as = "cube",
         NEW o \in WeightRead(d, w, of, kind, as)
  PROVE  Steady(o.dev, held, form, con, rows, tower) /\ o.read.got = o.read.meant
<1>1. held \in [AllBuffers -> Nat]
  BY DEF Types
<1>2. of \in Bodies(held) /\ of \in Weights /\ held[of] = held[w] /\ form[of] = form[w]
  BY DEF Bodies, Weights, Matrices, Tied, Types
<1>3. CASE Ascend /\ Quantized(w)
  <2>1. PICK p \in Plane(d, Key(kind, held[w], 0), held[w], as) :
          o = [dev |-> p.dev, read |-> Read(Content(of, as, 0), Holds(p.dev, p.at))]
    BY <1>3 DEF WeightRead
  <2>2. p \in Plane(d, Key(kind, held[of], 0), held[of], as)
    BY <1>2, <2>1
  <2>3. Asked(held, form, of, kind, as)
    BY DEF Tied, Asked
  <2>5. Steady(p.dev, held, form, con, rows, tower) /\ Holds(p.dev, p.at) = Content(of, as, 0)
    <3>1. Shown(d, held, form, con, rows, tower, of, kind, as, p)
      BY <1>1, <1>2, <2>2, <2>3, WeightPlane
    <3> QED
      BY <3>1 DEF Shown
  <2> QED
    BY <2>1, <2>5 DEF Read
<1>4. CASE ~(Ascend /\ Quantized(w))
  <2>1. o = [dev |-> d, read |-> Read(Content(of, form[w], 0), Holds(d, held[w]))]
    BY <1>4 DEF WeightRead
  <2>2. form[of] # "spent"
    <3>1. form[w] = "spent" => shape.backend = "ascend"
      BY DEF Types
    <3> QED
      BY <1>2, <1>4, <3>1 DEF Ascend, Quantized
  <2>3. Owners(held, form)[of] = held[of] /\ held[of] # 0 /\ of \in AllBuffers
    BY <1>1, <1>2, <2>2, BodiesOwn
  <2>4. PICK pc : Sound(d, held, form, con, pc, rows, tower)
    BY DEF Steady
  <2>5. Holds(d, held[of]) = con[of] /\ IsFor(of, con[of], form, rows, tower)
    BY <2>3, <2>4, SoundHolds
  <2>6. con[of] = Content(of, form[of], 0)
    BY <1>2, <2>5 DEF IsFor, Weights, Matrices
  <2> QED
    BY <1>2, <2>1, <2>5, <2>6 DEF Read
<1> QED
  BY <1>3, <1>4

(* So does a read of a norm, or of the rotary table. *)
LEMMA NarrowReadOK ==
  ASSUME Types, NEW d, NEW con, Steady(d, held, form, con, rows, tower),
         NEW b, NEW key, NEW meant, held[b] # 0,
         \/ b \in {"norm", "gamma"} /\ key = Key("norm", held[b], 0) /\ meant = Content(b, "dense", 0)
         \/ b = "rope" /\ key = Key("rope", held[b], rows.rope) /\ meant = Content("rope", "f32", rows.rope),
         NEW o \in NarrowRead(d, key, b, meant)
  PROVE  Steady(o.dev, held, form, con, rows, tower) /\ o.read.got = o.read.meant
<1>1. held \in [AllBuffers -> Nat]
  BY DEF Types
<1>2. CASE Ascend
  <2>1. PICK p \in Plane(d, key, held[b], "half") :
          o = [dev |-> p.dev, read |-> Read(InForm(meant, "half"), Holds(p.dev, p.at))]
    BY <1>2 DEF NarrowRead
  <2>2. Steady(p.dev, held, form, con, rows, tower) /\ Holds(p.dev, p.at) = InForm(meant, "half")
    <3>1. Narrowed(d, held, form, con, rows, tower, meant, p)
      BY <1>1, <2>1, NarrowPlane
    <3> QED
      BY <3>1 DEF Narrowed
  <2> QED
    BY <2>1, <2>2 DEF Read
<1>3. CASE ~Ascend
  <2>1. o = [dev |-> d, read |-> Read(meant, Holds(d, held[b]))]
    BY <1>3 DEF NarrowRead
  <2>2. b \in AllBuffers \ Weights /\ b \in {"norm", "gamma", "rope"}
    BY BuffersAre DEF Plain
  <2>3. Owners(held, form)[b] = held[b]
    BY <1>1, <2>2, OwnersAre
  <2>4. PICK pc : Sound(d, held, form, con, pc, rows, tower)
    BY DEF Steady
  <2>5. Holds(d, held[b]) = con[b] /\ IsFor(b, con[b], form, rows, tower)
    BY <2>2, <2>3, <2>4, SoundHolds
  <2>6. con[b] = meant
    BY <2>2, <2>5 DEF IsFor, Weights, Matrices
  <2> QED
    BY <2>1, <2>5, <2>6 DEF Read
<1> QED
  BY <1>2, <1>3

(* And of a position's angles: the table's, or those the call came with. *)
LEMMA RopeReadOK ==
  ASSUME Types, NEW d, NEW con, Steady(d, held, form, con, rows, tower),
         held["rope"] # 0, held["mrope"] # 0,
         call.pos # 0 => con["mrope"] = Content("mrope", "f32", call.pos),
         NEW o \in RopeRead(d)
  PROVE  Steady(o.dev, held, form, con, rows, tower) /\ o.read.got = o.read.meant
<1>1. held \in [AllBuffers -> Nat]
  BY DEF Types
<1>2. CASE call.pos # 0
  <2> DEFINE m == Content("mrope", "f32", call.pos)
  <2>1. ~Ascend
    BY <1>2 DEF Types
  <2>2. o = [dev |-> d, read |-> Read(m, Holds(d, held["mrope"]))]
    BY <1>2, <2>1 DEF RopeRead, NarrowRead
  <2>3. "mrope" \in AllBuffers \ Weights
    BY BuffersAre DEF Plain
  <2>4. Owners(held, form)["mrope"] = held["mrope"]
    BY <1>1, <2>3, OwnersAre
  <2>5. PICK pc : Sound(d, held, form, con, pc, rows, tower)
    BY DEF Steady
  <2>6. Holds(d, held["mrope"]) = con["mrope"]
    BY <2>3, <2>4, <2>5, SoundHolds
  <2> QED
    BY <1>2, <2>2, <2>6 DEF Read
<1>3. CASE call.pos = 0
  <2> DEFINE key == Key("rope", held["rope"], rows.rope)
             m == Content("rope", "f32", rows.rope)
  <2>1. o \in NarrowRead(d, key, "rope", m)
    BY <1>3 DEF RopeRead, RopeKey
  <2> DEFINE b == "rope"
  <2>2. /\ o \in NarrowRead(d, key, b, m) /\ held[b] # 0 /\ b = "rope"
        /\ key = Key("rope", held[b], rows.rope) /\ m = Content("rope", "f32", rows.rope)
    BY <2>1
  <2> HIDE DEF b, key, m
  <2> QED
    BY <2>2, NarrowReadOK
<1> QED
  BY <1>2, <1>3

-----------------------------------------------------------------------------
(* The steps of a call that only read.                                     *)

(* No step of a call or of a close is a step of the load. *)
LEMMA LoadsApart ==
  ASSUME NEW n \in {"kv", "grow_rope", "inputs", "layers", "logits", "reserve_kv", "destroy_tower", "destroy"},
         NEW k \in Nat, LoadingAt(k)
  PROVE  n # Loads[k]
<1>1. k \in 1 .. Len(Loads) /\ (Len(Loads) = 9 \/ Len(Loads) = 11)
  BY LoadsAre DEF LoadingAt
<1> DEFINE m == Len(Loads)
<1>2. k \in 1 .. m /\ (m = 9 \/ m = 11)
  BY <1>1
<1> HIDE DEF m
<1>3. k \in 1 .. 9 \/ (k \in 10 .. 11 /\ m = 11)
  BY <1>2
<1>4. CASE k \in 1 .. 9
  <2>1. k = 1 \/ k = 2 \/ k = 3 \/ k = 4 \/ k = 5 \/ k = 6 \/ k = 7 \/ k = 8 \/ k = 9
    BY <1>4
  <2> QED
    BY <2>1, LoadsAre
<1>5. CASE k \in 10 .. 11 /\ m = 11
  <2>1. (k = 10 \/ k = 11) /\ HasTower
    BY <1>5, LoadsAre DEF m
  <2> QED
    BY <2>1, LoadsAre DEF HasTower
<1> QED
  BY <1>3, <1>4, <1>5

(* Where a step of a forward, of a name no other list has, is taken. *)
LEMMA CallStands ==
  ASSUME Stage, NEW n, Step(n), n \in {"kv", "inputs", "layers", "logits"}
  PROVE  Serving /\ \E k \in 1 .. 6 : CallingAt(k) /\ n = CallSteps[k] /\ todo' = Rest(CallSteps, k + 1)
<1>1. ASSUME NEW k \in Nat, LoadingAt(k) PROVE n # Loads[k]
  BY <1>1, LoadsApart
<1>2. \A k \in 1 .. 2 : n # ReserveSteps[k]
  BY ListsAre
<1> QED
  BY <1>1, <1>2, Standing

(* What a step that only reads leaves alone. *)
LEMMA Unmoved ==
  ASSUME Types, TowerOK, UNCHANGED <<shape, held, form, rows, tower, call>>
  PROVE  Types' /\ TowerOK' /\ \A k \in 1 .. 12 : HeldAt(k) => HeldAt(k)'
<1>1. Types'
  BY DEF Types, Tied, Ascend
<1>2. TowerOK'
  BY DEF TowerOK, Owned, OwnedFirst
<1>3. ASSUME NEW k \in 1 .. 12, HeldAt(k) PROVE HeldAt(k)'
  BY <1>3 DEF HeldAt, HasTower
<1> QED
  BY <1>1, <1>2, <1>3

(* A layer reads what it means. *)
LEMMA LayersStep ==
  ASSUME SessionInv, Layers, UNCHANGED tower
  PROVE  SessionInv'
<1>1. Types /\ TowerOK /\ Stage
  BY DEF SessionInv
<1>2. PICK k \in 1 .. 6 : CallingAt(k) /\ "layers" = CallSteps[k] /\ todo' = Rest(CallSteps, k + 1)
  BY <1>1, CallStands DEF Layers
<1>3. Serving /\ k = 5 /\ HeldAt(12) /\ InputsIn /\ held["kv"] # 0
  BY <1>1, <1>2, CallStands, ListsAre DEF Layers, CallingAt
<1>4. PICK con, pc : Sound(dev, held, form, con, pc, rows, tower)
  BY <1>3 DEF Serving, SoundNow
<1>5. held \in [AllBuffers -> Nat] /\ Steady(dev, held, form, con, rows, tower)
  BY <1>1, <1>4 DEF Types, Steady
<1>6. /\ held["gamma"] # 0 /\ held["wq"] # 0 /\ held["w_down"] # 0 /\ held["rope"] # 0 /\ held["mrope"] # 0 /\ held["x"] # 0
      /\ (shape.deepstack => held["plane"] # 0)
  BY <1>3 DEF HeldAt
<1>7. ASSUME NEW b \in Plain, held[b] # 0
      PROVE  Holds(dev, held[b]) = con[b] /\ IsFor(b, con[b], form, rows, tower)
  <2>1. Owners(held, form)[b] = held[b] /\ b \in AllBuffers
    BY <1>5, OwnersAre, BuffersAre
  <2> QED
    BY <1>4, <1>7, <2>1, SoundHolds
<1>8. "x" \in Plain /\ "plane" \in Plain /\ "kv" \in Plain /\ "mrope" \in Plain
  BY DEF Plain
<1>9. call.pos # 0 => con["mrope"] = Content("mrope", "f32", call.pos)
  BY <1>3, <1>6, <1>7, <1>8 DEF InputsIn
<1>10. Holds(dev, held["kv"]) = Content("kv", "f16", rows.kv)
  BY <1>3, <1>7, <1>8 DEF IsFor, Weights, Matrices
<1>21. PICK g \in NarrowRead(dev, Key("norm", held["gamma"], 0), "gamma", Content("gamma", "dense", 0)) :
         \E q \in WeightRead(g.dev, "wq", "wq", "cube", "cube") : \E r \in RopeRead(q.dev) :
         \E w \in WeightRead(r.dev, "w_down", "w_down", "cube", "cube") :
           dev' = w.dev /\ reads' = LayerReads \cup {g.read, q.read, r.read, w.read}
  BY DEF Layers
<1>11. PICK q \in WeightRead(g.dev, "wq", "wq", "cube", "cube") : \E r \in RopeRead(q.dev) :
         \E w \in WeightRead(r.dev, "w_down", "w_down", "cube", "cube") :
           dev' = w.dev /\ reads' = LayerReads \cup {g.read, q.read, r.read, w.read}
  BY <1>21
<1>12. PICK r \in RopeRead(q.dev) : \E w \in WeightRead(r.dev, "w_down", "w_down", "cube", "cube") :
         dev' = w.dev /\ reads' = LayerReads \cup {g.read, q.read, r.read, w.read}
  BY <1>11
<1>23. PICK w \in WeightRead(r.dev, "w_down", "w_down", "cube", "cube") :
         dev' = w.dev /\ reads' = LayerReads \cup {g.read, q.read, r.read, w.read}
  BY <1>12
<1>24. "wq" \in Weights /\ "w_down" \in Weights
  BY DEF Weights, Matrices
<1>13. Steady(g.dev, held, form, con, rows, tower) /\ g.read.got = g.read.meant
  BY <1>1, <1>5, <1>6, NarrowReadOK
<1>14. Steady(q.dev, held, form, con, rows, tower) /\ q.read.got = q.read.meant
  BY <1>1, <1>6, <1>13, <1>24, WeightReadOK
<1>15. Steady(r.dev, held, form, con, rows, tower) /\ r.read.got = r.read.meant
  BY <1>1, <1>6, <1>9, <1>14, RopeReadOK
<1>25. Steady(w.dev, held, form, con, rows, tower) /\ w.read.got = w.read.meant
  BY <1>1, <1>6, <1>15, <1>24, WeightReadOK
<1>16. \A x \in LayerReads : x.got = x.meant
  BY <1>3, <1>10 DEF LayerReads, InputsIn, Read
<1>17. ReadsWhatItMeans'
  BY <1>13, <1>14, <1>15, <1>16, <1>23, <1>25 DEF ReadsWhatItMeans
<1>18. UNCHANGED <<shape, held, form, rows, tower, call, phase>>
  BY DEF Layers, Alone
<1>19. SoundNow'
  BY <1>18, <1>23, <1>25 DEF SoundNow, Steady
<1>20. Types' /\ TowerOK' /\ HeldAt(12)'
  BY <1>1, <1>3, <1>18, Unmoved
<1>22. Stage' /\ phase' # "closed"
  BY <1>2, <1>3, <1>18, <1>19, <1>20, CallMoves DEF Serving
<1> QED
  BY <1>17, <1>20, <1>22 DEF SessionInv, ClosedGivesBack

(* The head reads what it means: its own bytes, or the table's. *)
LEMMA LogitsStep ==
  ASSUME SessionInv, Logits, UNCHANGED tower
  PROVE  SessionInv'
<1>1. Types /\ TowerOK /\ Stage
  BY DEF SessionInv
<1>2. PICK k \in 1 .. 6 : CallingAt(k) /\ "logits" = CallSteps[k] /\ todo' = Rest(CallSteps, k + 1)
  BY <1>1, CallStands DEF Logits
<1>3. Serving /\ k = 6 /\ HeldAt(12) /\ held["kv"] # 0
  BY <1>1, <1>2, CallStands, ListsAre DEF Logits, CallingAt
<1>4. PICK con, pc : Sound(dev, held, form, con, pc, rows, tower)
  BY <1>3 DEF Serving, SoundNow
<1>5. Steady(dev, held, form, con, rows, tower)
  BY <1>4 DEF Steady
<1>6. held["norm"] # 0 /\ held["head"] # 0
  BY <1>3 DEF HeldAt
<1> DEFINE of == IF Tied THEN "embd" ELSE "head"
<1>7. PICK g \in NarrowRead(dev, Key("norm", held["norm"], 0), "norm", Content("norm", "dense", 0)) :
         \E w \in WeightRead(g.dev, "head", of, "cube", "cube") : dev' = w.dev /\ reads' = {g.read, w.read}
  BY DEF Logits
<1>8. PICK w \in WeightRead(g.dev, "head", of, "cube", "cube") : dev' = w.dev /\ reads' = {g.read, w.read}
  BY <1>7
<1>9. Steady(g.dev, held, form, con, rows, tower) /\ g.read.got = g.read.meant
  BY <1>1, <1>5, <1>6, NarrowReadOK
<1>10. Steady(w.dev, held, form, con, rows, tower) /\ w.read.got = w.read.meant
  <2>1. "head" \in Weights
    BY DEF Weights, Matrices
  <2> QED
    BY <1>1, <1>6, <1>9, <2>1, WeightReadOK
<1>11. ReadsWhatItMeans'
  BY <1>8, <1>9, <1>10 DEF ReadsWhatItMeans
<1>12. UNCHANGED <<shape, held, form, rows, tower, call, phase>>
  BY DEF Logits, Alone
<1>13. SoundNow'
  BY <1>8, <1>10, <1>12 DEF SoundNow, Steady
<1>14. Types' /\ TowerOK' /\ HeldAt(12)'
  BY <1>1, <1>3, <1>12, Unmoved
<1>15. Stage' /\ phase' # "closed"
  BY <1>2, <1>3, <1>12, <1>13, <1>14, CallMoves DEF Serving
<1> QED
  BY <1>11, <1>14, <1>15 DEF SessionInv, ClosedGivesBack

(* A plain buffer is filled. *)
LEMMA PutPlain ==
  ASSUME NEW d, NEW h \in [AllBuffers -> Nat], NEW f, NEW con, NEW r, NEW t, Steady(d, h, f, con, r, t),
         NEW b \in Plain, h[b] # 0, NEW c, c # Free, IsFor(b, c, f, r, t)
  PROVE  Steady(Written(d, h[b], c), h, f, [con EXCEPT ![b] = c], r, t)
<1>1. PICK pc : Sound(d, h, f, con, pc, r, t)
  BY DEF Steady
<1> DEFINE own == Owners(h, f)
           q == [con EXCEPT ![b] = c]
           e == Written(d, h[b], c)
<1>2. own[b] = h[b] /\ b \in Names /\ b \in AllBuffers
  BY OwnersAre, BuffersAre
<1>3. Tidy(d, own, con, pc)
  BY <1>1 DEF Sound
<1>4. \A n \in Names : q[n] = IF n = b THEN c ELSE con[n]
  BY <1>3 DEF Tidy
<1> HIDE DEF own
<1>5. Tidy(Written(d, own[b], c), own, q, pc) /\ Aside(d, Written(d, own[b], c))
  BY <1>2, <1>3, TidyPut
<1> HIDE DEF q
<1>6. Tidy(e, own, q, pc) /\ Aside(d, e)
  BY <1>2, <1>5
<1>7. ASSUME NEW n \in AllBuffers, own[n] # 0 PROVE IsFor(n, q[n], f, r, t)
  <2>1. n \in Names
    BY BuffersAre
  <2>2. CASE n = b
    BY <1>4, <2>1, <2>2
  <2>3. CASE n # b
    BY <1>1, <1>4, <1>7, <2>1, <2>3 DEF Sound, own
  <2> QED
    BY <2>2, <2>3
<1> HIDE DEF e
<1>8. Sound(e, h, f, q, pc, r, t)
  BY <1>1, <1>6, <1>7, SoundPlain DEF own
<1> QED
  BY <1>8 DEF Steady, e, q

(* The bytes of a buffer the caller's data goes to. *)
LEMMA InputIsFor ==
  ASSUME NEW b \in {"x", "plane", "mrope"}, NEW v, NEW f, NEW r, NEW t
  PROVE  IsFor(b, Content(b, "f32", v), f, r, t) /\ Content(b, "f32", v) # Free /\ b \in Plain
BY DEF IsFor, Content, Free, Weights, Matrices, Plain

(* What a plain buffer holds. *)
LEMMA PlainHolds ==
  ASSUME NEW d, NEW h \in [AllBuffers -> Nat], NEW f, NEW con, NEW r, NEW t, Steady(d, h, f, con, r, t),
         NEW b \in Plain, h[b] # 0
  PROVE  Holds(d, h[b]) = con[b] /\ IsFor(b, con[b], f, r, t)
<1>1. PICK pc : Sound(d, h, f, con, pc, r, t)
  BY DEF Steady
<1>2. Owners(h, f)[b] = h[b] /\ b \in AllBuffers
  BY OwnersAre, BuffersAre
<1> QED
  BY <1>1, <1>2, SoundHolds

(* The contents of a sound memory name by name. *)
LEMMA SteadyNames ==
  ASSUME NEW d, NEW h, NEW f, NEW con, NEW r, NEW t, Steady(d, h, f, con, r, t), NEW b \in Names, NEW c
  PROVE  \A n \in Names : [con EXCEPT ![b] = c][n] = IF n = b THEN c ELSE con[n]
BY DEF Steady, Sound, Tidy

(* The inputs are where the layers will read them. *)
LEMMA InputsStep ==
  ASSUME SessionInv, Inputs, UNCHANGED tower
  PROVE  SessionInv'
<1>1. Types /\ TowerOK /\ Stage
  BY DEF SessionInv
<1>2. PICK k \in 1 .. 6 : CallingAt(k) /\ "inputs" = CallSteps[k] /\ todo' = Rest(CallSteps, k + 1)
  BY <1>1, CallStands DEF Inputs
<1>3. Serving /\ k = 4 /\ HeldAt(12) /\ held["kv"] # 0
  BY <1>1, <1>2, CallStands, ListsAre DEF Inputs, CallingAt
<1>4. PICK con, pc : Sound(dev, held, form, con, pc, rows, tower)
  BY <1>3 DEF Serving, SoundNow
<1>5. Steady(dev, held, form, con, rows, tower) /\ held \in [AllBuffers -> Nat]
  BY <1>1, <1>4 DEF Steady, Types
<1>6. held["embd"] # 0 /\ held["x"] # 0 /\ held["mrope"] # 0 /\ (shape.deepstack => held["plane"] # 0)
  BY <1>3 DEF HeldAt
<1> DEFINE planes == call.kind = "planes" /\ shape.deepstack
           cx == Content("x", "f32", 1)
           cp == Content("plane", "f32", 1)
           cm == Content("mrope", "f32", call.pos)
           filled(d) == Written(d, held["x"], cx)
           planed(d) == IF planes THEN Written(d, held["plane"], cp) ELSE d
           turned(d) == IF call.pos # 0 THEN Written(d, held["mrope"], cm) ELSE d
           embedded == IF call.kind = "planes" THEN {[dev |-> dev, read |-> {}]}
                       ELSE {[dev |-> w.dev, read |-> {w.read}]
                             : w \in WeightRead(dev, "embd", "embd", "emb", "table")}
<1>7. PICK o \in embedded : dev' = turned(planed(filled(o.dev))) /\ reads' = o.read
  BY DEF Inputs
<1>8. Steady(o.dev, held, form, con, rows, tower) /\ \A x \in o.read : x.got = x.meant
  <2>1. CASE call.kind = "planes"
    BY <1>5, <1>7, <2>1
  <2>2. CASE call.kind # "planes"
    <3>1. PICK w \in WeightRead(dev, "embd", "embd", "emb", "table") : o = [dev |-> w.dev, read |-> {w.read}]
      BY <1>7, <2>2
    <3>2. "embd" \in Weights
      BY DEF Weights, Matrices
    <3>3. Steady(w.dev, held, form, con, rows, tower) /\ w.read.got = w.read.meant
      BY <1>1, <1>5, <1>6, <3>2, WeightReadOK
    <3> QED
      BY <3>1, <3>3
  <2> QED
    BY <2>1, <2>2
<1>9. "x" \in Names /\ "plane" \in Names /\ "mrope" \in Names
  BY BuffersAre DEF Plain
<1> HIDE DEF embedded
<1> DEFINE d1 == filled(o.dev)
           d2 == planed(d1)
           d3 == turned(d2)
           con1 == [con EXCEPT !["x"] = cx]
           con2 == IF planes THEN [con1 EXCEPT !["plane"] = cp] ELSE con1
           con3 == IF call.pos # 0 THEN [con2 EXCEPT !["mrope"] = cm] ELSE con2
<1>10. Steady(d1, held, form, con1, rows, tower) /\ con1["x"] = cx
  <2>1. cx # Free /\ IsFor("x", cx, form, rows, tower) /\ "x" \in Plain
    BY InputIsFor
  <2> HIDE DEF cx
  <2> QED
    BY SMTT(30), <1>5, <1>6, <1>8, <1>9, <2>1, PutPlain, SteadyNames
<1> HIDE DEF d1, con1
<1>11. Steady(d2, held, form, con2, rows, tower) /\ con2["x"] = cx /\ (planes => con2["plane"] = cp)
  <2>1. cp # Free /\ IsFor("plane", cp, form, rows, tower) /\ "plane" \in Plain
    BY InputIsFor
  <2>2. CASE planes
    <3>1. held["plane"] # 0
      BY <1>6, <2>2
    <3>2. d2 = Written(d1, held["plane"], cp) /\ con2 = [con1 EXCEPT !["plane"] = cp]
      BY <2>2
    <3>3. PICK b \in Names : b = "plane"
      BY <1>9
    <3> DEFINE u == [con1 EXCEPT ![b] = cp]
    <3>4. Steady(Written(d1, held[b], cp), held, form, u, rows, tower)
      BY <1>5, <1>10, <2>1, <3>1, <3>3, PutPlain
    <3>5. \A n \in Names : u[n] = IF n = b THEN cp ELSE con1[n]
      BY <1>10, SteadyNames
    <3>6. d2 = Written(d1, held[b], cp) /\ con2 = u
      BY <3>2, <3>3
    <3> HIDE DEF cp, d2, con2, planes, u
    <3> QED
      BY <1>9, <1>10, <3>3, <3>4, <3>5, <3>6
  <2>3. CASE ~planes
    BY <1>10, <2>3
  <2> QED
    BY <2>2, <2>3
<1> HIDE DEF d2, con2
<1>12. /\ Steady(d3, held, form, con3, rows, tower) /\ con3["x"] = cx /\ (planes => con3["plane"] = cp)
       /\ (call.pos # 0 => con3["mrope"] = cm)
  <2>1. cm # Free /\ IsFor("mrope", cm, form, rows, tower) /\ "mrope" \in Plain
    BY InputIsFor
  <2>2. CASE call.pos # 0
    <3>2. d3 = Written(d2, held["mrope"], cm) /\ con3 = [con2 EXCEPT !["mrope"] = cm]
      BY <2>2
    <3>3. PICK b \in Names : b = "mrope"
      BY <1>9
    <3> DEFINE u == [con2 EXCEPT ![b] = cm]
    <3>4. Steady(Written(d2, held[b], cm), held, form, u, rows, tower)
      BY <1>5, <1>6, <1>11, <2>1, <3>3, PutPlain
    <3>5. \A n \in Names : u[n] = IF n = b THEN cm ELSE con2[n]
      BY <1>11, SteadyNames
    <3>6. d3 = Written(d2, held[b], cm) /\ con3 = u
      BY <3>2, <3>3
    <3> HIDE DEF cm, d3, con3, planes, u
    <3> QED
      BY <1>9, <1>11, <3>3, <3>4, <3>5, <3>6
  <2>3. CASE call.pos = 0
    BY <1>11, <2>3
  <2> QED
    BY <2>2, <2>3
<1>13. dev' = d3
  BY <1>7 DEF d1, d2
<1> HIDE DEF d3, con3
<1>14. UNCHANGED <<shape, held, form, rows, tower, call, phase>>
  BY DEF Inputs, Alone
<1>15. InputsIn'
  <2>1. "x" \in Plain /\ "plane" \in Plain /\ "mrope" \in Plain
    BY DEF Plain
  <2>2. \A b \in Plain : held[b] # 0 => Holds(d3, held[b]) = con3[b]
    BY <1>5, <1>12, PlainHolds
  <2> QED
    BY <1>6, <1>12, <1>13, <1>14, <2>1, <2>2 DEF InputsIn
<1>16. SoundNow'
  BY <1>12, <1>13, <1>14 DEF SoundNow, Steady
<1>17. ReadsWhatItMeans'
  BY <1>7, <1>8 DEF ReadsWhatItMeans
<1>18. Types' /\ TowerOK' /\ HeldAt(12)'
  BY <1>1, <1>3, <1>14, Unmoved
<1>19. Stage' /\ phase' # "closed"
  BY <1>2, <1>3, <1>14, <1>15, <1>16, <1>18, CallMoves DEF Serving
<1> QED
  BY <1>17, <1>18, <1>19 DEF SessionInv, ClosedGivesBack

-----------------------------------------------------------------------------
(* Buffers that grow.                                                      *)

(* The memory is sound, whatever it holds.                                 *)
Settled(d, h, f, r, t) == \E con : Steady(d, h, f, con, r, t)

(* SoundNow is about the variables as they are. *)
LEMMA SettledNow ==
  /\ SoundNow <=> Settled(dev, held, form, rows, tower)
  /\ SoundNow' <=> Settled(dev', held', form', rows', tower')
BY DEF SoundNow, Settled, Steady

(* What the others are known by.                                           *)
Apart(b, r, r2, t, t2) ==
  /\ b # "rope" => r2.rope = r.rope
  /\ b # "kv" => r2.kv = r.kv
  /\ b # "t_scores" => t2.room = t.room
  /\ t2.grid = t.grid

(* A plain buffer has a new place. *)
LEMMA NewPlain ==
  ASSUME NEW d, NEW h \in [AllBuffers -> Nat], NEW f, NEW con, NEW pc, NEW r, NEW t, Sound(d, h, f, con, pc, r, t),
         NEW b \in Plain, NEW c, NEW r2, NEW t2, IsFor(b, c, f, r2, t2), Apart(b, r, r2, t, t2),
         NEW e, NEW a \in Nat, NEW q, Tidy(e, With(Owners(h, f), b, a), q, pc), Aside(d, e),
         \A n \in Names : n # "spare" => q[n] = IF n = b THEN c ELSE con[n]
  PROVE  Settled(e, With(h, b, a), f, r2, t2)
<1> DEFINE g == With(h, b, a)
<1>1. Owners(g, f) = With(Owners(h, f), b, a) /\ g \in [AllBuffers -> Nat] /\ b \in Names /\ b \in AllBuffers
  <2>1. b \in Names /\ b \in AllBuffers
    BY PlainOwns
  <2>2. Owners(With(h, b, a), f) = With(Owners(h, f), b, a) /\ With(h, b, a) \in [AllBuffers -> Nat]
    BY OwnersPlain, Zenon
  <2> QED
    BY <2>1, <2>2
<1>2. \A n \in Weights \cup {"norm", "gamma"} : g[n] = h[n]
  BY BuffersAre DEF Plain, TowerBuffers, Weights, Matrices, With
<1>3. \A n \in Names : Owners(g, f)[n] = IF n = b THEN a ELSE Owners(h, f)[n]
  <2>1. Owners(h, f) \in [Names -> Nat]
    BY OwnersAre
  <2> QED
    BY <1>1, <2>1 DEF With
<1> HIDE DEF g
<1>4. ASSUME NEW n \in AllBuffers, Owners(g, f)[n] # 0 PROVE IsFor(n, q[n], f, r2, t2)
  <2>1. n \in Names /\ n # "spare"
    BY BuffersAre
  <2>2. CASE n = b
    BY <2>1, <2>2
  <2>3. CASE n # b
    <3>1. IsFor(n, con[n], f, r, t) /\ q[n] = con[n]
      BY <1>3, <1>4, <2>1, <2>3 DEF Sound
    <3>2. /\ (n = "rope" => r2.rope = r.rope) /\ (n = "kv" => r2.kv = r.kv)
          /\ (n = "t_scores" => t2.room = t.room) /\ (n \in {"t_index", "t_table"} => t2.grid = t.grid)
      BY <2>3 DEF Apart
    <3> QED
      BY <3>1, <3>2, IsForStays
  <2> QED
    BY <2>2, <2>3
<1>5. Tidy(e, Owners(g, f), q, pc)
  BY <1>1
<1>6. Sound(e, g, f, q, pc, r2, t2)
  BY <1>2, <1>4, <1>5, SoundPlain
<1> QED
  BY <1>6 DEF Settled, Steady, g

(* Released, then allocated anew; or allocated, if there was none. *)
LEMMA RenewPlain ==
  ASSUME NEW d, NEW h \in [AllBuffers -> Nat], NEW f, NEW r, NEW t, Settled(d, h, f, r, t),
         NEW b \in Plain, NEW c, c # Free, NEW r2, NEW t2, IsFor(b, c, f, r2, t2), Apart(b, r, r2, t, t2),
         NEW o \in Allocated(Released(d, h[b]), c)
  PROVE  Settled(o.dev, With(h, b, o.at), f, r2, t2) /\ o.at \in Nat \ {0}
<1>1. PICK con, pc : Sound(d, h, f, con, pc, r, t)
  BY DEF Settled, Steady
<1> DEFINE own == Owners(h, f)
           e == Released(d, h[b])
           w == [own EXCEPT ![b] = 0]
           q == [con EXCEPT ![b] = c]
<1>2. own[b] = h[b] /\ b \in Names /\ own \in [Names -> Nat]
  BY OwnersAre, PlainOwns
<1>3. Tidy(d, own, con, pc)
  BY <1>1 DEF Sound
<1>4. \A n \in Names : q[n] = IF n = b THEN c ELSE con[n]
  BY <1>3 DEF Tidy
<1> HIDE DEF own
<1>5. Tidy(Released(d, own[b]), w, con, pc) /\ Aside(d, Released(d, own[b]))
  BY <1>2, <1>3, TidyLose
<1>6. Tidy(e, w, con, pc) /\ Aside(d, e) /\ w[b] = 0
  BY <1>2, <1>5
<1>7. o \in Allocated(e, c)
  OBVIOUS
<1> HIDE DEF e, q
<1>8. Tidy(o.dev, [w EXCEPT ![b] = o.at], q, pc) /\ o.at \in Nat \ {0} /\ Aside(e, o.dev)
  BY <1>2, <1>6, <1>7, TidyGain DEF q
<1>9. [w EXCEPT ![b] = o.at] = [own EXCEPT ![b] = o.at] /\ Aside(d, o.dev)
  BY <1>2, <1>6, <1>8 DEF Aside
<1>10. Tidy(o.dev, [own EXCEPT ![b] = o.at], q, pc)
  BY <1>8, <1>9
<1> HIDE DEF w
<1> DEFINE a == o.at
           v == o.dev
<1>11. Tidy(v, With(Owners(h, f), b, a), q, pc) /\ Aside(d, v) /\ a \in Nat \ {0} /\ a \in Nat
  BY <1>8, <1>9, <1>10 DEF own, With
<1> HIDE DEF a, v
<1>12. Settled(v, With(h, b, a), f, r2, t2)
  BY <1>1, <1>4, <1>11, NewPlain
<1> QED
  BY <1>11, <1>12 DEF a, v

(* Allocated, filled from the old place, which is released last. *)
LEMMA GrowPlain ==
  ASSUME NEW d, NEW h \in [AllBuffers -> Nat], NEW f, NEW r, NEW t, Settled(d, h, f, r, t),
         NEW b \in Plain, NEW c, c # Free, NEW r2, NEW t2, IsFor(b, c, f, r2, t2), Apart(b, r, r2, t, t2),
         NEW o \in Allocated(d, c)
  PROVE  Settled(Released(o.dev, h[b]), With(h, b, o.at), f, r2, t2) /\ o.at \in Nat \ {0}
<1>1. PICK con, pc : Sound(d, h, f, con, pc, r, t)
  BY DEF Settled, Steady
<1> DEFINE s == "spare"
           own == Owners(h, f)
           w1 == [own EXCEPT ![s] = own[b], ![b] = 0]
           q1 == [con EXCEPT ![s] = con[b]]
           w2 == [w1 EXCEPT ![b] = o.at]
           q2 == [q1 EXCEPT ![b] = c]
           w3 == [w2 EXCEPT ![s] = 0]
           e == Released(o.dev, h[b])
<1>2. own[b] = h[b] /\ b \in Names /\ own \in [Names -> Nat] /\ own[s] = 0 /\ s \in Names /\ b # s
  BY SMTT(30), OwnersAre, PlainOwns, BuffersAre
<1>3. Tidy(d, own, con, pc)
  BY <1>1 DEF Sound
<1>4. \A n \in Names : n # "spare" => q2[n] = IF n = b THEN c ELSE con[n]
  BY <1>2, <1>3 DEF Tidy
<1> HIDE DEF own, s
<1>5. Tidy(d, w1, q1, pc)
  BY <1>2, <1>3, TidyMove
<1>6. w1[b] = 0 /\ w1[s] = h[b] /\ \A n \in Names : n # s /\ n # b => w1[n] = own[n]
  BY <1>2
<1>7. w1 \in [Names -> Nat]
  BY <1>2
<1> HIDE DEF w1, q1
<1>8. Tidy(o.dev, w2, q2, pc) /\ o.at \in Nat \ {0} /\ Aside(d, o.dev)
  BY <1>2, <1>5, <1>6, TidyGain
<1>9. w2[s] = h[b] /\ w2 \in [Names -> Nat]
  BY <1>2, <1>6, <1>7, <1>8
<1> HIDE DEF w2, q2
<1>10. Tidy(Released(o.dev, w2[s]), w3, q2, pc) /\ Aside(o.dev, Released(o.dev, w2[s]))
  BY <1>2, <1>8, TidyLose
<1>11. w3 = [own EXCEPT ![b] = o.at]
  <2>1. \A n \in Names : w3[n] = IF n = s THEN 0 ELSE IF n = b THEN o.at ELSE own[n]
    BY <1>2, <1>6, <1>7, <1>9 DEF w2
  <2>2. w3 \in [Names -> Nat]
    BY <1>2, <1>9
  <2> HIDE DEF w3
  <2> QED
    BY <1>2, <2>1, <2>2
<1> HIDE DEF w3
<1> DEFINE a == o.at
<1>12. Tidy(e, With(Owners(h, f), b, a), q2, pc) /\ Aside(d, e) /\ a \in Nat \ {0} /\ a \in Nat
  BY <1>8, <1>9, <1>10, <1>11 DEF own, Aside, With
<1> HIDE DEF a, e
<1>13. Settled(e, With(h, b, a), f, r2, t2)
  BY <1>1, <1>4, <1>12, NewPlain
<1> QED
  BY <1>12, <1>13 DEF a, e

-----------------------------------------------------------------------------
(* The table of positions and the cache.                                   *)

(* The plain buffers of the text model.                                    *)
TextPlain == {"rope", "x", "plane", "mrope", "kv"}

(* What a step that moves a buffer of the text model leaves as it was.     *)
LEMMA TextMoves ==
  ASSUME Types, TowerOK, NEW b \in TextPlain, NEW a \in Nat, held' = With(held, b, a),
         rows' = [rope |-> rows'.rope, kv |-> rows'.kv], UNCHANGED <<shape, form, tower, call>>
  PROVE  /\ Types' /\ TowerOK' /\ held'[b] = a /\ \A n \in AllBuffers : n # b => held'[n] = held[n]
         /\ \A k \in 1 .. 12 : HeldAt(k) /\ (held[b] = 0 <=> a = 0) => HeldAt(k)'
<1>1. held \in [AllBuffers -> Nat] /\ b \in AllBuffers
  BY BuffersAre DEF Types, TextPlain, Plain
<1>2. held' \in [AllBuffers -> Nat] /\ held'[b] = a /\ \A n \in AllBuffers : n # b => held'[n] = held[n]
  BY <1>1 DEF With
<1>3. \A n \in {"embd", "head", "wq", "w_down", "norm", "gamma"} \cup TowerBuffers : held'[n] = held[n]
  BY <1>2 DEF TextPlain, AllBuffers, Buffers, TowerBuffers, Weights, Matrices
<1>4. Types'
  BY <1>2, <1>3 DEF Types, Tied, Ascend
<1>5. TowerOK'
  BY <1>3 DEF TowerOK, OwnedFirst, Owned, TowerBuffers
<1>6. ASSUME NEW k \in 1 .. 12, HeldAt(k), held[b] = 0 <=> a = 0 PROVE HeldAt(k)'
  <2>1. \A n \in AllBuffers : held'[n] = 0 <=> held[n] = 0
    BY <1>2, <1>6
  <2>2. \A n \in {"embd", "head", "norm", "gamma", "wq", "w_down", "rope", "x", "mrope", "plane", "t_weight", "t_x",
                  "t_scores", "t_index", "t_table"} : held'[n] = 0 <=> held[n] = 0
    BY <2>1 DEF AllBuffers, Buffers, TowerBuffers, Weights, Matrices
  <2> QED
    BY <1>6, <2>2 DEF HeldAt, HasTower
<1> QED
  BY <1>2, <1>4, <1>5, <1>6

(* The tables of bytes that only their rows are known by. *)
LEMMA RowsAreFor ==
  ASSUME NEW f, NEW r, NEW t
  PROVE  /\ IsFor("rope", Content("rope", "f32", r.rope), f, r, t) /\ Content("rope", "f32", r.rope) # Free
         /\ IsFor("kv", Content("kv", "f16", r.kv), f, r, t) /\ Content("kv", "f16", r.kv) # Free
         /\ "rope" \in TextPlain /\ "kv" \in TextPlain /\ "rope" \in Plain /\ "kv" \in Plain
BY DEF IsFor, Content, Free, Weights, Matrices, Plain, TextPlain

(* A close has not happened. *)
LEMMA StaysOpen ==
  ASSUME Types', TowerOK', Stage', phase' # "closed", ReadsWhatItMeans'
  PROVE  SessionInv'
BY DEF SessionInv, ClosedGivesBack

(* A step that reads nothing reads nothing wrong. *)
LEMMA SameReads ==
  ASSUME ReadsWhatItMeans, reads' = reads \/ reads' = {}
  PROVE  ReadsWhatItMeans'
BY DEF ReadsWhatItMeans

(* A step of the load is known by its name. *)
LEMMA LoadIndex ==
  ASSUME NEW k \in 1 .. Len(Loads)
  PROVE  /\ Loads[k] = "embd" => k = 1
         /\ Loads[k] = "head" => k = 2
         /\ Loads[k] = "norm" => k = 3
         /\ Loads[k] = "gamma" => k = 4
         /\ Loads[k] = "wq" => k = 5
         /\ Loads[k] = "w_down" => k = 6
         /\ Loads[k] = "materialize" => k = 7
         /\ Loads[k] = "rope" => k = 8
         /\ Loads[k] = "scratch" => k = 9
         /\ Loads[k] = "t_weight" => k = 10 /\ HasTower
         /\ Loads[k] = "t_activations" => k = 11 /\ shape.tower = "vision"
         /\ Loads[k] = "t_buffers" => k = 11 /\ shape.tower = "audio"
<1> DEFINE m == Len(Loads)
<1>1. k \in 1 .. m /\ (m = 9 \/ (m = 11 /\ HasTower))
  BY LoadsAre
<1> HIDE DEF m
<1>2. k \in 1 .. 9 \/ (k \in 10 .. 11 /\ HasTower)
  BY <1>1
<1>3. k = 1 \/ k = 2 \/ k = 3 \/ k = 4 \/ k = 5 \/ k = 6 \/ k = 7 \/ k = 8 \/ k = 9
      \/ ((k = 10 \/ k = 11) /\ HasTower)
  BY <1>2
<1> QED
  BY <1>3, LoadsAre DEF HasTower

(* The rotary table of a load. *)
LEMMA BuildRopeStep ==
  ASSUME SessionInv, BuildRope, UNCHANGED tower
  PROVE  SessionInv'
<1>1. Types /\ TowerOK /\ Stage /\ ReadsWhatItMeans
  BY DEF SessionInv
<1>2. PICK k \in 1 .. Len(Loads) : LoadingAt(k) /\ "rope" = Loads[k] /\ todo' = Rest(Loads, k + 1)
  BY <1>1, LoadStands DEF BuildRope
<1>3. Serving /\ k = 8
  <2>1. Serving
    BY <1>1, LoadStands DEF BuildRope
  <2> QED
    BY <1>2, <2>1, LoadIndex
<1> DEFINE b == "rope"
           c == Content(b, "f32", 1)
<1>4. PICK o \in Allocated(dev, c) : dev' = o.dev /\ held' = [held EXCEPT ![b] = o.at]
  BY DEF BuildRope
<1>5. HeldAt(8) /\ held[b] = 0 /\ held \in [AllBuffers -> Nat]
  BY <1>1, <1>2, <1>3 DEF LoadingAt, HeldAt, Types
<1>6. UNCHANGED <<shape, form, tower, call, phase, reads>> /\ rows' = [rope |-> 1, kv |-> rows.kv]
  BY <1>1 DEF BuildRope, Alone, Types
<1>7. IsFor(b, c, form, rows', tower) /\ c # Free /\ b \in TextPlain /\ b \in Plain
  <2>1. c = Content("rope", "f32", rows'.rope)
    BY <1>6
  <2> QED
    BY <2>1, RowsAreFor
<1>8. Apart(b, rows, rows', tower, tower)
  BY <1>6 DEF Apart
<1>9. Settled(dev, held, form, rows, tower)
  BY <1>3, SettledNow DEF Serving
<1>10. o \in Allocated(Released(dev, held[b]), c)
  BY <1>4, <1>5 DEF Released
<1> HIDE DEF b, c
<1>11. Settled(o.dev, With(held, b, o.at), form, rows', tower) /\ o.at \in Nat \ {0}
  BY <1>5, <1>7, <1>8, <1>9, <1>10, RenewPlain
<1>12. SoundNow'
  BY <1>4, <1>6, <1>11, SettledNow DEF With
<1> DEFINE a == o.at
<1>13. held' = With(held, b, a) /\ a \in Nat /\ a # 0
  BY <1>4, <1>11 DEF With
<1> HIDE DEF a
<1>14. Types' /\ TowerOK' /\ held'[b] = a /\ \A n \in AllBuffers : n # b => held'[n] = held[n]
  BY <1>1, <1>6, <1>7, <1>13, TextMoves
<1>15. HeldAt(9)'
  <2>1. \A n \in {"embd", "head", "norm", "gamma", "wq", "w_down", "x", "mrope", "plane", "t_weight", "t_x",
                  "t_scores", "t_index", "t_table"} : held'[n] = held[n]
    BY <1>14 DEF b, AllBuffers, Buffers, TowerBuffers, Weights, Matrices
  <2> QED
    BY <1>5, <1>6, <1>13, <1>14, <2>1 DEF HeldAt, HasTower, b
<1>16. Stage' /\ phase' # "closed"
  BY <1>2, <1>3, <1>6, <1>12, <1>15, LoadMoves DEF Serving
<1> QED
  BY <1>1, <1>6, <1>14, <1>16, SameReads, StaysOpen

(* The slab grows: the new one is filled before the old one goes. *)
LEMMA EnsureKvStep ==
  ASSUME SessionInv, EnsureKv, UNCHANGED tower
  PROVE  SessionInv'
<1>1. Types /\ TowerOK /\ Stage /\ ReadsWhatItMeans
  BY DEF SessionInv
<1>2. PICK k \in 1 .. 6 : CallingAt(k) /\ "kv" = CallSteps[k] /\ todo' = Rest(CallSteps, k + 1)
  BY <1>1, CallStands DEF EnsureKv
<1>3. Serving /\ k = 2 /\ HeldAt(12)
  BY <1>1, <1>2, CallStands, ListsAre DEF EnsureKv, CallingAt
<1>4. UNCHANGED <<shape, form, tower, call, phase, reads>> /\ held \in [AllBuffers -> Nat]
  BY <1>1 DEF EnsureKv, Alone, Types
<1>5. CASE held["kv"] # 0 /\ call.end <= rows.kv
  <2>1. UNCHANGED <<dev, held, rows>>
    BY <1>5 DEF EnsureKv
  <2>2. SoundNow'
    BY <1>3, <1>4, <2>1 DEF Serving, SoundNow
  <2>3. Types' /\ TowerOK' /\ HeldAt(12)'
    BY <1>1, <1>3, <1>4, <2>1, Unmoved
  <2>4. Stage' /\ phase' # "closed"
    BY <1>2, <1>3, <1>4, <1>5, <2>1, <2>2, <2>3, CallMoves DEF Serving
  <2> QED
    BY <1>1, <1>4, <2>3, <2>4, SameReads, StaysOpen
<1>6. CASE ~(held["kv"] # 0 /\ call.end <= rows.kv)
  <2> DEFINE b == "kv"
             n == Doubled(IF rows.kv = 0 THEN 1 ELSE rows.kv, call.end)
             c == Content(b, "f16", n)
  <2>1. /\ \E o \in Allocated(dev, c) : dev' = Released(o.dev, held[b]) /\ held' = [held EXCEPT ![b] = o.at]
        /\ rows' = [rows EXCEPT !.kv = n]
    BY <1>6 DEF EnsureKv
  <2>2. PICK o \in Allocated(dev, c) : dev' = Released(o.dev, held[b]) /\ held' = [held EXCEPT ![b] = o.at]
    BY <2>1
  <2> HIDE DEF n
  <2>3. rows' = [rope |-> rows.rope, kv |-> n]
    BY <1>1, <2>1 DEF Types
  <2>4. IsFor(b, c, form, rows', tower) /\ c # Free /\ b \in TextPlain /\ b \in Plain
    <3>1. c = Content("kv", "f16", rows'.kv)
      BY <2>3
    <3> QED
      BY <3>1, RowsAreFor
  <2>5. Apart(b, rows, rows', tower, tower)
    BY <2>3 DEF Apart
  <2>6. Settled(dev, held, form, rows, tower)
    BY <1>3, SettledNow DEF Serving
  <2> DEFINE a == o.at
             e == Released(o.dev, held[b])
  <2> HIDE DEF b, c
  <2>7. Settled(e, With(held, b, a), form, rows', tower) /\ a \in Nat \ {0}
    BY <1>4, <2>2, <2>4, <2>5, <2>6, GrowPlain
  <2>8. held' = With(held, b, a) /\ dev' = e
    BY <2>2 DEF With
  <2> HIDE DEF a, e
  <2>9. SoundNow'
    BY <1>4, <2>7, <2>8, SettledNow
  <2>10. Types' /\ TowerOK' /\ held'[b] = a /\ (\A m \in AllBuffers : m # b => held'[m] = held[m])
    BY <1>1, <1>4, <2>3, <2>4, <2>7, <2>8, TextMoves
  <2>11. HeldAt(12)'
    <3>1. \A m \in {"embd", "head", "norm", "gamma", "wq", "w_down", "rope", "x", "mrope", "plane", "t_weight", "t_x",
                    "t_scores", "t_index", "t_table"} : held'[m] = held[m]
      BY <2>10 DEF b, AllBuffers, Buffers, TowerBuffers, Weights, Matrices
    <3> QED
      BY <1>3, <1>4, <3>1 DEF HeldAt, HasTower
  <2>12. held'["kv"] # 0
    BY <2>7, <2>10 DEF b
  <2>13. Stage' /\ phase' # "closed"
    BY <1>2, <1>3, <1>4, <2>9, <2>11, <2>12, CallMoves DEF Serving
  <2> QED
    BY <1>1, <1>4, <2>10, <2>13, SameReads, StaysOpen
<1> QED
  BY <1>5, <1>6

(* A slab that does not fit leaves everything where it was. *)
LEMMA EnsureKvThrowsStep ==
  ASSUME SessionInv, EnsureKvThrows, UNCHANGED tower
  PROVE  SessionInv'
<1>1. Types /\ TowerOK /\ Stage
  BY DEF SessionInv
<1>2. UNCHANGED <<shape, dev, held, form, rows, phase, call, tower>> /\ todo' = << >> /\ reads' = {}
      /\ todo # << >> /\ Head(todo) = "kv"
  BY DEF EnsureKvThrows
<1>3. Serving /\ HeldAt(12)
  <2>1. ASSUME NEW k \in Nat, LoadingAt(k) PROVE FALSE
    <3>1. Head(todo) = Loads[k]
      <4>1. k \in 1 .. Len(Loads) /\ todo = Rest(Loads, k) /\ Loads \in Seq(StepNames)
        BY <2>1, LoadsAre DEF LoadingAt
      <4> QED
        BY <4>1, RestStep
    <3> QED
      BY <1>2, <2>1, <3>1, LoadsApart
  <2>2. ~ClosingNow /\ todo # CloseSteps
    BY <1>2, ListsAre DEF ClosingNow
  <2>3. ASSUME NEW k \in Nat, ReservingAt(k) \/ CallingAt(k) PROVE HeldAt(12)
    BY <2>3 DEF ReservingAt, CallingAt
  <2> QED
    BY <1>1, <1>2, <2>1, <2>2, <2>3 DEF Stage, Alive, Resting, Serving
<1>4. Types' /\ TowerOK' /\ HeldAt(12)'
  BY <1>1, <1>2, <1>3, Unmoved
<1>5. SoundNow'
  BY <1>2, <1>3 DEF Serving, SoundNow
<1>6. Stage' /\ phase' # "closed"
  BY <1>2, <1>3, <1>4, <1>5 DEF Stage, Alive, Resting, Serving
<1>7. ReadsWhatItMeans'
  BY <1>2 DEF ReadsWhatItMeans
<1> QED
  BY <1>4, <1>6, <1>7, StaysOpen

(* The table, or the slab of a reserve, is released and made anew. *)
LEMMA TableRenewed ==
  ASSUME Types, TowerOK, HeldAt(12), Settled(dev, held, form, rows, tower),
         NEW b \in {"rope", "kv"}, NEW c, c # Free, IsFor(b, c, form, rows', tower), Apart(b, rows, rows', tower, tower),
         NEW o \in Allocated(Released(dev, held[b]), c), dev' = o.dev, held' = With(held, b, o.at),
         rows' = [rope |-> rows'.rope, kv |-> rows'.kv], UNCHANGED <<shape, form, tower, call>>
  PROVE  Types' /\ TowerOK' /\ SoundNow' /\ HeldAt(12)'
<1>1. b \in Plain /\ b \in TextPlain /\ held \in [AllBuffers -> Nat]
  BY DEF Plain, TextPlain, Types
<1>2. Settled(o.dev, With(held, b, o.at), form, rows', tower) /\ o.at \in Nat \ {0}
  BY <1>1, RenewPlain
<1> DEFINE a == o.at
<1>3. held' = With(held, b, a) /\ a \in Nat /\ a # 0
  BY <1>2
<1> HIDE DEF a
<1>4. Types' /\ TowerOK' /\ held'[b] = a /\ \A n \in AllBuffers : n # b => held'[n] = held[n]
  BY <1>1, <1>3, TextMoves
<1>5. HeldAt(12)'
  <2>1. held'["kv"] = held["kv"] \/ b = "kv"
    BY <1>4 DEF AllBuffers, Buffers
  <2>2. \A m \in {"embd", "head", "norm", "gamma", "wq", "w_down", "x", "mrope", "plane", "t_weight", "t_x",
                  "t_scores", "t_index", "t_table"} : held'[m] = held[m]
    BY <1>4 DEF AllBuffers, Buffers, TowerBuffers, Weights, Matrices
  <2>3. held'["rope"] # 0
    <3>1. held["rope"] # 0
      BY DEF HeldAt
    <3> QED
      BY <1>3, <1>4, <3>1 DEF AllBuffers, Buffers
  <2> QED
    BY <2>2, <2>3 DEF HeldAt, HasTower
<1>6. SoundNow'
  BY <1>2, SettledNow
<1> QED
  BY <1>4, <1>5, <1>6

(* The rotary table grows: the old one is released before the new one is
   made, wherever the growth was asked for. *)
LEMMA GrowRopeTableStep ==
  ASSUME SessionInv, GrowRopeTable, UNCHANGED tower
  PROVE  SessionInv'
<1>1. Types /\ TowerOK /\ Stage /\ ReadsWhatItMeans
  BY DEF SessionInv
<1>2. \/ Serving /\ \E k \in 1 .. 6 : CallingAt(k) /\ "grow_rope" = CallSteps[k] /\ todo' = Rest(CallSteps, k + 1)
      \/ Serving /\ \E k \in 1 .. 2 : ReservingAt(k) /\ "grow_rope" = ReserveSteps[k]
                                      /\ todo' = Rest(ReserveSteps, k + 1)
  BY <1>1, Standing, LoadsApart DEF GrowRopeTable
<1>3. Serving /\ HeldAt(12)
  BY <1>2 DEF CallingAt, ReservingAt
<1>4. UNCHANGED <<shape, form, tower, call, phase, reads>> /\ held \in [AllBuffers -> Nat]
  BY <1>1 DEF GrowRopeTable, Alone, Types
<1>5. Types' /\ TowerOK' /\ SoundNow' /\ HeldAt(12)' /\ held'["kv"] = held["kv"]
  <2>1. CASE call.end <= rows.rope
    <3>1. UNCHANGED <<dev, held, rows>>
      BY <2>1 DEF GrowRopeTable
    <3>2. SoundNow'
      BY <1>3, <1>4, <3>1 DEF Serving, SoundNow
    <3> QED
      BY <1>1, <1>3, <1>4, <3>1, <3>2, Unmoved
  <2>2. CASE ~(call.end <= rows.rope)
    <3> DEFINE b == "rope"
               n == Doubled(rows.rope, call.end)
               c == Content(b, "f32", n)
    <3>1. /\ \E o \in Allocated(Released(dev, held[b]), c) : dev' = o.dev /\ held' = [held EXCEPT ![b] = o.at]
          /\ rows' = [rows EXCEPT !.rope = n]
      BY <2>2 DEF GrowRopeTable
    <3>2. PICK o \in Allocated(Released(dev, held[b]), c) : dev' = o.dev /\ held' = [held EXCEPT ![b] = o.at]
      BY <3>1
    <3> HIDE DEF n
    <3>3. rows' = [rope |-> n, kv |-> rows.kv]
      BY <1>1, <3>1 DEF Types
    <3>4. IsFor(b, c, form, rows', tower) /\ c # Free /\ b \in {"rope", "kv"}
      <4>1. c = Content("rope", "f32", rows'.rope)
        BY <3>3
      <4> QED
        BY <4>1, RowsAreFor
    <3>5. Apart(b, rows, rows', tower, tower) /\ rows' = [rope |-> rows'.rope, kv |-> rows'.kv]
      BY <3>3 DEF Apart
    <3>6. Settled(dev, held, form, rows, tower)
      BY <1>3, SettledNow DEF Serving
    <3> HIDE DEF b, c
    <3>7. held' = With(held, b, o.at)
      BY <3>2 DEF With
    <3>8. Types' /\ TowerOK' /\ SoundNow' /\ HeldAt(12)'
      BY <1>1, <1>3, <1>4, <3>2, <3>4, <3>5, <3>6, <3>7, TableRenewed
    <3>9. held'["kv"] = held["kv"]
      BY <1>4, <3>2 DEF AllBuffers, Buffers, b
    <3> QED
      BY <3>8, <3>9
  <2> QED
    BY <2>1, <2>2
<1>6. Stage' /\ phase' # "closed"
  <2>1. CASE \E k \in 1 .. 6 : CallingAt(k) /\ "grow_rope" = CallSteps[k] /\ todo' = Rest(CallSteps, k + 1)
    <3>1. PICK k \in 1 .. 6 : CallingAt(k) /\ "grow_rope" = CallSteps[k] /\ todo' = Rest(CallSteps, k + 1)
      BY <2>1
    <3>2. k = 3 /\ held["kv"] # 0
      BY <3>1, ListsAre DEF CallingAt
    <3> QED
      BY <1>3, <1>4, <1>5, <3>1, <3>2, CallMoves DEF Serving
  <2>2. CASE \E k \in 1 .. 2 : ReservingAt(k) /\ todo' = Rest(ReserveSteps, k + 1)
    BY <1>3, <1>4, <1>5, <2>2, ReserveMoves DEF Serving
  <2> QED
    BY <1>2, <2>1, <2>2
<1> QED
  BY <1>1, <1>4, <1>5, <1>6, SameReads, StaysOpen

(* reserve's slab: the old one goes first. *)
LEMMA ReserveKvStep ==
  ASSUME SessionInv, ReserveKv, UNCHANGED tower
  PROVE  SessionInv'
<1>1. Types /\ TowerOK /\ Stage /\ ReadsWhatItMeans
  BY DEF SessionInv
<1>2. Serving /\ \E k \in 1 .. 2 : ReservingAt(k) /\ todo' = Rest(ReserveSteps, k + 1)
  <2>1. \A k \in 1 .. 6 : "reserve_kv" # CallSteps[k]
    BY ListsAre
  <2> QED
    BY <1>1, <2>1, Standing, LoadsApart DEF ReserveKv
<1>3. Serving /\ HeldAt(12)
  BY <1>2 DEF ReservingAt
<1>4. UNCHANGED <<shape, form, tower, call, phase, reads>> /\ held \in [AllBuffers -> Nat]
  BY <1>1 DEF ReserveKv, Alone, Types
<1> DEFINE b == "kv"
           n == Doubled(IF rows.kv = 0 THEN 1 ELSE rows.kv, call.end)
           c == Content(b, "f16", n)
<1>5. /\ \E o \in Allocated(Released(dev, held[b]), c) : dev' = o.dev /\ held' = [held EXCEPT ![b] = o.at]
                                                         /\ rows' = [rows EXCEPT !.kv = n]
  BY DEF ReserveKv
<1>6. PICK o \in Allocated(Released(dev, held[b]), c) : dev' = o.dev /\ held' = [held EXCEPT ![b] = o.at]
                                                         /\ rows' = [rows EXCEPT !.kv = n]
  BY <1>5
<1> HIDE DEF n
<1>7. rows' = [rope |-> rows.rope, kv |-> n]
  BY <1>1, <1>6 DEF Types
<1>8. IsFor(b, c, form, rows', tower) /\ c # Free /\ b \in {"rope", "kv"}
  <2>1. c = Content("kv", "f16", rows'.kv)
    BY <1>7
  <2> QED
    BY <2>1, RowsAreFor
<1>9. Apart(b, rows, rows', tower, tower) /\ rows' = [rope |-> rows'.rope, kv |-> rows'.kv]
  BY <1>7 DEF Apart
<1>10. Settled(dev, held, form, rows, tower)
  BY <1>3, SettledNow DEF Serving
<1> HIDE DEF b, c
<1>11. held' = With(held, b, o.at)
  BY <1>6 DEF With
<1>12. Types' /\ TowerOK' /\ SoundNow' /\ HeldAt(12)'
  BY <1>1, <1>3, <1>4, <1>6, <1>8, <1>9, <1>10, <1>11, TableRenewed
<1>13. Stage' /\ phase' # "closed"
  BY <1>2, <1>3, <1>4, <1>12, ReserveMoves DEF Serving
<1> QED
  BY <1>1, <1>4, <1>12, <1>13, SameReads, StaysOpen

-----------------------------------------------------------------------------
(* The scratch buffers.                                                    *)

(* The scratch buffers of a model.                                         *)
ScratchParts == {"x", "plane", "mrope"}

(* One scratch buffer is made, or is not wanted.                           *)
ScratchMade(d, own, con, pc, b, o, q) ==
  /\ Tidy(o.dev, With(own, b, o.at), q, pc) /\ Aside(d, o.dev)
  /\ \A n \in Names : n # b => q[n] = con[n]
  /\ o.at # 0 => q[b] = Content(b, "f32", 0)
  /\ o.at \in Nat /\ (o.at # 0 <=> (b = "plane" => shape.deepstack))

(* Making one leaves the memory in order. *)
LEMMA ScratchOK ==
  ASSUME NEW d, NEW own, NEW con, NEW pc, Tidy(d, own, con, pc),
         NEW b \in ScratchParts, own[b] = 0, NEW o \in Scratch(d, b)
  PROVE  \E q : ScratchMade(d, own, con, pc, b, o, q)
<1>1. b \in Names
  BY DEF ScratchParts, Names, Buffers
<1>2. CASE b = "plane" /\ ~shape.deepstack
  <2>1. o.dev = d /\ o.at = 0
    BY <1>2 DEF Scratch
  <2>2. With(own, b, o.at) = own
    BY <1>1, <2>1 DEF Tidy, With
  <2>3. ScratchMade(d, own, con, pc, b, o, con)
    BY <1>2, <2>1, <2>2 DEF ScratchMade, Aside
  <2> QED
    BY <2>3
<1>3. CASE ~(b = "plane" /\ ~shape.deepstack)
  <2> DEFINE c == Content(b, "f32", 0)
             q == [con EXCEPT ![b] = c]
  <2>1. o \in Allocated(d, c) /\ c # Free
    BY <1>3 DEF Scratch, Content, Free, ScratchParts
  <2>2. \A n \in Names : q[n] = IF n = b THEN c ELSE con[n]
    BY DEF Tidy
  <2> HIDE DEF c
  <2>3. Tidy(o.dev, [own EXCEPT ![b] = o.at], q, pc) /\ o.at \in Nat \ {0} /\ Aside(d, o.dev)
    BY <1>1, <2>1, TidyGain
  <2> HIDE DEF q
  <2>4. Tidy(o.dev, With(own, b, o.at), q, pc)
    BY <2>3 DEF With
  <2>5. ScratchMade(d, own, con, pc, b, o, q)
    BY <1>1, <1>3, <2>2, <2>3, <2>4 DEF ScratchMade, c
  <2> QED
    BY <2>5
<1> QED
  BY <1>2, <1>3

(* Every scratch buffer goes, then each is made anew. *)
LEMMA ScratchRenewed ==
  ASSUME Types, TowerOK, Settled(dev, held, form, rows, tower),
         NEW x, x \in Scratch(ReleasedAll(dev, <<held["x"], held["plane"], held["mrope"]>>), "x"),
         NEW p, p \in Scratch(x.dev, "plane"), NEW m, m \in Scratch(p.dev, "mrope"),
         dev' = m.dev, held' = [held EXCEPT !["x"] = x.at, !["plane"] = p.at, !["mrope"] = m.at],
         UNCHANGED <<shape, form, rows, tower, call>>
  PROVE  /\ Types' /\ TowerOK' /\ SoundNow' /\ held'["x"] # 0 /\ held'["mrope"] # 0
         /\ (held'["plane"] # 0 <=> shape.deepstack)
         /\ \A n \in AllBuffers : n \notin ScratchParts => held'[n] = held[n]
<1>1. PICK con, pc : Sound(dev, held, form, con, pc, rows, tower)
  BY DEF Settled, Steady
<1> DEFINE own == Owners(held, form)
           w0 == Without(own, ScratchParts)
           places == <<held["x"], held["plane"], held["mrope"]>>
           old == ReleasedAll(dev, places)
<1>2. held \in [AllBuffers -> Nat] /\ own \in [Names -> Nat] /\ Tidy(dev, own, con, pc)
  BY <1>1, OwnersAre DEF Types, Sound
<1>3. \A b \in ScratchParts : b \in Plain /\ b \in Names /\ b \in AllBuffers \ Weights /\ own[b] = held[b]
  <2>1. \A b \in ScratchParts : b \in Plain
    BY DEF ScratchParts, Plain
  <2> QED
    BY <1>2, <2>1, PlainOwns
<1>4. Tidy(old, w0, con, pc) /\ Aside(dev, old)
  <2> DEFINE s == <<"x", "plane", "mrope">>
  <2>1. Len(s) = 3 /\ Len(places) = 3 /\ s[1] = "x" /\ s[2] = "plane" /\ s[3] = "mrope"
        /\ places[1] = held["x"] /\ places[2] = held["plane"] /\ places[3] = held["mrope"]
    OBVIOUS
  <2> HIDE DEF s, places, own
  <2>2. \A i \in 1 .. Len(s) : s[i] \in Names /\ places[i] = own[s[i]]
    <3>1. ASSUME NEW i \in 1 .. 3 PROVE s[i] \in Names /\ places[i] = own[s[i]]
      <4>1. i = 1 \/ i = 2 \/ i = 3
        OBVIOUS
      <4> QED
        BY <1>3, <2>1, <4>1 DEF ScratchParts
    <3> QED
      BY <2>1, <3>1
  <2>3. \A i, j \in 1 .. Len(s) : s[i] = s[j] => i = j
    <3>1. ASSUME NEW i \in 1 .. 3, NEW j \in 1 .. 3, s[i] = s[j] PROVE i = j
      <4>1. (i = 1 \/ i = 2 \/ i = 3) /\ (j = 1 \/ j = 2 \/ j = 3)
        OBVIOUS
      <4> QED
        BY <2>1, <3>1, <4>1
    <3> QED
      BY <2>1, <3>1
  <2>4. {s[i] : i \in 1 .. Len(s)} = ScratchParts
    <3>1. \A i : i \in 1 .. 3 <=> i = 1 \/ i = 2 \/ i = 3
      OBVIOUS
    <3> QED
      BY <2>1, <3>1 DEF ScratchParts
  <2>5. Len(s) \in Nat /\ Len(places) = Len(s)
    BY <2>1
  <2>6. Lists(own, s, places, ScratchParts)
    BY <2>2, <2>3, <2>4, <2>5 DEF Lists
  <2>7. Tidy(ReleasedAll(dev, places), Without(own, ScratchParts), con, pc) /\ Aside(dev, ReleasedAll(dev, places))
    BY <1>2, <2>6, TidyLoseAll
  <2> QED
    BY <2>7
<1>5. w0 \in [Names -> Nat] /\ \A n \in Names : w0[n] = IF n \in ScratchParts THEN 0 ELSE own[n]
  BY <1>2 DEF Without
<1>6. x \in Scratch(old, "x") /\ p \in Scratch(x.dev, "plane") /\ m \in Scratch(p.dev, "mrope")
  OBVIOUS
<1> HIDE DEF own, w0, old
<1> DEFINE X == "x"
           P == "plane"
           M == "mrope"
           w1 == With(w0, X, x.at)
           w2 == With(w1, P, p.at)
           w3 == With(w2, M, m.at)
<1>7. X \in ScratchParts /\ P \in ScratchParts /\ M \in ScratchParts /\ X # P /\ P # M /\ X # M
      /\ ScratchParts = {X, P, M}
  BY DEF ScratchParts
<1>8. x \in Scratch(old, X) /\ p \in Scratch(x.dev, P) /\ m \in Scratch(p.dev, M)
      /\ held' = [held EXCEPT ![X] = x.at, ![P] = p.at, ![M] = m.at]
  BY <1>6
<1> HIDE DEF X, P, M
<1>9. PICK q1 : ScratchMade(old, w0, con, pc, X, x, q1)
  BY <1>3, <1>4, <1>5, <1>7, <1>8, ScratchOK
<1>10. Tidy(x.dev, w1, q1, pc) /\ w1[P] = 0 /\ x.at \in Nat
  BY <1>3, <1>5, <1>7, <1>9 DEF ScratchMade, With
<1>11. PICK q2 : ScratchMade(x.dev, w1, q1, pc, P, p, q2)
  BY <1>7, <1>8, <1>10, ScratchOK
<1>12. Tidy(p.dev, w2, q2, pc) /\ w2[M] = 0 /\ p.at \in Nat
  BY <1>3, <1>5, <1>7, <1>11 DEF ScratchMade, With
<1>13. PICK q3 : ScratchMade(p.dev, w2, q2, pc, M, m, q3)
  BY <1>7, <1>8, <1>12, ScratchOK
<1>14. Tidy(m.dev, w3, q3, pc) /\ m.at \in Nat
  BY <1>13 DEF ScratchMade
<1>15. Aside(dev, m.dev)
  BY <1>4, <1>9, <1>11, <1>13 DEF ScratchMade, Aside
<1>16. w3 = Owners(held', form) /\ held' \in [AllBuffers -> Nat]
  <2> DEFINE h1 == With(held, X, x.at)
             h2 == With(h1, P, p.at)
             h3 == With(h2, M, m.at)
  <2>7. X \in Plain /\ P \in Plain /\ M \in Plain /\ held \in [AllBuffers -> Nat]
        /\ x.at \in Nat /\ p.at \in Nat /\ m.at \in Nat
    BY <1>2, <1>3, <1>7, <1>10, <1>12, <1>14
  <2>1. Owners(h1, form) = With(own, X, x.at) /\ h1 \in [AllBuffers -> Nat]
    BY <2>7, OwnersPlain, Zenon DEF own
  <2> HIDE DEF h1
  <2>2. Owners(h2, form) = With(Owners(h1, form), P, p.at) /\ h2 \in [AllBuffers -> Nat]
    BY <2>1, <2>7, OwnersPlain, Zenon
  <2> HIDE DEF h2
  <2>3. Owners(h3, form) = With(Owners(h2, form), M, m.at) /\ h3 \in [AllBuffers -> Nat]
    BY <2>2, <2>7, OwnersPlain, Zenon
  <2>4. h3 = held'
    BY <1>8 DEF h2, h1, With
  <2> HIDE DEF h3
  <2>5. Owners(held', form) = With(With(With(own, X, x.at), P, p.at), M, m.at)
    BY <2>1, <2>2, <2>3, <2>4
  <2>6. w3 = With(With(With(own, X, x.at), P, p.at), M, m.at)
    <3> DEFINE v == With(With(With(own, X, x.at), P, p.at), M, m.at)
    <3>1. w3 \in [Names -> Nat] /\ v \in [Names -> Nat]
      BY <1>2, <1>3, <1>5, <1>7, <1>10, <1>12, <1>14 DEF With
    <3>2. \A n \in Names : w3[n] = (IF n = M THEN m.at ELSE IF n = P THEN p.at ELSE IF n = X THEN x.at ELSE own[n])
      BY <1>2, <1>3, <1>5, <1>7 DEF With
    <3>3. \A n \in Names : v[n] = (IF n = M THEN m.at ELSE IF n = P THEN p.at ELSE IF n = X THEN x.at ELSE own[n])
      BY <1>2, <1>3, <1>7 DEF With
    <3> HIDE DEF w3, v
    <3>4. w3 = v
      BY <3>1, <3>2, <3>3
    <3> QED
      BY <3>4 DEF v
  <2> QED
    BY <2>3, <2>4, <2>5, <2>6
<1>17. held'[X] = x.at /\ held'[P] = p.at /\ held'[M] = m.at
       /\ \A n \in AllBuffers : n \notin ScratchParts => held'[n] = held[n]
  BY <1>2, <1>3, <1>7, <1>8
<1>18. x.at # 0 /\ m.at # 0 /\ (p.at # 0 <=> shape.deepstack)
  BY <1>9, <1>11, <1>13 DEF ScratchMade, X, P, M
<1>19. \A b \in AllBuffers : b \notin ScratchParts => q3[b] = con[b]
  <2>1. \A b \in AllBuffers : b \in Names
    BY BuffersAre
  <2> QED
    BY <1>7, <1>9, <1>11, <1>13, <2>1 DEF ScratchMade
<1>20. \A b \in ScratchParts : held'[b] # 0 => q3[b] = Content(b, "f32", 0)
  <2>1. held'[X] # 0 => q3[X] = Content(X, "f32", 0)
    BY <1>3, <1>7, <1>9, <1>11, <1>13, <1>17 DEF ScratchMade
  <2>2. held'[P] # 0 => q3[P] = Content(P, "f32", 0)
    BY <1>3, <1>7, <1>11, <1>13, <1>17 DEF ScratchMade
  <2>3. held'[M] # 0 => q3[M] = Content(M, "f32", 0)
    BY <1>13, <1>17 DEF ScratchMade
  <2> QED
    BY <1>7, <2>1, <2>2, <2>3
<1>21. ASSUME NEW b \in AllBuffers, Owners(held', form)[b] # 0 PROVE IsFor(b, q3[b], form, rows, tower)
  <2>1. CASE b \in ScratchParts
    <3>1. Owners(held', form)[b] = held'[b]
      BY <1>3, <1>16, <2>1, PlainOwns
    <3>2. q3[b] = Content(b, "f32", 0)
      BY <1>20, <1>21, <2>1, <3>1
    <3> QED
      BY <2>1, <3>2, InputIsFor DEF ScratchParts
  <2>2. CASE b \notin ScratchParts
    <3>1. held'["head"] = held["head"] /\ held'["embd"] = held["embd"] /\ held'[b] = held[b]
      BY <1>17, <2>2 DEF AllBuffers, Buffers, Weights, Matrices, ScratchParts
    <3>2. Owners(held', form)[b] = own[b] /\ b \in Names
      BY <3>1, BuffersAre DEF Owners, own
    <3> QED
      BY <1>1, <1>19, <1>21, <2>2, <3>2 DEF Sound, own
  <2> QED
    BY <2>1, <2>2
<1>22. \A b \in Weights \cup {"norm", "gamma"} : held'[b] = held[b]
  BY <1>17, BuffersAre DEF ScratchParts, Weights, Matrices
<1>23. Tidy(m.dev, Owners(held', form), q3, pc)
  BY <1>14, <1>16
<1> DEFINE g == held'
           e == m.dev
<1>24. /\ Tidy(e, Owners(g, form), q3, pc) /\ Aside(dev, e) /\ (\A b \in Weights \cup {"norm", "gamma"} : g[b] = held[b])
       /\ \A b \in AllBuffers : Owners(g, form)[b] # 0 => IsFor(b, q3[b], form, rows, tower)
  BY <1>15, <1>21, <1>22, <1>23
<1> HIDE DEF g, e
<1>25. Sound(e, g, form, q3, pc, rows, tower)
  BY <1>1, <1>24, SoundPlain
<1>26. SoundNow'
  <2>1. Settled(dev', held', form', rows', tower')
    BY <1>25 DEF g, e, Settled, Steady
  <2> QED
    BY <2>1, SettledNow
<1>27. Types' /\ TowerOK'
  <2>1. \A n \in {"embd", "head", "t_weight", "t_x", "t_scores", "t_index"} : held'[n] = held[n]
    BY <1>17 DEF ScratchParts, AllBuffers, Buffers, TowerBuffers, Weights, Matrices
  <2>2. Types'
    BY <1>16, <2>1 DEF Types, Tied, Ascend
  <2>3. TowerOK'
    BY <2>1 DEF TowerOK, OwnedFirst, Owned
  <2> QED
    BY <2>2, <2>3
<1> QED
  BY <1>17, <1>18, <1>26, <1>27 DEF X, P, M

(* The scratch of a load, and of a forward. *)
LEMMA EnsureCapacityStep ==
  ASSUME SessionInv, EnsureCapacity, UNCHANGED tower
  PROVE  SessionInv'
<1>1. Types /\ TowerOK /\ Stage /\ ReadsWhatItMeans
  BY DEF SessionInv
<1>2. \/ Serving /\ \E k \in Nat : LoadingAt(k) /\ "scratch" = Loads[k] /\ todo' = Rest(Loads, k + 1)
      \/ Serving /\ \E k \in 1 .. 6 : CallingAt(k) /\ "scratch" = CallSteps[k] /\ todo' = Rest(CallSteps, k + 1)
  <2>1. \A k \in 1 .. 2 : "scratch" # ReserveSteps[k]
    BY ListsAre
  <2> QED
    BY <1>1, <2>1, Standing DEF EnsureCapacity
<1>3. UNCHANGED <<shape, form, rows, tower, call, reads>> /\ phase' = "open"
  BY DEF EnsureCapacity
<1>4. Settled(dev, held, form, rows, tower)
  BY <1>2, SettledNow DEF Serving
<1>5. PICK x \in Scratch(ReleasedAll(dev, <<held["x"], held["plane"], held["mrope"]>>), "x") :
        \E p \in Scratch(x.dev, "plane") : \E m \in Scratch(p.dev, "mrope") :
          dev' = m.dev /\ held' = [held EXCEPT !["x"] = x.at, !["plane"] = p.at, !["mrope"] = m.at]
  BY DEF EnsureCapacity
<1>6. PICK p \in Scratch(x.dev, "plane") : \E m \in Scratch(p.dev, "mrope") :
        dev' = m.dev /\ held' = [held EXCEPT !["x"] = x.at, !["plane"] = p.at, !["mrope"] = m.at]
  BY <1>5
<1>7. PICK m \in Scratch(p.dev, "mrope") :
        dev' = m.dev /\ held' = [held EXCEPT !["x"] = x.at, !["plane"] = p.at, !["mrope"] = m.at]
  BY <1>6
<1>8. /\ Types' /\ TowerOK' /\ SoundNow' /\ held'["x"] # 0 /\ held'["mrope"] # 0
      /\ (held'["plane"] # 0 <=> shape.deepstack)
      /\ \A n \in AllBuffers : n \notin ScratchParts => held'[n] = held[n]
  BY <1>1, <1>3, <1>4, <1>5, <1>6, <1>7, ScratchRenewed
<1>9. \A n \in {"embd", "head", "norm", "gamma", "wq", "w_down", "rope", "t_weight", "t_x", "t_scores", "t_index", "t_table"} :
        held'[n] = held[n]
  BY <1>8 DEF ScratchParts, AllBuffers, Buffers, TowerBuffers, Weights, Matrices
<1>10. CASE \E k \in Nat : LoadingAt(k) /\ "scratch" = Loads[k] /\ todo' = Rest(Loads, k + 1)
  <2>1. PICK k \in Nat : LoadingAt(k) /\ "scratch" = Loads[k] /\ todo' = Rest(Loads, k + 1)
    BY <1>10
  <2>2. k \in 1 .. Len(Loads) /\ HeldAt(k)
    BY <2>1 DEF LoadingAt
  <2>3. k = 9
    BY <2>1, <2>2, LoadIndex
  <2>4. HeldAt(10)'
    BY <1>3, <1>8, <1>9, <2>2, <2>3 DEF HeldAt, HasTower
  <2>5. Stage'
    BY <1>3, <1>8, <2>1, <2>2, <2>3, <2>4, LoadMoves
  <2> QED
    BY <1>1, <1>3, <1>8, <2>5, SameReads, StaysOpen
<1>11. CASE \E k \in 1 .. 6 : CallingAt(k) /\ "scratch" = CallSteps[k] /\ todo' = Rest(CallSteps, k + 1)
  <2>1. PICK k \in 1 .. 6 : CallingAt(k) /\ "scratch" = CallSteps[k] /\ todo' = Rest(CallSteps, k + 1)
    BY <1>11
  <2>2. k = 1 /\ HeldAt(12)
    BY <2>1, ListsAre DEF CallingAt
  <2>3. HeldAt(12)'
    BY <1>3, <1>8, <1>9, <2>2 DEF HeldAt, HasTower
  <2>4. Stage'
    BY <1>3, <1>8, <2>1, <2>2, <2>3, CallMoves
  <2> QED
    BY <1>1, <1>3, <1>8, <2>4, SameReads, StaysOpen
<1> QED
  BY <1>2, <1>10, <1>11

-----------------------------------------------------------------------------
(* Binding: a repacking leaves one place.                                  *)

(* A place was found for b, and c is there; the others are as they were, save
   what a repacking went through.                                          *)
Made(d, own, con, pc, b, c, o, q) ==
  /\ Tidy(o.dev, With(own, b, o.at), q, pc) /\ Aside(d, o.dev) /\ o.at \in Nat \ {0}
  /\ \A n \in Names : n # b /\ n # "spare" => q[n] = con[n]
  /\ q[b] = c

(* A buffer that is allocated and filled is made. *)
LEMMA MadePlainly ==
  ASSUME NEW d, NEW own, NEW con, NEW pc, Tidy(d, own, con, pc),
         NEW b \in Names, own[b] = 0, NEW c, c # Free, NEW o \in Allocated(d, c)
  PROVE  \E q : Made(d, own, con, pc, b, c, o, q)
<1> DEFINE q == [con EXCEPT ![b] = c]
<1>1. \A n \in Names : q[n] = IF n = b THEN c ELSE con[n]
  BY DEF Tidy
<1>2. Tidy(o.dev, [own EXCEPT ![b] = o.at], q, pc) /\ o.at \in Nat \ {0} /\ Aside(d, o.dev)
  BY TidyGain
<1> HIDE DEF q
<1>3. Made(d, own, con, pc, b, c, o, q)
  BY <1>1, <1>2 DEF Made, With
<1> QED
  BY <1>3

(* Repacked in place, through a buffer that goes at once. *)
LEMMA MadeInPlace ==
  ASSUME NEW d, NEW own, NEW con, NEW pc, Tidy(d, own, con, pc), own["spare"] = 0,
         NEW b \in Names, b # "spare", own[b] = 0, NEW c, c # Free, NEW c2, c2 # Free,
         NEW o \in Allocated(d, c), NEW s \in Allocated(o.dev, c2), NEW m,
         m.dev = Released(Written(s.dev, o.at, c2), s.at), m.at = o.at
  PROVE  \E q : Made(d, own, con, pc, b, c2, m, q)
<1> DEFINE z == "spare"
           w1 == [own EXCEPT ![b] = o.at]
           q1 == [con EXCEPT ![b] = c]
           w2 == [w1 EXCEPT ![z] = s.at]
           q2 == [q1 EXCEPT ![z] = c2]
           e3 == Written(s.dev, o.at, c2)
           q3 == [q2 EXCEPT ![b] = c2]
           w4 == [w2 EXCEPT ![z] = 0]
<1>1. z \in Names /\ z # b /\ own \in [Names -> Nat] /\ own[z] = 0
  BY DEF Names, Tidy
<1>2. Tidy(o.dev, w1, q1, pc) /\ o.at \in Nat \ {0} /\ Aside(d, o.dev)
  BY TidyGain
<1>3. w1 \in [Names -> Nat] /\ w1[z] = 0 /\ w1[b] = o.at
  BY <1>1, <1>2
<1>4. \A n \in Names : q3[n] = IF n = b \/ n = z THEN c2 ELSE con[n]
  BY <1>1 DEF Tidy
<1> HIDE DEF z
<1>5. Tidy(s.dev, w2, q2, pc) /\ s.at \in Nat \ {0} /\ Aside(o.dev, s.dev)
  <2> HIDE DEF w1, q1
  <2> QED
    BY <1>1, <1>2, <1>3, TidyGain
<1>6. w2 \in [Names -> Nat] /\ w2[z] = s.at /\ w2[b] = o.at
  BY <1>1, <1>3, <1>5
<1>7. w4 = With(own, b, o.at)
  <2>1. \A n \in Names : w4[n] = IF n = b THEN o.at ELSE own[n]
    BY <1>1, <1>3, <1>6
  <2>2. w4 \in [Names -> Nat]
    BY <1>1, <1>6
  <2> HIDE DEF w4
  <2> QED
    BY <1>1, <2>1, <2>2 DEF With
<1> HIDE DEF w2, q2
<1>8. Tidy(e3, w2, q3, pc) /\ Aside(s.dev, e3)
  <2>1. Tidy(Written(s.dev, w2[b], c2), w2, q3, pc) /\ Aside(s.dev, Written(s.dev, w2[b], c2))
    BY <1>2, <1>5, <1>6, TidyPut
  <2> QED
    BY <1>6, <2>1
<1> HIDE DEF e3, q3
<1>9. Tidy(Released(e3, w2[z]), w4, q3, pc) /\ Aside(e3, Released(e3, w2[z]))
  BY <1>1, <1>8, TidyLose
<1>10. m.dev = Released(e3, w2[z])
  BY <1>6 DEF e3
<1> HIDE DEF w4
<1>11. Made(d, own, con, pc, b, c2, m, q3)
  <2>1. Tidy(m.dev, With(own, b, m.at), q3, pc)
    BY <1>7, <1>9, <1>10
  <2>2. Aside(d, m.dev)
    BY <1>2, <1>5, <1>8, <1>9, <1>10 DEF Aside
  <2>3. \A n \in Names : n # b /\ n # "spare" => q3[n] = con[n]
    BY <1>4 DEF z
  <2> QED
    BY <1>2, <1>4, <2>1, <2>2, <2>3 DEF Made
<1> QED
  BY <1>11

(* Repacked into a buffer of its own; the file's blocks go. *)
LEMMA MadeAside ==
  ASSUME NEW d, NEW own, NEW con, NEW pc, Tidy(d, own, con, pc), own["spare"] = 0,
         NEW b \in Names, b # "spare", own[b] = 0, NEW c, c # Free, NEW c2, c2 # Free,
         NEW o \in Allocated(d, c), NEW n \in Allocated(o.dev, c2), NEW m,
         m.dev = Released(n.dev, o.at), m.at = n.at
  PROVE  \E q : Made(d, own, con, pc, b, c2, m, q)
<1> DEFINE z == "spare"
           w1 == [own EXCEPT ![z] = o.at]
           q1 == [con EXCEPT ![z] = c]
           w2 == [w1 EXCEPT ![b] = n.at]
           q2 == [q1 EXCEPT ![b] = c2]
           w3 == [w2 EXCEPT ![z] = 0]
<1>1. z \in Names /\ z # b /\ own \in [Names -> Nat] /\ own[z] = 0
  BY DEF Names, Tidy
<1>2. \A x \in Names : q2[x] = IF x = b THEN c2 ELSE IF x = z THEN c ELSE con[x]
  BY <1>1 DEF Tidy
<1> HIDE DEF z
<1>3. Tidy(o.dev, w1, q1, pc) /\ o.at \in Nat \ {0} /\ Aside(d, o.dev)
  BY <1>1, TidyGain
<1>4. w1 \in [Names -> Nat] /\ w1[z] = o.at /\ w1[b] = 0
  BY <1>1, <1>3
<1>5. Tidy(n.dev, w2, q2, pc) /\ n.at \in Nat \ {0} /\ Aside(o.dev, n.dev)
  <2> HIDE DEF w1, q1
  <2> QED
    BY <1>3, <1>4, TidyGain
<1>6. w2 \in [Names -> Nat] /\ w2[z] = o.at /\ w2[b] = n.at
  BY <1>1, <1>4, <1>5
<1>7. w3 = With(own, b, n.at)
  <2>1. \A x \in Names : w3[x] = IF x = b THEN n.at ELSE own[x]
    BY <1>1, <1>4, <1>6
  <2>2. w3 \in [Names -> Nat]
    BY <1>1, <1>6
  <2> HIDE DEF w3
  <2> QED
    BY <1>1, <2>1, <2>2 DEF With
<1> HIDE DEF w2, q2
<1>8. Tidy(Released(n.dev, w2[z]), w3, q2, pc) /\ Aside(n.dev, Released(n.dev, w2[z]))
  BY <1>1, <1>5, TidyLose
<1>9. m.dev = Released(n.dev, w2[z])
  BY <1>6
<1> HIDE DEF w3
<1>10. Made(d, own, con, pc, b, c2, m, q2)
  <2>1. Tidy(m.dev, With(own, b, m.at), q2, pc)
    BY <1>7, <1>8, <1>9
  <2>2. Aside(d, m.dev)
    BY <1>3, <1>5, <1>8, <1>9 DEF Aside
  <2>3. \A x \in Names : x # b /\ x # "spare" => q2[x] = con[x]
    BY <1>2 DEF z
  <2> QED
    BY <1>2, <1>5, <2>1, <2>2, <2>3 DEF Made
<1> QED
  BY <1>10

(* bind_matrix, whatever it makes of the bytes. *)
LEMMA MatrixMade ==
  ASSUME NEW d, NEW own, NEW con, NEW pc, Tidy(d, own, con, pc), own["spare"] = 0,
         NEW b \in Weights, own[b] = 0, NEW kind, NEW o \in Matrix(d, b, kind)
  PROVE  \E q : Made(d, own, con, pc, b, Content(b, MatrixForm(kind), 0), o, q)
<1> DEFINE bytes0 == IF kind = "dense" THEN "dense" ELSE "packed"
           c == Content(b, bytes0, 0)
<1>1. b \in Names /\ b # "spare" /\ Bound(d, b, kind) = Allocated(d, c)
  BY BuffersAre DEF Bound
<1>2. \A as : Content(b, as, 0) # Free
  BY DEF Content, Free, Weights, Matrices
<1>3. c # Free
  BY <1>2
<1> HIDE DEF bytes0
<1>4. CASE MatrixForm(kind) = "panel"
  <2> DEFINE p == Content(b, "panel", 0)
  <2>1. PICK u \in Bound(d, b, kind) : o \in Repacked(u, b)
    BY <1>4 DEF Matrix
  <2>2. PICK s \in Allocated(u.dev, p) : o = [dev |-> Released(Written(s.dev, u.at, p), s.at), at |-> u.at]
    BY <2>1 DEF Repacked
  <2>3. p # Free /\ o.dev = Released(Written(s.dev, u.at, p), s.at) /\ o.at = u.at /\ u \in Allocated(d, c)
    BY <1>1, <1>2, <2>1, <2>2
  <2> HIDE DEF p, c
  <2>4. \E q : Made(d, own, con, pc, b, p, o, q)
    BY <1>1, <1>3, <2>2, <2>3, MadeInPlace
  <2> QED
    BY <1>4, <2>4 DEF p
<1>5. CASE MatrixForm(kind) = "q6k"
  <2> DEFINE p == Content(b, "q6k", 0)
  <2>1. PICK u \in Bound(d, b, kind) : o \in RepackedQ6k(u, b)
    BY <1>5 DEF Matrix
  <2>2. PICK n \in Allocated(u.dev, p) : o = [dev |-> Released(n.dev, u.at), at |-> n.at]
    BY <2>1 DEF RepackedQ6k
  <2>3. p # Free /\ o.dev = Released(n.dev, u.at) /\ o.at = n.at /\ u \in Allocated(d, c)
    BY <1>1, <1>2, <2>1, <2>2
  <2> HIDE DEF p, c
  <2>4. \E q : Made(d, own, con, pc, b, p, o, q)
    BY <1>1, <1>3, <2>2, <2>3, MadeAside
  <2> QED
    BY <1>5, <2>4 DEF p
<1>6. CASE MatrixForm(kind) # "panel" /\ MatrixForm(kind) # "q6k"
  <2>1. o \in Allocated(d, c)
    BY <1>1, <1>6 DEF Matrix
  <2>2. c = Content(b, MatrixForm(kind), 0)
    BY <1>6 DEF MatrixForm, bytes0
  <2> HIDE DEF c
  <2>3. \E q : Made(d, own, con, pc, b, c, o, q)
    BY <1>1, <1>3, <2>1, MadePlainly
  <2> QED
    BY <2>2, <2>3
<1> QED
  BY <1>4, <1>5, <1>6

-----------------------------------------------------------------------------
(* Binding: the steps of a load.                                           *)

(* The buffers a load binds from the file.                                 *)
Bindable == {"norm", "gamma"} \cup Weights

(* Before anything is decoded or given back. *)
LEMMA FreshSound ==
  ASSUME NEW d, NEW h \in [AllBuffers -> Nat], NEW f, NEW con, NEW pc, NEW r, NEW t, Tidy(d, Owners(h, f), con, pc),
         \A b \in AllBuffers : Owners(h, f)[b] # 0 => IsFor(b, con[b], f, r, t),
         DOMAIN d.planes = {}, d.spent = {}, \A w \in Weights : f[w] # "spent"
  PROVE  Sound(d, h, f, con, pc, r, t)
<1>1. \A w \in Bodies(h) : w \in Weights /\ Owners(h, f)[w] = h[w] /\ h[w] # 0 /\ w \in Names
  <2>1. \A w \in Bodies(h) : w \in Weights /\ f[w] # "spent"
    BY DEF Bodies
  <2> QED
    BY <2>1, BodiesOwn, BuffersAre
<1>2. ASSUME NEW w \in Bodies(h) PROVE Decodes(w, d, h, f)
  BY <1>1 DEF Decodes
<1>3. ASSUME NEW v \in Bodies(h), NEW w \in Bodies(h), h[v] = h[w] PROVE v = w
  <2>1. \A b, c \in Names : Owners(h, f)[b] = Owners(h, f)[c] /\ Owners(h, f)[b] # 0 => b = c
    BY DEF Tidy
  <2> QED
    BY <1>1, <1>3, <2>1
<1> QED
  BY <1>2, <1>3 DEF Sound

(* They are weights or norms. *)
LEMMA BindableAre ==
  Bindable \subseteq AllBuffers /\ Bindable \subseteq Names /\ "spare" \notin Bindable /\ Weights \subseteq Bindable
  /\ (\A b \in Bindable : b \in Weights \/ b \in {"norm", "gamma"}) /\ Bindable \cap Plain = {}
BY DEF Bindable, AllBuffers, Buffers, Names, Weights, Matrices, Plain, TowerBuffers

(* A buffer of the load answers for its place. *)
LEMMA OwnersBound ==
  ASSUME NEW h \in [AllBuffers -> Nat], NEW f, NEW f2, NEW b \in Bindable, NEW a \in Nat \ {0},
         \A w \in Weights : f[w] # "spent" /\ f2[w] # "spent",
         h[b] = 0, b = "embd" => h["head"] = 0, b = "head" => h["embd"] # 0,
         \A n \in Names : Owners(h, f)[n] # a
  PROVE  Owners(With(h, b, a), f2) = With(Owners(h, f), b, a) /\ With(h, b, a) \in [AllBuffers -> Nat]
<1> DEFINE g == With(h, b, a)
           u == Owners(g, f2)
           v == With(Owners(h, f), b, a)
<1>1. b \in AllBuffers /\ b \in Names /\ b # "spare" /\ a \in Nat
  BY BindableAre
<1>2. g \in [AllBuffers -> Nat] /\ g[b] = a /\ \A n \in AllBuffers : n # b => g[n] = h[n]
  BY <1>1 DEF With
<1> HIDE DEF g
<1>3. Owners(h, f) \in [Names -> Nat] /\ u \in [Names -> Nat]
  BY <1>2, OwnersAre
<1>4. v \in [Names -> Nat] /\ \A n \in Names : v[n] = IF n = b THEN a ELSE Owners(h, f)[n]
  BY <1>1, <1>3 DEF With
<1>5. h["embd"] # a
  <2>1. Owners(h, f)["embd"] = h["embd"] /\ "embd" \in Names
    BY OwnersAre, BindableAre DEF Weights, Matrices
  <2> QED
    BY <2>1
<1>6. ASSUME NEW n \in Names PROVE u[n] = v[n]
  <2>1. CASE n = "spare"
    BY <1>1, <1>2, <1>3, <1>4, <2>1, OwnersAre
  <2>2. CASE n \in AllBuffers \ Weights
    BY <1>2, <1>4, <2>2, OwnersAre
  <2>3. CASE n = "embd"
    BY <1>2, <1>4, <2>3, OwnersAre DEF Weights, Matrices, AllBuffers, Buffers
  <2>4. CASE n \in Matrices
    BY <1>2, <1>4, <2>4, OwnersAre DEF Weights, Matrices, AllBuffers, Buffers
  <2>5. CASE n = "head"
    <3>1. u["head"] = (IF g["head"] = g["embd"] THEN 0 ELSE g["head"])
          /\ Owners(h, f)["head"] = (IF h["head"] = h["embd"] THEN 0 ELSE h["head"])
      BY <1>2, OwnersAre DEF Weights, Matrices
    <3>2. "head" \in AllBuffers /\ "embd" \in AllBuffers
      BY DEF AllBuffers, Buffers, Weights, Matrices
    <3>3. CASE b = "head"
      BY <1>2, <1>4, <1>5, <2>5, <3>1, <3>2, <3>3
    <3>4. CASE b = "embd"
      BY <1>2, <1>4, <2>5, <3>1, <3>2, <3>4
    <3>5. CASE b # "head" /\ b # "embd"
      BY <1>2, <1>4, <2>5, <3>1, <3>2, <3>5
    <3> QED
      BY <3>3, <3>4, <3>5
  <2> QED
    BY <2>1, <2>2, <2>3, <2>4, <2>5, BuffersAre DEF Weights, Matrices
<1> HIDE DEF u, v
<1>7. u = v
  BY <1>3, <1>4, <1>6
<1> QED
  BY <1>2, <1>7 DEF u, v, g

(* Which buffer each of the first steps of a load binds.                   *)
BoundAt(b, k) ==
  \/ b = "embd" /\ k = 1
  \/ b = "head" /\ k = 2
  \/ b = "norm" /\ k = 3
  \/ b = "gamma" /\ k = 4
  \/ b = "wq" /\ k = 5
  \/ b = "w_down" /\ k = 6

(* A buffer of the load is bound. *)
LEMMA BindMoves ==
  ASSUME SessionInv, NEW b \in Bindable, NEW k \in 1 .. Len(Loads), BoundAt(b, k), LoadingAt(k), Serving,
         todo' = Rest(Loads, k + 1), NEW o, NEW c,
         \A con, pc : Tidy(dev, Owners(held, form), con, pc) => \E q : Made(dev, Owners(held, form), con, pc, b, c, o, q),
         dev' = o.dev, held' = [held EXCEPT ![b] = o.at], form' = [w \in Weights |-> form'[w]],
         IsFor(b, c, form', rows, tower), \A w \in Weights : w # b => form'[w] = form[w],
         b \in Weights => form'[b] # "spent",
         UNCHANGED <<shape, rows, phase, call, reads, tower>>
  PROVE  SessionInv'
<1>1. Types /\ TowerOK /\ ReadsWhatItMeans /\ held \in [AllBuffers -> Nat]
  BY DEF SessionInv, Types
<1>2. HeldAt(k) /\ Fresh /\ k \in 1 .. 6 /\ held[b] = 0 /\ (b = "embd" => held["head"] = 0)
      /\ (b = "head" => held["embd"] # 0)
  BY DEF LoadingAt, BoundAt, HeldAt
<1>3. PICK con, pc : Sound(dev, held, form, con, pc, rows, tower)
  BY DEF Serving, SoundNow
<1> DEFINE own == Owners(held, form)
           a == o.at
           g == With(held, b, a)
<1>4. PICK q : Made(dev, own, con, pc, b, c, o, q)
  BY <1>3 DEF Sound
<1>5. /\ Tidy(o.dev, With(own, b, a), q, pc) /\ Aside(dev, o.dev) /\ a \in Nat \ {0}
      /\ (\A n \in Names : n # b /\ n # "spare" => q[n] = con[n]) /\ q[b] = c
  BY <1>4 DEF Made
<1>6. own \in [Names -> Nat] /\ b \in Names /\ own[b] = 0 /\ Tidy(dev, own, con, pc)
  <2>1. own \in [Names -> Nat] /\ b \in Names
    BY <1>1, OwnersAre, BindableAre
  <2>2. own[b] = 0
    BY <1>2, <2>1, BindableAre DEF Owners
  <2> QED
    BY <1>3, <2>1, <2>2 DEF Sound
<1> HIDE DEF a
<1>7. \A n \in Names : own[n] # a
  <2> DEFINE w == With(own, b, a)
  <2>1. \A n \in Names : w[n] = IF n = b THEN a ELSE own[n]
    BY <1>6 DEF With
  <2>2. \A m, n \in Names : w[m] = w[n] /\ w[m] # 0 => m = n
    BY <1>5 DEF Tidy
  <2> HIDE DEF w
  <2> QED
    BY <1>5, <1>6, <2>1, <2>2
<1>8. \A w \in Weights : form[w] # "spent" /\ form'[w] # "spent"
  BY <1>2 DEF Fresh
<1>9. Owners(g, form') = With(own, b, a) /\ g \in [AllBuffers -> Nat]
  BY <1>1, <1>2, <1>5, <1>7, <1>8, OwnersBound
<1>10. held' = g
  BY DEF With, a
<1>11. g[b] = a /\ \A n \in AllBuffers : n # b => g[n] = held[n]
  BY <1>1, BindableAre DEF With
<1>12. ASSUME NEW n \in AllBuffers, Owners(g, form')[n] # 0 PROVE IsFor(n, q[n], form', rows, tower)
  <2>1. CASE n = b
    BY <1>5, <2>1
  <2>2. CASE n # b
    <3>1. n \in Names /\ n # "spare"
      BY BuffersAre
    <3>2. own[n] # 0 /\ q[n] = con[n]
      BY <1>5, <1>6, <1>9, <1>12, <2>2, <3>1 DEF With
    <3>3. IsFor(n, con[n], form, rows, tower)
      BY <1>3, <3>2 DEF Sound
    <3>4. n \in Weights => form'[n] = form[n]
      BY <2>2
    <3> QED
      BY <3>2, <3>3, <3>4, IsForStays
  <2> QED
    BY <2>1, <2>2
<1> HIDE DEF g, own
<1>13. Sound(o.dev, g, form', q, pc, rows, tower) /\ DOMAIN o.dev.planes = {} /\ o.dev.spent = {}
  <2>1. Tidy(o.dev, Owners(g, form'), q, pc) /\ DOMAIN o.dev.planes = {} /\ o.dev.spent = {}
    BY <1>2, <1>5, <1>9 DEF Fresh, Aside
  <2> QED
    BY <1>8, <1>9, <1>12, <2>1, FreshSound
<1>14. SoundNow' /\ Fresh'
  <2>1. Fresh'
    BY <1>8, <1>13 DEF Fresh
  <2>2. Settled(o.dev, g, form', rows, tower)
    BY <1>13 DEF Settled, Steady
  <2>3. Settled(dev', held', form', rows', tower')
    BY <1>10, <2>2
  <2> QED
    BY <2>1, <2>3, SettledNow
<1>15. \A n \in TowerBuffers \cup {"rope", "x", "mrope", "plane"} : held'[n] = held[n]
  BY <1>10, <1>11 DEF Bindable, AllBuffers, Buffers, TowerBuffers, Weights, Matrices
<1>16. TowerOK'
  BY <1>1, <1>15 DEF TowerOK, OwnedFirst, Owned, TowerBuffers
<1>17. \A n \in Bindable : held'[n] = IF n = b THEN a ELSE held[n]
  BY <1>10, <1>11, BindableAre
<1>18. Types'
  <2>1. Tied' => form'["head"] = form'["embd"]
    <3>1. CASE b = "head"
      <4>1. held'["head"] = a /\ held'["embd"] = held["embd"]
        BY <1>17, <3>1 DEF Bindable, Weights, Matrices
      <4>2. held["embd"] # a
        <5>1. own["embd"] = held["embd"] /\ "embd" \in Names
          BY <1>1, <1>8, OwnersAre, BindableAre DEF own, Weights, Matrices
        <5> QED
          BY <1>7, <5>1
      <4> QED
        BY <4>1, <4>2 DEF Tied
    <3>2. CASE b = "embd"
      <4>1. held'["head"] = 0
        BY <1>2, <1>17, <3>2 DEF Bindable, Weights, Matrices
      <4> QED
        BY <4>1 DEF Tied
    <3>3. CASE b # "head" /\ b # "embd"
      <4>1. held'["head"] = held["head"] /\ held'["embd"] = held["embd"]
        BY <1>17, <3>3 DEF Bindable, Weights, Matrices
      <4>2. form'["head"] = form["head"] /\ form'["embd"] = form["embd"]
        BY <3>3 DEF Weights, Matrices
      <4> QED
        BY <1>1, <4>1, <4>2 DEF Tied, Types
    <3> QED
      BY <3>1, <3>2, <3>3
  <2>2. held' \in [AllBuffers -> Nat]
    BY <1>9, <1>10
  <2> QED
    BY <1>1, <1>8, <2>1, <2>2 DEF Types, Ascend
<1>19. HeldAt(k + 1)'
  <2>1. held'["embd"] = (IF b = "embd" THEN a ELSE held["embd"]) /\ held'["head"] = (IF b = "head" THEN a ELSE held["head"])
        /\ held'["norm"] = (IF b = "norm" THEN a ELSE held["norm"])
        /\ held'["gamma"] = (IF b = "gamma" THEN a ELSE held["gamma"])
        /\ held'["wq"] = (IF b = "wq" THEN a ELSE held["wq"])
        /\ held'["w_down"] = (IF b = "w_down" THEN a ELSE held["w_down"])
    BY <1>17 DEF Bindable, Weights, Matrices
  <2>2. a # 0
    BY <1>5
  <2> QED
    BY <1>2, <1>15, <2>1, <2>2 DEF HeldAt, HasTower, BoundAt, TowerBuffers
<1>20. Stage'
  BY <1>14, <1>19, LoadMoves DEF Serving
<1> QED
  BY <1>1, <1>16, <1>18, <1>20, SameReads, StaysOpen DEF Serving

(* What bind_dense and bind_packed make. *)
LEMMA BoundMade ==
  ASSUME NEW d, NEW own, NEW con, NEW pc, Tidy(d, own, con, pc),
         NEW b \in Bindable, own[b] = 0, NEW kind, NEW o \in Bound(d, b, kind)
  PROVE  \E q : Made(d, own, con, pc, b, Content(b, IF kind = "dense" THEN "dense" ELSE "packed", 0), o, q)
<1> DEFINE c == Content(b, IF kind = "dense" THEN "dense" ELSE "packed", 0)
<1>1. c # Free /\ b \in Names /\ o \in Allocated(d, c)
  BY BindableAre DEF Content, Free, Bindable, Weights, Matrices, Bound
<1> HIDE DEF c
<1>2. \E q : Made(d, own, con, pc, b, c, o, q)
  BY <1>1, MadePlainly
<1> QED
  BY <1>2 DEF c

(* A buffer that is not bound answers for nothing. *)
LEMMA UnboundOwns ==
  ASSUME NEW h \in [AllBuffers -> Nat], NEW f, NEW b \in Bindable, h[b] = 0
  PROVE  Owners(h, f)[b] = 0 /\ Owners(h, f)["spare"] = 0 /\ b \in Names
BY BindableAre, OwnersAre DEF Owners

(* The forms of the weights once one is bound. *)
LEMMA FormsBound ==
  ASSUME Types, NEW b \in Weights, NEW as, form' = [form EXCEPT ![b] = as], NEW r, NEW t
  PROVE  /\ form' = [w \in Weights |-> form'[w]] /\ (\A w \in Weights : w # b => form'[w] = form[w])
         /\ form'[b] = as /\ IsFor(b, Content(b, as, 0), form', r, t)
<1>1. form = [w \in Weights |-> form[w]]
  BY DEF Types
<1>2. form' = [w \in Weights |-> IF w = b THEN as ELSE form[w]]
  BY <1>1
<1>3. /\ form' = [w \in Weights |-> form'[w]] /\ (\A w \in Weights : w # b => form'[w] = form[w])
      /\ form'[b] = as
  BY <1>2
<1>4. IsFor(b, Content(b, as, 0), form', r, t)
  <2> DEFINE f == form'
             c == Content(b, as, 0)
  <2>1. c = Content(b, f[b], 0)
    BY <1>3
  <2> HIDE DEF f, c
  <2>2. IsFor(b, c, f, r, t)
    BY <2>1 DEF IsFor, Weights, Matrices
  <2> QED
    BY <2>2 DEF f, c
<1> QED
  BY <1>3, <1>4

(* The table. *)
LEMMA BindTableStep ==
  ASSUME SessionInv, BindTable, UNCHANGED tower
  PROVE  SessionInv'
<1>1. Types /\ Stage /\ held \in [AllBuffers -> Nat]
  BY DEF SessionInv, Types
<1>2. PICK k \in 1 .. Len(Loads) : LoadingAt(k) /\ "embd" = Loads[k] /\ todo' = Rest(Loads, k + 1)
  BY <1>1, LoadStands DEF BindTable
<1>3. Serving
  BY <1>1, LoadStands DEF BindTable
<1> DEFINE b == "embd"
           as == IF shape.embd = "dense" THEN "dense" ELSE "packed"
           c == Content(b, as, 0)
<1>4. PICK o \in Bound(dev, b, shape.embd) : dev' = o.dev /\ held' = [held EXCEPT ![b] = o.at]
  BY DEF BindTable
<1>5. form' = [form EXCEPT ![b] = as]
  BY DEF BindTable
<1>6. UNCHANGED <<shape, rows, phase, call, reads, tower>>
  BY DEF BindTable, Alone
<1>7. b \in Bindable /\ b \in Weights /\ BoundAt(b, k) /\ held[b] = 0 /\ as # "spent"
  <2>1. k = 1 /\ HeldAt(k)
    BY <1>2, LoadIndex DEF LoadingAt
  <2>2. held[b] = 0
    BY <2>1 DEF HeldAt
  <2>3. BoundAt(b, k)
    BY <2>1 DEF BoundAt
  <2>4. b \in Bindable /\ b \in Weights /\ as # "spent"
    BY DEF Bindable, Weights, Matrices
  <2> QED
    BY <2>2, <2>3, <2>4
<1>8. /\ form' = [w \in Weights |-> form'[w]] /\ (\A w \in Weights : w # b => form'[w] = form[w])
      /\ form'[b] = as /\ IsFor(b, c, form', rows, tower)
  BY <1>1, <1>5, <1>7, FormsBound
<1>9. ASSUME NEW con, NEW pc, Tidy(dev, Owners(held, form), con, pc)
      PROVE  \E q : Made(dev, Owners(held, form), con, pc, b, c, o, q)
  <2>1. Owners(held, form)[b] = 0
    BY <1>1, <1>7, UnboundOwns
  <2> HIDE DEF b
  <2> QED
    BY <1>4, <1>7, <1>9, <2>1, BoundMade
<1> HIDE DEF b, c, as
<1> QED
  BY <1>2, <1>3, <1>4, <1>6, <1>7, <1>8, <1>9, BindMoves

(* The last norm, and the norms of a layer. *)
LEMMA BindNormStep ==
  ASSUME SessionInv, NEW b \in {"norm", "gamma"}, BindNorm(b), UNCHANGED tower
  PROVE  SessionInv'
<1>1. Types /\ Stage /\ held \in [AllBuffers -> Nat]
  BY DEF SessionInv, Types
<1>2. Step(b) /\ b \notin {"scratch", "kv", "grow_rope", "inputs", "layers", "logits", "reserve_kv",
                           "destroy_tower", "destroy"}
  BY DEF BindNorm
<1>3. Serving /\ \E k \in 1 .. Len(Loads) : LoadingAt(k) /\ b = Loads[k] /\ todo' = Rest(Loads, k + 1)
  BY <1>1, <1>2, LoadStands
<1>4. PICK k \in 1 .. Len(Loads) : LoadingAt(k) /\ b = Loads[k] /\ todo' = Rest(Loads, k + 1)
  BY <1>3
<1> DEFINE c == Content(b, "dense", 0)
           dense == "dense"
<1>5. PICK o \in Bound(dev, b, dense) : dev' = o.dev /\ held' = [held EXCEPT ![b] = o.at]
  BY DEF BindNorm
<1>6. UNCHANGED <<shape, rows, phase, call, reads, tower, form>>
  BY DEF BindNorm, Alone
<1>7. b \in Bindable /\ BoundAt(b, k) /\ held[b] = 0 /\ b \notin Weights
  <2>1. ((b = "norm" /\ k = 3) \/ (b = "gamma" /\ k = 4)) /\ HeldAt(k)
    BY <1>4, LoadIndex DEF LoadingAt
  <2> QED
    BY <2>1 DEF Bindable, BoundAt, HeldAt, Weights, Matrices
<1>8. form' = [w \in Weights |-> form'[w]] /\ (\A w \in Weights : w # b => form'[w] = form[w])
      /\ IsFor(b, c, form', rows, tower)
  BY <1>1, <1>6, <1>7 DEF Types, IsFor
<1>9. ASSUME NEW con, NEW pc, Tidy(dev, Owners(held, form), con, pc)
      PROVE  \E q : Made(dev, Owners(held, form), con, pc, b, c, o, q)
  <2>1. Owners(held, form)[b] = 0
    BY <1>1, <1>7, UnboundOwns
  <2>2. c = Content(b, IF dense = "dense" THEN "dense" ELSE "packed", 0)
    OBVIOUS
  <2> HIDE DEF c, dense
  <2> QED
    BY <1>5, <1>7, <1>9, <2>1, <2>2, BoundMade
<1> HIDE DEF c, dense
<1> QED
  BY <1>3, <1>4, <1>5, <1>6, <1>7, <1>8, <1>9, BindMoves

(* A layer's matrices. *)
LEMMA BindMatrixStep ==
  ASSUME SessionInv, NEW b \in Matrices, BindMatrix(b), UNCHANGED tower
  PROVE  SessionInv'
<1>1. Types /\ Stage /\ held \in [AllBuffers -> Nat]
  BY DEF SessionInv, Types
<1>3. Serving /\ \E k \in 1 .. Len(Loads) : LoadingAt(k) /\ b = Loads[k] /\ todo' = Rest(Loads, k + 1)
  BY <1>1, LoadStands DEF BindMatrix, Matrices
<1>2. PICK k \in 1 .. Len(Loads) : LoadingAt(k) /\ b = Loads[k] /\ todo' = Rest(Loads, k + 1)
  BY <1>3
<1> DEFINE as == MatrixForm(shape[b])
           c == Content(b, as, 0)
<1>4. PICK o \in Matrix(dev, b, shape[b]) : dev' = o.dev /\ held' = [held EXCEPT ![b] = o.at]
  BY DEF BindMatrix
<1>5. form' = [form EXCEPT ![b] = as]
  BY DEF BindMatrix
<1>6. UNCHANGED <<shape, rows, phase, call, reads, tower>>
  BY DEF BindMatrix, Alone
<1>7. b \in Bindable /\ b \in Weights /\ BoundAt(b, k) /\ held[b] = 0 /\ as # "spent"
  <2>1. b \in Bindable /\ b \in Weights /\ BoundAt(b, k) /\ held[b] = 0
    <3>1. ((b = "wq" /\ k = 5) \/ (b = "w_down" /\ k = 6)) /\ HeldAt(k)
      BY <1>2, LoadIndex DEF LoadingAt, Matrices
    <3>2. held[b] = 0
      BY <3>1 DEF HeldAt
    <3>3. BoundAt(b, k)
      BY <3>1 DEF BoundAt
    <3>4. b \in Bindable /\ b \in Weights
      BY DEF Bindable, Weights, Matrices
    <3> QED
      BY <3>2, <3>3, <3>4
  <2>2. as # "spent"
    BY DEF MatrixForm
  <2> QED
    BY <2>1, <2>2
<1>8. /\ form' = [w \in Weights |-> form'[w]] /\ (\A w \in Weights : w # b => form'[w] = form[w])
      /\ form'[b] = as /\ IsFor(b, c, form', rows, tower)
  BY <1>1, <1>5, <1>7, FormsBound
<1>9. ASSUME NEW con, NEW pc, Tidy(dev, Owners(held, form), con, pc)
      PROVE  \E q : Made(dev, Owners(held, form), con, pc, b, c, o, q)
  <2>1. Owners(held, form)[b] = 0 /\ Owners(held, form)["spare"] = 0
    BY <1>1, <1>7, UnboundOwns
  <2> QED
    BY <1>4, <1>7, <1>9, <2>1, MatrixMade
<1> HIDE DEF c, as
<1> QED
  BY <1>2, <1>3, <1>4, <1>6, <1>7, <1>8, <1>9, BindMoves

(* The head is the table's. *)
LEMMA TiedHead ==
  ASSUME SessionInv, Serving, LoadingAt(2), 2 \in 1 .. Len(Loads), todo' = Rest(Loads, 3), dev' = dev,
         held' = [held EXCEPT !["head"] = held["embd"]], form' = [form EXCEPT !["head"] = form["embd"]],
         UNCHANGED <<shape, rows, phase, call, reads, tower>>
  PROVE  SessionInv'
<1>1. Types /\ TowerOK /\ ReadsWhatItMeans /\ held \in [AllBuffers -> Nat]
      /\ form = [w \in Weights |-> form[w]]
  BY DEF SessionInv, Types
<1>2. HeldAt(2) /\ Fresh /\ held["head"] = 0 /\ held["embd"] # 0
  BY DEF LoadingAt, HeldAt
<1>3. PICK con, pc : Sound(dev, held, form, con, pc, rows, tower)
  BY DEF Serving, SoundNow
<1>4. "head" \in AllBuffers /\ "embd" \in AllBuffers /\ "head" \in Weights /\ "embd" \in Weights
  BY DEF AllBuffers, Buffers, Weights, Matrices
<1>5. held' \in [AllBuffers -> Nat] /\ held'["head"] = held["embd"] /\ \A n \in AllBuffers : n # "head" => held'[n] = held[n]
  BY <1>1, <1>4
<1>6. form' = [w \in Weights |-> IF w = "head" THEN form["embd"] ELSE form[w]]
  BY <1>1
<1>7. \A w \in Weights : form[w] # "spent" /\ form'[w] # "spent"
  BY <1>2, <1>4, <1>6 DEF Fresh
<1>8a. /\ Owners(held', form')["head"] = 0 /\ Owners(held, form)["head"] = 0
       /\ Owners(held', form')["spare"] = 0 /\ Owners(held, form)["spare"] = 0
  <2> DEFINE g == held'
             f == form'
  <2>1. g \in [AllBuffers -> Nat] /\ g["head"] = g["embd"]
    BY <1>4, <1>5
  <2> HIDE DEF g, f
  <2>2. Owners(g, f)["head"] = 0 /\ Owners(g, f)["spare"] = 0
    BY <2>1, OwnersAre
  <2>3. /\ Owners(held, form)["spare"] = 0
        /\ Owners(held, form)["head"] = IF held["head"] = held["embd"] \/ form["head"] = "spent" THEN 0 ELSE held["head"]
    BY <1>1, OwnersAre
  <2> QED
    BY <1>2, <2>2, <2>3 DEF g, f
<1>8. Owners(held', form') = Owners(held, form)
  <2> DEFINE u == Owners(held', form')
             v == Owners(held, form)
  <2>0. u["head"] = 0 /\ v["head"] = 0 /\ u["spare"] = 0 /\ v["spare"] = 0
    BY <1>8a
  <2>1. u \in [Names -> Nat] /\ v \in [Names -> Nat]
    BY <1>1, <1>5, OwnersAre
  <2>2. ASSUME NEW n \in Names PROVE u[n] = v[n]
    <3>1. CASE n = "head"
      BY <2>0, <3>1
    <3>2. CASE n # "head" /\ n # "spare"
      BY <1>5, <1>7, <3>2, BuffersAre DEF Owners
    <3>3. CASE n = "spare"
      BY <2>0, <3>3
    <3> QED
      BY <3>1, <3>2, <3>3
  <2> HIDE DEF u, v
  <2>3. u = v
    BY <2>1, <2>2
  <2> QED
    BY <2>3 DEF u, v
<1>9. ASSUME NEW b \in AllBuffers, Owners(held', form')[b] # 0 PROVE IsFor(b, con[b], form', rows, tower)
  <2>1. IsFor(b, con[b], form, rows, tower)
    BY <1>3, <1>8, <1>9 DEF Sound
  <2>2. b # "head"
    BY <1>8a, <1>9
  <2>3. b \in Weights => form'[b] = form[b]
    BY <1>6, <2>2
  <2> QED
    BY <2>1, <2>3, IsForStays
<1>10. Tidy(dev, Owners(held', form'), con, pc) /\ DOMAIN dev.planes = {} /\ dev.spent = {}
  BY <1>2, <1>3, <1>8 DEF Sound, Fresh
<1> DEFINE g == held'
           f == form'
<1>11. /\ g \in [AllBuffers -> Nat] /\ Tidy(dev, Owners(g, f), con, pc)
       /\ (\A b \in AllBuffers : Owners(g, f)[b] # 0 => IsFor(b, con[b], f, rows, tower))
       /\ (\A w \in Weights : f[w] # "spent")
  BY <1>5, <1>7, <1>9, <1>10
<1> HIDE DEF g, f
<1>12. Sound(dev, g, f, con, pc, rows, tower)
  BY <1>10, <1>11, FreshSound
<1>13. SoundNow' /\ Fresh'
  <2>1. Settled(dev', held', form', rows', tower')
    BY <1>12 DEF g, f, Settled, Steady
  <2>2. Fresh'
    BY <1>2, <1>7 DEF Fresh
  <2> QED
    BY <2>1, <2>2, SettledNow
<1>14. \A n \in TowerBuffers \cup {"embd", "norm", "gamma", "wq", "w_down", "rope", "x", "mrope", "plane"} : held'[n] = held[n]
  BY <1>5 DEF AllBuffers, Buffers, TowerBuffers, Weights, Matrices
<1>15. Types' /\ TowerOK'
  <2>1. Types'
    BY <1>1, <1>5, <1>6, <1>7 DEF Types, Ascend, Weights, Matrices
  <2>2. TowerOK'
    BY <1>1, <1>14 DEF TowerOK, OwnedFirst, Owned, TowerBuffers
  <2> QED
    BY <2>1, <2>2
<1>16. HeldAt(3)'
  BY <1>2, <1>5, <1>14 DEF HeldAt, HasTower, TowerBuffers
<1>17. Stage'
  BY <1>13, <1>16, LoadMoves DEF Serving
<1> QED
  BY <1>1, <1>15, <1>17, SameReads, StaysOpen DEF Serving

(* The head, of its own or the table's. *)
LEMMA BindHeadStep ==
  ASSUME SessionInv, BindHead, UNCHANGED tower
  PROVE  SessionInv'
<1>1. Types /\ Stage /\ held \in [AllBuffers -> Nat]
  BY DEF SessionInv, Types
<1>2. PICK k \in 1 .. Len(Loads) : LoadingAt(k) /\ "head" = Loads[k] /\ todo' = Rest(Loads, k + 1)
  BY <1>1, LoadStands DEF BindHead
<1>3. Serving
  BY <1>1, LoadStands DEF BindHead
<1>4. UNCHANGED <<shape, rows, phase, call, reads, tower>>
  BY DEF BindHead, Alone
<1>5. CASE shape.tied
  <2>1. k = 2
    BY <1>2, LoadIndex
  <2>2. dev' = dev /\ held' = [held EXCEPT !["head"] = held["embd"]] /\ form' = [form EXCEPT !["head"] = form["embd"]]
    BY <1>5 DEF BindHead
  <2> QED
    BY <1>2, <1>3, <1>4, <2>1, <2>2, TiedHead
<1>6. CASE ~shape.tied
  <2> DEFINE b == "head"
             as == MatrixForm(shape.head)
             c == Content(b, as, 0)
  <2>1. PICK o \in Matrix(dev, b, shape.head) : dev' = o.dev /\ held' = [held EXCEPT ![b] = o.at]
    BY <1>6 DEF BindHead
  <2>2. form' = [form EXCEPT ![b] = as]
    BY <1>6 DEF BindHead
  <2>3. b \in Bindable /\ b \in Weights /\ BoundAt(b, k) /\ held[b] = 0
    <3>1. k = 2 /\ HeldAt(k)
      BY <1>2, LoadIndex DEF LoadingAt
    <3>2. held[b] = 0
      BY <3>1 DEF HeldAt
    <3>3. BoundAt(b, k)
      BY <3>1 DEF BoundAt
    <3>4. b \in Bindable /\ b \in Weights
      BY DEF Bindable, Weights, Matrices
    <3> QED
      BY <3>2, <3>3, <3>4
  <2>4. as # "spent"
    BY DEF MatrixForm
  <2>5. /\ form' = [w \in Weights |-> form'[w]] /\ (\A w \in Weights : w # b => form'[w] = form[w])
        /\ form'[b] = as /\ IsFor(b, c, form', rows, tower)
    BY <1>1, <2>2, <2>3, FormsBound
  <2>6. ASSUME NEW con, NEW pc, Tidy(dev, Owners(held, form), con, pc)
        PROVE  \E q : Made(dev, Owners(held, form), con, pc, b, c, o, q)
    <3>1. Owners(held, form)[b] = 0 /\ Owners(held, form)["spare"] = 0
      BY <1>1, <2>3, UnboundOwns
    <3> HIDE DEF b
    <3> QED
      BY <2>1, <2>3, <2>6, <3>1, MatrixMade
  <2> HIDE DEF b, c, as
  <2> QED
    BY <1>2, <1>3, <1>4, <2>1, <2>3, <2>4, <2>5, <2>6, BindMoves
<1> QED
  BY <1>5, <1>6

-----------------------------------------------------------------------------
(* Decoding before giving back.                                            *)

(* Whose bytes are where, once those of w are given back. *)
LEMMA OwnersSpent ==
  ASSUME NEW h \in [AllBuffers -> Nat], NEW f, f = [v \in Weights |-> f[v]], NEW w \in Weights
  PROVE  Owners(h, With(f, w, "spent")) = With(Owners(h, f), w, 0)
         /\ With(f, w, "spent")[w] = "spent" /\ \A v \in Weights : v # w => With(f, w, "spent")[v] = f[v]
<1> DEFINE g == With(f, w, "spent")
           u == Owners(h, g)
           v == With(Owners(h, f), w, 0)
<1>1. g[w] = "spent" /\ \A x \in Weights : x # w => g[x] = f[x]
  BY DEF With
<1> HIDE DEF g
<1>2. w \in Names /\ w # "spare"
  BY BuffersAre DEF Weights, Matrices
<1>3. u \in [Names -> Nat] /\ Owners(h, f) \in [Names -> Nat]
  BY OwnersAre
<1>4. v \in [Names -> Nat] /\ \A n \in Names : v[n] = IF n = w THEN 0 ELSE Owners(h, f)[n]
  BY <1>2, <1>3 DEF With
<1>5. ASSUME NEW n \in Names PROVE u[n] = v[n]
  <2>1. CASE n = w
    BY <1>1, <1>2, <1>4, <2>1 DEF Owners
  <2>2. CASE n # w
    BY <1>1, <1>4, <2>2 DEF Owners
  <2> QED
    BY <2>1, <2>2
<1> HIDE DEF u, v
<1>6. u = v
  BY <1>3, <1>4, <1>5
<1> QED
  BY <1>1, <1>6 DEF g, u, v

(* A weight whose planes are there is given back: nothing else is named by
   its handle, which no later decoding reads.                               *)
LEMMA UnpackedOK ==
  ASSUME NEW d, NEW h \in [AllBuffers -> Nat], NEW f, f = [v \in Weights |-> f[v]], NEW r, NEW t,
         Settled(d, h, f, r, t), NEW w \in Bodies(h), f[w] # "spent", Through(h, w) \subseteq DOMAIN d.planes
  PROVE  Settled(GivenBack(d, h[w]), h, With(f, w, "spent"), r, t)
<1>1. PICK con : Steady(d, h, f, con, r, t)
  BY DEF Settled
<1>2. PICK pc : Sound(d, h, f, con, pc, r, t)
  BY <1>1 DEF Steady
<1> DEFINE a == h[w]
           own == Owners(h, f)
           z == d.spent \cup {a}
           m == [d EXCEPT !.spent = z]
           e == Released(m, own[w])
           g == With(f, w, "spent")
<1>3. own[w] = h[w] /\ w \in AllBuffers /\ w \in Weights /\ w \in Names
  BY BodiesOwn, BuffersAre
<1>4. Owners(h, g) = With(own, w, 0) /\ g[w] = "spent" /\ \A v \in Weights : v # w => g[v] = f[v]
  BY <1>3, OwnersSpent
<1>5. Tidy(d, own, con, pc)
  BY <1>2 DEF Sound
<1>6. m.planes = d.planes /\ m.spent = z /\ d.heap = m.heap
  BY <1>5 DEF Tidy, HeapOK
<1> HIDE DEF own, z, g
<1>7. Tidy(m, own, con, pc)
  BY <1>5, TidyMark
<1> HIDE DEF m
<1>8. Tidy(Released(m, own[w]), [own EXCEPT ![w] = 0], con, pc) /\ Aside(m, Released(m, own[w]))
  BY <1>3, <1>7, TidyLose
<1>9. Tidy(e, Owners(h, g), con, pc) /\ e.planes = d.planes /\ e.spent = z
  BY <1>4, <1>6, <1>8 DEF With, Aside
<1>10. GivenBack(d, h[w]) = e
  BY <1>3 DEF GivenBack, m, z
<1> HIDE DEF e
<1>11. ASSUME NEW b \in AllBuffers, Owners(h, g)[b] # 0 PROVE IsFor(b, con[b], g, r, t)
  <2>1. b \in Names
    BY BuffersAre
  <2>2. b # w /\ own[b] # 0
    BY <1>3, <1>4, <1>5, <1>11, <2>1 DEF With, Tidy
  <2>3. IsFor(b, con[b], f, r, t)
    BY <1>2, <2>2 DEF Sound, own
  <2>4. b \in Weights => g[b] = f[b]
    BY <1>4, <2>2
  <2> QED
    BY <2>3, <2>4, IsForStays
<1>12. ASSUME NEW v \in Bodies(h) PROVE Decodes(v, e, h, g)
  <2>1. Decodes(v, d, h, f) /\ v \in Weights
    BY <1>2 DEF Sound, Bodies
  <2>2. CASE v = w
    BY <1>4, <1>9, <2>2 DEF Decodes
  <2>3. CASE v # w
    <3>1. h[v] # h[w] /\ g[v] = f[v]
      BY <1>2, <1>4, <2>1, <2>3 DEF Sound
    <3> QED
      BY <1>9, <2>1, <3>1 DEF Decodes, z
  <2> QED
    BY <2>2, <2>3
<1>13. /\ \A k \in DOMAIN e.planes : PlaneIs(k, pc[k], h)
       /\ \A v, x \in Bodies(h) : h[v] = h[x] => v = x
  BY <1>2, <1>9 DEF Sound
<1>14. Sound(e, h, g, con, pc, r, t)
  BY <1>9, <1>11, <1>12, <1>13 DEF Sound
<1> QED
  BY <1>10, <1>14 DEF Settled, Steady, g

(* Every plane a packed weight is read through is made. *)
LEMMA DecodedOK ==
  ASSUME held \in [AllBuffers -> Nat], NEW d, NEW f, NEW r, NEW t, Settled(d, held, f, r, t),
         NEW w \in Bodies(held), f[w] # "spent", NEW o \in Decoded(d, w)
  PROVE  Settled(o.dev, held, f, r, t) /\ Through(held, w) \subseteq DOMAIN o.dev.planes
<1>1. PICK con : Steady(d, held, f, con, r, t)
  BY DEF Settled
<1> DEFINE cube == "cube"
           emb == "emb"
           table == "table"
           h == held
<1>2. Asked(h, f, w, cube, cube) /\ (w = "embd" => Asked(h, f, w, emb, table))
  BY DEF Asked
<1>3. ASSUME w # "embd" PROVE o \in Plane(d, Key(cube, h[w], 0), h[w], cube)
  BY <1>3 DEF Decoded
<1>4. ASSUME w = "embd"
      PROVE  \E p \in Plane(d, Key(emb, h[w], 0), h[w], table) :
               o \in (IF Tied THEN Plane(p.dev, Key(cube, h[w], 0), h[w], cube) ELSE {p})
  BY <1>4, Zenon DEF Decoded
<1>5. Tied <=> h["head"] = h["embd"] /\ h["head"] # 0
  BY DEF Tied
<1>6. /\ w # "embd" => Through(h, w) = {Key(cube, h[w], 0)}
      /\ w = "embd" => Through(h, w) \subseteq {Key(emb, h[w], 0)} \cup (IF Tied THEN {Key(cube, h[w], 0)} ELSE {})
  BY DEF Through, Tied, Bodies
<1> HIDE DEF cube, emb, table
<1>7. CASE w # "embd"
  <2>1. Shown(d, h, f, con, r, t, w, cube, cube, o)
    BY <1>1, <1>2, <1>3, <1>7, WeightPlane
  <2> QED
    BY <1>6, <1>7, <2>1 DEF Shown, Settled
<1>8. CASE w = "embd"
  <2>1. PICK p \in Plane(d, Key(emb, h[w], 0), h[w], table) :
               o \in (IF Tied THEN Plane(p.dev, Key(cube, h[w], 0), h[w], cube) ELSE {p})
    BY <1>4, <1>8
  <2>2. Shown(d, h, f, con, r, t, w, emb, table, p)
    BY <1>1, <1>2, <1>8, WeightPlane
  <2>3. CASE ~Tied
    BY <1>6, <1>8, <2>1, <2>2, <2>3 DEF Shown, Settled
  <2>4. CASE Tied
    <3> DEFINE e == p.dev
    <3>1. Steady(e, h, f, con, r, t) /\ o \in Plane(e, Key(cube, h[w], 0), h[w], cube)
          /\ Key(emb, h[w], 0) \in DOMAIN e.planes
      BY <2>1, <2>2, <2>4 DEF Shown
    <3> HIDE DEF e
    <3>2. Shown(e, h, f, con, r, t, w, cube, cube, o)
      BY <1>2, <3>1, WeightPlane
    <3> QED
      BY <1>6, <1>8, <2>4, <3>1, <3>2 DEF Shown, Settled
  <2> QED
    BY <2>3, <2>4
<1> QED
  BY <1>7, <1>8

(* What becomes of a weight's form. *)
Melted(w) == IF Quantized(w) THEN "spent" ELSE form[w]

(* A tied head answers for nothing, whatever its form. *)
LEMMA TiedForm ==
  ASSUME NEW d, NEW h \in [AllBuffers -> Nat], NEW f, f = [v \in Weights |-> f[v]], NEW r, NEW t,
         Settled(d, h, f, r, t), h["head"] = h["embd"], NEW as
  PROVE  Settled(d, h, With(f, "head", as), r, t)
<1>1. PICK con : Steady(d, h, f, con, r, t)
  BY DEF Settled
<1>2. PICK pc : Sound(d, h, f, con, pc, r, t)
  BY <1>1 DEF Steady
<1> DEFINE g == With(f, "head", as)
           u == Owners(h, g)
           v == Owners(h, f)
<1>3. \A x \in Weights : x # "head" => g[x] = f[x]
  BY DEF With
<1> HIDE DEF g
<1>4. u = v
  <2>1. \A n \in Names : u[n] = v[n]
    BY <1>3 DEF Owners
  <2>2. u \in [Names -> Nat] /\ v \in [Names -> Nat]
    BY OwnersAre
  <2> HIDE DEF u, v
  <2> QED
    BY <2>1, <2>2
<1>5. Tidy(d, Owners(h, g), con, pc)
  BY <1>2, <1>4 DEF Sound
<1>6. ASSUME NEW b \in AllBuffers, Owners(h, g)[b] # 0 PROVE IsFor(b, con[b], g, r, t)
  <2>1. IsFor(b, con[b], f, r, t)
    BY <1>2, <1>4, <1>6 DEF Sound
  <2>2. u["head"] = 0
    BY OwnersAre
  <2>3. b \in Weights => g[b] = f[b]
    BY <1>3, <1>6, <2>2
  <2> QED
    BY <2>1, <2>3, IsForStays
<1>7. ASSUME NEW x \in Bodies(h) PROVE Decodes(x, d, h, g)
  <2>1. x # "head" /\ x \in Weights /\ Decodes(x, d, h, f)
    BY <1>2 DEF Bodies, Sound
  <2> QED
    BY <1>3, <2>1 DEF Decodes
<1>8. /\ \A k \in DOMAIN d.planes : PlaneIs(k, pc[k], h)
      /\ \A x, y \in Bodies(h) : h[x] = h[y] => x = y
  BY <1>2 DEF Sound
<1>9. Sound(d, h, g, con, pc, r, t)
  BY <1>5, <1>6, <1>7, <1>8 DEF Sound
<1> QED
  BY <1>9 DEF g, Settled, Steady

(* One weight of materialize_packed_weights. *)
LEMMA MaterializedOK ==
  ASSUME held \in [AllBuffers -> Nat], NEW d, NEW f, f = [v \in Weights |-> f[v]], NEW r, NEW t,
         Settled(d, held, f, r, t), NEW w \in Weights, held[w] # 0, f[w] = form[w], form[w] # "spent",
         NEW e \in Materialized(d, w)
  PROVE  Settled(e, held, With(f, w, Melted(w)), r, t)
<1>1. CASE w = "head" /\ Tied
  <2> DEFINE as == Melted(w)
  <2>1. e = d /\ held["head"] = held["embd"] /\ w = "head"
    BY <1>1 DEF Materialized, Tied
  <2> HIDE DEF as
  <2>2. Settled(d, held, With(f, "head", as), r, t)
    BY <2>1, TiedForm
  <2> QED
    BY <2>1, <2>2 DEF as
<1>2. CASE ~Quantized(w)
  <2>1. With(f, w, Melted(w)) = f
    BY <1>2 DEF With, Melted
  <2> QED
    BY <1>2, <2>1 DEF Materialized
<1>3. CASE Quantized(w) /\ ~(w = "head" /\ Tied)
  <2>1. w \in Bodies(held)
    BY <1>3 DEF Bodies, Tied
  <2>2. PICK o \in Decoded(d, w) : e = GivenBack(o.dev, held[w])
    BY <1>3 DEF Materialized
  <2>3. Settled(o.dev, held, f, r, t) /\ Through(held, w) \subseteq DOMAIN o.dev.planes
    BY <2>1, DecodedOK
  <2> DEFINE m == o.dev
             h == held
  <2>4. Settled(m, h, f, r, t) /\ Through(h, w) \subseteq DOMAIN m.planes /\ e = GivenBack(m, h[w])
    BY <2>2, <2>3
  <2>5. h \in [AllBuffers -> Nat] /\ w \in Bodies(h)
    BY <2>1
  <2> HIDE DEF m, h
  <2>6. Settled(GivenBack(m, h[w]), h, With(f, w, "spent"), r, t)
    BY <2>4, <2>5, UnpackedOK
  <2> QED
    BY <1>3, <2>4, <2>6 DEF h, Melted
<1> QED
  BY <1>1, <1>2, <1>3

(* All of them. *)
LEMMA AllMaterialized ==
  ASSUME Types, NEW d0, NEW r, NEW t, Settled(d0, held, form, r, t), \A w \in Weights : held[w] # 0 /\ form[w] # "spent",
         NEW d \in Materialized(d0, "embd"), NEW e \in Materialized(d, "head"), NEW l \in Materialized(e, "wq"),
         NEW m \in Materialized(l, "w_down")
  PROVE  Settled(m, held, [w \in Weights |-> Melted(w)], r, t)
<1>1. held \in [AllBuffers -> Nat] /\ form = [v \in Weights |-> form[v]]
  BY DEF Types
<1> DEFINE x == "embd"
           y == "head"
           z == "wq"
           u == "w_down"
           f0 == form
           f1 == With(f0, x, Melted(x))
           f2 == With(f1, y, Melted(y))
           f3 == With(f2, z, Melted(z))
           f4 == With(f3, u, Melted(u))
<1>2. x \in Weights /\ y \in Weights /\ z \in Weights /\ u \in Weights /\ (\A w \in Weights : w \in {x, y, z, u})
      /\ x # y /\ y # z /\ x # z /\ u # x /\ u # y /\ u # z
      /\ d \in Materialized(d0, x) /\ e \in Materialized(d, y) /\ l \in Materialized(e, z) /\ m \in Materialized(l, u)
  BY DEF Weights, Matrices
<1> HIDE DEF x, y, z, u
<1>3. f1 = [v \in Weights |-> f1[v]] /\ f1[y] = form[y] /\ f1[z] = form[z] /\ f1[u] = form[u] /\ f1[x] = Melted(x)
  BY <1>1, <1>2 DEF With
<1> HIDE DEF f1
<1>4. f2 = [v \in Weights |-> f2[v]] /\ f2[x] = f1[x] /\ f2[z] = f1[z] /\ f2[u] = f1[u] /\ f2[y] = Melted(y)
  BY <1>2, <1>3 DEF With
<1> HIDE DEF f2
<1>5. f3 = [v \in Weights |-> f3[v]] /\ f3[x] = f2[x] /\ f3[y] = f2[y] /\ f3[u] = f2[u] /\ f3[z] = Melted(z)
  BY <1>2, <1>4 DEF With
<1> HIDE DEF f3
<1>6. Settled(d, held, f1, r, t)
  BY <1>1, <1>2, MaterializedOK DEF f1
<1>7. Settled(e, held, f2, r, t)
  BY <1>1, <1>2, <1>3, <1>6, MaterializedOK DEF f2
<1>8. Settled(l, held, f3, r, t)
  BY <1>1, <1>2, <1>3, <1>4, <1>7, MaterializedOK DEF f3
<1>10. Settled(m, held, f4, r, t)
  BY <1>1, <1>2, <1>3, <1>4, <1>5, <1>8, MaterializedOK
<1>11. f4 = [v \in Weights |-> f4[v]] /\ f4[x] = f3[x] /\ f4[y] = f3[y] /\ f4[z] = f3[z] /\ f4[u] = Melted(u)
  BY <1>2, <1>5 DEF With
<1> HIDE DEF f4
<1>9. f4 = [w \in Weights |-> Melted(w)]
  BY <1>2, <1>3, <1>4, <1>5, <1>11
<1> QED
  BY <1>9, <1>10

(* materialize_packed_weights. *)
LEMMA MaterializeStep ==
  ASSUME SessionInv, MaterializePacked, UNCHANGED tower
  PROVE  SessionInv'
<1>1. Types /\ TowerOK /\ Stage /\ ReadsWhatItMeans /\ held \in [AllBuffers -> Nat]
  BY DEF SessionInv, Types
<1>2. PICK k \in 1 .. Len(Loads) : LoadingAt(k) /\ "materialize" = Loads[k] /\ todo' = Rest(Loads, k + 1)
  BY <1>1, LoadStands DEF MaterializePacked
<1>3. Serving /\ k = 7
  <2>1. Serving
    BY <1>1, LoadStands DEF MaterializePacked
  <2> QED
    BY <1>2, <2>1, LoadIndex
<1>4. HeldAt(7) /\ Fresh
  BY <1>2, <1>3 DEF LoadingAt
<1>5. UNCHANGED <<shape, held, rows, phase, call, calls, reads, tower>>
  BY DEF MaterializePacked, Alone
<1>6. Settled(dev, held, form, rows, tower)
  BY <1>3, SettledNow DEF Serving
<1>7. SoundNow' /\ form' = [w \in Weights |-> form'[w]] /\ (\A w \in Weights : form'[w] = "spent" => shape.backend = "ascend")
      /\ (Tied => form'["head"] = form'["embd"])
  <2>1. CASE shape.backend # "ascend"
    <3>1. UNCHANGED <<dev, form>>
      BY <2>1 DEF MaterializePacked
    <3>2. SoundNow'
      BY <1>5, <1>6, <3>1, SettledNow
    <3> QED
      BY <1>1, <3>1, <3>2 DEF Types
  <2>2. CASE shape.backend = "ascend"
    <3>1. PICK d \in Materialized(dev, "embd") : \E e \in Materialized(d, "head") :
            \E l \in Materialized(e, "wq") : dev' \in Materialized(l, "w_down")
      BY <2>2 DEF MaterializePacked
    <3>2. PICK e \in Materialized(d, "head") : \E l \in Materialized(e, "wq") : dev' \in Materialized(l, "w_down")
      BY <3>1
    <3>8. PICK l \in Materialized(e, "wq") : dev' \in Materialized(l, "w_down")
      BY <3>2
    <3>3. form' = [w \in Weights |-> Melted(w)]
      BY <2>2 DEF MaterializePacked, Melted
    <3>4. \A w \in Weights : held[w] # 0 /\ form[w] # "spent"
      BY <1>4 DEF HeldAt, Fresh, Weights, Matrices
    <3>5. Settled(dev', held, form', rows, tower)
      BY <1>1, <1>6, <3>1, <3>2, <3>3, <3>4, <3>8, AllMaterialized
    <3>6. SoundNow'
      BY <1>5, <3>5, SettledNow
    <3>7. Tied => form'["head"] = form'["embd"]
      BY <1>1, <3>3 DEF Types, Melted, Quantized, Weights, Matrices
    <3> QED
      BY <2>2, <3>3, <3>6, <3>7
  <2> QED
    BY <2>1, <2>2
<1>8. Types' /\ TowerOK' /\ HeldAt(8)'
  <2>1. Types'
    BY <1>1, <1>5, <1>7 DEF Types, Tied, Ascend
  <2>2. TowerOK'
    BY <1>1, <1>5 DEF TowerOK, OwnedFirst, Owned
  <2>3. HeldAt(8)'
    BY <1>4, <1>5 DEF HeldAt, HasTower
  <2> QED
    BY <2>1, <2>2, <2>3
<1>9. Stage' /\ phase' # "closed"
  BY <1>2, <1>3, <1>5, <1>7, <1>8, LoadMoves DEF Serving
<1> QED
  BY <1>1, <1>5, <1>8, <1>9, SameReads, StaysOpen

-----------------------------------------------------------------------------
(* The tower: its weight.                                                  *)

(* The tower's buffers are plain, and none of the text model's. *)
LEMMA TowerParted ==
  /\ TowerBuffers \subseteq Plain /\ TowerBuffers \subseteq AllBuffers /\ TowerBuffers \cap Buffers = {}
  /\ AllBuffers = Buffers \cup TowerBuffers /\ Weights \subseteq Buffers
BY DEF Plain, AllBuffers, TowerBuffers, Buffers, Weights, Matrices

(* What the text model's types need of a step of the tower. *)
LEMMA TowerTypes ==
  ASSUME Types, held' \in [AllBuffers -> Nat], \A n \in Buffers : held'[n] = held[n],
         tower' = [owned |-> tower'.owned, grid |-> tower'.grid, room |-> tower'.room, regrown |-> tower'.regrown],
         tower'.grid \in DOMAIN Patches, tower'.room \in Nat, tower'.regrown \in BOOLEAN,
         UNCHANGED <<shape, form, rows, call>>
  PROVE  Types'
<1>1. held'["head"] = held["head"] /\ held'["embd"] = held["embd"]
  BY DEF Buffers, Weights, Matrices
<1> QED
  BY <1>1 DEF Types, Tied, Ascend

(* bind_tensor. *)
LEMMA BindTowerWeightStep ==
  ASSUME SessionInv, BindTowerWeight
  PROVE  SessionInv'
<1>1. Types /\ TowerOK /\ Stage /\ ReadsWhatItMeans /\ held \in [AllBuffers -> Nat]
  BY DEF SessionInv, Types
<1>2. PICK k \in 1 .. Len(Loads) : LoadingAt(k) /\ "t_weight" = Loads[k] /\ todo' = Rest(Loads, k + 1)
  BY <1>1, LoadStands DEF BindTowerWeight
<1>3. Serving /\ k = 10 /\ HasTower
  <2>1. Serving
    BY <1>1, LoadStands DEF BindTowerWeight
  <2> QED
    BY <1>2, <2>1, LoadIndex
<1> DEFINE b == "t_weight"
           c == Content(b, "dense", 0)
<1>4. PICK o \in Bound(dev, b, "dense") :
        dev' = o.dev /\ held' = [held EXCEPT ![b] = o.at] /\ tower' = [tower EXCEPT !.owned = Append(@, o.at)]
  BY DEF BindTowerWeight
<1>5. HeldAt(10) /\ held[b] = 0 /\ held["t_x"] = 0 /\ held["t_scores"] = 0
  BY <1>2, <1>3 DEF LoadingAt, HeldAt
<1>6. UNCHANGED <<shape, form, rows, call, phase, reads>>
  BY DEF BindTowerWeight, Alone
<1> DEFINE a == o.at
<1>7. tower' = [owned |-> Append(tower.owned, a), grid |-> tower.grid, room |-> tower.room, regrown |-> tower.regrown]
  BY <1>1, <1>4 DEF Types
<1>8. c # Free /\ b \in Plain /\ IsFor(b, c, form, rows, tower')
  BY DEF Content, Free, Plain, TowerBuffers, IsFor, Weights, Matrices
<1>9. Apart(b, rows, rows, tower, tower')
  BY <1>7 DEF Apart
<1>10. Settled(dev, held, form, rows, tower)
  BY <1>3, SettledNow DEF Serving
<1>11. o \in Allocated(Released(dev, held[b]), c)
  BY <1>4, <1>5 DEF Released, Bound
<1> HIDE DEF b, c
<1>12. Settled(o.dev, With(held, b, o.at), form, rows, tower') /\ o.at \in Nat \ {0}
  BY <1>1, <1>8, <1>9, <1>10, <1>11, RenewPlain
<1>13. held' = With(held, b, a) /\ a \in Nat /\ a # 0
  BY <1>4, <1>12 DEF With
<1>14. SoundNow'
  BY <1>4, <1>6, <1>12, <1>13, SettledNow
<1> HIDE DEF a
<1>15. held' \in [AllBuffers -> Nat] /\ held'[b] = a /\ \A n \in AllBuffers : n # b => held'[n] = held[n]
  BY <1>1, <1>13, TowerParted DEF With, b, TowerBuffers
<1>16. Types'
  <2>1. \A n \in Buffers : held'[n] = held[n]
    BY <1>15 DEF b, Buffers, AllBuffers, Weights, Matrices
  <2>2. tower.grid \in DOMAIN Patches /\ tower.room \in Nat /\ tower.regrown \in BOOLEAN
    BY <1>1 DEF Types
  <2> QED
    BY <1>1, <1>6, <1>7, <1>15, <2>1, <2>2, TowerTypes
<1>17. \A n \in {"embd", "head", "norm", "gamma", "wq", "w_down", "rope", "x", "mrope", "plane", "t_x",
                  "t_scores", "t_index", "t_table"} : held'[n] = held[n]
  BY <1>15 DEF b, AllBuffers, Buffers, TowerBuffers, Weights, Matrices
<1>18. TowerOK'
  <2>1. held'["t_weight"] = a /\ held'["t_x"] = 0 /\ held'["t_scores"] = 0
    BY <1>5, <1>15, <1>17 DEF b
  <2>2. Owned(held') = <<a>>
    BY <1>13, <2>1 DEF Owned
  <2>3. ~tower.regrown => tower.owned = << >>
    BY <1>1, <1>5 DEF TowerOK, OwnedFirst, Owned, b
  <2>4. Append(<< >>, a) = <<a>>
    OBVIOUS
  <2>5. Owned(held)' = Owned(held')
    BY <1>6 DEF Owned
  <2> QED
    BY <1>1, <1>5, <1>7, <2>1, <2>2, <2>3, <2>4, <2>5 DEF TowerOK
<1>19. HeldAt(11)'
  <2>1. held'["t_weight"] # 0
    BY <1>13, <1>15 DEF b
  <2> QED
    BY <1>3, <1>5, <1>6, <1>17, <2>1 DEF HeldAt, HasTower
<1>20. Stage' /\ phase' # "closed"
  BY <1>2, <1>3, <1>6, <1>14, <1>19, LoadMoves DEF Serving
<1> QED
  BY <1>1, <1>6, <1>16, <1>18, <1>20, SameReads, StaysOpen

(* Qwen3Audio's buffers. *)
LEMMA AllocateBuffersStep ==
  ASSUME SessionInv, AllocateBuffers
  PROVE  SessionInv'
<1>1. Types /\ TowerOK /\ Stage /\ ReadsWhatItMeans /\ held \in [AllBuffers -> Nat]
  BY DEF SessionInv, Types
<1>2. PICK k \in 1 .. Len(Loads) : LoadingAt(k) /\ "t_buffers" = Loads[k] /\ todo' = Rest(Loads, k + 1)
  BY <1>1, LoadStands DEF AllocateBuffers
<1>3. Serving /\ k = 11 /\ shape.tower = "audio"
  <2>1. Serving
    BY <1>1, LoadStands DEF AllocateBuffers
  <2> QED
    BY <1>2, <2>1, LoadIndex
<1> DEFINE b == "t_x"
           c == Content(b, "f32", 0)
<1>4. PICK o \in Allocated(dev, c) : dev' = o.dev /\ held' = [held EXCEPT ![b] = o.at]
  BY DEF AllocateBuffers
<1>5. HeldAt(11) /\ held[b] = 0 /\ held["t_weight"] # 0 /\ held["t_scores"] = 0
  BY <1>2, <1>3 DEF LoadingAt, HeldAt, HasTower
<1>6. UNCHANGED <<shape, form, rows, call, phase, reads, tower>>
  BY DEF AllocateBuffers, Alone
<1> DEFINE a == o.at
<1>7. c # Free /\ b \in Plain /\ IsFor(b, c, form, rows, tower)
  BY DEF Content, Free, Plain, TowerBuffers, IsFor, Weights, Matrices
<1>8. Apart(b, rows, rows, tower, tower)
  BY DEF Apart
<1>9. Settled(dev, held, form, rows, tower)
  BY <1>3, SettledNow DEF Serving
<1>10. o \in Allocated(Released(dev, held[b]), c)
  BY <1>4, <1>5 DEF Released
<1> HIDE DEF b, c
<1>11. Settled(o.dev, With(held, b, o.at), form, rows, tower) /\ o.at \in Nat \ {0}
  BY <1>1, <1>7, <1>8, <1>9, <1>10, RenewPlain
<1>12. held' = With(held, b, a) /\ a \in Nat /\ a # 0
  BY <1>4, <1>11 DEF With
<1>13. SoundNow'
  BY <1>4, <1>6, <1>11, <1>12, SettledNow
<1> HIDE DEF a
<1>14. held' \in [AllBuffers -> Nat] /\ held'[b] = a /\ \A n \in AllBuffers : n # b => held'[n] = held[n]
  BY <1>1, <1>12, TowerParted DEF With, b, TowerBuffers
<1>15. \A n \in {"embd", "head", "norm", "gamma", "wq", "w_down", "rope", "x", "mrope", "plane", "t_weight",
                  "t_scores", "t_index", "t_table"} : held'[n] = held[n]
  BY <1>14 DEF b, AllBuffers, Buffers, TowerBuffers, Weights, Matrices
<1>16. Types'
  <2>1. \A n \in Buffers : held'[n] = held[n]
    BY <1>14 DEF b, Buffers, AllBuffers, Weights, Matrices
  <2>2. tower = [owned |-> tower.owned, grid |-> tower.grid, room |-> tower.room, regrown |-> tower.regrown]
        /\ tower.grid \in DOMAIN Patches /\ tower.room \in Nat /\ tower.regrown \in BOOLEAN
    BY <1>1 DEF Types
  <2> QED
    BY <1>1, <1>6, <1>14, <2>1, <2>2, TowerTypes
<1>17. TowerOK'
  <2>1. Owned(held') = Owned(held)
    BY <1>3, <1>15 DEF Owned
  <2>2. Owned(held)' = Owned(held')
    BY <1>6 DEF Owned
  <2> QED
    BY <1>1, <1>5, <1>6, <1>15, <2>1, <2>2 DEF TowerOK
<1>18. HeldAt(12)'
  <2>1. held'["t_x"] # 0
    BY <1>12, <1>14 DEF b
  <2> QED
    BY <1>3, <1>5, <1>6, <1>15, <2>1 DEF HeldAt, HasTower
<1>19. Stage' /\ phase' # "closed"
  BY <1>2, <1>3, <1>6, <1>13, <1>18, LoadMoves DEF Serving
<1> QED
  BY <1>1, <1>6, <1>16, <1>17, <1>19, SameReads, StaysOpen

-----------------------------------------------------------------------------
(* The tower: its activations.                                             *)

(* A buffer that had no place gets one. *)
LEMMA GainPlain ==
  ASSUME NEW d, NEW h \in [AllBuffers -> Nat], NEW f, NEW r, NEW t, Settled(d, h, f, r, t),
         NEW b \in Plain, h[b] = 0, NEW c, c # Free, NEW t2, IsFor(b, c, f, r, t2), Apart(b, r, r, t, t2),
         NEW o \in Allocated(d, c)
  PROVE  /\ Settled(o.dev, With(h, b, o.at), f, r, t2) /\ o.at \in Nat \ {0}
         /\ With(h, b, o.at) \in [AllBuffers -> Nat]
<1>1. o \in Allocated(Released(d, h[b]), c)
  BY DEF Released
<1>2. Settled(o.dev, With(h, b, o.at), f, r, t2) /\ o.at \in Nat \ {0}
  BY <1>1, RenewPlain
<1>3. With(h, b, o.at) \in [AllBuffers -> Nat]
  <2> DEFINE a == o.at
  <2>1. a \in Nat
    BY <1>2
  <2> HIDE DEF a
  <2>2. With(h, b, a) \in [AllBuffers -> Nat]
    BY <2>1, OwnersPlain
  <2> QED
    BY <2>2 DEF a
<1> QED
  BY <1>2, <1>3

(* What the tower's buffers are filled with is what they should hold. *)
LEMMA TowerContents ==
  ASSUME NEW f, NEW r, NEW t
  PROVE  /\ IsFor("t_x", Content("t_x", "f32", 0), f, r, t) /\ Content("t_x", "f32", 0) # Free
         /\ IsFor("t_scores", Content("t_scores", "f32", t.room), f, r, t) /\ Content("t_scores", "f32", t.room) # Free
         /\ IsFor("t_index", Content("t_index", "f32", t.grid), f, r, t) /\ Content("t_index", "f32", t.grid) # Free
         /\ IsFor("t_table", Content("t_table", "f32", t.grid), f, r, t) /\ Content("t_table", "f32", t.grid) # Free
         /\ {"t_x", "t_scores", "t_index", "t_table"} \subseteq Plain
BY DEF IsFor, Content, Free, Plain, TowerBuffers, Weights, Matrices

(* What allocate_activations allocates, one buffer after the other.        *)
Activated(x, s, i, u, g) ==
  /\ x \in Allocated(dev, Content("t_x", "f32", 0))
  /\ s \in Allocated(x.dev, Content("t_scores", "f32", Patches[1]))
  /\ i \in Allocated(s.dev, Content("t_index", "f32", 1))
  /\ u \in Allocated(i.dev, Content("t_table", "f32", 1))
  /\ g = [held EXCEPT !["t_x"] = x.at, !["t_scores"] = s.at, !["t_index"] = i.at, !["t_table"] = u.at]

(* What is so after.                                                       *)
Active(x, s, i, u, g, t) ==
  /\ Settled(u.dev, g, form, rows, t) /\ g \in [AllBuffers -> Nat]
  /\ g["t_x"] = x.at /\ g["t_scores"] = s.at /\ g["t_index"] = i.at /\ g["t_table"] = u.at
  /\ \A b \in {"t_x", "t_scores", "t_index", "t_table"} : g[b] # 0
  /\ \A n \in AllBuffers : n \notin {"t_x", "t_scores", "t_index", "t_table"} => g[n] = held[n]

(* A vision tower's buffers, for the checkpoint's own grid. *)
LEMMA ActivationsMade ==
  ASSUME held \in [AllBuffers -> Nat], NEW t, t.grid = 1, t.room = Patches[1], tower.grid = 1,
         Settled(dev, held, form, rows, tower), \A b \in {"t_x", "t_scores", "t_index", "t_table"} : held[b] = 0,
         NEW x, NEW s, NEW i, NEW u, NEW g, Activated(x, s, i, u, g)
  PROVE  Active(x, s, i, u, g, t)
<1> DEFINE b1 == "t_x"
           b2 == "t_scores"
           b3 == "t_index"
           b4 == "t_table"
           c1 == Content(b1, "f32", 0)
           c2 == Content(b2, "f32", t.room)
           c3 == Content(b3, "f32", t.grid)
           c4 == Content(b4, "f32", t.grid)
           h1 == With(held, b1, x.at)
           h2 == With(h1, b2, s.at)
           h3 == With(h2, b3, i.at)
           h4 == With(h3, b4, u.at)
<1>1. /\ x \in Allocated(dev, c1) /\ s \in Allocated(x.dev, c2) /\ i \in Allocated(s.dev, c3) /\ u \in Allocated(i.dev, c4)
  BY DEF Activated
<1>2. IsFor(b1, c1, form, rows, tower) /\ c1 # Free /\ IsFor(b2, c2, form, rows, t) /\ c2 # Free
      /\ IsFor(b3, c3, form, rows, t) /\ c3 # Free /\ IsFor(b4, c4, form, rows, t) /\ c4 # Free
      /\ {b1, b2, b3, b4} \subseteq Plain
  BY TowerContents
<1>3. /\ Apart(b1, rows, rows, tower, tower) /\ Apart(b2, rows, rows, tower, t)
      /\ Apart(b3, rows, rows, t, t) /\ Apart(b4, rows, rows, t, t)
  BY DEF Apart
<1>4. b1 # b2 /\ b1 # b3 /\ b1 # b4 /\ b2 # b3 /\ b2 # b4 /\ b3 # b4
      /\ held[b1] = 0 /\ held[b2] = 0 /\ held[b3] = 0 /\ held[b4] = 0
      /\ {b1, b2, b3, b4} \subseteq AllBuffers
  BY <1>2, BuffersAre
<1>5. g = [held EXCEPT ![b1] = x.at, ![b2] = s.at, ![b3] = i.at, ![b4] = u.at]
  BY DEF Activated
<1>6. \A n : n \in {b1, b2, b3, b4} <=> n \in {"t_x", "t_scores", "t_index", "t_table"}
  OBVIOUS
<1> HIDE DEF c1, c2, c3, c4, b1, b2, b3, b4
<1>7. Settled(x.dev, h1, form, rows, tower) /\ x.at \in Nat \ {0} /\ h1 \in [AllBuffers -> Nat]
  BY <1>1, <1>2, <1>3, <1>4, GainPlain
<1>8. h1[b1] = x.at /\ \A n \in AllBuffers : n # b1 => h1[n] = held[n]
  BY <1>4 DEF With
<1> HIDE DEF h1
<1>9. Settled(s.dev, h2, form, rows, t) /\ s.at \in Nat \ {0} /\ h2 \in [AllBuffers -> Nat]
  <2>1. h1[b2] = 0
    BY <1>4, <1>8
  <2> QED
    BY <1>1, <1>2, <1>3, <1>7, <2>1, GainPlain
<1>10. h2[b2] = s.at /\ \A n \in AllBuffers : n # b2 => h2[n] = h1[n]
  BY <1>4, <1>7 DEF With
<1> HIDE DEF h2
<1>11. Settled(i.dev, h3, form, rows, t) /\ i.at \in Nat \ {0} /\ h3 \in [AllBuffers -> Nat]
  <2>1. h2[b3] = 0
    BY <1>4, <1>8, <1>10
  <2> QED
    BY <1>1, <1>2, <1>3, <1>9, <2>1, GainPlain
<1>12. h3[b3] = i.at /\ \A n \in AllBuffers : n # b3 => h3[n] = h2[n]
  BY <1>4, <1>9 DEF With
<1> HIDE DEF h3
<1>13. Settled(u.dev, h4, form, rows, t) /\ u.at \in Nat \ {0} /\ h4 \in [AllBuffers -> Nat]
  <2>1. h3[b4] = 0
    BY <1>4, <1>8, <1>10, <1>12
  <2> QED
    BY <1>1, <1>2, <1>3, <1>11, <2>1, GainPlain
<1>14. h4[b4] = u.at /\ \A n \in AllBuffers : n # b4 => h4[n] = h3[n]
  BY <1>4, <1>11 DEF With
<1> HIDE DEF h4
<1>15. g \in [AllBuffers -> Nat] /\ g[b1] = x.at /\ g[b2] = s.at /\ g[b3] = i.at /\ g[b4] = u.at
       /\ \A n \in AllBuffers : n \notin {b1, b2, b3, b4} => g[n] = held[n]
  BY <1>4, <1>5, <1>7, <1>9, <1>11, <1>13
<1>16. g = h4
  <2>1. ASSUME NEW n \in AllBuffers PROVE g[n] = h4[n]
    BY <1>4, <1>8, <1>10, <1>12, <1>14, <1>15
  <2> QED
    BY <1>13, <1>15, <2>1
<1>17. \A b \in {b1, b2, b3, b4} : g[b] # 0
  BY <1>7, <1>9, <1>11, <1>13, <1>15
<1> QED
  BY <1>6, <1>13, <1>15, <1>16, <1>17 DEF b1, b2, b3, b4, Active

(* allocate_activations. *)
LEMMA AllocateActivationsStep ==
  ASSUME SessionInv, AllocateActivations
  PROVE  SessionInv'
<1>1. Types /\ TowerOK /\ Stage /\ ReadsWhatItMeans /\ held \in [AllBuffers -> Nat]
  BY DEF SessionInv, Types
<1>2. PICK k \in 1 .. Len(Loads) : LoadingAt(k) /\ "t_activations" = Loads[k] /\ todo' = Rest(Loads, k + 1)
  BY <1>1, LoadStands DEF AllocateActivations
<1>3. Serving /\ k = 11 /\ shape.tower = "vision"
  <2>1. Serving
    BY <1>1, LoadStands DEF AllocateActivations
  <2> QED
    BY <1>2, <2>1, LoadIndex
<1>4. HeldAt(11) /\ (\A b \in {"t_x", "t_scores", "t_index", "t_table"} : held[b] = 0) /\ held["t_weight"] # 0
  BY <1>2, <1>3 DEF LoadingAt, HeldAt, HasTower
<1>5. UNCHANGED <<shape, form, rows, call, phase, reads>>
  BY DEF AllocateActivations, Alone
<1>6. tower.grid = 1 /\ tower.regrown \in BOOLEAN
  BY <1>1, <1>4 DEF TowerOK, Types
<1>7. PICK x \in Allocated(dev, Content("t_x", "f32", 0)) :
      \E s \in Allocated(x.dev, Content("t_scores", "f32", Patches[1])) :
      \E i \in Allocated(s.dev, Content("t_index", "f32", 1)) :
      \E t \in Allocated(i.dev, Content("t_table", "f32", 1)) :
       /\ dev' = t.dev
       /\ held' = [held EXCEPT !["t_x"] = x.at, !["t_scores"] = s.at, !["t_index"] = i.at, !["t_table"] = t.at]
       /\ tower' = [tower EXCEPT !.owned = @ \o <<x.at, s.at, i.at>>, !.room = Patches[1]]
  BY Zenon DEF AllocateActivations
<1>8. PICK s \in Allocated(x.dev, Content("t_scores", "f32", Patches[1])) :
      \E i \in Allocated(s.dev, Content("t_index", "f32", 1)) :
      \E t \in Allocated(i.dev, Content("t_table", "f32", 1)) :
       /\ dev' = t.dev
       /\ held' = [held EXCEPT !["t_x"] = x.at, !["t_scores"] = s.at, !["t_index"] = i.at, !["t_table"] = t.at]
       /\ tower' = [tower EXCEPT !.owned = @ \o <<x.at, s.at, i.at>>, !.room = Patches[1]]
  BY <1>7, Zenon
<1>9. PICK i \in Allocated(s.dev, Content("t_index", "f32", 1)) :
      \E t \in Allocated(i.dev, Content("t_table", "f32", 1)) :
       /\ dev' = t.dev
       /\ held' = [held EXCEPT !["t_x"] = x.at, !["t_scores"] = s.at, !["t_index"] = i.at, !["t_table"] = t.at]
       /\ tower' = [tower EXCEPT !.owned = @ \o <<x.at, s.at, i.at>>, !.room = Patches[1]]
  BY <1>8, Zenon
<1>10. PICK u \in Allocated(i.dev, Content("t_table", "f32", 1)) :
       /\ dev' = u.dev
       /\ held' = [held EXCEPT !["t_x"] = x.at, !["t_scores"] = s.at, !["t_index"] = i.at, !["t_table"] = u.at]
       /\ tower' = [tower EXCEPT !.owned = @ \o <<x.at, s.at, i.at>>, !.room = Patches[1]]
  BY <1>9, Zenon
<1> DEFINE t == tower'
           g == held'
<1>11. /\ t = [owned |-> tower.owned \o <<x.at, s.at, i.at>>, grid |-> tower.grid, room |-> Patches[1],
               regrown |-> tower.regrown]
       /\ t.grid = 1 /\ t.room = Patches[1] /\ t.regrown = tower.regrown /\ t.owned = tower.owned \o <<x.at, s.at, i.at>>
  BY <1>1, <1>6, <1>10 DEF Types
<1>12. Settled(dev, held, form, rows, tower)
  BY <1>3, SettledNow DEF Serving
<1>13. g = [held EXCEPT !["t_x"] = x.at, !["t_scores"] = s.at, !["t_index"] = i.at, !["t_table"] = u.at]
  BY <1>10
<1> HIDE DEF t, g
<1>14. /\ Settled(u.dev, g, form, rows, t) /\ g \in [AllBuffers -> Nat]
       /\ g["t_x"] = x.at /\ g["t_scores"] = s.at /\ g["t_index"] = i.at /\ g["t_table"] = u.at
       /\ \A b \in {"t_x", "t_scores", "t_index", "t_table"} : g[b] # 0
       /\ \A n \in AllBuffers : n \notin {"t_x", "t_scores", "t_index", "t_table"} => g[n] = held[n]
  <2>1. t.grid = 1 /\ t.room = Patches[1]
    BY <1>11
  <2>2. Activated(x, s, i, u, g)
    BY <1>7, <1>8, <1>9, <1>10, <1>13 DEF Activated
  <2>3. Active(x, s, i, u, g, t)
    BY <1>1, <1>4, <1>6, <1>12, <2>1, <2>2, ActivationsMade
  <2> QED
    BY <2>3 DEF Active
<1>15. SoundNow'
  BY <1>5, <1>10, <1>14, SettledNow DEF t, g
<1>16. Patches[1] \in Nat /\ 1 \in DOMAIN Patches
  BY TowerAssumption
<1>17. Types'
  <2>1. \A n \in Buffers : held'[n] = held[n]
    BY <1>14 DEF g, Buffers, AllBuffers, Weights, Matrices
  <2>2. tower' = [owned |-> tower'.owned, grid |-> tower'.grid, room |-> tower'.room, regrown |-> tower'.regrown]
        /\ tower'.grid \in DOMAIN Patches /\ tower'.room \in Nat /\ tower'.regrown \in BOOLEAN
    BY <1>6, <1>11, <1>16 DEF t
  <2> QED
    BY <1>1, <1>5, <1>14, <2>1, <2>2, TowerTypes DEF g
<1>18. \A n \in {"embd", "head", "norm", "gamma", "wq", "w_down", "rope", "x", "mrope", "plane", "t_weight"} : g[n] = held[n]
  BY <1>14 DEF AllBuffers, Buffers, TowerBuffers, Weights, Matrices
<1>19. TowerOK'
  <2>1. Owned(g) = <<held["t_weight"], x.at, s.at, i.at>>
    BY <1>3, <1>4, <1>14, <1>18 DEF Owned
  <2>2. ~tower.regrown => tower.owned = <<held["t_weight"]>>
    BY <1>1, <1>4 DEF TowerOK, OwnedFirst, Owned
  <2>3. <<held["t_weight"]>> \o <<x.at, s.at, i.at>> = <<held["t_weight"], x.at, s.at, i.at>>
    <3> DEFINE p == <<held["t_weight"], x.at, s.at, i.at>>
               q == <<held["t_weight"]>> \o <<x.at, s.at, i.at>>
    <3>1. held["t_weight"] \in Nat
      BY <1>1 DEF AllBuffers, TowerBuffers
    <3>3. x.at \in Nat /\ s.at \in Nat /\ i.at \in Nat
      BY <1>14 DEF AllBuffers, TowerBuffers
    <3>2. p \in Seq(Nat) /\ q \in Seq(Nat) /\ Len(p) = 4 /\ Len(q) = 4 /\ \A j \in 1 .. 4 : p[j] = q[j]
      BY <3>1, <3>3
    <3> HIDE DEF p, q
    <3>4. p = q
      BY <3>2, SeqEqual
    <3> QED
      BY <3>4 DEF p, q
  <2>4. Owned(held)' = Owned(g)
    BY <1>5 DEF Owned, g
  <2>5. ~tower'.regrown => tower'.owned = Owned(g)
    BY <1>11, <2>1, <2>2, <2>3 DEF t
  <2>6. held'["t_scores"] # 0 /\ tower'.grid = 1 /\ Patches[1] <= tower'.room
    BY <1>11, <1>14, <1>16 DEF t, g
  <2>7. ~tower'.regrown
    BY <1>1, <1>4, <1>11 DEF TowerOK, t
  <2> QED
    BY <2>4, <2>5, <2>6, <2>7 DEF TowerOK
<1>20. HeldAt(12)'
  <2>1. \A n \in {"embd", "head", "norm", "gamma", "wq", "w_down", "rope", "x", "mrope", "plane", "t_weight"} : held'[n] = held[n]
    BY <1>18 DEF g
  <2>2. held'["t_x"] # 0 /\ held'["t_scores"] # 0 /\ held'["t_index"] # 0 /\ held'["t_table"] # 0
    BY <1>14 DEF g
  <2> QED
    BY <1>3, <1>4, <1>5, <2>1, <2>2 DEF HeldAt, HasTower
<1>21. Stage' /\ phase' # "closed"
  BY <1>2, <1>3, <1>5, <1>15, <1>20, LoadMoves DEF Serving
<1> QED
  BY <1>1, <1>5, <1>17, <1>19, <1>21, SameReads, StaysOpen

-----------------------------------------------------------------------------
(* The tower: another grid.                                                *)

(* The two tables of another grid are written over the last one's. *)
LEMMA GridTables ==
  ASSUME NEW d, NEW h \in [AllBuffers -> Nat], NEW f, NEW r, NEW t, Settled(d, h, f, r, t),
         h["t_index"] # 0, h["t_table"] # 0, NEW t2, t2.room = t.room, NEW n, t2.grid = n,
         NEW e, e = Written(Written(d, h["t_index"], Content("t_index", "f32", n)),
                            h["t_table"], Content("t_table", "f32", n))
  PROVE  Settled(e, h, f, r, t2)
<1>1. PICK con : Steady(d, h, f, con, r, t)
  BY DEF Settled
<1>2. PICK pc : Sound(d, h, f, con, pc, r, t)
  BY <1>1 DEF Steady
<1> DEFINE x == "t_index"
           y == "t_table"
           c == Content(x, "f32", n)
           v == Content(y, "f32", n)
           own == Owners(h, f)
           m == Written(d, own[x], c)
           q == [con EXCEPT ![x] = c]
           z == [q EXCEPT ![y] = v]
<1>3. x \in Plain /\ y \in Plain /\ x # y /\ c # Free /\ v # Free /\ x \notin Weights /\ y \notin Weights
      /\ h[x] # 0 /\ h[y] # 0 /\ x \notin {"norm", "gamma", "t_scores"} /\ y \notin {"norm", "gamma", "t_scores"}
  BY DEF Plain, TowerBuffers, Content, Free, Weights, Matrices
<1>4. IsFor(x, c, f, r, t2) /\ IsFor(y, v, f, r, t2)
  BY TowerContents
<1>5. e = Written(Written(d, h[x], c), h[y], v)
  OBVIOUS
<1>15. \A b \in AllBuffers : b \notin {x, y} => b \notin {"t_index", "t_table"}
  OBVIOUS
<1> HIDE DEF x, y, c, v
<1>6. own[x] = h[x] /\ own[y] = h[y] /\ x \in Names /\ y \in Names
  BY <1>3, PlainOwns
<1>7. Tidy(d, own, con, pc)
  BY <1>2 DEF Sound
<1> HIDE DEF own
<1>8. Tidy(m, own, q, pc) /\ Aside(d, m)
  BY <1>3, <1>6, <1>7, TidyPut
<1>14. con = [b \in Names |-> con[b]]
  BY <1>7 DEF Tidy
<1>16. q = [b \in Names |-> q[b]]
  BY <1>14
<1>17. q[x] = c /\ \A b \in Names : b # x => q[b] = con[b]
  BY <1>6, <1>14
<1> HIDE DEF m, q
<1>9. Tidy(Written(m, own[y], v), own, z, pc) /\ Aside(m, Written(m, own[y], v))
  BY <1>3, <1>6, <1>8, TidyPut
<1>18. z[y] = v /\ \A b \in Names : b # y => z[b] = q[b]
  BY <1>6, <1>16
<1> HIDE DEF z
<1>10. e = Written(m, own[y], v)
  BY <1>5, <1>6 DEF m
<1>11. Tidy(e, own, z, pc) /\ Aside(d, e)
  BY <1>8, <1>9, <1>10 DEF Aside
<1>12. ASSUME NEW b \in AllBuffers, own[b] # 0 PROVE IsFor(b, z[b], f, r, t2)
  <2>0. b \in Names
    BY BuffersAre
  <2>1. CASE b = x
    BY <1>3, <1>4, <1>6, <1>17, <1>18, <2>1
  <2>2. CASE b = y
    BY <1>4, <1>18, <2>2
  <2>3. CASE b \notin {x, y}
    <3>1. z[b] = con[b]
      BY <1>17, <1>18, <2>0, <2>3
    <3>2. IsFor(b, con[b], f, r, t)
      BY <1>2, <1>12 DEF Sound, own
    <3>3. b \notin {"t_index", "t_table"}
      BY <1>15, <2>3
    <3> QED
      BY <3>1, <3>2, <3>3, IsForStays
  <2> QED
    BY <2>1, <2>2, <2>3
<1>13. Sound(e, h, f, z, pc, r, t2)
  BY <1>2, <1>11, <1>12, SoundPlain DEF own
<1> QED
  BY <1>13 DEF Settled, Steady

(* What an image needs of a session at rest: its memory, and the grid it was
   last given.                                                             *)
LEMMA IdleRests ==
  ASSUME Stage, phase = "open", todo = << >>
  PROVE  Serving /\ HeldAt(12)
<1>1. \A k \in Nat : ~LoadingAt(k)
  <2>1. ASSUME NEW k \in Nat, LoadingAt(k) PROVE FALSE
    <3>1. k \in 1 .. Len(Loads) /\ todo = Rest(Loads, k)
      BY <2>1 DEF LoadingAt
    <3>2. Loads \in Seq(StepNames)
      BY LoadsAre
    <3> QED
      BY <3>1, <3>2, RestStep
  <2> QED
    BY <2>1
<1>2. \A k \in Nat : ~CallingAt(k)
  <2>1. ASSUME NEW k \in Nat, CallingAt(k) PROVE FALSE
    <3>1. k \in 1 .. Len(CallSteps) /\ todo = Rest(CallSteps, k) /\ CallSteps \in Seq(StepNames)
      BY <2>1, ListsAre DEF CallingAt
    <3> QED
      BY <3>1, RestStep
  <2> QED
    BY <2>1
<1>3. \A k \in Nat : ~ReservingAt(k)
  <2>1. ASSUME NEW k \in Nat, ReservingAt(k) PROVE FALSE
    <3>1. k \in 1 .. Len(ReserveSteps) /\ todo = Rest(ReserveSteps, k) /\ ReserveSteps \in Seq(StepNames)
      BY <2>1, ListsAre DEF ReservingAt
    <3> QED
      BY <3>1, RestStep
  <2> QED
    BY <2>1
<1>4. ~ClosingNow /\ todo # CloseSteps
  BY ListsAre DEF ClosingNow
<1> QED
  BY <1>1, <1>2, <1>3, <1>4 DEF Stage, Alive, Resting, Serving

(* The grid's tables and scratch, ready. *)
LEMMA RegridOK ==
  ASSUME Types, TowerOK, HeldAt(12), shape.tower = "vision", Settled(dev, held, form, rows, tower),
         NEW n \in DOMAIN Patches, NEW o \in Regrid(n), NEW t, t.grid = n,
         t.room = IF Patches[n] > tower.room THEN Patches[n] ELSE tower.room
  PROVE  Settled(o.dev, With(held, "t_scores", o.at), form, rows, t) /\ o.at \in Nat \ {0}
<1> DEFINE tables(d) == Written(Written(d, held["t_index"], Content("t_index", "f32", n)),
                                held["t_table"], Content("t_table", "f32", n))
           b == "t_scores"
<1>1. held \in [AllBuffers -> Nat] /\ tower.room \in Nat /\ Patches[n] \in Nat
      /\ tower.grid \in DOMAIN Patches /\ Patches[tower.grid] \in Nat
  BY TowerAssumption DEF Types
<1>2. held["t_index"] # 0 /\ held["t_table"] # 0 /\ held[b] # 0 /\ b \in AllBuffers /\ held[b] \in Nat
  BY <1>1 DEF HeldAt, AllBuffers, TowerBuffers
<1>3. With(held, b, held[b]) = held
  BY <1>1, <1>2 DEF With
<1>4. Patches[tower.grid] <= tower.room
  BY <1>2 DEF TowerOK
<1>5. CASE n = tower.grid
  <2>1. o.dev = dev /\ o.at = held[b] /\ t.room = tower.room
    BY <1>1, <1>4, <1>5 DEF Regrid
  <2>2. Settled(dev, held, form, rows, t)
    <3>1. PICK con : Steady(dev, held, form, con, rows, tower)
      BY DEF Settled
    <3>2. PICK pc : Sound(dev, held, form, con, pc, rows, tower)
      BY <3>1 DEF Steady
    <3>3. ASSUME NEW x \in AllBuffers, Owners(held, form)[x] # 0 PROVE IsFor(x, con[x], form, rows, t)
      <4>1. IsFor(x, con[x], form, rows, tower)
        BY <3>2, <3>3 DEF Sound
      <4> QED
        BY <1>5, <2>1, <4>1, IsForStays
    <3>4. Sound(dev, held, form, con, pc, rows, t)
      BY <3>2, <3>3 DEF Sound
    <3> QED
      BY <3>4 DEF Settled, Steady
  <2> QED
    BY <1>2, <1>3, <2>1, <2>2
<1>6. CASE n # tower.grid /\ Patches[n] <= tower.room
  <2>1. o.dev = tables(dev) /\ o.at = held[b] /\ t.room = tower.room
    BY <1>1, <1>6 DEF Regrid
  <2> DEFINE e == o.dev
  <2>2. e = tables(dev)
    BY <2>1
  <2> HIDE DEF e
  <2>3. Settled(e, held, form, rows, t)
    BY <1>1, <1>2, <2>1, <2>2, GridTables
  <2> QED
    BY <1>2, <1>3, <2>1, <2>3 DEF e
<1>7. CASE n # tower.grid /\ ~(Patches[n] <= tower.room)
  <2> DEFINE c == Content(b, "f32", Patches[n])
             m == [grid |-> tower.grid, room |-> Patches[n]]
  <2>1. PICK p \in Allocated(Released(dev, held[b]), c) : o = [dev |-> tables(p.dev), at |-> p.at]
    BY <1>7, Zenon DEF Regrid
  <2>2. m.room = Patches[n] /\ m.grid = tower.grid /\ t.room = Patches[n]
    BY <1>1, <1>7
  <2> HIDE DEF m
  <2>3. IsFor(b, c, form, rows, m) /\ c # Free /\ b \in Plain
    <3>1. c = Content("t_scores", "f32", m.room)
      BY <2>2
    <3> QED
      BY <3>1, TowerContents
  <2>4. Apart(b, rows, rows, tower, m)
    BY <2>2 DEF Apart
  <2>11. b \notin {"t_index", "t_table"}
    OBVIOUS
  <2> HIDE DEF b, c
  <2>5. Settled(p.dev, With(held, b, p.at), form, rows, m) /\ p.at \in Nat \ {0}
    BY <1>1, <2>1, <2>3, <2>4, RenewPlain
  <2> DEFINE a == p.at
             g == With(held, b, a)
             e == o.dev
             x == p.dev
  <2>6. g \in [AllBuffers -> Nat] /\ g["t_index"] = held["t_index"] /\ g["t_table"] = held["t_table"]
    <3>1. a \in Nat
      BY <2>5
    <3> HIDE DEF a
    <3> QED
      BY <1>1, <1>2, <2>11, <3>1 DEF With, AllBuffers, TowerBuffers
  <2>7. Settled(x, g, form, rows, m) /\ e = tables(x) /\ g["t_index"] # 0 /\ g["t_table"] # 0 /\ t.room = m.room
    BY <1>2, <2>1, <2>2, <2>5, <2>6
  <2>8. o.at = a
    BY <2>1
  <2> HIDE DEF g, e, x
  <2>9. e = Written(Written(x, g["t_index"], Content("t_index", "f32", n)),
                    g["t_table"], Content("t_table", "f32", n))
    BY <2>6, <2>7
  <2>10. Settled(e, g, form, rows, t)
    BY <2>6, <2>7, <2>9, GridTables
  <2> QED
    BY <2>5, <2>8, <2>10 DEF b, e, g
<1> QED
  BY <1>5, <1>6, <1>7

(* What is read of a buffer that is not a weight. *)
LEMMA SettledHolds ==
  ASSUME NEW d, NEW h \in [AllBuffers -> Nat], NEW f, NEW r, NEW t, Settled(d, h, f, r, t)
  PROVE  /\ h["t_weight"] # 0 => Holds(d, h["t_weight"]) = Content("t_weight", "dense", 0)
         /\ h["t_x"] # 0 => Holds(d, h["t_x"]) = Content("t_x", "f32", 0)
         /\ h["t_scores"] # 0 => Holds(d, h["t_scores"]) = Content("t_scores", "f32", t.room)
         /\ h["t_index"] # 0 => Holds(d, h["t_index"]) = Content("t_index", "f32", t.grid)
         /\ h["t_table"] # 0 => Holds(d, h["t_table"]) = Content("t_table", "f32", t.grid)
<1>1. PICK con : Steady(d, h, f, con, r, t)
  BY DEF Settled
<1>2. ASSUME NEW b \in TowerBuffers, h[b] # 0 PROVE Holds(d, h[b]) = con[b] /\ IsFor(b, con[b], f, r, t)
  BY <1>1, <1>2, PlainHolds, TowerParted
<1>3. \A b \in TowerBuffers : h[b] # 0 => Holds(d, h[b]) = con[b] /\ IsFor(b, con[b], f, r, t)
  BY <1>2
<1>4. "t_weight" \in TowerBuffers /\ "t_x" \in TowerBuffers /\ "t_scores" \in TowerBuffers /\ "t_index" \in TowerBuffers
      /\ "t_table" \in TowerBuffers
  BY DEF TowerBuffers
<1>5. h["t_weight"] # 0 => Holds(d, h["t_weight"]) = Content("t_weight", "dense", 0)
  BY <1>3, <1>4 DEF IsFor, Weights, Matrices
<1>6. h["t_x"] # 0 => Holds(d, h["t_x"]) = Content("t_x", "f32", 0)
  BY <1>3, <1>4 DEF IsFor, Weights, Matrices
<1>7. h["t_scores"] # 0 => Holds(d, h["t_scores"]) = Content("t_scores", "f32", t.room)
  BY <1>3, <1>4 DEF IsFor, Weights, Matrices
<1>8. h["t_index"] # 0 => Holds(d, h["t_index"]) = Content("t_index", "f32", t.grid)
  BY <1>3, <1>4 DEF IsFor, Weights, Matrices
<1>9. h["t_table"] # 0 => Holds(d, h["t_table"]) = Content("t_table", "f32", t.grid)
  BY <1>3, <1>4 DEF IsFor, Weights, Matrices
<1> QED
  BY <1>5, <1>6, <1>7, <1>8, <1>9

-----------------------------------------------------------------------------
(* Calls begin.                                                            *)

(* Qwen3VlVision::encode. *)
LEMMA EncodeStep ==
  ASSUME SessionInv, Encode
  PROVE  SessionInv'
<1>1. Types /\ TowerOK /\ Stage /\ ReadsWhatItMeans /\ held \in [AllBuffers -> Nat]
  BY DEF SessionInv, Types
<1>2. Serving /\ HeldAt(12) /\ shape.tower = "vision" /\ phase = "open" /\ todo = << >>
  BY <1>1, IdleRests DEF Encode, Idle
<1>3. UNCHANGED <<shape, form, rows, phase, todo, call>>
  BY DEF Encode
<1>4. PICK n \in DOMAIN Patches : \E o \in Regrid(n) :
        /\ dev' = o.dev /\ held' = [held EXCEPT !["t_scores"] = o.at]
        /\ tower' = [tower EXCEPT !.grid = n, !.room = IF Patches[n] > @ THEN Patches[n] ELSE @,
                                  !.regrown = @ \/ o.at # held["t_scores"]]
        /\ reads' = IF Ascend THEN {}
                    ELSE {Read(Content("t_weight", "dense", 0), Holds(o.dev, held["t_weight"])),
                          Read(Content("t_index", "f32", n), Holds(o.dev, held["t_index"])),
                          Read(Content("t_table", "f32", n), Holds(o.dev, held["t_table"])),
                          Read(Content("t_scores", "f32", tower'.room), Holds(o.dev, o.at))}
  BY Zenon DEF Encode
<1>5. PICK o \in Regrid(n) :
        /\ dev' = o.dev /\ held' = [held EXCEPT !["t_scores"] = o.at]
        /\ tower' = [tower EXCEPT !.grid = n, !.room = IF Patches[n] > @ THEN Patches[n] ELSE @,
                                  !.regrown = @ \/ o.at # held["t_scores"]]
        /\ reads' = IF Ascend THEN {}
                    ELSE {Read(Content("t_weight", "dense", 0), Holds(o.dev, held["t_weight"])),
                          Read(Content("t_index", "f32", n), Holds(o.dev, held["t_index"])),
                          Read(Content("t_table", "f32", n), Holds(o.dev, held["t_table"])),
                          Read(Content("t_scores", "f32", tower'.room), Holds(o.dev, o.at))}
  BY <1>4, Zenon
<1> DEFINE t == tower'
           a == o.at
           d == o.dev
<1>6. /\ t = [owned |-> tower.owned, grid |-> n, room |-> IF Patches[n] > tower.room THEN Patches[n] ELSE tower.room,
              regrown |-> tower.regrown \/ a # held["t_scores"]]
      /\ t.grid = n /\ t.room = (IF Patches[n] > tower.room THEN Patches[n] ELSE tower.room)
  BY <1>1, <1>5 DEF Types
<1>7. Settled(dev, held, form, rows, tower)
  BY <1>2, SettledNow DEF Serving
<1>8. Settled(o.dev, With(held, "t_scores", o.at), form, rows, t) /\ o.at \in Nat \ {0}
  BY <1>1, <1>2, <1>6, <1>7, RegridOK
<1>9. Patches[n] \in Nat /\ tower.room \in Nat /\ tower.regrown \in BOOLEAN
  BY <1>1, TowerAssumption DEF Types
<1>10. dev' = d /\ held' = With(held, "t_scores", a) /\ Settled(d, held', form, rows, t) /\ a \in Nat /\ a # 0
  BY <1>5, <1>8 DEF With
<1>11. reads' = {} \/ reads' = {Read(Content("t_weight", "dense", 0), Holds(d, held["t_weight"])),
                          Read(Content("t_index", "f32", n), Holds(d, held["t_index"])),
                          Read(Content("t_table", "f32", n), Holds(d, held["t_table"])),
                          Read(Content("t_scores", "f32", t.room), Holds(d, a))}
  BY <1>5
<1> HIDE DEF t, a, d
<1>12. held' \in [AllBuffers -> Nat] /\ held'["t_scores"] = a /\ \A b \in AllBuffers : b # "t_scores" => held'[b] = held[b]
  BY <1>1, <1>10 DEF With, AllBuffers, TowerBuffers
<1>13. SoundNow'
  BY <1>3, <1>10, SettledNow DEF t
<1>14. \A b \in {"embd", "head", "norm", "gamma", "wq", "w_down", "rope", "x", "mrope", "plane", "t_weight", "t_x",
                 "t_index", "t_table"} : held'[b] = held[b]
  BY <1>12 DEF AllBuffers, Buffers, TowerBuffers, Weights, Matrices
<1>15. HeldAt(12)'
  <2>1. held'["t_scores"] # 0
    BY <1>10, <1>12
  <2> QED
    BY <1>2, <1>3, <1>14, <2>1 DEF HeldAt, HasTower
<1>16. Types'
  <2>1. \A b \in Buffers : held'[b] = held[b]
    BY <1>12, TowerParted DEF TowerBuffers
  <2>2. tower' = [owned |-> tower'.owned, grid |-> tower'.grid, room |-> tower'.room, regrown |-> tower'.regrown]
        /\ tower'.grid \in DOMAIN Patches /\ tower'.room \in Nat /\ tower'.regrown \in BOOLEAN
    BY <1>6, <1>9 DEF t
  <2> QED
    BY <1>1, <1>3, <1>12, <2>1, <2>2, TowerTypes
<1>17. TowerOK'
  <2>1. ASSUME ~tower'.regrown PROVE tower'.owned = Owned(held)'
    <3>1. ~tower.regrown /\ a = held["t_scores"] /\ tower'.owned = tower.owned
      BY <1>6, <1>9, <2>1 DEF t
    <3>2. tower.owned = Owned(held)
      BY <1>1, <3>1 DEF TowerOK
    <3> QED
      BY <1>3, <1>12, <1>14, <3>1, <3>2 DEF Owned
  <2>2. held'["t_scores"] # 0 /\ Patches[tower'.grid] <= tower'.room
    BY <1>6, <1>9, <1>10, <1>12 DEF t
  <2>3. held["t_weight"] # 0 /\ held["t_x"] # 0 /\ held["t_scores"] \in Nat
    BY <1>1, <1>2 DEF HeldAt, HasTower, AllBuffers, TowerBuffers
  <2>4. OwnedFirst
    <3>1. CASE tower.regrown
      BY <1>1, <3>1 DEF TowerOK
    <3>2. CASE ~tower.regrown
      <4>1. tower.owned = <<held["t_weight"], held["t_x"], held["t_scores"], held["t_index"]>>
        BY <1>1, <1>2, <2>3, <3>2 DEF TowerOK, Owned
      <4> QED
        BY <2>3, <4>1 DEF OwnedFirst
    <3> QED
      BY <3>1, <3>2
  <2>5. OwnedFirst'
    BY <1>6, <1>14, <2>4 DEF OwnedFirst, t
  <2>6. shape.tower' = "vision"
    BY <1>2, <1>3
  <2> QED
    BY <2>1, <2>2, <2>5, <2>6 DEF TowerOK
<1>18. ReadsWhatItMeans'
  <2>1. held["t_weight"] # 0 /\ held["t_index"] # 0 /\ held["t_table"] # 0
    BY <1>2 DEF HeldAt, HasTower
  <2> DEFINE g == held'
  <2>2. g \in [AllBuffers -> Nat] /\ Settled(d, g, form, rows, t) /\ g["t_weight"] = held["t_weight"]
        /\ g["t_index"] = held["t_index"] /\ g["t_table"] = held["t_table"] /\ g["t_scores"] = a
    BY <1>10, <1>12, <1>14
  <2> HIDE DEF g
  <2>3. /\ Holds(d, held["t_weight"]) = Content("t_weight", "dense", 0)
        /\ Holds(d, held["t_index"]) = Content("t_index", "f32", n)
        /\ Holds(d, held["t_table"]) = Content("t_table", "f32", n)
        /\ Holds(d, a) = Content("t_scores", "f32", t.room)
    <3>1. /\ g["t_weight"] # 0 => Holds(d, g["t_weight"]) = Content("t_weight", "dense", 0)
          /\ g["t_scores"] # 0 => Holds(d, g["t_scores"]) = Content("t_scores", "f32", t.room)
          /\ g["t_index"] # 0 => Holds(d, g["t_index"]) = Content("t_index", "f32", t.grid)
          /\ g["t_table"] # 0 => Holds(d, g["t_table"]) = Content("t_table", "f32", t.grid)
      BY <2>2, SettledHolds
    <3> QED
      BY <1>6, <1>10, <2>1, <2>2, <3>1
  <2> QED
    BY <1>11, <2>3 DEF ReadsWhatItMeans, Read
<1>19. Stage' /\ phase' # "closed"
  BY <1>2, <1>3, <1>13, <1>15 DEF Stage, Alive, Resting, Serving
<1> QED
  BY <1>16, <1>17, <1>18, <1>19, StaysOpen

(* A step that leaves the memory and the load's handles where they are. *)
LEMMA StaysSound ==
  ASSUME Serving, UNCHANGED <<dev, held, form, rows, tower, phase>>
  PROVE  SoundNow' /\ phase' # "closed"
BY SettledNow DEF Serving

(* Qwen3Audio::encode. *)
LEMMA EncodeAudioStep ==
  ASSUME SessionInv, EncodeAudio
  PROVE  SessionInv'
<1>1. Types /\ TowerOK /\ Stage /\ held \in [AllBuffers -> Nat]
  BY DEF SessionInv, Types
<1>2. Serving /\ HeldAt(12) /\ shape.tower = "audio" /\ todo = << >>
  BY <1>1, IdleRests DEF EncodeAudio, Idle
<1>3. UNCHANGED <<shape, dev, held, form, rows, phase, todo, call, tower>>
  BY DEF EncodeAudio
<1>4. reads' = {} \/ reads' = {Read(Content("t_weight", "dense", 0), Holds(dev, held["t_weight"])),
                               Read(Content("t_x", "f32", 0), Holds(dev, held["t_x"]))}
  BY DEF EncodeAudio
<1>5. Settled(dev, held, form, rows, tower)
  BY <1>2, SettledNow DEF Serving
<1>6. held["t_weight"] # 0 /\ held["t_x"] # 0
  BY <1>2 DEF HeldAt, HasTower
<1>7. /\ Holds(dev, held["t_weight"]) = Content("t_weight", "dense", 0)
      /\ Holds(dev, held["t_x"]) = Content("t_x", "f32", 0)
  BY <1>1, <1>5, <1>6, SettledHolds
<1>8. ReadsWhatItMeans'
  BY <1>4, <1>7 DEF ReadsWhatItMeans, Read
<1>9. Types' /\ TowerOK' /\ HeldAt(12)'
  BY <1>1, <1>2, <1>3, Unmoved
<1>10. SoundNow' /\ phase' # "closed"
  BY <1>2, <1>3, StaysSound
<1>11. Stage'
  BY <1>2, <1>3, <1>9, <1>10 DEF Stage, Alive, Resting
<1> QED
  BY <1>8, <1>9, <1>10, <1>11, StaysOpen

(* All of a list is what is left of it before its first step. *)
LEMMA RestAll ==
  Rest(CallSteps, 1) = CallSteps /\ Rest(ReserveSteps, 1) = ReserveSteps
<1>1. ASSUME NEW s \in Seq(StepNames) PROVE Rest(s, 1) = s
  <2> DEFINE q == Rest(s, 1)
  <2>1. q \in Seq(StepNames) /\ Len(q) = Len(s) /\ \A i \in 1 .. Len(s) : q[i] = s[i]
    BY DEF Rest
  <2> HIDE DEF q
  <2>2. q = s
    BY <2>1, SeqEqual
  <2> QED
    BY <2>2 DEF q
<1> QED
  BY <1>1, ListsAre

(* A call begins: its steps are the whole list, its positions the code's. *)
LEMMA BeginStep ==
  ASSUME SessionInv, NEW new, NEW steps, Begin(new, steps), new.pos # 0 => ~Ascend,
         steps \in {CallSteps, ReserveSteps, << >>}
  PROVE  SessionInv'
<1>1. Types /\ TowerOK /\ Stage
  BY DEF SessionInv
<1>2. Serving /\ HeldAt(12)
  BY <1>1, IdleRests DEF Begin, Idle
<1>3. UNCHANGED <<shape, dev, held, form, rows, phase, tower>> /\ call' = new /\ todo' = steps /\ reads' = {}
  BY DEF Begin
<1>4. Types'
  BY <1>1, <1>3 DEF Types, Tied, Ascend
<1>5. TowerOK'
  BY <1>1, <1>3 DEF TowerOK, OwnedFirst, Owned
<1>6. HeldAt(12)'
  BY <1>2, <1>3 DEF HeldAt, HasTower
<1>7. SoundNow' /\ phase' # "closed"
  BY <1>2, <1>3, StaysSound
<1>8. ReadsWhatItMeans'
  BY <1>3 DEF ReadsWhatItMeans
<1>9. Alive'
  <2> DEFINE k == 1
  <2>0. k \in Nat /\ k \in 1 .. 6 /\ k \in 1 .. 2 /\ ~(k > 2) /\ k # 5
    OBVIOUS
  <2>4. Rest(CallSteps, k) = CallSteps /\ Rest(ReserveSteps, k) = ReserveSteps
    BY RestAll
  <2> HIDE DEF k
  <2>1. CASE steps = CallSteps
    <3>1. CallingAt(k)'
      BY <1>3, <1>6, <2>0, <2>1, <2>4 DEF CallingAt, Rest, CallSteps
    <3> QED
      BY <2>0, <3>1 DEF Alive
  <2>2. CASE steps = ReserveSteps
    <3>1. ReservingAt(k)'
      BY <1>3, <1>6, <2>0, <2>2, <2>4 DEF ReservingAt, Rest, ReserveSteps
    <3> QED
      BY <2>0, <3>1 DEF Alive
  <2>3. CASE steps = << >>
    BY <1>3, <1>6, <2>3 DEF Alive, Resting
  <2> QED
    BY <2>1, <2>2, <2>3
<1> QED
  BY <1>4, <1>5, <1>7, <1>8, <1>9, StaysOpen DEF Stage

(* A call on tokens. *)
LEMMA ForwardStep ==
  ASSUME SessionInv, Forward
  PROVE  SessionInv'
<1>1. PICK end \in 1 .. Capacity, n \in 1 .. 2 : Begin([kind |-> "tokens", end |-> end, n |-> n, pos |-> 0], CallSteps)
  BY DEF Forward
<1> DEFINE new == [kind |-> "tokens", end |-> end, n |-> n, pos |-> 0]
<1>2. Begin(new, CallSteps) /\ new.pos = 0
  BY <1>1
<1> HIDE DEF new
<1> QED
  BY <1>2, BeginStep

(* A call on planes, or on tokens with positions. *)
LEMMA ForwardSpanStep ==
  ASSUME SessionInv, ForwardSpan
  PROVE  SessionInv'
<1>1. PICK end \in 1 .. Capacity, kind \in {"planes", "tokens"}, pos \in Positions :
         Begin([kind |-> kind, end |-> end, n |-> 1, pos |-> IF shape.tower = "vision" THEN pos ELSE 0], CallSteps)
  BY DEF ForwardSpan
<1> DEFINE new == [kind |-> kind, end |-> end, n |-> 1, pos |-> IF shape.tower = "vision" THEN pos ELSE 0]
<1>2. Begin(new, CallSteps) /\ ~Ascend
  BY <1>1 DEF ForwardSpan
<1> HIDE DEF new
<1> QED
  BY <1>2, BeginStep

(* reserve, which may have nothing to do. *)
LEMMA ReserveStep ==
  ASSUME SessionInv, Reserve
  PROVE  SessionInv'
<1> DEFINE early(p) == held["kv"] # 0 /\ Doubled(IF rows.kv = 0 THEN 1 ELSE rows.kv, p) <= rows.kv
<1>1. PICK p \in 1 .. Capacity :
         Begin([kind |-> "reserve", end |-> p, n |-> 0, pos |-> 0], IF early(p) THEN << >> ELSE <<"reserve_kv", "grow_rope">>)
  BY DEF Reserve
<1> DEFINE new == [kind |-> "reserve", end |-> p, n |-> 0, pos |-> 0]
           steps == IF early(p) THEN << >> ELSE <<"reserve_kv", "grow_rope">>
<1>2. Begin(new, steps) /\ new.pos = 0
  BY <1>1
<1> HIDE DEF early
<1>3. steps \in {CallSteps, ReserveSteps, << >>}
  BY DEF ReserveSteps
<1> HIDE DEF new, steps
<1> QED
  BY <1>2, <1>3, BeginStep

-----------------------------------------------------------------------------
(* The end of a session.                                                    *)

(* What is to be destroyed has the handles of some step of the load. *)
LEMMA CloseMoves ==
  ASSUME Types, TowerOK, ReadsWhatItMeans, Serving, NEW k \in 1 .. 12, HeldAt(k), todo' = Closing,
         UNCHANGED <<shape, dev, held, form, rows, phase, call, reads, tower>>
  PROVE  SessionInv'
<1>1. Types' /\ TowerOK' /\ HeldAt(k)'
  BY Unmoved
<1>2. SoundNow' /\ phase' # "closed"
  BY StaysSound
<1>3. ClosingNow'
  BY <1>1 DEF ClosingNow, Closing, CloseSteps
<1>4. Stage'
  BY <1>2, <1>3 DEF Stage, Alive
<1> QED
  BY <1>1, <1>2, <1>4, SameReads, StaysOpen

(* A close. *)
LEMMA CloseStep ==
  ASSUME SessionInv, Close
  PROVE  SessionInv'
<1>1. Types /\ TowerOK /\ Stage /\ ReadsWhatItMeans
  BY DEF SessionInv
<1>2. Serving /\ HeldAt(12)
  BY <1>1, IdleRests DEF Close
<1>3. todo' = Closing /\ UNCHANGED <<shape, dev, held, form, rows, phase, call, reads, tower>>
  BY DEF Close, Closing
<1> DEFINE k == 12
<1>4. k \in 1 .. 12 /\ HeldAt(k)
  BY <1>2
<1> HIDE DEF k
<1> QED
  BY <1>1, <1>2, <1>3, <1>4, CloseMoves

(* A load that throws begins to close. *)
LEMMA BindThrowsStep ==
  ASSUME SessionInv, BindThrows
  PROVE  SessionInv'
<1>1. Types /\ TowerOK /\ Stage /\ ReadsWhatItMeans
  BY DEF SessionInv
<1>2. todo' = Closing /\ UNCHANGED <<shape, dev, held, form, rows, phase, call, reads, tower>>
      /\ todo # << >> /\ Head(todo) # "destroy"
  BY DEF BindThrows, Closing
<1>3. todo # CloseSteps
  BY <1>2 DEF CloseSteps
<1>4. Serving /\ Alive
  BY <1>1, <1>2, <1>3 DEF Stage, Serving
<1>5. \E k \in 1 .. 12 : HeldAt(k)
  <2>1. ASSUME NEW k \in Nat, LoadingAt(k) PROVE k \in 1 .. 12 /\ HeldAt(k)
    <3> DEFINE n == Len(Loads)
    <3>1. k \in 1 .. n /\ HeldAt(k)
      BY <2>1 DEF LoadingAt
    <3>2. n = 9 \/ n = 11
      BY LoadsAre
    <3> HIDE DEF n
    <3>3. k \in 1 .. 12
      BY <3>1, <3>2
    <3> QED
      BY <3>1, <3>3
  <2> DEFINE m == 12
  <2>2. m \in 1 .. 12 /\ ((\E k \in Nat : CallingAt(k) \/ ReservingAt(k)) => HeldAt(m))
    BY DEF CallingAt, ReservingAt
  <2>3. Resting => FALSE
    BY <1>2 DEF Resting
  <2> HIDE DEF m
  <2> QED
    BY <1>4, <2>1, <2>2, <2>3 DEF Alive, ClosingNow
<1>6. PICK k \in 1 .. 12 : HeldAt(k)
  BY <1>5
<1> QED
  BY <1>1, <1>2, <1>4, <1>6, CloseMoves

-----------------------------------------------------------------------------
(* The tower is destroyed.                                                 *)

(* Nothing of gone is left. *)
LEMMA GoneAll ==
  ASSUME NEW d, NEW own, NEW con, NEW pc, Tidy(d, own, con, pc),
         NEW places, NEW gone, Covers(own, places, gone), gone \subseteq Names
  PROVE  Tidy(ReleasedAll(d, places), Without(own, gone), con, pc) /\ Aside(d, ReleasedAll(d, places))
<1>0. PICK s : Listed(own, s, places, gone)
  BY DEF Covers
<1> DEFINE given == {s[i] : i \in 1 .. Len(s)}
<1>1. Lists(own, s, places, given)
  BY <1>0 DEF Lists, Listed
<1>2. given \subseteq gone /\ \A n \in gone : own[n] = 0 \/ n \in given
  BY <1>0 DEF Listed
<1> HIDE DEF given
<1>3. Tidy(ReleasedAll(d, places), Without(own, given), con, pc) /\ Aside(d, ReleasedAll(d, places))
  BY <1>1, TidyLoseAll
<1>4. Without(own, given) = Without(own, gone)
  BY <1>2 DEF Without
<1> QED
  BY <1>3, <1>4

(* A list of places that names what of gone is owned.                      *)
NamedAll(own, places, gone) ==
  /\ places \in Seq(Nat) /\ gone \subseteq Names
  /\ \A n \in gone : own[n] = 0 \/ \E i \in 1 .. Len(places) : places[i] = own[n]

(* Nothing of gone is left, whoever else's the places of the list were. *)
LEMMA LooseLoses ==
  ASSUME NEW d, NEW own, Loose(d, own), NEW places, NEW gone, NamedAll(own, places, gone)
  PROVE  Loose(ReleasedAll(d, places), Without(own, gone))
<1> DEFINE n == Len(places)
           e == ReleasedAll(d, places)
           w == Without(own, gone)
<1>1. n \in Nat /\ (\A i \in 1 .. n : places[i] \in Nat) /\ HeapOK(d) /\ own \in [Names -> Nat]
  BY DEF NamedAll, Loose
<1>2. Shrunk(d, e, places, n)
  BY <1>1, ReleasedAllShrinks
<1>3. w \in [Names -> Nat] /\ \A b \in Names : w[b] = IF b \in gone THEN 0 ELSE own[b]
  BY <1>1 DEF Without
<1>4. \A b \in gone : own[b] = 0 \/ \E i \in 1 .. n : places[i] = own[b]
  BY DEF NamedAll
<1> HIDE DEF n, e, w
<1>5. ASSUME NEW x \in Nat, Holds(e, x) # Free PROVE Claimed(e, w, x)
  <2>1. Holds(d, x) # Free /\ (\A i \in 1 .. n : places[i] # x) /\ e.planes = d.planes
    BY <1>2, <1>5 DEF Shrunk
  <2>2. Claimed(d, own, x) /\ x # 0
    <3>1. 0 \notin DOMAIN d.heap
      BY <1>1, HeapFacts
    <3> QED
      BY <2>1, <3>1 DEF Loose, Holds
  <2>3. ASSUME NEW b \in Names, own[b] = x PROVE w[b] = x
    BY <1>3, <1>4, <2>1, <2>2, <2>3
  <2> QED
    BY <2>1, <2>2, <2>3 DEF Claimed
<1> QED
  BY <1>2, <1>3, <1>5 DEF Loose, Shrunk, e, w

(* A list names what it covers. *)
LEMMA CoversGives ==
  ASSUME NEW own, NEW places, NEW gone, Covers(own, places, gone), gone \subseteq Names
  PROVE  NamedAll(own, places, gone)
<1>1. PICK s : Listed(own, s, places, gone)
  BY DEF Covers
<1> QED
  BY <1>1 DEF Listed, NamedAll

(* What is in order is loose. *)
LEMMA TidyLoose ==
  ASSUME NEW d, NEW own, NEW con, NEW pc, Tidy(d, own, con, pc)
  PROVE  Loose(d, own)
BY DEF Tidy, Loose

-----------------------------------------------------------------------------
(* What ~Qwen3VlVision or ~Qwen3Audio releases, in order.                  *)
TowerList == (IF shape.tower = "audio" THEN <<held["t_x"]>> ELSE << >>) \o tower.owned

(* The lists of the towers' destructors. *)
LEMMA TowerListed ==
  ASSUME held \in [AllBuffers -> Nat], NEW k \in 1 .. 12, HeldAt(k), tower.owned = Owned(held),
         NEW own, own \in [Names -> Nat], \A b \in TowerParts : own[b] = held[b]
  PROVE  Covers(own, TowerList, TowerParts)
<1> DEFINE p == IF shape.tower = "audio" THEN <<held["t_x"]>> ELSE << >>
           o == Owned(held)
           g == IF shape.tower = "audio" THEN {"t_x"} ELSE {}
           h == IF shape.tower = "audio" THEN {"t_weight"} ELSE TowerParts
<1>1. /\ TowerParts = {"t_weight", "t_x", "t_scores", "t_index"} /\ TowerParts \subseteq Names
      /\ \A b \in TowerParts : own[b] \in Nat /\ own[b] = held[b]
  BY DEF TowerParts, Names, TowerBuffers
<1>2. Covers(own, p, g)
  <2>1. CASE shape.tower = "audio"
    BY <1>1, <2>1, CoverOne
  <2>2. CASE shape.tower # "audio"
    BY <2>2, CoverNone
  <2> QED
    BY <2>1, <2>2
<1>3. Covers(own, o, h)
  <2>1. CASE held["t_weight"] = 0
    <3>1. \A n \in h : own[n] = 0
      BY <1>1, <2>1 DEF HeldAt, HasTower
    <3> QED
      BY <1>1, <2>1, <3>1, CoverNone DEF Owned
  <2>2. CASE held["t_weight"] # 0 /\ ~(shape.tower = "vision" /\ held["t_x"] # 0)
    <3>1. Covers(own, <<held["t_weight"]>>, {"t_weight"})
      BY <1>1, CoverOne
    <3>2. h \subseteq Names /\ {"t_weight"} \subseteq h /\ \A n \in h : n \in {"t_weight"} \/ own[n] = 0
      BY <1>1, <2>2 DEF HeldAt, HasTower
    <3>3. Covers(own, <<held["t_weight"]>>, h)
      BY <3>1, <3>2, CoverMore
    <3> QED
      BY <2>2, <3>3 DEF Owned
  <2>3. CASE held["t_weight"] # 0 /\ shape.tower = "vision" /\ held["t_x"] # 0
    <3> DEFINE a == "t_weight"
               b == "t_x"
               c == "t_scores"
               e == "t_index"
    <3>1. a \in Names /\ b \in Names /\ c \in Names /\ e \in Names /\ own[a] \in Nat /\ own[b] \in Nat
          /\ own[c] \in Nat /\ own[e] \in Nat /\ a # b /\ a # c /\ a # e /\ b # c /\ b # e /\ c # e
      BY <1>1
    <3>2. o = <<own[a], own[b], own[c], own[e]>> /\ h = {a, b, c, e}
      BY <1>1, <2>3 DEF Owned
    <3> HIDE DEF a, b, c, e, o, h
    <3> QED
      BY <3>1, <3>2, CoverFour
  <2> QED
    BY <2>1, <2>2, <2>3
<1>4. g \cap h = {} /\ TowerList = p \o o
  BY <1>1 DEF TowerList
<1>5. g \cup h \subseteq TowerParts /\ \A n \in TowerParts : n \in g \cup h \/ own[n] = 0
  BY <1>1 DEF HeldAt, HasTower
<1> HIDE DEF g, h, p, o
<1>6. Covers(own, p \o o, g \cup h)
  BY <1>2, <1>3, <1>4, CoverBoth
<1> QED
  BY <1>1, <1>4, <1>5, <1>6, CoverMore

(* ~Qwen3VlVision, ~Qwen3Audio. *)
LEMMA DestroyTowerStep ==
  ASSUME SessionInv, DestroyTower
  PROVE  SessionInv'
<1>1. Types /\ TowerOK /\ Stage /\ ReadsWhatItMeans /\ held \in [AllBuffers -> Nat]
  BY DEF SessionInv, Types
<1>2. Serving /\ ClosingNow /\ todo' = CloseSteps
  <2>1. Step("destroy_tower")
    BY DEF DestroyTower
  <2> DEFINE n == "destroy_tower"
  <2>2. Step(n) /\ n \in {"kv", "grow_rope", "inputs", "layers", "logits", "reserve_kv", "destroy_tower", "destroy"}
        /\ n # "destroy"
    BY <2>1
  <2>3. \A j \in 1 .. 6 : n # CallSteps[j]
    BY ListsAre
  <2>4. \A j \in 1 .. 2 : n # ReserveSteps[j]
    BY ListsAre
  <2> HIDE DEF n
  <2> QED
    BY <1>1, <2>2, <2>3, <2>4, Standing, LoadsApart
<1>3. PICK k \in 1 .. 12 : HeldAt(k)
  BY <1>2 DEF ClosingNow
<1> DEFINE places == TowerList
<1>4. dev' = ReleasedAll(dev, places) /\ UNCHANGED <<shape, held, form, rows, phase, call, reads, tower>>
  BY DEF DestroyTower, Alone, TowerList
<1>5. PICK con, pc : Sound(dev, held, form, con, pc, rows, tower)
  BY <1>2 DEF Serving, SoundNow
<1> DEFINE own == Owners(held, form)
<1>6. Tidy(dev, own, con, pc) /\ own \in [Names -> Nat] /\ (\A b \in TowerParts : own[b] = held[b]) /\ TowerParts \subseteq Names
  <2>1. TowerParts \subseteq AllBuffers \ Weights /\ TowerParts \subseteq Names
    BY DEF TowerParts, AllBuffers, TowerBuffers, Weights, Matrices, Names
  <2> QED
    BY <1>1, <1>5, <2>1, OwnersAre DEF Sound
<1>7. ASSUME ~tower.regrown PROVE Parted'
  <2>1. tower.owned = Owned(held)
    BY <1>1, <1>7 DEF TowerOK
  <2>6. held = held' /\ form = form'
    BY <1>4
  <2> HIDE DEF places, own
  <2>2. Covers(own, places, TowerParts)
    BY <1>1, <1>3, <1>6, <2>1, TowerListed DEF places
  <2>4. Tidy(ReleasedAll(dev, places), Without(own, TowerParts), con, pc)
    BY <1>6, <2>2, GoneAll
  <2>5. Tidy(dev', Without(Owners(held', form'), TowerParts), con, pc)
    BY <1>4, <2>4, <2>6 DEF own, places
  <2> QED
    BY <2>5 DEF Parted
<1>8. NamedAll(own, places, TowerGone)
  <2> HIDE DEF own, places
  <2>1. CASE ~tower.regrown
    <3>1. tower.owned = Owned(held) /\ TowerGone = TowerParts
      BY <1>1, <2>1 DEF TowerOK, TowerGone
    <3> QED
      BY <1>1, <1>3, <1>6, <3>1, TowerListed, CoversGives DEF places
  <2>2. CASE tower.regrown
    <3>1. TowerGone = {"t_weight", "t_x", "t_index"} /\ TowerGone \subseteq Names /\ TowerGone \subseteq TowerParts
          /\ held["t_weight"] \in Nat /\ held["t_x"] \in Nat /\ held["t_index"] \in Nat
      BY <1>1, <2>2 DEF TowerGone, TowerParts, Names, AllBuffers, TowerBuffers
    <3>2. PICK z \in Nat : tower.owned = <<held["t_weight"], held["t_x"], z, held["t_index"]>>
      BY <1>1, <2>2 DEF TowerOK, OwnedFirst
    <3> DEFINE q == << >> \o <<held["t_weight"], held["t_x"], z, held["t_index"]>>
    <3>3. places = q
      BY <1>1, <2>2, <3>2 DEF places, TowerList, TowerOK
    <3>4. q \in Seq(Nat) /\ Len(q) = 4 /\ q[1] = held["t_weight"] /\ q[2] = held["t_x"] /\ q[4] = held["t_index"]
      BY <3>1
    <3> HIDE DEF q
    <3>5. \A n \in TowerGone : \E i \in 1 .. Len(q) : q[i] = own[n]
      BY <1>6, <3>1, <3>4
    <3> QED
      BY <3>1, <3>3, <3>4, <3>5 DEF NamedAll
  <2> QED
    BY <2>1, <2>2
<1>10. phase' # "closed" /\ Stage'
  <2>1. phase' # "closed"
    BY <1>2, <1>4 DEF Serving
  <2>2. ~tower'.regrown => Parted'
    BY <1>4, <1>7
  <2>3. todo' = CloseSteps'
    BY <1>2 DEF CloseSteps
  <2>4. Loose(dev', Without(Owners(held', form'), TowerGone'))
    <3> DEFINE gone == TowerGone
    <3>1. held = held' /\ form = form' /\ TowerGone' = gone
      BY <1>4 DEF TowerGone
    <3> HIDE DEF own, places, gone
    <3>2. Loose(ReleasedAll(dev, places), Without(own, gone))
      BY <1>6, <1>8, TidyLoose, LooseLoses DEF gone
    <3> QED
      BY <1>4, <3>1, <3>2 DEF own, places
  <2>5. TowerLeft'
    BY <2>2, <2>4 DEF TowerLeft
  <2> QED
    BY <2>1, <2>3, <2>5 DEF Stage
<1>9. Types' /\ TowerOK'
  BY <1>1, <1>4, Unmoved
<1> QED
  BY <1>1, <1>4, <1>9, <1>10, SameReads, StaysOpen

-----------------------------------------------------------------------------
(* The model is destroyed.                                                 *)

(* The buffers ~Qwen3Model does not know of.                               *)
Strays == {"plane", "mrope", "t_table"} \cup (IF LayerJoined THEN {} ELSE {"gamma", "wq"})

(* What ~Qwen3Model releases, in order.                                    *)
ModelList ==
  <<held["x"], held["rope"], held["kv"], held["norm"]>> \o LayersList
    \o (IF Tied THEN << >> ELSE <<Ours("head")>>) \o <<Ours("embd")>>

(* An owner's own places, and nothing else's. *)
LEMMA OursOwns ==
  ASSUME held \in [AllBuffers -> Nat]
  PROVE  /\ Owners(held, form)["embd"] = Ours("embd") /\ (\A w \in Matrices : Owners(held, form)[w] = Ours(w))
         /\ ~Tied => Owners(held, form)["head"] = Ours("head")
         /\ Tied => Owners(held, form)["head"] = 0
         /\ \A w \in Weights : Ours(w) \in Nat /\ held[w] \in Nat
<1>1. \A w \in Weights : held[w] \in Nat
  BY DEF AllBuffers, Buffers
<1>2. \A w \in Matrices : Ours(w) = IF form[w] = "spent" THEN 0 ELSE held[w]
  BY DEF Ours
<1> QED
  BY <1>1, <1>2, OwnersAre DEF Ours, Tied, Weights

(* The list names each buffer of the model once, and none of the strays. *)
LEMMA ModelListed ==
  ASSUME held \in [AllBuffers -> Nat], NEW own, own \in [Names -> Nat],
         \A b \in Names \ TowerParts : own[b] = Owners(held, form)[b], \A b \in TowerParts : own[b] = 0
  PROVE  Covers(own, ModelList, Names \ Strays)
<1> DEFINE p == <<held["x"], held["rope"], held["kv"], held["norm"]>>
           q == LayersList
           r == IF Tied THEN << >> ELSE <<Ours("head")>>
           e == <<Ours("embd")>>
           g == {"x", "rope", "kv", "norm"}
           h == IF LayerJoined THEN {"gamma", "wq", "w_down"} ELSE {"w_down"}
<1>1. /\ own["x"] = held["x"] /\ own["rope"] = held["rope"] /\ own["kv"] = held["kv"] /\ own["norm"] = held["norm"]
      /\ own["gamma"] = held["gamma"] /\ own["wq"] = Ours("wq") /\ own["w_down"] = Ours("w_down")
      /\ own["embd"] = Ours("embd") /\ (~Tied => own["head"] = Ours("head")) /\ (Tied => own["head"] = 0)
      /\ own["spare"] = 0
  <2>1. {"x", "rope", "kv", "norm", "gamma", "wq", "w_down", "embd", "head", "spare"} \subseteq Names \ TowerParts
        /\ {"x", "rope", "kv", "norm", "gamma"} \subseteq AllBuffers \ Weights /\ {"wq", "w_down"} = Matrices
    BY DEF Names, AllBuffers, Buffers, TowerBuffers, Weights, Matrices, TowerParts
  <2> QED
    BY <2>1, OwnersAre, OursOwns
<1>2. /\ \A b \in Names : own[b] \in Nat
      /\ \A b \in {"x", "rope", "kv", "norm", "gamma", "wq", "w_down", "embd", "head"} : b \in Names
  BY DEF Names, Buffers, Weights, Matrices
<1>3. Covers(own, p, g)
  <2> DEFINE n1 == "x"
             n2 == "rope"
             n3 == "kv"
             n4 == "norm"
  <2>1. n1 # n2 /\ n1 # n3 /\ n1 # n4 /\ n2 # n3 /\ n2 # n4 /\ n3 # n4 /\ own[n1] \in Nat /\ own[n2] \in Nat
        /\ own[n3] \in Nat /\ own[n4] \in Nat
    BY <1>2
  <2>2. p = <<own[n1], own[n2], own[n3], own[n4]>> /\ g = {n1, n2, n3, n4}
    BY <1>1
  <2> HIDE DEF n1, n2, n3, n4, p, g
  <2> QED
    BY <2>1, <2>2, CoverFour
<1>4. Covers(own, q, h)
  <2>1. CASE LayerJoined
    <3>1. Covers(own, <<own["gamma"], own["wq"], own["w_down"]>>, {"gamma", "wq", "w_down"})
      <4> DEFINE n1 == "gamma"
                 n2 == "wq"
                 n3 == "w_down"
      <4>1. n1 # n2 /\ n1 # n3 /\ n2 # n3 /\ own[n1] \in Nat /\ own[n2] \in Nat /\ own[n3] \in Nat
        BY <1>2
      <4> HIDE DEF n1, n2, n3
      <4>2. Covers(own, <<own[n1], own[n2], own[n3]>>, {n1, n2, n3})
        BY <4>1, CoverThree
      <4> QED
        BY <4>2 DEF n1, n2, n3
    <3> QED
      BY <1>1, <2>1, <3>1 DEF LayersList
  <2>2. CASE ~LayerJoined
    <3>1. own["w_down"] = 0
      BY <1>1, <2>2 DEF LayerJoined, Ours
    <3> QED
      BY <2>2, <3>1, CoverNone DEF LayersList
  <2> QED
    BY <2>1, <2>2
<1>5. Covers(own, r, {"head"})
  <2>1. CASE Tied
    BY <1>1, <2>1, CoverNone
  <2>2. CASE ~Tied
    BY <1>1, <1>2, <2>2, CoverOne
  <2> QED
    BY <2>1, <2>2
<1>6. Covers(own, e, {"embd"})
  BY <1>1, <1>2, CoverOne
<1>7. ModelList = ((p \o q) \o r) \o e
  BY DEF ModelList
<1>8. g \cap h = {} /\ (g \cup h) \cap {"head"} = {} /\ ((g \cup h) \cup {"head"}) \cap {"embd"} = {}
  OBVIOUS
<1>9. \A n \in Names \ Strays : n \in ((g \cup h) \cup {"head"}) \cup {"embd"} \/ own[n] = 0
  BY <1>1 DEF Names, Strays, Buffers, TowerBuffers, Weights, Matrices, TowerParts
<1>10. ((g \cup h) \cup {"head"}) \cup {"embd"} \subseteq Names \ Strays
  BY <1>2 DEF Strays
<1> HIDE DEF p, q, r, e, g, h
<1>11. Covers(own, p \o q, g \cup h)
  BY <1>3, <1>4, <1>8, CoverBoth
<1>12. Covers(own, (p \o q) \o r, (g \cup h) \cup {"head"})
  BY <1>5, <1>8, <1>11, CoverBoth
<1>13. Covers(own, ((p \o q) \o r) \o e, ((g \cup h) \cup {"head"}) \cup {"embd"})
  BY <1>6, <1>8, <1>12, CoverBoth
<1> QED
  BY <1>7, <1>9, <1>10, <1>13, CoverMore

(* Only the strays' places, and the planes', are left. *)
LEMMA ModelGone ==
  ASSUME held \in [AllBuffers -> Nat], TowerLeft
  PROVE  /\ \A x \in Live(Destroyed) : x \in Left \/ \E k \in DOMAIN Destroyed.planes : x = Destroyed.planes[k]
         /\ Destroyed.twice => tower.regrown
<1> DEFINE all == Owners(held, form)
           bare == Without(all, TowerParts)
           own == Without(all, TowerGone)
           places == ModelList
           stay == Strays \cup (IF tower.regrown THEN {"t_scores"} ELSE {})
           gone == Names \ stay
           e == ReleasedAll(dev, places)
           w == Without(own, gone)
<1>1. TowerParts \subseteq Names /\ all \in [Names -> Nat] /\ Destroyed = e
      /\ TowerGone = (IF tower.regrown THEN TowerParts \ {"t_scores"} ELSE TowerParts)
  BY OwnersAre DEF TowerParts, Names, TowerBuffers, TowerGone, Destroyed, ModelList
<1>2. Left = {held[b] : b \in stay}
  BY DEF Left, Strays
<1>3. \A n \in stay : n \in Names /\ (all[n] = held[n] \/ all[n] = 0)
  <2>1. stay \subseteq {"plane", "mrope", "t_table", "gamma", "t_scores", "wq"}
    BY DEF Strays
  <2>2. {"plane", "mrope", "t_table", "gamma", "t_scores"} \subseteq AllBuffers \ Weights /\ "wq" \in Matrices
        /\ {"plane", "mrope", "t_table", "gamma", "t_scores", "wq"} \subseteq Names
    BY DEF AllBuffers, Buffers, TowerBuffers, Weights, Matrices, Names
  <2> QED
    BY <2>1, <2>2, OwnersAre
<1>4. Strays \subseteq stay /\ (tower.regrown => "t_scores" \in stay)
  OBVIOUS
<1> HIDE DEF all, places, stay
<1>5. /\ bare \in [Names -> Nat] /\ own \in [Names -> Nat] /\ w \in [Names -> Nat]
      /\ \A n \in Names : /\ bare[n] = IF n \in TowerParts THEN 0 ELSE all[n]
                          /\ own[n] = IF n \in TowerGone THEN 0 ELSE all[n]
                          /\ w[n] = IF n \in stay THEN own[n] ELSE 0
  BY <1>1 DEF Without
<1> HIDE DEF bare, own, w
<1>6. Covers(bare, places, Names \ Strays)
  BY <1>1, <1>5, ModelListed DEF all, places
<1>7. NamedAll(own, places, gone)
  <2>1. NamedAll(bare, places, Names \ Strays)
    BY <1>6, CoversGives
  <2>2. ASSUME NEW n \in gone PROVE n \in Names \ Strays /\ own[n] = bare[n]
    <3>1. n \in Names /\ n \notin Strays /\ (tower.regrown => n # "t_scores")
      BY <1>4
    <3> QED
      BY <1>1, <1>5, <3>1
  <2> QED
    BY <2>1, <2>2 DEF NamedAll
<1>8. Loose(e, w)
  BY <1>7, LooseLoses DEF TowerLeft, own, all, w
<1> HIDE DEF e
<1>9. ASSUME NEW x \in Live(e) PROVE x \in {held[b] : b \in stay} \/ \E k \in DOMAIN e.planes : x = e.planes[k]
  <2>1. x \in Nat /\ x # 0 /\ Holds(e, x) # Free
    <3>1. x \in DOMAIN e.heap /\ e.heap[x] # Free
      BY DEF Live
    <3>2. DOMAIN e.heap = 1 .. Len(e.heap) /\ Len(e.heap) \in Nat
      BY <1>8, HeapFacts DEF Loose
    <3> QED
      BY <3>1, <3>2 DEF Holds
  <2>2. Claimed(e, w, x)
    BY <1>8, <2>1 DEF Loose
  <2>3. ASSUME NEW n \in Names, w[n] = x PROVE x \in {held[b] : b \in stay}
    <3>1. n \in stay /\ held[n] = x
      BY <1>3, <1>5, <2>1, <2>3
    <3> QED
      BY <3>1
  <2> QED
    BY <2>2, <2>3 DEF Claimed
<1>10. ASSUME ~tower.regrown PROVE ~e.twice
  <2>1. PICK con, pc : Tidy(dev, bare, con, pc)
    BY <1>10 DEF TowerLeft, Parted, bare, all
  <2> DEFINE h == Names \ Strays
  <2>2. h \subseteq Names /\ Covers(bare, places, h)
    BY <1>6
  <2> HIDE DEF h
  <2>3. Tidy(ReleasedAll(dev, places), Without(bare, h), con, pc)
    BY <2>1, <2>2, GoneAll
  <2> QED
    BY <2>3 DEF Tidy, e
<1> QED
  BY <1>1, <1>2, <1>9, <1>10

(* ~Qwen3Model: what stays is what it does not know of, and the planes. *)
LEMMA DestroyStep ==
  ASSUME SessionInv, Destroy, UNCHANGED tower
  PROVE  SessionInv'
<1>1. Types /\ TowerOK /\ Stage /\ held \in [AllBuffers -> Nat]
  BY DEF SessionInv, Types
<1>2. todo' = << >> /\ TowerLeft
  <2>1. Step("destroy")
    BY DEF Destroy
  <2> DEFINE n == "destroy"
  <2>2. Step(n) /\ n \in {"kv", "grow_rope", "inputs", "layers", "logits", "reserve_kv", "destroy_tower", "destroy"}
        /\ n # "destroy_tower"
    BY <2>1
  <2>3. \A j \in 1 .. 6 : n # CallSteps[j]
    BY ListsAre
  <2>4. \A j \in 1 .. 2 : n # ReserveSteps[j]
    BY ListsAre
  <2> HIDE DEF n
  <2> QED
    BY <1>1, <2>2, <2>3, <2>4, Standing, LoadsApart
<1>3. dev' = Destroyed /\ phase' = "closed" /\ reads' = {} /\ UNCHANGED <<shape, call, held, form, rows, tower>>
  BY DEF Destroy
<1>5. ClosedGivesBack'
  <2> DEFINE d == Destroyed
  <2>1. Left' = Left /\ tower' = tower
    BY <1>3 DEF Left, LayerJoined
  <2>2. /\ \A x \in Live(d) : x \in Left \/ \E k \in DOMAIN d.planes : x = d.planes[k]
        /\ d.twice => tower.regrown
    BY <1>1, <1>2, ModelGone
  <2> HIDE DEF d
  <2>3. Live(d) \subseteq Left' \cup {d.planes[k] : k \in DOMAIN d.planes} /\ (d.twice => tower'.regrown)
    BY <2>1, <2>2
  <2>4. dev' = d
    BY <1>3 DEF d
  <2> QED
    BY <2>3, <2>4 DEF ClosedGivesBack, Live
<1>6. Types' /\ TowerOK'
  BY <1>1, <1>3, Unmoved
<1>7. ReadsWhatItMeans'
  BY <1>3 DEF ReadsWhatItMeans
<1>8. Stage'
  BY <1>2, <1>3 DEF Stage
<1> QED
  BY <1>5, <1>6, <1>7, <1>8 DEF SessionInv

-----------------------------------------------------------------------------
(* The session, whole.                                                     *)

(* An empty device is in order, whoever owns nothing of it. *)
LEMMA NewTidy ==
  ASSUME NEW own, own \in [Names -> Nat], \A b \in Names : own[b] = 0, NEW con, con = [b \in Names |-> con[b]]
  PROVE  Tidy(NewDevice, own, con, << >>) /\ Live(NewDevice) = {} /\ NewDevice.twice = FALSE
         /\ DOMAIN NewDevice.planes = {} /\ NewDevice.spent = {}
<1> DEFINE d == NewDevice
           e == << >>
<1>1. d.heap = << >> /\ d.planes = << >> /\ d.spent = {} /\ d.twice = FALSE
      /\ d = [heap |-> d.heap, planes |-> d.planes, spent |-> d.spent, twice |-> d.twice]
  BY DEF NewDevice
<1>2. DOMAIN e = {} /\ e \in Seq({}) /\ e = [k \in {} |-> e[k]] /\ Range(e) = {}
  BY DEF Range
<1> HIDE DEF d, e
<1>3. DOMAIN d.planes = {} /\ DOMAIN d.heap = {} /\ HeapOK(d) /\ d.planes = [k \in DOMAIN d.planes |-> d.planes[k]]
      /\ d.planes = e
  BY <1>1, <1>2 DEF HeapOK, e
<1>4. \A x : Holds(d, x) = Free
  BY <1>3 DEF Holds
<1>5. \A b \in Names : Owns(d, own, con, b)
  BY DEF Owns
<1>6. Tidy(d, own, con, d.planes)
  BY <1>1, <1>3, <1>4, <1>5 DEF Tidy
<1>7. Live(d) = {}
  BY <1>3 DEF Live
<1> QED
  BY <1>1, <1>3, <1>6, <1>7 DEF d, e

(* Nothing is owned by a session that has bound nothing. *)
LEMMA NothingOwned ==
  ASSUME NEW h, h = [b \in AllBuffers |-> 0], NEW f
  PROVE  /\ h \in [AllBuffers -> Nat] /\ Owners(h, f) \in [Names -> Nat] /\ \A b \in Names : Owners(h, f)[b] = 0
         /\ \A b \in AllBuffers : h[b] = 0
<1>1. h \in [AllBuffers -> Nat] /\ \A b \in AllBuffers : h[b] = 0
  OBVIOUS
<1>2. Owners(h, f) \in [Names -> Nat]
  BY <1>1, OwnersAre
<1>3. ASSUME NEW b \in Names PROVE Owners(h, f)[b] = 0
  BY <1>1, BuffersAre DEF Owners
<1> QED
  BY <1>1, <1>2, <1>3

(* The state of a session that has loaded nothing, open or closed. *)
LEMMA Blank ==
  ASSUME dev = NewDevice, held = [b \in Buffers \cup TowerBuffers |-> 0], form = [w \in Weights |-> "none"],
         rows = [rope |-> 0, kv |-> 0], call = NoCall, reads = {}, tower = NoTower
  PROVE  Types /\ TowerOK /\ ReadsWhatItMeans /\ SoundNow /\ Fresh /\ Live(dev) = {} /\ ~dev.twice
         /\ \A b \in AllBuffers : held[b] = 0
<1> DEFINE own == Owners(held, form)
           con == [b \in Names |-> 0]
           e == << >>
<1>1. held = [b \in AllBuffers |-> 0]
  BY DEF AllBuffers
<1>2. held \in [AllBuffers -> Nat] /\ own \in [Names -> Nat] /\ (\A b \in Names : own[b] = 0)
      /\ \A b \in AllBuffers : held[b] = 0
  BY <1>1, NothingOwned
<1>3. con = [b \in Names |-> con[b]]
  OBVIOUS
<1>4. \A w \in Weights : form[w] = "none" /\ form[w] # "spent"
  OBVIOUS
<1> HIDE DEF own, con, e
<1>5. Tidy(dev, own, con, << >>) /\ Live(dev) = {} /\ dev.twice = FALSE /\ DOMAIN dev.planes = {} /\ dev.spent = {}
  BY <1>2, <1>3, NewTidy
<1>6. Tidy(dev, own, con, e)
  BY <1>5 DEF e
<1>7. \A b \in AllBuffers : own[b] # 0 => IsFor(b, con[b], form, rows, tower)
  BY <1>2, BuffersAre
<1>8. Sound(dev, held, form, con, e, rows, tower)
  BY <1>2, <1>4, <1>5, <1>6, <1>7, FreshSound DEF own
<1>9. SoundNow
  BY <1>8 DEF SoundNow
<1>10. Types
  <2>1. 1 \in DOMAIN Patches
    BY TowerAssumption
  <2>2. held["head"] = 0
    BY <1>2 DEF AllBuffers, Buffers, Weights, Matrices
  <2> QED
    BY <1>2, <1>4, <2>1, <2>2 DEF Types, NoTower, NoCall, Tied
<1>11. TowerOK
  <2>1. held["t_weight"] = 0 /\ held["t_scores"] = 0
    BY <1>2 DEF AllBuffers, TowerBuffers
  <2> QED
    BY <2>1 DEF TowerOK, NoTower, OwnedFirst, Owned
<1> QED
  BY <1>2, <1>4, <1>5, <1>9, <1>10, <1>11 DEF Fresh, ReadsWhatItMeans

(* A session that has loaded nothing satisfies the invariant, open or closed. *)
LEMMA SessionStarts ==
  ASSUME Init \/ NoSession
  PROVE  SessionInv
<1>1. /\ Types /\ TowerOK /\ ReadsWhatItMeans /\ SoundNow /\ Fresh /\ Live(dev) = {} /\ ~dev.twice
      /\ \A b \in AllBuffers : held[b] = 0
  BY Blank DEF Init, NoSession
<1>2. ClosedGivesBack
  BY <1>1 DEF ClosedGivesBack
<1>3. CASE NoSession
  BY <1>1, <1>2, <1>3 DEF NoSession, SessionInv, Stage
<1>4. CASE Init
  <2> DEFINE k == 1
  <2>1. HeldAt(k)
    BY <1>1 DEF HeldAt, AllBuffers, Buffers, TowerBuffers, Weights, Matrices
  <2>2. Loads \in Seq(StepNames) /\ (Len(Loads) = 9 \/ Len(Loads) = 11)
    BY LoadsAre
  <2>3. todo = Loads
    BY <1>4 DEF Init, Loads
  <2>4. Rest(Loads, k) = Loads
    <3> DEFINE s == Loads
               q == Rest(s, 1)
    <3>1. s \in Seq(StepNames)
      BY <2>2
    <3> HIDE DEF s
    <3>2. q \in Seq(StepNames) /\ Len(q) = Len(s) /\ \A i \in 1 .. Len(s) : q[i] = s[i]
      BY <3>1 DEF Rest
    <3> HIDE DEF q
    <3>3. q = s
      BY <3>1, <3>2, SeqEqual
    <3> QED
      BY <3>3 DEF q, s
  <2>5. LoadingAt(k) /\ k \in Nat
    <3> DEFINE n == Len(Loads)
    <3>1. n = 9 \/ n = 11
      BY <2>2
    <3> HIDE DEF n
    <3>2. k \in Nat /\ k \in 1 .. n
      BY <3>1
    <3>3. todo = Rest(Loads, k)
      BY <2>3, <2>4
    <3> HIDE DEF k
    <3> QED
      BY <1>1, <2>1, <3>2, <3>3 DEF LoadingAt, n
  <2> HIDE DEF k
  <2>6. Alive
    BY <2>5 DEF Alive
  <2> QED
    BY <1>1, <1>2, <1>4, <2>6 DEF Init, SessionInv, Stage
<1> QED
  BY <1>3, <1>4

(* A step of another part leaves the session as it is. *)
LEMMA SessionStutters ==
  ASSUME SessionInv, UNCHANGED vars
  PROVE  SessionInv'
<1>1. UNCHANGED <<shape, dev, held, form, rows, phase, todo, call, reads, calls, tower>>
  BY DEF vars, memory
<1>2. Types /\ TowerOK /\ Stage /\ ReadsWhatItMeans /\ ClosedGivesBack
  BY DEF SessionInv
<1>3. Types' /\ TowerOK' /\ (\A k \in 1 .. 12 : HeldAt(k) => HeldAt(k)')
  BY <1>1, <1>2, Unmoved
<1>4. ReadsWhatItMeans' /\ ClosedGivesBack'
  BY <1>1, <1>2 DEF ReadsWhatItMeans, ClosedGivesBack, Left, LayerJoined
<1>5. Stage'
  <2>1. Fresh' = Fresh
    BY <1>1 DEF Fresh
  <2>2. SoundNow <=> SoundNow'
    BY <1>1, SettledNow
  <2>3. TowerLeft => TowerLeft'
    <3>1. Parted => Parted'
      BY <1>1 DEF Parted
    <3> QED
      BY <1>1, <3>1 DEF TowerLeft, TowerGone
  <2>4. Loads' = Loads
    BY <1>1 DEF Loads, TowerSteps
  <2>5. ASSUME NEW k \in Nat, LoadingAt(k) PROVE LoadingAt(k)'
    <3>1. k \in 1 .. 12
      <4> DEFINE n == Len(Loads)
      <4>1. k \in 1 .. n
        BY <2>5 DEF LoadingAt
      <4>2. n = 9 \/ n = 11
        BY LoadsAre
      <4> HIDE DEF n
      <4> QED
        BY <4>1, <4>2
    <3> QED
      BY <1>1, <1>3, <2>1, <2>4, <2>5, <3>1 DEF LoadingAt, Rest
  <2>6. ASSUME NEW k \in Nat, CallingAt(k) PROVE CallingAt(k)'
    <3>1. HeldAt(12)'
      BY <1>3, <2>6 DEF CallingAt
    <3>2. InputsIn => InputsIn'
      BY <1>1 DEF InputsIn
    <3> QED
      BY <1>1, <2>6, <3>1, <3>2 DEF CallingAt, Rest, CallSteps
  <2>7. ASSUME NEW k \in Nat, ReservingAt(k) PROVE ReservingAt(k)'
    BY <1>1, <1>3, <2>7 DEF ReservingAt, Rest, ReserveSteps
  <2>8. Resting => Resting'
    BY <1>1, <1>3 DEF Resting
  <2>9. ClosingNow => ClosingNow'
    BY <1>1, <1>3 DEF ClosingNow, Closing, CloseSteps
  <2>10. Alive => Alive'
    BY <2>5, <2>6, <2>7, <2>8, <2>9 DEF Alive
  <2>11. CloseSteps' = CloseSteps
    BY DEF CloseSteps
  <2> QED
    BY <1>1, <1>2, <2>2, <2>3, <2>10, <2>11 DEF Stage
<1> QED
  BY <1>3, <1>4, <1>5 DEF SessionInv

(* A step of the text model. *)
LEMMA TextSteps ==
  ASSUME SessionInv, TextStep, UNCHANGED tower
  PROVE  SessionInv'
<1>1. CASE BindNorm("norm")
  <2> DEFINE b == "norm"
  <2>1. b \in {"norm", "gamma"} /\ BindNorm(b)
    BY <1>1
  <2> HIDE DEF b
  <2> QED
    BY <2>1, BindNormStep
<1>2. CASE BindNorm("gamma")
  <2> DEFINE b == "gamma"
  <2>1. b \in {"norm", "gamma"} /\ BindNorm(b)
    BY <1>2
  <2> HIDE DEF b
  <2> QED
    BY <2>1, BindNormStep
<1>3. CASE BindTable \/ BindHead \/ MaterializePacked
  BY <1>3, BindTableStep, BindHeadStep, MaterializeStep
<1>6. CASE BindMatrix("wq")
  <2> DEFINE b == "wq"
  <2>1. b \in Matrices /\ BindMatrix(b)
    BY <1>6 DEF Matrices
  <2> HIDE DEF b
  <2> QED
    BY <2>1, BindMatrixStep
<1>7. CASE BindMatrix("w_down")
  <2> DEFINE b == "w_down"
  <2>1. b \in Matrices /\ BindMatrix(b)
    BY <1>7 DEF Matrices
  <2> HIDE DEF b
  <2> QED
    BY <2>1, BindMatrixStep
<1>4. CASE BuildRope \/ EnsureCapacity \/ EnsureKv \/ EnsureKvThrows \/ GrowRopeTable \/ ReserveKv
  BY <1>4, BuildRopeStep, EnsureCapacityStep, EnsureKvStep, EnsureKvThrowsStep, GrowRopeTableStep, ReserveKvStep
<1>5. CASE Inputs \/ Layers \/ Logits \/ Destroy
  BY <1>5, InputsStep, LayersStep, LogitsStep, DestroyStep
<1> QED
  BY <1>1, <1>2, <1>3, <1>4, <1>5, <1>6, <1>7 DEF TextStep

(* Every step of a session keeps the invariant. *)
LEMMA SessionSteps ==
  ASSUME SessionInv, [Next]_vars
  PROVE  SessionInv'
<1>1. CASE TextStep /\ UNCHANGED tower
  BY <1>1, TextSteps
<1>2. CASE BindTowerWeight \/ AllocateActivations \/ AllocateBuffers \/ BindThrows \/ DestroyTower
  BY <1>2, BindTowerWeightStep, AllocateActivationsStep, AllocateBuffersStep, BindThrowsStep, DestroyTowerStep
<1>3. CASE Forward \/ ForwardSpan \/ Reserve \/ Encode \/ EncodeAudio \/ Close
  BY <1>3, ForwardStep, ForwardSpanStep, ReserveStep, EncodeStep, EncodeAudioStep, CloseStep
<1>4. CASE UNCHANGED vars
  BY <1>4, SessionStutters
<1> QED
  BY <1>1, <1>2, <1>3, <1>4 DEF Next

(* A session that has not begun to close is sound. *)
LEMMA AliveSound ==
  ASSUME SessionInv, phase # "closed", todo = << >> \/ Head(todo) \notin {"destroy_tower", "destroy"}
  PROVE  SoundNow
<1>1. todo # CloseSteps
  BY DEF CloseSteps
<1> QED
  BY <1>1 DEF SessionInv, Stage

(* While the session lives every live place has one owner. *)
LEMMA SessionOwns ==
  ASSUME SessionInv
  PROVE  OwnedOnce
<1> SUFFICES ASSUME phase # "closed", todo = << >> \/ Head(todo) \notin {"destroy_tower", "destroy"}
             PROVE  /\ Live(dev) = {held[b] : b \in Handles} \cup {dev.planes[k] : k \in DOMAIN dev.planes}
                    /\ \A b, c \in Handles : held[b] = held[c] => b = c
                    /\ \A b \in Handles, k \in DOMAIN dev.planes : held[b] # dev.planes[k]
                    /\ ~dev.twice
  BY DEF OwnedOnce
<1>1. held \in [AllBuffers -> Nat]
  BY DEF SessionInv, Types
<1> DEFINE own == Owners(held, form)
<1>2. PICK con, pc : Sound(dev, held, form, con, pc, rows, tower)
  BY AliveSound DEF SoundNow
<1>3. Tidy(dev, own, con, pc)
  BY <1>2 DEF Sound
<1>4. \A b \in Handles : b \in Names /\ own[b] = held[b] /\ held[b] # 0
  <2>1. ASSUME NEW b \in Handles PROVE b \in Names /\ own[b] = held[b] /\ held[b] # 0
    <3>1. b \in AllBuffers /\ held[b] # 0 /\ ~(b = "head" /\ Tied) /\ (b \in Weights => form[b] # "spent")
      BY <1>1 DEF Handles
    <3>2. b \in Names /\ b # "spare"
      BY <3>1, BuffersAre
    <3> QED
      BY <3>1, <3>2 DEF Owners, Tied
  <2> QED
    BY <2>1
<1>5. \A b \in Names : own[b] # 0 => b \in Handles
  <2>1. ASSUME NEW b \in Names, own[b] # 0 PROVE b \in Handles
    <3>1. b # "spare" /\ own[b] = held[b] /\ ~(b = "head" /\ held["head"] = held["embd"])
          /\ (b \in Weights => form[b] # "spent")
      BY <2>1 DEF Owners
    <3>2. b \in AllBuffers
      BY <3>1, BuffersAre
    <3> QED
      BY <1>1, <2>1, <3>1, <3>2 DEF Handles, Tied
  <2> QED
    BY <2>1
<1> HIDE DEF own
<1>6. ASSUME NEW x \in Live(dev) PROVE x \in {held[b] : b \in Handles} \cup {dev.planes[k] : k \in DOMAIN dev.planes}
  <2>1. x \in Nat /\ x # 0 /\ Holds(dev, x) # Free
    <3>1. x \in DOMAIN dev.heap /\ dev.heap[x] # Free
      BY DEF Live
    <3>2. DOMAIN dev.heap = 1 .. Len(dev.heap) /\ Len(dev.heap) \in Nat
      BY <1>3, HeapFacts DEF Tidy
    <3> QED
      BY <3>1, <3>2 DEF Holds
  <2>2. Claimed(dev, own, x)
    BY <1>3, <2>1 DEF Tidy
  <2>3. CASE \E b \in Names : own[b] = x
    <3>1. PICK b \in Names : own[b] = x
      BY <2>3
    <3>2. b \in Handles /\ held[b] = x
      BY <1>4, <1>5, <2>1, <3>1
    <3> QED
      BY <3>2
  <2>4. CASE \E k \in DOMAIN dev.planes : dev.planes[k] = x
    BY <2>4
  <2> QED
    BY <2>2, <2>3, <2>4 DEF Claimed
<1>7. ASSUME NEW b \in Handles PROVE held[b] \in Live(dev)
  <2>1. Holds(dev, held[b]) # Free
    BY <1>3, <1>4 DEF Tidy, Owns
  <2> QED
    BY <2>1 DEF Holds, Live
<1>8. ASSUME NEW k \in DOMAIN dev.planes PROVE dev.planes[k] \in Live(dev)
  <2>1. Holds(dev, dev.planes[k]) # Free
    BY <1>3 DEF Tidy, Keeps
  <2> QED
    BY <2>1 DEF Holds, Live
<1>9. ASSUME NEW b \in Handles, NEW c \in Handles, held[b] = held[c] PROVE b = c
  BY <1>3, <1>4, <1>9 DEF Tidy
<1>10. ASSUME NEW b \in Handles, NEW k \in DOMAIN dev.planes PROVE held[b] # dev.planes[k]
  BY <1>3, <1>4 DEF Tidy, Keeps
<1>11. ~dev.twice
  BY <1>3 DEF Tidy
<1>12. Live(dev) = {held[b] : b \in Handles} \cup {dev.planes[k] : k \in DOMAIN dev.planes}
  BY <1>6, <1>7, <1>8
<1> QED
  BY <1>9, <1>10, <1>11, <1>12

-----------------------------------------------------------------------------
(* The runs: a session or an engine.                                       *)

(* The engine starts sound in both kinds of run. *)
LEMMA MemoryStarts == MemoryInit => WholeInv
<1> SUFFICES ASSUME MemoryInit PROVE WholeInv
  OBVIOUS
<1>1. CASE EngineInit
  BY <1>1, WholeStarts
<1>2. CASE NoEngine
  <2>1. graph \in Graphs
    BY <1>2, InstancesAssumption DEF NoEngine
  <2> QED
    BY <1>2, <2>1, WholeStarts DEF NoEngine
<1> QED
  BY <1>1, <1>2 DEF MemoryInit

(* And stays so. *)
LEMMA MemorySteps == ASSUME WholeInv, [MemoryNext]_allvars PROVE WholeInv'
<1>1. [EngineNext]_engine
  BY DEF MemoryNext, allvars, engine
<1> QED
  BY <1>1, WholeStep

(* The memory the first run takes is what plan_memory said, and the regions of
   plan_execution compose to the graph (engine/memory.py, engine/planner.py). *)
THEOREM MemoryPlanned == MemorySpec => []RunsAsPlanned
<1>1. MemoryInit => WholeInv
  BY MemoryStarts
<1>2. WholeInv /\ [MemoryNext]_allvars => WholeInv'
  BY MemorySteps
<1>3. WholeInv => RunsAsPlanned
  BY WholeMeans
<1> QED
  BY <1>1, <1>2, <1>3, PTL DEF MemorySpec

(* The session starts sound in both kinds of run. *)
LEMMA MemoryOpens == MemoryInit => SessionInv
<1>1. MemoryInit => Init \/ NoSession
  BY DEF MemoryInit
<1> QED
  BY <1>1, SessionStarts

(* And stays so. *)
LEMMA MemoryServes == ASSUME SessionInv, [MemoryNext]_allvars PROVE SessionInv'
<1>1. [Next]_vars
  BY DEF MemoryNext, allvars
<1> QED
  BY <1>1, SessionSteps

(* A weight, a norm, a table, the cache, an input or a value of a graph is
   read as it was written, and in the form that is asked for, whatever was
   repacked, decoded, given back, regrown or reused before (Qwen3Model, the
   towers and the backends' planes; engine/executor.py): for every set of
   checkpoints, capacity, patches, positions, graphs and number of calls. *)
THEOREM MemoryReads == MemorySpec => []ReadsAreTrue
<1>1. MemoryInit => SessionInv /\ WholeInv
  BY MemoryOpens, MemoryStarts
<1>2. SessionInv /\ WholeInv /\ [MemoryNext]_allvars => SessionInv' /\ WholeInv'
  BY MemoryServes, MemorySteps
<1>3. SessionInv /\ WholeInv => ReadsAreTrue
  BY WholeMeans DEF SessionInv, ReadsAreTrue
<1> QED
  BY <1>1, <1>2, <1>3, PTL DEF MemorySpec

(* Until a session begins to release, every live place of its device is that
   of one handle or of one plane, and of no other; a buffer of the engine's
   arena has one owner. *)
THEOREM MemoryOwned == MemorySpec => []OneOwner
<1>1. MemoryInit => SessionInv /\ WholeInv
  BY MemoryOpens, MemoryStarts
<1>2. SessionInv /\ WholeInv /\ [MemoryNext]_allvars => SessionInv' /\ WholeInv'
  BY MemoryServes, MemorySteps
<1>3. SessionInv /\ WholeInv => OneOwner
  BY WholeMeans, SessionOwns DEF OneOwner
<1> QED
  BY <1>1, <1>2, <1>3, PTL DEF MemorySpec

(* A close, of a loaded session or of a load that threw at any tensor, leaves
   the planes and no more than the buffers the destructors do not know of:
   the per-token table, the deepstack planes, the resampled positions, what
   was bound of a layer that never joined layers_, and the scratch of a tower
   that replaced its first.  It releases no place twice, save the first
   scratch of such a tower (~Qwen3Model, ~Qwen3VlVision, ~Qwen3Audio).
   Closing the engine frees each of its buffers once (engine/executor.py). *)
THEOREM MemoryReturned == MemorySpec => []GivesBackOnce
<1>1. MemoryInit => SessionInv /\ WholeInv
  BY MemoryOpens, MemoryStarts
<1>2. SessionInv /\ WholeInv /\ [MemoryNext]_allvars => SessionInv' /\ WholeInv'
  BY MemoryServes, MemorySteps
<1>3. SessionInv /\ WholeInv => GivesBackOnce
  BY WholeMeans DEF SessionInv, GivesBackOnce
<1> QED
  BY <1>1, <1>2, <1>3, PTL DEF MemorySpec
=============================================================================
