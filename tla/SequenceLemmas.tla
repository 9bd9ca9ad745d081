---------------------------- MODULE SequenceLemmas ----------------------------
(***************************************************************************)
(* What the proofs about packed batches, watched streams, decoded texts    *)
(* and arenas share: least elements, prefixes, sequences put one after     *)
(* another, and sums over finite sets.                                     *)
(* FlattenSeq of the community modules is a recursive function, so what it *)
(* yields is shown by the least length that would be an exception.         *)
(***************************************************************************)
EXTENDS Integers, SequencesExt, TLAPS, WellFoundedInduction, SequenceTheorems, FiniteSetTheorems

(* A nonempty set of numbers has a least one.                              *)
LEMMA LeastExists ==
  ASSUME NEW T, T \subseteq Nat, T # {}
  PROVE  \E x \in T : \A y \in T : x <= y
<1>1. \E x \in T : \A y \in T : ~ (<<y, x>> \in OpToRel(<, Nat))
  BY NatLessThanWellFounded, WFMin
<1>2. \A x, y \in Nat : <<y, x>> \in OpToRel(<, Nat) <=> y < x
  BY DEF OpToRel
<1>3. PICK x \in T : \A y \in T : ~ (<<y, x>> \in OpToRel(<, Nat))
  BY <1>1
<1>4. \A y \in T : ~ (y < x)
  BY <1>2, <1>3, Zenon
<1>5. \A y \in T : x \in Nat /\ y \in Nat
  OBVIOUS
<1> QED
  BY <1>4, <1>5

(* A function on 1 .. n is a sequence.                                     *)
LEMMA FunctionIsSeq ==
  ASSUME NEW S, NEW n \in Nat, NEW f \in [1 .. n -> S]
  PROVE  f \in Seq(S) /\ Len(f) = n
OBVIOUS

(* The places of two sequences joined.                                     *)
LEMMA Joined ==
  ASSUME NEW S, NEW u \in Seq(S), NEW v \in Seq(S)
  PROVE  /\ u \o v \in Seq(S) /\ Len(u \o v) = Len(u) + Len(v) /\ Len(u) \in Nat /\ Len(v) \in Nat
         /\ \A i \in 1 .. Len(u) : (u \o v)[i] = u[i]
         /\ \A i \in 1 .. Len(v) : (u \o v)[Len(u) + i] = v[i]
<1>1. Len(u) \in Nat /\ Len(v) \in Nat /\ u \o v \in Seq(S) /\ Len(u \o v) = Len(u) + Len(v)
  OBVIOUS
<1>2. \A i \in 1 .. Len(u) + Len(v) : (u \o v)[i] = IF i <= Len(u) THEN u[i] ELSE v[i - Len(u)]
  BY ConcatProperties
<1>3. \A i \in 1 .. Len(v) : Len(u) + i \in 1 .. Len(u) + Len(v) /\ ~(Len(u) + i <= Len(u))
                             /\ (Len(u) + i) - Len(u) = i
  BY <1>1
<1> QED
  BY <1>1, <1>2, <1>3

(* A sequence made of two, place by place.                                 *)
LEMMA MadeOfTwo ==
  ASSUME NEW S, NEW p \in Seq(S), NEW q \in Seq(S), NEW r \in Seq(S), Len(r) = Len(p) + Len(q),
         \A i \in 1 .. Len(p) : r[i] = p[i], \A i \in 1 .. Len(q) : r[Len(p) + i] = q[i]
  PROVE  r = p \o q
<1> DEFINE w == p \o q
<1>1. /\ w \in Seq(S) /\ Len(w) = Len(p) + Len(q) /\ Len(p) \in Nat /\ Len(q) \in Nat
      /\ \A i \in 1 .. Len(p) : w[i] = p[i]
      /\ \A i \in 1 .. Len(q) : w[Len(p) + i] = q[i]
  BY Joined
<1> HIDE DEF w
<1>2. ASSUME NEW i \in 1 .. Len(r) PROVE r[i] = w[i]
  <2>1. CASE i <= Len(p)
    BY <1>1, <2>1
  <2>2. CASE ~(i <= Len(p))
    <3>1. i - Len(p) \in 1 .. Len(q) /\ Len(p) + (i - Len(p)) = i
      BY <1>1, <2>2
    <3>2. r[Len(p) + (i - Len(p))] = w[Len(p) + (i - Len(p))]
      BY <1>1, <3>1
    <3> QED
      BY <3>1, <3>2
  <2> QED
    BY <2>1, <2>2
<1>3. r = w
  BY <1>1, <1>2, SeqEqual
<1> QED
  BY <1>3 DEF w

-----------------------------------------------------------------------------
(* Sequences packed one after another.                                     *)

(* Flattening m sequences, as a function of how many.                      *)
Flattens(seqs, m, f) ==
  f = [i \in 1 .. m |-> IF i = 1 THEN seqs[i] ELSE f[i - 1] \o seqs[i]]

(* There is such a function, by the least m that would have none.          *)
LEMMA FlatExists ==
  ASSUME NEW seqs, NEW n \in Nat
  PROVE  \E f : Flattens(seqs, n, f)
<1> DEFINE Bad == {m \in Nat : ~ \E f : Flattens(seqs, m, f)}
<1> SUFFICES ASSUME Bad # {} PROVE FALSE
  OBVIOUS
<1>1. PICK m \in Bad : \A y \in Bad : m <= y
  <2>1. Bad \subseteq Nat
    OBVIOUS
  <2> HIDE DEF Bad
  <2> QED
    BY <2>1, LeastExists
<1>2. m \in Nat /\ ~ \E f : Flattens(seqs, m, f)
  BY <1>1
<1>3. CASE m = 0
  <2>1. Flattens(seqs, 0, << >>)
    BY DEF Flattens
  <2> QED
    BY <1>2, <1>3, <2>1
<1>4. CASE m # 0
  <2>1. m - 1 \in Nat /\ ~(m <= m - 1)
    BY <1>2, <1>4
  <2>2. m - 1 \notin Bad
    BY <1>1, <2>1
  <2>3. PICK f : Flattens(seqs, m - 1, f)
    BY <2>1, <2>2
  <2> DEFINE g == [i \in 1 .. m |-> IF i = m THEN (IF m = 1 THEN seqs[m] ELSE f[m - 1] \o seqs[m])
                                   ELSE f[i]]
  <2>4. ASSUME NEW i \in 1 .. m
        PROVE  g[i] = IF i = 1 THEN seqs[i] ELSE g[i - 1] \o seqs[i]
    <3>1. CASE i = m
      <4>1. m # 1 => m - 1 \in 1 .. m /\ m - 1 # m
        BY <1>2, <1>4
      <4>2. m # 1 => g[m - 1] = f[m - 1]
        BY <4>1
      <4>3. g[m] = IF m = 1 THEN seqs[m] ELSE f[m - 1] \o seqs[m]
        BY <1>2, <1>4
      <4> HIDE DEF g
      <4> QED
        BY <3>1, <4>2, <4>3
    <3>2. CASE i # m
      <4>1. i \in 1 .. m - 1 /\ (i # 1 => i - 1 \in 1 .. m - 1)
        BY <1>2, <3>2
      <4>2. f[i] = IF i = 1 THEN seqs[i] ELSE f[i - 1] \o seqs[i]
        BY <2>3, <4>1, Zenon DEF Flattens
      <4>3. g[i] = f[i] /\ (i # 1 => g[i - 1] = f[i - 1])
        BY <1>2, <3>2, <4>1
      <4> HIDE DEF g
      <4> QED
        BY <4>2, <4>3
    <3> QED
      BY <3>1, <3>2
  <2>5. g = [i \in 1 .. m |-> IF i = 1 THEN seqs[i] ELSE g[i - 1] \o seqs[i]]
    <3>1. g = [i \in 1 .. m |-> g[i]]
      OBVIOUS
    <3> HIDE DEF g
    <3> QED
      BY <2>4, <3>1
  <2> HIDE DEF g
  <2> QED
    BY <1>2, <2>5 DEF Flattens
<1> QED
  BY <1>3, <1>4

(* Two of them agree as far as their sequences do.                         *)
Alike(seqs, more, m) == \A i \in 1 .. m : seqs[i] = more[i]

LEMMA FlatsAgree ==
  ASSUME NEW seqs, NEW more, NEW f, NEW g, NEW m \in Nat, NEW n \in Nat, m <= n,
         Alike(seqs, more, m), Flattens(seqs, m, f), Flattens(more, n, g)
  PROVE  \A i \in 1 .. m : f[i] = g[i]
<1> DEFINE Bad == {i \in 1 .. m : f[i] # g[i]}
<1> SUFFICES ASSUME Bad # {} PROVE FALSE
  OBVIOUS
<1>1. PICK i \in Bad : \A y \in Bad : i <= y
  <2>1. Bad \subseteq Nat
    OBVIOUS
  <2> HIDE DEF Bad
  <2> QED
    BY <2>1, LeastExists
<1>2. i \in 1 .. m /\ i \in 1 .. n /\ f[i] # g[i] /\ seqs[i] = more[i]
  BY <1>1 DEF Alike
<1>3. /\ f[i] = IF i = 1 THEN seqs[i] ELSE f[i - 1] \o seqs[i]
      /\ g[i] = IF i = 1 THEN more[i] ELSE g[i - 1] \o more[i]
  BY <1>2, Zenon DEF Flattens
<1>4. i # 1 => i - 1 \in 1 .. m /\ ~(i <= i - 1)
  BY <1>2
<1>5. i # 1 => f[i - 1] = g[i - 1]
  BY <1>1, <1>4
<1> QED
  BY <1>2, <1>3, <1>5

LEMMA FlattenLast ==
  ASSUME NEW n \in Nat \ {0}, NEW seqs, Len(seqs) = n, NEW f, Flattens(seqs, n, f)
  PROVE  FlattenSeq(seqs) = f[n]
<1> DEFINE g == CHOOSE h : Flattens(seqs, n, h)
<1>1. Flattens(seqs, n, g)
  OBVIOUS
<1>2. FlattenSeq(seqs) = g[n]
  <2>1. Len(seqs) = n /\ n # 0
    OBVIOUS
  <2> QED
    BY <2>1 DEF FlattenSeq, Flattens
<1> HIDE DEF g
<1>3. f[n] = g[n]
  <2>1. Alike(seqs, seqs, n) /\ n \in Nat /\ n <= n /\ n \in 1 .. n
    BY DEF Alike
  <2> QED
    BY <1>1, <2>1, FlatsAgree
<1> QED
  BY <1>2, <1>3

LEMMA FlattenEmpty == FlattenSeq(<< >>) = << >>
BY DEF FlattenSeq

(* The flattening of one sequence more.                                    *)
LEMMA FlattenMore ==
  ASSUME NEW S, NEW u, NEW w, NEW n \in Nat, Len(u) = n, Len(w) = n + 1, Alike(u, w, n),
         w[n + 1] \in Seq(S), u = << >> \/ n # 0
  PROVE  FlattenSeq(w) = FlattenSeq(u) \o w[n + 1]
<1>1. PICK f : Flattens(u, n, f)
  BY FlatExists
<1>2. PICK g : Flattens(w, n + 1, g)
  <2>1. n + 1 \in Nat
    OBVIOUS
  <2> QED
    BY <2>1, FlatExists
<1>3. FlattenSeq(w) = g[n + 1]
  <2>1. n + 1 \in Nat \ {0}
    OBVIOUS
  <2> QED
    BY <1>2, <2>1, FlattenLast
<1>4. g[n + 1] = IF n = 0 THEN w[n + 1] ELSE g[n] \o w[n + 1]
  <2>1. n + 1 \in 1 .. n + 1 /\ (n + 1) - 1 = n /\ (n + 1 = 1 <=> n = 0)
    OBVIOUS
  <2>2. g[n + 1] = IF n + 1 = 1 THEN w[n + 1] ELSE g[(n + 1) - 1] \o w[n + 1]
    BY <1>2, <2>1, Zenon DEF Flattens
  <2> QED
    BY <2>1, <2>2
<1>5. CASE n = 0
  <2>1. FlattenSeq(u) = << >>
    BY <1>5, FlattenEmpty
  <2>2. << >> \o w[n + 1] = w[n + 1]
    BY ConcatEmptySeq
  <2> QED
    BY <1>3, <1>4, <1>5, <2>1, <2>2
<1>6. CASE n # 0
  <2>1. n \in Nat \ {0} /\ n <= n + 1 /\ n \in 1 .. n /\ n + 1 \in Nat
    BY <1>6
  <2>2. FlattenSeq(u) = f[n]
    BY <1>1, <2>1, FlattenLast
  <2>4. f[n] = g[n]
    BY <1>1, <1>2, <2>1, FlatsAgree
  <2> QED
    BY <1>3, <1>4, <1>6, <2>2, <2>4
<1> QED
  BY <1>5, <1>6

(* The flattening of sequences is one, and grows with them.                *)
LEMMA FlattenIsSeq ==
  ASSUME NEW S, NEW u \in Seq(Seq(S))
  PROVE  FlattenSeq(u) \in Seq(S)
<1> DEFINE n == Len(u)
           T == Seq(S)
<1>1. n \in Nat /\ (n = 0 => u = << >>) /\ \A i \in 1 .. n : u[i] \in Seq(S)
  <2>1. u \in Seq(T)
    OBVIOUS
  <2> HIDE DEF T
  <2>2. n \in Nat /\ (n = 0 => u = << >>) /\ \A i \in 1 .. n : u[i] \in T
    BY <2>1, ElementOfSeq, EmptySeq
  <2> QED
    BY <2>2 DEF T
<1>2. CASE n = 0
  <2>1. u = << >> /\ << >> \in Seq(S)
    BY <1>1, <1>2
  <2> QED
    BY <2>1, FlattenEmpty
<1>3. CASE n # 0
  <2>1. PICK f : Flattens(u, n, f)
    BY <1>1, FlatExists
  <2>2. FlattenSeq(u) = f[n]
    BY <1>1, <1>3, <2>1, FlattenLast
  <2> DEFINE Bad == {i \in 1 .. n : f[i] \notin Seq(S)}
  <2> HIDE DEF n
  <2>3. Bad = {}
    <3> SUFFICES ASSUME Bad # {} PROVE FALSE
      OBVIOUS
    <3>1. PICK i \in Bad : \A y \in Bad : i <= y
      <4>1. Bad \subseteq Nat
        OBVIOUS
      <4> HIDE DEF Bad
      <4> QED
        BY <4>1, LeastExists
    <3>2. i \in 1 .. n /\ f[i] \notin Seq(S) /\ u[i] \in Seq(S)
      BY <1>1, <3>1
    <3>3. f[i] = IF i = 1 THEN u[i] ELSE f[i - 1] \o u[i]
      BY <2>1, <3>2, Zenon DEF Flattens
    <3>4. i # 1 => i - 1 \in 1 .. n /\ ~(i <= i - 1)
      BY <1>1, <3>2
    <3>5. i # 1 => f[i - 1] \in Seq(S)
      BY <3>1, <3>4
    <3> QED
      BY <3>2, <3>3, <3>5, ConcatProperties
  <2>4. n \in 1 .. n
    BY <1>1, <1>3
  <2> QED
    BY <2>2, <2>3, <2>4
<1> QED
  BY <1>2, <1>3

LEMMA FlattenAppend ==
  ASSUME NEW S, NEW u \in Seq(Seq(S)), NEW x \in Seq(S)
  PROVE  FlattenSeq(Append(u, x)) = FlattenSeq(u) \o x
<1> DEFINE n == Len(u)
           w == Append(u, x)
<1>1. /\ n \in Nat /\ (n = 0 => u = << >>) /\ Len(w) = n + 1 /\ w[n + 1] = x
      /\ \A i \in 1 .. n : u[i] = w[i]
  BY AppendProperties, EmptySeq
<1> HIDE DEF n, w
<1>2. Alike(u, w, n) /\ Len(u) = n
  BY <1>1 DEF Alike, n
<1>3. w[n + 1] \in Seq(S) /\ (u = << >> \/ n # 0)
  BY <1>1
<1>4. FlattenSeq(w) = FlattenSeq(u) \o w[n + 1]
  <2>1. n \in Nat /\ Len(u) = n /\ Len(w) = n + 1 /\ Alike(u, w, n)
    BY <1>1, <1>2
  <2> QED
    BY <2>1, <1>3, FlattenMore
<1> QED
  BY <1>1, <1>4 DEF w

LEMMA SubSeqAppend ==
  ASSUME NEW S, NEW v \in Seq(S), NEW m \in 1 .. Len(v)
  PROVE  SubSeq(v, 1, m) = Append(SubSeq(v, 1, m - 1), v[m])
OBVIOUS

(* Sequences put one after another in two parts.                           *)
LEMMA FlattenJoins ==
  ASSUME NEW S, NEW u \in Seq(Seq(S)), NEW v \in Seq(Seq(S))
  PROVE  FlattenSeq(u \o v) = FlattenSeq(u) \o FlattenSeq(v)
<1> DEFINE T == Seq(S)
           first(m) == SubSeq(v, 1, m)
           Good(m) == FlattenSeq(u \o first(m)) = FlattenSeq(u) \o FlattenSeq(first(m))
           Bad == {m \in 0 .. Len(v) : ~Good(m)}
<1>1. u \in Seq(T) /\ v \in Seq(T) /\ Len(v) \in Nat
  OBVIOUS
<1>2. FlattenSeq(u) \in Seq(S)
  BY FlattenIsSeq
<1>3. Bad = {}
  <2> SUFFICES ASSUME Bad # {} PROVE FALSE
    OBVIOUS
  <2>1. PICK m \in Bad : \A y \in Bad : m <= y
    <3>1. Bad \subseteq Nat
      OBVIOUS
    <3> HIDE DEF Bad
    <3> QED
      BY <3>1, LeastExists
  <2>2. m \in 0 .. Len(v) /\ ~Good(m)
    BY <2>1
  <2>3. CASE m = 0
    <3>1. first(m) = << >>
      BY <2>3, SubSeqEmpty
    <3>2. u \o << >> = u /\ FlattenSeq(u) \o << >> = FlattenSeq(u)
      BY <1>1, <1>2, ConcatEmptySeq
    <3> QED
      BY <2>2, <3>1, <3>2, FlattenEmpty
  <2>4. CASE m # 0
    <3> DEFINE k == m - 1
               x == v[m]
    <3>1. k \in 0 .. Len(v) /\ ~(m <= k) /\ k + 1 = m /\ m \in 1 .. Len(v)
      BY <1>1, <2>2, <2>4
    <3>2. Good(k)
      BY <2>1, <3>1
    <3>3. x \in T
      BY <1>1, <3>1, ElementOfSeq
    <3>4. first(k) \in Seq(T)
      BY <1>1, <3>1
    <3>5. first(m) = Append(first(k), x)
      BY <1>1, <3>1, SubSeqAppend
    <3> HIDE DEF first, k, x, T
    <3>6. u \o first(m) = Append(u \o first(k), x) /\ u \o first(k) \in Seq(T)
      <4> DEFINE y == first(k)
      <4>1. y \in Seq(T) /\ << x >> \in Seq(T) /\ first(m) = Append(y, x)
        BY <3>3, <3>4, <3>5
      <4> HIDE DEF y, Good, Bad
      <4>2. u \o y \in Seq(T)
        BY <1>1, <4>1, ConcatProperties
      <4>3. Append(y, x) = y \o << x >> /\ Append(u \o y, x) = (u \o y) \o << x >>
        BY <3>3, <4>1, <4>2, AppendIsConcat
      <4>4. (u \o y) \o << x >> = u \o (y \o << x >>)
        BY <1>1, <4>1
      <4> QED
        BY <4>1, <4>2, <4>3, <4>4 DEF y
    <3> USE DEF T
    <3>7. FlattenSeq(first(m)) = FlattenSeq(first(k)) \o x
      BY <3>3, <3>4, <3>5, FlattenAppend
    <3>8. FlattenSeq(u \o first(m)) = FlattenSeq(u \o first(k)) \o x
      BY <3>3, <3>6, FlattenAppend
    <3>9. FlattenSeq(first(k)) \in Seq(S)
      BY <3>4, FlattenIsSeq
    <3>10. (FlattenSeq(u) \o FlattenSeq(first(k))) \o x = FlattenSeq(u) \o (FlattenSeq(first(k)) \o x)
      <4> DEFINE a == FlattenSeq(u)
                 b == FlattenSeq(first(k))
      <4>1. a \in Seq(S) /\ b \in Seq(S) /\ x \in Seq(S)
        BY <1>2, <3>3, <3>9
      <4> HIDE DEF a, b, Good, Bad
      <4>2. (a \o b) \o x = a \o (b \o x)
        BY <4>1
      <4> QED
        BY <4>2 DEF a, b
    <3> QED
      BY <2>2, <3>2, <3>7, <3>8, <3>10
  <2> QED
    BY <2>3, <2>4
<1>4. Good(Len(v))
  BY <1>1, <1>3
<1>5. first(Len(v)) = v
  BY <1>1, SubSeqFull
<1> QED
  BY <1>4, <1>5

-----------------------------------------------------------------------------
(* Prefixes, place by place.                                               *)
Begins(s, t) == Len(s) <= Len(t) /\ \A i \in 1 .. Len(s) : t[i] = s[i]

LEMMA PrefixPlaces ==
  ASSUME NEW S, NEW s \in Seq(S), NEW t \in Seq(S)
  PROVE  IsPrefix(s, t) <=> Begins(s, t)
<1>1. Len(s) \in Nat /\ Len(t) \in Nat /\ SubSeq(s, 1, Len(s)) = s
  BY SubSeqFull
<1> DEFINE u == SubSeq(t, 1, Len(s))
<1>2. ASSUME Len(s) <= Len(t)
      PROVE  u \in Seq(S) /\ Len(u) = Len(s) /\ \A i \in 1 .. Len(s) : u[i] = t[i]
  BY <1>1, <1>2
<1> HIDE DEF u
<1>3. ASSUME Len(s) <= Len(t), \A i \in 1 .. Len(s) : t[i] = s[i] PROVE s = u
  BY <1>2, <1>3, SeqEqual
<1>4. ASSUME Len(s) <= Len(t), s = u PROVE \A i \in 1 .. Len(s) : t[i] = s[i]
  BY <1>2, <1>4
<1>5. IsPrefix(s, t) <=> Len(s) <= Len(t) /\ s = u
  BY <1>1 DEF IsPrefix, u
<1> QED
  BY <1>3, <1>4, <1>5 DEF Begins

LEMMA JoinedBegins ==
  ASSUME NEW S, NEW s \in Seq(S), NEW t \in Seq(S)
  PROVE  Begins(s, s \o t)
BY Joined DEF Begins

LEMMA BeginsItself == \A s : Len(s) \in Nat => Begins(s, s)
BY DEF Begins

LEMMA BeginsThrough ==
  ASSUME NEW S, NEW s \in Seq(S), NEW t \in Seq(S), NEW u \in Seq(S), Begins(s, t), Begins(t, u)
  PROVE  Begins(s, u)
<1>1. Len(s) \in Nat /\ Len(t) \in Nat /\ Len(u) \in Nat
  OBVIOUS
<1>2. \A i \in 1 .. Len(s) : i \in 1 .. Len(t)
  BY <1>1 DEF Begins
<1> QED
  BY <1>1, <1>2 DEF Begins

(* Steps that stay in a set, as far as n.                                  *)
Climbs(S, n) == 0 \in S /\ \A k \in 0 .. n - 1 : k \in S => k + 1 \in S

(* Induction as far as n.                                                   *)
LEMMA Climbed ==
  ASSUME NEW S, NEW n \in Nat, Climbs(S, n), NEW k \in 0 .. n
  PROVE  k \in S
<1> DEFINE Bad == {m \in 0 .. n : m \notin S}
<1> SUFFICES ASSUME Bad # {} PROVE FALSE
  OBVIOUS
<1>1. PICK m \in Bad : \A y \in Bad : m <= y
  <2>1. Bad \subseteq Nat
    OBVIOUS
  <2> HIDE DEF Bad
  <2> QED
    BY <2>1, LeastExists
<1>2. m \in 0 .. n /\ m \notin S
  OBVIOUS
<1>3. m # 0
  BY <1>2 DEF Climbs
<1>4. m - 1 \in 0 .. n - 1 /\ m - 1 \in 0 .. n /\ (m - 1) + 1 = m /\ ~(m <= m - 1)
  BY <1>2, <1>3
<1>5. m - 1 \in S
  BY <1>1, <1>4
<1> QED
  BY <1>2, <1>4, <1>5 DEF Climbs

-----------------------------------------------------------------------------
(* The sum of a function's values over a finite set: MapThenSumSet takes    *)
(* the elements in an order of its own, and is a recursive function on the  *)
(* subsets.                                                                 *)

(* The sum of f over S.                                                     *)
SumOf(f, S) == MapThenSumSet(LAMBDA b : f[b], S)

(* The element the fold takes first.                                        *)
Some(s) == CHOOSE x \in s : TRUE

(* h is what the fold's recursive function is, on the subsets in D.         *)
Totals(f, D, h) == h = [s \in D |-> IF s = {} THEN 0 ELSE f[Some(s)] + h[s \ {Some(s)}]]

(* The subsets of at most m elements. *)
NoLarger(S, m) == {s \in SUBSET S : Cardinality(s) <= m}

(* The chosen element of a set is in it. *)
LEMMA SomeIn == ASSUME NEW s, s # {} PROVE Some(s) \in s
BY DEF Some

(* A set without one of its elements has one element less. *)
LEMMA OneFewer ==
  ASSUME NEW S, IsFiniteSet(S), NEW s \in SUBSET S, NEW x \in s
  PROVE  /\ IsFiniteSet(s) /\ s \ {x} \in SUBSET S /\ Cardinality(s) \in Nat \ {0}
         /\ Cardinality(s \ {x}) = Cardinality(s) - 1
<1>1. IsFiniteSet(s)
  BY FS_Subset
<1>2. Cardinality(s) \in Nat /\ Cardinality(s \ {x}) = Cardinality(s) - 1
  BY <1>1, FS_CardinalityType, FS_RemoveElement
<1>3. Cardinality(s) # 0
  BY <1>1, FS_EmptySet
<1> QED
  BY <1>1, <1>2, <1>3

(* A function that sums the sets of up to m elements extends to those of m + 1. *)
LEMMA TotalsUpTo ==
  ASSUME NEW f, NEW S, IsFiniteSet(S), NEW n \in Nat
  PROVE  \E h : Totals(f, NoLarger(S, n), h)
<1> DEFINE Bad == {m \in Nat : ~ \E h : Totals(f, NoLarger(S, m), h)}
<1> SUFFICES ASSUME Bad # {} PROVE FALSE
  OBVIOUS
<1>1. PICK m \in Bad : \A y \in Bad : m <= y
  <2>1. Bad \subseteq Nat
    OBVIOUS
  <2> HIDE DEF Bad
  <2> QED
    BY <2>1, LeastExists
<1>2. m \in Nat /\ ~ \E h : Totals(f, NoLarger(S, m), h)
  BY <1>1
<1>3. CASE m = 0
  <2> DEFINE h == [s \in NoLarger(S, 0) |-> 0]
  <2>1. \A s \in NoLarger(S, 0) : s = {}
    <3>1. SUFFICES ASSUME NEW s \in SUBSET S, Cardinality(s) <= 0 PROVE s = {}
      BY DEF NoLarger
    <3>2. IsFiniteSet(s)
      BY FS_Subset
    <3> QED
      BY <3>1, <3>2, FS_CardinalityType, FS_EmptySet
  <2>2. Totals(f, NoLarger(S, 0), h)
    BY <2>1 DEF Totals
  <2> QED
    BY <1>2, <1>3, <2>2
<1>4. CASE m # 0
  <2>1. m - 1 \in Nat /\ ~(m <= m - 1)
    BY <1>2, <1>4
  <2>2. m - 1 \notin Bad
    BY <1>1, <2>1
  <2>3. PICK h : Totals(f, NoLarger(S, m - 1), h)
    BY <2>1, <2>2
  <2> DEFINE step(k, s) == IF s = {} THEN 0 ELSE f[Some(s)] + k[s \ {Some(s)}]
             g == [s \in NoLarger(S, m) |-> step(h, s)]
  <2>4. ASSUME NEW s \in NoLarger(S, m) PROVE step(h, s) = step(g, s)
    <3>1. CASE s = {}
      BY <3>1
    <3>2. CASE s # {}
      <4> DEFINE t == s \ {Some(s)}
      <4>1. s \in SUBSET S /\ Cardinality(s) <= m /\ Some(s) \in s
        BY <3>2, SomeIn DEF NoLarger
      <4>2. t \in SUBSET S /\ Cardinality(t) = Cardinality(s) - 1 /\ Cardinality(s) \in Nat \ {0}
        BY <4>1, OneFewer
      <4>3. Cardinality(t) <= m - 1 /\ Cardinality(t) <= m
        BY <1>2, <4>1, <4>2
      <4>4. t \in NoLarger(S, m - 1) /\ t \in NoLarger(S, m)
        BY <4>2, <4>3 DEF NoLarger
      <4>5. h[t] = step(h, t)
        BY <2>3, <4>4, Zenon DEF Totals
      <4>6. g[t] = step(h, t)
        BY <4>4
      <4>7. h[s \ {Some(s)}] = g[s \ {Some(s)}]
        <5> HIDE DEF g, step
        <5> QED
          BY <4>5, <4>6, Zenon
      <4>8. f[Some(s)] + h[s \ {Some(s)}] = f[Some(s)] + g[s \ {Some(s)}]
        BY <4>7, Zenon
      <4> QED
        BY <3>2, <4>8
    <3> QED
      BY <3>1, <3>2
  <2>5. g = [s \in NoLarger(S, m) |-> step(g, s)]
    <3>1. \A s \in NoLarger(S, m) : step(h, s) = step(g, s)
      BY <2>4
    <3>2. g = [s \in NoLarger(S, m) |-> step(h, s)]
      OBVIOUS
    <3> HIDE DEF g, step
    <3> QED
      BY <3>1, <3>2
  <2>6. Totals(f, NoLarger(S, m), g)
    BY <2>5, Zenon DEF Totals
  <2> QED
    BY <1>2, <2>6
<1> QED
  BY <1>3, <1>4

(* The sums over the subsets of a finite set are a function. *)
LEMMA TotalsExist ==
  ASSUME NEW f, NEW S, IsFiniteSet(S)
  PROVE  \E h : Totals(f, SUBSET S, h)
<1>1. Cardinality(S) \in Nat /\ \A s \in SUBSET S : Cardinality(s) <= Cardinality(S)
  BY FS_CardinalityType, FS_Subset
<1>2. NoLarger(S, Cardinality(S)) = SUBSET S
  BY <1>1 DEF NoLarger
<1> DEFINE n == Cardinality(S)
<1>3. n \in Nat /\ NoLarger(S, n) = SUBSET S
  BY <1>1, <1>2
<1> HIDE DEF n
<1>4. PICK h : Totals(f, NoLarger(S, n), h)
  BY <1>3, TotalsUpTo
<1>5. Totals(f, SUBSET S, h)
  BY <1>3, <1>4, Zenon
<1> QED
  BY <1>5

(* Whatever the order, one element first.                                   *)
Leaves(f, S, h) == \A s \in SUBSET S : /\ h[s] \in Nat
                                       /\ \A x \in s : h[s] = f[x] + h[s \ {x}]

(* What a sum is without one element, whichever it is. *)
LEMMA TotalsLeave ==
  ASSUME NEW f, NEW S, IsFiniteSet(S), \A x \in S : f[x] \in Nat, NEW h, Totals(f, SUBSET S, h)
  PROVE  Leaves(f, S, h) /\ h[{}] = 0
<1> DEFINE Good(s) == h[s] \in Nat /\ \A x \in s : h[s] = f[x] + h[s \ {x}]
           Bad == {m \in Nat : \E s \in SUBSET S : Cardinality(s) = m /\ ~Good(s)}
<1>0. h[{}] = 0
  BY DEF Totals
<1>1. ASSUME Bad # {} PROVE FALSE
  <2>1. PICK m \in Bad : \A y \in Bad : m <= y
    <3>1. Bad \subseteq Nat
      OBVIOUS
    <3> HIDE DEF Bad
    <3> QED
      BY <1>1, <3>1, LeastExists
  <2>2. PICK s \in SUBSET S : Cardinality(s) = m /\ ~Good(s)
    BY <2>1
  <2>3. ASSUME NEW t \in SUBSET S, NEW x \in t, Cardinality(t) <= m PROVE Good(t \ {x})
    <3>1. t \ {x} \in SUBSET S /\ Cardinality(t \ {x}) = Cardinality(t) - 1 /\ Cardinality(t) \in Nat \ {0}
      BY <2>3, OneFewer
    <3>2. Cardinality(t \ {x}) \in Nat /\ ~(m <= Cardinality(t \ {x}))
      BY <2>1, <2>3, <3>1
    <3> HIDE DEF Good
    <3> QED
      BY <2>1, <3>1, <3>2
  <2>4. s # {}
    BY <1>0, <2>2
  <2> DEFINE y == Some(s)
  <2>5. y \in s /\ y \in S /\ f[y] \in Nat
    BY <2>4, SomeIn
  <2>6. h[s] = f[y] + h[s \ {y}]
    BY <2>4 DEF Totals
  <2> HIDE DEF y
  <2>7. Good(s \ {y})
    <3>1. Cardinality(s) <= m
      BY <2>1, <2>2
    <3> HIDE DEF Good
    <3> QED
      BY <2>3, <2>5, <3>1
  <2>8. h[s] \in Nat
    BY <2>5, <2>6, <2>7
  <2>9. ASSUME NEW x \in s PROVE h[s] = f[x] + h[s \ {x}]
    <3>1. CASE x = y
      BY <2>6, <3>1
    <3>2. CASE x # y
      <4>1. x \in s \ {y} /\ y \in s \ {x} /\ x \in S /\ f[x] \in Nat
        BY <2>5, <3>2
      <4>2. Good(s \ {x}) /\ Good((s \ {y}) \ {x})
        <5>1. Cardinality(s) <= m /\ s \ {y} \in SUBSET S
          BY <2>1, <2>2
        <5>2. Cardinality(s \ {y}) <= m
          <6>1. Cardinality(s \ {y}) = Cardinality(s) - 1 /\ Cardinality(s) \in Nat \ {0}
            BY <2>5, OneFewer
          <6> QED
            BY <2>2, <6>1
        <5> HIDE DEF Good
        <5> QED
          BY <2>3, <4>1, <5>1, <5>2
      <4>3. (s \ {y}) \ {x} = (s \ {x}) \ {y}
        OBVIOUS
      <4>4. h[s \ {y}] = f[x] + h[(s \ {y}) \ {x}]
        BY <2>7, <4>1
      <4>5. h[s \ {x}] = f[y] + h[(s \ {x}) \ {y}] /\ h[(s \ {y}) \ {x}] \in Nat
        BY <4>1, <4>2
      <4> DEFINE z == h[(s \ {y}) \ {x}]
                 p == h[s \ {y}]
                 q == h[s \ {x}]
      <4>6. h[s] = f[y] + p /\ p = f[x] + z
        BY <2>6, <4>4
      <4>7. q = f[y] + z
        BY <4>3, <4>5, Zenon
      <4>8. z \in Nat /\ f[x] \in Nat /\ f[y] \in Nat
        BY <2>5, <4>1, <4>5
      <4> HIDE DEF z, p, q
      <4>9. h[s] = f[x] + q
        BY <4>6, <4>7, <4>8
      <4> QED
        BY <4>9 DEF q
    <3> QED
      BY <3>1, <3>2
  <2> QED
    BY <2>2, <2>8, <2>9
<1>2. ASSUME NEW s \in SUBSET S PROVE Good(s)
  <2>1. Cardinality(s) \in Nat
    BY FS_Subset, FS_CardinalityType
  <2> HIDE DEF Good
  <2> QED
    BY <1>1, <2>1
<1> QED
  BY <1>0, <1>2 DEF Leaves

(* f and g have the same values on S.                                       *)
SameOn(f, g, S) == \A x \in S : f[x] = g[x]

(* Two such functions agree where the summed values do. *)
LEMMA TotalsAgree ==
  ASSUME NEW f, NEW g, NEW S, NEW T, IsFiniteSet(S), NEW h, NEW k, S \subseteq T, IsFiniteSet(T),
         Totals(f, SUBSET S, h), Totals(g, SUBSET T, k), SameOn(f, g, S)
  PROVE  h[S] = k[S]
<1> DEFINE Good(s) == h[s] = k[s]
           Bad == {m \in Nat : \E s \in SUBSET S : Cardinality(s) = m /\ ~Good(s)}
<1>1. ASSUME Bad # {} PROVE FALSE
  <2>1. PICK m \in Bad : \A y \in Bad : m <= y
    <3>1. Bad \subseteq Nat
      OBVIOUS
    <3> HIDE DEF Bad
    <3> QED
      BY <1>1, <3>1, LeastExists
  <2>2. PICK s \in SUBSET S : Cardinality(s) = m /\ ~Good(s)
    BY <2>1
  <2>3. s \in SUBSET T
    OBVIOUS
  <2>4. s # {}
    BY <2>2, <2>3 DEF Totals
  <2>5. Some(s) \in s
    BY <2>4, SomeIn
  <2>6. h[s] = f[Some(s)] + h[s \ {Some(s)}]
    BY <2>4 DEF Totals
  <2>7. k[s] = g[Some(s)] + k[s \ {Some(s)}]
    BY <2>3, <2>4 DEF Totals
  <2>8. Good(s \ {Some(s)})
    <3>1. s \ {Some(s)} \in SUBSET S /\ Cardinality(s \ {Some(s)}) = Cardinality(s) - 1 /\ Cardinality(s) \in Nat \ {0}
      BY <2>5, OneFewer
    <3>2. Cardinality(s \ {Some(s)}) \in Nat /\ ~(m <= Cardinality(s \ {Some(s)}))
      BY <2>1, <2>2, <3>1
    <3> HIDE DEF Good
    <3> QED
      BY <2>1, <3>1, <3>2
  <2>9. f[Some(s)] = g[Some(s)]
    BY <2>5 DEF SameOn
  <2> QED
    BY <2>2, <2>6, <2>7, <2>8, <2>9
<1>2. Cardinality(S) \in Nat
  BY FS_CardinalityType
<1> QED
  BY <1>1, <1>2

(* A sum with one element more is more by its value: held bytes at an acquire. *)
LEMMA SumIs ==
  ASSUME NEW f, NEW S, IsFiniteSet(S)
  PROVE  \E h : Totals(f, SUBSET S, h) /\ SumOf(f, S) = h[S]
<1> DEFINE g == CHOOSE h : Totals(f, SUBSET S, h)
<1>1. Totals(f, SUBSET S, g)
  BY TotalsExist
<1>2. SumOf(f, S) = g[S]
  BY DEF SumOf, MapThenSumSet, MapThenFoldSet, Totals, Some
<1> HIDE DEF g
<1> QED
  BY <1>1, <1>2

(* The sum over a set less one of its elements.                             *)
LEMMA SumLess ==
  ASSUME NEW f, NEW S, IsFiniteSet(S), \A x \in S : f[x] \in Nat, NEW x \in S
  PROVE  SumOf(f, S) = f[x] + SumOf(f, S \ {x}) /\ SumOf(f, S) \in Nat /\ SumOf(f, S \ {x}) \in Nat
<1>1. PICK h : Totals(f, SUBSET S, h) /\ SumOf(f, S) = h[S]
  BY SumIs
<1>2. Leaves(f, S, h)
  BY <1>1, TotalsLeave
<1> DEFINE T == S \ {x}
<1>3. IsFiniteSet(T) /\ T \subseteq S /\ SameOn(f, f, T)
  BY FS_RemoveElement DEF SameOn
<1>4. PICK k : Totals(f, SUBSET T, k) /\ SumOf(f, T) = k[T]
  <2> HIDE DEF T
  <2> QED
    BY <1>3, SumIs
<1>5. k[T] = h[T]
  <2>1. Totals(f, SUBSET S, h) /\ Totals(f, SUBSET T, k)
    BY <1>1, <1>4
  <2> HIDE DEF T
  <2> QED
    BY <1>3, <2>1, TotalsAgree
<1>6. h[S] = f[x] + h[S \ {x}] /\ h[S] \in Nat /\ h[S \ {x}] \in Nat
  BY <1>2 DEF Leaves
<1> QED
  BY <1>1, <1>4, <1>5, <1>6

(* Totals of functions that agree on the set are the same. *)
LEMMA SumSame ==
  ASSUME NEW f, NEW g, NEW S, IsFiniteSet(S), SameOn(f, g, S)
  PROVE  SumOf(f, S) = SumOf(g, S)
<1>1. PICK h : Totals(f, SUBSET S, h) /\ SumOf(f, S) = h[S]
  BY SumIs
<1>2. PICK k : Totals(g, SUBSET S, k) /\ SumOf(g, S) = k[S]
  BY SumIs
<1>3. h[S] = k[S]
  BY <1>1, <1>2, TotalsAgree
<1> QED
  BY <1>1, <1>2, <1>3

(* Nothing sums to nothing. *)
LEMMA SumEmpty == ASSUME NEW f PROVE SumOf(f, {}) = 0
<1>1. IsFiniteSet({})
  BY FS_EmptySet
<1>2. PICK h : Totals(f, SUBSET {}, h) /\ SumOf(f, {}) = h[{}]
  BY <1>1, SumIs
<1> QED
  BY <1>2 DEF Totals

-----------------------------------------------------------------------------
(* Lists of places.                                                         *)

(* places is where the names in s are, which are those in gone whose place
   is not 0, each once.                                                    *)
Listed(own, s, places, gone) ==
  /\ s \in Seq(gone) /\ places \in Seq(Nat) /\ Len(places) = Len(s)
  /\ \A i \in 1 .. Len(s) : s[i] \in gone /\ places[i] = own[s[i]]
  /\ \A i, j \in 1 .. Len(s) : s[i] = s[j] => i = j
  /\ \A n \in gone : own[n] = 0 \/ \E i \in 1 .. Len(s) : s[i] = n

(* places is where all those in gone are.                                  *)
Covers(own, places, gone) == \E s : Listed(own, s, places, gone)

(* Nothing has to be named of those without a place. *)
LEMMA CoverNone ==
  ASSUME NEW own, NEW gone, \A n \in gone : own[n] = 0
  PROVE  Covers(own, << >>, gone)
<1> DEFINE s == << >>
           p == << >>
<1>1. s \in Seq(gone) /\ p \in Seq(Nat) /\ Len(s) = 0 /\ Len(p) = 0
  OBVIOUS
<1> HIDE DEF s, p
<1>2. Listed(own, s, p, gone)
  BY <1>1 DEF Listed
<1> QED
  BY <1>2 DEF Covers, p

(* One alone. *)
LEMMA CoverOne ==
  ASSUME NEW own, NEW n, NEW a \in Nat, own[n] = a
  PROVE  Covers(own, <<a>>, {n})
<1> DEFINE s == <<n>>
           p == <<a>>
<1>1. s \in Seq({n}) /\ p \in Seq(Nat) /\ Len(s) = 1 /\ Len(p) = 1 /\ s[1] = n /\ p[1] = a
  OBVIOUS
<1> HIDE DEF s, p
<1>2. Listed(own, s, p, {n})
  BY <1>1 DEF Listed
<1> QED
  BY <1>2 DEF Covers, p

(* A list after another. *)
LEMMA CoverBoth ==
  ASSUME NEW own, NEW p, NEW q, NEW g, NEW h, Covers(own, p, g), Covers(own, q, h), g \cap h = {}
  PROVE  Covers(own, p \o q, g \cup h)
<1>1. PICK s : Listed(own, s, p, g)
  BY DEF Covers
<1>2. PICK t : Listed(own, t, q, h)
  BY DEF Covers
<1> DEFINE u == s \o t
           r == p \o q
           m == Len(s)
           n == Len(t)
<1>3. /\ s \in Seq(g) /\ t \in Seq(h) /\ p \in Seq(Nat) /\ q \in Seq(Nat) /\ Len(p) = m /\ Len(q) = n
      /\ m \in Nat /\ n \in Nat
  BY <1>1, <1>2 DEF Listed
<1>4. /\ u \in Seq(g \cup h) /\ Len(u) = m + n /\ (\A i \in 1 .. m : u[i] = s[i])
      /\ \A i \in m + 1 .. m + n : u[i] = t[i - m]
  BY <1>3
<1>5. /\ r \in Seq(Nat) /\ Len(r) = m + n /\ (\A i \in 1 .. m : r[i] = p[i])
      /\ \A i \in m + 1 .. m + n : r[i] = q[i - m]
  <2> DEFINE a == Len(p)
             b == Len(q)
  <2>1. /\ r \in Seq(Nat) /\ Len(r) = a + b /\ (\A i \in 1 .. a : r[i] = p[i])
        /\ \A i \in a + 1 .. a + b : r[i] = q[i - a]
    <3>1. p \in Seq(Nat) /\ q \in Seq(Nat)
      BY <1>3
    <3> QED
      BY <3>1
  <2>2. a = m /\ b = n
    BY <1>3
  <2> HIDE DEF a, b, m, n, r
  <2> QED
    BY <2>1, <2>2
<1> HIDE DEF u, r
<1>6. /\ \A i \in 1 .. m : s[i] \in g /\ p[i] = own[s[i]]
      /\ \A i \in 1 .. n : t[i] \in h /\ q[i] = own[t[i]]
      /\ \A i, j \in 1 .. m : s[i] = s[j] => i = j
      /\ \A i, j \in 1 .. n : t[i] = t[j] => i = j
  BY <1>1, <1>2 DEF Listed
<1> HIDE DEF m, n
<1>7. \A i \in 1 .. m + n : i \in 1 .. m \/ (i \in m + 1 .. m + n /\ i - m \in 1 .. n)
  <2>1. m \in Nat /\ n \in Nat
    BY <1>3
  <2> QED
    BY <2>1
<1>8. \A i \in 1 .. m + n : r[i] = own[u[i]] /\ u[i] \in g \cup h
                           /\ (i \in 1 .. m => u[i] \in g) /\ (i \notin 1 .. m => u[i] \in h)
  <2>1. ASSUME NEW i \in 1 .. m + n, i \in 1 .. m PROVE r[i] = own[u[i]] /\ u[i] \in g
    BY <1>4, <1>5, <1>6, <2>1
  <2>2. ASSUME NEW i \in 1 .. m + n, i \notin 1 .. m PROVE r[i] = own[u[i]] /\ u[i] \in h
    <3>1. i \in m + 1 .. m + n /\ i - m \in 1 .. n
      BY <1>7, <2>2
    <3> QED
      BY <1>4, <1>5, <1>6, <3>1
  <2>3. ASSUME NEW i \in 1 .. m + n
        PROVE  r[i] = own[u[i]] /\ u[i] \in g \cup h
               /\ (i \in 1 .. m => u[i] \in g) /\ (i \notin 1 .. m => u[i] \in h)
    BY <2>1, <2>2, Zenon
  <2> HIDE DEF m, n
  <2> QED
    BY <2>3
<1>9. ASSUME NEW i \in 1 .. m + n, NEW j \in 1 .. m + n, u[i] = u[j] PROVE i = j
  <2>1. i \in 1 .. m <=> j \in 1 .. m
    BY <1>8, <1>9
  <2>2. CASE i \in 1 .. m
    BY <1>4, <1>6, <1>9, <2>1, <2>2
  <2>3. CASE i \notin 1 .. m
    <3>1. i - m = j - m
      BY <1>4, <1>6, <1>7, <1>9, <2>1, <2>3
    <3> QED
      BY <1>3, <3>1
  <2> QED
    BY <2>2, <2>3
<1>10. ASSUME NEW x \in g \cup h PROVE own[x] = 0 \/ \E i \in 1 .. m + n : u[i] = x
  <2>1. CASE \E i \in 1 .. m : s[i] = x
    BY <1>3, <1>4, <2>1
  <2>2. CASE \E i \in 1 .. n : t[i] = x
    <3>1. PICK i \in 1 .. n : t[i] = x
      BY <2>2
    <3> DEFINE j == m + i
    <3>2. j \in m + 1 .. m + n /\ j \in 1 .. m + n /\ j - m = i
      BY <1>3
    <3> QED
      BY <1>4, <3>1, <3>2
  <2> QED
    BY <1>1, <1>2, <2>1, <2>2 DEF Listed, m, n
<1>12. Listed(own, u, r, g \cup h)
  BY <1>4, <1>5, <1>8, <1>9, <1>10 DEF Listed
<1> QED
  BY <1>12 DEF Covers, r

(* Those without a place need no naming. *)
LEMMA CoverMore ==
  ASSUME NEW own, NEW p, NEW g, Covers(own, p, g), NEW h, g \subseteq h,
         \A n \in h : n \in g \/ own[n] = 0
  PROVE  Covers(own, p, h)
<1>1. PICK s : Listed(own, s, p, g)
  BY DEF Covers
<1>2. s \in Seq(g)
  BY <1>1 DEF Listed
<1>3. s \in Seq(h)
  BY <1>2
<1>4. Listed(own, s, p, h)
  BY <1>1, <1>3 DEF Listed
<1> QED
  BY <1>4 DEF Covers

(* Three of them. *)
LEMMA CoverThree ==
  ASSUME NEW own, NEW n1, NEW n2, NEW n3,
         own[n1] \in Nat, own[n2] \in Nat, own[n3] \in Nat,
         n1 # n2, n1 # n3, n2 # n3
  PROVE  Covers(own, <<own[n1], own[n2], own[n3]>>, {n1, n2, n3})
<1> DEFINE s == <<n1, n2, n3>>
           p == <<own[n1], own[n2], own[n3]>>
           g == {n1, n2, n3}
<1>1. /\ s \in Seq(g) /\ p \in Seq(Nat) /\ Len(s) = 3 /\ Len(p) = 3
      /\ s[1] = n1 /\ s[2] = n2 /\ s[3] = n3
      /\ p[1] = own[n1] /\ p[2] = own[n2] /\ p[3] = own[n3]
  OBVIOUS
<1>2. \A i \in 1 .. 3 : i = 1 \/ i = 2 \/ i = 3
  OBVIOUS
<1>3. \A n \in g : n = n1 \/ n = n2 \/ n = n3
  OBVIOUS
<1>4. n1 \in g /\ n2 \in g /\ n3 \in g
  OBVIOUS
<1> HIDE DEF s, p, g
<1>5. \A i \in 1 .. Len(s) : s[i] \in g /\ p[i] = own[s[i]]
  BY <1>1, <1>2, <1>4
<1>6. \A i, j \in 1 .. Len(s) : s[i] = s[j] => i = j
  BY <1>1, <1>2
<1>7. \A n \in g : \E i \in 1 .. Len(s) : s[i] = n
  BY <1>1, <1>3
<1>8. Listed(own, s, p, g)
  BY <1>1, <1>5, <1>6, <1>7 DEF Listed
<1> QED
  BY <1>8 DEF Covers, p, g

(* Four of them. *)
LEMMA CoverFour ==
  ASSUME NEW own, NEW n1, NEW n2, NEW n3, NEW n4,
         own[n1] \in Nat, own[n2] \in Nat, own[n3] \in Nat, own[n4] \in Nat,
         n1 # n2, n1 # n3, n1 # n4, n2 # n3, n2 # n4, n3 # n4
  PROVE  Covers(own, <<own[n1], own[n2], own[n3], own[n4]>>, {n1, n2, n3, n4})
<1> DEFINE s == <<n1, n2, n3, n4>>
           p == <<own[n1], own[n2], own[n3], own[n4]>>
           g == {n1, n2, n3, n4}
<1>1. /\ s \in Seq(g) /\ p \in Seq(Nat) /\ Len(s) = 4 /\ Len(p) = 4
      /\ s[1] = n1 /\ s[2] = n2 /\ s[3] = n3 /\ s[4] = n4
      /\ p[1] = own[n1] /\ p[2] = own[n2] /\ p[3] = own[n3] /\ p[4] = own[n4]
  OBVIOUS
<1>2. \A i \in 1 .. 4 : i = 1 \/ i = 2 \/ i = 3 \/ i = 4
  OBVIOUS
<1>3. \A n \in g : n = n1 \/ n = n2 \/ n = n3 \/ n = n4
  OBVIOUS
<1>4. n1 \in g /\ n2 \in g /\ n3 \in g /\ n4 \in g
  OBVIOUS
<1> HIDE DEF s, p, g
<1>5. \A i \in 1 .. Len(s) : s[i] \in g /\ p[i] = own[s[i]]
  BY <1>1, <1>2, <1>4
<1>6. \A i, j \in 1 .. Len(s) : s[i] = s[j] => i = j
  BY <1>1, <1>2
<1>7. \A n \in g : \E i \in 1 .. Len(s) : s[i] = n
  BY <1>1, <1>3
<1>8. Listed(own, s, p, g)
  BY <1>1, <1>5, <1>6, <1>7 DEF Listed
<1> QED
  BY <1>8 DEF Covers, p, g
===============================================================================
