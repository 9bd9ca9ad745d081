--------------------------- MODULE ThreadPoolProofs ---------------------------
(***************************************************************************)
(* Proofs about ThreadPool, for any set of callers, any finite set of      *)
(* workers, any shapes and any number of calls.                            *)
(***************************************************************************)
EXTENDS ThreadPool, FiniteSetTheorems, TLAPS

-----------------------------------------------------------------------------
(* Lemmas about the operators.                                             *)

(* There are finitely many workers, and so executors.                      *)
LEMMA WorkerCount ==
  /\ Cardinality(Workers) \in Nat
  /\ Size \in Nat \ {0}
BY PoolAssumption, FS_CardinalityType DEF Size

(* partition_size never asks for more ranges than there are executors, and
   for at least one when there is something to do.                         *)
LEMMA ChunkCount ==
  ASSUME NEW total \in Nat \ {0}, NEW floor \in Nat \ {0}, NEW threads \in Nat \ {0}
  PROVE  PartitionSize(total, floor, threads) \in 1 .. threads
<1>1. (total + floor - 1) \div floor \in Int
  OBVIOUS
<1>2. QED
  BY <1>1 DEF PartitionSize

(* What a quotient is.                                                     *)
LEMMA Quotient ==
  ASSUME NEW a \in Int, NEW b \in Nat \ {0}
  PROVE  /\ a \div b \in Int
         /\ b * (a \div b) <= a
         /\ a < b * (a \div b) + b
OBVIOUS

(* It is the greatest number whose multiple is not beyond the dividend.    *)
LEMMA QuotientBounds ==
  ASSUME NEW a \in Int, NEW b \in Nat \ {0}, NEW q \in Int
  PROVE  /\ b * q <= a => q <= a \div b
         /\ a < b * q => a \div b < q
<1> DEFINE d == a \div b
<1>1. d \in Int /\ b * d <= a /\ a < b * d + b
  BY Quotient
<1>2. ASSUME b * q <= a, d < q PROVE FALSE
  <2>1. d + 1 <= q
    BY <1>1, <1>2
  <2>2. b * (d + 1) <= b * q
    BY <1>1, <2>1
  <2>3. b * (d + 1) = b * d + b
    BY <1>1
  <2>4. QED
    BY <1>1, <1>2, <2>2, <2>3
<1>3. ASSUME a < b * q, q <= d PROVE FALSE
  <2>1. b * q <= b * d
    BY <1>1, <1>3
  <2>2. QED
    BY <1>1, <1>3, <2>1
<1>4. QED
  BY <1>1, <1>2, <1>3

(* Bound(total, k, n) <= i says that k ranges of i + 1 units do not reach
   past the n-fold of the total: both sides of a range in one comparison.  *)
LEMMA BoundBelow ==
  ASSUME NEW total \in Nat, NEW n \in Nat \ {0}, NEW k \in Nat, NEW i \in Int
  PROVE  /\ Bound(total, k, n) \in Int
         /\ Bound(total, k, n) <= i <=> total * k < n * (i + 1)
<1> DEFINE b == Bound(total, k, n)
<1>1. total * k \in Int
  OBVIOUS
<1>2. b \in Int /\ n * b <= total * k /\ total * k < n * b + n
  BY <1>1, Quotient DEF Bound
<1>3. total * k < n * (i + 1) => b < i + 1
  BY <1>1, QuotientBounds, i + 1 \in Int DEF Bound
<1>4. n * (i + 1) <= total * k => i + 1 <= b
  BY <1>1, QuotientBounds, i + 1 \in Int DEF Bound
<1>5. n * (i + 1) \in Int
  OBVIOUS
<1>6. QED
  BY <1>1, <1>2, <1>3, <1>4, <1>5

(* The ranges start at 0, end at the total and follow each other.          *)
LEMMA BoundsInOrder ==
  ASSUME NEW total \in Nat, NEW n \in Nat \ {0}
  PROVE  /\ Bound(total, 0, n) = 0
         /\ Bound(total, n, n) = total
         /\ \A j, k \in Nat : j <= k => Bound(total, j, n) <= Bound(total, k, n)
<1>1. Bound(total, 0, n) = 0
  <2>1. Bound(total, 0, n) <= 0 /\ ~(Bound(total, 0, n) <= -1) /\ Bound(total, 0, n) \in Int
    BY BoundBelow, 0 \in Nat, 0 \in Int, -1 \in Int
  <2>2. QED
    BY <2>1
<1>2. Bound(total, n, n) = total
  <2>1. Bound(total, n, n) \in Int /\ n \in Nat /\ total \in Int /\ total - 1 \in Int
    BY BoundBelow
  <2>2. Bound(total, n, n) <= total <=> total * n < n * (total + 1)
    BY <2>1, BoundBelow
  <2>3. Bound(total, n, n) <= total - 1 <=> total * n < n * ((total - 1) + 1)
    BY <2>1, BoundBelow
  <2>4. n * (total + 1) = total * n + n /\ n * ((total - 1) + 1) = total * n /\ total * n \in Int
    OBVIOUS
  <2>5. QED
    BY <2>1, <2>2, <2>3, <2>4
<1>3. ASSUME NEW j \in Nat, NEW k \in Nat, j <= k PROVE Bound(total, j, n) <= Bound(total, k, n)
  <2>1. Bound(total, k, n) \in Int /\ Bound(total, j, n) \in Int
    BY BoundBelow, 0 \in Int
  <2> DEFINE b == Bound(total, k, n)
  <2>2. total * k < n * (b + 1)
    BY <2>1, BoundBelow
  <2>3. total * j <= total * k
    BY <1>3
  <2>4. total * j < n * (b + 1)
    BY <2>1, <2>2, <2>3
  <2>5. QED
    BY <2>1, <2>4, BoundBelow
<1>4. QED
  BY <1>1, <1>2, <1>3

(* Every range lies inside [0, total), and none is empty when there are no
   more ranges than units.                                                 *)
LEMMA RangeInside ==
  ASSUME NEW total \in Nat, NEW n \in Nat \ {0}, NEW k \in 0 .. n - 1
  PROVE  /\ ChunkRange(total, k, n) \subseteq 0 .. total - 1
         /\ Bound(total, k, n) \in Int /\ Bound(total, k + 1, n) \in Int
         /\ n <= total => Bound(total, k, n) <= Bound(total, k + 1, n) - 1
<1>1. k \in Nat /\ k + 1 \in Nat /\ 0 <= k /\ k + 1 <= n /\ 0 \in Nat /\ n \in Nat
  OBVIOUS
<1>2. Bound(total, k, n) \in Int /\ Bound(total, k + 1, n) \in Int
  BY <1>1, BoundBelow, 0 \in Int
<1>3. 0 <= Bound(total, k, n) /\ Bound(total, k + 1, n) <= total
  BY <1>1, BoundsInOrder
<1>4. ASSUME n <= total PROVE Bound(total, k, n) <= Bound(total, k + 1, n) - 1
  <2> DEFINE b == Bound(total, k + 1, n)
  <2>1. total * (k + 1) < n * (b + 1)
    BY <1>1, <1>2, BoundBelow
  <2>2. total * (k + 1) = total * k + total /\ n * (b + 1) = n * b + n /\ total * k \in Int /\ n * b \in Int
    BY <1>1, <1>2
  <2>3. total * k < n * b
    BY <2>1, <2>2, <1>4
  <2>4. n * ((b - 1) + 1) = n * b /\ b - 1 \in Int
    BY <1>2
  <2>5. QED
    BY <1>1, <1>2, <2>3, <2>4, BoundBelow
<1>5. QED
  BY <1>2, <1>3, <1>4 DEF ChunkRange

(* Two ranges have no unit in common.                                      *)
LEMMA RangesDisjoint ==
  ASSUME NEW total \in Nat, NEW n \in Nat \ {0}, NEW j \in 0 .. n - 1, NEW k \in 0 .. n - 1, j # k
  PROVE  ChunkRange(total, j, n) \cap ChunkRange(total, k, n) = {}
<1>1. ASSUME NEW a \in 0 .. n - 1, NEW b \in 0 .. n - 1, a < b
      PROVE  ChunkRange(total, a, n) \cap ChunkRange(total, b, n) = {}
  <2>1. Bound(total, a + 1, n) <= Bound(total, b, n)
    BY <1>1, BoundsInOrder, a + 1 \in Nat, b \in Nat, a + 1 <= b
  <2>2. Bound(total, a, n) \in Int /\ Bound(total, b, n) \in Int
        /\ Bound(total, a + 1, n) \in Int /\ Bound(total, b + 1, n) \in Int
    BY RangeInside
  <2>3. QED
    BY <2>1, <2>2 DEF ChunkRange
<1>2. CASE j < k
  BY <1>1, <1>2
<1>3. CASE k < j
  BY <1>1, <1>3
<1>4. QED
  BY <1>2, <1>3

(* Every unit is in a range.                                               *)
LEMMA RangesCover ==
  ASSUME NEW total \in Nat, NEW n \in Nat \ {0}, NEW i \in 0 .. total - 1
  PROVE  \E k \in 0 .. n - 1 : i \in ChunkRange(total, k, n)
<1> DEFINE last == n * (i + 1) - 1
           k == last \div total
<1>1. last \in Int /\ total \in Nat \ {0} /\ n * (i + 1) \in Int
  OBVIOUS
<1>2. k \in Int /\ total * k <= last /\ last < total * k + total
  BY <1>1, Quotient
<1>3. 0 <= last
  OBVIOUS
<1>4. 0 <= k
  BY <1>1, <1>3, QuotientBounds, total * 0 = 0
<1>5. k < n
  <2>1. n * (i + 1) <= n * total
    OBVIOUS
  <2>2. last < total * n
    BY <1>1, <2>1
  <2>3. QED
    BY <1>1, <2>2, QuotientBounds
<1>6. k \in 0 .. n - 1 /\ k \in Nat /\ k + 1 \in Nat
  BY <1>2, <1>4, <1>5
<1> HIDE DEF k
<1>7. Bound(total, k, n) <= i
  <2>1. total * k < n * (i + 1)
    BY <1>1, <1>2
  <2>2. QED
    BY <2>1, <1>6, BoundBelow
<1>8. ~(Bound(total, k + 1, n) <= i)
  <2>1. total * (k + 1) = total * k + total /\ total * k \in Int
    BY <1>6
  <2>2. ~(total * (k + 1) < n * (i + 1))
    BY <1>1, <1>2, <2>1
  <2>3. QED
    BY <2>2, <1>6, BoundBelow
<1>9. Bound(total, k, n) \in Int /\ Bound(total, k + 1, n) \in Int
  BY <1>6, RangeInside
<1>10. i \in ChunkRange(total, k, n)
  BY <1>7, <1>8, <1>9 DEF ChunkRange
<1>11. QED
  BY <1>6, <1>10

(* partition_size never asks for more ranges than there are units.         *)
LEMMA NoMoreThanUnits ==
  ASSUME NEW total \in Nat \ {0}, NEW floor \in Nat \ {0}, NEW threads \in Nat \ {0}
  PROVE  PartitionSize(total, floor, threads) <= total
<1> DEFINE asked == (total + floor - 1) \div floor
<1>1. asked \in Int
  BY Quotient
<1>2. asked < total + 1
  <2>1. total <= floor * total
    OBVIOUS
  <2>2. floor * (total + 1) = floor * total + floor /\ floor * total \in Int
    OBVIOUS
  <2>3. total + floor - 1 < floor * (total + 1)
    BY <2>1, <2>2
  <2>4. QED
    BY <2>3, QuotientBounds, total + floor - 1 \in Int, total + 1 \in Int
<1>3. QED
  BY <1>1, <1>2 DEF PartitionSize

(* The chunk count of a caller's latest call has a slot for every index.   *)
LEMMA ChunksType ==
  ASSUME TypeOK, NEW c \in Callers
  PROVE  Chunks(c) \in 0 .. Size
<1>1. shape[c] \in [total : Nat, min_per_task : Nat \ {0}]
  BY DEF TypeOK
<1>2. CASE shape[c].total = 0
  BY <1>2, WorkerCount DEF Chunks, PartitionSize
<1>3. CASE shape[c].total # 0
  <2>1. PartitionSize(shape[c].total, shape[c].min_per_task, Size) \in 1 .. Size
    <3>1. shape[c].total \in Nat \ {0} /\ shape[c].min_per_task \in Nat \ {0}
      BY <1>1, <1>3
    <3>2. QED
      BY <3>1, WorkerCount, ChunkCount
  <2>2. QED
    BY <2>1, WorkerCount DEF Chunks
<1>4. QED
  BY <1>2, <1>3

(* Covering a range keeps the record of the calls a record of calls.       *)
LEMMA CoveredType ==
  ASSUME TypeOK, NEW c \in Callers, NEW range, Covered(c, range)
  PROVE  /\ DOMAIN ran' = Callers
         /\ \A d \in Callers : ran'[d] \in [0 .. shape[d].total - 1 -> Nat]
<1>1. DOMAIN ran' = Callers
  BY DEF TypeOK, Covered
<1>2. ASSUME NEW d \in Callers PROVE ran'[d] \in [0 .. shape[d].total - 1 -> Nat]
  <2>1. ran[d] \in [0 .. shape[d].total - 1 -> Nat]
    BY DEF TypeOK
  <2>2. CASE d = c
    <3>1. ran'[c] = [i \in DOMAIN ran[c] |-> IF i \in range THEN ran[c][i] + 1 ELSE ran[c][i]]
      BY DEF TypeOK, Covered
    <3>2. DOMAIN ran[c] = 0 .. shape[c].total - 1
      BY <2>1, <2>2
    <3>3. \A i \in DOMAIN ran[c] : ran[c][i] \in Nat
      BY <2>1, <2>2
    <3>4. QED
      BY <2>2, <3>1, <3>2, <3>3
  <2>3. CASE d # c
    BY <2>1, <2>3 DEF TypeOK, Covered
  <2>4. QED
    BY <2>2, <2>3
<1>3. QED
  BY <1>1, <1>2

(* A worker that arrives makes one more arrival.                           *)
LEMMA OneMore ==
  ASSUME NEW S \in SUBSET Workers, NEW w \in Workers, w \notin S
  PROVE  /\ Cardinality(S \cup {w}) = Cardinality(S) + 1
         /\ Cardinality(S \cup {w}) \in 0 .. Cardinality(Workers)
         /\ Cardinality(S) \in Nat
<1>1. IsFiniteSet(S) /\ IsFiniteSet(S \cup {w})
  BY PoolAssumption, FS_Subset
<1>2. Cardinality(S \cup {w}) = Cardinality(S) + 1
  BY <1>1, FS_AddElement
<1>3. Cardinality(S \cup {w}) <= Cardinality(Workers)
  BY PoolAssumption, FS_Subset, S \cup {w} \in SUBSET Workers
<1>4. Cardinality(S) \in Nat /\ Cardinality(S \cup {w}) \in Nat
  BY <1>1, FS_CardinalityType
<1>5. QED
  BY <1>2, <1>3, <1>4, WorkerCount

(* When the arrivals are as many as the workers, everyone has arrived.     *)
LEMMA AllArrived ==
  ASSUME NEW S \in SUBSET Workers, Cardinality(S) = Cardinality(Workers)
  PROVE  S = Workers
BY PoolAssumption, FS_Subset

-----------------------------------------------------------------------------
(* The invariant is inductive.                                             *)

(* It holds when the pool has been built.                                  *)
LEMMA InitInv == Init => Inv
<1> SUFFICES ASSUME Init PROVE Inv
  OBVIOUS
<1>1. TypeOK
  <2>1. \A c \in Callers : ran[c] \in [0 .. shape[c].total - 1 -> Nat]
    BY DEF Init
  <2>2. shape \in [Callers -> [total : Nat, min_per_task : Nat \ {0}]]
    BY DEF Init
  <2>3. chunks \in 0 .. Size /\ workersLeft \in {0, Cardinality(Workers)}
    BY WorkerCount DEF Init
  <2>4. arrived \in 0 .. Cardinality(Workers) /\ nextIndex \in 0 .. Cardinality(Workers)
    BY WorkerCount DEF Init
  <2>5. index \in [Workers -> 0 .. Cardinality(Workers)] /\ seen \in [Workers -> Nat]
    BY WorkerCount DEF Init
  <2>6. calls \in [Callers -> 0 .. MaxCalls]
    BY PoolAssumption DEF Init
  <2>7. QED
    BY <2>1, <2>2, <2>3, <2>4, <2>5, <2>6 DEF Init, TypeOK
<1>2. Started = {}
  BY DEF Init, Started
<1>3. nextIndex = Cardinality(Started)
  BY <1>2, FS_EmptySet DEF Init
<1>4. LockHeld /\ JobOfOwner /\ StopAfterCalls
  BY PoolAssumption DEF Init, LockHeld, JobOfOwner, StopAfterCalls
<1>5. Quiet /\ Running /\ Exiting
  BY DEF Init, Quiet, Running, Exiting, Published, Frame
<1>6. QED
  BY <1>1, <1>3, <1>4, <1>5 DEF Inv

(* A worker inside the job is inside the frame of the lock's owner.        *)
LEMMA InsideItsFrame ==
  ASSUME Inv, NEW w \in Workers, wpc[w] \in {"take", "turn", "body", "arrive"}
  PROVE  /\ job \in Callers /\ mutex = job /\ pc[job] \in Frame
         /\ Published
<1>1. Published
  BY DEF Inv, TypeOK, Quiet, Exiting
<1>2. PICK c \in Callers : pc[c] \in Frame
  BY <1>1 DEF Published
<1>3. mutex = c /\ job = c
  BY <1>2 DEF Inv, LockHeld, JobOfOwner, Frame
<1>4. QED
  BY <1>1, <1>2, <1>3

(* A call begins: the lock, the job and the workers are not touched.       *)
LEMMA BeginKeeps ==
  ASSUME Inv, NEW c \in Callers, Begin(c)
  PROVE  Inv'
<1> USE PoolAssumption, WorkerCount DEF Inv, vars, callerVars, jobVars, workerVars, stopVars
<1>1. TypeOK'
  <2>1. PICK s \in Shapes :
          /\ shape' = [shape EXCEPT ![c] = s]
          /\ ran' = [ran EXCEPT ![c] = [i \in 0 .. s.total - 1 |-> 0]]
          /\ pc' = [pc EXCEPT ![c] = IF PartitionSize(s.total, s.min_per_task, Size) <= 1
                                    THEN "serial" ELSE "lock"]
    BY DEF Begin
  <2>2. s \in [total : Nat, min_per_task : Nat \ {0}]
    OBVIOUS
  <2>3. shape' \in [Callers -> [total : Nat, min_per_task : Nat \ {0}]]
    BY <2>1, <2>2 DEF TypeOK
  <2>4. DOMAIN ran' = Callers
    BY <2>1 DEF TypeOK
  <2>5. ASSUME NEW d \in Callers PROVE ran'[d] \in [0 .. shape'[d].total - 1 -> Nat]
    <3>1. CASE d = c
      BY <2>1, <2>2, <3>1 DEF TypeOK
    <3>2. CASE d # c
      BY <2>1, <3>2 DEF TypeOK
    <3>3. QED
      BY <3>1, <3>2
  <2>6. pc' \in [Callers -> {"out", "serial", "done", "lock", "job", "reset", "bump", "chunk0", "barrier"}]
    BY <2>1 DEF TypeOK
  <2>7. calls' \in [Callers -> 0 .. MaxCalls]
    <3>1. calls \in [Callers -> 0 .. MaxCalls]
      BY DEF TypeOK
    <3>2. calls[c] < MaxCalls /\ calls' = [calls EXCEPT ![c] = @ + 1]
      BY DEF Begin
    <3>3. calls[c] + 1 \in 0 .. MaxCalls
      BY <3>1, <3>2
    <3>4. QED
      BY <3>1, <3>2, <3>3
  <2>8. QED
    BY <2>3, <2>4, <2>5, <2>6, <2>7 DEF Begin, TypeOK
<1>2. LockHeld' /\ JobOfOwner' /\ StopAfterCalls'
  <2>1. LockHeld'
    BY DEF Begin, TypeOK, LockHeld, JobOfOwner, StopAfterCalls
  <2>2. JobOfOwner'
    BY DEF Begin, TypeOK, LockHeld, JobOfOwner, StopAfterCalls
  <2>3. StopAfterCalls'
    BY DEF Begin, TypeOK, LockHeld, JobOfOwner, StopAfterCalls
  <2> QED
    BY <2>1, <2>2, <2>3
<1>3. Quiet' /\ Running' /\ Exiting'
  <2>1. Quiet'
    BY DEF Begin, TypeOK, LockHeld, StopAfterCalls, Quiet, Running, Exiting, Published, Frame, Arrived
  <2>2. Running'
    BY DEF Begin, TypeOK, LockHeld, StopAfterCalls, Quiet, Running, Exiting, Published, Frame, Arrived
  <2>3. Exiting'
    BY DEF Begin, TypeOK, LockHeld, StopAfterCalls, Quiet, Running, Exiting, Published, Frame, Arrived
  <2> QED
    BY <2>1, <2>2, <2>3
<1>4. (nextIndex = Cardinality(Started))'
  BY DEF Begin, TypeOK, Started
<1>5. QED
  BY <1>1, <1>2, <1>3, <1>4 DEF Inv

(* A call with one range covers all of it on its own thread.               *)
LEMMA RunSeriallyKeeps ==
  ASSUME Inv, NEW c \in Callers, RunSerially(c)
  PROVE  Inv'
<1> USE PoolAssumption, WorkerCount DEF Inv, vars, callerVars, jobVars, workerVars, stopVars
<1>1. TypeOK'
  <2>1. DOMAIN ran' = Callers /\ \A d \in Callers : ran'[d] \in [0 .. shape[d].total - 1 -> Nat]
    BY CoveredType DEF RunSerially
  <2>2. QED
    BY <2>1 DEF RunSerially, TypeOK
<1>2. LockHeld' /\ JobOfOwner' /\ StopAfterCalls'
  BY DEF RunSerially, TypeOK, LockHeld, JobOfOwner, StopAfterCalls
<1>3. Quiet' /\ Running' /\ Exiting'
  BY DEF RunSerially, TypeOK, LockHeld, StopAfterCalls, Quiet, Running, Exiting, Published, Frame, Arrived
<1>4. (nextIndex = Cardinality(Started))'
  BY DEF RunSerially, TypeOK, Started
<1>5. QED
  BY <1>1, <1>2, <1>3, <1>4 DEF Inv

(* A serial call returns.                                                  *)
LEMMA ReturnSeriallyKeeps ==
  ASSUME Inv, NEW c \in Callers, ReturnSerially(c)
  PROVE  Inv'
<1> USE PoolAssumption, WorkerCount DEF Inv, vars, callerVars, jobVars, workerVars, stopVars
<1>1. TypeOK'
  BY DEF ReturnSerially, TypeOK
<1>2. LockHeld' /\ JobOfOwner' /\ StopAfterCalls'
  BY DEF ReturnSerially, TypeOK, LockHeld, JobOfOwner, StopAfterCalls
<1>3. Quiet' /\ Running' /\ Exiting'
  BY DEF ReturnSerially, TypeOK, LockHeld, StopAfterCalls, Quiet, Running, Exiting, Published, Frame, Arrived
<1>4. (nextIndex = Cardinality(Started))'
  BY DEF ReturnSerially, TypeOK, Started
<1>5. QED
  BY <1>1, <1>2, <1>3, <1>4 DEF Inv

(* The lock is free, so nobody owned it before.                            *)
LEMMA LockKeeps ==
  ASSUME Inv, NEW c \in Callers, Lock(c)
  PROVE  Inv'
<1> USE PoolAssumption, WorkerCount DEF Inv, vars, callerVars, jobVars, workerVars, stopVars
<1>1. TypeOK'
  BY DEF Lock, TypeOK
<1>2. LockHeld' /\ JobOfOwner' /\ StopAfterCalls'
  BY DEF Lock, TypeOK, LockHeld, JobOfOwner, StopAfterCalls
<1>3. Quiet' /\ Running' /\ Exiting'
  BY DEF Lock, TypeOK, LockHeld, StopAfterCalls, Quiet, Running, Exiting, Published, Frame, Arrived
<1>4. (nextIndex = Cardinality(Started))'
  BY DEF Lock, TypeOK, Started
<1>5. QED
  BY <1>1, <1>2, <1>3, <1>4 DEF Inv

(* Only the owner of the lock assigns job_ and chunks_.                    *)
LEMMA AssignJobKeeps ==
  ASSUME Inv, NEW c \in Callers, AssignJob(c)
  PROVE  Inv'
<1> USE PoolAssumption, WorkerCount DEF Inv, vars, callerVars, jobVars, workerVars, stopVars
<1>1. TypeOK'
  <2>1. chunks' \in 0 .. Size
    BY ChunksType DEF AssignJob
  <2>2. DOMAIN ran' = Callers /\ \A d \in Callers : ran'[d] \in [0 .. shape'[d].total - 1 -> Nat]
    BY DEF AssignJob, TypeOK
  <2>3. QED
    BY <2>1, <2>2 DEF AssignJob, TypeOK
<1>2. LockHeld' /\ JobOfOwner' /\ StopAfterCalls'
  BY DEF AssignJob, TypeOK, LockHeld, JobOfOwner, StopAfterCalls
<1>3. Quiet' /\ Running' /\ Exiting'
  BY SMTT(30) DEF AssignJob, TypeOK, LockHeld, StopAfterCalls, Quiet, Running, Exiting, Published, Frame, Arrived
<1>4. (nextIndex = Cardinality(Started))'
  BY DEF AssignJob, TypeOK, Started
<1>5. QED
  BY <1>1, <1>2, <1>3, <1>4 DEF Inv

(* The counts are reset before the job is published.                       *)
LEMMA ResetBarrierKeeps ==
  ASSUME Inv, NEW c \in Callers, ResetBarrier(c)
  PROVE  Inv'
<1> USE PoolAssumption, WorkerCount DEF Inv, vars, callerVars, jobVars, workerVars, stopVars
<1>1. TypeOK'
  <2>1. DOMAIN ran' = Callers /\ \A d \in Callers : ran'[d] \in [0 .. shape'[d].total - 1 -> Nat]
    BY DEF ResetBarrier, TypeOK
  <2>2. pc' \in [Callers -> {"out", "serial", "done", "lock", "job", "reset", "bump", "chunk0", "barrier"}]
    BY DEF ResetBarrier, TypeOK
  <2>3. arrived' \in 0 .. Cardinality(Workers) /\ generation' \in Nat
    BY DEF ResetBarrier, TypeOK
  <2>4. QED
    BY <2>1, <2>2, <2>3 DEF ResetBarrier, TypeOK
<1>2. LockHeld' /\ JobOfOwner' /\ StopAfterCalls'
  BY DEF ResetBarrier, TypeOK, LockHeld, JobOfOwner, StopAfterCalls
<1>3. Quiet' /\ Running' /\ Exiting'
  BY SMTT(30) DEF ResetBarrier, TypeOK, LockHeld, StopAfterCalls, Quiet, Running, Exiting, Published, Frame, Arrived
<1>4. (nextIndex = Cardinality(Started))'
  BY DEF ResetBarrier, TypeOK, Started
<1>5. QED
  BY <1>1, <1>2, <1>3, <1>4 DEF Inv

(* Publishing puts every worker exactly one generation behind.             *)
LEMMA PublishKeeps ==
  ASSUME Inv, NEW c \in Callers, Publish(c)
  PROVE  Inv'
<1> USE PoolAssumption, WorkerCount DEF Inv, vars, callerVars, jobVars, workerVars, stopVars
<1>1. TypeOK'
  <2>1. DOMAIN ran' = Callers /\ \A d \in Callers : ran'[d] \in [0 .. shape'[d].total - 1 -> Nat]
    BY DEF Publish, TypeOK
  <2>2. pc' \in [Callers -> {"out", "serial", "done", "lock", "job", "reset", "bump", "chunk0", "barrier"}]
    BY DEF Publish, TypeOK
  <2>3. arrived' \in 0 .. Cardinality(Workers) /\ generation' \in Nat
    BY DEF Publish, TypeOK
  <2>4. QED
    BY <2>1, <2>2, <2>3 DEF Publish, TypeOK
<1>2. LockHeld' /\ JobOfOwner' /\ StopAfterCalls'
  BY DEF Publish, TypeOK, LockHeld, JobOfOwner, StopAfterCalls
<1>3. Quiet'
  BY DEF Publish, TypeOK, LockHeld, StopAfterCalls, Quiet, Running, Exiting, Published, Frame
<1>4. Running'
  <2>1. arrived' = 0 /\ ~Published /\ dtor = "up" /\ ~stop
    BY DEF Publish, TypeOK, LockHeld, JobOfOwner, StopAfterCalls, Published, Frame
  <2>2. \A w \in Workers : seen[w] = generation /\ wpc[w] \in {"start", "spin"}
    BY <2>1 DEF Quiet, StopAfterCalls
  <2>3. Arrived' = {}
    BY <2>2 DEF Publish, TypeOK, Arrived
  <2>4. QED
    BY <2>1, <2>2, <2>3, FS_EmptySet DEF Publish, TypeOK, Running
<1>5. Exiting'
  BY DEF Publish, TypeOK, StopAfterCalls, Quiet, Running, Exiting, Published, Frame
<1>6. (nextIndex = Cardinality(Started))'
  BY DEF Publish, TypeOK, Started
<1>7. QED
  BY <1>1, <1>2, <1>3, <1>4, <1>5, <1>6 DEF Inv

(* The caller's own chunk.                                                 *)
LEMMA OwnChunkKeeps ==
  ASSUME Inv, NEW c \in Callers, OwnChunk(c)
  PROVE  Inv'
<1> USE PoolAssumption, WorkerCount DEF Inv, vars, callerVars, jobVars, workerVars, stopVars
<1>1. TypeOK'
  <2>1. DOMAIN ran' = Callers /\ \A d \in Callers : ran'[d] \in [0 .. shape[d].total - 1 -> Nat]
    BY CoveredType DEF OwnChunk
  <2>2. QED
    BY <2>1 DEF OwnChunk, TypeOK
<1>2. LockHeld' /\ JobOfOwner' /\ StopAfterCalls'
  BY DEF OwnChunk, TypeOK, LockHeld, JobOfOwner, StopAfterCalls
<1>3. Quiet' /\ Running' /\ Exiting'
  BY DEF OwnChunk, TypeOK, LockHeld, StopAfterCalls, Quiet, Running, Exiting, Published, Frame, Arrived
<1>4. (nextIndex = Cardinality(Started))'
  BY DEF OwnChunk, TypeOK, Started
<1>5. QED
  BY <1>1, <1>2, <1>3, <1>4 DEF Inv

(* The barrier opens only when every worker has arrived: all is quiet again.*)
LEMMA ReturnKeeps ==
  ASSUME Inv, NEW c \in Callers, Return(c)
  PROVE  Inv'
<1> USE PoolAssumption, WorkerCount DEF Inv, vars, callerVars, jobVars, workerVars, stopVars
<1>1. TypeOK'
  BY DEF Return, TypeOK
<1>2. LockHeld' /\ JobOfOwner' /\ StopAfterCalls'
  BY DEF Return, TypeOK, LockHeld, JobOfOwner, StopAfterCalls
<1>3. Quiet'
  <2>1. Published /\ workersLeft = Cardinality(Workers)
    BY DEF Return, TypeOK, JobOfOwner, Published, Frame
  <2>2. Cardinality(Arrived) = Cardinality(Workers)
    BY <2>1 DEF Return, Running
  <2>3. Arrived = Workers
    BY <2>2, AllArrived DEF Arrived
  <2>4. QED
    BY <2>3 DEF Return, TypeOK, Quiet, Arrived
<1>4. Running'
  BY DEF Return, TypeOK, LockHeld, StopAfterCalls, Quiet, Running, Exiting, Published, Frame, Arrived
<1>5. Exiting'
  BY DEF Return, TypeOK, StopAfterCalls, Quiet, Running, Exiting, Published, Frame
<1>6. (nextIndex = Cardinality(Started))'
  BY DEF Return, TypeOK, Started
<1>7. QED
  BY <1>1, <1>2, <1>3, <1>4, <1>5, <1>6 DEF Inv

(* A worker gets the next index.                                           *)
LEMMA StartKeeps ==
  ASSUME Inv, NEW w \in Workers, Start(w)
  PROVE  Inv'
<1> USE PoolAssumption, WorkerCount DEF Inv, vars, callerVars, jobVars, workerVars, stopVars
<1>1. TypeOK'
  <2>1. Started \in SUBSET Workers /\ w \notin Started
    BY DEF Start, Started
  <2>2. nextIndex + 1 \in 0 .. Cardinality(Workers)
    BY <2>1, OneMore
  <2>3. QED
    BY <2>2 DEF Start, TypeOK
<1>2. LockHeld' /\ JobOfOwner' /\ StopAfterCalls'
  BY DEF Start, TypeOK, LockHeld, JobOfOwner, StopAfterCalls
<1>3. Quiet'
  BY DEF Start, TypeOK, LockHeld, StopAfterCalls, Quiet, Running, Exiting, Published, Frame
<1>4. Running'
  <2>1. CASE Published
    <3>1. generation = seen[w] + 1
      BY <2>1 DEF Start, Running
    <3>2. Arrived' = Arrived
      BY SMTT(30), <3>1 DEF Start, TypeOK, Arrived
    <3>3. QED
      BY <2>1, <3>1, <3>2 DEF Start, TypeOK, Running, Published, Frame
  <2>2. CASE ~Published
    BY <2>2 DEF Start, Running, Published, Frame
  <2>3. QED
    BY <2>1, <2>2
<1>5. Exiting'
  BY DEF Start, TypeOK, StopAfterCalls, Quiet, Running, Exiting, Published, Frame
<1>6. (nextIndex = Cardinality(Started))'
  <2>1. Started' = Started \cup {w} /\ w \notin Started /\ Started \in SUBSET Workers
    BY SMTT(30) DEF Start, TypeOK, Started
  <2>2. QED
    BY <2>1, OneMore DEF Start
<1>7. QED
  BY <1>1, <1>2, <1>3, <1>4, <1>5, <1>6 DEF Inv

(* A worker that wakes was not among the arrived.                          *)
LEMMA WakeKeeps ==
  ASSUME Inv, NEW w \in Workers, Wake(w)
  PROVE  Inv'
<1> USE PoolAssumption, WorkerCount DEF Inv, vars, callerVars, jobVars, workerVars, stopVars
<1>1. TypeOK'
  BY DEF Wake, TypeOK
<1>2. LockHeld' /\ JobOfOwner' /\ StopAfterCalls'
  BY DEF Wake, TypeOK, LockHeld, JobOfOwner, StopAfterCalls
<1>3. Quiet'
  BY DEF Wake, TypeOK, LockHeld, StopAfterCalls, Quiet, Running, Exiting, Published, Frame
<1>4. Running'
  <2>1. Arrived' = Arrived
    BY DEF Wake, TypeOK, Arrived
  <2>2. QED
    BY <2>1 DEF Wake, TypeOK, Running, Published, Frame
<1>5. Exiting'
  BY DEF Wake, TypeOK, StopAfterCalls, Quiet, Running, Exiting, Published, Frame
<1>6. (nextIndex = Cardinality(Started))'
  BY DEF Wake, TypeOK, Started
<1>7. QED
  BY <1>1, <1>2, <1>3, <1>4, <1>5, <1>6 DEF Inv

(* A worker leaves its spin loop for good.                                 *)
LEMMA SpinExitKeeps ==
  ASSUME Inv, NEW w \in Workers, SpinExit(w)
  PROVE  Inv'
<1> USE PoolAssumption, WorkerCount DEF Inv, vars, callerVars, jobVars, workerVars, stopVars
<1>1. TypeOK'
  BY DEF SpinExit, TypeOK
<1>2. LockHeld' /\ JobOfOwner' /\ StopAfterCalls'
  BY DEF SpinExit, TypeOK, LockHeld, JobOfOwner, StopAfterCalls
<1>3. Quiet' /\ Running' /\ Exiting'
  BY SMTT(30) DEF SpinExit, TypeOK, LockHeld, StopAfterCalls, Quiet, Running, Exiting, Published, Frame, Arrived
<1>4. (nextIndex = Cardinality(Started))'
  BY DEF SpinExit, TypeOK, Started
<1>5. QED
  BY <1>1, <1>2, <1>3, <1>4 DEF Inv

(* The second stop check.                                                  *)
LEMMA CheckKeeps ==
  ASSUME Inv, NEW w \in Workers, Check(w)
  PROVE  Inv'
<1> USE PoolAssumption, WorkerCount DEF Inv, vars, callerVars, jobVars, workerVars, stopVars
<1>1. TypeOK'
  BY DEF Check, TypeOK
<1>2. LockHeld' /\ JobOfOwner' /\ StopAfterCalls'
  BY DEF Check, TypeOK, LockHeld, JobOfOwner, StopAfterCalls
<1>3. Quiet' /\ Running' /\ Exiting'
  <2>1. Quiet'
    BY DEF Check, TypeOK, LockHeld, StopAfterCalls, Quiet, Running, Exiting, Published, Frame, Arrived
  <2>2. Running'
    <3>1. Arrived' = Arrived
      BY DEF Check, TypeOK, Arrived
    <3>2. QED
      BY <3>1 DEF Check, TypeOK, StopAfterCalls, Running, Published, Frame
  <2>3. Exiting'
    BY DEF Check, TypeOK, LockHeld, StopAfterCalls, Quiet, Running, Exiting, Published, Frame, Arrived
  <2> QED
    BY <2>1, <2>2, <2>3
<1>4. (nextIndex = Cardinality(Started))'
  BY DEF Check, TypeOK, Started
<1>5. QED
  BY <1>1, <1>2, <1>3, <1>4 DEF Inv

(* A worker joins the generation it sees, which is the published one.      *)
LEMMA TakeKeeps ==
  ASSUME Inv, NEW w \in Workers, Take(w)
  PROVE  Inv'
<1> USE PoolAssumption, WorkerCount DEF Inv, vars, callerVars, jobVars, workerVars, stopVars
<1>1. TypeOK'
  BY DEF Take, TypeOK
<1>2. LockHeld' /\ JobOfOwner' /\ StopAfterCalls'
  BY DEF Take, TypeOK, LockHeld, JobOfOwner, StopAfterCalls
<1>3. Quiet' /\ Running' /\ Exiting'
  <2>1. Quiet'
    BY DEF Take, TypeOK, LockHeld, StopAfterCalls, Quiet, Running, Exiting, Published, Frame, Arrived
  <2>2. Running'
    BY DEF Take, TypeOK, LockHeld, StopAfterCalls, Quiet, Running, Exiting, Published, Frame, Arrived
  <2>3. Exiting'
    BY DEF Take, TypeOK, LockHeld, StopAfterCalls, Quiet, Running, Exiting, Published, Frame, Arrived
  <2> QED
    BY <2>1, <2>2, <2>3
<1>4. (nextIndex = Cardinality(Started))'
  BY DEF Take, TypeOK, Started
<1>5. QED
  BY <1>1, <1>2, <1>3, <1>4 DEF Inv

(* A worker compares its index with the job's chunk count.                 *)
LEMMA TurnKeeps ==
  ASSUME Inv, NEW w \in Workers, Turn(w)
  PROVE  Inv'
<1> USE PoolAssumption, WorkerCount DEF Inv, vars, callerVars, jobVars, workerVars, stopVars
<1>1. TypeOK'
  BY DEF Turn, TypeOK
<1>2. LockHeld' /\ JobOfOwner' /\ StopAfterCalls'
  BY DEF Turn, TypeOK, LockHeld, JobOfOwner, StopAfterCalls
<1>3. Quiet' /\ Running' /\ Exiting'
  BY DEF Turn, TypeOK, LockHeld, StopAfterCalls, Quiet, Running, Exiting, Published, Frame, Arrived
<1>4. (nextIndex = Cardinality(Started))'
  BY DEF Turn, TypeOK, Started
<1>5. QED
  BY <1>1, <1>2, <1>3, <1>4 DEF Inv

(* A worker runs the body in the frame of the job's owner, which is alive. *)
LEMMA BodyKeeps ==
  ASSUME Inv, NEW w \in Workers, Body(w)
  PROVE  Inv'
<1> USE PoolAssumption, WorkerCount DEF Inv, vars, callerVars, jobVars, workerVars, stopVars
<1>1. TypeOK'
  <2>1. job \in Callers
    BY InsideItsFrame DEF Body
  <2>2. DOMAIN ran' = Callers /\ \A d \in Callers : ran'[d] \in [0 .. shape[d].total - 1 -> Nat]
    BY <2>1, CoveredType DEF Body
  <2>3. QED
    BY <2>2 DEF Body, TypeOK
<1>2. LockHeld' /\ JobOfOwner' /\ StopAfterCalls'
  BY DEF Body, TypeOK, LockHeld, JobOfOwner, StopAfterCalls
<1>3. Quiet' /\ Running' /\ Exiting'
  BY DEF Body, TypeOK, LockHeld, StopAfterCalls, Quiet, Running, Exiting, Published, Frame, Arrived
<1>4. (nextIndex = Cardinality(Started))'
  BY DEF Body, TypeOK, Started
<1>5. QED
  BY <1>1, <1>2, <1>3, <1>4 DEF Inv

(* One more worker has arrived.                                            *)
LEMMA ArriveKeeps ==
  ASSUME Inv, NEW w \in Workers, Arrive(w)
  PROVE  Inv'
<1> USE PoolAssumption, WorkerCount DEF Inv, vars, callerVars, jobVars, workerVars, stopVars
<1>1. TypeOK'
  <2>1. Published /\ generation = seen[w]
    BY InsideItsFrame DEF Arrive, Running, Published
  <2>2. Arrived \in SUBSET Workers /\ w \notin Arrived
    BY DEF Arrive, Arrived
  <2>3. arrived + 1 \in 0 .. Cardinality(Workers)
    BY <2>1, <2>2, OneMore DEF Running
  <2>4. QED
    BY <2>3 DEF Arrive, TypeOK
<1>2. LockHeld' /\ JobOfOwner' /\ StopAfterCalls'
  <2>1. ASSUME NEW c \in Callers PROVE pc[c] # "bump"
    BY InsideItsFrame DEF Arrive, LockHeld, Frame
  <2>2. QED
    BY <2>1 DEF Arrive, TypeOK, LockHeld, JobOfOwner, StopAfterCalls
<1>3. Quiet'
  BY DEF Arrive, TypeOK, LockHeld, StopAfterCalls, Quiet, Running, Exiting, Published, Frame
<1>4. Running'
  <2>1. Published /\ generation = seen[w]
    BY InsideItsFrame DEF Arrive, Running, Published
  <2>2. Arrived' = Arrived \cup {w} /\ w \notin Arrived /\ Arrived \in SUBSET Workers
    BY <2>1 DEF Arrive, TypeOK, Arrived
  <2>3. arrived' = Cardinality(Arrived')
    BY <2>1, <2>2, OneMore DEF Arrive, Running
  <2>4. QED
    BY <2>1, <2>3 DEF Arrive, TypeOK, Running, Published, Frame
<1>5. Exiting'
  BY DEF Arrive, TypeOK, StopAfterCalls, Quiet, Running, Exiting, Published, Frame
<1>6. (nextIndex = Cardinality(Started))'
  BY DEF Arrive, TypeOK, Started
<1>7. QED
  BY <1>1, <1>2, <1>3, <1>4, <1>5, <1>6 DEF Inv

(* The destructor sets stop_ after the last call.                          *)
LEMMA RequestStopKeeps ==
  ASSUME Inv, RequestStop
  PROVE  Inv'
<1> USE PoolAssumption, WorkerCount DEF Inv, vars, callerVars, jobVars, workerVars, stopVars
<1>1. TypeOK'
  BY DEF RequestStop, TypeOK
<1>2. LockHeld' /\ JobOfOwner' /\ StopAfterCalls'
  BY DEF RequestStop, TypeOK, LockHeld, JobOfOwner, StopAfterCalls
<1>3. Quiet' /\ Running' /\ Exiting'
  BY DEF RequestStop, TypeOK, LockHeld, StopAfterCalls, Quiet, Running, Exiting, Published, Frame, Arrived
<1>4. (nextIndex = Cardinality(Started))'
  BY DEF RequestStop, TypeOK, Started
<1>5. QED
  BY <1>1, <1>2, <1>3, <1>4 DEF Inv

(* The destructor's bump wakes everyone for nothing but the stop check.    *)
LEMMA WakeSpinnersKeeps ==
  ASSUME Inv, WakeSpinners
  PROVE  Inv'
<1> USE PoolAssumption, WorkerCount DEF Inv, vars, callerVars, jobVars, workerVars, stopVars
<1>1. TypeOK'
  BY DEF WakeSpinners, TypeOK
<1>2. LockHeld' /\ JobOfOwner' /\ StopAfterCalls'
  BY DEF WakeSpinners, TypeOK, LockHeld, JobOfOwner, StopAfterCalls
<1>3. Quiet' /\ Running' /\ Exiting'
  BY DEF WakeSpinners, TypeOK, LockHeld, StopAfterCalls, Quiet, Running, Exiting, Published, Frame, Arrived
<1>4. (nextIndex = Cardinality(Started))'
  BY DEF WakeSpinners, TypeOK, Started
<1>5. QED
  BY <1>1, <1>2, <1>3, <1>4 DEF Inv

(* The joins return.                                                       *)
LEMMA JoinedKeeps ==
  ASSUME Inv, Joined
  PROVE  Inv'
<1> USE PoolAssumption, WorkerCount DEF Inv, vars, callerVars, jobVars, workerVars, stopVars
<1>1. TypeOK'
  BY DEF Joined, TypeOK
<1>2. LockHeld' /\ JobOfOwner' /\ StopAfterCalls'
  BY DEF Joined, TypeOK, LockHeld, JobOfOwner, StopAfterCalls
<1>3. Quiet' /\ Running' /\ Exiting'
  BY DEF Joined, TypeOK, LockHeld, StopAfterCalls, Quiet, Running, Exiting, Published, Frame, Arrived
<1>4. (nextIndex = Cardinality(Started))'
  BY DEF Joined, TypeOK, Started
<1>5. QED
  BY <1>1, <1>2, <1>3, <1>4 DEF Inv

-----------------------------------------------------------------------------
(* The theorems.                                                           *)

LEMMA NextKeeps == Inv /\ [Next]_vars => Inv'
<1> SUFFICES ASSUME Inv, [Next]_vars PROVE Inv'
  OBVIOUS
<1>1. ASSUME NEW c \in Callers, Begin(c) \/ CallerStep(c) PROVE Inv'
  BY <1>1, BeginKeeps, RunSeriallyKeeps, ReturnSeriallyKeeps, LockKeeps, AssignJobKeeps,
     ResetBarrierKeeps, PublishKeeps, OwnChunkKeeps, ReturnKeeps DEF CallerStep
<1>2. ASSUME NEW w \in Workers, WorkerStep(w) PROVE Inv'
  BY <1>2, StartKeeps, WakeKeeps, SpinExitKeeps, CheckKeeps, TakeKeeps, TurnKeeps,
     BodyKeeps, ArriveKeeps DEF WorkerStep
<1>3. CASE RequestStop \/ DtorStep
  BY <1>3, RequestStopKeeps, WakeSpinnersKeeps, JoinedKeeps DEF DtorStep
<1>4. CASE UNCHANGED vars
  <2>1. UNCHANGED <<callerVars, jobVars, workerVars, stopVars, generation>>
    BY <1>4 DEF vars
  <2>2. TypeOK'
    BY <2>1 DEF callerVars, jobVars, workerVars, stopVars, Inv, TypeOK
  <2>3. LockHeld' /\ JobOfOwner' /\ StopAfterCalls'
    BY <2>1 DEF callerVars, jobVars, workerVars, stopVars, Inv, LockHeld, JobOfOwner, StopAfterCalls
  <2>4. Quiet' /\ Running' /\ Exiting'
    BY <2>1 DEF callerVars, jobVars, workerVars, stopVars, Inv, Quiet, Running, Exiting, Published, Frame, Arrived
  <2>5. (nextIndex = Cardinality(Started))'
    BY <2>1 DEF workerVars, Inv, Started
  <2>6. QED
    BY <2>2, <2>3, <2>4, <2>5 DEF Inv
<1>5. QED
  BY <1>1, <1>2, <1>3, <1>4 DEF Next, Gone

(* Every state of the pool satisfies the invariant: the atomics, the lock
   and the counts of parallel.h keep each other in step.                   *)
THEOREM Invariance == Spec => []Inv
<1>1. Init => Inv
  BY InitInv
<1>2. Inv /\ [Next]_vars => Inv'
  BY NextKeeps
<1>3. QED
  BY <1>1, <1>2, PTL DEF Spec

(* Every variable stays in its type: no index past the pool, no arrival
   beyond the number of workers.                                           *)
THEOREM TypeCorrect == Spec => []TypeOK
<1>1. Inv => TypeOK
  BY DEF Inv
<1>2. QED
  BY <1>1, Invariance, PTL

(* No worker is ever inside a job whose frame has been unwound, also when
   the process exits: the barrier of run_ranges and the second stop check
   of worker_main are enough.                                              *)
THEOREM FramesOutliveBodies == Spec => []FrameOutlivesBody
<1>1. Inv => FrameOutlivesBody
  BY InsideItsFrame DEF FrameOutlivesBody
<1>2. QED
  BY <1>1, Invariance, PTL

(* No worker misses a generation, so no caller waits for an arrival that
   cannot come.                                                            *)
THEOREM NobodyTwoBehind == Spec => []NeverTwoBehind
<1>1. Inv => NeverTwoBehind
  BY SMTT(30) DEF Inv, TypeOK, Quiet, Running, Exiting, NeverTwoBehind
<1>2. QED
  BY <1>1, Invariance, PTL

-----------------------------------------------------------------------------
(* What has been run at each point of a call.                              *)

(* The workers that have started have the indices 1 .. nextIndex, one each.*)
Indices ==
  /\ \A w \in Started : index[w] \in 1 .. nextIndex
  /\ \A v, w \in Started : index[v] = index[w] => v = w
  /\ \A k \in 1 .. nextIndex : \E w \in Started : index[w] = k

(* A call has something to do, its job is cut for its own shape, and a
   worker runs the body only for an index the job has.                     *)
JobFits ==
  /\ \A c \in Callers : pc[c] # "out" => shape[c].total # 0
  /\ \A c \in Callers : pc[c] \in {"reset", "bump", "chunk0", "barrier"} => chunks = Chunks(c)
  /\ \A w \in Workers : wpc[w] = "body" => index[w] < chunks

(* Chunk k of caller c's published job has been run: chunk 0 by the caller,
   another by the worker of that index, which is on its way to the barrier
   or has arrived.                                                         *)
RunBy(w, k) == index[w] = k /\ generation = seen[w] /\ wpc[w] \in {"arrive", "spin"}
ChunkDone(c, k) == (k = 0 /\ pc[c] = "barrier") \/ \E w \in Workers : RunBy(w, k)

Untouched ==
  \A c \in Callers : pc[c] \in {"serial", "lock", "job", "reset", "bump"} =>
    \A i \in DOMAIN ran[c] : ran[c][i] = 0

RunAlone ==
  \A c \in Callers : pc[c] = "done" => \A i \in DOMAIN ran[c] : ran[c][i] = 1

RunInPart ==
  \A c \in Callers : pc[c] \in Frame =>
    \A k \in 0 .. chunks - 1 : \A i \in ChunkRange(shape[c].total, k, chunks) :
      ran[c][i] = IF ChunkDone(c, k) THEN 1 ELSE 0

Coverage == Indices /\ JobFits /\ Untouched /\ RunAlone /\ RunInPart

(* The chunk count of a job whose owner holds the lock.                    *)
LEMMA JobChunks ==
  ASSUME Inv, JobFits, NEW c \in Callers, pc[c] \in {"reset", "bump", "chunk0", "barrier"}
  PROVE  /\ shape[c].total \in Nat \ {0}
         /\ chunks = Chunks(c) /\ chunks \in Nat \ {0}
         /\ chunks <= Size /\ chunks <= shape[c].total
<1>1. shape[c].total \in Nat \ {0} /\ shape[c].min_per_task \in Nat \ {0}
  BY DEF Inv, TypeOK, JobFits
<1>2. chunks = PartitionSize(shape[c].total, shape[c].min_per_task, Size)
  BY DEF JobFits, Chunks
<1>3. PartitionSize(shape[c].total, shape[c].min_per_task, Size) \in 1 .. Size
  BY <1>1, WorkerCount, ChunkCount
<1>4. PartitionSize(shape[c].total, shape[c].min_per_task, Size) <= shape[c].total
  BY <1>1, WorkerCount, NoMoreThanUnits
<1>5. QED
  BY <1>1, <1>2, <1>3, <1>4, WorkerCount DEF Chunks

(* The mutex admits one owner.                                             *)
LEMMA OneOwner ==
  ASSUME Inv, NEW c \in Callers, NEW d \in Callers,
         pc[c] \in {"job", "reset", "bump", "chunk0", "barrier"},
         pc[d] \in {"job", "reset", "bump", "chunk0", "barrier"}
  PROVE  c = d
BY DEF Inv, LockHeld

(* The record of a call has one entry per index of it.                     *)
LEMMA RanDomain ==
  ASSUME Inv, NEW c \in Callers
  PROVE  /\ DOMAIN ran = Callers /\ DOMAIN ran[c] = 0 .. shape[c].total - 1
         /\ \A i \in DOMAIN ran[c] : ran[c][i] \in Nat
BY DEF Inv, TypeOK

(* Indices stay: only Start hands one out.                                 *)
LEMMA IndicesKeep ==
  ASSUME Inv, Indices, [Next]_vars
  PROVE  Indices'
<1> USE DEF vars, callerVars, jobVars, workerVars, stopVars
<1>1. ASSUME NEW w \in Workers, Start(w) PROVE Indices'
  <2>1. Started' = Started \cup {w} /\ w \notin Started
    BY <1>1, SMTT(30) DEF Start, Inv, TypeOK, Started
  <2>2. nextIndex \in Nat /\ nextIndex' = nextIndex + 1
    BY <1>1, WorkerCount DEF Start, Inv, TypeOK
  <2>3. index'[w] = nextIndex + 1 /\ \A v \in Started : index'[v] = index[v]
    BY <1>1, <2>1 DEF Start, Inv, TypeOK, Started
  <2>4. \A v \in Started' : index'[v] \in 1 .. nextIndex'
    BY <2>1, <2>2, <2>3 DEF Indices
  <2>5. ASSUME NEW u \in Started', NEW v \in Started', index'[u] = index'[v] PROVE u = v
    BY <2>1, <2>2, <2>3, <2>5 DEF Indices
  <2>6. ASSUME NEW k \in 1 .. nextIndex' PROVE \E v \in Started' : index'[v] = k
    <3>1. CASE k = nextIndex + 1
      BY <2>1, <2>3, <3>1
    <3>2. CASE k # nextIndex + 1
      <4>1. k \in 1 .. nextIndex
        BY <2>2, <3>2
      <4>2. QED
        BY <4>1, <2>1, <2>3 DEF Indices
    <3>3. QED
      BY <3>1, <3>2
  <2>7. QED
    BY <2>4, <2>5, <2>6 DEF Indices
<1>2. ASSUME UNCHANGED <<nextIndex, index>>, Started' = Started PROVE Indices'
  BY <1>2 DEF Indices
<1>3. ASSUME NEW w \in Workers, WorkerStep(w), ~Start(w) PROVE Indices'
  <2>1. UNCHANGED <<nextIndex, index>>
    BY <1>3 DEF WorkerStep, Wake, SpinExit, Check, Take, Turn, Body, Arrive
  <2>2. Started' = Started
    BY <1>3 DEF WorkerStep, Wake, SpinExit, Check, Take, Turn, Body, Arrive, Started, Inv, TypeOK
  <2>3. QED
    BY <1>2, <2>1, <2>2
<1>4. ASSUME UNCHANGED workerVars PROVE Indices'
  BY <1>2, <1>4 DEF Started
<1>5. QED
  BY <1>1, <1>3, <1>4 DEF Next, CallerStep, DtorStep, Gone, Begin, RunSerially, ReturnSerially, Lock,
     AssignJob, ResetBarrier, Publish, OwnChunk, Return, RequestStop, WakeSpinners, Joined

(* What covering a range does to the records, entry by entry.              *)
LEMMA CoveredIs ==
  ASSUME Inv, NEW c \in Callers, NEW range, Covered(c, range)
  PROVE  /\ DOMAIN ran' = Callers
         /\ DOMAIN ran'[c] = DOMAIN ran[c]
         /\ \A i \in DOMAIN ran[c] : ran'[c][i] = IF i \in range THEN ran[c][i] + 1 ELSE ran[c][i]
         /\ \A d \in Callers : d # c => ran'[d] = ran[d]
BY DEF Inv, TypeOK, Covered

(* A step that runs nothing keeps what has been run of a published job.    *)
LEMMA PartKeeps ==
  ASSUME RunInPart, UNCHANGED <<ran, shape, chunks>>,
         \A c \in Callers : pc'[c] \in Frame =>
           /\ pc[c] \in Frame
           /\ \A k \in 0 .. chunks - 1 : ChunkDone(c, k)' <=> ChunkDone(c, k)
  PROVE  RunInPart'
BY DEF RunInPart

(* A step that runs chunk m of c's job, and counts as having run it.       *)
LEMMA PartGrows ==
  ASSUME Inv, JobFits, RunInPart, NEW c \in Callers, pc[c] \in Frame,
         NEW m \in 0 .. chunks - 1, Covered(c, ChunkRange(shape[c].total, m, chunks)),
         UNCHANGED <<shape, chunks>>,
         \A d \in Callers : pc'[d] \in Frame => d = c,
         ~ChunkDone(c, m),
         \A k \in 0 .. chunks - 1 : ChunkDone(c, k)' <=> ChunkDone(c, k) \/ k = m
  PROVE  RunInPart'
<1>1. chunks \in Nat \ {0} /\ shape[c].total \in Nat
  BY JobChunks DEF Frame
<1>2. ASSUME NEW k \in 0 .. chunks - 1, NEW i \in ChunkRange(shape[c].total, k, chunks)
      PROVE  ran'[c][i] = IF ChunkDone(c, k)' THEN 1 ELSE 0
  <2>1. i \in DOMAIN ran[c]
    BY <1>1, RangeInside, RanDomain
  <2>2. ran[c][i] = IF ChunkDone(c, k) THEN 1 ELSE 0
    BY DEF RunInPart
  <2>3. CASE k = m
    BY <2>1, <2>2, <2>3, CoveredIs
  <2>4. CASE k # m
    <3>1. i \notin ChunkRange(shape[c].total, m, chunks)
      BY <1>1, <2>4, RangesDisjoint
    <3>2. QED
      BY <2>1, <2>2, <2>4, <3>1, CoveredIs
  <2>5. QED
    BY <2>3, <2>4
<1>3. QED
  BY <1>2 DEF RunInPart

-----------------------------------------------------------------------------
(* Every step keeps the coverage.                                          *)

(* A call begins with nothing covered and no published job.                *)
LEMMA BeginCovers ==
  ASSUME Inv, Coverage, NEW c \in Callers, Begin(c)
  PROVE  JobFits' /\ Untouched' /\ RunAlone' /\ RunInPart'
<1> USE DEF vars, jobVars, workerVars, stopVars
<1>1. PICK s \in Shapes :
        /\ shape' = [shape EXCEPT ![c] = s]
        /\ ran' = [ran EXCEPT ![c] = [i \in 0 .. s.total - 1 |-> 0]]
        /\ pc' = [pc EXCEPT ![c] = IF PartitionSize(s.total, s.min_per_task, Size) <= 1
                                  THEN "serial" ELSE "lock"]
  BY DEF Begin
<1>2. s.total # 0 /\ pc[c] = "out" /\ pc'[c] \in {"serial", "lock"}
  BY <1>1, PoolAssumption DEF Begin, Inv, TypeOK
<1>3. \A d \in Callers : d # c => pc'[d] = pc[d] /\ shape'[d] = shape[d] /\ ran'[d] = ran[d]
  BY <1>1 DEF Inv, TypeOK
<1>4. shape'[c] = s /\ ran'[c] = [i \in 0 .. s.total - 1 |-> 0]
  BY <1>1 DEF Inv, TypeOK
<1>5. JobFits'
  BY <1>2, <1>3, <1>4 DEF Begin, Coverage, JobFits, Chunks
<1>6. Untouched' /\ RunAlone'
  <2>1. \A i \in DOMAIN ran'[c] : ran'[c][i] = 0
    BY <1>4
  <2>2. QED
    BY <1>2, <1>3, <2>1 DEF Coverage, Untouched, RunAlone
<1>7. RunInPart'
  BY <1>2, <1>3, <1>4 DEF Begin, Coverage, RunInPart, ChunkDone, RunBy, Frame
<1>8. QED
  BY <1>5, <1>6, <1>7

(* A serial call covers everything at once.                                *)
LEMMA RunSeriallyCovers ==
  ASSUME Inv, Coverage, NEW c \in Callers, RunSerially(c)
  PROVE  JobFits' /\ Untouched' /\ RunAlone' /\ RunInPart'
<1> USE DEF vars, jobVars, workerVars, stopVars
<1>1. pc[c] = "serial" /\ pc'[c] = "done" /\ \A d \in Callers : d # c => pc'[d] = pc[d]
  BY DEF RunSerially, Inv, TypeOK
<1>2. DOMAIN ran'[c] = DOMAIN ran[c] /\ \A i \in DOMAIN ran[c] : ran'[c][i] = 1
  <2>1. Covered(c, 0 .. shape[c].total - 1)
    BY DEF RunSerially
  <2>2. DOMAIN ran[c] = 0 .. shape[c].total - 1 /\ \A i \in DOMAIN ran[c] : ran[c][i] = 0
    BY <1>1, RanDomain DEF Coverage, Untouched
  <2>3. ran'[c] = [i \in DOMAIN ran[c] |-> IF i \in 0 .. shape[c].total - 1 THEN ran[c][i] + 1 ELSE ran[c][i]]
    BY <2>1, RanDomain DEF Covered
  <2>4. ASSUME NEW i \in DOMAIN ran[c] PROVE ran'[c][i] = 1
    <3>1. ran'[c][i] = IF i \in 0 .. shape[c].total - 1 THEN ran[c][i] + 1 ELSE ran[c][i]
      BY <2>3
    <3>2. i \in 0 .. shape[c].total - 1 /\ ran[c][i] = 0
      BY <2>2
    <3>3. QED
      BY <3>1, <3>2
  <2>5. QED
    BY <2>3, <2>4
<1>3. \A d \in Callers : d # c => ran'[d] = ran[d]
  BY CoveredIs DEF RunSerially
<1>4. JobFits'
  BY <1>1 DEF RunSerially, Coverage, JobFits, Chunks
<1>5. Untouched' /\ RunAlone'
  BY <1>1, <1>2, <1>3 DEF RunSerially, Coverage, Untouched, RunAlone
<1>6. RunInPart'
  BY <1>1, <1>3 DEF RunSerially, Coverage, RunInPart, ChunkDone, RunBy, Frame
<1>7. QED
  BY <1>4, <1>5, <1>6

(* The steps of a caller that run nothing.                                 *)
LEMMA CallerCovers ==
  ASSUME Inv, Coverage, NEW c \in Callers,
         ReturnSerially(c) \/ Lock(c) \/ AssignJob(c) \/ ResetBarrier(c) \/ Return(c)
  PROVE  JobFits' /\ Untouched' /\ RunAlone' /\ RunInPart'
<1> USE DEF vars, jobVars, workerVars, stopVars
<1>1. /\ UNCHANGED <<ran, shape, index, generation, seen, wpc>>
      /\ \A d \in Callers : d # c => pc'[d] = pc[d]
      /\ pc'[c] \in {"out", "job", "reset", "bump"}
  BY DEF ReturnSerially, Lock, AssignJob, ResetBarrier, Return, Inv, TypeOK
<1>2. pc'[c] \in {"job", "reset", "bump"} => pc[c] \in {"lock", "job", "reset"}
  BY DEF ReturnSerially, Lock, AssignJob, ResetBarrier, Return, Inv, TypeOK
<1>3. JobFits'
  <2>1. \A d \in Callers : pc'[d] # "out" => shape'[d].total # 0
    BY <1>1, <1>2 DEF Coverage, JobFits
  <2>2. CASE AssignJob(c)
    <3>1. \A d \in Callers : pc'[d] \in {"reset", "bump", "chunk0", "barrier"} => d = c
      BY <1>1, <2>2, OneOwner DEF AssignJob
    <3>2. ASSUME NEW w \in Workers PROVE wpc[w] # "body"
      BY <2>2, InsideItsFrame, OneOwner DEF AssignJob, Frame
    <3>3. QED
      BY <1>1, <2>1, <2>2, <3>1, <3>2 DEF AssignJob, JobFits, Chunks
  <2>3. CASE ~AssignJob(c)
    <3>1. chunks' = chunks
      BY <2>3 DEF ReturnSerially, Lock, ResetBarrier, Return
    <3>2. pc'[c] \in {"reset", "bump"} => pc[c] \in {"reset", "bump"}
      BY <2>3 DEF ReturnSerially, Lock, ResetBarrier, Return, Inv, TypeOK
    <3>3. QED
      BY <1>1, <2>1, <3>1, <3>2 DEF Coverage, JobFits, Chunks
  <2>4. QED
    BY <2>2, <2>3
<1>4. Untouched' /\ RunAlone'
  BY <1>1, <1>2 DEF Coverage, Untouched, RunAlone
<1>5. RunInPart'
  <2>1. ASSUME NEW d \in Callers, pc'[d] \in Frame PROVE pc[d] = pc'[d] /\ d # c
    BY <1>1, <2>1 DEF Frame
  <2>2. CASE AssignJob(c)
    BY <2>1, <2>2, OneOwner DEF AssignJob, RunInPart, Frame
  <2>3. CASE ~AssignJob(c)
    <3>1. chunks' = chunks
      BY <2>3 DEF ReturnSerially, Lock, ResetBarrier, Return
    <3>2. QED
      BY <1>1, <2>1, <3>1, PartKeeps DEF Coverage, ChunkDone, RunBy
  <2>4. QED
    BY <2>2, <2>3
<1>6. QED
  BY <1>3, <1>4, <1>5

(* At publication nobody has joined the new generation and nothing is run. *)
LEMMA PublishCovers ==
  ASSUME Inv, Coverage, NEW c \in Callers, Publish(c)
  PROVE  JobFits' /\ Untouched' /\ RunAlone' /\ RunInPart'
<1> USE DEF vars, jobVars, workerVars, stopVars
<1>1. /\ pc[c] = "bump" /\ pc'[c] = "chunk0" /\ \A d \in Callers : d # c => pc'[d] = pc[d]
      /\ UNCHANGED <<ran, shape, chunks, index, seen, wpc>> /\ generation' = generation + 1
  BY DEF Publish, Inv, TypeOK
<1>2. JobFits'
  BY <1>1 DEF Coverage, JobFits, Chunks
<1>3. Untouched' /\ RunAlone'
  BY <1>1 DEF Coverage, Untouched, RunAlone
<1>4. ASSUME NEW w \in Workers PROVE seen[w] = generation
  <2>1. dtor = "up" /\ ~Published
    BY <1>1, OneOwner DEF Inv, StopAfterCalls, Published, Frame
  <2>2. QED
    BY <2>1 DEF Inv, Quiet
<1>5. ASSUME NEW k PROVE ~ChunkDone(c, k)'
  BY <1>1, <1>4 DEF ChunkDone, RunBy, Inv, TypeOK
<1>6. RunInPart'
  <2>1. \A d \in Callers : pc'[d] \in Frame => d = c
    BY <1>1, OneOwner DEF Frame
  <2>2. chunks \in Nat \ {0} /\ shape[c].total \in Nat
    BY <1>1, JobChunks DEF Coverage
  <2>3. ASSUME NEW k \in 0 .. chunks - 1, NEW i \in ChunkRange(shape[c].total, k, chunks)
        PROVE  ran[c][i] = 0
    <3>1. i \in DOMAIN ran[c]
      BY <2>2, RangeInside, RanDomain
    <3>2. QED
      BY <1>1, <3>1 DEF Coverage, Untouched
  <2>4. QED
    BY <1>1, <1>5, <2>1, <2>3 DEF RunInPart
<1>7. QED
  BY <1>2, <1>3, <1>6

(* The caller has run chunk 0, which no worker runs.                       *)
LEMMA OwnChunkCovers ==
  ASSUME Inv, Coverage, NEW c \in Callers, OwnChunk(c)
  PROVE  JobFits' /\ Untouched' /\ RunAlone' /\ RunInPart'
<1> USE DEF vars, jobVars, workerVars, stopVars
<1>1. /\ pc[c] = "chunk0" /\ pc'[c] = "barrier" /\ \A d \in Callers : d # c => pc'[d] = pc[d]
      /\ UNCHANGED <<shape, chunks, index, seen, wpc, generation>>
      /\ Covered(c, ChunkRange(shape[c].total, 0, Chunks(c)))
  BY DEF OwnChunk, Inv, TypeOK
<1>2. chunks = Chunks(c) /\ chunks \in Nat \ {0}
  BY <1>1, JobChunks DEF Coverage
<1>3. JobFits'
  BY <1>1 DEF Coverage, JobFits, Chunks
<1>4. Untouched' /\ RunAlone'
  BY <1>1, CoveredIs DEF Coverage, Untouched, RunAlone
<1>5. ASSUME NEW w \in Workers PROVE ~RunBy(w, 0)
  <2>1. CASE w \in Started
    BY <2>1 DEF Coverage, Indices, RunBy
  <2>2. CASE w \notin Started
    BY <2>2 DEF Started, RunBy
  <2>3. QED
    BY <2>1, <2>2
<1>6. RunInPart'
  <2>1. pc[c] \in Frame /\ \A d \in Callers : pc'[d] \in Frame => d = c
    BY <1>1, OneOwner DEF Frame
  <2>2. ~ChunkDone(c, 0) /\ 0 \in 0 .. chunks - 1
    BY <1>1, <1>2, <1>5 DEF ChunkDone
  <2>3. \A k \in 0 .. chunks - 1 : ChunkDone(c, k)' <=> ChunkDone(c, k) \/ k = 0
    BY <1>1 DEF ChunkDone, RunBy
  <2>4. QED
    BY <1>1, <1>2, <2>1, <2>2, <2>3, PartGrows DEF Coverage
<1>7. QED
  BY <1>3, <1>4, <1>6

(* A worker has run the body: its chunk, which nobody else has.            *)
LEMMA BodyCovers ==
  ASSUME Inv, Coverage, NEW w \in Workers, Body(w)
  PROVE  JobFits' /\ Untouched' /\ RunAlone' /\ RunInPart'
<1> USE DEF vars, jobVars, workerVars, stopVars
<1>1. job \in Callers /\ pc[job] \in Frame
  BY InsideItsFrame DEF Body
<1>2. /\ wpc[w] = "body" /\ wpc' = [wpc EXCEPT ![w] = "arrive"]
      /\ UNCHANGED <<pc, shape, chunks, index, seen, generation>>
      /\ Covered(job, ChunkRange(shape[job].total, index[w], Chunks(job)))
  BY DEF Body
<1>3. chunks = Chunks(job) /\ chunks \in Nat \ {0}
  BY <1>1, JobChunks DEF Coverage, Frame
<1>4. index[w] \in 1 .. chunks - 1
  <2>1. w \in Started /\ index[w] < chunks /\ nextIndex \in Nat
    BY <1>2, WorkerCount DEF Coverage, JobFits, Started, Inv, TypeOK
  <2>2. QED
    BY <1>3, <2>1 DEF Coverage, Indices
<1>5. JobFits'
  BY <1>2 DEF Coverage, JobFits, Chunks, Inv, TypeOK
<1>6. Untouched' /\ RunAlone'
  BY <1>1, <1>2, CoveredIs DEF Coverage, Untouched, RunAlone, Frame
<1>7. RunInPart'
  <2>1. \A d \in Callers : pc'[d] \in Frame => d = job
    BY <1>1, <1>2, OneOwner DEF Frame
  <2>2. ~ChunkDone(job, index[w])
    <3>1. ASSUME NEW v \in Workers, RunBy(v, index[w]) PROVE FALSE
      BY <1>2, <3>1 DEF RunBy, Coverage, Indices, Started
    <3>2. QED
      BY <1>4, <3>1 DEF ChunkDone
  <2>3. generation = seen[w]
    BY <1>1, <1>2 DEF Inv, Running, Published
  <2>4. \A v \in Workers, k \in 0 .. chunks - 1 :
          RunBy(v, k)' <=> RunBy(v, k) \/ (v = w /\ k = index[w])
    BY <1>2, <2>3 DEF RunBy, Inv, TypeOK
  <2>5. \A k \in 0 .. chunks - 1 : ChunkDone(job, k)' <=> ChunkDone(job, k) \/ k = index[w]
    <3>1. UNCHANGED job
      BY DEF Body
    <3>2. QED
      BY <1>2, <2>4, <3>1 DEF ChunkDone
  <2>6. index[w] \in 0 .. chunks - 1
    BY <1>4
  <2>7. UNCHANGED job
    BY DEF Body
  <2>8. QED
    BY <1>1, <1>2, <1>3, <2>1, <2>2, <2>5, <2>6, <2>7, PartGrows DEF Coverage
<1>8. QED
  BY <1>5, <1>6, <1>7

(* The other steps of a worker run nothing: a chunk is done before them if
   and only if it is done after them.                                      *)
LEMMA WorkerCovers ==
  ASSUME Inv, Coverage, NEW w \in Workers,
         Start(w) \/ Wake(w) \/ SpinExit(w) \/ Check(w) \/ Take(w) \/ Turn(w) \/ Arrive(w)
  PROVE  JobFits' /\ Untouched' /\ RunAlone' /\ RunInPart'
<1> USE DEF vars, callerVars, jobVars, stopVars
<1>1. UNCHANGED <<pc, shape, ran, chunks, generation>>
  BY DEF Start, Wake, SpinExit, Check, Take, Turn, Arrive
<1>2. \A v \in Workers : v # w => wpc'[v] = wpc[v] /\ index'[v] = index[v] /\ seen'[v] = seen[v]
  BY DEF Start, Wake, SpinExit, Check, Take, Turn, Arrive, Inv, TypeOK
<1>3. JobFits'
  <2>1. wpc'[w] = "body" => index'[w] < chunks
    BY DEF Start, Wake, SpinExit, Check, Take, Turn, Arrive, Inv, TypeOK
  <2>2. QED
    BY <1>1, <1>2, <2>1 DEF Coverage, JobFits, Chunks
<1>4. Untouched' /\ RunAlone'
  BY <1>1 DEF Coverage, Untouched, RunAlone
<1>5. ASSUME NEW c \in Callers, pc[c] \in Frame, NEW k \in 0 .. chunks - 1
      PROVE  ChunkDone(c, k)' <=> ChunkDone(c, k)
  <2>1. \A v \in Workers : v # w => (RunBy(v, k)' <=> RunBy(v, k))
    BY <1>1, <1>2 DEF RunBy
  <2>2. Published /\ ~stop
    BY <1>5 DEF Published, Frame, Inv, StopAfterCalls
  <2>3. \/ generation = seen[w] + 1 /\ wpc[w] \in {"start", "spin", "check", "take"}
        \/ generation = seen[w] /\ wpc[w] \in {"spin", "turn", "body", "arrive"}
    BY <2>2 DEF Inv, Running
  <2>4. RunBy(w, k)' <=> RunBy(w, k)
    <3>1. CASE Start(w) \/ Wake(w) \/ Check(w) \/ Take(w)
      <4>1. ~RunBy(w, k)
        BY <2>3, <3>1 DEF RunBy, Start, Wake, Check, Take, Inv, TypeOK
      <4>2. wpc'[w] = "spin" => generation = seen[w] + 1 /\ seen'[w] = seen[w]
        BY <2>3, <3>1 DEF Start, Wake, Check, Take, Inv, TypeOK
      <4>3. wpc'[w] # "arrive"
        BY <3>1 DEF Start, Wake, Check, Take, Inv, TypeOK
      <4>4. ~RunBy(w, k)'
        BY <1>1, <4>2, <4>3 DEF RunBy, Inv, TypeOK
      <4>5. QED
        BY <4>1, <4>4
    <3>2. CASE SpinExit(w)
      BY <2>2, <3>2 DEF SpinExit
    <3>3. CASE Turn(w)
      <4>1. wpc[w] = "turn" /\ index'[w] = index[w] /\ chunks \in Nat
        BY <3>3, WorkerCount DEF Turn, Inv, TypeOK, Size
      <4>2. wpc'[w] \in {"arrive", "spin"} => index[w] # k
        BY <3>3, <4>1, WorkerCount DEF Turn, Inv, TypeOK
      <4>3. QED
        BY <4>1, <4>2 DEF RunBy
    <3>4. CASE Arrive(w)
      BY <3>4 DEF RunBy, Arrive, Inv, TypeOK
    <3>5. QED
      BY <3>1, <3>2, <3>3, <3>4
  <2>5. QED
    BY <1>1, <2>1, <2>4 DEF ChunkDone
<1>6. RunInPart'
  BY <1>1, <1>5, PartKeeps DEF Coverage
<1>7. QED
  BY <1>3, <1>4, <1>6

(* The destructor runs after the last call.                                *)
LEMMA DtorCovers ==
  ASSUME Inv, Coverage, RequestStop \/ DtorStep \/ UNCHANGED vars
  PROVE  JobFits' /\ Untouched' /\ RunAlone' /\ RunInPart'
<1> USE DEF vars, callerVars, jobVars, workerVars, stopVars
<1>1. UNCHANGED <<pc, shape, ran, chunks, wpc, index, seen>>
  BY DEF RequestStop, DtorStep, WakeSpinners, Joined
<1>2. JobFits' /\ Untouched' /\ RunAlone'
  BY <1>1 DEF Coverage, JobFits, Chunks, Untouched, RunAlone
<1>3. ASSUME NEW c \in Callers, pc[c] \in Frame PROVE UNCHANGED generation
  BY <1>3 DEF RequestStop, DtorStep, WakeSpinners, Joined, Inv, StopAfterCalls, Frame
<1>4. RunInPart'
  BY <1>1, <1>3, PartKeeps DEF Coverage, ChunkDone, RunBy
<1>5. QED
  BY <1>2, <1>4

(* The steps together.                                                     *)
LEMMA CoverageKeeps == Inv /\ Coverage /\ [Next]_vars => Coverage'
<1> SUFFICES ASSUME Inv, Coverage, [Next]_vars PROVE Coverage'
  OBVIOUS
<1>1. Indices'
  BY IndicesKeep DEF Coverage
<1>2. JobFits' /\ Untouched' /\ RunAlone' /\ RunInPart'
  <2>1. ASSUME NEW c \in Callers, Begin(c) \/ CallerStep(c)
        PROVE  JobFits' /\ Untouched' /\ RunAlone' /\ RunInPart'
    BY <2>1, BeginCovers, RunSeriallyCovers, CallerCovers, PublishCovers, OwnChunkCovers DEF CallerStep
  <2>2. ASSUME NEW w \in Workers, WorkerStep(w)
        PROVE  JobFits' /\ Untouched' /\ RunAlone' /\ RunInPart'
    BY <2>2, BodyCovers, WorkerCovers DEF WorkerStep
  <2>3. QED
    BY <2>1, <2>2, DtorCovers DEF Next, Gone
<1>3. QED
  BY <1>1, <1>2 DEF Coverage

(* Nobody has started and nobody has called.                               *)
LEMMA InitCovers == Init => Coverage
<1> SUFFICES ASSUME Init PROVE Coverage
  OBVIOUS
<1>1. Started = {}
  BY DEF Init, Started
<1>2. Indices
  BY <1>1 DEF Init, Indices
<1>3. JobFits /\ Untouched /\ RunAlone /\ RunInPart
  BY DEF Init, JobFits, Untouched, RunAlone, RunInPart, Frame
<1>4. QED
  BY <1>2, <1>3 DEF Coverage

-----------------------------------------------------------------------------
(* The refinement.                                                         *)

(* When the barrier opens, every worker has arrived and every index of the
   call has been covered once.                                             *)
LEMMA AllCovered ==
  ASSUME Inv, Coverage, NEW c \in Callers, Return(c)
  PROVE  \A i \in DOMAIN ran[c] : ran[c][i] = 1
<1>1. Published /\ workersLeft = Cardinality(Workers) /\ pc[c] = "barrier"
  BY DEF Return, Inv, JobOfOwner, Published, Frame
<1>2. Cardinality(Arrived) = Cardinality(Workers)
  BY <1>1 DEF Return, Inv, Running
<1>3. Arrived = Workers
  BY <1>2, AllArrived DEF Arrived
<1>4. nextIndex = Cardinality(Workers)
  BY <1>3 DEF Arrived, Started, Inv
<1>5. chunks \in Nat \ {0} /\ chunks <= Size /\ shape[c].total \in Nat
  BY <1>1, JobChunks DEF Coverage
<1>6. ASSUME NEW k \in 0 .. chunks - 1 PROVE ChunkDone(c, k)
  <2>1. CASE k = 0
    BY <1>1, <2>1 DEF ChunkDone
  <2>2. CASE k # 0
    <3>1. k \in 1 .. nextIndex
      BY <1>4, <1>5, <2>2, WorkerCount DEF Size
    <3>2. PICK w \in Started : index[w] = k
      BY <3>1 DEF Coverage, Indices
    <3>3. w \in Workers /\ RunBy(w, k)
      BY <1>3, <3>2 DEF Started, Arrived, RunBy
    <3>4. QED
      BY <3>3 DEF ChunkDone
  <2>3. QED
    BY <2>1, <2>2
<1>7. ASSUME NEW i \in DOMAIN ran[c] PROVE ran[c][i] = 1
  <2>1. PICK k \in 0 .. chunks - 1 : i \in ChunkRange(shape[c].total, k, chunks)
    BY <1>5, RanDomain, RangesCover
  <2>2. QED
    BY <1>1, <1>6, <2>1 DEF Coverage, RunInPart, Frame
<1>8. QED
  BY <1>7

(* A range that is run as a range of the promise.                          *)
LEMMA PromisedRun ==
  ASSUME Inv, NEW c \in Callers, pc[c] # "out",
         \A d \in Callers : pc'[d] # "out" <=> pc[d] # "out",
         NEW lo \in DOMAIN ran[c], NEW hi \in DOMAIN ran[c], lo <= hi,
         \A i \in lo .. hi : ran[c][i] = 0, Covered(c, lo .. hi)
  PROVE  Promise!Next
<1>1. [i \in DOMAIN ran[c] |-> IF i \in lo .. hi THEN ran[c][i] + 1 ELSE ran[c][i]]
        = [i \in DOMAIN ran[c] |-> IF i \in lo .. hi THEN 1 ELSE ran[c][i]]
  <2>1. \A i \in lo .. hi : ran[c][i] + 1 = 1
    OBVIOUS
  <2>2. QED
    BY <2>1
<1>2. ran' = [ran EXCEPT ![c] = [i \in DOMAIN ran[c] |-> IF i \in lo .. hi THEN 1 ELSE ran[c][i]]]
  BY <1>1 DEF Covered
<1>3. lo .. hi # {}
  <2>1. lo \in Int /\ hi \in Int
    <3>1. shape[c].total \in Nat
      BY DEF Inv, TypeOK
    <3>2. QED
      BY <3>1, RanDomain
  <2>2. lo \in lo .. hi
    BY <2>1
  <2>3. QED
    BY <2>2
<1>4. [d \in Callers |-> pc[d] # "out"]' = [d \in Callers |-> pc[d] # "out"]
  OBVIOUS
<1>5. Promise!Run(c, lo .. hi)
  BY <1>2, <1>3, <1>4 DEF Promise!Run
<1>6. QED
  BY <1>5 DEF Promise!Next

(* Chunk m of a published job that is not done yet, run as a range.        *)
LEMMA PromisedChunk ==
  ASSUME Inv, Coverage, NEW c \in Callers, pc[c] \in Frame,
         \A d \in Callers : pc'[d] # "out" <=> pc[d] # "out",
         NEW m \in 0 .. chunks - 1, ~ChunkDone(c, m),
         Covered(c, ChunkRange(shape[c].total, m, chunks))
  PROVE  Promise!Next
<1> DEFINE lo == Bound(shape[c].total, m, chunks)
           hi == Bound(shape[c].total, m + 1, chunks) - 1
<1>1. chunks \in Nat \ {0} /\ shape[c].total \in Nat /\ chunks <= shape[c].total
  BY JobChunks DEF Coverage, Frame
<1>2. lo \in Int /\ hi \in Int /\ lo <= hi /\ lo .. hi \subseteq DOMAIN ran[c]
  <2>1. lo \in Int /\ hi + 1 \in Int /\ lo <= hi
    BY <1>1, RangeInside
  <2>2. ChunkRange(shape[c].total, m, chunks) = lo .. hi
    BY DEF ChunkRange
  <2>3. lo .. hi \subseteq DOMAIN ran[c]
    <3>1. ChunkRange(shape[c].total, m, chunks) \subseteq 0 .. shape[c].total - 1
      BY <1>1, RangeInside
    <3>2. QED
      BY <2>2, <3>1, RanDomain
  <2>4. hi \in Int
    BY <1>1, RangeInside
  <2>5. QED
    BY <2>1, <2>3, <2>4
<1>3. \A i \in lo .. hi : ran[c][i] = 0
  BY DEF Coverage, RunInPart, ChunkRange
<1>4. lo \in DOMAIN ran[c] /\ hi \in DOMAIN ran[c]
  BY <1>2
<1>5. pc[c] # "out" /\ Covered(c, lo .. hi)
  BY DEF Frame, ChunkRange
<1> HIDE DEF lo, hi
<1>6. QED
  BY <1>2, <1>3, <1>4, <1>5, PromisedRun

(* Every step of the pool is a step of the promise, or none.               *)
LEMMA StepIsPromised ==
  Inv /\ Coverage /\ [Next]_vars => [Promise!Next]_(Promise!vars)
<1> SUFFICES ASSUME Inv, Coverage, [Next]_vars PROVE [Promise!Next]_(Promise!vars)
  OBVIOUS
<1> USE DEF vars, callerVars, jobVars, workerVars, stopVars
<1>1. ASSUME UNCHANGED ran, \A d \in Callers : pc'[d] # "out" <=> pc[d] # "out"
      PROVE  UNCHANGED Promise!vars
  BY <1>1 DEF Promise!vars
<1>2. ASSUME NEW c \in Callers, Begin(c) PROVE Promise!Next
  <2>1. PICK s \in Shapes :
          /\ ran' = [ran EXCEPT ![c] = [i \in 0 .. s.total - 1 |-> 0]]
          /\ pc' = [pc EXCEPT ![c] = IF PartitionSize(s.total, s.min_per_task, Size) <= 1
                                    THEN "serial" ELSE "lock"]
    BY <1>2 DEF Begin
  <2>2. pc[c] = "out" /\ pc'[c] # "out" /\ \A d \in Callers : d # c => pc'[d] = pc[d]
    BY <1>2, <2>1 DEF Begin, Inv, TypeOK
  <2>3. [d \in Callers |-> pc[d] # "out"]' = [[d \in Callers |-> pc[d] # "out"] EXCEPT ![c] = TRUE]
    BY <2>2
  <2>4. Promise!Begin(c, s.total)
    BY <2>1, <2>2, <2>3 DEF Promise!Begin
  <2>5. s.total \in {t.total : t \in Shapes}
    OBVIOUS
  <2>6. QED
    BY <2>4, <2>5 DEF Promise!Next
<1>3. ASSUME NEW c \in Callers, RunSerially(c) PROVE Promise!Next
  <2>1. pc[c] = "serial" /\ shape[c].total \in Nat \ {0} /\ DOMAIN ran[c] = 0 .. shape[c].total - 1
    BY <1>3, RanDomain DEF RunSerially, Coverage, JobFits, Inv, TypeOK
  <2>2. \A d \in Callers : pc'[d] # "out" <=> pc[d] # "out"
    BY <1>3 DEF RunSerially, Inv, TypeOK
  <2>3. \A i \in 0 .. shape[c].total - 1 : ran[c][i] = 0
    BY <2>1 DEF Coverage, Untouched
  <2>4. 0 \in DOMAIN ran[c] /\ shape[c].total - 1 \in DOMAIN ran[c] /\ 0 <= shape[c].total - 1
    BY <2>1
  <2>5. QED
    BY <1>3, <2>1, <2>2, <2>3, <2>4, PromisedRun DEF RunSerially
<1>4. ASSUME NEW c \in Callers, OwnChunk(c) PROVE Promise!Next
  <2>1. pc[c] = "chunk0" /\ pc[c] \in Frame
    BY <1>4 DEF OwnChunk, Frame
  <2>2. \A d \in Callers : pc'[d] # "out" <=> pc[d] # "out"
    BY <1>4 DEF OwnChunk, Inv, TypeOK
  <2>3. chunks = Chunks(c) /\ 0 \in 0 .. chunks - 1
    BY <2>1, JobChunks DEF Coverage
  <2>4. ~ChunkDone(c, 0)
    BY <2>1 DEF ChunkDone, RunBy, Coverage, Indices, Started
  <2>5. QED
    BY <1>4, <2>1, <2>2, <2>3, <2>4, PromisedChunk DEF OwnChunk
<1>5. ASSUME NEW w \in Workers, Body(w) PROVE Promise!Next
  <2>1. job \in Callers /\ pc[job] \in Frame
    BY <1>5, InsideItsFrame DEF Body
  <2>2. \A d \in Callers : pc'[d] # "out" <=> pc[d] # "out"
    BY <1>5 DEF Body
  <2>3. chunks = Chunks(job) /\ chunks \in Nat \ {0}
    BY <2>1, JobChunks DEF Coverage, Frame
  <2>4. index[w] \in 1 .. chunks - 1
    <3>1. w \in Started /\ index[w] < chunks /\ nextIndex \in Nat
      BY <1>5, WorkerCount DEF Body, Coverage, JobFits, Started, Inv, TypeOK
    <3>2. QED
      BY <2>3, <3>1 DEF Coverage, Indices
  <2>5. ~ChunkDone(job, index[w])
    BY <1>5, <2>4 DEF ChunkDone, RunBy, Body, Coverage, Indices, Started
  <2>6. index[w] \in 0 .. chunks - 1
    BY <2>4
  <2>7. QED
    BY <1>5, <2>1, <2>2, <2>3, <2>5, <2>6, PromisedChunk DEF Body
<1>6. ASSUME NEW c \in Callers, ReturnSerially(c) \/ Return(c) PROVE Promise!Next
  <2>1. /\ pc[c] # "out" /\ pc'[c] = "out" /\ UNCHANGED ran
        /\ \A d \in Callers : d # c => pc'[d] = pc[d]
    BY <1>6 DEF ReturnSerially, Return, Inv, TypeOK
  <2>2. \A i \in DOMAIN ran[c] : ran[c][i] = 1
    BY <1>6, AllCovered DEF ReturnSerially, Coverage, RunAlone
  <2>3. [d \in Callers |-> pc[d] # "out"]' = [[d \in Callers |-> pc[d] # "out"] EXCEPT ![c] = FALSE]
    BY <2>1
  <2>4. Promise!Return(c)
    BY <2>1, <2>2, <2>3 DEF Promise!Return
  <2>5. QED
    BY <2>4 DEF Promise!Next
<1>7. ASSUME NEW c \in Callers, Lock(c) \/ AssignJob(c) \/ ResetBarrier(c) \/ Publish(c)
      PROVE  UNCHANGED Promise!vars
  BY <1>1, <1>7 DEF Lock, AssignJob, ResetBarrier, Publish, Inv, TypeOK
<1>8. ASSUME NEW w \in Workers, WorkerStep(w), ~Body(w) PROVE UNCHANGED Promise!vars
  BY <1>1, <1>8 DEF WorkerStep, Start, Wake, SpinExit, Check, Take, Turn, Arrive
<1>9. CASE RequestStop \/ DtorStep \/ UNCHANGED vars
  BY <1>1, <1>9 DEF RequestStop, DtorStep, WakeSpinners, Joined
<1>10. QED
  BY <1>2, <1>3, <1>4, <1>5, <1>6, <1>7, <1>8, <1>9 DEF Next, CallerStep, Gone

(* run_ranges keeps its promise, for any number of callers and workers and
   any shapes: the ranges it hands out are disjoint, each is run once, and
   no call returns before its last range has been run.                     *)
THEOREM PoolKeepsPromise == Spec => ImplementsParallelFor
<1>1. Init => Promise!Init
  <2>1. Init => [c \in Callers |-> pc[c] # "out"] = [c \in Callers |-> FALSE]
    BY DEF Init
  <2>2. QED
    BY <2>1 DEF Init, Promise!Init
<1>2. Init => Coverage
  BY InitCovers
<1>3. Inv /\ Coverage /\ [Next]_vars => Coverage'
  BY CoverageKeeps
<1>4. Inv /\ Coverage /\ [Next]_vars => [Promise!Next]_(Promise!vars)
  BY StepIsPromised
<1>5. QED
  BY <1>1, <1>2, <1>3, <1>4, Invariance, PTL DEF Spec, ImplementsParallelFor, Promise!Spec
=============================================================================
