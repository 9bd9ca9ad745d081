------------------------------ MODULE Partition ------------------------------
(***************************************************************************)
(* How kernel/parallel.h cuts [0, total) into contiguous ranges: the       *)
(* chunk count (`partition_size`) and the range of chunk i (the lambda     *)
(* that `run_ranges` stores in `job_`).                                    *)
(***************************************************************************)
EXTENDS Integers

(* The number of ranges for `total` units, a floor of `minPerTask` units
   per range and `threads` threads.                                        *)
PartitionSize(total, minPerTask, threads) ==
  IF total <= 0 \/ threads <= 0
  THEN 0
  ELSE LET asked  == (total + minPerTask - 1) \div minPerTask
           chunks == IF asked < 1 THEN 1 ELSE asked
       IN  IF chunks < threads THEN chunks ELSE threads

(* Chunk i of `chunks` starts at Bound(total, i, chunks) and ends before
   Bound(total, i + 1, chunks).                                            *)
Bound(total, i, chunks) == (total * i) \div chunks

ChunkRange(total, i, chunks) ==
  Bound(total, i, chunks) .. Bound(total, i + 1, chunks) - 1
=============================================================================
