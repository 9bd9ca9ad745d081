------------------------------ MODULE MCKernels ------------------------------
EXTENDS KernelRun

(* One call of each kernel, at a shape with a tail in every direction. *)
Norm(n, c)   == [op |-> "norm", n |-> n, d |-> 3, centred |-> c]
Map          == [op |-> "map", n |-> 5]
Argmax       == [op |-> "argmax", values |-> <<1, 3, 2, 3, 0>>]
Gemm(m, a)   == [op |-> "gemm", m |-> m, n |-> 3, k |-> 3, accumulate |-> a, bias |-> a]
Quant(m, n, k, a) ==
  [op |-> "gemm_quant", m |-> m, n |-> n, k |-> k, accumulate |-> a, bias |-> ~a, integer |-> TRUE, splitLimit |-> 1]
Float(o)     == [o EXCEPT !.integer = FALSE]
Silu         == [op |-> "silu_mul", n |-> 3]
Embedding(t) == [op |-> "embedding", tokens |-> t, d |-> 3, vocab |-> 2]
Conv(h, w, c) == [op |-> "conv2d", batch |-> 2, height |-> h, width |-> w, outCh |-> 2, kernel |-> 2,
                  stride |-> 2, pad |-> 1, channelMajor |-> c]
Rope(s)      == [op |-> "rope", tokens |-> 2, heads |-> 2, d |-> 4, start |-> 1, split |-> s]
KvAppend     == [op |-> "kv_append", n |-> 4, kvHeads |-> 2]
Attention(q, h, kv, off, first, kept) ==
  [op |-> "attention", qLen |-> q, heads |-> h, kvHeads |-> kv, qOffset |-> off, firstKey |-> first,
   causal |-> TRUE, kept |-> kept, heldRows |-> q + 1, heldSpan |-> off + q + 1]
Full         == [Attention(2, 2, 2, 2, 1, FALSE) EXCEPT !.causal = FALSE]

On(where, threads, calls) == {[on |-> where, threads |-> threads] @@ o : o \in calls}

CpuJobs ==
  On("cpu", 2, {Norm(3, TRUE), Norm(3, FALSE), Map, Argmax, Gemm(2, TRUE), Quant(3, 2, 4, TRUE),
                Float(Quant(3, 2, 4, FALSE)), Embedding(<<1, 5, 0>>), Conv(3, 2, TRUE), Conv(3, 2, FALSE),
                Rope(TRUE), Rope(FALSE), KvAppend, Full}) \cup
  On("cpu", 3, {Attention(1, 4, 2, 6, 1, FALSE), Attention(5, 3, 1, 1, 0, FALSE),
                Attention(3, 4, 2, 1, 1, TRUE), Attention(5, 2, 1, 0, 0, TRUE)})
CudaJobs ==
  On("cuda", 2, {Norm(2, TRUE), Norm(2, FALSE), Map, Embedding(<<5, 1>>), Conv(2, 1, TRUE), Conv(2, 1, FALSE),
                 Rope(TRUE), Rope(FALSE), Full, Gemm(1, TRUE),
                 Quant(1, 2, 8, TRUE), Quant(1, 3, 8, FALSE), Quant(2, 1, 4, TRUE), Quant(3, 3, 2, TRUE),
                 Quant(3, 1, 4, FALSE), Attention(1, 2, 1, 3, 1, FALSE), Attention(2, 1, 1, 1, 1, FALSE)}) \cup
  On("cuda", 4, {Argmax, Gemm(5, TRUE)})

AscendJobs ==
  {[on |-> "ascend", threads |-> 2, syncEach |-> e] @@ o : e \in BOOLEAN, o \in
     {[Gemm(2, a) EXCEPT !.bias = FALSE] : a \in BOOLEAN} \cup
     {[Quant(2, 3, 4, a) EXCEPT !.bias = FALSE] : a \in BOOLEAN}} \cup
  On("ascend", 2, {Norm(2, FALSE), Norm(2, TRUE), KvAppend, Silu, Argmax, Embedding(<<1, 5, 0>>), Rope(TRUE), Full,
                   Attention(2, 4, 2, 1, 0, FALSE)})

(* Grouped attention whose group the batch of heads does not divide. *)
OddGroups == On("cpu", 2, {Attention(3, 2, 2, 0, 0, FALSE)})

Calls == CpuJobs \cup CudaJobs \cup AscendJobs
=============================================================================
