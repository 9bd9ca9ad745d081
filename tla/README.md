# PocketLLM: TLA+ models and proofs

PocketLLM serves language models on small machines: a C++ engine (`src/`: a model,
a KV cache, kernels for CPU, CUDA and Ascend, a tokenizer, image and sound towers, a
C API), a Python engine of its own (`python/pocketllm/engine/`) and a Python host
(`python/pocketllm/server/`) over interchangeable backends.  This directory holds
TLA+ models of it, written from the code: who may touch the engine when, which rows
of a cache a request attends to, which address each task of a kernel writes, which
bits of a block a dot product multiplies, who owns a buffer, what a stream has
already sent when the end of an answer is found.  Where a comment, a docstring or a
test claims something of the code, the claim is a property.

Paths are relative to the repository's root; `src/...` is the C++ tree.

- [1. The system](#1-the-system)
- [2. The modules](#2-the-modules)
- [3. Modules and code](#3-modules-and-code)
- [4. What each run asks and shows](#4-what-each-run-asks-and-shows)
- [5. Fairness](#5-fairness)
- [6. Disagreements between the code and its own words](#6-disagreements-between-the-code-and-its-own-words)
- [7. What is proved](#7-what-is-proved)
- [8. Not modelled, and the abstractions made](#8-not-modelled-and-the-abstractions-made)
- [9. Plan](#9-plan)
- [10. Running it](#10-running-it)

## 1. The system

```
   HTTP threads (server/openai.py)
        |  generate / stream / close             GenerationRequest, TokenEvent
        v
   NativeBackend (server/native_backend.py)      XlmBackend (server/xlm_backend.py)
     _pending + condition, scheduler thread        _lock, one worker thread a stream
        |  reset/reserve/forward*/decode             |  XlmEngine.infer (xlm.py)
        v                                            v
   C API (src/c_api.cpp)                           vendor runtime (not in the repository)
        |                                            ^
        v                                            |  the whole process can run under
   Session, VlmSession, AsrSession (src/runtime/)    watchdog.py, which tails its stdout
        |            |  towers: image_preprocess, qwen3vl_vision,
        |            |          audio_frontend, qwen3a_audio (src/model/)
        v            v
   Qwen3Model (src/model/qwen3.cpp): KV slabs, rotary tables, scratch, weights
        |  Backend::allocate/release, one virtual call an op (kernel/backend.h)
        v
   kernels: cpu -> run_ranges -> ThreadPool | cuda grids | ascend stream

   Python engine (engine/llm.py -> executor.py -> session.py): a verified graph,
   a plan of it, a buffer arena, one kernel call a node
```

| Part | State | What is hard | What makes it correct |
|---|---|---|---|
| **CPU thread pool** `kernel/parallel.h` | `mutex_`, `job_`, `workers_left_`, `arrived_in_job_`, `generation_`, `stop_`, a `seen` a worker | `job_` refers to the caller's stack frame; workers spin and may be arbitrarily late; several callers | ranges disjoint and covering, nobody returns before the last body, no worker in a dead frame, nobody hangs |
| **Session and KV cache** `runtime/session.cpp`, `model/qwen3.cpp` | `position_`, `seq_len_`, slabs with capacity and slots, rotary rows | growth moves rows; two owners of "the length"; addresses are computed twice | a sequence attends to exactly what it was fed; no row outside the slabs; the table as long as the cache |
| **Serving engine loop** `server/native_backend.py` `_run_serial`, `_run_group` | group, budgets, `group_steps` | members of unequal length that end at different steps are padded | the reservation never grows and is never refused |
| **Image and sound sessions** `runtime/vlm_session.cpp`, `runtime/asr_session.cpp` | the session's cache, the report of a composition | rotary positions and cache rows are two counts; a tower throws half way | every row is the text's or the media's it was laid out for, and the report is right |
| **Batch scheduler** `server/native_backend.py` | `_pending`, `_queued`, `RequestState`, one channel a job, `_closed`/`_stopping` | close races submit; a group fails half way; a partial group waits with the lock given back | one answer each, gauges that lag by at most one answered request, engine freed after its thread |
| **Text of a request** `native_backend.py`, `protocol/templating.py`, `native.py` | emitted ids, decoded text, the splitter's halves | a token ends inside a character, a marker or a stop sequence; what was sent cannot be taken back | stream and collect agree, nothing twice, nothing lost |
| **Delegate backend** `xlm_backend.py`, `xlm.py` | `_lock`, one dict shared by all calls, file descriptor 1, the vendor handle | a stream can end while its worker is inside the vendor call | answers not mixed, fd 1 restored, handle destroyed alone |
| **Watchdog** `watchdog.py` | the child, the tailed file, a decoder, two clocks | polls and the child's end interleave; a read ends inside a character | all text forwarded, only silence is killed, the outcome tells the truth |
| **Kernels and quantized formats** `kernel/kernels.cpp`, `repack_q4k.cpp`, `quant/` | none between calls; scratch during one | tails, tiles and threads; a format has a loop a build, a row count and an environment variable | every address gets the terms the reference kernels give it, each once; every form multiplies the same weights in the promised order |
| **Accelerator backends** `kernel/cuda/backend.cu`, `kernel/ascend/backend.cpp` | blocks and barriers; a stream, staged operands, kept planes | a read before a barrier; a buffer freed before the stream has run; a plane kept for a handle that has been reused | the same contract as the CPU's |
| **Device memory of a session** `model/qwen3.cpp`, `qwen3vl_vision.cpp`, `qwen3a_audio.cpp`, `kernel/*/backend.cpp` | handles, the allocator, the Ascend's planes by key | tied weights, repacked weights, tables and scratch that grow, loads that fail | each read finds what it means, each place one owner, given back once |
| **Python engine** `engine/memory.py`, `executor.py`, `planner.py` | an arena's pools and live buffers, a run's values | buffers are reused the moment their last reader has run | no value is overwritten before its last use, the plan costs what it says |
| **Image and audio towers** `image_preprocess.cpp`, `audio_frontend.cpp`, ... | none | rounding to a grid, tails of a clip, orders of tokens | limits kept, every patch and frame in its place |
| **GGUF reader and tokenizer** `gguf/`, `tokenizer/` | none after load | specials, splits, merges, bytes as characters | tokens as the reference rules give them, text comes back |
| HTTP host `server/openai.py`, `metrics.py` | a socket a request | parsing and formatting | not modelled (section 8) |

The parts interact by call and by shared memory: the scheduler thread is the only
user of a `Session`; HTTP threads and the scheduler share a condition variable and a
queue a request; a kernel's caller blocks in `run_ranges`.  So the models compose
vertically through *what a part promises* rather than by one product of
everything: `ParallelFor`, `KvLog`, `RequestService` and `OpContract` are the four
promises, and each detailed module is checked to keep its own.

## 2. The modules

| Module | Models | Remarks |
|---|---|---|
| `Partition` | `partition_size`, the split of `[0, total)` | pure; also used by the CPU kernels |
| `ParallelFor` | what `run_ranges` promises | abstract specification |
| `ThreadPool` | the pool, an action for each shared-memory step | implements `ParallelFor` |
| `ThreadPoolProofs` | theorems of `ThreadPool` | section 7 |
| `KvLog` | an append-only log for each live sequence | abstract specification |
| `KvSession` | `Session` and the cache of `Qwen3Model`, an action for each call | |
| `ServingKv` | extends it: the engine calls of the serving loops | implements `KvLog` (one layer, or window = context) |
| `KvHosts` | extends that: five programs that drive a cache | implements `KvLog` |
| `HostsProofs` | theorems of `KvSession`, `ServingKv` and `KvHosts` | section 7 |
| `RequestService` | what `generate`/`stream`/`close` promise | abstract specification |
| `BatchScheduler` | HTTP threads, scheduler thread, closer | implements `RequestService` |
| `SchedulerProofs` | theorems of `BatchScheduler` | section 7 |
| `TextStream` | ids to text to deltas to result | one request, streamed and collected |
| `TextProofs` | theorems of `TextStream` | section 7 |
| `XlmBackend` | lock, worker threads, shared dict, fd 1, close | `patient`: streams are drained |
| `XlmProofs` | theorems of `XlmBackend` | section 7 |
| `Watchdog` | the watcher and its child | an action for each look at the child |
| `WatchdogProofs` | theorems of `Watchdog` | section 7 |
| `SequenceLemmas` | least elements, sequences packed by `FlattenSeq`, prefixes | lemmas that `HostsProofs`, `TextProofs`, `WatchdogProofs` and `MemoryProofs` rest on |
| `OpContract` | what each op owes, from the reference kernels | abstract: terms, not numbers |
| `CpuKernels` `CudaKernels` `AscendKernels` | the ops of each backend, cut into tasks, lanes or stream launches | operators |
| `KernelRun` | one op running on one of them | state machine over the three |
| `QuantBlocks` | which bits of a block make a weight | |
| `QuantForms` `PanelForms` | the loops that read a block, the interleaved panels | operators |
| `FormRun` | a dot product in one form, attention's among them, to its final sum | state machine over them |
| `Numbers` `Modalities` `Words` | half floats, int8 blocks, sampling; image and audio geometry; the tokenizer | operators and reference definitions |
| `Conversions` | one call of any of these | |
| `ModelMemory` | load, calls and destructor of a text model, on an allocator that may hand out any free place, with the Ascend's planes | operators on a device record, and actions |
| `TowerMemory` | extends it: a vision or audio tower on the same device | |
| `GraphExecutor` | the Python engine's arena, plans and runs | |
| `MemoryProofs` | theorems of `GraphExecutor`, and of both halves of `MCMemory` | section 7 |
| `MC...` | the small instances | `MCMemory`, `MCThreadPool` and `MCArithmetic` join several systems in one run |

A definition named `Thing_Something` next to `Thing` is a *wrong variant*: a plausible
mistake in that code.  Nothing uses it; exchanging the two breaks a named property
(`PROJECT.json`, `mutants`), which is how each property was shown to depend on the code.

## 3. Modules and code

**ThreadPool.**  A caller goes through `pc`: `out` -> (`serial` -> `done`) when one
chunk is enough, or `lock` -> `job` -> `reset` -> `bump` -> `chunk0` -> `barrier` -> `out`;
each arrow is one assignment block of `run_ranges` another thread could come between.
A worker goes `start` -> `spin` -> `check` -> `take` -> `turn` -> `body` -> `arrive` ->
`spin`, `check` being the second `stop_` test and `take` the `seen = generation_` after
it.  `ran[c][i]` is a ghost: how often the body covered index i of c's call.  Chunk
bodies are one step: what they do inside is `KernelRun`'s.  Atomics are sequentially
consistent, which is sound here: `generation_` is published with release and read with
acquire, the plain fields of the job are written before and read after it, and the one
relaxed store (`arrived_in_job_ = 0`) comes before the publication too.

**KvSession, ServingKv, KvHosts.**  `kv.rows` is a slab as a function from addresses to
rows; `Address` is the expression of `forward_impl`, and the copy loop of `ensure_kv` is
modelled with *its* address expression.  A row remembers layer, position, token and
rotary position of the forward that wrote it, so `Attended` - what the attention would
read - can be compared with the log.  The calls are `Forward`, `ForwardSpan`,
`ForwardTurned`, `ForwardBatch`, `Reserve`, `Reset`; each answers `ok` or the refusal the
code's conditions give it.  `ServingKv` makes them in the order of `_run_serial` and
`_run_group`, with `_start_job`'s budgets, the window check and the padding by
`_FINISHED_TOKEN`.  `KvHosts` lets the host be one of five programs: one conversation;
any call in any order; the server; `VlmSession::compose` (text, a grid of image rows with
rotary positions of their own, text from one past the grid's side); and
`AsrSession::compose` with `generate` (text, windows of sound, text, a token at a time),
in which the tower can throw between two windows.

**BatchScheduler.**  `cpc[c]` follows a caller through `_submit`, with the two looks at
`_closed` (the first without the lock) and the pieces of bookkeeping as steps of their
own.  `spc` follows the scheduler through `_scheduler_loop`, `_take_group_locked` (`grace`
is the timed wait, in which the lock is free and the group's jobs are already off the
queue), `_start_job`s, engine calls and folded tokens, and `_finish_job` one job at a
time: the put of the answer (two puts for the end of a stream), the clear and the leave
are each a step, since callers and close run between them.  A refusal is likewise three
steps, under the condition's lock (`CvFree`).  `zpc` is `close`; its `join(timeout=60)` may give up.  `channel[j]` is everything
ever put on a job's queue, `read[j]` how much of it was taken.

**TextStream.**  `Advance(token)` is the whole of `_advance_job` for a token that does
not end the sequence: all ids decoded again (`Utf8` is CPython's decoder, `EngineDecode`
adds the C API's buffer), the stripped tail, the splitter, the stop sequences, the
budget.  `sent` is what a streaming client has, `result` what the collected path returns
from the same tokens.  `<think>` is the two characters `<` `>` here and `</think>` the three
`<` `/` `>`: they begin alike, come in one token or several, and what of them has come is
streamed.  The letters left out would only be further places to cut at, like the one that
is there.  `cut` remembers a text that was the beginning of an opener.

**XlmBackend, Watchdog.**  `ipc[c]` is where c's `XlmEngine.infer` is, on the caller's
thread (`_run`) or on the stream's worker, independent of `pc[c]`, where the generator is:
that a generator can be gone while its `infer` runs is the point.  `state` is the dict all
calls share.  `patient`, fixed at the start, says whether the clients of this run read
their streams to the end.  In `Watchdog` the child writes bytes and ends at any time;
`Poll`, `Read` and `Judge` are the three looks the loop takes at it; time passes only in
the sleeps, any of which may be overslept.

**OpContract, the three backends, KernelRun.**  A number is stood for by the ordered
terms it is made of: an atom is `<<buffer, index>>`, what that address held when the op was
called.  `OpContract` reads from `backends/reference/kernels.py` which terms every output
address of an op is owed.  The backend modules give what one step of a lane stores, at
the addresses the code computes from its block, thread, chunk and tile: a unit of a
`parallel_for` task on the CPU; a thread between two `__syncthreads` in CUDA (its lane is
block x, block y, thread; a launch is a barrier for the grid); the host, the stream and
the build threads on Ascend, where a launch runs at any later time, in order, and the
host goes on.  `KernelRun` interleaves the lanes.  A term read from a wrong address, read
before it was stored or after it was freed, added twice or not at all is then a
different value.

**QuantBlocks, the forms, FormRun.**  A number unpacked from a block is the sequence of
the block's bits it was OR-ed from.  `QuantBlocks` is the layout of every format, as
`quant/blocks.h` decodes it; `QuantForms` and `PanelForms` are the loops inside dot
products (scalar, AVX2, int8, CUDA, the repacked q6_k, the woven q4_k panel and its two
kernels), each as the terms it adds: weight bits, scale, min, activation.  `FormRun` has
the five forms of attention's dot, whose terms also name the chain of the sum they are
added to.  A step (`Walk`) is a run of 32 weights, or of four products, or of what is left
over; `chains` keeps what each chain added and in which order, and `Reduce` puts the
chains together as the form's last line does.  A 0.0F added to a sum is not shown, for it
changes none.

**Numbers, Modalities, Words, Conversions.**  Pure algorithms as operators beside
a reference definition: half floats against round-to-nearest, int8 blocks against their
bound, `topk_sample` against the Python reference; the resize of an image against its
limits and the order of patches, angles and learned positions against the picture; the
windows of a clip against its frames, the transform's index arithmetic against the
definition of the DFT, the convolution's layout against its channels; the pre-tokenizer
against the regex it replaces, the merges against the rank order, and `decode(encode(text))`
against the text; so is the decoding of the same text spelled in `<0xXX>` byte tokens, with
ids of no token among them.  The half-float conversion is the scalar one.

**ModelMemory, TowerMemory.**  A place holds a content (of what, in which form, which
version), and an allocation may return any place released before.  A load and a call are
lists of steps, one for each helper of the code; a step that throws ends the list.  The
load is refused at any tensor (`BindThrows`).  Of a layer's seven matrices two are kept:
`w_down`, with which the local joins `layers_` (`LayerJoined`), and `wq` for those bound
before it; the destructor walks the layers that joined (`LayersList`).  `reads` is what
the last step read and what it meant to.  The Ascend backend's planes are kept by key for
the life of the process, as the code keeps them.

**GraphExecutor.**  `BeginRun` and `RunNode` are the loop of `Executor.run`: a node's
outputs acquired from the `BufferArena` by exact size, the kernel call, the values whose
last reader it was given back.  `OpRefused` and `NoMemory` end a run half way.
`PlanMemory` is `plan_memory`, `PlanExecution` the regions of `plan_execution`.  Outputs
are the caller's until `ReleaseResult`; a cache handed from run to run is an output that
is the next run's input.  `CloseArena` is `Executor.close`.

## 4. What each run asks and shows

Every passing run explores its whole state space.  A run of several modules begins with
one of them, and the others at their end: `pool_kernels` is the pool and the kernels,
`arithmetic_text` the pure algorithms, the text of an answer and the watchdog, `memory`
the device and the arena of the Python engine.

| Run | Instance and bounds | Checked | Shows |
|---|---|---|---|
| `pool_kernels` | 2 callers, 2 workers, 2 calls each, three shapes, fair | `FrameOutlivesBody` `Inv` `ImplementsParallelFor` `EveryoneReturns` | no worker is in a frame that has returned, none falls two generations behind, each index is run once before its call returns, nobody hangs; the invariant of section 7 holds |
| `pool_kernels` | 54 calls of the ops on CPU, CUDA and Ascend, shapes with a tail in every direction, tiles and thresholds scaled to 1 to 4 | `NoTwoWrite` `Delivers` `StaysInside` | in every order of tasks, threads and launches each address gets the terms it is owed; scratch is never outrun |
| `kv` | 1 or 2 layers, context 6, window 4, batch 2, prompts of 1, 3, 4, `max_tokens` 2 or 9, grids of 1 or 2 a side, 1 or 2 windows of sound | `RopeCoversCache` `CompositionInPlace` `ForwardStaysInside` `ImplementsLog` `GroupFitsItsReservation` `RefusedOnlyPastContext` | growth, resets, groups, images and sound never change what a sequence attends to; any order of calls stays inside the slabs; the budget left by the longest prompt is enough for the padding |
| `serving_growth` | 2 layers, context 4, window 2 | `ServedLog` | violated, section 6 |
| `attention_heads` | the kernels, one attention with as many KV heads as heads | `Delivers` | violated, section 6 |
| `dot_switch` | attention's dots of 6 and 8 products | `SwitchKeepsBytes` | violated, section 6 |
| `arithmetic_text` | every form of every format, dots of 0, 4, 6, 8 and 11 products; the inputs listed below | `MeetsItsOwn` `OneOrder` `NumbersWithin` `SamplesLikeReference` `PicturesInPlace` `SoundsCovered` `WordsLikeReference` `TextComesBack` | the pure algorithms agree with their references |
| `arithmetic_text` | a model that thinks, a stop sequence of two characters, 5 tokens | `NotMangled` `AnswerIsResult` `TextOnlyGrows` | whatever a token ends in, nothing sent is taken back; unless a stop sequence ended it, the stream carries the collected answer, and its reasoning but for what a straddling `</think>` or `<think>` costs |
| `arithmetic_text` | stall window 2 polls, hard cap 4, 3 bytes, fair | `Transparent` `OutcomeIsTrue` `WatchEnds` | text forwarded whole, only a silent child killed, a hung child does not hang the watcher |
| `memory` | 8 checkpoints on 4 devices, context 3, 3 calls; 4 graphs, 3 runs of each | `ReadsAreTrue` `OneOwner` `GivesBackOnce` `RunsAsPlanned` | whatever was released and reused before, a read finds what it means; a close, of a load refused half way too, leaves nothing but what is named; the first run of a graph costs what its plan says |
| `memory_owned` | the same | `OwnedIsAllocated` | violated, section 6 |
| `sched` | one call for two requests, one stream, sampled or not, batch 2, 2 tokens, `FairSpec` | `EngineFreedLast` `GaugesFollow` `AnswersWellFormed` `ImplementsService` `EveryoneEnds` | all races of submit, grace wait, failures, disconnect and close |
| `xlm` | two callers at a time of 1 collected and 2 streams, 1 piece, patient or leaving, fair | `PatientAnswersAreOwn` `StdoutPutBack` `DestroyedAlone` `EveryCallEnds` | with patient clients the lock keeps everything apart; with any, every request and the close end |
| `xlm_stop` | all three, 2 pieces, leaving | `AnswersAreOwn` | violated, section 6 |
| `text_opener` | the text of an answer, 3 tokens | `OnlyMarkerIsLost` | violated, section 6 |

Why the bounds are enough to make the cases happen:

- *Pool.* Two callers contend for the lock, two workers can be at different generations,
  two calls each give the late worker of one job a next job to join by mistake.  The
  shapes include one chunk (serial), fewer chunks than executors (idle workers that must
  still arrive) and a remainder.
- *KV.* Context 6 from one initial position grows through 1, 2, 4 and 6, the last one
  capped off a power of two.  Two layers and two slots are the least for which
  layer-major and sequence-major order differ.  Prompts are shorter than, one below and
  as long as the window; `max_tokens` is small, or larger than the context.  Grids of one
  and two a side in each direction; a grid of 2 by 2 makes rotary positions and cache
  rows differ.  The server has one layer here: with two and a window shorter than the
  context its log does not hold, which is `serving_growth`.
- *Kernels.* Every tile, block, chunk and threshold the code compares a shape with is a
  constant, scaled down so that a shape of 2 to 6 has a whole tile and a tail of it, is
  above and below each threshold, and is cut among 2 to 4 threads unevenly.  The
  addresses are the code's with those constants.
- *Arithmetic.* Formats are at full size: 256 weights a block, every bit.  Halves: both
  ends of six exponents, with nudges around every midpoint.  Distributions over four
  tokens, ties included, with masses that reach one and that do not.  Images of every
  size to 17 and beyond the maximum.  Clips to several windows and every tail.  Texts of
  up to four characters of one to four bytes, with special tokens that begin one another.
- *Memory.* A context of 3 grows slab and table twice.  Three calls allow a growth, an
  image larger than the last and one smaller.  Any place released is offered again, the
  worst an allocator can do.  The graphs hold a chain, a cache handed on, an output nothing reads,
  and a value read late that is an output as well.
- *Scheduler.* Batch 2 with 3 requests fills a group, leaves one behind, and lets a
  partial group wait.  A call of two requests can be refused between them.
- *Delegate.* Two callers are the least for one to be abandoned and another to start.
- *Watchdog.* A stall window of two polls gives silence room to be interrupted once;
  three bytes make one read end inside a character and another complete it.
- *Text.* A vocabulary with every piece of a character, of an opener, of a marker and of
  a stop sequence, alone and inside a longer token; five tokens are enough for an opener
  cut in two, reasoning lost with its end, more reasoning, and a marker cut in two.

Deadlock is checked in every passing run but `memory`, where the work is over when the
session is.  The others that may stop have a stuttering action for it (`Gone`, `Ended`,
`Over`), enabled only when everything has really ended, so any other stop of a pool, a
thread or a watch is reported.  An op, a call and an answer end by themselves.

## 5. Fairness

Liveness is stated under weak fairness of each thread, and of nothing else.

- `ThreadPool`: every caller inside a call, every worker and the destructor keep
  running - the operating system's scheduler, for threads that spin.  Nobody has to
  call.  The mutex needs no strong fairness because calls are bounded.
- `BatchScheduler`: every caller and the scheduler thread.  A timed wait ends because the
  step after it is always enabled.  An engine call returns or raises: it is arithmetic.
  Nobody has to call, disconnect or close.
- `XlmBackend`: the same, and that the vendor call returns.  That is the vendor's promise;
  without it nothing here can end, and the watchdog exists for that case.
- `Watchdog`: only the watcher.  The child may hang at every byte, and a sleep may be
  overslept any finite number of times.

## 6. Disagreements between the code and its own words

Six have a run of their own, which ends in the violation:

| Run | The code | What the repository says |
|---|---|---|
| `serving_growth` | `ensure_kv` copies rows in layer-major slab order, `forward_impl` keeps them in sequence-major order; a growth of a cache with two slots and several layers moves other rows (`src/model/qwen3.cpp:1326`, `:1174`) | the growth must "carry the rows already written across" (`:1278`) |
| `attention_heads` | a prefill tile takes two heads at a time and one KV head for both, so with as many KV heads as heads, or an odd group, the second head can be computed from the wrong keys (`src/kernel/kernels.cpp:2407`) | "any `group` is handled by the pairing loop" (`kernels.h:410`), and `tests/native/test_cpu_parallel.py:738`, which compares two kernels that share the tile |
| `dot_switch` | what is left over beside whole fours goes on `dot`'s first chain (`src/kernel/kernels.cpp:240`), and in a tail that is added last in `dot4`, `dot_pair` and `dot_tile_r` (`:324`, `:463`, `:550`): for a width over four that is not a whole number of fours the sums associate differently | "the *same* four accumulator chains" (`:246`), "the two forms compute the same number", compared byte for byte (`:292`), with tail loops for "a shape that is not a multiple of four" (`:281`) |
| `text_opener` | a `<think>` is taken off once it is whole (`protocol/templating.py:159`, `:161`), but what came of it in an earlier token is already streamed; the reasoning then no longer starts with what was sent, and `feed` drops that token's part of it (`python/pocketllm/server/native_backend.py:903`) | "The one case that cannot be recovered is a `</think>` marker straddling a token boundary" (`:889`); "The cost is the one case the marker straddles a token boundary" (`templating.py:153`) |
| `memory_owned` | a grid that outgrows `scores_` releases it and allocates another; `owned_` keeps the first handle, which the destructor releases again, and the new one is in no list (`src/model/qwen3vl_vision.cpp:511`, `:158`) | `owned_` is "Every buffer this model allocated, so the destructor is a loop rather than a list that a weight added later can be missing from" (`qwen3vl_vision.h:268`) |
| `xlm_stop` | `stream`'s `finally` gives the lock back while its worker is inside `xlm_infer`; the abandoned call's pieces reach the next answer (`python/pocketllm/server/xlm_backend.py:397`) | "The lock is held across the whole generator", and why that is load-bearing (`:39-42`, `:327`) |

`serving_growth` needs a window shorter than the context, a group, and then a serial
request that outgrows the group's reservation.  For the cause of `xlm_stop`, and
only with clients that leave, fd 1 can also be restored in the wrong order and close can
destroy the session under a call, against "cannot be `xlm_destroy`-ed while a call is
inside it" (`watchdog.py:28`); this is why `StdoutPutBack` and `DestroyedAlone` speak of
patient clients.

### Differences

These were met while modelling.  The models contain what the code does; the properties
are stated so that they hold around it.

Cache and sessions:
- `partition_size` rounds the number of chunks up, so 5 units with a floor of 2 become
  ranges of 1, 2 and 2 (`kernel/parallel.h:303`); `min_per_task` "is a floor on the work
  handed to one range" (`:383`).
- `Session::reserve` zeroes `position_` and the model keeps `seq_len_`; the next forward is
  refused, and so is every later one until a reset (`runtime/session.cpp:192`), although
  "keeping the two in one object is what stops them drifting" (`session.h:151`).  Together
  with the growth above this is why the host that makes any call in any order is exempt
  from `ImplementsLog`.
- The span of an image gets positions on a square of the rounded root of its tokens,
  "the merged grid is square" (`runtime/vlm_session.cpp:158`).  A picture need not be: a
  merged grid of 1 by 2 has side 1, and its second token turns like the first token of the
  text after it.  `CompositionInPlace` therefore speaks of square grids in that part.
- One prompt over the window fails its whole group.

Kernels:
- The tails of the attention dots, above.  The widths the engine's graphs use are whole
  fours, for which `OneOrder` holds of all five forms; with a tail it holds of the four
  vector forms.  The test that compares
  bytes with and without the switch has a width of 128
  (`tests/native/test_cpu_parallel.py:523`).

Text:
- `_stop_match` takes the first sequence *of the list* that occurs
  (`native_backend.py:916`); `_trim_stop` promises "up to the earliest stop sequence" (`:923`).
- A stream sends a token's text before it looks for a stop sequence (`:590`), and the
  collected path trims it; "streaming and collecting cannot drift" (`:363-365`).
- In chat mode the text before a `</think>` is sent as content and, when the marker
  arrives, again as reasoning (`:906`); "each step reports only what is new" (`:886-887`).
- `Engine.decode` gives the C API `max(256, 8 * n)` bytes and the rest is cut silently
  (`native.py:426`, `c_api.cpp:151-155`); "the text of everything generated so far"
  (`native_backend.py:668`).  `TextStream` with `CapMin = 3`, `CapPer = 1`, `Budget = 4` shows it.
- `add_bos_token` is a GGUF boolean and `get_int` reads numbers only, so no BOS is
  ever added (`tokenizer/bpe.cpp:202`).
- Bytes that are not UTF-8 are replaced before they are split, and a special token spelled
  with a character the vocabulary writes bytes with (U+00E9, say) is not cut out; neither
  text comes back.

Memory (each exempted by name in `TowerMemory` or `GraphExecutor`):
- `position_table_resampled_` never joins `owned_` (`qwen3vl_vision.cpp:390`), and the
  per-token rotary table and the deepstack planes are not in `~Qwen3Model`'s list
  (`qwen3.cpp:111`): no close releases them, nor the scratch of a tower that replaced it.
- A layer is a local until its last matrix is bound (`qwen3.cpp:600`, `:623`), and the
  destructor walks `layers_` (`:118`): a load that is refused in the middle of a layer, at
  `attn_v` say, leaves its norms and the matrices bound by then (`attn_q`, `attn_k`).
  `ClosedGivesBack` names all of these (`Left`) and says that nothing else stays; and that no
  place is released twice but the first scratch of the tower above.
- `ensure_capacity`, `reserve` and `grow_rope_table` release before they allocate
  (`qwen3.cpp:803`, `:1376`, `:686`): if an allocation throws, the old handles dangle.
  `ensure_kv` allocates K and then V, and loses K if V throws (`:1313`).  A tower's own
  scratch growth is alike.
- A sideways-thin image cannot be shrunk below one block, so its other side can exceed
  the limit the activations are sized for (`qwen3vl_vision.cpp:211`).
- Rotary tables on Ascend are narrowed and kept by handle and rows, and the per-token
  table of an image is rewritten in place: a second image of as many tokens would be
  turned by the first one's table.  No tower encodes there today (the backend refuses
  `conv2d` and the centred norm), so the model sends no image to it.
- An op the Python engine is refused half way gives its own outputs back and leaves the
  values of earlier nodes in the arena until the close, although
  `tests/engine/test_executor.py:197` says a refusal mid-graph "must not strand the buffers
  it was given" - the test refuses the first node.  `stranded` holds them.
- `Execution.release` called twice, with a run in between, would free another run's
  output; the model's callers release once.  The trace's allocations, reuses and peak
  are cumulative over an executor's runs, so only the first run equals the plan.

Documents: `README.md:133` and `:232` and `docs/getting-started.md:116` describe a server
without batching; `parallel.h`'s comments speak of workers that "take whatever chunks are
left"; the layout comments at `qwen3.cpp:1171` and `qwen3.h:437` contradict each other;
`docs/architecture/serving.md:110` says the handler consults `supports_cancellation`,
and it only calls `cancel`; `LLM.bind` says a bound tensor "must name a graph input" and accepts
any value of the graph (`engine/llm.py:78`, `:90`); `AsyncLLM.close` takes no lock, and a
cancelled await gives its lock back while the thread still runs.

The watchdog reports a child that ended between the last poll and the judgement as
stalled, with `-SIGKILL` for its exit code (`watchdog.py:281`, against `:83`); `OutcomeIsTrue`
says only that its silence was real.

## 7. What is proved

Seven modules hold the theorems and an eighth, `SequenceLemmas`, lemmas they share.  Each
theorem is for every value of the constants its module's assumptions allow; two have a
hypothesis of their own, which the table names.

| Theorem | Statement | Assumes |
|---|---|---|
| `ThreadPoolProofs!Invariance` | `Spec => []Inv` | `PoolAssumption`: a finite set of workers |
| `ThreadPoolProofs!TypeCorrect` | `Spec => []TypeOK` | the same |
| `ThreadPoolProofs!FramesOutliveBodies` | `Spec => []FrameOutlivesBody` | the same |
| `ThreadPoolProofs!NobodyTwoBehind` | `Spec => []NeverTwoBehind` | the same |
| `ThreadPoolProofs!PoolKeepsPromise` | `Spec => ImplementsParallelFor` | the same |
| `HostsProofs!Invariance` | `Spec => []IInv` | `KvAssumption` |
| `HostsProofs!TableCoversCache` | `Spec => []RopeCoversCache` | the same |
| `HostsProofs!ForwardsStayInside` | `Spec => ForwardStaysInside` | the same |
| `HostsProofs!HostsInvariance` | `HostsSpec => []HInv` | `HostsAssumption`, `ServingAssumption`, `KvAssumption` |
| `HostsProofs!HostsAreHistories` | `HostsSpec => Spec` of `KvSession` | the same |
| `HostsProofs!HostsStayInside` | `HostsSpec => []RopeCoversCache /\ ForwardStaysInside` | the same |
| `HostsProofs!ReservationHolds` | `HostsSpec => GroupFitsItsReservation` | the same |
| `HostsProofs!OnlyTooMuchIsRefused` | `HostsSpec => RefusedOnlyPastContext` | the same |
| `HostsProofs!HostsKeepTheLog` | `HostsSpec => ImplementsLog` | and `Min(LayerCounts) = 1 \/ Window >= Capacity` |
| `HostsProofs!CompositionsStayInPlace` | `HostsSpec => []CompositionInPlace` | the first three only |
| `MemoryProofs!MemoryReads` | `MemorySpec => []ReadsAreTrue` | `MemoryAssumption`, `TowerAssumption`, `GraphAssumption`, `InstancesAssumption` |
| `MemoryProofs!MemoryOwned` | `MemorySpec => []OneOwner` | the same |
| `MemoryProofs!MemoryReturned` | `MemorySpec => []GivesBackOnce` | the same |
| `MemoryProofs!MemoryPlanned` | `MemorySpec => []RunsAsPlanned` | `GraphAssumption`, `InstancesAssumption` |
| `MemoryProofs!EngineInvariant` | `EngineSpec => []EngineInv` | `GraphAssumption`: verified graphs |
| `MemoryProofs!EngineCorrect` | `EngineSpec => []`(`ValuesIntact`, `BuffersOwnedOnce`, `ClosedFreesAll`, `RunsAsPlanned`) | the same |
| `SchedulerProofs!EngineIsFreedLast` | `Spec => []EngineFreedLast` | nothing |
| `SchedulerProofs!TypeIsRight` | `Spec => []TypeOK` | `SchedulerAssumption` |
| `SchedulerProofs!AnswersAreWellFormed` | `Spec => []AnswersWellFormed` | the same |
| `SchedulerProofs!GaugesFollowAnswers` | `Spec => []GaugesFollow` | the same |
| `SchedulerProofs!BackendKeepsPromise` | `Spec => ImplementsService` | the same |
| `TextProofs!NothingIsTakenBack` | `Spec => TextOnlyGrows` | `TextAssumption` |
| `TextProofs!NothingIsMangled` | `Spec => []NotMangled` | the same |
| `TextProofs!StreamIsTheAnswer` | `Spec => []AnswerIsResult` | and `Mode = "thinking"` |
| `XlmProofs!Invariance` | `Spec => [](TypeOK /\ Ruled)` | `XlmAssumption` |
| `XlmProofs!PatientAnswers` | `Spec => []PatientAnswersAreOwn` | the same |
| `XlmProofs!StdoutIsPutBack` | `Spec => []StdoutPutBack` | the same |
| `XlmProofs!DestroyedByItself` | `Spec => []DestroyedAlone` | the same |
| `WatchdogProofs!Invariance` | `WatchSpec => []IInv` | `WatchdogAssumption` |
| `WatchdogProofs!OutcomeIsAlwaysTrue` | `WatchSpec => []OutcomeIsTrue` | the same |
| `WatchdogProofs!TextIsWhole` | `WatchSpec => []Transparent` | the same |

- *Pool.* Neither property is inductive.  That no worker is in a dead frame depends on
  the barrier having counted right: `arrived` must equal the number of workers at the
  current generation while a job is published (`Running`), so `arrived = workersLeft`
  means all of them (`AllArrived`).  That needs every worker to be exactly zero or one
  generation behind, which is only true because at the next publication everybody is at
  the current one (`Quiet`), because the lock excludes a second publisher (`LockHeld`,
  `JobOfOwner`), and because the destructor's generation comes after the last call
  (`StopAfterCalls`, `Exiting`).  Each action has a lemma, with a step for each conjunct it
  can disturb; the counting lemmas rest on the library's theorems on finite sets.
- *Pool, the promise.* `PoolKeepsPromise` adds what `ran` counts (`Coverage`): indices are
  handed out once each, and a record is 1 on the ranges that are done and 0 elsewhere.  The
  arithmetic of
  `Partition` gives that the ranges are disjoint and cover `[0, total)` for every total,
  floor and number of threads; a body's step is then `ParallelFor`'s, the return needs
  that all ranges are done, and every other step is a stutter.
- *Cache.* The invariant says that a slab has exactly the extent of its allocation
  (capacity, slots, layers; `SlabOK`), that every length is within `Capacity`, and that the
  table covers the cache.  That lengths are within the slab is not part of it: a
  reservation may shrink the slots, and it is the refusals and the growth of each forward
  that bring room (`Fits`) before rows are written.  A growth is the least doubling that
  is enough, so `GrowToReaches` goes by the least element of a set; `AddressInside` is the
  arithmetic of an address.
- *Programs over the cache.* `HInv` adds to the session's invariant where each loop is: a
  group that has been reserved has the slots and the rows for its longest prompt and the
  steps still allowed (`GroupHasRoom`), members keep step with their lengths (`GroupRuns`),
  and a serial job's count is the cache's (`SerialInPlace`).  `HostsAreHistories` shows that
  each program's step is a call of the session with arguments the session takes, so all of
  the session's theorems carries over.  Why a group is refused nothing is then arithmetic: every
  budget was cut to what the window leaves beside the group's longest prompt.
- *The log.* `HostsKeepTheLog` needs `Contents`: below every length, in every layer, there
  is a row that a forward wrote for this very place, and the layers agree on its token and
  turn.  Rows do not overwrite each other because `Address` is injective inside a slab (`AddressParts`), and
  the rows that a growth copies arrive where they were when it is `Safe`: one layer, one
  slot, or nothing to grow.  That is what the hypothesis is for: `Reserved` keeps a server
  on one layer, or on slabs that nobody outgrows.  Without it the statement is false, and
  `serving_growth` shows the sequence.  Then a forward adds its run to what is attended and
  leaves the rest, which is `KvLog`'s step; the conversation and the compositions have one
  slot and need no hypothesis, only the program that makes any call is exempt, as in the
  run.
- *Compositions.* `CInv` says, stage by stage, which token each row is of and what it is
  turned by (`LaidToken`, `LaidTurn`), and `CompositionInPlace` is read off the last stage.
  A tower that throws, or a refusal, ends a composition and leaves its rows, and the next
  begins with a reset.  The grid needs that the rounded root of a square is its side; grids
  that are not square are in section 6.
- *Memory of a session.* That a read finds what it means is not inductive: it depends on
  nobody else having been given the place.  `SessionInv` therefore says which places are
  live: exactly those of the buffers that answer for one and of the planes, no two at the
  same (`Tidy`).  A tied head answers for nothing, and neither does a weight whose packed
  bytes went back (`Owners`).  It says what each holds: its weight in the form the load left it, its
  table with as many rows as are recorded, and each plane what its key stands for
  (`IsFor`, `PlaneIs`).  A weight that was given back has every plane it will be read
  through (`Decodes`), so no lookup misses on it, although its old place may by now hold
  something else.  And it says where in a load, a call, a reservation or a close the session
  is, with the handles that are set by then (`HeldAt`, `Stage`), which is what makes the
  order of the steps count: a plane of a weight is built while its bytes are there, no
  plane at all before the last weight is bound.  The lemmas of the device are about one
  place gained (`TidyGain`), moved, or lost; growth is the three in a row (`GrowPlain`), a
  repacking goes through a place of its own that no handle names (`spare`).  A close
  releases a list, and it is enough that the list names each buffer at most once, and all
  but the strays (`TowerListed`, `ModelListed`).  `~Qwen3VlVision` finds in `owned_` what it
  allocated, and once its scratch was replaced the first scratch in its place
  (`OwnedFirst`), which may by then be anybody's.  What is known of the device after that is
  less: every live place is still a name's or a plane's (`Loose`), since releasing what is
  another's makes nothing live (`ReleasedAllShrinks`).  That is enough for what is left; that
  nothing was released twice needs the rest, and is said of the others (`TowerLeft`).
- *Memory of the engine.* `EngineInv` says that each buffer of the arena is live, or once
  in the pool of its size (`ArenaOK`), that a value that is alive is in a live buffer with
  its bytes in it, so that no two share one (`ValuesOK`), and that outputs the caller keeps
  are not touched (`ResultsOK`, `KeptOK`).  A buffer goes back after the node `Dies` names; that it is nobody
  else's by then is the liveness, `Born` to `Dies`, read against the graph's own arguments.
  `Follows` carries the first run beside the plan: after each node the arena is the one
  `plan_memory` had after it, so costs agree at the end.  That regions compose is
  about `plan_execution` alone: the regions cut the nodes in order (`Cut`), and each asks
  for what comes from before it and offers what is read after it.
- *Scheduler.* An exited thread stays exited, and only close frees, after it has seen
  the thread dead; so a `join` that timed out can never be followed by a free under it.
  For the rest `SInv` says who holds a request - its caller, the queue or the group, and
  never two of them (`Once`) - and what its record and channel may say while they do: blank
  until started (`BlankUntilStarted`), tokens while unanswered (`OnlyTokens`), ended when the
  budget is (`JobsSane`).  `GInv` adds that the depth is the size of a finite set, those who
  entered and are not answered, and one more between an answer and its `_leave_queue`; so
  the floor at zero is never needed.  A client that has its answer can find itself in both
  gauges; nothing in the repository promises otherwise.  `BackendKeepsPromise` maps a call's state and channels to
  `RequestService`: a step of the threads is one of its steps or a stutter.
- *Text.* A decoding has a piece for each byte, which depends on the bytes beside it only.
  So all pieces but the last of a shorter decoding stand in a longer one (`FirstOfMore`);
  the last can change only if it is a first half, which is shown as the replacement
  character that `_decoded_text` strips (`KeptBefore`); and the last piece of a longer
  decoding is never among those of the shorter (`KeptAfter`).  The buffer only cuts the
  bytes at a length that grows (`CapGrows`).  For the stream, `SentIsSplit` says that what
  was sent is what the splitter makes of the text, and which part of a marker with it, or
  what is left of it after a beginning of an opener (`Lost`).  A marker stays where it was
  found (`MarkerStays`); one that comes was not all there before (`MarkerComes`), so at most
  a beginning of it (`Begun`) was sent as reasoning.  The reasoning that a longer text gives
  continues the one that a shorter gave (`ReasoningGrows`), or such a beginning is taken
  back, or the text was the beginning of an opener that is now whole; what goes on after
  that goes on after what is left (`LostGoesOn`).  In chat mode the statement is false
  (section 6), hence the hypothesis.  `NothingIsTakenBack` and
  `NothingIsMangled` hold for every buffer, the one that cuts included.
- *Delegate.* The strengthening says that whoever is past the lock holds it (`LockHeld`),
  and that, with patient clients, whoever is inside `infer` still has its generator
  (`InItsCall`); so the shared dict and fd 1 belong to one call (`Clean`, `FdKept`), and a
  stream's queue holds exactly the pieces not yet taken (`Reading`).  `InItsCall` is
  precisely what a leaving client breaks.
- *Watchdog.* What the watcher counts as silence never exceeds the child's own
  (`SilenceIsReal`), a watch is judged once (`JudgedOnce`), and the end is what happened
  (`EndIsKnown`).  For the text, `ShownSoFar` says that what has ended in the bytes taken
  has been shown, and that the decoder holds a half exactly when they end in one; what has
  ended in two stretches of bytes is what has ended in each (`EndedJoins`).

No induction principle is used: the library's take an operator, which the provers
cannot instantiate.  Where a fold, `FlattenSeq` or a recursive function has to be reasoned about,
the proof takes the least number at which the claim fails (`LeastExists`, from the
library's well-founded order on the naturals) and one unfolding there; `Climbed` packs this
for claims that climb to a bound.

Only model-checked:
- every liveness property, and anything with `ENABLED`;
- `KernelRun` (`NoTwoWrite`, `Delivers`, `StaysInside`), `FormRun` (`OneOrder`),
  `Conversions` (`SamplesLikeReference`, `SoundsCovered`, `TextComesBack`) and `MCArithmetic`
  (`MeetsItsOwn`, `NumbersWithin`, `PicturesInPlace`, `WordsLikeReference`): what is
  checked is layouts, address expressions and reference definitions, enumerated; several
  are recursive operators, which the provers do not take.

## 8. Not modelled, and the abstractions made

- *HTTP host.* A request reaches the backends through `generate` and `stream`, whose steps,
  disconnects included, are in the scheduler, delegate and text models; `cancel` is a
  constant `False` in both.  What is left is parsing, formatting and the standard
  library's server.
- *Numbers.* The values of floating-point sums, of softmax and of activations; the order
  and the operands of the sums are modelled, the rounding is not.  The codebooks of the
  iq2 formats and the mel filter bank are data.  Logits are choices: a token is any token.
- *F16C.* Where the build has the vector instructions, halves are converted by the
  processor; only the scalar conversion is modelled, and that the two agree is not shown.
- *Byte tokens.* `decode` reads the two digits of `<0xXX>` with `stoi`; a piece of that
  shape with other characters there is not modelled.  A vocabulary with both kinds of
  spelling could write a text `<0x41>` as one token that decodes to `A`.
- *V slab, element types, head layout.* Handled like the K slab in every line.
- *Allocations.* They succeed, but for the growth of the slab and those of the Python
  arena; what the others leave when they throw is in section 6.  `memory_scope` is left out.
- *GGUF reader, Unicode tables.* Parsing and generated data.
- *Python engine.* The choice of a backend, the binding of weights by name, and
  `run_region`, which nothing calls.
- *Vendor runtimes.* An `xlm_infer` makes some callbacks and returns; a launch on an
  in-order stream runs at any later time.
- *Clocks.* A timed wait may end at any time; the watchdog counts polls.
- *Thread creation.* The pool's constructor, core pinning and thread-count heuristics are
  configuration; a failing `std::thread` ends the process.
- *Exceptions in chunk bodies.* Kernels do not throw; nothing in `run_ranges` expects it.

Except for the allocations, every abstraction of control is on the side of more
behaviours.  `BatchScheduler` states a `TypeOK` and `Watchdog` a `WatchTypeOK` that no run
lists: they are for the reader.

## 9. Plan

What would add most next:

1. Failed allocations in `ModelMemory`, once the code releases after it allocates: the
   steps are there, the outcomes are not.
2. `FormRun!OneOrder` for every length of the vector forms, and `Delivers` for `gemm` on the CPU from the
   partition lemmas of `ThreadPoolProofs`, proved.

## 10. Running it

```
tlc -workers 2 -config ThreadPool.cfg MCThreadPool     # a run
tlapm ThreadPoolProofs.tla                              # the proofs of a module
```

`PROJECT.json` lists every run with its module and configuration, the source lines
each definition stands for, and the hazards the properties are aimed at.  On two cores
the longest runs are `pool_kernels`, `arithmetic_text` and `kv` (two to three minutes)
and `sched` (two); the longest proofs are `MemoryProofs` (a quarter of an
hour) and `HostsProofs`.
