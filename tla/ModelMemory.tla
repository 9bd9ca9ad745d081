---------------------------- MODULE ModelMemory ----------------------------
(***************************************************************************)
(* The device memory of one text model: Qwen3Model::load, its calls and    *)
(* its destructor (model/qwen3.cpp), on a backend that keeps planes of its *)
(* own (kernel/ascend/backend.cpp) or not.  A load and a call are lists of *)
(* steps, one per helper of the code; a step that throws ends the list.    *)
(*                                                                         *)
(* Twins (K and V, cos and sin) are one buffer, and one layer, one scratch *)
(* buffer and one deepstack plane stand for all.  Of a layer's seven       *)
(* matrices the first bound, wq, stands for those bound before the last,   *)
(* w_down.  Sizes are dropped but where a key or a growth looks at them.   *)
(* Allocations succeed, save the growth of the slab.                       *)
(***************************************************************************)
EXTENDS Integers, Sequences

CONSTANTS
  MaxPlaces,   \* bound: fresh places, once some place is free
  Shapes,      \* checkpoints: [backend, tied, embd, head, wq, w_down, deepstack, tower]
  Capacity,    \* capacity_
  Positions,   \* what explicit positions can be, as versions of the table
  MaxCalls     \* bound: calls after the load

ASSUME MemoryAssumption == MaxPlaces \in Nat /\ Capacity \in Nat \ {0} /\ MaxCalls \in Nat

-----------------------------------------------------------------------------
(* The device as a backend hands it out (kernel/backend.h: allocate,       *)
(* release, copy_to_device), with what the Ascend backend keeps beside it: *)
(* the planes it has decoded or narrowed, by key, and the packed handles   *)
(* the load has given back.                                                *)
(*                                                                         *)
(* A place is an address.  It holds a content: what the bytes are of, in   *)
(* which form, and which version of it.  An allocation may return any free *)
(* place, one that was released a moment ago included; places never used   *)
(* are interchangeable, so only the first of them is offered.              *)

Content(what, form, version) == [what |-> what, form |-> form, version |-> version]
Free == Content("free", "free", 0)

(* The same bytes, decoded or narrowed.                                    *)
InForm(content, form) == Content(content.what, form, content.version)

(* twice: some place was released while free.                              *)
NewDevice == [heap |-> << >>, planes |-> << >>, spent |-> {}, twice |-> FALSE]

Holds(d, a) == IF a \in DOMAIN d.heap THEN d.heap[a] ELSE Free
Live(d) == {a \in DOMAIN d.heap : d.heap[a] # Free}

Places(d) ==
  LET freed == {a \in DOMAIN d.heap : d.heap[a] = Free}
  IN  IF freed = {} \/ Len(d.heap) < MaxPlaces THEN freed \cup {Len(d.heap) + 1} ELSE freed

Written(d, a, content) ==
  [d EXCEPT !.heap = IF a <= Len(@) THEN [@ EXCEPT ![a] = content] ELSE Append(@, content)]

(* Backend::allocate and the copy that fills it: one outcome per place.    *)
Allocated(d, content) == {[dev |-> Written(d, a, content), at |-> a] : a \in Places(d)}

(* Backend::release; the null handle is nothing to release.                *)
Released(d, a) ==
  IF a = 0 THEN d
  ELSE [d EXCEPT !.heap[a] = Free, !.twice = @ \/ d.heap[a] = Free]

ReleasedAll(d, places) ==
  LET left[k \in 0 .. Len(places)] == IF k = 0 THEN d ELSE Released(left[k - 1], places[k])
  IN  left[Len(places)]

-----------------------------------------------------------------------------
(* The Ascend backend's planes: cube_for, dense_table_for, rope_tables_for
   and narrow_weight_for, one shape.  A hit returns the plane; a miss reads
   the source where it is, decodes it and keeps the plane for the process.
   A miss of a packed handle that was given back throws: place 0.          *)
Plane(d, key, handle, form) ==
  IF key \in DOMAIN d.planes THEN {[dev |-> d, at |-> d.planes[key]]}
  ELSE IF form # "half" /\ handle \in d.spent THEN {[dev |-> d, at |-> 0]}
  ELSE {[dev |-> [o.dev EXCEPT !.planes = [k \in DOMAIN @ \cup {key} |->
                                            IF k = key THEN o.at ELSE @[k]]],
         at |-> o.at] : o \in Allocated(d, InForm(Holds(d, handle), form))}

(* release_packed: the handle is marked, then its memory is freed.         *)
GivenBack(d, handle) == Released([d EXCEPT !.spent = @ \cup {handle}], handle)

-----------------------------------------------------------------------------
(* The session.                                                            *)

VARIABLES
  shape,    \* the checkpoint and the device it was opened on
  dev,      \* the device
  held,     \* the place each buffer's handle names, 0 if none
  form,     \* what the flags of a weight say its bytes are
  rows,     \* [rope |-> position_capacity_, kv |-> cache_capacity_]
  phase,    \* "loading", "open" or "closed"
  todo,     \* steps left of the load, the call or the close
  call,     \* the call being served
  reads,    \* what the last step read: [meant, got]
  calls     \* calls begun

memory == <<shape, dev, held, form, rows, phase, todo, call, reads, calls>>

Matrices == {"wq", "w_down"}
Weights == {"embd", "head"} \cup Matrices
Buffers == Weights \cup {"norm", "gamma", "rope", "x", "plane", "mrope", "kv"}

Ascend == shape.backend \in {"ascend", "ascend_packed"}

(* output_ is a copy of tok_embd_'s handle: same_buffer.                   *)
Tied == held["head"] # 0 /\ held["head"] = held["embd"]

Quantized(w) == form[w] \in {"packed", "panel", "q6k", "spent"}

-----------------------------------------------------------------------------
(* Steps.                                                                  *)

Step(name) == todo # << >> /\ Head(todo) = name /\ todo' = Tail(todo)

NoCall == [kind |-> "none", end |-> 0, n |-> 0, pos |-> 0]

(* What the step leaves alone.                                             *)
Alone == UNCHANGED <<shape, phase, call, calls>>

LoadSteps == <<"embd", "head", "norm", "gamma", "wq", "w_down", "materialize", "rope", "scratch">>
CallSteps == <<"scratch", "kv", "grow_rope", "inputs", "layers", "logits">>
CloseSteps == <<"destroy">>

(* bind_dense, bind_packed: allocate and copy the file's bytes.            *)
Bound(d, what, kind) ==
  Allocated(d, Content(what, IF kind = "dense" THEN "dense" ELSE "packed", 0))

(* repack_weight: through a scratch buffer and back, in place.             *)
Repacked(o, what) ==
  {[dev |-> Released(Written(s.dev, o.at, Content(what, "panel", 0)), s.at), at |-> o.at]
   : s \in Allocated(o.dev, Content(what, "panel", 0))}

(* Wrong variant of RepackedQ6k: the packed blocks are forgotten.          *)
RepackedQ6k_KeepsBlocks(o, what) == Allocated(o.dev, Content(what, "q6k", 0))

(* repack_weight_q6k: into a buffer of its own; the blocks are released.   *)
RepackedQ6k(o, what) ==
  {[dev |-> Released(n.dev, o.at), at |-> n.at]
   : n \in Allocated(o.dev, Content(what, "q6k", 0))}

(* bind_matrix's form of a weight, and the outcomes of binding it.         *)
MatrixForm(kind) ==
  IF kind = "q4k" /\ shape.backend = "cpu" THEN "panel"
  ELSE IF kind = "q6k" /\ shape.backend = "cuda" THEN "q6k"
  ELSE IF kind = "dense" THEN "dense" ELSE "packed"

Matrix(d, what, kind) ==
  LET bound == Bound(d, what, kind)
  IN  CASE MatrixForm(kind) = "panel" -> UNION {Repacked(o, what) : o \in bound}
        [] MatrixForm(kind) = "q6k"   -> UNION {RepackedQ6k(o, what) : o \in bound}
        [] OTHER                      -> bound

(* The table: never repacked, it is gathered from.                         *)
BindTable ==
  /\ Step("embd")
  /\ \E o \in Bound(dev, "embd", shape.embd) :
       dev' = o.dev /\ held' = [held EXCEPT !["embd"] = o.at]
  /\ form' = [form EXCEPT !["embd"] = IF shape.embd = "dense" THEN "dense" ELSE "packed"]
  /\ Alone /\ UNCHANGED <<rows, reads>>

(* output.weight, or the table again.                                      *)
BindHead ==
  /\ Step("head")
  /\ IF shape.tied
     THEN /\ held' = [held EXCEPT !["head"] = held["embd"]]
          /\ form' = [form EXCEPT !["head"] = form["embd"]]
          /\ UNCHANGED dev
     ELSE /\ \E o \in Matrix(dev, "head", shape.head) :
               dev' = o.dev /\ held' = [held EXCEPT !["head"] = o.at]
          /\ form' = [form EXCEPT !["head"] = MatrixForm(shape.head)]
  /\ Alone /\ UNCHANGED <<rows, reads>>

(* output_norm, and the norms of a layer that is still a local.            *)
BindNorm(name) ==
  /\ Step(name)
  /\ \E o \in Bound(dev, name, "dense") :
       dev' = o.dev /\ held' = [held EXCEPT ![name] = o.at]
  /\ Alone /\ UNCHANGED <<form, rows, reads>>

(* A layer's matrices, one after the other, into the same local.           *)
BindMatrix(w) ==
  /\ Step(w)
  /\ \E o \in Matrix(dev, w, shape[w]) :
       dev' = o.dev /\ held' = [held EXCEPT ![w] = o.at]
  /\ form' = [form EXCEPT ![w] = MatrixForm(shape[w])]
  /\ Alone /\ UNCHANGED <<rows, reads>>

(* With its last matrix the layer joins layers_.                           *)
LayerJoined == held["w_down"] # 0

(* The key a plane is kept under: the source's handle and its shape.       *)
Key(kind, handle, size) == <<kind, handle, size>>

(* materialize_packed for each use of a weight: the table, and its product
   when the head is tied, or the product alone.                            *)
Decoded(d, w) ==
  LET a == held[w]
      cube(e) == Plane(e, Key("cube", a, 0), a, "cube")
  IN  IF w # "embd" THEN cube(d)
      ELSE UNION {IF Tied THEN cube(o.dev) ELSE {o} : o \in Plane(d, Key("emb", a, 0), a, "table")}

(* Then release_packed; what the device can be after.                      *)
Materialized(d, w) ==
  IF ~Quantized(w) \/ (w = "head" /\ Tied) THEN {d}
  ELSE {GivenBack(o.dev, held[w]) : o \in Decoded(d, w)}

(* materialize_packed_weights.                                             *)
MaterializePacked ==
  /\ Step("materialize")
  /\ IF shape.backend = "ascend"
     THEN /\ \E d \in Materialized(dev, "embd") : \E e \in Materialized(d, "head") :
             \E f \in Materialized(e, "wq") : dev' \in Materialized(f, "w_down")
          /\ form' = [w \in Weights |-> IF Quantized(w) THEN "spent" ELSE form[w]]
     ELSE UNCHANGED <<dev, form>>
  /\ Alone /\ UNCHANGED <<held, rows, reads>>

BuildRope ==
  /\ Step("rope")
  /\ \E o \in Allocated(dev, Content("rope", "f32", 1)) :
       dev' = o.dev /\ held' = [held EXCEPT !["rope"] = o.at]
  /\ rows' = [rows EXCEPT !.rope = 1]
  /\ Alone /\ UNCHANGED <<form, reads>>

(* ensure_capacity: every scratch buffer is released, then each is
   allocated anew.                                                         *)
Scratch(d, b) ==
  IF b = "plane" /\ ~shape.deepstack THEN {[dev |-> d, at |-> 0]}
  ELSE Allocated(d, Content(b, "f32", 0))

EnsureCapacity ==
  LET old == ReleasedAll(dev, <<held["x"], held["plane"], held["mrope"]>>)
  IN  /\ Step("scratch")
      /\ \E x \in Scratch(old, "x") : \E p \in Scratch(x.dev, "plane") : \E m \in Scratch(p.dev, "mrope") :
           /\ dev' = m.dev
           /\ held' = [held EXCEPT !["x"] = x.at, !["plane"] = p.at, !["mrope"] = m.at]
      /\ phase' = "open"
      /\ UNCHANGED <<shape, call, calls, form, rows, reads>>

-----------------------------------------------------------------------------
(* A forward.                                                              *)

Doubled(from, to) ==
  LET grown[g \in Nat] == IF g >= to THEN g ELSE grown[IF g * 2 < Capacity THEN g * 2 ELSE Capacity]
  IN  grown[from]

(* ensure_kv: the new slab first, then the copy, then the old one goes.  A
   slab that does not fit throws with the old one in place.                *)
EnsureKv ==
  /\ Step("kv")
  /\ IF held["kv"] # 0 /\ call.end <= rows.kv
     THEN UNCHANGED <<dev, held, rows>>
     ELSE LET grown == Doubled(IF rows.kv = 0 THEN 1 ELSE rows.kv, call.end)
          IN  \E o \in Allocated(dev, Content("kv", "f16", grown)) :
                /\ dev' = Released(o.dev, held["kv"])
                /\ held' = [held EXCEPT !["kv"] = o.at]
                /\ rows' = [rows EXCEPT !.kv = grown]
  /\ Alone /\ UNCHANGED <<form, reads>>

EnsureKvThrows ==
  /\ todo # << >> /\ Head(todo) = "kv" /\ ~(held["kv"] # 0 /\ call.end <= rows.kv)
  /\ todo' = << >> /\ reads' = {}
  /\ UNCHANGED <<shape, dev, held, form, rows, phase, call, calls>>

(* grow_rope_table: the table is released before the longer one is made.   *)
GrowRopeTable ==
  /\ Step("grow_rope")
  /\ IF call.end <= rows.rope
     THEN UNCHANGED <<dev, held, rows>>
     ELSE LET grown == Doubled(rows.rope, call.end)
          IN  \E o \in Allocated(Released(dev, held["rope"]), Content("rope", "f32", grown)) :
                /\ dev' = o.dev
                /\ held' = [held EXCEPT !["rope"] = o.at]
                /\ rows' = [rows EXCEPT !.rope = grown]
  /\ Alone /\ UNCHANGED <<form, reads>>

(* reserve's own part: the old slab goes first, its rows are not carried.  *)
ReserveKv ==
  /\ Step("reserve_kv")
  /\ LET grown == Doubled(IF rows.kv = 0 THEN 1 ELSE rows.kv, call.end)
     IN  \E o \in Allocated(Released(dev, held["kv"]), Content("kv", "f16", grown)) :
           /\ dev' = o.dev
           /\ held' = [held EXCEPT !["kv"] = o.at]
           /\ rows' = [rows EXCEPT !.kv = grown]
  /\ Alone /\ UNCHANGED <<form, reads>>

Read(meant, got) == [meant |-> meant, got |-> got]

(* What a matrix product reads of weight w, or the gather of the table: its
   bytes, or on the Ascend the plane decoded from them.  `of' is whose bytes
   the caller means.                                                       *)
WeightRead(d, w, of, kind, as) ==
  IF Ascend /\ Quantized(w)
  THEN {[dev |-> o.dev, read |-> Read(Content(of, as, 0), Holds(o.dev, o.at))]
        : o \in Plane(d, Key(kind, held[w], 0), held[w], as)}
  ELSE {[dev |-> d, read |-> Read(Content(of, form[w], 0), Holds(d, held[w]))]}

(* A norm's gamma, or a rotary table: the buffer, or its narrowed copy.    *)
NarrowRead(d, key, b, meant) ==
  IF Ascend
  THEN {[dev |-> o.dev, read |-> Read(InForm(meant, "half"), Holds(o.dev, o.at))]
        : o \in Plane(d, key, held[b], "half")}
  ELSE {[dev |-> d, read |-> Read(meant, Holds(d, held[b]))]}

(* Wrong variant of RopeKey: the rows are not part of the key.             *)
RopeKey_HandlesOnly(b, n) == Key("rope", held[b], 0)

(* rope_tables_for's key: the handles and the rows of the buffer.          *)
RopeKey(b, n) == Key("rope", held[b], n)

RopeRead(d) ==
  IF call.pos # 0
  THEN NarrowRead(d, RopeKey("mrope", call.n), "mrope", Content("mrope", "f32", call.pos))
  ELSE NarrowRead(d, RopeKey("rope", rows.rope), "rope", Content("rope", "f32", rows.rope))

(* embed, or the caller's planes, and the per-token rotary table.          *)
Inputs ==
  LET embedded == IF call.kind = "planes" THEN {[dev |-> dev, read |-> {}]}
                  ELSE {[dev |-> o.dev, read |-> {o.read}]
                        : o \in WeightRead(dev, "embd", "embd", "emb", "table")}
      filled(d) == Written(d, held["x"], Content("x", "f32", 1))
      planed(d) == IF call.kind = "planes" /\ shape.deepstack
                   THEN Written(d, held["plane"], Content("plane", "f32", 1)) ELSE d
      turned(d) == IF call.pos # 0
                   THEN Written(d, held["mrope"], Content("mrope", "f32", call.pos)) ELSE d
  IN  /\ Step("inputs")
      /\ \E o \in embedded :
           dev' = turned(planed(filled(o.dev))) /\ reads' = o.read
      /\ Alone /\ UNCHANGED <<held, form, rows>>

(* What a layer reads: its norm, its matrices, the rotary table, the slab,
   and the span's plane when the call brought planes.                      *)
LayerReads ==
  LET plane == IF call.kind = "planes" /\ shape.deepstack
               THEN {Read(Content("plane", "f32", 1), Holds(dev, held["plane"]))} ELSE {}
  IN  plane \cup {Read(Content("x", "f32", 1), Holds(dev, held["x"])),
                  Read(Content("kv", "f16", rows.kv), Holds(dev, held["kv"]))}

Layers ==
  /\ Step("layers")
  /\ \E g \in NarrowRead(dev, Key("norm", held["gamma"], 0), "gamma", Content("gamma", "dense", 0)) :
     \E q \in WeightRead(g.dev, "wq", "wq", "cube", "cube") :
     \E r \in RopeRead(q.dev) :
     \E w \in WeightRead(r.dev, "w_down", "w_down", "cube", "cube") :
       dev' = w.dev /\ reads' = LayerReads \cup {g.read, q.read, r.read, w.read}
  /\ Alone /\ UNCHANGED <<held, form, rows>>

Logits ==
  /\ Step("logits")
  /\ \E g \in NarrowRead(dev, Key("norm", held["norm"], 0), "norm", Content("norm", "dense", 0)) :
       \E w \in WeightRead(g.dev, "head", IF Tied THEN "embd" ELSE "head", "cube", "cube") :
         dev' = w.dev /\ reads' = {g.read, w.read}
  /\ Alone /\ UNCHANGED <<held, form, rows>>

-----------------------------------------------------------------------------
(* The destructor.                                                         *)

(* A weight the destructor releases: not one the load gave back.           *)
Ours(w) == IF form[w] = "spent" THEN 0 ELSE held[w]

(* The layers of layers_, their norms and their matrices.                  *)
LayersList == IF LayerJoined THEN <<held["gamma"], Ours("wq"), Ours("w_down")>> ELSE << >>

(* Wrong variant of Destroyed: the tied head is released as well.          *)
Destroyed_HeadToo ==
  ReleasedAll(dev, <<held["x"], held["rope"], held["kv"], held["norm"]>> \o LayersList
    \o <<Ours("head"), Ours("embd")>>)

(* ~Qwen3Model: the scratch, the rotary table, the slab, the norms, the
   layers that joined layers_, the head unless it is the table, the table.
   The per-token rotary table and the deepstack planes are not in its list. *)
Destroyed ==
  ReleasedAll(dev, <<held["x"], held["rope"], held["kv"], held["norm"]>> \o LayersList
    \o (IF Tied THEN << >> ELSE <<Ours("head")>>) \o <<Ours("embd")>>)

Destroy ==
  /\ Step("destroy")
  /\ dev' = Destroyed /\ phase' = "closed" /\ reads' = {}
  /\ UNCHANGED <<shape, call, calls, held, form, rows>>

(* The steps of the text model's lists.                                    *)
TextStep ==
  \/ BindTable \/ BindHead \/ BindNorm("norm") \/ BindNorm("gamma")
  \/ BindMatrix("wq") \/ BindMatrix("w_down") \/ MaterializePacked \/ BuildRope \/ EnsureCapacity
  \/ EnsureKv \/ EnsureKvThrows \/ GrowRopeTable \/ ReserveKv
  \/ Inputs \/ Layers \/ Logits \/ Destroy
=============================================================================
