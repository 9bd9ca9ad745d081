---------------------------- MODULE TowerMemory ----------------------------
(***************************************************************************)
(* The device memory of a session with a tower: VlmSession and AsrSession  *)
(* load the text model, then Qwen3VlVision or Qwen3Audio onto the same     *)
(* backend (runtime/vlm_session.cpp, runtime/asr_session.cpp), and destroy *)
(* the tower first.                                                        *)
(***************************************************************************)
EXTENDS ModelMemory

CONSTANTS
  Patches,      \* the patches of each grid an image can be resized to; grid 1
                \* is the checkpoint's own
  MaxPatches    \* max_patches_

ASSUME TowerAssumption == Patches \in Seq(Nat) /\ Patches # << >> /\ MaxPatches \in Nat

VARIABLE tower   \* owned: owned_; grid: active_grid_w_, active_grid_h_;
                 \* room: scores_capacity_; regrown: scores_ was replaced

vars == <<memory, tower>>

TowerBuffers == {"t_weight", "t_x", "t_scores", "t_index", "t_table"}

NoTower == [owned |-> << >>, grid |-> 1, room |-> 0, regrown |-> FALSE]

TowerSteps ==
  CASE shape.tower = "vision" -> <<"t_weight", "t_activations">>
    [] shape.tower = "audio"  -> <<"t_weight", "t_buffers">>
    [] OTHER                  -> << >>

Init ==
  /\ shape \in Shapes
  /\ dev = NewDevice
  /\ held = [b \in Buffers \cup TowerBuffers |-> 0]
  /\ form = [w \in Weights |-> "none"]
  /\ rows = [rope |-> 0, kv |-> 0]
  /\ phase = "loading" /\ todo = LoadSteps \o TowerSteps
  /\ call = NoCall /\ reads = {} /\ calls = 0
  /\ tower = NoTower

-----------------------------------------------------------------------------
(* The towers' loads.                                                      *)

(* bind_tensor: the buffer is owned as soon as it is filled.               *)
BindTowerWeight ==
  /\ Step("t_weight")
  /\ \E o \in Bound(dev, "t_weight", "dense") :
       /\ dev' = o.dev /\ held' = [held EXCEPT !["t_weight"] = o.at]
       /\ tower' = [tower EXCEPT !.owned = Append(@, o.at)]
  /\ Alone /\ UNCHANGED <<form, rows, reads>>

(* allocate_activations, and the tables of the checkpoint's own grid.  The
   resampled position table does not join owned_.                          *)
AllocateActivations ==
  /\ Step("t_activations")
  /\ \E x \in Allocated(dev, Content("t_x", "f32", 0)) :
     \E s \in Allocated(x.dev, Content("t_scores", "f32", Patches[1])) :
     \E i \in Allocated(s.dev, Content("t_index", "f32", 1)) :
     \E t \in Allocated(i.dev, Content("t_table", "f32", 1)) :
       /\ dev' = t.dev
       /\ held' = [held EXCEPT !["t_x"] = x.at, !["t_scores"] = s.at, !["t_index"] = i.at, !["t_table"] = t.at]
       /\ tower' = [tower EXCEPT !.owned = @ \o <<x.at, s.at, i.at>>, !.room = Patches[1]]
  /\ Alone /\ UNCHANGED <<form, rows, reads>>

(* Qwen3Audio::allocate_buffers: fixed sizes, not in owned_.               *)
AllocateBuffers ==
  /\ Step("t_buffers")
  /\ \E o \in Allocated(dev, Content("t_x", "f32", 0)) :
       dev' = o.dev /\ held' = [held EXCEPT !["t_x"] = o.at]
  /\ Alone /\ UNCHANGED <<form, rows, reads, tower>>

(* A tensor that is missing, or of a type or shape the load refuses, at any
   bind: between two matrices of a layer as between two of its norms.  What
   was built so far is destroyed, the tower before the text model.         *)
BindThrows ==
  /\ phase = "loading" \/ calls = 0
  /\ todo # << >>
  /\ Head(todo) \in {"embd", "head", "norm", "gamma", "wq", "w_down", "t_weight"}
  /\ todo' = <<"destroy_tower">> \o CloseSteps
  /\ UNCHANGED <<shape, dev, held, form, rows, phase, call, reads, calls, tower>>

(* ~Qwen3VlVision: owned_.  ~Qwen3Audio: its buffers, then owned_.         *)
DestroyTower ==
  /\ Step("destroy_tower")
  /\ dev' = ReleasedAll(dev, (IF shape.tower = "audio" THEN <<held["t_x"]>> ELSE << >>)
                             \o tower.owned)
  /\ Alone /\ UNCHANGED <<held, form, rows, reads, tower>>

-----------------------------------------------------------------------------
(* The calls, one at a time.                                               *)

Idle == phase = "open" /\ todo = << >> /\ calls < MaxCalls

Begin(new, steps) ==
  /\ Idle
  /\ call' = new /\ todo' = steps /\ calls' = calls + 1 /\ reads' = {}
  /\ UNCHANGED <<shape, dev, held, form, rows, phase, tower>>

(* Tokens at their own positions: every caller.                            *)
Forward ==
  \E end \in 1 .. Capacity, n \in 1 .. 2 :
    n <= end /\ Begin([kind |-> "tokens", end |-> end, n |-> n, pos |-> 0], CallSteps)

(* An image span, and the text after it, at explicit positions; an audio
   span, at its own.  A tower that cannot encode on this backend sends none. *)
ForwardSpan ==
  /\ shape.tower # "none" /\ ~Ascend
  /\ \E end \in 1 .. Capacity, kind \in {"planes", "tokens"}, pos \in Positions :
       /\ shape.tower = "audio" => kind = "planes"
       /\ Begin([kind |-> kind, end |-> end, n |-> 1,
                 pos |-> IF shape.tower = "vision" THEN pos ELSE 0], CallSteps)

(* reserve returns early when the slab is long enough already.             *)
Reserve ==
  \E positions \in 1 .. Capacity :
    Begin([kind |-> "reserve", end |-> positions, n |-> 0, pos |-> 0],
          IF held["kv"] # 0 /\ Doubled(IF rows.kv = 0 THEN 1 ELSE rows.kv, positions) <= rows.kv
          THEN << >> ELSE <<"reserve_kv", "grow_rope">>)

(* The grid's tables are rebuilt when it is not the last image's, and the
   scratch, quadratic in the patches, replaced when they outgrow it.       *)
Regrid(grid) ==
  LET tables(d) == Written(Written(d, held["t_index"], Content("t_index", "f32", grid)),
                           held["t_table"], Content("t_table", "f32", grid))
  IN  IF grid = tower.grid THEN {[dev |-> dev, at |-> held["t_scores"]]}
      ELSE IF Patches[grid] <= tower.room THEN {[dev |-> tables(dev), at |-> held["t_scores"]]}
      ELSE {[dev |-> tables(o.dev), at |-> o.at]
            : o \in Allocated(Released(dev, held["t_scores"]),
                              Content("t_scores", "f32", Patches[grid]))}

(* Qwen3VlVision::encode.  The Ascend's layer_norm throws, after the tables. *)
Encode ==
  /\ Idle /\ shape.tower = "vision"
  /\ \E grid \in DOMAIN Patches :
       /\ Patches[grid] <= MaxPatches
       /\ \E o \in Regrid(grid) :
            LET now(b) == Holds(o.dev, held[b])
            IN  /\ dev' = o.dev
                /\ held' = [held EXCEPT !["t_scores"] = o.at]
                /\ tower' = [tower EXCEPT !.grid = grid,
                                          !.room = IF Patches[grid] > @ THEN Patches[grid] ELSE @,
                                          !.regrown = @ \/ o.at # held["t_scores"]]
                /\ reads' = IF Ascend THEN {}
                            ELSE {Read(Content("t_weight", "dense", 0), now("t_weight")),
                                  Read(Content("t_index", "f32", grid), now("t_index")),
                                  Read(Content("t_table", "f32", grid), now("t_table")),
                                  Read(Content("t_scores", "f32", tower'.room), Holds(o.dev, o.at))}
  /\ calls' = calls + 1
  /\ UNCHANGED <<shape, form, rows, phase, todo, call>>

(* Qwen3Audio::encode.                                                     *)
EncodeAudio ==
  /\ Idle /\ shape.tower = "audio"
  /\ reads' = IF Ascend THEN {}
              ELSE {Read(Content("t_weight", "dense", 0), Holds(dev, held["t_weight"])),
                    Read(Content("t_x", "f32", 0), Holds(dev, held["t_x"]))}
  /\ calls' = calls + 1
  /\ UNCHANGED <<shape, dev, held, form, rows, phase, todo, call, tower>>

Close ==
  /\ phase = "open" /\ todo = << >>
  /\ todo' = <<"destroy_tower">> \o CloseSteps
  /\ UNCHANGED <<shape, dev, held, form, rows, phase, call, reads, calls, tower>>

Next ==
  \/ TextStep /\ UNCHANGED tower
  \/ BindTowerWeight \/ AllocateActivations \/ AllocateBuffers \/ BindThrows \/ DestroyTower
  \/ Forward \/ ForwardSpan \/ Reserve \/ Encode \/ EncodeAudio \/ Close

Spec == Init /\ [][Next]_vars

-----------------------------------------------------------------------------
(* Properties.                                                             *)

(* Whatever was released, replaced, decoded or narrowed before, and wherever
   the allocator put it, every read of a forward or of an encode finds the
   bytes it means: the right weight in the form its flags say, the table of
   this length or of these positions, the tables of this image's grid, and a
   plane decoded from what is at the handle now.                           *)
ReadsWhatItMeans == \A r \in reads : r.got = r.meant

(* The places a live session answers for, each once.                       *)
Handles ==
  {b \in DOMAIN held : held[b] # 0 /\ ~(b = "head" /\ Tied)
                       /\ (b \in Weights => form[b] # "spent")}

(* While the session lives, each live place has one owner, a handle or a
   plane of the backend; every handle names a live place of its own; and no
   place has been released twice.                                          *)
OwnedOnce ==
  phase # "closed" /\ (todo = << >> \/ Head(todo) \notin {"destroy_tower", "destroy"}) =>
    /\ Live(dev) = {held[b] : b \in Handles} \cup {dev.planes[k] : k \in DOMAIN dev.planes}
    /\ \A b, c \in Handles : held[b] = held[c] => b = c
    /\ \A b \in Handles, k \in DOMAIN dev.planes : held[b] # dev.planes[k]
    /\ ~dev.twice

(* What the destructors are known to leave: the per-token table and the
   deepstack planes, the resampled position table, the scratch of a tower
   that replaced its first, and of a layer that was refused half way, so
   that it never joined layers_, its norms and the matrices bound by then. *)
Left ==
  {held[b] : b \in {"mrope", "plane", "t_table"}
                    \cup (IF LayerJoined THEN {} ELSE {"gamma", "wq"})
                    \cup (IF tower.regrown THEN {"t_scores"} ELSE {})}

(* A close, and a load that fails at any tensor, give everything back except
   what is named above and the planes, which live as long as the process.
   And once, save the first scratch of a tower that replaced it.           *)
ClosedGivesBack ==
  phase = "closed" =>
    /\ Live(dev) \subseteq Left \cup {dev.planes[k] : k \in DOMAIN dev.planes}
    /\ dev.twice => tower.regrown

(* "Every buffer this model allocated, so the destructor is a loop rather
   than a list that a weight added later can be missing from"
   (model/qwen3vl_vision.h:268): whatever the vision tower holds, the table
   of resampled positions aside, is in owned_, which is what its destructor
   releases.                                                               *)
OwnedIsAllocated ==
  shape.tower = "vision" =>
    \A b \in TowerBuffers \ {"t_table"} :
      held[b] # 0 => \E i \in DOMAIN tower.owned : tower.owned[i] = held[b]
=============================================================================
