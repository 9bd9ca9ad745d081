------------------------------ MODULE ServingKv ------------------------------
(***************************************************************************)
(* The engine calls the serving loop makes: `_run_serial`, `_run_group`    *)
(* and `_advance_job` of server/native_backend.py, on the scheduler thread,*)
(* over the session of KvSession.  One action per engine call, with the    *)
(* Python around it.  Which requests make a group, and the threads, are    *)
(* BatchScheduler's; here a request is a prompt length and a token budget, *)
(* and a generation may end after any token (eos or a stop sequence).      *)
(***************************************************************************)
EXTENDS KvSession

CONSTANTS
  MaxBatch,    \* _max_batch
  Window,      \* _window: batch_kv_window
  Prompts,     \* the prompt lengths requests have
  MaxTokens    \* the explicit max_tokens requests ask for

FinishedToken == 0   \* _FINISHED_TOKEN

ASSUME ServingAssumption ==
  /\ MaxBatch \in Nat \ {0} /\ Window \in Nat
  /\ Prompts \subseteq Nat \ {0} /\ MaxTokens \subseteq Nat \ {0}
  /\ 0 .. 2 * MaxBatch \subseteq Tokens

VARIABLES
  phase,       \* where the scheduler thread is: idle, or in one of the loops
  jobs,        \* the members of the group, or the one serial job
  groupSteps,  \* group_steps
  steps,       \* steps the group has run after its prefill
  round        \* 0 or 1: consecutive requests use different tokens

serveVars == <<phase, jobs, groupSteps, steps, round>>
allVars == <<vars, serveVars>>

ServeInit ==
  /\ Init
  /\ phase = "idle" /\ jobs = << >> /\ groupSteps = 0 /\ steps = 0 /\ round = 0

(* Wrong variant of Budget: the prompt's share of the context is ignored.  *)
Budget_WholeContext(prompt, max) == IF max = 0 THEN Capacity ELSE max

(* _start_job: an absent max_tokens (0 here) resolves to what is left of the
   context, at least 1; an explicit one is kept.                           *)
Budget(prompt, max) == IF max = 0 THEN Larger(1, Capacity - prompt) ELSE max

(* Member `slot` of a group; its tokens are told apart from those of the
   other members and of the request before.                                *)
Job(slot, prompt, max) ==
  [tok |-> slot + round * MaxBatch, prompt |-> prompt, asked |-> max,
   budget |-> Budget(prompt, max), made |-> 0, done |-> FALSE]

Prompt(job) == [i \in 1 .. job.prompt |-> job.tok]

(* _advance_job: one more token; the generation ends by choice of the model
   (`ends`) or because the budget is spent.                                *)
Advance(job, ends) ==
  [job EXCEPT !.made = @ + 1, !.done = ends \/ job.made + 1 >= job.budget]

(* _finish_job for everyone: the scheduler goes for the next group.        *)
Finish == phase' = "idle" /\ jobs' = << >> /\ groupSteps' = 0 /\ steps' = 0

-----------------------------------------------------------------------------
(* _run_serial                                                             *)

SerialStart ==
  /\ phase = "idle"
  /\ Reset
  /\ \E prompt \in Prompts, max \in MaxTokens \cup {0} :
       IF prompt >= Capacity
       THEN UNCHANGED <<phase, jobs>>    \* refused by name: a bad request
       ELSE phase' = "serial" /\ jobs' = <<Job(1, prompt, max)>>
  /\ round' = 1 - round
  /\ UNCHANGED <<groupSteps, steps>>

(* One _advance, then the token is folded in.  The prompt goes first.      *)
SerialToken ==
  /\ phase = "serial"
  /\ LET job == jobs[1]
     IN  /\ Forward(IF job.made = 0 THEN Prompt(job) ELSE <<job.tok>>)
         /\ IF reply' = "ok"
            THEN \E ends \in BOOLEAN :
                   LET after == Advance(job, ends)
                   IN  IF after.done
                       THEN Finish
                       ELSE jobs' = <<after>> /\ UNCHANGED <<phase, groupSteps, steps>>
            ELSE Finish                  \* the engine refused: the job fails
  /\ UNCHANGED round

-----------------------------------------------------------------------------
(* _run_group                                                              *)

(* `reset`: at least two live, greedy requests.                            *)
GroupStart ==
  /\ phase = "idle"
  /\ Reset
  /\ \E n \in 2 .. MaxBatch : \E prompts \in [1 .. n -> Prompts], max \in MaxTokens \cup {0} :
       jobs' = [s \in 1 .. n |-> Job(s, prompts[s], max)]
  /\ phase' = "reserve"
  /\ round' = 1 - round
  /\ UNCHANGED <<groupSteps, steps>>

(* Wrong variant of GroupBudget: each member is bounded by its own prompt. *)
GroupBudget_OwnPrompt(job, left) == Larger(1, Smaller(job.budget, Window - job.prompt))

GroupBudget(job, left) == Larger(1, Smaller(job.budget, left))

(* `reserve(self._window, self._max_batch)`, the members' window check and
   the bound on the whole group's steps.                                   *)
GroupReserve ==
  /\ phase = "reserve"
  /\ Reserve(Window, MaxBatch)
  /\ IF reply' # "ok" \/ \E s \in 1 .. Len(jobs) : jobs[s].prompt + 1 > Window
     THEN Finish
     ELSE LET left == Window - Max({jobs[s].prompt : s \in 1 .. Len(jobs)})
          IN  /\ groupSteps' = left
              /\ jobs' = [s \in 1 .. Len(jobs) |->
                   [jobs[s] EXCEPT !.budget = GroupBudget(jobs[s], left)]]
              /\ phase' = "prefill"
              /\ UNCHANGED steps
  /\ UNCHANGED round

(* Every live member folds in its token; the members that are done ignore
   theirs.                                                                 *)
AdvanceLive ==
  \E ends \in [1 .. Len(jobs) -> BOOLEAN] :
    LET after == [s \in 1 .. Len(jobs) |->
                    IF jobs[s].done THEN jobs[s] ELSE Advance(jobs[s], ends[s])]
    IN  IF \A s \in 1 .. Len(jobs) : after[s].done
        THEN Finish
        ELSE /\ jobs' = after /\ phase' = "decode"
             /\ steps' = IF phase = "decode" THEN steps + 1 ELSE 0
             /\ UNCHANGED groupSteps

GroupPrefill ==
  /\ phase = "prefill"
  /\ ForwardBatch([s \in 1 .. Len(jobs) |-> Prompt(jobs[s])])
  /\ IF reply' = "ok" THEN AdvanceLive ELSE Finish
  /\ UNCHANGED round

GroupDecode ==
  /\ phase = "decode"
  /\ ForwardBatch([s \in 1 .. Len(jobs) |->
       IF jobs[s].done THEN <<FinishedToken>> ELSE <<jobs[s].tok>>])
  /\ IF reply' = "ok" THEN AdvanceLive ELSE Finish
  /\ UNCHANGED round

ServeNext ==
  \/ SerialStart \/ SerialToken
  \/ GroupStart \/ GroupReserve \/ GroupPrefill \/ GroupDecode

ServeSpec == ServeInit /\ [][ServeNext]_allVars

-----------------------------------------------------------------------------
(* Properties.                                                             *)

(* The promise of KvLog over the calls of the serving loop: a request attends
   to its own tokens and to nobody else's, whoever was served before.      *)
Served == INSTANCE KvLog WITH call <- call, logs <- Attended

ServedLog == Served!Spec

InGroup == phase \in {"prefill", "decode"}

(* "The KV slabs are reserved once and never grow" (native_backend.py): from
   the reservation to the end of the group no call changes their extents
   and none is refused, whatever the prompts, the budgets and the members
   that end early.                                                         *)
GroupFitsItsReservation ==
  [][InGroup => kv'.cap = kv.cap /\ kv'.slots = kv.slots /\ reply' = "ok"]_allVars

(* A serial generation is refused half way only when the request asked for
   more than the context holds: "an explicit one is handed back unchanged"
   (api/types.py), an absent max_tokens always fits.                       *)
RefusedOnlyPastContext ==
  [][phase = "serial" /\ reply' # "ok" =>
       reply' = "context_length" /\ jobs[1].prompt + jobs[1].asked > Capacity + 1]_allVars
=============================================================================
