---------------------------- MODULE BatchScheduler ----------------------------
(***************************************************************************)
(* The threads of NativeBackend (server/native_backend.py): HTTP threads   *)
(* in `generate` and `stream`, the scheduler thread that owns the engine,  *)
(* and the thread that calls `close`.                                      *)
(*                                                                         *)
(* A step is one change of what the threads share: under one lock, one put *)
(* on a channel, one engine call, or one token folded into one job.        *)
(* `_closed` and `_stopping` are only set together, under the condition's  *)
(* lock, and are one variable here.  A section under that lock is one step,*)
(* but for the refusal, which takes two other locks while it holds it.     *)
(* What the engine computes, and the clocks, are choices: a call may       *)
(* raise, a token may end its job, a timed wait may end at any time.  The  *)
(* positions and the window are ServingKv's.                               *)
(***************************************************************************)
EXTENDS Integers, FiniteSets, SequencesExt

CONSTANTS
  Callers,    \* threads that call generate or stream, once each
  Streamers,  \* those that stream
  Jobs,       \* a request is its _Job
  JobsOf,     \* JobsOf[c]: the requests of c's call, in order
  Greedy,     \* the jobs with temperature 0
  MaxBatch,   \* _max_batch
  MaxTokens   \* bound: a job's budget

ASSUME SchedulerAssumption ==
  /\ Streamers \subseteq Callers /\ Greedy \subseteq Jobs
  /\ MaxBatch \in Nat \ {0} /\ MaxTokens \in Nat \ {0}
  /\ JobsOf \in [Callers -> Seq(Jobs) \ {<< >>}]
  /\ \A c \in Streamers : Len(JobsOf[c]) = 1
  /\ \A c, d \in Callers : \A i \in DOMAIN JobsOf[c], k \in DOMAIN JobsOf[d] :
       JobsOf[c][i] = JobsOf[d][k] => c = d /\ i = k

VARIABLES
  cpc,      \* cpc[c]: where c is in _submit, _collect or stream
  cat,      \* cat[c]: which of its jobs c is at
  channel,  \* channel[j]: everything ever put on j's `events`
  read,     \* read[j]: how much of it the caller has taken
  active,   \* RequestState._active
  queued,   \* _queued
  pending,  \* _pending
  closed,   \* _closed and _stopping
  spc,      \* where the scheduler thread is
  group,    \* the jobs of the group
  live,     \* those whose _start_job succeeded
  batched,  \* the group runs through _run_group
  at,       \* the member the scheduler is at
  job,      \* job[j]: completion_tokens, done and failure
  zpc       \* where `close` is

callVars  == <<cpc, cat, read>>
queueVars == <<pending, active, queued>>
groupVars == <<group, live, batched, at, job>>
vars == <<callVars, queueVars, groupVars, channel, closed, spc, zpc>>

Init ==
  /\ cpc = [c \in Callers |-> "idle"] /\ cat = [c \in Callers |-> 1]
  /\ channel = [j \in Jobs |-> << >>] /\ read = [j \in Jobs |-> 0]
  /\ active = {} /\ queued = 0 /\ pending = << >>
  /\ closed = FALSE /\ zpc = "open"
  /\ spc = "top"
  /\ group = << >> /\ live = << >> /\ batched = FALSE /\ at = 1
  /\ job = [j \in Jobs |-> [made |-> 0, done |-> FALSE, failed |-> FALSE]]

Cur(c) == JobsOf[c][cat[c]]
Streamed(j) == \E c \in Streamers : j \in Range(JobsOf[c])

(* Wrong variant of Notified: the notice is lost.                          *)
Notified_Lost == spc

(* notify, notify_all: the scheduler is the only waiter of the condition.
   The timed wait of a partial group needs no notice to end.               *)
Notified == IF spc = "asleep" THEN "top" ELSE spc

(* Nobody is refusing with the condition's lock in hand.                   *)
CvFree == \A c \in Callers : cpc[c] \notin {"refuse", "unqueue"}

(* _leave_queue                                                            *)
Left(n) == IF n = 0 THEN 0 ELSE n - 1

-----------------------------------------------------------------------------
(* A caller: _submit for each of its requests, then the draining.          *)

Call(c) ==
  /\ cpc[c] = "idle"
  /\ cpc' = [cpc EXCEPT ![c] = "check"]
  /\ UNCHANGED <<cat, read, queueVars, groupVars, channel, closed, spc, zpc>>

(* The first look at _closed, without the lock.                            *)
CheckOpen(c) ==
  /\ cpc[c] = "check"
  /\ cpc' = [cpc EXCEPT ![c] = IF closed THEN "raised" ELSE "begin"]
  /\ UNCHANGED <<cat, read, queueVars, groupVars, channel, closed, spc, zpc>>

BeginRequest(c) ==
  /\ cpc[c] = "begin"
  /\ active' = active \cup {Cur(c)}
  /\ cpc' = [cpc EXCEPT ![c] = "enter"]
  /\ UNCHANGED <<cat, read, pending, queued, groupVars, channel, closed, spc, zpc>>

EnterQueue(c) ==
  /\ cpc[c] = "enter"
  /\ queued' = queued + 1
  /\ cpc' = [cpc EXCEPT ![c] = "enqueue"]
  /\ UNCHANGED <<cat, read, pending, active, groupVars, channel, closed, spc, zpc>>

(* The job joins the queue; after its last one the call goes to collect.   *)
Accept(c) ==
  /\ pending' = Append(pending, Cur(c)) /\ spc' = Notified
  /\ IF cat[c] < Len(JobsOf[c])
     THEN cat' = [cat EXCEPT ![c] = @ + 1] /\ cpc' = [cpc EXCEPT ![c] = "check"]
     ELSE cat' = [cat EXCEPT ![c] = 1] /\ cpc' = [cpc EXCEPT ![c] = "drain"]
  /\ UNCHANGED <<active, queued>>

(* Wrong variant of Enqueue: the second look at _closed is missing.        *)
Enqueue_NoCheck(c) ==
  /\ cpc[c] = "enqueue" /\ CvFree
  /\ Accept(c)
  /\ UNCHANGED <<read, groupVars, channel, closed, zpc>>

(* Under the lock: the job is accepted, or its refusal begins.  generate
   submits all of its requests before it collects any.                     *)
Enqueue(c) ==
  /\ cpc[c] = "enqueue" /\ CvFree
  /\ IF closed
     THEN cpc' = [cpc EXCEPT ![c] = "refuse"] /\ UNCHANGED <<queueVars, cat, spc>>
     ELSE Accept(c)
  /\ UNCHANGED <<read, groupVars, channel, closed, zpc>>

RefuseState(c) ==
  /\ cpc[c] = "refuse"
  /\ active' = active \ {Cur(c)}
  /\ cpc' = [cpc EXCEPT ![c] = "unqueue"]
  /\ UNCHANGED <<cat, read, pending, queued, groupVars, channel, closed, spc, zpc>>

(* Wrong variant of RefuseQueue: the place in the count stays.             *)
RefuseQueue_KeepsPlace(c) ==
  /\ cpc[c] = "unqueue"
  /\ cpc' = [cpc EXCEPT ![c] = "raised"]
  /\ UNCHANGED <<cat, read, queueVars, groupVars, channel, closed, spc, zpc>>

(* The last of the refusal; raising gives the lock back.                   *)
RefuseQueue(c) ==
  /\ cpc[c] = "unqueue"
  /\ queued' = Left(queued)
  /\ cpc' = [cpc EXCEPT ![c] = "raised"]
  /\ UNCHANGED <<cat, read, pending, active, groupVars, channel, closed, spc, zpc>>

(* events.get(): a failure is raised; a result ends this request, the None
   ends the stream, and any other event is yielded.                        *)
Get(c) ==
  LET j == Cur(c)
      event == channel[j][read[j] + 1]
  IN  /\ cpc[c] = "drain" /\ read[j] < Len(channel[j])
      /\ read' = [read EXCEPT ![j] = @ + 1]
      /\ IF event = "failure"
         THEN cpc' = [cpc EXCEPT ![c] = "raised"] /\ UNCHANGED cat
         ELSE IF event \notin {"result", "None"}
         THEN UNCHANGED <<cpc, cat>>
         ELSE IF cat[c] < Len(JobsOf[c])
         THEN cat' = [cat EXCEPT ![c] = @ + 1] /\ UNCHANGED cpc
         ELSE cpc' = [cpc EXCEPT ![c] = "returned"] /\ UNCHANGED cat
      /\ UNCHANGED <<queueVars, groupVars, channel, closed, spc, zpc>>

(* A streaming client goes away: the generator is closed at a yield.       *)
Abandon(c) ==
  /\ cpc[c] = "drain" /\ c \in Streamers /\ read[Cur(c)] > 0
  /\ cpc' = [cpc EXCEPT ![c] = "left"]
  /\ UNCHANGED <<cat, read, queueVars, groupVars, channel, closed, spc, zpc>>

-----------------------------------------------------------------------------
(* The scheduler thread: _scheduler_loop.                                  *)

Sleep ==
  /\ spc = "top" /\ pending = << >> /\ ~closed /\ CvFree
  /\ spc' = "asleep"
  /\ UNCHANGED <<callVars, queueVars, groupVars, channel, closed, zpc>>

Exit ==
  /\ spc = "top" /\ pending = << >> /\ closed /\ CvFree
  /\ spc' = "exited"
  /\ UNCHANGED <<callVars, queueVars, groupVars, channel, closed, zpc>>

(* Fill the group from the queue, up to MaxBatch.                          *)
Pull ==
  LET take == IF Len(pending) < MaxBatch - Len(group)
              THEN Len(pending) ELSE MaxBatch - Len(group)
  IN  /\ group' = group \o SubSeq(pending, 1, take)
      /\ pending' = SubSeq(pending, take + 1, Len(pending))

(* _take_group_locked.  A partial group waits, and the wait gives the lock
   back with the group's jobs off the queue.                               *)
TakeGroup ==
  /\ spc = "top" /\ pending # << >> /\ CvFree
  /\ Pull
  /\ spc' = IF Len(group') < MaxBatch /\ ~closed THEN "grace" ELSE "start"
  /\ UNCHANGED <<callVars, active, queued, live, batched, at, job, channel, closed, zpc>>

(* Notified during the grace: take what has come, and wait on if there is
   room and time left.                                                     *)
GraceFill ==
  /\ spc = "grace" /\ ~closed /\ pending # << >> /\ CvFree
  /\ Pull
  /\ spc' = IF Len(group') < MaxBatch THEN "grace" ELSE "start"
  /\ UNCHANGED <<callVars, active, queued, live, batched, at, job, channel, closed, zpc>>

(* The grace is over, or the close has ended it.                           *)
GraceOver ==
  /\ spc = "grace" /\ CvFree
  /\ IF closed THEN UNCHANGED <<group, pending>> ELSE Pull
  /\ spc' = "start"
  /\ UNCHANGED <<callVars, active, queued, live, batched, at, job, channel, closed, zpc>>

(* The ways to pick n of m positions, in order.                            *)
Picks(n, m) == {p \in [1 .. n -> 1 .. m] : \A i, k \in 1 .. n : i < k => p[i] < p[k]}

(* _start_job for each of the group: the ones it does not raise for are
   live, in the group's order.  Then the choice of the loop.               *)
StartJobs ==
  /\ spc = "start"
  /\ \E n \in 0 .. Len(group) : \E pick \in Picks(n, Len(group)) :
       live' = [i \in 1 .. n |-> group[pick[i]]]
  /\ job' = [j \in Jobs |-> [job[j] EXCEPT !.failed = @ \/ j \in Range(group) \ Range(live')]]
  /\ batched' = (MaxBatch > 1 /\ Len(live') > 1 /\ Range(live') \subseteq Greedy)
  /\ spc' = IF live' = << >> THEN "finish" ELSE "engine"
  /\ at' = 1
  /\ UNCHANGED <<callVars, queueVars, group, channel, closed, zpc>>

(* Wrong variant of FailGroup: also the members that had ended.            *)
FailGroup_Everyone == [j \in Jobs |-> [job[j] EXCEPT !.failed = @ \/ j \in Range(live)]]

(* A failure of _run_group is every member's that is not done.             *)
FailGroup ==
  [j \in Jobs |-> [job[j] EXCEPT !.failed = @ \/ (j \in Range(live) /\ ~job[j].done)]]

(* On to the serial loop's next job, or to the deliveries.                 *)
NextSerial ==
  IF at < Len(live) THEN at' = at + 1 /\ spc' = "engine" ELSE at' = 1 /\ spc' = "finish"

(* The batch, or the serial job at hand, has raised.                       *)
Raise ==
  IF batched
  THEN job' = FailGroup /\ spc' = "finish" /\ at' = 1
  ELSE job' = [job EXCEPT ![live[at]].failed = TRUE] /\ NextSerial

(* One engine call: reset and prefill, or one decode step.  It may raise.  *)
EngineCall ==
  /\ spc = "engine"
  /\ \/ spc' = "fold" /\ UNCHANGED <<at, job>>
     \/ Raise
  /\ UNCHANGED <<callVars, queueVars, group, live, batched, channel, closed, zpc>>

(* _advance_job folds one token: `ends` by eos or a stop sequence, and a
   stream may have text to show for it (never for the eos).                *)
Advance(j, ends, shown) ==
  /\ job' = [job EXCEPT ![j].made = @ + 1, ![j].done = ends \/ job[j].made + 1 >= MaxTokens]
  /\ channel' = IF shown THEN [channel EXCEPT ![j] = Append(@, "token")] ELSE channel

FoldSerial ==
  /\ spc = "fold" /\ ~batched
  /\ IF closed
     THEN Raise /\ UNCHANGED channel
     ELSE \E ends \in BOOLEAN, shown \in {FALSE, Streamed(live[at])} :
            /\ Advance(live[at], ends, shown)
            /\ IF job'[live[at]].done THEN NextSerial ELSE spc' = "engine" /\ UNCHANGED at
  /\ UNCHANGED <<callVars, queueVars, group, live, batched, closed, zpc>>

(* One member of the batch; the ones that are done ignore their token.     *)
FoldBatched ==
  /\ spc = "fold" /\ batched
  /\ IF closed /\ ~job[live[at]].done
     THEN Raise /\ UNCHANGED channel
     ELSE /\ IF job[live[at]].done
             THEN UNCHANGED <<job, channel>>
             ELSE \E ends \in BOOLEAN, shown \in {FALSE, Streamed(live[at])} :
                    Advance(live[at], ends, shown)
          /\ IF at < Len(live)
             THEN at' = at + 1 /\ UNCHANGED spc
             ELSE at' = 1 /\ spc' = IF \A i \in DOMAIN live : job'[live[i]].done
                                   THEN "finish" ELSE "engine"
  /\ UNCHANGED <<callVars, queueVars, group, live, batched, closed, zpc>>

(* _finish_job: what it puts on the channel of job j, first.               *)
Terminal(j) == IF job[j].failed THEN "failure" ELSE IF Streamed(j) THEN "end" ELSE "result"

PutAnswer ==
  /\ spc = "finish"
  /\ LET j == group[at]
     IN  /\ channel' = [channel EXCEPT ![j] = Append(@, Terminal(j))]
         /\ spc' = IF Terminal(j) = "end" THEN "none" ELSE "clear"
  /\ UNCHANGED <<callVars, queueVars, groupVars, closed, zpc>>

(* The end of a stream is an event and a None.                             *)
PutNone ==
  /\ spc = "none"
  /\ channel' = [channel EXCEPT ![group[at]] = Append(@, "None")]
  /\ spc' = "clear"
  /\ UNCHANGED <<callVars, queueVars, groupVars, closed, zpc>>

(* Only now, with the answer out, do the gauges let go of the job.         *)
ClearState ==
  /\ spc = "clear"
  /\ active' = active \ {group[at]}
  /\ spc' = "leave"
  /\ UNCHANGED <<callVars, pending, queued, groupVars, channel, closed, zpc>>

LeaveQueue ==
  /\ spc = "leave"
  /\ queued' = Left(queued)
  /\ IF at < Len(group)
     THEN at' = at + 1 /\ spc' = "finish" /\ UNCHANGED group
     ELSE at' = 1 /\ spc' = "top" /\ group' = << >>
  /\ UNCHANGED <<callVars, active, pending, live, batched, job, channel, closed, zpc>>

-----------------------------------------------------------------------------
(* close.                                                                  *)

CloseBegin ==
  /\ zpc = "open" /\ CvFree
  /\ closed' = TRUE /\ spc' = Notified /\ zpc' = "join"
  /\ UNCHANGED <<callVars, queueVars, groupVars, channel>>

(* join(timeout=60) returns with the thread, or without it.                *)
Join ==
  /\ zpc = "join"
  /\ zpc' = "state"
  /\ UNCHANGED <<callVars, queueVars, groupVars, channel, closed, spc>>

CloseState ==
  /\ zpc = "state"
  /\ active' = {}
  /\ zpc' = "alive"
  /\ UNCHANGED <<callVars, pending, queued, groupVars, channel, closed, spc>>

(* Wrong variant of CloseEngine: the engine is freed regardless.           *)
CloseEngine_Always ==
  /\ zpc = "alive"
  /\ zpc' = "freed"
  /\ UNCHANGED <<callVars, queueVars, groupVars, channel, closed, spc>>

CloseEngine ==
  /\ zpc = "alive"
  /\ zpc' = IF spc = "exited" THEN "freed" ELSE "refused"
  /\ UNCHANGED <<callVars, queueVars, groupVars, channel, closed, spc>>

-----------------------------------------------------------------------------
CallerStep(c) ==
  \/ CheckOpen(c) \/ BeginRequest(c) \/ EnterQueue(c) \/ Enqueue(c)
  \/ RefuseState(c) \/ RefuseQueue(c) \/ Get(c)

SchedulerStep ==
  \/ Sleep \/ Exit \/ TakeGroup \/ GraceFill \/ GraceOver \/ StartJobs
  \/ EngineCall \/ FoldSerial \/ FoldBatched
  \/ PutAnswer \/ PutNone \/ ClearState \/ LeaveQueue

CloserStep == CloseBegin \/ Join \/ CloseState \/ CloseEngine

(* Everything has ended: the callers that called, close and the thread.    *)
Ended ==
  /\ \A c \in Callers : cpc[c] \in {"returned", "raised", "left"}
  /\ zpc \in {"freed", "refused"} /\ spc = "exited"
  /\ UNCHANGED vars

Next ==
  \/ \E c \in Callers : Call(c) \/ CallerStep(c) \/ Abandon(c)
  \/ SchedulerStep
  \/ CloserStep
  \/ Ended

Spec == Init /\ [][Next]_vars

(* Threads that can run do, and an engine call returns.  Nobody has to call,
   to go away or to close.                                                 *)
Fairness == (\A c \in Callers : WF_vars(CallerStep(c))) /\ WF_vars(SchedulerStep)

FairSpec == Spec /\ Fairness

-----------------------------------------------------------------------------
(* Properties.                                                             *)

(* Jobs that wait for their answer, queued or in the group: the None of a
   stream and any other terminal is the answer.                            *)
Unanswered ==
  IF spc \in {"finish", "none"} THEN at .. Len(group)
  ELSE IF spc \in {"clear", "leave"} THEN at + 1 .. Len(group)
  ELSE DOMAIN group
Waiting == Range(pending) \cup {group[i] : i \in Unanswered}

(* Jobs whose caller is between begin, or _enter_queue, and the queue, or
   is not yet through with the refusal.                                    *)
Registering == {Cur(c) : c \in {d \in Callers : cpc[d] \in {"enter", "enqueue", "refuse"}}}
Entering == {Cur(c) : c \in {d \in Callers : cpc[d] \in {"enqueue", "refuse", "unqueue"}}}

TypeOK ==
  /\ cpc \in [Callers -> {"idle", "check", "begin", "enter", "enqueue", "refuse",
                          "unqueue", "drain", "returned", "raised", "left"}]
  /\ cat \in [Callers -> Nat] /\ \A c \in Callers : cat[c] \in DOMAIN JobsOf[c]
  /\ channel \in [Jobs -> Seq({"token", "end", "None", "result", "failure"})]
  /\ read \in [Jobs -> Nat] /\ \A j \in Jobs : read[j] <= Len(channel[j])
  /\ active \subseteq Jobs /\ queued \in Nat
  /\ pending \in Seq(Jobs) /\ group \in Seq(Jobs) /\ live \in Seq(Jobs)
  /\ Len(group) <= MaxBatch /\ at \in 1 .. MaxBatch
  /\ batched \in BOOLEAN /\ closed \in BOOLEAN
  /\ job \in [Jobs -> [made : 0 .. MaxTokens, done : BOOLEAN, failed : BOOLEAN]]
  /\ spc \in {"top", "asleep", "grace", "start", "engine", "fold",
              "finish", "none", "clear", "leave", "exited"}
  /\ zpc \in {"open", "join", "state", "alive", "freed", "refused"}

(* "Only after it has returned is nothing else touching the session": the
   engine is freed after the scheduler thread has exited, however the join
   ended and whoever is still queued.                                      *)
EngineFreedLast == zpc = "freed" => spc = "exited"

(* pocketllm_waiting_requests counts every request between _enter_queue and
   its answer, or its refusal, and beside them at most the one request whose
   answer is out and which _finish_job has not taken off yet; the floor at
   zero in _leave_queue is never needed.                                   *)
DepthFollows ==
  queued = Cardinality(Waiting \cup Entering) + (IF spc \in {"clear", "leave"} THEN 1 ELSE 0)

(* RequestState holds the requests in flight, until it is closed, and the
   answered one until it is cleared; a caller that was past the first look
   at _closed leaves nothing behind.                                       *)
InFlight == Waiting \cup Registering \cup (IF spc = "clear" THEN {group[at]} ELSE {})
StateFollows ==
  /\ zpc \in {"open", "join", "state"} => active = InFlight
  /\ active \subseteq InFlight

(* A client that has its answer may find itself still in both gauges, never
   a request without one out of them: they run after the answers, by one
   request at most, by whatever way a request ends.                        *)
GaugesFollow == DepthFollows /\ StateFollows

(* A channel carries tokens, and then one terminal of its own kind with
   nothing after it ("Deliver the terminal event (or the failure), once");
   the end of a stream is without its None only while that is being put.   *)
Tokens(n) == [i \in 1 .. n |-> "token"]
Endings(j, n) ==
  IF Streamed(j)
  THEN {<< >>, <<"end", "None">>, <<"failure">>}
       \cup (IF spc = "none" /\ j = group[at] THEN {<<"end">>} ELSE {})
  ELSE IF n = 0 THEN {<< >>, <<"result">>, <<"failure">>} ELSE {}
ChannelsWellFormed ==
  \A j \in Jobs : \E n \in 0 .. MaxTokens : \E t \in Endings(j, n) : channel[j] = Tokens(n) \o t

(* A member that ended before its group failed keeps its result, and each
   member's channel says what became of it, once.                          *)
AnswersWellFormed == ChannelsWellFormed /\ \A j \in Jobs : ~(job[j].done /\ job[j].failed)

(* The backend implements RequestService.                                  *)
Answer(j) ==
  LET n == Len(channel[j])
  IN  IF n > 0 /\ channel[j][n] \in {"result", "None"} THEN "result"
      ELSE IF n > 0 /\ channel[j][n] = "failure" THEN "failure"
      ELSE IF j \in Waiting THEN "accepted" ELSE "new"
Service == INSTANCE RequestService WITH
  Requests <- Jobs,
  RequestsOf <- [c \in Callers |-> Range(JobsOf[c])],
  answer <- [j \in Jobs |-> Answer(j)],
  outcome <- [c \in Callers |->
    IF cpc[c] \in {"returned", "raised", "left"} THEN cpc[c] ELSE "waiting"],
  open <- ~closed
ImplementsService == Service!Spec

(* Nobody is under way: no call between check and its end, no close that
   still lacks the thread's exit.                                          *)
Settled ==
  /\ \A c \in Callers : cpc[c] \in {"idle", "returned", "raised", "left"}
  /\ closed => spc = "exited"

(* Every call ends, also the ones that race with close, and close gets its
   thread back: the scheduler answers who is still queued and exits.  One
   formula is enough: a call does not leave its end, nor the thread its exit. *)
EveryoneEnds == ~Settled ~> Settled
=============================================================================
