--------------------------- MODULE SchedulerProofs ---------------------------
(***************************************************************************)
(* The backend's threads, for any callers, requests, batch width and       *)
(* budgets: close frees the engine after the scheduler thread; every       *)
(* channel carries one ending of its own kind; both gauges run after the   *)
(* answers by one request; and the backend implements RequestService.      *)
(*                                                                         *)
(* SInv is the inductive invariant: who holds a request (its caller, the   *)
(* queue or the group, once), and what its record and its channel may say  *)
(* while they do.  The gauges add the finite set of the requests that are  *)
(* counted, the refinement what a caller has drained.                      *)
(***************************************************************************)
EXTENDS BatchScheduler, FiniteSetTheorems, TLAPS

(* Every step of the thread begins somewhere it is not once it has exited,
   and a notice wakes only who is asleep.                                  *)
LEMMA ExitedStays == spc = "exited" /\ [Next]_vars => spc' = "exited"
<1> SUFFICES ASSUME spc = "exited", [Next]_vars PROVE spc' = "exited"
  OBVIOUS
<1>1. Notified = "exited"
  BY DEF Notified
<1>2. ASSUME NEW c \in Callers, Call(c) \/ CallerStep(c) \/ Abandon(c) PROVE spc' = "exited"
  <2>1. CASE Call(c) \/ Abandon(c)
    BY <2>1 DEF Call, Abandon
  <2>2. CASE CheckOpen(c) \/ BeginRequest(c) \/ EnterQueue(c) \/ RefuseState(c) \/ RefuseQueue(c) \/ Get(c)
    BY <2>2 DEF CheckOpen, BeginRequest, EnterQueue, RefuseState, RefuseQueue, Get
  <2>3. CASE Enqueue(c)
    BY <1>1, <2>3 DEF Enqueue, Accept
  <2> QED
    BY <1>2, <2>1, <2>2, <2>3 DEF CallerStep
<1>3. ~SchedulerStep
  BY DEF SchedulerStep, Sleep, Exit, TakeGroup, GraceFill, GraceOver, StartJobs, EngineCall,
         FoldSerial, FoldBatched, PutAnswer, PutNone, ClearState, LeaveQueue
<1>4. CASE CloserStep
  BY <1>1, <1>4 DEF CloserStep, CloseBegin, Join, CloseState, CloseEngine
<1>5. CASE Ended \/ UNCHANGED vars
  BY <1>5 DEF Ended, vars
<1> QED
  BY <1>2, <1>3, <1>4, <1>5 DEF Next

(* Only close frees, and only when it has seen the thread's end.           *)
LEMMA FreedAfterExit ==
  EngineFreedLast /\ [Next]_vars /\ (spc = "exited" => spc' = "exited") => EngineFreedLast'
<1> SUFFICES ASSUME EngineFreedLast, [Next]_vars, spc = "exited" => spc' = "exited", zpc' = "freed"
             PROVE  spc' = "exited"
  BY DEF EngineFreedLast
<1>1. CASE zpc' = zpc
  BY <1>1 DEF EngineFreedLast
<1>2. CASE CloserStep
  BY <1>2 DEF CloserStep, CloseBegin, Join, CloseState, CloseEngine
<1>3. ASSUME NEW c \in Callers, Call(c) \/ CallerStep(c) \/ Abandon(c) PROVE zpc' = zpc
  BY <1>3 DEF Call, Abandon, CallerStep, CheckOpen, BeginRequest, EnterQueue, Get, Enqueue,
               RefuseState, RefuseQueue
<1>4. CASE SchedulerStep
  BY <1>1, <1>4 DEF SchedulerStep, Sleep, Exit, TakeGroup, GraceFill, GraceOver, StartJobs, EngineCall,
                    FoldSerial, FoldBatched, PutAnswer, PutNone, ClearState, LeaveQueue
<1>5. CASE Ended \/ UNCHANGED vars
  BY <1>1, <1>5 DEF Ended, vars
<1> QED
  BY <1>1, <1>2, <1>3, <1>4, <1>5 DEF Next

(* "Only after it has returned is nothing else touching the session":
   however close's join(timeout=60) ended and whoever is still queued, the
   engine is not freed under the scheduler thread, then or later.          *)
THEOREM EngineIsFreedLast == Spec => []EngineFreedLast
<1>1. Init => EngineFreedLast
  BY DEF Init, EngineFreedLast
<1> QED
  BY <1>1, ExitedStays, FreedAfterExit, PTL DEF Spec

-----------------------------------------------------------------------------
(* What the scheduler and the callers hold.                                *)

Delivering == {"finish", "none", "clear", "leave"}
Busy == {"grace", "start", "engine", "fold"} \cup Delivering

(* Where the scheduler thread is, and what it holds there.                 *)
Phase ==
  /\ closed <=> zpc # "open"
  /\ spc \in {"top", "asleep", "exited"} => group = << >>
  /\ spc \in Busy => group # << >>
  /\ spc \in {"engine", "fold"} => at \in DOMAIN live
  /\ spc \in Delivering => at \in DOMAIN group

(* No job is twice in the queue and the group.                             *)
Once ==
  /\ \A i, k \in DOMAIN pending : pending[i] = pending[k] => i = k
  /\ \A i, k \in DOMAIN group : group[i] = group[k] => i = k
  /\ \A i \in DOMAIN group, k \in DOMAIN pending : group[i] # pending[k]

NewJob == [made |-> 0, done |-> FALSE, failed |-> FALSE]
Blank(j) == channel[j] = << >> /\ job[j] = NewJob

(* A caller's jobs from the one it is submitting on have not been seen by
   the scheduler; the ones that were put in its hands are blank until they
   are started.                                                            *)
Submitting == {"idle", "check", "begin", "enter", "enqueue", "refuse", "unqueue"}
FreshAhead ==
  \A c \in Callers : cpc[c] \in Submitting =>
    \A i \in cat[c] .. Len(JobsOf[c]) :
      /\ JobsOf[c][i] \notin Range(pending) \cup Range(group)
      /\ Blank(JobsOf[c][i])
BlankUntilStarted ==
  /\ \A i \in DOMAIN pending : Blank(pending[i])
  /\ spc \in {"grace", "start"} => \A i \in DOMAIN group : Blank(group[i])

(* The live jobs are of the group, once each; the serial loop has its next
   ones before it, and the batch has no failed one.                        *)
LiveJobs ==
  spc \in {"engine", "fold"} =>
    /\ Range(live) \subseteq Range(group) /\ Len(live) <= MaxBatch
    /\ \A i, k \in DOMAIN live : live[i] = live[k] => i = k
    /\ \A i \in DOMAIN live : batched => ~job[live[i]].failed
    /\ \A i \in at .. Len(live) : ~batched => ~job[live[i]].failed /\ ~job[live[i]].done

(* What a job is: ended or failed, and ended when its budget is.           *)
JobsSane ==
  \A j \in Jobs :
    /\ ~(job[j].done /\ job[j].failed)
    /\ ~job[j].done => job[j].made < MaxTokens

(* Who waits has been told tokens; and the end, whose None is being put.   *)
Ending(j) == spc = "none" /\ j = group[at]
OnlyTokens ==
  \A j \in Waiting : ~Ending(j) =>
    \E n \in 0 .. job[j].made : channel[j] = Tokens(n) /\ (n = 0 \/ Streamed(j))
HalfEnded ==
  spc = "none" =>
    /\ Streamed(group[at])
    /\ \E n \in 0 .. MaxTokens : channel[group[at]] = Tokens(n) \o <<"end">>

SInv ==
  /\ TypeOK /\ Phase /\ Once /\ FreshAhead /\ BlankUntilStarted
  /\ LiveJobs /\ JobsSane /\ OnlyTokens /\ HalfEnded /\ ChannelsWellFormed

-----------------------------------------------------------------------------
(* Lemmas about sequences of jobs.                                         *)

(* The members of a sequence, position by position.                        *)
LEMMA InRange ==
  ASSUME NEW S, NEW s \in Seq(S)
  PROVE  /\ DOMAIN s = 1 .. Len(s)
         /\ \A x : x \in Range(s) <=> \E i \in 1 .. Len(s) : s[i] = x
         /\ Range(s) \subseteq S
<1>1. DOMAIN s = 1 .. Len(s)
  OBVIOUS
<1>2. QED
  BY <1>1 DEF Range

(* Appending one member.                                                   *)
LEMMA AppendOne ==
  ASSUME NEW s \in Seq(Jobs), NEW x \in Jobs
  PROVE  /\ Append(s, x) \in Seq(Jobs) /\ Len(Append(s, x)) = Len(s) + 1
         /\ \A i \in 1 .. Len(s) : Append(s, x)[i] = s[i]
         /\ Append(s, x)[Len(s) + 1] = x
         /\ Range(Append(s, x)) = Range(s) \cup {x}
<1>1. /\ Append(s, x) \in Seq(Jobs) /\ Len(Append(s, x)) = Len(s) + 1
      /\ \A i \in 1 .. Len(s) : Append(s, x)[i] = s[i]
      /\ Append(s, x)[Len(s) + 1] = x
  OBVIOUS
<1>2. /\ \A y : y \in Range(s) <=> \E i \in 1 .. Len(s) : s[i] = y
      /\ \A y : y \in Range(Append(s, x)) <=> \E i \in 1 .. Len(s) + 1 : Append(s, x)[i] = y
  <2>1. \A y : y \in Range(s) <=> \E i \in 1 .. Len(s) : s[i] = y
    BY InRange
  <2>2. \A y : y \in Range(Append(s, x)) <=> \E i \in 1 .. Len(Append(s, x)) : Append(s, x)[i] = y
    BY <1>1, InRange
  <2>3. QED
    BY <1>1, <2>1, <2>2
<1>3. ASSUME NEW y PROVE y \in Range(Append(s, x)) <=> y \in Range(s) \cup {x}
  <2>1. ASSUME y \in Range(Append(s, x)) PROVE y \in Range(s) \cup {x}
    <3>1. PICK i \in 1 .. Len(s) + 1 : Append(s, x)[i] = y
      BY <1>2, <2>1
    <3>2. CASE i = Len(s) + 1
      BY <1>1, <3>1, <3>2
    <3>3. CASE i # Len(s) + 1
      <4>1. i \in 1 .. Len(s)
        BY <3>3
      <4>2. QED
        BY <1>1, <1>2, <3>1, <4>1
    <3>4. QED
      BY <3>2, <3>3
  <2>2. ASSUME y \in Range(s) PROVE y \in Range(Append(s, x))
    <3>1. PICK i \in 1 .. Len(s) : s[i] = y
      BY <1>2, <2>2
    <3>2. i \in 1 .. Len(s) + 1
      OBVIOUS
    <3>3. QED
      BY <1>1, <1>2, <3>1, <3>2
  <2>3. ASSUME y = x PROVE y \in Range(Append(s, x))
    <3>1. Len(s) + 1 \in 1 .. Len(s) + 1
      OBVIOUS
    <3>2. QED
      BY <1>1, <1>2, <2>3, <3>1
  <2>4. QED
    BY <2>1, <2>2, <2>3
<1>4. QED
  BY <1>1, <1>3

(* The first n of t have moved to the end of s, which makes u and v.       *)
Moved(s, t, n, u, v) ==
  /\ u \in Seq(Jobs) /\ Len(u) = Len(s) + n
  /\ v \in Seq(Jobs) /\ Len(v) = Len(t) - n
  /\ \A i \in 1 .. Len(s) : u[i] = s[i]
  /\ \A i \in Len(s) + 1 .. Len(s) + n : u[i] = t[i - Len(s)]
  /\ \A i \in 1 .. Len(t) - n : v[i] = t[i + n]

(* Nothing is lost by it.                                                  *)
LEMMA MovedRange ==
  ASSUME NEW s \in Seq(Jobs), NEW t \in Seq(Jobs), NEW n \in 0 .. Len(t), NEW u, NEW v,
         Moved(s, t, n, u, v)
  PROVE  Range(v) \cup Range(u) = Range(t) \cup Range(s)
<1> USE DEF Moved
<1>1. Len(s) \in Nat /\ Len(t) \in Nat
  OBVIOUS
<1>2. /\ \A x : x \in Range(s) <=> \E i \in 1 .. Len(s) : s[i] = x
      /\ \A x : x \in Range(t) <=> \E i \in 1 .. Len(t) : t[i] = x
      /\ \A x : x \in Range(u) <=> \E i \in 1 .. Len(s) + n : u[i] = x
      /\ \A x : x \in Range(v) <=> \E i \in 1 .. Len(t) - n : v[i] = x
  <2>1. \A x : x \in Range(s) <=> \E i \in 1 .. Len(s) : s[i] = x
    BY InRange
  <2>2. \A x : x \in Range(t) <=> \E i \in 1 .. Len(t) : t[i] = x
    BY InRange
  <2>3. \A x : x \in Range(u) <=> \E i \in 1 .. Len(u) : u[i] = x
    BY InRange
  <2>4. \A x : x \in Range(v) <=> \E i \in 1 .. Len(v) : v[i] = x
    BY InRange
  <2>5. QED
    BY <2>1, <2>2, <2>3, <2>4
<1>3. ASSUME NEW x \in Range(v) \cup Range(u) PROVE x \in Range(t) \cup Range(s)
  <2>1. CASE x \in Range(v)
    <3>1. PICK i \in 1 .. Len(t) - n : v[i] = x
      BY <1>2, <2>1
    <3>2. i + n \in 1 .. Len(t) /\ t[i + n] = x
      BY <1>1, <3>1
    <3>3. QED
      BY <1>2, <3>2
  <2>2. CASE x \in Range(u)
    <3>1. PICK i \in 1 .. Len(s) + n : u[i] = x
      BY <1>2, <2>2
    <3>2. CASE i \in 1 .. Len(s)
      BY <1>1, <1>2, <3>1, <3>2
    <3>3. CASE i \notin 1 .. Len(s)
      <4>1. i \in Len(s) + 1 .. Len(s) + n
        BY <3>3
      <4>2. i - Len(s) \in 1 .. Len(t) /\ t[i - Len(s)] = x
        BY <1>1, <3>1, <4>1
      <4>3. QED
        BY <1>2, <4>2
    <3>4. QED
      BY <3>2, <3>3
  <2>3. QED
    BY <1>3, <2>1, <2>2
<1>4. ASSUME NEW x \in Range(s) PROVE x \in Range(u)
  <2>1. PICK i \in 1 .. Len(s) : s[i] = x
    BY <1>2, <1>4
  <2>2. i \in 1 .. Len(s) + n /\ u[i] = x
    BY <1>1, <2>1
  <2>3. QED
    BY <1>2, <2>2
<1>5. ASSUME NEW x \in Range(t) PROVE x \in Range(v) \cup Range(u)
  <2>1. PICK i \in 1 .. Len(t) : t[i] = x
    BY <1>2, <1>5
  <2>2. CASE i <= n
    <3>1. i + Len(s) \in Len(s) + 1 .. Len(s) + n /\ (i + Len(s)) - Len(s) = i
      BY <2>2
    <3>2. u[i + Len(s)] = t[(i + Len(s)) - Len(s)]
      BY <3>1
    <3>3. i + Len(s) \in 1 .. Len(s) + n
      BY <1>1, <3>1
    <3>4. QED
      BY <1>2, <2>1, <3>1, <3>2, <3>3
  <2>3. CASE ~(i <= n)
    <3>1. i - n \in 1 .. Len(t) - n /\ (i - n) + n = i
      BY <2>3
    <3>2. v[i - n] = x /\ i - n \in 1 .. Len(t) - n
      BY <1>1, <2>1, <3>1
    <3>3. QED
      BY <1>2, <3>2
  <2>4. QED
    BY <2>2, <2>3
<1>6. QED
  BY <1>3, <1>4, <1>5

(* n tokens and one more.                                                  *)
LEMMA OneMoreToken ==
  ASSUME NEW n \in Nat
  PROVE  /\ Append(Tokens(n), "token") = Tokens(n + 1)
         /\ Tokens(n) \in Seq({"token"}) /\ Len(Tokens(n)) = n
         /\ Tokens(0) = << >>
<1>1. \A m \in Nat : Tokens(m) \in Seq({"token"}) /\ Len(Tokens(m)) = m /\ \A i \in 1 .. m : Tokens(m)[i] = "token"
  BY DEF Tokens
<1>2. Append(Tokens(n), "token") = Tokens(n + 1)
  <2>1. /\ Append(Tokens(n), "token") \in Seq({"token"}) /\ Len(Append(Tokens(n), "token")) = n + 1
        /\ \A i \in 1 .. n + 1 : Append(Tokens(n), "token")[i] = "token"
    BY <1>1
  <2>2. QED
    BY <2>1, <1>1
<1>3. Tokens(0) = << >>
  BY DEF Tokens
<1>4. QED
  BY <1>1, <1>2, <1>3

-----------------------------------------------------------------------------
(* Lemmas about the calls.                                                 *)

(* A request belongs to one place of one call.                             *)
LEMMA Requests ==
  ASSUME NEW c \in Callers
  PROVE  /\ JobsOf[c] \in Seq(Jobs) /\ Len(JobsOf[c]) \in Nat \ {0}
         /\ DOMAIN JobsOf[c] = 1 .. Len(JobsOf[c])
         /\ \A i \in 1 .. Len(JobsOf[c]) : JobsOf[c][i] \in Jobs
         /\ \A i \in 1 .. Len(JobsOf[c]), d \in Callers : \A k \in 1 .. Len(JobsOf[d]) :
              JobsOf[c][i] = JobsOf[d][k] => c = d /\ i = k
<1>1. \A d \in Callers : JobsOf[d] \in Seq(Jobs) /\ JobsOf[d] # << >>
  BY SchedulerAssumption
<1>2. \A d \in Callers : DOMAIN JobsOf[d] = 1 .. Len(JobsOf[d])
  BY <1>1
<1>3. \A i \in 1 .. Len(JobsOf[c]), d \in Callers : \A k \in 1 .. Len(JobsOf[d]) :
              JobsOf[c][i] = JobsOf[d][k] => c = d /\ i = k
  BY <1>2, SchedulerAssumption
<1>4. Len(JobsOf[c]) \in Nat \ {0} /\ \A i \in 1 .. Len(JobsOf[c]) : JobsOf[c][i] \in Jobs
  BY <1>1
<1>5. QED
  BY <1>1, <1>2, <1>3, <1>4

(* The request a caller is at.                                             *)
LEMMA Current ==
  ASSUME TypeOK, NEW c \in Callers
  PROVE  cat[c] \in 1 .. Len(JobsOf[c]) /\ Cur(c) \in Jobs /\ Cur(c) = JobsOf[c][cat[c]]
BY Requests, SMTT(30) DEF TypeOK, Cur

(* Two callers are at different requests.                                  *)
LEMMA CurrentApart ==
  ASSUME TypeOK, NEW c \in Callers, NEW d \in Callers, c # d
  PROVE  Cur(c) # Cur(d)
BY Current, Requests

(* A caller goes to its first request, or to the next it has.              *)
LEMMA NextRequest ==
  ASSUME TypeOK, NEW c \in Callers,
         \/ UNCHANGED cat
         \/ cat' = [cat EXCEPT ![c] = 1]
         \/ cat[c] < Len(JobsOf[c]) /\ cat' = [cat EXCEPT ![c] = @ + 1]
  PROVE  cat' \in [Callers -> Nat] /\ \A d \in Callers : cat'[d] \in DOMAIN JobsOf[d]
<1>1. cat \in [Callers -> Nat]
  BY DEF TypeOK
<1>2. ASSUME NEW d \in Callers PROVE cat'[d] \in 1 .. Len(JobsOf[d])
  <2>1. cat[d] \in 1 .. Len(JobsOf[d]) /\ Len(JobsOf[d]) \in Nat \ {0}
    BY Current, Requests
  <2>2. cat'[d] = cat[d] \/ cat'[d] = 1 \/ (d = c /\ cat[c] < Len(JobsOf[c]) /\ cat'[d] = cat[d] + 1)
    BY <1>1
  <2>3. QED
    BY <2>1, <2>2
<1>3. cat' \in [Callers -> Nat]
  BY <1>1
<1>4. QED
  BY <1>2, <1>3, Requests

-----------------------------------------------------------------------------
(* The invariant is inductive.                                             *)

(* All that does not depend on where the callers are.                      *)
Held ==
  /\ Once /\ BlankUntilStarted /\ LiveJobs /\ JobsSane
  /\ OnlyTokens /\ HalfEnded /\ ChannelsWellFormed

(* A channel that is left alone is as well formed as it was, if it is not
   the one that has its end and not its None.                              *)
LEMMA SameEndings ==
  ASSUME spc # "none" \/ UNCHANGED <<spc, group, at>>
  PROVE  \A j, n : Endings(j, n) \subseteq Endings(j, n)'
BY DEF Endings, Streamed

LEMMA ChannelsStay ==
  ASSUME ChannelsWellFormed, UNCHANGED channel, spc # "none" \/ UNCHANGED <<spc, group, at>>
  PROVE  ChannelsWellFormed'
<1>1. ASSUME NEW j \in Jobs
      PROVE  \E n \in 0 .. MaxTokens : \E t \in Endings(j, n)' : channel'[j] = Tokens(n) \o t
  <2>1. PICK n \in 0 .. MaxTokens : \E t \in Endings(j, n) : channel[j] = Tokens(n) \o t
    BY DEF ChannelsWellFormed
  <2>2. PICK t \in Endings(j, n) : channel[j] = Tokens(n) \o t
    BY <2>1
  <2>3. t \in Endings(j, n)'
    BY SameEndings
  <2>4. channel'[j] = channel[j]
    OBVIOUS
  <2>5. QED
    BY <2>2, <2>3, <2>4, Zenon
<1>2. QED
  BY <1>1 DEF ChannelsWellFormed, Tokens

(* A step that leaves the queue, the group and the records alone.          *)
LEMMA HeldStays ==
  ASSUME Held, UNCHANGED <<pending, group, live, batched, at, job, channel>>,
         \/ spc' = spc
         \/ spc = "clear" /\ spc' = "leave"
         \/ spc \notin Busy /\ spc' \notin Busy
  PROVE  Held' /\ Waiting' = Waiting
<1> USE DEF Busy, Delivering
<1>1. Waiting' = Waiting
  BY DEF Waiting, Unanswered
<1>2. Once'
  BY DEF Held, Once
<1>3. BlankUntilStarted'
  BY DEF Held, BlankUntilStarted, Blank
<1>4. LiveJobs'
  BY DEF Held, LiveJobs
<1>5. JobsSane' /\ ChannelsWellFormed'
  BY ChannelsStay DEF Held, JobsSane
<1>6. OnlyTokens' /\ HalfEnded'
  BY <1>1 DEF Held, OnlyTokens, HalfEnded, Ending, Streamed, Tokens
<1>7. QED
  BY <1>1, <1>2, <1>3, <1>4, <1>5, <1>6 DEF Held

(* A caller that only moves on, or away.                                   *)
LEMMA CallersMove ==
  ASSUME SInv, NEW c \in Callers,
         \/ Call(c) \/ CheckOpen(c) \/ BeginRequest(c) \/ EnterQueue(c)
         \/ RefuseState(c) \/ RefuseQueue(c) \/ Get(c) \/ Abandon(c)
  PROVE  SInv'
<1> USE DEF vars, callVars, queueVars, groupVars
<1>1. UNCHANGED <<pending, group, live, batched, at, job, channel, closed, spc, zpc>>
  BY DEF Call, CheckOpen, BeginRequest, EnterQueue, RefuseState, RefuseQueue, Get, Abandon
<1>2. Held' /\ Phase'
  BY <1>1, HeldStays DEF SInv, Held, Phase
<1>3. ASSUME NEW d \in Callers, cpc'[d] \in Submitting PROVE cpc[d] \in Submitting /\ cat'[d] = cat[d]
  BY <1>3 DEF Submitting, Call, CheckOpen, BeginRequest, EnterQueue, RefuseState, RefuseQueue, Get, Abandon, SInv, TypeOK
<1>4. FreshAhead'
  BY <1>1, <1>3 DEF SInv, FreshAhead, Blank
<1>5. TypeOK'
  <2>1. CASE \/ Call(c) \/ CheckOpen(c) \/ BeginRequest(c) \/ EnterQueue(c)
             \/ RefuseState(c) \/ RefuseQueue(c) \/ Abandon(c)
    <3>1. cpc' \in [Callers -> {"idle", "check", "begin", "enter", "enqueue", "refuse",
                                "unqueue", "drain", "returned", "raised", "left"}]
      BY <2>1 DEF Call, CheckOpen, BeginRequest, EnterQueue, RefuseState, RefuseQueue, Abandon, Left, SInv, TypeOK
    <3>2. active' \subseteq Jobs /\ queued' \in Nat /\ UNCHANGED <<cat, read>>
      BY <2>1, Current, SMTT(30) DEF Call, CheckOpen, BeginRequest, EnterQueue, RefuseState, RefuseQueue, Abandon, Left, SInv, TypeOK
    <3>3. QED
      BY <1>1, <3>1, <3>2 DEF SInv, TypeOK
  <2>2. CASE Get(c)
    <3>1. Cur(c) \in Jobs /\ cat[c] \in 1 .. Len(JobsOf[c]) /\ DOMAIN JobsOf[c] = 1 .. Len(JobsOf[c])
      BY Current, Requests DEF SInv
    <3>2. read' \in [Jobs -> Nat] /\ \A j \in Jobs : read'[j] <= Len(channel'[j])
      <4>1. read' = [read EXCEPT ![Cur(c)] = @ + 1] /\ read[Cur(c)] < Len(channel[Cur(c)])
        BY <2>2 DEF Get
      <4>2. read \in [Jobs -> Nat] /\ channel \in [Jobs -> Seq({"token", "end", "None", "result", "failure"})]
            /\ \A j \in Jobs : read[j] <= Len(channel[j])
        BY DEF SInv, TypeOK
      <4>3. \A j \in Jobs : Len(channel[j]) \in Nat
        BY <4>2
      <4>4. QED
        BY <1>1, <3>1, <4>1, <4>2, <4>3
    <3>3. cat' \in [Callers -> Nat] /\ \A d \in Callers : cat'[d] \in DOMAIN JobsOf[d]
      <4>1. UNCHANGED cat \/ (cat[c] < Len(JobsOf[c]) /\ cat' = [cat EXCEPT ![c] = @ + 1])
        BY <2>2 DEF Get
      <4>2. QED
        BY <4>1, NextRequest DEF SInv
    <3>4. cpc' \in [Callers -> {"idle", "check", "begin", "enter", "enqueue", "refuse",
                                "unqueue", "drain", "returned", "raised", "left"}]
      BY <2>2 DEF Get, SInv, TypeOK
    <3>5. QED
      BY <1>1, <2>2, <3>2, <3>3, <3>4 DEF Get, SInv, TypeOK
  <2>3. QED
    BY <2>1, <2>2
<1>6. QED
  BY <1>2, <1>4, <1>5 DEF SInv, Held

(* The scheduler goes to sleep or ends, and close goes its way.            *)
LEMMA IdleSteps ==
  ASSUME SInv, Sleep \/ Exit \/ CloserStep
  PROVE  SInv'
<1> USE DEF vars, callVars, queueVars, groupVars
<1>1. UNCHANGED <<pending, group, live, batched, at, job, channel, cpc, cat, read, queued>>
  BY DEF Sleep, Exit, CloserStep, CloseBegin, Join, CloseState, CloseEngine
<1>2. spc' = spc \/ (spc \in {"top", "asleep"} /\ spc' \in {"top", "asleep", "exited"})
  BY DEF Sleep, Exit, CloserStep, CloseBegin, Join, CloseState, CloseEngine, Notified
<1>3. Held'
  BY <1>1, <1>2, HeldStays DEF SInv, Held, Busy, Delivering
<1>4. FreshAhead'
  BY <1>1 DEF SInv, FreshAhead, Blank
<1>5. closed' <=> zpc' # "open"
  BY DEF Sleep, Exit, CloserStep, CloseBegin, Join, CloseState, CloseEngine, SInv, Phase
<1>6. Phase'
  BY <1>1, <1>2, <1>5 DEF SInv, Phase, Busy, Delivering
<1>7. TypeOK'
  <2>1. closed' \in BOOLEAN /\ active' \subseteq Jobs /\ zpc' \in {"open", "join", "state", "alive", "freed", "refused"}
    BY DEF Sleep, Exit, CloserStep, CloseBegin, Join, CloseState, CloseEngine, SInv, TypeOK
  <2>2. QED
    BY <1>1, <1>2, <2>1 DEF SInv, TypeOK
<1>8. QED
  BY <1>3, <1>4, <1>6, <1>7 DEF SInv, Held

(* A request joins the queue, or its refusal begins.                       *)
LEMMA EnqueueKeeps ==
  ASSUME SInv, NEW c \in Callers, Enqueue(c)
  PROVE  SInv'
<1> USE DEF groupVars
<1>1. /\ cpc[c] = "enqueue" /\ cat[c] \in 1 .. Len(JobsOf[c]) /\ Cur(c) \in Jobs
      /\ Cur(c) = JobsOf[c][cat[c]] /\ Len(JobsOf[c]) \in Nat \ {0}
  BY Current, Requests DEF Enqueue, SInv
<1>2. UNCHANGED <<read, group, live, batched, at, job, channel, closed, zpc>>
  BY DEF Enqueue
<1>3. Cur(c) \notin Range(pending) \cup Range(group) /\ Blank(Cur(c))
  BY <1>1 DEF SInv, FreshAhead, Submitting
<1>4. CASE closed
  <2>1. UNCHANGED <<pending, active, queued, cat, spc>> /\ cpc' = [cpc EXCEPT ![c] = "refuse"]
    BY <1>4 DEF Enqueue, queueVars
  <2>2. Held' /\ Phase'
    BY <1>2, <2>1, HeldStays DEF SInv, Held, Phase
  <2>3. FreshAhead'
    BY <1>1, <1>2, <2>1 DEF SInv, TypeOK, FreshAhead, Blank, Submitting
  <2>4. TypeOK'
    BY <1>2, <2>1 DEF SInv, TypeOK
  <2>5. QED
    BY <2>2, <2>3, <2>4 DEF SInv, Held
<1>5. CASE ~closed
  <2>1. /\ pending' = Append(pending, Cur(c)) /\ spc' = Notified /\ UNCHANGED <<active, queued>>
        /\ \/ /\ cat[c] < Len(JobsOf[c])
              /\ cat' = [cat EXCEPT ![c] = @ + 1] /\ cpc' = [cpc EXCEPT ![c] = "check"]
           \/ cat' = [cat EXCEPT ![c] = 1] /\ cpc' = [cpc EXCEPT ![c] = "drain"]
    BY <1>5 DEF Enqueue, Accept
  <2>2. spc' = spc \/ (spc = "asleep" /\ spc' = "top")
    BY <2>1 DEF Notified
  <2>3. /\ pending \in Seq(Jobs) /\ pending' \in Seq(Jobs) /\ Len(pending') = Len(pending) + 1
        /\ \A i \in 1 .. Len(pending) : pending'[i] = pending[i]
        /\ pending'[Len(pending) + 1] = Cur(c) /\ Range(pending') = Range(pending) \cup {Cur(c)}
        /\ DOMAIN pending = 1 .. Len(pending) /\ DOMAIN pending' = 1 .. Len(pending) + 1
        /\ \A i \in 1 .. Len(pending) : pending[i] \in Range(pending)
    <3>1. pending \in Seq(Jobs)
      BY DEF SInv, TypeOK
    <3>2. /\ pending' \in Seq(Jobs) /\ Len(pending') = Len(pending) + 1
          /\ \A i \in 1 .. Len(pending) : pending'[i] = pending[i]
          /\ pending'[Len(pending) + 1] = Cur(c) /\ Range(pending') = Range(pending) \cup {Cur(c)}
      BY <1>1, <2>1, <3>1, AppendOne
    <3>3. QED
      BY <3>1, <3>2, InRange
  <2>4. \A i \in DOMAIN group : group[i] \in Range(group)
    BY DEF Range
  <2>5. Once'
    <3>1. ASSUME NEW i \in DOMAIN pending', NEW k \in DOMAIN pending', pending'[i] = pending'[k]
          PROVE  i = k
      BY <1>3, <2>3, <3>1 DEF SInv, Once
    <3>2. ASSUME NEW i \in DOMAIN group, NEW k \in DOMAIN pending' PROVE group[i] # pending'[k]
      BY <1>3, <2>3, <2>4 DEF SInv, Once
    <3>3. QED
      BY <1>2, <3>1, <3>2 DEF SInv, Once
  <2>6. BlankUntilStarted'
    <3>1. ASSUME NEW i \in DOMAIN pending' PROVE Blank(pending'[i])
      BY <1>3, <2>3 DEF SInv, BlankUntilStarted
    <3>2. QED
      BY <1>2, <2>2, <3>1 DEF SInv, BlankUntilStarted, Blank
  <2>7. LiveJobs' /\ JobsSane' /\ ChannelsWellFormed'
    BY <1>2, <2>2, ChannelsStay DEF SInv, LiveJobs, JobsSane
  <2>8. Waiting' = Waiting \cup {Cur(c)}
    BY <1>2, <2>2, <2>3 DEF Waiting, Unanswered
  <2>9. OnlyTokens' /\ HalfEnded'
    <3>1. channel[Cur(c)] = Tokens(0) /\ job[Cur(c)].made = 0
      BY <1>3, OneMoreToken, 0 \in Nat DEF Blank, NewJob
    <3>2. QED
      BY <1>2, <2>2, <2>8, <3>1 DEF SInv, OnlyTokens, HalfEnded, Ending, Streamed, Tokens
  <2>10. Phase'
    BY <1>2, <2>2 DEF SInv, Phase, Busy, Delivering
  <2>11. TypeOK'
    <3>1. cat' \in [Callers -> Nat] /\ \A d \in Callers : cat'[d] \in DOMAIN JobsOf[d]
      BY <2>1, NextRequest DEF SInv
    <3>2. cpc' \in [Callers -> {"idle", "check", "begin", "enter", "enqueue", "refuse",
                                "unqueue", "drain", "returned", "raised", "left"}]
      BY <2>1 DEF SInv, TypeOK
    <3>3. QED
      BY <1>2, <2>1, <2>2, <2>3, <3>1, <3>2 DEF SInv, TypeOK
  <2>12. FreshAhead'
    <3>1. ASSUME NEW d \in Callers, cpc'[d] \in Submitting, NEW i \in cat'[d] .. Len(JobsOf[d])
          PROVE  /\ JobsOf[d][i] \notin Range(pending) \cup Range(group) /\ Blank(JobsOf[d][i])
                 /\ JobsOf[d][i] # Cur(c)
      <4>1. cat[d] \in 1 .. Len(JobsOf[d])
        BY Current DEF SInv
      <4>2. CASE d = c
        <5>1. cat'[c] = cat[c] + 1 /\ cpc[c] \in Submitting
          BY <1>1, <2>1, <3>1, <4>2 DEF SInv, TypeOK, Submitting
        <5>2. i \in cat[c] .. Len(JobsOf[c]) /\ i # cat[c] /\ i \in 1 .. Len(JobsOf[c])
          BY <1>1, <4>2, <5>1
        <5>3. QED
          BY <1>1, <4>2, <5>1, <5>2, Requests DEF SInv, FreshAhead
      <4>3. CASE d # c
        <5>1. cpc[d] \in Submitting /\ cat'[d] = cat[d] /\ i \in 1 .. Len(JobsOf[d])
          BY <2>1, <3>1, <4>1, <4>3 DEF SInv, TypeOK
        <5>2. QED
          BY <1>1, <4>3, <5>1, Requests DEF SInv, FreshAhead
      <4>4. QED
        BY <4>2, <4>3
    <3>2. QED
      BY <1>2, <2>3, <3>1 DEF FreshAhead, Blank
  <2>13. QED
    BY <2>5, <2>6, <2>7, <2>9, <2>10, <2>11, <2>12 DEF SInv
<1>6. QED
  BY <1>4, <1>5

(* The scheduler moves the head of the queue to the group.                 *)
LEMMA PullKeeps ==
  ASSUME SInv, Pull, spc \in {"top", "grace"}, spc' \in {"grace", "start"},
         pending # << >> \/ spc = "grace",
         UNCHANGED <<callVars, active, queued, live, batched, at, job, channel, closed, zpc>>
  PROVE  SInv' /\ Waiting' = Waiting
<1> USE DEF callVars
<1> DEFINE take == IF Len(pending) < MaxBatch - Len(group) THEN Len(pending) ELSE MaxBatch - Len(group)
<1>1. pending \in Seq(Jobs) /\ group \in Seq(Jobs) /\ Len(group) <= MaxBatch /\ MaxBatch \in Nat \ {0}
  BY SchedulerAssumption DEF SInv, TypeOK
<1>2. Len(pending) \in Nat /\ Len(group) \in Nat
  BY <1>1
<1>3. take \in 0 .. Len(pending) /\ Len(group) + take <= MaxBatch
  BY <1>1, <1>2
<1>4. Len(group) + take # 0
  <2>1. CASE spc = "grace"
    BY <1>1, <1>2, <1>3, <2>1 DEF SInv, Phase, Busy
  <2>2. CASE spc = "top"
    <3>1. Len(pending) # 0
      BY <1>1, <2>2
    <3>2. Len(group) = 0
      BY <1>1, <2>2 DEF SInv, Phase
    <3>3. QED
      BY <1>1, <1>2, <3>1, <3>2
  <2>3. QED
    BY <2>1, <2>2
<1>5. group' = group \o SubSeq(pending, 1, take) /\ pending' = SubSeq(pending, take + 1, Len(pending))
  BY DEF Pull
<1> HIDE DEF take
<1>6. /\ group' \in Seq(Jobs) /\ Len(group') = Len(group) + take
      /\ pending' \in Seq(Jobs) /\ Len(pending') = Len(pending) - take
      /\ \A i \in 1 .. Len(group) : group'[i] = group[i]
      /\ \A i \in Len(group) + 1 .. Len(group) + take : group'[i] = pending[i - Len(group)]
      /\ \A i \in 1 .. Len(pending) - take : pending'[i] = pending[i + take]
  BY <1>1, <1>3, <1>5
<1>7. Range(pending') \cup Range(group') = Range(pending) \cup Range(group)
  <2>1. Moved(group, pending, take, group', pending')
    BY <1>6 DEF Moved
  <2>2. QED
    BY <1>1, <1>3, <2>1, MovedRange
<1>8. /\ DOMAIN group = 1 .. Len(group) /\ DOMAIN pending = 1 .. Len(pending)
      /\ DOMAIN group' = 1 .. Len(group) + take /\ DOMAIN pending' = 1 .. Len(pending) - take
  BY <1>1, <1>6
<1>9. Waiting' = Waiting
  <2>1. \A t \in Seq(Jobs) : {t[i] : i \in DOMAIN t} = Range(t)
    BY DEF Range
  <2>2. Waiting = Range(pending) \cup Range(group)
    BY <1>1, <2>1 DEF Waiting, Unanswered
  <2>3. Waiting' = Range(pending') \cup Range(group')
    BY <1>6, <2>1 DEF Waiting, Unanswered
  <2>4. QED
    BY <1>7, <2>2, <2>3
<1>10. Once'
  <2> DEFINE Old(i) == IF i <= Len(group) THEN group[i] ELSE pending[i - Len(group)]
  <2>1. ASSUME NEW i \in DOMAIN group' PROVE group'[i] = Old(i)
    <3>1. CASE i <= Len(group)
      <4>1. i \in 1 .. Len(group)
        BY <1>2, <1>8, <3>1
      <4>2. QED
        BY <1>6, <3>1, <4>1
    <3>2. CASE ~(i <= Len(group))
      <4>1. i \in Len(group) + 1 .. Len(group) + take
        BY <1>2, <1>3, <1>8, <3>2
      <4>2. QED
        BY <1>6, <3>2, <4>1
    <3>3. QED
      BY <3>1, <3>2
  <2>2. \A i \in DOMAIN group' : i > Len(group) => i - Len(group) \in 1 .. take
    BY <1>2, <1>3, <1>8
  <2>3. \A i \in DOMAIN pending' : pending'[i] = pending[i + take] /\ i + take \in take + 1 .. Len(pending)
    BY <1>2, <1>3, <1>6, <1>8
  <2>4. ASSUME NEW i \in DOMAIN group', NEW k \in DOMAIN group', group'[i] = group'[k] PROVE i = k
    <3>1. Old(i) = Old(k)
      BY <2>1, <2>4
    <3>2. CASE i <= Len(group) /\ k <= Len(group)
      BY <1>8, <3>1, <3>2 DEF SInv, Once
    <3>3. CASE i > Len(group) /\ k > Len(group)
      <4>1. i - Len(group) \in DOMAIN pending /\ k - Len(group) \in DOMAIN pending
        BY <1>2, <1>3, <1>8, <2>2, <3>3
      <4>2. pending[i - Len(group)] = pending[k - Len(group)]
        BY <1>2, <1>8, <3>1, <3>3
      <4>3. i - Len(group) = k - Len(group)
        BY <4>1, <4>2 DEF SInv, Once
      <4>4. QED
        BY <1>2, <1>8, <4>3
    <3>4. CASE i <= Len(group) /\ k > Len(group)
      <4>1. i \in DOMAIN group /\ k - Len(group) \in DOMAIN pending
        BY <1>2, <1>3, <1>8, <2>2, <3>4
      <4>2. QED
        BY <1>2, <1>8, <3>1, <3>4, <4>1 DEF SInv, Once
    <3>5. CASE i > Len(group) /\ k <= Len(group)
      <4>1. k \in DOMAIN group /\ i - Len(group) \in DOMAIN pending
        BY <1>2, <1>3, <1>8, <2>2, <3>5
      <4>2. QED
        BY <1>2, <1>8, <3>1, <3>5, <4>1 DEF SInv, Once
    <3>6. QED
      BY <1>2, <1>8, <3>2, <3>3, <3>4, <3>5
  <2>5. ASSUME NEW i \in DOMAIN pending', NEW k \in DOMAIN pending', pending'[i] = pending'[k] PROVE i = k
    <3>1. i + take = k + take
      BY <1>2, <1>3, <1>8, <2>3, <2>5 DEF SInv, Once
    <3>2. QED
      BY <1>2, <1>3, <1>8, <3>1
  <2>6. ASSUME NEW i \in DOMAIN group', NEW k \in DOMAIN pending' PROVE group'[i] # pending'[k]
    <3>1. pending'[k] = pending[k + take] /\ k + take \in DOMAIN pending /\ k + take > take
      BY <1>2, <1>3, <1>8, <2>3
    <3>2. CASE i <= Len(group)
      <4>1. i \in DOMAIN group /\ group'[i] = group[i]
        BY <1>8, <2>1, <3>2
      <4>2. QED
        BY <3>1, <4>1 DEF SInv, Once
    <3>3. CASE i > Len(group)
      <4>1. i - Len(group) \in DOMAIN pending /\ i - Len(group) <= take /\ group'[i] = pending[i - Len(group)]
        BY <1>2, <1>3, <1>8, <2>1, <2>2, <3>3
      <4>2. i - Len(group) # k + take
        BY <1>2, <1>3, <1>8, <3>1, <4>1
      <4>3. QED
        BY <3>1, <4>1, <4>2 DEF SInv, Once
    <3>4. QED
      BY <1>2, <1>8, <3>2, <3>3
  <2>7. QED
    BY <2>4, <2>5, <2>6 DEF Once
<1>11. BlankUntilStarted'
  <2>1. \A j \in Range(pending) \cup Range(group) : Blank(j)
    BY <1>1, <1>8 DEF SInv, BlankUntilStarted, Phase, Range
  <2>2. \A i \in DOMAIN pending' : pending'[i] \in Range(pending')
    BY DEF Range
  <2>3. \A i \in DOMAIN group' : group'[i] \in Range(group')
    BY DEF Range
  <2>4. QED
    BY <1>7, <2>1, <2>2, <2>3 DEF BlankUntilStarted, Blank
<1>12. LiveJobs' /\ JobsSane' /\ ChannelsWellFormed'
  BY ChannelsStay DEF SInv, LiveJobs, JobsSane
<1>13. OnlyTokens' /\ HalfEnded'
  BY <1>9 DEF SInv, OnlyTokens, HalfEnded, Ending, Streamed, Tokens
<1>14. Phase'
  BY <1>2, <1>3, <1>4, <1>6 DEF SInv, Phase, Busy, Delivering
<1>15. FreshAhead'
  BY <1>7 DEF SInv, FreshAhead, Blank
<1>16. TypeOK'
  BY <1>2, <1>3, <1>6 DEF SInv, TypeOK
<1>17. QED
  BY <1>9, <1>10, <1>11, <1>12, <1>13, <1>14, <1>15, <1>16 DEF SInv

(* What the scheduler has in its hands.                                    *)
LEMMA GroupIs ==
  ASSUME SInv, spc \in Busy
  PROVE  /\ group \in Seq(Jobs) /\ group # << >> /\ Len(group) \in Nat \ {0} /\ Len(group) <= MaxBatch
         /\ DOMAIN group = 1 .. Len(group) /\ \A i \in 1 .. Len(group) : group[i] \in Jobs
<1>1. group \in Seq(Jobs) /\ group # << >> /\ Len(group) <= MaxBatch
  BY DEF SInv, TypeOK, Phase
<1>2. QED
  BY <1>1

(* What is queued is not in the group.                                     *)
LEMMA QueuedApart ==
  ASSUME SInv, NEW i \in DOMAIN pending
  PROVE  pending[i] \in Jobs /\ pending[i] \notin Range(group)
<1>1. pending[i] \in Jobs
  BY DEF SInv, TypeOK
<1>2. QED
  BY <1>1 DEF SInv, Once, Range

(* What a caller is still to submit.                                       *)
LEMMA AheadIs ==
  ASSUME SInv, NEW c \in Callers, cpc[c] \in Submitting, NEW i \in cat[c] .. Len(JobsOf[c])
  PROVE  JobsOf[c][i] \in Jobs /\ JobsOf[c][i] \notin Range(pending) \cup Range(group) /\ Blank(JobsOf[c][i])
<1>1. cat[c] \in 1 .. Len(JobsOf[c]) /\ Len(JobsOf[c]) \in Nat
  BY Current, Requests DEF SInv
<1>2. JobsOf[c][i] \in Jobs
  BY <1>1, Requests
<1>3. QED
  BY <1>2 DEF SInv, FreshAhead

(* The jobs are started, and some of them fail to.                         *)
LEMMA StartJobsKeeps ==
  ASSUME SInv, StartJobs
  PROVE  SInv' /\ Waiting' = Waiting
<1> USE DEF callVars, queueVars
<1>a. PICK n \in 0 .. Len(group) : \E pick \in Picks(n, Len(group)) : live' = [i \in 1 .. n |-> group[pick[i]]]
  BY DEF StartJobs
<1>1. PICK pick \in Picks(n, Len(group)) : live' = [i \in 1 .. n |-> group[pick[i]]]
  BY <1>a
<1>2. /\ spc = "start" /\ at' = 1 /\ spc' = IF live' = << >> THEN "finish" ELSE "engine"
      /\ UNCHANGED <<callVars, queueVars, group, channel, closed, zpc>> /\ batched' \in BOOLEAN
      /\ job' = [j \in Jobs |-> [job[j] EXCEPT !.failed = @ \/ j \in Range(group) \ Range(live')]]
  BY DEF StartJobs
<1>3. /\ group \in Seq(Jobs) /\ group # << >> /\ Len(group) \in Nat \ {0} /\ Len(group) <= MaxBatch
      /\ DOMAIN group = 1 .. Len(group) /\ \A i \in 1 .. Len(group) : group[i] \in Jobs
  BY <1>2, GroupIs DEF Busy
<1>4. pick \in [1 .. n -> 1 .. Len(group)] /\ \A i, k \in 1 .. n : pick[i] = pick[k] => i = k
  BY DEF Picks
<1>5. /\ live' \in Seq(Jobs) /\ Len(live') = n /\ DOMAIN live' = 1 .. n
      /\ \A i \in 1 .. n : live'[i] = group[pick[i]]
  BY <1>1, <1>3, <1>4
<1>6. \A j \in Range(group) : j \in Jobs /\ Blank(j)
  BY <1>2, <1>3 DEF SInv, BlankUntilStarted, Range
<1>7. Range(live') \subseteq Range(group)
  BY <1>3, <1>4, <1>5 DEF Range
<1>8. job' \in [Jobs -> [made : 0 .. MaxTokens, done : BOOLEAN, failed : BOOLEAN]]
  BY <1>2 DEF SInv, TypeOK
<1>9. \A j \in Jobs : /\ job'[j].made = job[j].made /\ job'[j].done = job[j].done
                      /\ job'[j].failed <=> (job[j].failed \/ j \in Range(group) \ Range(live'))
  BY <1>2 DEF SInv, TypeOK
<1>10. \A j \in Jobs : j \notin Range(group) => job'[j] = job[j]
  BY <1>2 DEF SInv, TypeOK
<1>11. Waiting' = Waiting
  BY <1>2, <1>3 DEF Waiting, Unanswered
<1>12. TypeOK'
  <2>1. at' \in 1 .. MaxBatch /\ spc' \in {"finish", "engine"}
    BY <1>2, SchedulerAssumption
  <2>2. QED
    BY <1>2, <1>5, <1>8, <2>1 DEF SInv, TypeOK
<1>13. Phase'
  BY <1>2, <1>3, <1>5 DEF SInv, Phase, Busy, Delivering
<1>14. Once'
  BY <1>2 DEF SInv, Once
<1>15. FreshAhead'
  <2>1. ASSUME NEW c \in Callers, cpc[c] \in Submitting, NEW i \in cat[c] .. Len(JobsOf[c])
        PROVE  JobsOf[c][i] \notin Range(pending) \cup Range(group) /\ Blank(JobsOf[c][i])'
    <3>1. JobsOf[c][i] \in Jobs /\ JobsOf[c][i] \notin Range(pending) \cup Range(group) /\ Blank(JobsOf[c][i])
      BY <2>1, AheadIs
    <3>2. QED
      BY <1>2, <1>10, <3>1 DEF Blank
  <2>2. QED
    BY <1>2, <2>1 DEF FreshAhead
<1>16. BlankUntilStarted'
  <2>1. ASSUME NEW i \in DOMAIN pending PROVE Blank(pending[i])'
    <3>1. pending[i] \in Jobs /\ pending[i] \notin Range(group)
      BY QueuedApart
    <3>2. QED
      BY <1>2, <1>10, <3>1 DEF SInv, BlankUntilStarted, Blank
  <2>2. QED
    BY <1>2, <2>1 DEF BlankUntilStarted
<1>17. \A j \in Range(live') : ~job'[j].failed /\ ~job'[j].done
  BY <1>6, <1>7, <1>9 DEF Blank, NewJob
<1>18. LiveJobs'
  <2>1. \A i, k \in DOMAIN live' : live'[i] = live'[k] => i = k
    BY <1>3, <1>4, <1>5 DEF SInv, Once
  <2>2. \A i \in DOMAIN live' : live'[i] \in Range(live')
    BY DEF Range
  <2>3. \A i \in at' .. Len(live') : i \in DOMAIN live'
    BY <1>2, <1>5
  <2>4. Len(live') <= MaxBatch
    BY <1>3, <1>5, SchedulerAssumption
  <2>5. QED
    BY <1>2, <1>7, <1>17, <2>1, <2>2, <2>3, <2>4 DEF LiveJobs
<1>19. JobsSane'
  BY <1>6, <1>9 DEF SInv, JobsSane, Blank, NewJob
<1>20. OnlyTokens' /\ HalfEnded' /\ ChannelsWellFormed'
  <2>1. \A j \in Waiting : j \in Jobs
    BY <1>2, <1>3 DEF Waiting, Unanswered, Range, SInv, TypeOK
  <2>2. QED
    BY <1>2, <1>9, <1>11, <2>1, ChannelsStay DEF SInv, OnlyTokens, HalfEnded, Ending, Streamed, Tokens
<1>21. QED
  BY <1>11, <1>12, <1>13, <1>14, <1>15, <1>16, <1>18, <1>19, <1>20 DEF SInv

(* A channel with nothing but tokens is well formed.                       *)
LEMMA NotEndedYet ==
  ASSUME NEW j, NEW n \in 0 .. MaxTokens, n = 0 \/ Streamed(j)
  PROVE  \E t \in Endings(j, n) : Tokens(n) = Tokens(n) \o t
<1>1. n \in Nat
  BY SchedulerAssumption
<1>2. Tokens(n) = Tokens(n) \o << >>
  BY <1>1, OneMoreToken
<1>3. << >> \in Endings(j, n)
  BY DEF Endings
<1>4. QED
  BY <1>2, <1>3

(* A step of the engine: it changes what live jobs are and say, while their
   group is still waiting.                                                 *)
LEMMA EngineStep ==
  ASSUME SInv, spc \in {"engine", "fold"}, spc' \in {"engine", "fold", "finish"},
         UNCHANGED <<callVars, queueVars, group, live, batched, closed, zpc>>,
         job' \in [Jobs -> [made : 0 .. MaxTokens, done : BOOLEAN, failed : BOOLEAN]],
         channel' \in [Jobs -> Seq({"token", "end", "None", "result", "failure"})],
         \A j \in Jobs : Len(channel'[j]) >= Len(channel[j]),
         \A j \in Jobs \ Range(live) : job'[j] = job[j] /\ channel'[j] = channel[j],
         IF spc' = "finish" THEN at' = 1 ELSE at' \in DOMAIN live,
         JobsSane', LiveJobs',
         \A j \in Range(live) :
           \E n \in 0 .. job'[j].made : channel'[j] = Tokens(n) /\ (n = 0 \/ Streamed(j))
  PROVE  SInv' /\ Waiting' = Waiting
<1> USE DEF callVars, queueVars
<1>1. /\ group \in Seq(Jobs) /\ group # << >> /\ Len(group) \in Nat \ {0} /\ Len(group) <= MaxBatch
      /\ DOMAIN group = 1 .. Len(group) /\ \A i \in 1 .. Len(group) : group[i] \in Jobs
  BY GroupIs DEF Busy
<1>2. Range(live) \subseteq Range(group) /\ Len(live) <= MaxBatch /\ live \in Seq(Jobs)
  BY DEF SInv, LiveJobs, TypeOK
<1>3. Waiting' = Waiting /\ Range(group) \subseteq Waiting /\ Waiting \subseteq Jobs
  <2>1. Waiting' = Waiting
    BY <1>1 DEF Waiting, Unanswered
  <2>2. Range(group) \subseteq Waiting
    BY <1>1 DEF Waiting, Unanswered, Range
  <2>3. Waiting \subseteq Jobs
    <3>1. Unanswered = 1 .. Len(group)
      BY <1>1 DEF Unanswered
    <3>2. Range(pending) \subseteq Jobs
      BY DEF SInv, TypeOK, Range
    <3>3. QED
      BY <1>1, <3>1, <3>2 DEF Waiting
  <2>4. QED
    BY <2>1, <2>2, <2>3
<1>4. TypeOK'
  <2>1. at' \in 1 .. MaxBatch
    BY <1>2, SchedulerAssumption
  <2>2. \A j \in Jobs : read'[j] <= Len(channel'[j])
    <3>1. ASSUME NEW j \in Jobs PROVE read[j] <= Len(channel'[j])
      <4>1. read[j] \in Nat /\ read[j] <= Len(channel[j]) /\ Len(channel[j]) \in Nat /\ Len(channel'[j]) \in Nat
        BY DEF SInv, TypeOK
      <4>2. QED
        BY <4>1
    <3>2. QED
      BY <3>1
  <2>3. QED
    BY <2>1, <2>2 DEF SInv, TypeOK
<1>5. Phase'
  BY <1>1 DEF SInv, Phase, Busy, Delivering
<1>6. Once'
  BY DEF SInv, Once
<1>7. FreshAhead'
  <2>1. ASSUME NEW c \in Callers, cpc[c] \in Submitting, NEW i \in cat[c] .. Len(JobsOf[c])
        PROVE  JobsOf[c][i] \notin Range(pending) \cup Range(group) /\ Blank(JobsOf[c][i])'
    <3>1. JobsOf[c][i] \in Jobs /\ JobsOf[c][i] \notin Range(pending) \cup Range(group) /\ Blank(JobsOf[c][i])
      BY <2>1, AheadIs
    <3>2. QED
      BY <1>2, <3>1 DEF Blank
  <2>2. QED
    BY <2>1 DEF FreshAhead
<1>8. BlankUntilStarted'
  <2>1. ASSUME NEW i \in DOMAIN pending PROVE Blank(pending[i])'
    <3>1. pending[i] \in Jobs /\ pending[i] \notin Range(group)
      BY QueuedApart
    <3>2. QED
      BY <1>2, <3>1 DEF SInv, BlankUntilStarted, Blank
  <2>2. QED
    BY <2>1 DEF BlankUntilStarted
<1>9. OnlyTokens' /\ HalfEnded'
  <2>1. ASSUME NEW j \in Waiting
        PROVE  \E n \in 0 .. job'[j].made : channel'[j] = Tokens(n) /\ (n = 0 \/ Streamed(j))
    BY <1>3 DEF SInv, OnlyTokens, Ending
  <2>2. QED
    BY <1>3, <2>1 DEF OnlyTokens, HalfEnded, Streamed, Tokens
<1>10. ChannelsWellFormed'
  <2>1. ASSUME NEW j \in Range(live)
        PROVE  \E n \in 0 .. MaxTokens : \E t \in Endings(j, n) : channel'[j] = Tokens(n) \o t
    <3>1. PICK n \in 0 .. job'[j].made : channel'[j] = Tokens(n) /\ (n = 0 \/ Streamed(j))
      OBVIOUS
    <3>2. j \in Jobs /\ job'[j].made \in 0 .. MaxTokens /\ MaxTokens \in Nat
      BY <1>2, <1>3, SchedulerAssumption
    <3>3. n \in 0 .. MaxTokens
      BY <3>2
    <3>4. \E t \in Endings(j, n) : Tokens(n) = Tokens(n) \o t
      BY <3>1, <3>3, NotEndedYet
    <3>5. QED
      BY <3>1, <3>3, <3>4
  <2>2. ASSUME NEW j \in Jobs \ Range(live)
        PROVE  \E n \in 0 .. MaxTokens : \E t \in Endings(j, n) : channel'[j] = Tokens(n) \o t
    <3>1. ChannelsWellFormed
      BY DEF SInv
    <3>2. \E n \in 0 .. MaxTokens : \E t \in Endings(j, n) : channel[j] = Tokens(n) \o t
      BY <3>1 DEF ChannelsWellFormed
    <3>3. channel'[j] = channel[j]
      OBVIOUS
    <3>4. QED
      BY <3>2, <3>3, Zenon
  <2>3. \A j, n : Endings(j, n) \subseteq Endings(j, n)'
    BY SameEndings
  <2>4. ASSUME NEW j \in Jobs
        PROVE  \E n \in 0 .. MaxTokens : \E t \in Endings(j, n)' : channel'[j] = Tokens(n) \o t
    BY <2>1, <2>2, <2>3, Zenon
  <2>5. QED
    BY <2>4 DEF ChannelsWellFormed, Tokens
<1>11. QED
  BY <1>3, <1>4, <1>5, <1>6, <1>7, <1>8, <1>9, <1>10 DEF SInv

(* The member the scheduler is at.                                         *)
LEMMA LiveIs ==
  ASSUME SInv, spc \in {"engine", "fold"}
  PROVE  /\ live \in Seq(Jobs) /\ Len(live) \in Nat /\ DOMAIN live = 1 .. Len(live) /\ at \in 1 .. Len(live)
         /\ \A i \in 1 .. Len(live) : live[i] \in Jobs /\ live[i] \in Range(live)
         /\ \A j \in Range(live) : j \in Jobs /\ \E i \in 1 .. Len(live) : live[i] = j
         /\ \A i, k \in 1 .. Len(live) : live[i] = live[k] => i = k
         /\ ~job[live[at]].failed /\ (~batched => ~job[live[at]].done)
         /\ \A j \in Range(live) : \E n \in 0 .. job[j].made : channel[j] = Tokens(n) /\ (n = 0 \/ Streamed(j))
<1>1. live \in Seq(Jobs) /\ at \in DOMAIN live
  BY DEF SInv, TypeOK, Phase
<1>2. Len(live) \in Nat /\ DOMAIN live = 1 .. Len(live)
  BY <1>1
<1>3. /\ \A i \in 1 .. Len(live) : live[i] \in Jobs /\ live[i] \in Range(live)
      /\ \A j \in Range(live) : j \in Jobs /\ \E i \in 1 .. Len(live) : live[i] = j
  BY <1>1, <1>2 DEF Range
<1>4. \A i, k \in 1 .. Len(live) : live[i] = live[k] => i = k
  BY <1>2 DEF SInv, LiveJobs
<1>5. at \in at .. Len(live)
  BY <1>1, <1>2
<1>6. ~job[live[at]].failed /\ (~batched => ~job[live[at]].done)
  BY <1>1, <1>5 DEF SInv, LiveJobs
<1>7. Range(live) \subseteq Waiting
  <2>1. Range(live) \subseteq Range(group)
    BY DEF SInv, LiveJobs
  <2>2. Range(group) \subseteq Waiting
    BY DEF Waiting, Unanswered, Range
  <2>3. QED
    BY <2>1, <2>2
<1>8. QED
  BY <1>1, <1>2, <1>3, <1>4, <1>6, <1>7 DEF SInv, OnlyTokens, Ending

(* The job at hand, or the batch, raises.                                  *)
LEMMA RaiseKeeps ==
  ASSUME SInv, spc \in {"engine", "fold"}, Raise,
         UNCHANGED <<callVars, queueVars, group, live, batched, channel, closed, zpc>>
  PROVE  SInv' /\ Waiting' = Waiting
<1>1. job \in [Jobs -> [made : 0 .. MaxTokens, done : BOOLEAN, failed : BOOLEAN]]
  BY DEF SInv, TypeOK
<1>2. /\ channel' \in [Jobs -> Seq({"token", "end", "None", "result", "failure"})]
      /\ \A j \in Jobs : Len(channel'[j]) >= Len(channel[j])
  BY DEF SInv, TypeOK
<1>3. CASE batched
  <2>1. job' = FailGroup /\ spc' = "finish" /\ at' = 1
    BY <1>3 DEF Raise
  <2>2. /\ job' \in [Jobs -> [made : 0 .. MaxTokens, done : BOOLEAN, failed : BOOLEAN]]
        /\ \A j \in Jobs : /\ job'[j].made = job[j].made /\ job'[j].done = job[j].done
                           /\ job'[j].failed <=> (job[j].failed \/ (j \in Range(live) /\ ~job[j].done))
        /\ \A j \in Jobs \ Range(live) : job'[j] = job[j]
    BY <1>1, <2>1 DEF FailGroup
  <2>3. JobsSane' /\ LiveJobs'
    BY <2>1, <2>2 DEF SInv, JobsSane, LiveJobs
  <2>4. \A j \in Range(live) :
          \E n \in 0 .. job'[j].made : channel'[j] = Tokens(n) /\ (n = 0 \/ Streamed(j))
    <3>1. \A j \in Range(live) :
            j \in Jobs /\ \E n \in 0 .. job[j].made : channel[j] = Tokens(n) /\ (n = 0 \/ Streamed(j))
      BY LiveIs
    <3>2. \A j \in Range(live) : job'[j].made = job[j].made /\ channel'[j] = channel[j]
      BY <2>2, <3>1
    <3>3. QED
      BY <3>1, <3>2
  <2>5. QED
    BY <1>2, <2>1, <2>2, <2>3, <2>4, EngineStep
<1>4. CASE ~batched
  <2>1. job' = [job EXCEPT ![live[at]].failed = TRUE] /\ NextSerial
    BY <1>4 DEF Raise
  <2>2. live[at] \in Jobs /\ ~job[live[at]].done /\ live[at] \in Range(live)
    BY <1>4, LiveIs
  <2>3. /\ job' \in [Jobs -> [made : 0 .. MaxTokens, done : BOOLEAN, failed : BOOLEAN]]
        /\ \A j \in Jobs : job'[j].made = job[j].made /\ job'[j].done = job[j].done
        /\ \A j \in Jobs \ {live[at]} : job'[j] = job[j]
    <3> DEFINE l == live[at]
    <3>1. job' = [job EXCEPT ![l].failed = TRUE] /\ l \in Jobs
      BY <2>1, <2>2
    <3> HIDE DEF l
    <3>2. job' = [job EXCEPT ![l] = [@ EXCEPT !.failed = TRUE]]
      BY <3>1
    <3>3. job'[l] = [job[l] EXCEPT !.failed = TRUE] /\ \A j \in Jobs \ {l} : job'[j] = job[j]
      BY <1>1, <3>1, <3>2
    <3>4. job' \in [Jobs -> [made : 0 .. MaxTokens, done : BOOLEAN, failed : BOOLEAN]]
      BY <1>1, <3>1, <3>2
    <3>5. \A j \in Jobs : job'[j].made = job[j].made /\ job'[j].done = job[j].done
      BY <1>1, <3>1, <3>3
    <3>6. QED
      BY <3>3, <3>4, <3>5 DEF l
  <2>4. \A j \in Jobs \ Range(live) : job'[j] = job[j] /\ channel'[j] = channel[j]
    BY <2>2, <2>3
  <2>5. JobsSane'
    BY <2>2, <2>3 DEF SInv, JobsSane
  <2>6. \/ at < Len(live) /\ at' = at + 1 /\ spc' = "engine"
        \/ at' = 1 /\ spc' = "finish"
    BY <2>1 DEF NextSerial
  <2>7. LiveJobs'
    <3>1. CASE spc' = "finish"
      BY <3>1 DEF LiveJobs
    <3>2. CASE at < Len(live) /\ at' = at + 1 /\ spc' = "engine"
      <4>1. ASSUME NEW i \in at + 1 .. Len(live) PROVE ~job'[live[i]].failed /\ ~job'[live[i]].done
        <5>1. i \in at .. Len(live) /\ i \in 1 .. Len(live) /\ i # at /\ at \in 1 .. Len(live)
          BY LiveIs
        <5>2. live[i] # live[at] /\ live[i] \in Jobs
          BY <5>1, LiveIs
        <5>3. ~job[live[i]].failed /\ ~job[live[i]].done
          BY <1>4, <5>1 DEF SInv, LiveJobs
        <5>4. QED
          BY <2>3, <5>2, <5>3
      <4>2. QED
        BY <1>4, <3>2, <4>1 DEF SInv, LiveJobs
    <3>3. QED
      BY <2>6, <3>1, <3>2
  <2>8. \A j \in Range(live) :
          \E n \in 0 .. job'[j].made : channel'[j] = Tokens(n) /\ (n = 0 \/ Streamed(j))
    <3>1. \A j \in Range(live) :
            j \in Jobs /\ \E n \in 0 .. job[j].made : channel[j] = Tokens(n) /\ (n = 0 \/ Streamed(j))
      BY LiveIs
    <3>2. \A j \in Range(live) : job'[j].made = job[j].made /\ channel'[j] = channel[j]
      BY <2>3, <3>1
    <3>3. QED
      BY <3>1, <3>2
  <2>9. IF spc' = "finish" THEN at' = 1 ELSE at' \in DOMAIN live
    BY <2>6, LiveIs
  <2>10. spc' \in {"engine", "fold", "finish"}
    BY <2>6
  <2>11. QED
    BY <1>2, <2>3, <2>4, <2>5, <2>7, <2>8, <2>9, <2>10, EngineStep
<1>5. QED
  BY <1>3, <1>4

(* One token folded into the job at hand, which had not ended.             *)
LEMMA AdvanceIs ==
  ASSUME SInv, spc = "fold", ~job[live[at]].done, NEW ends \in BOOLEAN,
         NEW shown \in {FALSE, Streamed(live[at])}, Advance(live[at], ends, shown)
  PROVE  /\ job' \in [Jobs -> [made : 0 .. MaxTokens, done : BOOLEAN, failed : BOOLEAN]]
         /\ channel' \in [Jobs -> Seq({"token", "end", "None", "result", "failure"})]
         /\ \A j \in Jobs : Len(channel'[j]) >= Len(channel[j])
         /\ \A j \in Jobs \ {live[at]} : job'[j] = job[j] /\ channel'[j] = channel[j]
         /\ ~job'[live[at]].failed
         /\ JobsSane'
         /\ \A j \in Range(live) :
              \E n \in 0 .. job'[j].made : channel'[j] = Tokens(n) /\ (n = 0 \/ Streamed(j))
<1> DEFINE l == live[at]
<1>1. l \in Jobs /\ ~job[l].failed /\ ~job[l].done /\ l \in Range(live)
  BY LiveIs
<1>2. /\ job \in [Jobs -> [made : 0 .. MaxTokens, done : BOOLEAN, failed : BOOLEAN]]
      /\ channel \in [Jobs -> Seq({"token", "end", "None", "result", "failure"})]
      /\ MaxTokens \in Nat
  BY SchedulerAssumption DEF SInv, TypeOK
<1>3. /\ job' = [job EXCEPT ![l].made = @ + 1, ![l].done = ends \/ job[l].made + 1 >= MaxTokens]
      /\ channel' = IF shown THEN [channel EXCEPT ![l] = Append(@, "token")] ELSE channel
  BY DEF Advance
<1>4. job[l].made \in Nat /\ job[l].made < MaxTokens
  BY <1>1, <1>2 DEF SInv, JobsSane
<1>5. PICK n \in 0 .. job[l].made : channel[l] = Tokens(n) /\ (n = 0 \/ Streamed(l))
  BY <1>1, LiveIs
<1>6. n \in Nat
  OBVIOUS
<1> HIDE DEF l
<1>7. \A j \in Jobs : job'[j].made \in 0 .. MaxTokens /\ job'[j].done \in BOOLEAN /\ job'[j].failed \in BOOLEAN
  BY <1>1, <1>2, <1>3, <1>4
<1>8. /\ job'[l].made = job[l].made + 1 /\ ~job'[l].failed
      /\ ~job'[l].done => job[l].made + 1 < MaxTokens
  BY <1>1, <1>2, <1>3, <1>4
<1>9. \A j \in Jobs \ {l} : job'[j] = job[j] /\ channel'[j] = channel[j]
  BY <1>1, <1>2, <1>3
<1>10. job' \in [Jobs -> [made : 0 .. MaxTokens, done : BOOLEAN, failed : BOOLEAN]]
  <2>1. job[l].made + 1 \in 0 .. MaxTokens /\ (ends \/ job[l].made + 1 >= MaxTokens) \in BOOLEAN
    BY <1>2, <1>4
  <2>2. job' = [job EXCEPT ![l] = [job[l] EXCEPT !.made = job[l].made + 1,
                                              !.done = ends \/ job[l].made + 1 >= MaxTokens]]
    BY <1>1, <1>2, <1>3
  <2>3. [job[l] EXCEPT !.made = job[l].made + 1, !.done = ends \/ job[l].made + 1 >= MaxTokens]
          \in [made : 0 .. MaxTokens, done : BOOLEAN, failed : BOOLEAN]
    BY <1>1, <1>2, <2>1
  <2>4. QED
    BY <1>1, <1>2, <2>2, <2>3
<1>11. channel'[l] = channel[l] \/ (shown /\ channel'[l] = Append(channel[l], "token"))
  BY <1>1, <1>2, <1>3
<1>12. channel' \in [Jobs -> Seq({"token", "end", "None", "result", "failure"})]
  <2>1. channel[l] \in Seq({"token", "end", "None", "result", "failure"})
    BY <1>1, <1>2
  <2>2. Append(channel[l], "token") \in Seq({"token", "end", "None", "result", "failure"})
    BY <2>1
  <2>3. QED
    BY <1>1, <1>2, <1>3, <2>2
<1>13. \A j \in Jobs : Len(channel'[j]) >= Len(channel[j])
  <2>1. \A j \in Jobs : Len(channel[j]) \in Nat
    BY <1>2
  <2>2. channel[l] \in Seq({"token", "end", "None", "result", "failure"})
    BY <1>1, <1>2
  <2>3. Len(channel'[l]) >= Len(channel[l])
    BY <1>11, <2>2
  <2>4. QED
    BY <1>9, <2>1, <2>3
<1>14. JobsSane'
  <2>1. ~(job'[l].done /\ job'[l].failed) /\ (~job'[l].done => job'[l].made < MaxTokens)
    BY <1>8
  <2>2. QED
    BY <1>9, <2>1 DEF SInv, JobsSane
<1>15. \E m \in 0 .. job'[l].made : channel'[l] = Tokens(m) /\ (m = 0 \/ Streamed(l))
  <2>1. CASE channel'[l] = channel[l]
    <3>1. n \in 0 .. job'[l].made
      BY <1>4, <1>6, <1>8
    <3>2. QED
      BY <1>5, <2>1, <3>1
  <2>2. CASE shown /\ channel'[l] = Append(channel[l], "token")
    <3>1. n + 1 \in 0 .. job'[l].made
      BY <1>4, <1>6, <1>8
    <3>2. channel'[l] = Tokens(n + 1)
      BY <1>5, <1>6, <2>2, OneMoreToken
    <3>3. Streamed(l)
      BY <2>2 DEF l
    <3>4. QED
      BY <3>1, <3>2, <3>3
  <2>3. QED
    BY <1>11, <2>1, <2>2
<1>16. \A j \in Range(live) :
          \E m \in 0 .. job'[j].made : channel'[j] = Tokens(m) /\ (m = 0 \/ Streamed(j))
  <2>1. ASSUME NEW j \in Range(live), j # l
        PROVE  \E m \in 0 .. job'[j].made : channel'[j] = Tokens(m) /\ (m = 0 \/ Streamed(j))
    <3>1. j \in Jobs
      BY LiveIs
    <3>2. QED
      BY <1>9, <2>1, <3>1, LiveIs
  <2>2. QED
    BY <1>15, <2>1
<1>17. QED
  BY <1>8, <1>9, <1>10, <1>12, <1>13, <1>14, <1>16 DEF l

(* Each of the engine's steps.                                             *)
LEMMA EngineKeeps ==
  ASSUME SInv, EngineCall \/ FoldSerial \/ FoldBatched
  PROVE  SInv' /\ Waiting' = Waiting
<1>1. CASE EngineCall
  <2>1. CASE Raise
    BY <1>1, <2>1, RaiseKeeps DEF EngineCall
  <2>2. CASE spc' = "fold" /\ UNCHANGED <<at, job>>
    <3>1. /\ spc = "engine" /\ spc' = "fold" /\ UNCHANGED <<at, job, live, batched, group, channel, closed, zpc>>
          /\ UNCHANGED <<callVars, queueVars>>
      BY <1>1, <2>2 DEF EngineCall
    <3>2. /\ job' \in [Jobs -> [made : 0 .. MaxTokens, done : BOOLEAN, failed : BOOLEAN]]
          /\ channel' \in [Jobs -> Seq({"token", "end", "None", "result", "failure"})]
          /\ \A j \in Jobs : Len(channel'[j]) >= Len(channel[j])
      BY <3>1 DEF SInv, TypeOK
    <3>3. JobsSane' /\ LiveJobs'
      BY <3>1 DEF SInv, JobsSane, LiveJobs
    <3>4. \A j \in Range(live) :
            \E n \in 0 .. job'[j].made : channel'[j] = Tokens(n) /\ (n = 0 \/ Streamed(j))
      BY <3>1, LiveIs
    <3>5. at' \in DOMAIN live
      BY <3>1, LiveIs
    <3>6. QED
      BY <3>1, <3>2, <3>3, <3>4, <3>5, EngineStep
  <2>3. QED
    BY <1>1, <2>1, <2>2 DEF EngineCall
<1>2. CASE FoldSerial
  <2>1. CASE closed
    BY <1>2, <2>1, RaiseKeeps DEF FoldSerial
  <2>2. CASE ~closed
    <3>0. \E ends \in BOOLEAN : \E shown \in {FALSE, Streamed(live[at])} :
            /\ Advance(live[at], ends, shown)
            /\ IF job'[live[at]].done THEN NextSerial ELSE spc' = "engine" /\ UNCHANGED at
      BY <1>2, <2>2 DEF FoldSerial
    <3>a. PICK ends \in BOOLEAN : \E shown \in {FALSE, Streamed(live[at])} :
            /\ Advance(live[at], ends, shown)
            /\ IF job'[live[at]].done THEN NextSerial ELSE spc' = "engine" /\ UNCHANGED at
      BY <3>0
    <3>1. PICK shown \in {FALSE, Streamed(live[at])} :
            /\ Advance(live[at], ends, shown)
            /\ IF job'[live[at]].done THEN NextSerial ELSE spc' = "engine" /\ UNCHANGED at
      BY <3>a
    <3>2. spc = "fold" /\ ~batched /\ UNCHANGED <<callVars, queueVars, group, live, batched, closed, zpc>>
      BY <1>2 DEF FoldSerial
    <3>3. /\ live[at] \in Jobs /\ ~job[live[at]].done /\ at \in 1 .. Len(live) /\ Len(live) \in Nat
          /\ DOMAIN live = 1 .. Len(live) /\ live[at] \in Range(live)
      BY <3>2, LiveIs
    <3>4. /\ job' \in [Jobs -> [made : 0 .. MaxTokens, done : BOOLEAN, failed : BOOLEAN]]
          /\ channel' \in [Jobs -> Seq({"token", "end", "None", "result", "failure"})]
          /\ \A j \in Jobs : Len(channel'[j]) >= Len(channel[j])
          /\ \A j \in Jobs \ {live[at]} : job'[j] = job[j] /\ channel'[j] = channel[j]
          /\ ~job'[live[at]].failed /\ JobsSane'
          /\ \A j \in Range(live) :
               \E n \in 0 .. job'[j].made : channel'[j] = Tokens(n) /\ (n = 0 \/ Streamed(j))
      BY <3>1, <3>2, <3>3, AdvanceIs
    <3>5. \/ at < Len(live) /\ at' = at + 1 /\ spc' = "engine" /\ job'[live[at]].done
          \/ at' = 1 /\ spc' = "finish"
          \/ at' = at /\ spc' = "engine" /\ ~job'[live[at]].done
      BY <3>1 DEF NextSerial
    <3>6. ASSUME NEW i \in at + 1 .. Len(live) PROVE ~job'[live[i]].failed /\ ~job'[live[i]].done
      <4>1. i \in at .. Len(live) /\ i \in 1 .. Len(live) /\ i # at
        BY <3>3
      <4>2. live[i] # live[at] /\ live[i] \in Jobs
        BY <3>2, <3>3, <4>1, LiveIs
      <4>3. ~job[live[i]].failed /\ ~job[live[i]].done
        BY <3>2, <4>1 DEF SInv, LiveJobs
      <4>4. QED
        BY <3>4, <4>2, <4>3
    <3>7. LiveJobs'
      <4>1. ASSUME spc' # "finish", NEW i \in at' .. Len(live) PROVE ~job'[live[i]].failed /\ ~job'[live[i]].done
        <5>1. CASE i = at
          BY <3>3, <3>4, <3>5, <4>1, <5>1
        <5>2. CASE i # at
          <6>1. i \in at + 1 .. Len(live)
            BY <3>3, <3>5, <4>1, <5>2
          <6>2. QED
            BY <3>6, <6>1
        <5>3. QED
          BY <5>1, <5>2
      <4>2. QED
        BY <3>2, <4>1 DEF SInv, LiveJobs
    <3>8. IF spc' = "finish" THEN at' = 1 ELSE at' \in DOMAIN live
      BY <3>3, <3>5
    <3>9. spc' \in {"engine", "fold", "finish"}
      BY <3>5
    <3>10. \A j \in Jobs \ Range(live) : job'[j] = job[j] /\ channel'[j] = channel[j]
      BY <3>3, <3>4
    <3>11. QED
      BY <3>2, <3>4, <3>7, <3>8, <3>9, <3>10, EngineStep
  <2>3. QED
    BY <2>1, <2>2
<1>3. CASE FoldBatched
  <2>1. spc = "fold" /\ batched /\ UNCHANGED <<callVars, queueVars, group, live, batched, closed, zpc>>
    BY <1>3 DEF FoldBatched
  <2>2. CASE closed /\ ~job[live[at]].done
    BY <1>3, <2>1, <2>2, RaiseKeeps DEF FoldBatched
  <2>3. CASE ~(closed /\ ~job[live[at]].done)
    <3>1. /\ live[at] \in Jobs /\ ~job[live[at]].failed /\ at \in 1 .. Len(live) /\ Len(live) \in Nat
          /\ DOMAIN live = 1 .. Len(live) /\ live[at] \in Range(live)
      BY <2>1, LiveIs
    <3>2. /\ job' \in [Jobs -> [made : 0 .. MaxTokens, done : BOOLEAN, failed : BOOLEAN]]
          /\ channel' \in [Jobs -> Seq({"token", "end", "None", "result", "failure"})]
          /\ \A j \in Jobs : Len(channel'[j]) >= Len(channel[j])
          /\ \A j \in Jobs \ {live[at]} : job'[j] = job[j] /\ channel'[j] = channel[j]
          /\ ~job'[live[at]].failed /\ JobsSane'
          /\ \A j \in Range(live) :
               \E n \in 0 .. job'[j].made : channel'[j] = Tokens(n) /\ (n = 0 \/ Streamed(j))
      <4>1. CASE job[live[at]].done
        <5>1. UNCHANGED <<job, channel>>
          BY <1>3, <2>3, <4>1 DEF FoldBatched
        <5>2. /\ job' \in [Jobs -> [made : 0 .. MaxTokens, done : BOOLEAN, failed : BOOLEAN]]
              /\ channel' \in [Jobs -> Seq({"token", "end", "None", "result", "failure"})]
              /\ \A j \in Jobs : Len(channel'[j]) >= Len(channel[j])
          BY <5>1 DEF SInv, TypeOK
        <5>3. \A j \in Range(live) :
                \E n \in 0 .. job'[j].made : channel'[j] = Tokens(n) /\ (n = 0 \/ Streamed(j))
          BY <2>1, <5>1, LiveIs
        <5>4. QED
          BY <3>1, <5>1, <5>2, <5>3 DEF SInv, JobsSane
      <4>2. CASE ~job[live[at]].done
        <5>0. \E ends \in BOOLEAN : \E shown \in {FALSE, Streamed(live[at])} : Advance(live[at], ends, shown)
          BY <1>3, <2>3, <4>2 DEF FoldBatched
        <5>a. PICK ends \in BOOLEAN : \E shown \in {FALSE, Streamed(live[at])} : Advance(live[at], ends, shown)
          BY <5>0
        <5>1. PICK shown \in {FALSE, Streamed(live[at])} : Advance(live[at], ends, shown)
          BY <5>a
        <5>2. QED
          BY <2>1, <4>2, <5>1, AdvanceIs
      <4>3. QED
        BY <4>1, <4>2
    <3>3. \/ at < Len(live) /\ at' = at + 1 /\ spc' = "fold"
          \/ at' = 1 /\ spc' \in {"finish", "engine"}
      BY <1>3, <2>1, <2>3 DEF FoldBatched
    <3>4. LiveJobs'
      <4>1. ASSUME NEW i \in DOMAIN live PROVE ~job'[live[i]].failed
        <5>1. CASE live[i] = live[at]
          BY <3>2, <5>1
        <5>2. CASE live[i] # live[at]
          <6>1. live[i] \in Jobs
            BY <2>1, <3>1, LiveIs
          <6>2. ~job[live[i]].failed
            BY <2>1 DEF SInv, LiveJobs
          <6>3. QED
            BY <3>2, <5>2, <6>1, <6>2
        <5>3. QED
          BY <5>1, <5>2
      <4>2. QED
        BY <2>1, <4>1 DEF SInv, LiveJobs
    <3>5. IF spc' = "finish" THEN at' = 1 ELSE at' \in DOMAIN live
      BY <3>1, <3>3
    <3>6. spc' \in {"engine", "fold", "finish"}
      BY <3>3
    <3>7. \A j \in Jobs \ Range(live) : job'[j] = job[j] /\ channel'[j] = channel[j]
      BY <3>1, <3>2
    <3>8. QED
      BY <2>1, <3>2, <3>4, <3>5, <3>6, <3>7, EngineStep
  <2>4. QED
    BY <2>2, <2>3
<1>4. QED
  BY <1>1, <1>2, <1>3

(* close ends the grace: the group starts as it is.                        *)
LEMMA ClosedGraceKeeps ==
  ASSUME SInv, GraceOver, closed
  PROVE  SInv' /\ Waiting' = Waiting
<1> USE DEF callVars
<1>1. /\ spc = "grace" /\ spc' = "start"
      /\ UNCHANGED <<callVars, active, queued, pending, group, live, batched, at, job, channel, closed, zpc>>
  BY DEF GraceOver
<1>2. Waiting' = Waiting
  BY <1>1 DEF Waiting, Unanswered
<1>3. TypeOK' /\ Phase' /\ Once' /\ FreshAhead'
  BY <1>1 DEF SInv, TypeOK, Phase, Busy, Delivering, Once, FreshAhead, Blank
<1>4. BlankUntilStarted' /\ LiveJobs' /\ JobsSane' /\ ChannelsWellFormed'
  BY <1>1, ChannelsStay DEF SInv, BlankUntilStarted, Blank, LiveJobs, JobsSane
<1>5. OnlyTokens' /\ HalfEnded'
  BY <1>1, <1>2 DEF SInv, OnlyTokens, HalfEnded, Ending, Streamed, Tokens
<1>6. QED
  BY <1>2, <1>3, <1>4, <1>5 DEF SInv

(* What the scheduler delivers.                                            *)
LEMMA DeliveringIs ==
  ASSUME SInv, spc \in Delivering
  PROVE  /\ at \in 1 .. Len(group) /\ Len(group) \in Nat /\ Len(group) <= MaxBatch
         /\ group[at] \in Jobs /\ group[at] \in Range(group)
         /\ \A i, k \in 1 .. Len(group) : group[i] = group[k] => i = k
         /\ \A i \in 1 .. Len(group) : group[i] \notin Range(pending)
         /\ spc \in {"finish", "none"} => group[at] \in Waiting
         /\ Waiting \subseteq Jobs
<1>1. /\ group \in Seq(Jobs) /\ Len(group) \in Nat \ {0} /\ Len(group) <= MaxBatch
      /\ DOMAIN group = 1 .. Len(group) /\ \A i \in 1 .. Len(group) : group[i] \in Jobs
  BY GroupIs DEF Busy
<1>2. at \in 1 .. Len(group)
  BY <1>1 DEF SInv, Phase
<1>3. /\ \A i, k \in 1 .. Len(group) : group[i] = group[k] => i = k
      /\ \A i \in 1 .. Len(group) : group[i] \notin Range(pending)
  BY <1>1 DEF SInv, Once, Range
<1>4. group[at] \in Range(group)
  BY <1>1, <1>2 DEF Range
<1>5. at \in at .. Len(group)
  BY <1>1, <1>2
<1>6. spc \in {"finish", "none"} => group[at] \in Waiting
  BY <1>5 DEF Waiting, Unanswered
<1>7. Waiting \subseteq Jobs
  <2>1. Unanswered \subseteq 1 .. Len(group)
    BY <1>1, <1>2 DEF Unanswered, Delivering
  <2>2. Range(pending) \subseteq Jobs
    BY DEF SInv, TypeOK, Range
  <2>3. QED
    BY <1>1, <2>1, <2>2 DEF Waiting
<1>8. QED
  BY <1>1, <1>2, <1>3, <1>4, <1>6, <1>7

(* Who waits after the job at hand.                                        *)
LEMMA AfterThis ==
  ASSUME SInv, spc \in Delivering
  PROVE  Waiting \ {group[at]} = Range(pending) \cup {group[i] : i \in at + 1 .. Len(group)}
<1>1. /\ at \in 1 .. Len(group) /\ Len(group) \in Nat
      /\ \A i, k \in 1 .. Len(group) : group[i] = group[k] => i = k
      /\ \A i \in 1 .. Len(group) : group[i] \notin Range(pending)
  BY DeliveringIs
<1>2. /\ \A i : i \in at .. Len(group) <=> i = at \/ i \in at + 1 .. Len(group)
      /\ \A i \in at + 1 .. Len(group) : i \in 1 .. Len(group) /\ i # at
  BY <1>1
<1>3. Unanswered = at .. Len(group) \/ Unanswered = at + 1 .. Len(group)
  BY DEF Unanswered, Delivering
<1>4. \A j : j \in Waiting \ {group[at]} <=>
             j \in Range(pending) \/ \E i \in at + 1 .. Len(group) : j = group[i]
  <2>1. \A j : j \in Waiting <=> j \in Range(pending) \/ \E i \in Unanswered : j = group[i]
    BY DEF Waiting
  <2>2. \A i \in at + 1 .. Len(group) : group[i] # group[at]
    BY <1>1, <1>2
  <2>3. group[at] \notin Range(pending)
    BY <1>1
  <2>4. QED
    BY <1>2, <1>3, <2>1, <2>2, <2>3
<1>5. QED
  BY <1>4

(* The parts of an ending, put one after the other.                        *)
Events == {"token", "end", "None", "result", "failure"}
LEMMA EndingParts ==
  ASSUME NEW n \in Nat
  PROVE  /\ \A e \in Events : /\ Append(Tokens(n), e) = Tokens(n) \o <<e>>
                              /\ Tokens(n) \o <<e>> \in Seq(Events)
                              /\ Len(Tokens(n) \o <<e>>) = n + 1
                              /\ (Tokens(n) \o <<e>>)[n + 1] = e
         /\ Append(Tokens(n) \o <<"end">>, "None") = Tokens(n) \o <<"end", "None">>
         /\ Len(Tokens(n) \o <<"end", "None">>) = n + 2
         /\ (Tokens(n) \o <<"end", "None">>)[n + 2] = "None"
<1>1. Tokens(n) \in Seq(Events) /\ Len(Tokens(n)) = n
  <2>1. Tokens(n) \in Seq({"token"}) /\ Len(Tokens(n)) = n
    BY OneMoreToken
  <2>2. QED
    BY <2>1 DEF Events
<1> DEFINE s == Tokens(n)
<1> HIDE DEF s
<1>2. s \in Seq(Events) /\ Len(s) = n
  BY <1>1 DEF s
<1>3. "end" \in Events /\ "None" \in Events
  BY DEF Events
<1>4. \A e \in Events : /\ Append(s, e) = s \o <<e>> /\ s \o <<e>> \in Seq(Events)
                        /\ Len(s \o <<e>>) = n + 1 /\ (s \o <<e>>)[n + 1] = e
  BY <1>2
<1>5. \A e, f \in Events : /\ Append(s \o <<e>>, f) = s \o <<e, f>>
                           /\ Len(s \o <<e, f>>) = n + 2 /\ (s \o <<e, f>>)[n + 2] = f
  BY <1>2, SMTT(30)
<1>6. QED
  BY <1>3, <1>4, <1>5 DEF s

(* An event for which nobody waits any more ends its channel.              *)
Final == {"result", "None", "failure"}

(* What is put on the channel of the job that is delivered.                *)
LEMMA PutIs ==
  ASSUME SInv, PutAnswer \/ PutNone
  PROVE  /\ spc' \in {"none", "clear"} /\ spc \in {"finish", "none"}
         /\ UNCHANGED <<callVars, queueVars, groupVars, closed, zpc>>
         /\ channel' \in [Jobs -> Seq(Events)]
         /\ \A j \in Jobs \ {group[at]} : channel'[j] = channel[j]
         /\ Len(channel'[group[at]]) = Len(channel[group[at]]) + 1
         /\ \E n \in 0 .. MaxTokens : \E t \in Endings(group[at], n)' : channel'[group[at]] = Tokens(n) \o t
         /\ spc' = "none" => /\ Streamed(group[at])
                             /\ \E n \in 0 .. MaxTokens : channel'[group[at]] = Tokens(n) \o <<"end">>
         /\ spc' = "clear" => channel'[group[at]][Len(channel'[group[at]])] \in Final
<1> DEFINE g == group[at]
<1>1. spc \in {"finish", "none"} /\ UNCHANGED <<callVars, queueVars, groupVars, closed, zpc>>
  BY DEF PutAnswer, PutNone
<1>2. g \in Jobs /\ g \in Waiting
  BY <1>1, DeliveringIs DEF Delivering
<1>3. channel \in [Jobs -> Seq(Events)] /\ MaxTokens \in Nat /\ job[g].made \in 0 .. MaxTokens
  BY <1>2, SchedulerAssumption DEF SInv, TypeOK, Events
<1>4. UNCHANGED <<group, at>> /\ g' = g
  BY <1>1 DEF groupVars
<1>5. CASE PutAnswer
  <2>1. spc = "finish" /\ channel' = [channel EXCEPT ![g] = Append(@, Terminal(g))]
        /\ spc' = IF Terminal(g) = "end" THEN "none" ELSE "clear"
    BY <1>5 DEF PutAnswer
  <2>2. PICK n \in 0 .. job[g].made : channel[g] = Tokens(n) /\ (n = 0 \/ Streamed(g))
    BY <1>2, <2>1 DEF SInv, OnlyTokens, Ending
  <2>3. n \in 0 .. MaxTokens /\ n \in Nat
    BY <1>3
  <2>4. Terminal(g) \in {"end", "result", "failure"} /\ Terminal(g) \in Events
        /\ (Terminal(g) = "end" => Streamed(g))
    BY DEF Terminal, Events
  <2>5. channel'[g] = Append(channel[g], Terminal(g))
    BY <1>2, <1>3, <2>1
  <2>6. /\ channel'[g] = Tokens(n) \o <<Terminal(g)>> /\ channel'[g] \in Seq(Events)
        /\ Len(channel'[g]) = n + 1 /\ channel'[g][n + 1] = Terminal(g)
    <3> DEFINE e == Terminal(g)
    <3>1. e \in Events /\ channel'[g] = Append(channel[g], e)
      BY <2>4, <2>5
    <3> HIDE DEF e
    <3>2. /\ Append(Tokens(n), e) = Tokens(n) \o <<e>> /\ Tokens(n) \o <<e>> \in Seq(Events)
          /\ Len(Tokens(n) \o <<e>>) = n + 1 /\ (Tokens(n) \o <<e>>)[n + 1] = e
      BY <2>3, <3>1, EndingParts
    <3>3. channel'[g] = Tokens(n) \o <<e>>
      BY <2>2, <3>1, <3>2, Zenon
    <3>4. QED
      BY <3>2, <3>3 DEF e
  <2>7. Len(channel[g]) = n
    BY <2>2, <2>3, OneMoreToken
  <2>8. <<Terminal(g)>> \in Endings(g, n)'
    <3>1. CASE Terminal(g) = "end"
      BY <1>4, <2>1, <2>4, <3>1 DEF Endings, Streamed
    <3>2. CASE Terminal(g) # "end"
      <4>1. Terminal(g) = "failure" \/ (Terminal(g) = "result" /\ ~Streamed(g))
        BY <3>2 DEF Terminal
      <4>2. n = 0 \/ Streamed(g)
        BY <2>2
      <4>3. QED
        BY <1>4, <4>1, <4>2 DEF Endings, Streamed
    <3>3. QED
      BY <3>1, <3>2
  <2>9. channel' \in [Jobs -> Seq(Events)] /\ \A j \in Jobs \ {g} : channel'[j] = channel[j]
    <3>1. channel' = [channel EXCEPT ![g] = channel'[g]]
      BY <1>2, <1>3, <2>1
    <3>2. QED
      BY <1>2, <1>3, <2>6, <3>1
  <2>10. \E m \in 0 .. MaxTokens : \E t \in Endings(g, m)' : channel'[g] = Tokens(m) \o t
    BY <2>3, <2>6, <2>8
  <2>11. spc' = "none" => Streamed(g) /\ \E m \in 0 .. MaxTokens : channel'[g] = Tokens(m) \o <<"end">>
    BY <2>1, <2>3, <2>4, <2>6
  <2>12. spc' = "clear" => channel'[g][Len(channel'[g])] \in Final
    BY <2>1, <2>4, <2>6 DEF Final
  <2>13. QED
    BY <1>1, <2>1, <2>6, <2>7, <2>9, <2>10, <2>11, <2>12
<1>6. CASE PutNone
  <2>1. spc = "none" /\ channel' = [channel EXCEPT ![g] = Append(@, "None")] /\ spc' = "clear"
    BY <1>6 DEF PutNone
  <2>2. PICK n \in 0 .. MaxTokens : channel[g] = Tokens(n) \o <<"end">>
    BY <2>1 DEF SInv, HalfEnded
  <2>3. n \in Nat /\ Streamed(g) /\ "end" \in Events /\ "None" \in Events
    BY <1>3, <2>1 DEF SInv, HalfEnded, Events
  <2>4. channel'[g] = Append(channel[g], "None")
    BY <1>2, <1>3, <2>1
  <2>5. /\ channel'[g] = Tokens(n) \o <<"end", "None">>
        /\ Len(channel'[g]) = n + 2 /\ channel'[g][n + 2] = "None" /\ Len(channel[g]) = n + 1
    BY <2>2, <2>3, <2>4, EndingParts
  <2>6. <<"end", "None">> \in Endings(g, n)'
    BY <1>4, <2>3 DEF Endings, Streamed
  <2>7. channel'[g] \in Seq(Events)
    <3>1. channel[g] \in Seq(Events)
      BY <1>2, <1>3
    <3>2. QED
      BY <2>3, <2>4, <3>1
  <2>8. channel' \in [Jobs -> Seq(Events)] /\ \A j \in Jobs \ {g} : channel'[j] = channel[j]
    <3>1. channel' = [channel EXCEPT ![g] = channel'[g]]
      BY <1>2, <1>3, <2>1
    <3>2. QED
      BY <1>2, <1>3, <2>7, <3>1
  <2>9. \E m \in 0 .. MaxTokens : \E t \in Endings(g, m)' : channel'[g] = Tokens(m) \o t
    BY <2>5, <2>6
  <2>10. Len(channel'[g]) = Len(channel[g]) + 1 /\ channel'[g][Len(channel'[g])] \in Final
    BY <2>3, <2>5 DEF Final
  <2>11. QED
    BY <1>1, <2>1, <2>8, <2>9, <2>10
<1>7. QED
  BY <1>5, <1>6

(* Who waits is told the end of a stream while it does, and is answered.   *)
LEMMA PutWaits ==
  ASSUME SInv, PutAnswer \/ PutNone
  PROVE  Waiting' = IF spc' = "none" THEN Waiting ELSE Waiting \ {group[at]}
<1>1. /\ spc' \in {"none", "clear"} /\ spc \in {"finish", "none"} /\ UNCHANGED <<pending, group, at>>
  BY PutIs DEF queueVars, groupVars
<1>2. Waiting \ {group[at]} = Range(pending) \cup {group[i] : i \in at + 1 .. Len(group)}
  BY <1>1, AfterThis DEF Delivering
<1>3. CASE spc' = "none"
  BY <1>1, <1>3 DEF Waiting, Unanswered
<1>4. CASE spc' = "clear"
  BY <1>1, <1>2, <1>4 DEF Waiting, Unanswered
<1>5. QED
  BY <1>1, <1>3, <1>4

(* An event of the delivery goes out.                                      *)
LEMMA PutKeeps ==
  ASSUME SInv, PutAnswer \/ PutNone
  PROVE  SInv'
<1> DEFINE g == group[at]
<1> USE DEF callVars, queueVars, groupVars
<1>1. /\ spc' \in {"none", "clear"} /\ spc \in {"finish", "none"}
      /\ UNCHANGED <<cpc, cat, read, pending, active, queued, group, live, batched, at, job, closed, zpc>>
      /\ channel' \in [Jobs -> Seq(Events)]
      /\ \A j \in Jobs \ {g} : channel'[j] = channel[j]
      /\ Len(channel'[g]) = Len(channel[g]) + 1
      /\ \E n \in 0 .. MaxTokens : \E t \in Endings(g, n)' : channel'[g] = Tokens(n) \o t
      /\ spc' = "none" => Streamed(g) /\ \E n \in 0 .. MaxTokens : channel'[g] = Tokens(n) \o <<"end">>
  BY PutIs
<1>2. /\ g \in Jobs /\ g \in Range(group) /\ Waiting \subseteq Jobs
  BY <1>1, DeliveringIs DEF Delivering
<1>3. Waiting' \subseteq Waiting /\ (spc' = "clear" => g \notin Waiting')
  BY <1>1, PutWaits
<1>4. g' = g
  BY <1>1
<1> HIDE DEF g
<1>5. TypeOK'
  <2>1. \A k \in Jobs : read'[k] <= Len(channel'[k])
    <3>1. ASSUME NEW k \in Jobs PROVE read[k] <= Len(channel'[k])
      <4>1. read[k] \in Nat /\ read[k] <= Len(channel[k]) /\ Len(channel[k]) \in Nat
        BY DEF SInv, TypeOK
      <4>2. Len(channel'[k]) = Len(channel[k]) \/ Len(channel'[k]) = Len(channel[k]) + 1
        BY <1>1
      <4>3. QED
        BY <4>1, <4>2
    <3>2. QED
      BY <1>1, <3>1
  <2>2. QED
    BY <1>1, <2>1 DEF SInv, TypeOK, Events
<1>6. Phase'
  BY <1>1 DEF SInv, Phase, Busy, Delivering
<1>7. Once' /\ LiveJobs' /\ JobsSane'
  BY <1>1 DEF SInv, Once, LiveJobs, JobsSane
<1>8. FreshAhead'
  <2>1. ASSUME NEW c \in Callers, cpc[c] \in Submitting, NEW i \in cat[c] .. Len(JobsOf[c])
        PROVE  JobsOf[c][i] \notin Range(pending) \cup Range(group) /\ Blank(JobsOf[c][i])'
    <3>1. JobsOf[c][i] \in Jobs /\ JobsOf[c][i] \notin Range(pending) \cup Range(group) /\ Blank(JobsOf[c][i])
      BY <2>1, AheadIs
    <3>2. QED
      BY <1>1, <1>2, <3>1 DEF Blank
  <2>2. QED
    BY <1>1, <2>1 DEF FreshAhead
<1>9. BlankUntilStarted'
  <2>1. ASSUME NEW i \in DOMAIN pending PROVE Blank(pending[i])'
    <3>1. pending[i] \in Jobs /\ pending[i] \notin Range(group)
      BY QueuedApart
    <3>2. QED
      BY <1>1, <1>2, <3>1 DEF SInv, BlankUntilStarted, Blank
  <2>2. QED
    BY <1>1, <2>1 DEF BlankUntilStarted
<1>10. OnlyTokens'
  <2>1. ASSUME NEW j \in Waiting', ~Ending(j)'
        PROVE  \E n \in 0 .. job'[j].made : channel'[j] = Tokens(n) /\ (n = 0 \/ Streamed(j))
    <3>1. j # g
      BY <1>1, <1>3, <1>4, <2>1 DEF Ending, g
    <3>2. ~Ending(j) /\ j \in Waiting /\ j \in Jobs
      BY <1>2, <1>3, <3>1 DEF Ending, g
    <3>3. \E n \in 0 .. job[j].made : channel[j] = Tokens(n) /\ (n = 0 \/ Streamed(j))
      BY <3>2 DEF SInv, OnlyTokens
    <3>4. channel'[j] = channel[j] /\ job' = job
      BY <1>1, <3>1, <3>2
    <3>5. QED
      BY <3>3, <3>4
  <2>2. QED
    BY <2>1 DEF OnlyTokens, Streamed, Tokens
<1>11. HalfEnded'
  BY <1>1, <1>4 DEF HalfEnded, Streamed, Tokens, g
<1>12. ChannelsWellFormed'
  <2>1. ASSUME NEW j \in Jobs, j # g
        PROVE  \E n \in 0 .. MaxTokens : \E t \in Endings(j, n)' : channel'[j] = Tokens(n) \o t
    <3>1. PICK n \in 0 .. MaxTokens : \E t \in Endings(j, n) : channel[j] = Tokens(n) \o t
      BY DEF SInv, ChannelsWellFormed
    <3>2. PICK t \in Endings(j, n) : channel[j] = Tokens(n) \o t
      BY <3>1
    <3>3. t \in Endings(j, n)'
      BY <1>1, <2>1 DEF Endings, Streamed, g
    <3>4. channel'[j] = channel[j]
      BY <1>1, <2>1
    <3>5. QED
      BY <3>2, <3>3, <3>4, Zenon
  <2>2. \E n \in 0 .. MaxTokens : \E t \in Endings(g, n)' : channel'[g] = Tokens(n) \o t
    BY <1>1
  <2>3. ASSUME NEW j \in Jobs
        PROVE  \E n \in 0 .. MaxTokens : \E t \in Endings(j, n)' : channel'[j] = Tokens(n) \o t
    <3>1. CASE j = g
      BY <1>4, <2>2, <3>1
    <3>2. CASE j # g
      BY <2>1, <3>2
    <3>3. QED
      BY <3>1, <3>2
  <2>4. QED
    BY <2>3 DEF ChannelsWellFormed, Tokens
<1>13. QED
  BY <1>5, <1>6, <1>7, <1>8, <1>9, <1>10, <1>11, <1>12 DEF SInv

(* The state is cleared of the answered job.                               *)
LEMMA ClearKeeps ==
  ASSUME SInv, ClearState
  PROVE  SInv' /\ Waiting' = Waiting
<1> USE DEF callVars, queueVars, groupVars
<1>1. /\ spc = "clear" /\ spc' = "leave" /\ active' = active \ {group[at]}
      /\ UNCHANGED <<cpc, cat, read, pending, queued, group, live, batched, at, job, channel, closed, zpc>>
  BY DEF ClearState
<1>2. Held' /\ Waiting' = Waiting
  BY <1>1, HeldStays DEF SInv, Held
<1>3. Phase'
  BY <1>1 DEF SInv, Phase, Busy, Delivering
<1>4. FreshAhead' /\ TypeOK'
  BY <1>1 DEF SInv, FreshAhead, Blank, TypeOK
<1>5. QED
  BY <1>2, <1>3, <1>4 DEF SInv, Held

(* The next of the group is at hand, or the group is done with.            *)
LEMMA LeaveIs ==
  ASSUME SInv, LeaveQueue
  PROVE  /\ Waiting' = Waiting /\ Range(group') \subseteq Range(group)
         /\ \/ at < Len(group) /\ at' = at + 1 /\ group' = group /\ spc' = "finish"
            \/ at' = 1 /\ group' = << >> /\ spc' = "top"
<1>1. spc = "leave" /\ UNCHANGED pending
  BY DEF LeaveQueue
<1>2. at \in 1 .. Len(group) /\ Len(group) \in Nat
  BY <1>1, DeliveringIs DEF Delivering
<1>3. \/ at < Len(group) /\ at' = at + 1 /\ group' = group /\ spc' = "finish"
      \/ ~(at < Len(group)) /\ at' = 1 /\ group' = << >> /\ spc' = "top"
  BY DEF LeaveQueue
<1>4. Waiting = Range(pending) \cup {group[i] : i \in at + 1 .. Len(group)}
  BY <1>1 DEF Waiting, Unanswered
<1>5. CASE at < Len(group) /\ at' = at + 1 /\ group' = group /\ spc' = "finish"
  BY <1>1, <1>4, <1>5 DEF Waiting, Unanswered
<1>6. CASE ~(at < Len(group)) /\ at' = 1 /\ group' = << >> /\ spc' = "top"
  <2>1. DOMAIN group' = {} /\ at + 1 .. Len(group) = {}
    BY <1>2, <1>6
  <2>2. Waiting' = Range(pending) /\ Waiting = Range(pending)
    BY <1>1, <1>4, <1>6, <2>1 DEF Waiting, Unanswered
  <2>3. Range(group') = {}
    BY <2>1 DEF Range
  <2>4. QED
    BY <1>6, <2>2, <2>3
<1>7. QED
  BY <1>3, <1>5, <1>6

LEMMA LeaveKeeps ==
  ASSUME SInv, LeaveQueue
  PROVE  SInv' /\ Waiting' = Waiting
<1> USE DEF callVars
<1>1. /\ Waiting' = Waiting /\ Range(group') \subseteq Range(group)
      /\ \/ at < Len(group) /\ at' = at + 1 /\ group' = group /\ spc' = "finish"
         \/ at' = 1 /\ group' = << >> /\ spc' = "top"
  BY LeaveIs
<1>2. /\ spc = "leave" /\ queued' = Left(queued)
      /\ UNCHANGED <<cpc, cat, read, pending, active, live, batched, job, channel, closed, zpc>>
  BY DEF LeaveQueue
<1>3. at \in 1 .. Len(group) /\ Len(group) \in Nat /\ Len(group) <= MaxBatch
  BY <1>2, DeliveringIs DEF Delivering
<1>4. TypeOK'
  <2>1. at' \in 1 .. MaxBatch /\ Len(group') <= MaxBatch /\ group' \in Seq(Jobs)
        /\ spc' \in {"finish", "top"}
    <3>1. group \in Seq(Jobs) /\ MaxBatch \in Nat \ {0} /\ << >> \in Seq(Jobs) /\ Len(<< >>) = 0
      BY SchedulerAssumption DEF SInv, TypeOK
    <3>2. CASE at < Len(group) /\ at' = at + 1 /\ group' = group /\ spc' = "finish"
      BY <1>3, <3>1, <3>2
    <3>3. CASE at' = 1 /\ group' = << >> /\ spc' = "top"
      <4>1. Len(group') = 0 /\ group' \in Seq(Jobs)
        BY <3>1, <3>3
      <4>2. QED
        BY <3>1, <3>3, <4>1
    <3>4. QED
      BY <1>1, <3>2, <3>3
  <2>2. queued' \in Nat
    BY <1>2 DEF SInv, TypeOK, Left
  <2>3. QED
    BY <1>2, <2>1, <2>2 DEF SInv, TypeOK
<1>5. Phase'
  <2>1. DOMAIN group = 1 .. Len(group)
    BY DEF SInv, TypeOK
  <2>2. QED
    BY <1>1, <1>2, <1>3, <2>1 DEF SInv, Phase, Busy, Delivering
<1>6. Once'
  <2>1. group' = group \/ group' = << >>
    BY <1>1
  <2>2. CASE group' = group
    BY <1>2, <2>2 DEF SInv, Once
  <2>3. CASE group' = << >>
    <3>1. DOMAIN group' = {}
      BY <2>3
    <3>2. QED
      BY <1>2, <3>1 DEF SInv, Once
  <2>4. QED
    BY <2>1, <2>2, <2>3
<1>7. FreshAhead' /\ BlankUntilStarted'
  BY <1>1, <1>2 DEF SInv, FreshAhead, BlankUntilStarted, Blank
<1>8. LiveJobs' /\ JobsSane' /\ ChannelsWellFormed'
  BY <1>1, <1>2, ChannelsStay DEF SInv, LiveJobs, JobsSane
<1>9. OnlyTokens' /\ HalfEnded'
  BY <1>1, <1>2 DEF SInv, OnlyTokens, HalfEnded, Ending, Streamed, Tokens
<1>10. QED
  BY <1>1, <1>4, <1>5, <1>6, <1>7, <1>8, <1>9 DEF SInv

(* Nothing has happened yet.                                               *)
LEMMA InitSInv == Init => SInv
<1> SUFFICES ASSUME Init PROVE SInv
  OBVIOUS
<1>1. TypeOK
  <2>1. \A c \in Callers : cat[c] \in DOMAIN JobsOf[c]
    BY Requests DEF Init
  <2>2. MaxBatch \in Nat \ {0} /\ MaxTokens \in Nat \ {0}
    BY SchedulerAssumption
  <2>3. \A j \in Jobs : read[j] <= Len(channel[j])
    BY DEF Init
  <2>4. job \in [Jobs -> [made : 0 .. MaxTokens, done : BOOLEAN, failed : BOOLEAN]]
    BY <2>2 DEF Init
  <2>5. /\ << >> \in Seq(Jobs) /\ Len(<< >>) = 0
        /\ << >> \in Seq({"token", "end", "None", "result", "failure"})
    OBVIOUS
  <2>6. /\ pending \in Seq(Jobs) /\ group \in Seq(Jobs) /\ live \in Seq(Jobs)
        /\ Len(group) <= MaxBatch /\ at \in 1 .. MaxBatch
        /\ channel \in [Jobs -> Seq({"token", "end", "None", "result", "failure"})]
    BY <2>2, <2>5 DEF Init
  <2>7. QED
    BY <2>1, <2>2, <2>3, <2>4, <2>6 DEF Init, TypeOK
<1>2. Waiting = {}
  BY DEF Init, Waiting, Unanswered, Range
<1>3. Phase /\ Once /\ BlankUntilStarted /\ LiveJobs /\ OnlyTokens /\ HalfEnded
  BY <1>2 DEF Init, Phase, Busy, Delivering, Once, BlankUntilStarted, LiveJobs, OnlyTokens, HalfEnded
<1>4. FreshAhead
  <2>1. \A j \in Jobs : Blank(j)
    BY DEF Init, Blank, NewJob
  <2>2. \A c \in Callers : \A i \in cat[c] .. Len(JobsOf[c]) : JobsOf[c][i] \in Jobs
    BY Requests DEF Init
  <2>3. QED
    BY <2>1, <2>2 DEF Init, FreshAhead, Range
<1>5. JobsSane
  BY SchedulerAssumption DEF Init, JobsSane
<1>6. ChannelsWellFormed
  <2>1. \A j \in Jobs : channel[j] = Tokens(0) \o << >>
    <3>1. Tokens(0) = << >>
      BY OneMoreToken, 0 \in Nat
    <3>2. << >> \o << >> = << >>
      OBVIOUS
    <3>3. QED
      BY <3>1, <3>2 DEF Init
  <2>2. \A j \in Jobs : << >> \in Endings(j, 0)
    BY DEF Endings
  <2>3. 0 \in 0 .. MaxTokens
    BY SchedulerAssumption
  <2>4. QED
    BY <2>1, <2>2, <2>3 DEF ChannelsWellFormed
<1>7. QED
  BY <1>1, <1>3, <1>4, <1>5, <1>6 DEF SInv

(* Every step keeps the invariant.                                         *)
LEMMA NextKeeps == SInv /\ [Next]_vars => SInv'
<1> SUFFICES ASSUME SInv, [Next]_vars PROVE SInv'
  OBVIOUS
<1>1. ASSUME NEW c \in Callers, Call(c) \/ CallerStep(c) \/ Abandon(c) PROVE SInv'
  BY <1>1, CallersMove, EnqueueKeeps DEF CallerStep
<1>2. CASE SchedulerStep
  <2>1. CASE Sleep \/ Exit
    BY <2>1, IdleSteps
  <2>2. CASE TakeGroup
    BY <2>2, PullKeeps DEF TakeGroup
  <2>3. CASE GraceFill
    BY <2>3, PullKeeps DEF GraceFill
  <2>4. CASE GraceOver
    <3>1. CASE closed
      BY <2>4, <3>1, ClosedGraceKeeps
    <3>2. CASE ~closed
      BY <2>4, <3>2, PullKeeps DEF GraceOver
    <3>3. QED
      BY <3>1, <3>2
  <2>5. CASE StartJobs
    BY <2>5, StartJobsKeeps
  <2>6. CASE EngineCall \/ FoldSerial \/ FoldBatched
    BY <2>6, EngineKeeps
  <2>7. CASE PutAnswer \/ PutNone \/ ClearState \/ LeaveQueue
    BY <2>7, PutKeeps, ClearKeeps, LeaveKeeps
  <2>8. QED
    BY <1>2, <2>1, <2>2, <2>3, <2>4, <2>5, <2>6, <2>7 DEF SchedulerStep
<1>3. CASE CloserStep
  BY <1>3, IdleSteps
<1>4. CASE UNCHANGED vars
  <2>1. UNCHANGED <<cpc, cat, read, pending, active, queued, group, live, batched, at, job, channel,
                    closed, spc, zpc>>
    BY <1>4 DEF vars, callVars, queueVars, groupVars
  <2>2. Held' /\ Phase'
    BY <2>1, HeldStays DEF SInv, Held, Phase
  <2>3. FreshAhead' /\ TypeOK'
    BY <2>1 DEF SInv, FreshAhead, Blank, TypeOK
  <2>4. QED
    BY <2>2, <2>3 DEF SInv, Held
<1>5. QED
  BY <1>1, <1>2, <1>3, <1>4 DEF Next, Ended

(* The records of the callers, the queue, the group and the jobs are what
   they are declared to be, for any callers, requests and batch width.     *)
THEOREM TypeIsRight == Spec => []TypeOK
<1>1. SInv => TypeOK
  BY DEF SInv
<1> QED
  BY <1>1, InitSInv, NextKeeps, PTL DEF Spec

(* "Deliver the terminal event (or the failure), once": each channel is
   tokens and then one ending of its own kind, and a member that ended
   before its batch failed keeps its result.                               *)
THEOREM AnswersAreWellFormed == Spec => []AnswersWellFormed
<1>1. SInv => AnswersWellFormed
  BY DEF SInv, AnswersWellFormed, JobsSane
<1> QED
  BY <1>1, InitSInv, NextKeeps, PTL DEF Spec

-----------------------------------------------------------------------------
(* The gauges.                                                             *)

(* Where a caller has its request in the state, and in the depth.          *)
KnownAt == {"enter", "enqueue", "refuse"}
CountedAt == {"enqueue", "refuse", "unqueue"}

(* Whose request is registered, and whose is counted in the queue.         *)
LEMMA AtTheQueue ==
  ASSUME TypeOK, NEW c \in Callers
  PROVE  /\ Cur(c) \in Entering <=> cpc[c] \in CountedAt
         /\ Cur(c) \in Registering <=> cpc[c] \in KnownAt
         /\ \A j : j \in Entering <=> \E d \in Callers : cpc[d] \in CountedAt /\ j = Cur(d)
         /\ \A j : j \in Registering <=> \E d \in Callers : cpc[d] \in KnownAt /\ j = Cur(d)
<1>1. \A j : j \in Entering <=> \E d \in Callers : cpc[d] \in CountedAt /\ j = Cur(d)
  BY DEF Entering, CountedAt
<1>2. \A j : j \in Registering <=> \E d \in Callers : cpc[d] \in KnownAt /\ j = Cur(d)
  BY DEF Registering, KnownAt
<1>3. \A d \in Callers : Cur(d) = Cur(c) => d = c
  BY CurrentApart
<1>4. QED
  BY <1>1, <1>2, <1>3

(* A caller moves, and the others do not.                                  *)
LEMMA QueueMoves ==
  ASSUME TypeOK, NEW c \in Callers,
         \A d \in Callers \ {c} : cpc'[d] = cpc[d] /\ cat'[d] = cat[d],
         cpc'[c] \in KnownAt \cup CountedAt => cat'[c] = cat[c]
  PROVE  /\ cpc'[c] \in CountedAt => Entering' = Entering \cup {Cur(c)}
         /\ cpc'[c] \notin CountedAt => Entering' = Entering \ {Cur(c)}
         /\ cpc'[c] \in KnownAt => Registering' = Registering \cup {Cur(c)}
         /\ cpc'[c] \notin KnownAt => Registering' = Registering \ {Cur(c)}
<1>1. /\ \A j : j \in Entering' <=> \E d \in Callers : cpc'[d] \in CountedAt /\ j = JobsOf[d][cat'[d]]
      /\ \A j : j \in Registering' <=>
           \E d \in Callers : cpc'[d] \in KnownAt /\ j = JobsOf[d][cat'[d]]
  BY DEF Entering, Registering, Cur, KnownAt, CountedAt
<1>2. /\ \A j : j \in Entering <=> \E d \in Callers : cpc[d] \in CountedAt /\ j = JobsOf[d][cat[d]]
      /\ \A j : j \in Registering <=>
           \E d \in Callers : cpc[d] \in KnownAt /\ j = JobsOf[d][cat[d]]
  BY DEF Entering, Registering, Cur, KnownAt, CountedAt
<1>3. \A d \in Callers \ {c} : JobsOf[d][cat[d]] # Cur(c)
  BY CurrentApart DEF Cur
<1>4. Cur(c) = JobsOf[c][cat[c]]
  BY DEF Cur
<1>5. ASSUME NEW j
      PROVE  /\ j \in Entering' <=> \/ \E d \in Callers \ {c} : cpc[d] \in CountedAt /\ j = JobsOf[d][cat[d]]
                                    \/ cpc'[c] \in CountedAt /\ j = Cur(c)
             /\ j \in Entering <=> \/ \E d \in Callers \ {c} : cpc[d] \in CountedAt /\ j = JobsOf[d][cat[d]]
                                   \/ cpc[c] \in CountedAt /\ j = Cur(c)
  BY <1>1, <1>2, <1>4
<1>6. ASSUME NEW j
      PROVE  /\ j \in Registering' <=>
                  \/ \E d \in Callers \ {c} : cpc[d] \in KnownAt /\ j = JobsOf[d][cat[d]]
                  \/ cpc'[c] \in KnownAt /\ j = Cur(c)
             /\ j \in Registering <=>
                  \/ \E d \in Callers \ {c} : cpc[d] \in KnownAt /\ j = JobsOf[d][cat[d]]
                  \/ cpc[c] \in KnownAt /\ j = Cur(c)
  BY <1>1, <1>2, <1>4
<1>7. ASSUME cpc'[c] \in CountedAt PROVE Entering' = Entering \cup {Cur(c)}
  BY <1>5, <1>7
<1>8. ASSUME cpc'[c] \notin CountedAt PROVE Entering' = Entering \ {Cur(c)}
  BY <1>3, <1>5, <1>8
<1>9. ASSUME cpc'[c] \in KnownAt PROVE Registering' = Registering \cup {Cur(c)}
  BY <1>6, <1>9
<1>10. ASSUME cpc'[c] \notin KnownAt PROVE Registering' = Registering \ {Cur(c)}
  BY <1>3, <1>6, <1>10
<1>11. QED
  BY <1>7, <1>8, <1>9, <1>10

(* A request that is not in the queue yet does not wait in it.             *)
LEMMA NotYetWaiting ==
  ASSUME SInv, NEW c \in Callers, cpc[c] \in Submitting
  PROVE  Cur(c) \notin Waiting /\ Cur(c) \notin Range(group)
<1>1. cat[c] \in cat[c] .. Len(JobsOf[c]) /\ Cur(c) = JobsOf[c][cat[c]]
  <2>1. cat[c] \in 1 .. Len(JobsOf[c]) /\ Len(JobsOf[c]) \in Nat /\ Cur(c) = JobsOf[c][cat[c]]
    BY Current, Requests DEF SInv
  <2>2. QED
    BY <2>1
<1>2. Cur(c) \notin Range(pending) \cup Range(group)
  BY <1>1, AheadIs
<1>3. Waiting \subseteq Range(pending) \cup Range(group)
  <2>1. group \in Seq(Jobs) /\ at \in 1 .. MaxBatch /\ MaxBatch \in Nat
    BY SchedulerAssumption DEF SInv, TypeOK
  <2>2. /\ DOMAIN group = 1 .. Len(group) /\ at .. Len(group) \subseteq 1 .. Len(group)
        /\ at + 1 .. Len(group) \subseteq 1 .. Len(group)
    BY <2>1
  <2>3. Unanswered \subseteq DOMAIN group
    BY <2>2 DEF Unanswered
  <2>4. QED
    BY <2>3 DEF Waiting, Range
<1>4. QED
  BY <1>2, <1>3

(* The requests the depth counts, the depth, and the state.                *)
GInv == IsFiniteSet(Waiting \cup Entering) /\ GaugesFollow

(* The depth after one more, and after one less.                           *)
LEMMA OneMore ==
  ASSUME GInv, NEW j, j \notin Waiting \cup Entering, spc' = spc,
         Waiting' \cup Entering' = (Waiting \cup Entering) \cup {j}, queued' = queued + 1
  PROVE  IsFiniteSet(Waiting \cup Entering)' /\ DepthFollows'
<1>1. /\ IsFiniteSet((Waiting \cup Entering) \cup {j})
      /\ Cardinality((Waiting \cup Entering) \cup {j}) = Cardinality(Waiting \cup Entering) + 1
  BY FS_AddElement DEF GInv
<1>2. Cardinality(Waiting \cup Entering) \in Nat
  BY FS_CardinalityType DEF GInv
<1>3. QED
  BY <1>1, <1>2 DEF GInv, GaugesFollow, DepthFollows

LEMMA OneLess ==
  ASSUME GInv, NEW j, j \in Waiting \cup Entering,
         Waiting' \cup Entering' = (Waiting \cup Entering) \ {j},
         \/ spc' = spc /\ queued' = Left(queued)
         \/ spc \notin {"clear", "leave"} /\ spc' \in {"clear", "leave"} /\ queued' = queued
  PROVE  IsFiniteSet(Waiting \cup Entering)' /\ DepthFollows'
<1>1. Cardinality(Waiting \cup Entering) \in Nat /\ Cardinality(Waiting \cup Entering) # 0
  BY FS_CardinalityType, FS_EmptySet DEF GInv
<1>2. /\ IsFiniteSet((Waiting \cup Entering) \ {j})
      /\ Cardinality((Waiting \cup Entering) \ {j}) = Cardinality(Waiting \cup Entering) - 1
  BY FS_RemoveElement DEF GInv
<1>3. queued = Cardinality(Waiting \cup Entering) + (IF spc \in {"clear", "leave"} THEN 1 ELSE 0)
  BY DEF GInv, GaugesFollow, DepthFollows
<1>4. IsFiniteSet(Waiting \cup Entering)'
      /\ Cardinality(Waiting \cup Entering)' = Cardinality(Waiting \cup Entering) - 1
  BY <1>2
<1>5. CASE spc' = spc /\ queued' = Left(queued)
  BY <1>1, <1>3, <1>4, <1>5 DEF DepthFollows, Left
<1>6. CASE spc \notin {"clear", "leave"} /\ spc' \in {"clear", "leave"} /\ queued' = queued
  BY <1>1, <1>3, <1>4, <1>6 DEF DepthFollows
<1>7. QED
  BY <1>4, <1>5, <1>6

(* A caller registers its request, and takes it into the queue or back.    *)
LEMMA CallersKeepGauges ==
  ASSUME SInv, GInv, NEW c \in Callers, Call(c) \/ CallerStep(c) \/ Abandon(c)
  PROVE  GInv'
<1> USE DEF callVars, queueVars, groupVars
<1>1. TypeOK
  BY DEF SInv
<1>2. cpc \in [Callers -> {"idle", "check", "begin", "enter", "enqueue", "refuse",
                           "unqueue", "drain", "returned", "raised", "left"}] /\ cat \in [Callers -> Nat]
  BY <1>1 DEF TypeOK
<1>3. /\ Cur(c) \in Entering <=> cpc[c] \in CountedAt
      /\ Cur(c) \in Registering <=> cpc[c] \in KnownAt
  BY <1>1, AtTheQueue
<1>4. CASE Call(c) \/ CheckOpen(c) \/ Get(c) \/ Abandon(c)
  <2>1. /\ cpc[c] \notin KnownAt \cup CountedAt /\ cpc'[c] \notin KnownAt \cup CountedAt
        /\ \A d \in Callers \ {c} : cpc'[d] = cpc[d] /\ cat'[d] = cat[d]
    BY <1>2, <1>4 DEF Call, CheckOpen, Get, Abandon, KnownAt, CountedAt
  <2>2. Entering' = Entering /\ Registering' = Registering
    BY <1>1, <1>3, <2>1, QueueMoves
  <2>3. UNCHANGED <<pending, group, at, spc, active, queued, zpc>>
    BY <1>4 DEF Call, CheckOpen, Get, Abandon
  <2>4. Waiting' = Waiting
    BY <2>3 DEF Waiting, Unanswered
  <2>5. QED
    BY <2>2, <2>3, <2>4 DEF GInv, GaugesFollow, DepthFollows, StateFollows, InFlight
<1>5. CASE BeginRequest(c)
  <2>1. /\ cpc[c] = "begin" /\ cpc'[c] = "enter" /\ active' = active \cup {Cur(c)} /\ UNCHANGED cat
        /\ \A d \in Callers \ {c} : cpc'[d] = cpc[d] /\ cat'[d] = cat[d]
    BY <1>2, <1>5 DEF BeginRequest
  <2>2. Entering' = Entering /\ Registering' = Registering \cup {Cur(c)}
    BY <1>1, <1>3, <2>1, QueueMoves DEF KnownAt, CountedAt
  <2>3. UNCHANGED <<pending, group, at, spc, queued, zpc>>
    BY <1>5 DEF BeginRequest
  <2>4. Waiting' = Waiting
    BY <2>3 DEF Waiting, Unanswered
  <2>5. QED
    BY <2>1, <2>2, <2>3, <2>4 DEF GInv, GaugesFollow, DepthFollows, StateFollows, InFlight
<1>6. CASE EnterQueue(c)
  <2>1. /\ cpc[c] = "enter" /\ cpc'[c] = "enqueue" /\ queued' = queued + 1 /\ UNCHANGED cat
        /\ \A d \in Callers \ {c} : cpc'[d] = cpc[d] /\ cat'[d] = cat[d]
    BY <1>2, <1>6 DEF EnterQueue
  <2>2. Entering' = Entering \cup {Cur(c)} /\ Registering' = Registering /\ Cur(c) \notin Entering
    BY <1>1, <1>3, <2>1, QueueMoves DEF KnownAt, CountedAt
  <2>3. UNCHANGED <<pending, group, at, spc, active, zpc>>
    BY <1>6 DEF EnterQueue
  <2>4. Waiting' = Waiting
    BY <2>3 DEF Waiting, Unanswered
  <2>5. Cur(c) \notin Waiting
    BY <2>1, NotYetWaiting DEF Submitting
  <2>6. IsFiniteSet(Waiting \cup Entering)' /\ DepthFollows'
    <3>1. Waiting' \cup Entering' = (Waiting \cup Entering) \cup {Cur(c)}
      BY <2>2, <2>4
    <3>2. QED
      BY <2>1, <2>2, <2>3, <2>5, <3>1, OneMore
  <2>7. StateFollows'
    BY <2>2, <2>3, <2>4 DEF GInv, GaugesFollow, StateFollows, InFlight
  <2>8. QED
    BY <2>6, <2>7 DEF GInv, GaugesFollow
<1>7. CASE Enqueue(c)
  <2>1. cpc[c] = "enqueue" /\ UNCHANGED <<group, at, zpc, active, queued>>
    BY <1>7 DEF Enqueue, Accept
  <2>2. \A d \in Callers \ {c} : cpc'[d] = cpc[d] /\ cat'[d] = cat[d]
    BY <1>2, <1>7 DEF Enqueue, Accept
  <2>3. CASE closed
    <3>1. cpc'[c] = "refuse" /\ UNCHANGED <<cat, pending, spc>>
      BY <1>2, <1>7, <2>3 DEF Enqueue
    <3>2. Entering' = Entering /\ Registering' = Registering
      BY <1>1, <1>3, <2>1, <2>2, <3>1, QueueMoves DEF KnownAt, CountedAt
    <3>3. Waiting' = Waiting
      BY <2>1, <3>1 DEF Waiting, Unanswered
    <3>4. QED
      BY <2>1, <3>1, <3>2, <3>3 DEF GInv, GaugesFollow, DepthFollows, StateFollows, InFlight
  <2>4. CASE ~closed
    <3>1. pending' = Append(pending, Cur(c)) /\ spc' = Notified /\ cpc'[c] \in {"check", "drain"}
      BY <1>2, <1>7, <2>4 DEF Enqueue, Accept
    <3>2. Entering' = Entering \ {Cur(c)} /\ Registering' = Registering \ {Cur(c)}
      BY <1>1, <2>2, <3>1, QueueMoves DEF KnownAt, CountedAt
    <3>3. pending \in Seq(Jobs) /\ Cur(c) \in Jobs
      BY <1>1, Current DEF TypeOK
    <3>4. Waiting' = Waiting \cup {Cur(c)}
      BY <2>1, <3>1, <3>3, AppendOne DEF Waiting, Unanswered, Notified
    <3>5. Waiting' \cup Entering' = Waiting \cup Entering /\ Waiting' \cup Registering' = Waiting \cup Registering
      BY <1>3, <2>1, <3>2, <3>4 DEF KnownAt, CountedAt
    <3>6. spc' = spc \/ (spc = "asleep" /\ spc' = "top")
      BY <3>1 DEF Notified
    <3>7. InFlight' = InFlight
      BY <2>1, <3>5, <3>6 DEF InFlight
    <3>8. QED
      BY <2>1, <3>5, <3>6, <3>7 DEF GInv, GaugesFollow, DepthFollows, StateFollows
  <2>5. QED
    BY <2>3, <2>4
<1>8. CASE RefuseState(c)
  <2>1. /\ cpc[c] = "refuse" /\ cpc'[c] = "unqueue" /\ active' = active \ {Cur(c)}
        /\ UNCHANGED <<cat, pending, group, at, spc, queued, zpc>>
        /\ \A d \in Callers \ {c} : cpc'[d] = cpc[d] /\ cat'[d] = cat[d]
    BY <1>2, <1>8 DEF RefuseState
  <2>2. Entering' = Entering /\ Registering' = Registering \ {Cur(c)} /\ Cur(c) \in Registering
    BY <1>1, <1>3, <2>1, QueueMoves DEF KnownAt, CountedAt
  <2>3. Waiting' = Waiting
    BY <2>1 DEF Waiting, Unanswered
  <2>4. Cur(c) \notin Waiting /\ Cur(c) \notin Range(group)
    BY <2>1, NotYetWaiting DEF Submitting
  <2>5. spc = "clear" => group[at] # Cur(c)
    BY <2>4, DeliveringIs DEF Delivering
  <2>6. InFlight' = InFlight \ {Cur(c)}
    BY <2>1, <2>2, <2>3, <2>4, <2>5 DEF InFlight
  <2>7. QED
    BY <2>1, <2>2, <2>3, <2>6 DEF GInv, GaugesFollow, DepthFollows, StateFollows
<1>9. CASE RefuseQueue(c)
  <2>1. /\ cpc[c] = "unqueue" /\ cpc'[c] = "raised" /\ queued' = Left(queued)
        /\ UNCHANGED <<cat, pending, group, at, spc, active, zpc>>
        /\ \A d \in Callers \ {c} : cpc'[d] = cpc[d] /\ cat'[d] = cat[d]
    BY <1>2, <1>9 DEF RefuseQueue
  <2>2. Entering' = Entering \ {Cur(c)} /\ Registering' = Registering /\ Cur(c) \in Entering
    BY <1>1, <1>3, <2>1, QueueMoves DEF KnownAt, CountedAt
  <2>3. Waiting' = Waiting
    BY <2>1 DEF Waiting, Unanswered
  <2>4. Cur(c) \notin Waiting
    BY <2>1, NotYetWaiting DEF Submitting
  <2>5. Waiting' \cup Entering' = (Waiting \cup Entering) \ {Cur(c)}
    BY <2>2, <2>3, <2>4
  <2>6. IsFiniteSet(Waiting \cup Entering)' /\ DepthFollows'
    BY <2>1, <2>2, <2>5, OneLess
  <2>7. StateFollows'
    BY <2>1, <2>2, <2>3 DEF GInv, GaugesFollow, StateFollows, InFlight
  <2>8. QED
    BY <2>6, <2>7 DEF GInv, GaugesFollow
<1>10. QED
  BY <1>4, <1>5, <1>6, <1>7, <1>8, <1>9 DEF CallerStep

(* The answer goes out, and the gauges have not let go yet: the job is
   nobody's that is still at the queue.                                    *)
LEMMA PutKeepsGauges ==
  ASSUME SInv, GInv, PutAnswer \/ PutNone
  PROVE  GInv'
<1> DEFINE g == group[at]
<1>1. /\ spc' \in {"none", "clear"} /\ spc \in {"finish", "none"}
      /\ UNCHANGED <<cpc, cat, active, queued, group, at, zpc>>
  BY PutIs DEF callVars, queueVars, groupVars
<1>2. g \in Waiting /\ g \in Range(group) /\ Waiting' = IF spc' = "none" THEN Waiting ELSE Waiting \ {g}
  BY <1>1, DeliveringIs, PutWaits DEF Delivering
<1>3. Entering' = Entering /\ Registering' = Registering /\ g' = g
  BY <1>1 DEF Entering, Registering, Cur
<1>4. g \notin Entering /\ g \notin Registering
  <2>1. \A d \in Callers : cpc[d] \in KnownAt \cup CountedAt => Cur(d) # g
    BY <1>2, NotYetWaiting DEF Submitting, KnownAt, CountedAt
  <2>2. QED
    BY <2>1 DEF Registering, Entering, KnownAt, CountedAt
<1>5. CASE spc' = "none"
  BY <1>1, <1>2, <1>3, <1>5 DEF GInv, GaugesFollow, DepthFollows, StateFollows, InFlight
<1>6. CASE spc' = "clear"
  <2>1. Waiting' \cup Entering' = (Waiting \cup Entering) \ {g}
    BY <1>2, <1>3, <1>4, <1>6
  <2>2. IsFiniteSet(Waiting \cup Entering)' /\ DepthFollows'
    BY <1>1, <1>2, <1>6, <2>1, OneLess
  <2>3. InFlight' = InFlight
    BY <1>1, <1>2, <1>3, <1>6 DEF InFlight
  <2>4. QED
    BY <1>1, <2>2, <2>3 DEF GInv, GaugesFollow, StateFollows
<1>7. QED
  BY <1>1, <1>5, <1>6

(* The gauges let go of the answered job, one after the other.             *)
LEMMA ClearKeepsGauges ==
  ASSUME SInv, GInv, ClearState
  PROVE  GInv'
<1> DEFINE g == group[at]
<1>1. /\ spc = "clear" /\ spc' = "leave" /\ active' = active \ {g}
      /\ UNCHANGED <<cpc, cat, pending, queued, group, at, zpc>>
  BY DEF ClearState, callVars, groupVars
<1>2. Waiting' = Waiting /\ Waiting = Range(pending) \cup {group[i] : i \in at + 1 .. Len(group)}
  BY <1>1, ClearKeeps DEF Waiting, Unanswered
<1>3. g \notin Waiting /\ g \in Range(group)
  <2>1. Waiting \ {g} = Range(pending) \cup {group[i] : i \in at + 1 .. Len(group)}
    BY <1>1, AfterThis DEF Delivering
  <2>2. QED
    BY <1>1, <1>2, <2>1, DeliveringIs DEF Delivering
<1>4. Entering' = Entering /\ Registering' = Registering
  BY <1>1 DEF Entering, Registering, Cur
<1>5. g \notin Registering
  <2>1. \A d \in Callers : cpc[d] \in KnownAt => Cur(d) # g
    BY <1>3, NotYetWaiting DEF Submitting, KnownAt
  <2>2. QED
    BY <2>1 DEF Registering, KnownAt
<1>6. InFlight' = InFlight \ {g}
  BY <1>1, <1>2, <1>3, <1>4, <1>5 DEF InFlight
<1>7. QED
  BY <1>1, <1>2, <1>4, <1>6 DEF GInv, GaugesFollow, DepthFollows, StateFollows

LEMMA LeaveKeepsGauges ==
  ASSUME SInv, GInv, LeaveQueue
  PROVE  GInv'
<1>1. /\ spc = "leave" /\ queued' = Left(queued) /\ UNCHANGED <<cpc, cat, active, zpc>>
  BY DEF LeaveQueue, callVars
<1>2. Waiting' = Waiting /\ spc' \in {"finish", "top"}
  BY LeaveIs
<1>3. Entering' = Entering /\ Registering' = Registering
  BY <1>1 DEF Entering, Registering, Cur
<1>4. Cardinality(Waiting \cup Entering) \in Nat
  BY FS_CardinalityType DEF GInv
<1>5. DepthFollows'
  BY <1>1, <1>2, <1>3, <1>4 DEF GInv, GaugesFollow, DepthFollows, Left
<1>6. QED
  BY <1>1, <1>2, <1>3, <1>5 DEF GInv, GaugesFollow, StateFollows, InFlight

(* The steps of the scheduler but the delivery's leave who waits as it is. *)
LEMMA SchedulerWaits ==
  ASSUME SInv, SchedulerStep, ~(PutAnswer \/ PutNone)
  PROVE  Waiting' = Waiting
<1>1. CASE Sleep \/ Exit
  <2>1. UNCHANGED <<pending, group, at>> /\ spc \in {"top"} /\ spc' \in {"asleep", "exited"}
    BY <1>1 DEF Sleep, Exit, queueVars, groupVars
  <2>2. QED
    BY <2>1 DEF Waiting, Unanswered
<1>2. CASE TakeGroup
  BY <1>2, PullKeeps DEF TakeGroup
<1>3. CASE GraceFill
  BY <1>3, PullKeeps DEF GraceFill
<1>4. CASE GraceOver
  <2>1. CASE closed
    BY <1>4, <2>1, ClosedGraceKeeps
  <2>2. CASE ~closed
    BY <1>4, <2>2, PullKeeps DEF GraceOver
  <2>3. QED
    BY <2>1, <2>2
<1>5. CASE StartJobs
  BY <1>5, StartJobsKeeps
<1>6. CASE EngineCall \/ FoldSerial \/ FoldBatched
  BY <1>6, EngineKeeps
<1>7. CASE ClearState \/ LeaveQueue
  BY <1>7, ClearKeeps, LeaveKeeps
<1>8. QED
  BY <1>1, <1>2, <1>3, <1>4, <1>5, <1>6, <1>7 DEF SchedulerStep

(* Every step keeps the gauges with the answers.                           *)
LEMMA GaugesKept == SInv /\ GInv /\ [Next]_vars => GInv'
<1> SUFFICES ASSUME SInv, GInv, [Next]_vars PROVE GInv'
  OBVIOUS
<1> USE DEF callVars, queueVars, groupVars
<1>1. ASSUME NEW c \in Callers, Call(c) \/ CallerStep(c) \/ Abandon(c) PROVE GInv'
  BY <1>1, CallersKeepGauges
<1>2. CASE PutAnswer \/ PutNone \/ ClearState \/ LeaveQueue
  BY <1>2, PutKeepsGauges, ClearKeepsGauges, LeaveKeepsGauges
<1>3. ASSUME Waiting' = Waiting, UNCHANGED <<cpc, cat, queued>>,
             \/ UNCHANGED <<spc, group, at>>
             \/ spc \notin {"clear", "leave"} /\ spc' \notin {"clear", "leave"},
             \/ UNCHANGED active /\ (zpc' \in {"open", "join", "state"} => zpc \in {"open", "join", "state"})
             \/ active' = {} /\ zpc' = "alive"
      PROVE  GInv'
  <2>1. Entering' = Entering /\ Registering' = Registering
    BY <1>3 DEF Entering, Registering, Cur
  <2>2. InFlight' = InFlight
    BY <1>3, <2>1 DEF InFlight
  <2>3. QED
    BY <1>3, <2>1, <2>2 DEF GInv, GaugesFollow, DepthFollows, StateFollows
<1>4. CASE SchedulerStep /\ ~(PutAnswer \/ PutNone \/ ClearState \/ LeaveQueue)
  <2>1. /\ UNCHANGED <<cpc, cat, active, queued, zpc>>
        /\ spc \notin {"clear", "leave"} /\ spc' \notin {"clear", "leave"}
    BY <1>4 DEF SchedulerStep, Sleep, Exit, TakeGroup, GraceFill, GraceOver, StartJobs, EngineCall,
                FoldSerial, FoldBatched, Raise, NextSerial
  <2>2. QED
    BY <1>3, <1>4, <2>1, SchedulerWaits
<1>5. CASE CloserStep
  <2>1. UNCHANGED <<cpc, cat, pending, group, at, queued>> /\ (spc' = spc \/ (spc = "asleep" /\ spc' = "top"))
    BY <1>5 DEF CloserStep, CloseBegin, Join, CloseState, CloseEngine, Notified
  <2>2. Waiting' = Waiting
    BY <2>1 DEF Waiting, Unanswered
  <2>3. \/ UNCHANGED active /\ (zpc' \in {"open", "join", "state"} => zpc \in {"open", "join", "state"})
        \/ active' = {} /\ zpc' = "alive"
    BY <1>5 DEF CloserStep, CloseBegin, Join, CloseState, CloseEngine
  <2>4. QED
    BY <1>3, <2>1, <2>2, <2>3
<1>6. CASE UNCHANGED vars
  <2>1. UNCHANGED <<cpc, cat, pending, group, at, queued, active, spc, zpc>>
    BY <1>6 DEF vars
  <2>2. Waiting' = Waiting
    BY <2>1 DEF Waiting, Unanswered
  <2>3. QED
    BY <1>3, <2>1, <2>2
<1>7. QED
  BY <1>1, <1>2, <1>4, <1>5, <1>6 DEF Next, Ended

(* By whatever way a request ends and however many callers there are: the
   depth counts the requests between _enter_queue and their answer or their
   refusal (its floor at zero is never needed), RequestState holds the
   requests in flight until it is closed, and each of the two holds beside
   them at most the one request whose answer has just gone out.            *)
THEOREM GaugesFollowAnswers == Spec => []GaugesFollow
<1>1. Init => GInv
  <2> SUFFICES ASSUME Init PROVE GInv
    OBVIOUS
  <2>1. Waiting = {}
    BY DEF Init, Waiting, Unanswered, Range
  <2>2. Entering = {} /\ Registering = {}
    BY DEF Init, Entering, Registering
  <2>3. Waiting \cup Entering = {} /\ active = {} /\ queued = 0
    BY <2>1, <2>2 DEF Init
  <2>4. QED
    BY <2>1, <2>2, <2>3, FS_EmptySet DEF Init, GInv, GaugesFollow, DepthFollows, StateFollows, InFlight
<1>2. GInv => GaugesFollow
  BY DEF GInv
<1> QED
  BY <1>1, <1>2, InitSInv, NextKeeps, GaugesKept, PTL DEF Spec

-----------------------------------------------------------------------------
(* The backend does what RequestService promises.                          *)

(* What a caller has taken the results of.                                 *)
Drained ==
  \A c \in Callers : cpc[c] = "drain" =>
    \A i \in 1 .. cat[c] - 1 : Answer(JobsOf[c][i]) = "result"

Outcome(c) == IF cpc[c] \in {"returned", "raised", "left"} THEN cpc[c] ELSE "waiting"

(* A result, a failure and the None of a stream come last.                 *)
LEMMA TerminalIsLast ==
  ASSUME SInv, NEW j \in Jobs, NEW k \in 1 .. Len(channel[j]),
         channel[j][k] \in {"result", "None", "failure"}
  PROVE  /\ k = Len(channel[j]) /\ Len(channel[j]) > 0
         /\ Answer(j) = IF channel[j][k] = "failure" THEN "failure" ELSE "result"
<1>1. PICK n \in 0 .. MaxTokens : \E t \in Endings(j, n) : channel[j] = Tokens(n) \o t
  BY DEF SInv, ChannelsWellFormed
<1>2. PICK t \in Endings(j, n) : channel[j] = Tokens(n) \o t
  BY <1>1
<1>3. n \in Nat
  BY SchedulerAssumption
<1>4. t \in {<< >>, <<"end">>, <<"end", "None">>, <<"failure">>, <<"result">>}
  BY DEF Endings
<1>5. Tokens(n) \in Seq({"token"}) /\ Len(Tokens(n)) = n /\ \A i \in 1 .. n : Tokens(n)[i] = "token"
  BY <1>3, OneMoreToken DEF Tokens
<1>6. /\ channel[j] \in Seq({"token", "end", "None", "result", "failure"})
      /\ Len(channel[j]) = n + Len(t) /\ Len(t) \in Nat
      /\ \A i \in 1 .. n : channel[j][i] = "token"
      /\ \A i \in n + 1 .. n + Len(t) : channel[j][i] = t[i - n]
  <2>1. t \in Seq({"token", "end", "None", "result", "failure"})
    <3>1. /\ <<"failure">> \in Seq({"token", "end", "None", "result", "failure"})
          /\ <<"end">> \in Seq({"token", "end", "None", "result", "failure"})
          /\ <<"end", "None">> \in Seq({"token", "end", "None", "result", "failure"})
          /\ <<"result">> \in Seq({"token", "end", "None", "result", "failure"})
          /\ << >> \in Seq({"token", "end", "None", "result", "failure"})
      OBVIOUS
    <3>2. QED
      BY <1>4, <3>1
  <2>2. Tokens(n) \in Seq({"token", "end", "None", "result", "failure"})
    BY <1>5
  <2>3. channel[j] \in Seq({"token", "end", "None", "result", "failure"})
    BY DEF SInv, TypeOK
  <2>4. Len(Tokens(n) \o t) = n + Len(t) /\ Len(t) \in Nat
    BY <1>5, <2>1, <2>2
  <2>5. \A i \in 1 .. n : (Tokens(n) \o t)[i] = "token"
    BY <1>5, <2>1, <2>2
  <2>6. \A i \in n + 1 .. n + Len(t) : (Tokens(n) \o t)[i] = t[i - n]
    BY <1>3, <1>5, <2>1, <2>2
  <2>7. QED
    BY <1>2, <2>3, <2>4, <2>5, <2>6
<1>7. k \in n + 1 .. n + Len(t) /\ t[k - n] \in {"result", "None", "failure"}
  BY <1>3, <1>6
<1>8. k - n = Len(t)
  <2>1. CASE t = << >>
    BY <1>3, <1>7, <2>1
  <2>2. CASE t = <<"end", "None">>
    <3>1. Len(t) = 2 /\ t[1] = "end"
      BY <2>2
    <3>2. k - n \in {1, 2}
      BY <1>3, <1>7, <3>1
    <3>3. QED
      BY <1>7, <3>1, <3>2
  <2>3. CASE t = <<"failure">> \/ t = <<"result">> \/ t = <<"end">>
    <3>1. Len(t) = 1
      BY <2>3
    <3>2. QED
      BY <1>3, <1>7, <3>1
  <2>4. QED
    BY <1>4, <2>1, <2>2, <2>3
<1>9. k = Len(channel[j]) /\ Len(channel[j]) > 0
  BY <1>3, <1>6, <1>7, <1>8
<1>10. QED
  BY <1>9 DEF Answer

(* Who waits is accepted and not answered.                                 *)
LEMMA WaitingIsAccepted == SInv => \A j \in Waiting : Answer(j) = "accepted"
<1> SUFFICES ASSUME SInv, NEW j \in Waiting PROVE Answer(j) = "accepted"
  OBVIOUS
<1>1. CASE ~Ending(j)
  <2>1. PICK n \in 0 .. job[j].made : channel[j] = Tokens(n)
    BY <1>1 DEF SInv, OnlyTokens
  <2>2. n \in Nat
    OBVIOUS
  <2>3. Len(channel[j]) = n /\ \A i \in 1 .. n : channel[j][i] = "token"
    BY <2>1, <2>2, OneMoreToken DEF Tokens
  <2>4. QED
    BY <2>2, <2>3 DEF Answer
<1>2. CASE Ending(j)
  <2>1. PICK n \in 0 .. MaxTokens : channel[j] = Tokens(n) \o <<"end">>
    BY <1>2 DEF SInv, HalfEnded, Ending
  <2>2. n \in Nat /\ "end" \in Events
    BY SchedulerAssumption DEF Events
  <2>3. Len(channel[j]) = n + 1 /\ channel[j][n + 1] = "end"
    BY <2>1, <2>2, EndingParts
  <2>4. QED
    BY <2>2, <2>3 DEF Answer
<1>3. QED
  BY <1>1, <1>2

(* A step that lets those be who do not wait.                              *)
LEMMA SameAnswers ==
  ASSUME SInv, SInv', Waiting' = Waiting, \A j \in Jobs \ Waiting : channel'[j] = channel[j]
  PROVE  \A j \in Jobs : Answer(j)' = Answer(j)
<1>1. \A j \in Waiting : Answer(j) = "accepted"
  BY WaitingIsAccepted
<1>2. (SInv => \A j \in Waiting : Answer(j) = "accepted")'
  BY WaitingIsAccepted, PTL
<1>3. \A j \in Jobs \ Waiting : Answer(j)' = Answer(j)
  BY DEF Answer
<1>4. QED
  BY <1>1, <1>2, <1>3

(* The engine speaks only to who waits.                                    *)
LEMMA EngineSpeaks ==
  ASSUME SInv, EngineCall \/ FoldSerial \/ FoldBatched
  PROVE  \A j \in Jobs \ Waiting : channel'[j] = channel[j]
<1>1. CASE UNCHANGED channel
  BY <1>1
<1>2. ASSUME NEW ends \in BOOLEAN, NEW shown \in {FALSE, Streamed(live[at])},
             Advance(live[at], ends, shown), spc = "fold"
      PROVE  \A j \in Jobs \ Waiting : channel'[j] = channel[j]
  <2>1. live[at] \in Waiting
    <3>1. at \in 1 .. Len(live) /\ live[at] \in Range(live)
      BY <1>2, LiveIs
    <3>2. Range(live) \subseteq Range(group)
      BY <1>2 DEF SInv, LiveJobs
    <3>3. Range(group) \subseteq Waiting
      BY <1>2 DEF Waiting, Unanswered, Range
    <3>4. QED
      BY <3>1, <3>2, <3>3
  <2>2. channel \in [Jobs -> Seq({"token", "end", "None", "result", "failure"})]
    BY DEF SInv, TypeOK
  <2>3. QED
    BY <1>2, <2>1, <2>2 DEF Advance
<1>3. CASE EngineCall
  BY <1>1, <1>3 DEF EngineCall
<1>4. CASE FoldSerial
  BY <1>1, <1>2, <1>4 DEF FoldSerial
<1>5. CASE FoldBatched
  BY <1>1, <1>2, <1>5 DEF FoldBatched
<1>6. QED
  BY <1>3, <1>4, <1>5

(* The job whose terminal goes out is answered, and no other.              *)
Answering == (PutAnswer \/ PutNone) /\ spc' = "clear"
LEMMA DeliveryAnswers ==
  ASSUME SInv, SInv', Answering
  PROVE  \E j \in Jobs : /\ Answer(j) = "accepted" /\ Answer(j)' \in {"result", "failure"}
                         /\ \A k \in Jobs \ {j} : Answer(k)' = Answer(k)
<1>0. PICK j : j = group[at]
  OBVIOUS
<1>1. j \in Jobs /\ j \in Waiting
  BY <1>0, PutIs, DeliveringIs DEF Delivering, Answering
<1>2. Waiting' = Waiting \ {j}
  BY <1>0, PutWaits DEF Answering
<1>3. /\ \A k \in Jobs \ {j} : channel'[k] = channel[k]
      /\ channel'[j][Len(channel'[j])] \in {"result", "None", "failure"}
      /\ Len(channel'[j]) = Len(channel[j]) + 1
  BY <1>0, PutIs DEF Answering, Final
<1>4. Answer(j) = "accepted"
  BY <1>1, WaitingIsAccepted
<1>5. \A k \in Jobs \ {j} : Answer(k)' = Answer(k)
  BY <1>2, <1>3 DEF Answer
<1>6. Len(channel[j]) \in Nat
  BY <1>1 DEF SInv, TypeOK
<1>7. Answer(j)' \in {"result", "failure"}
  BY <1>3, <1>6 DEF Answer
<1>8. QED
  BY <1>1, <1>4, <1>5, <1>7

(* A request that joins the queue was new, and is the only one to change.  *)
LEMMA AcceptAnswers ==
  ASSUME SInv, NEW c \in Callers, Enqueue(c), ~closed
  PROVE  \E j \in Jobs : /\ j = Cur(c) /\ Answer(j) = "new" /\ Answer(j)' = "accepted"
                         /\ \A k \in Jobs \ {j} : Answer(k)' = Answer(k)
<1>0. PICK j : j = Cur(c)
  OBVIOUS
<1>1. j \in Jobs /\ cpc[c] = "enqueue"
  BY <1>0, Current DEF SInv, Enqueue
<1>2. j \notin Waiting
  BY <1>0, <1>1, NotYetWaiting DEF Submitting
<1>3. channel[j] = << >>
  <2>1. cat[c] \in cat[c] .. Len(JobsOf[c]) /\ j = JobsOf[c][cat[c]]
    <3>1. cat[c] \in 1 .. Len(JobsOf[c]) /\ Len(JobsOf[c]) \in Nat /\ j = JobsOf[c][cat[c]]
      BY <1>0, Current, Requests DEF SInv
    <3>2. QED
      BY <3>1
  <2>2. Blank(j)
    BY <1>1, <2>1, AheadIs DEF Submitting
  <2>3. QED
    BY <2>2 DEF Blank
<1>4. pending' = Append(pending, j) /\ spc' = Notified /\ UNCHANGED <<group, at, channel>>
  BY <1>0 DEF Enqueue, Accept, groupVars
<1>5. Waiting' = Waiting \cup {j}
  <2>1. pending \in Seq(Jobs)
    BY DEF SInv, TypeOK
  <2>2. Range(pending') = Range(pending) \cup {j}
    BY <1>1, <1>4, <2>1, AppendOne
  <2>3. QED
    BY <1>4, <2>2 DEF Waiting, Unanswered, Notified
<1>6. Len(channel[j]) = 0 /\ channel'[j] = channel[j]
  BY <1>3, <1>4
<1>7. Answer(j) = "new" /\ Answer(j)' = "accepted"
  BY <1>2, <1>5, <1>6 DEF Answer
<1>8. \A k \in Jobs \ {j} : Answer(k)' = Answer(k)
  BY <1>4, <1>5 DEF Answer
<1>9. QED
  BY <1>0, <1>1, <1>7, <1>8

(* Every other step leaves the answers as they are.                        *)
LEMMA OtherAnswers ==
  ASSUME SInv, SInv', [Next]_vars, ~Answering, \A c \in Callers : ~(Enqueue(c) /\ ~closed)
  PROVE  \A j \in Jobs : Answer(j)' = Answer(j)
<1> USE DEF callVars, queueVars, groupVars
<1>1. ASSUME UNCHANGED <<pending, group, at, channel>>,
             spc' = spc \/ (spc \notin Delivering /\ spc' \notin Delivering)
      PROVE  \A j \in Jobs : Answer(j)' = Answer(j)
  BY <1>1 DEF Answer, Waiting, Unanswered, Delivering
<1>2. ASSUME NEW c \in Callers, Call(c) \/ CallerStep(c) \/ Abandon(c)
      PROVE  \A j \in Jobs : Answer(j)' = Answer(j)
  <2>1. CASE Enqueue(c)
    <3>1. closed
      BY <2>1
    <3>2. QED
      BY <1>1, <2>1, <3>1 DEF Enqueue
  <2>2. CASE ~Enqueue(c)
    <3>1. UNCHANGED <<pending, group, at, channel, spc>>
      BY <1>2, <2>2 DEF Call, CallerStep, CheckOpen, BeginRequest, EnterQueue, RefuseState, RefuseQueue,
                        Get, Abandon
    <3>2. QED
      BY <1>1, <3>1
  <2>3. QED
    BY <2>1, <2>2
<1>3. CASE CloserStep
  <2>1. UNCHANGED <<pending, group, at, channel>> /\ (spc' = spc \/ (spc = "asleep" /\ spc' = "top"))
    BY <1>3 DEF CloserStep, CloseBegin, Join, CloseState, CloseEngine, Notified
  <2>2. QED
    BY <1>1, <2>1 DEF Delivering
<1>4. CASE SchedulerStep
  <2>1. Waiting' = Waiting
    <3>1. CASE PutAnswer \/ PutNone
      BY <3>1, PutIs, PutWaits DEF Answering
    <3>2. CASE ~(PutAnswer \/ PutNone)
      BY <1>4, <3>2, SchedulerWaits
    <3>3. QED
      BY <3>1, <3>2
  <2>2. \A j \in Jobs \ Waiting : channel'[j] = channel[j]
    <3>1. CASE EngineCall \/ FoldSerial \/ FoldBatched
      BY <3>1, EngineSpeaks
    <3>2. CASE PutAnswer \/ PutNone
      BY <3>2, PutIs, DeliveringIs DEF Delivering
    <3>3. CASE ~(EngineCall \/ FoldSerial \/ FoldBatched \/ PutAnswer \/ PutNone)
      <4>1. UNCHANGED channel
        BY <1>4, <3>3 DEF SchedulerStep, Sleep, Exit, TakeGroup, GraceFill, GraceOver, StartJobs,
                          ClearState, LeaveQueue
      <4>2. QED
        BY <4>1
    <3>4. QED
      BY <3>1, <3>2, <3>3
  <2>3. QED
    BY <2>1, <2>2, SameAnswers
<1>5. CASE UNCHANGED vars
  <2>1. UNCHANGED <<pending, group, at, channel, spc>>
    BY <1>5 DEF vars
  <2>2. QED
    BY <1>1, <2>1
<1>6. QED
  BY <1>2, <1>3, <1>4, <1>5 DEF Next, Ended

(* A result stays a result.                                                *)
LEMMA ResultStays ==
  ASSUME SInv, SInv', [Next]_vars, NEW j \in Jobs, Answer(j) = "result"
  PROVE  Answer(j)' = "result"
<1>1. CASE Answering
  BY <1>1, DeliveryAnswers
<1>2. ASSUME NEW c \in Callers, Enqueue(c), ~closed PROVE Answer(j)' = "result"
  BY <1>2, AcceptAnswers
<1>3. QED
  BY <1>1, <1>2, OtherAnswers

(* What a caller takes last of a request says how it was answered.         *)
LEMMA TakenIsAnswer ==
  ASSUME SInv, NEW c \in Callers, Get(c),
         channel[Cur(c)][read[Cur(c)] + 1] \in {"result", "None", "failure"}
  PROVE  Answer(Cur(c)) = IF channel[Cur(c)][read[Cur(c)] + 1] = "failure" THEN "failure" ELSE "result"
<1> DEFINE j == Cur(c)
<1>1. j \in Jobs /\ read[j] < Len(channel[j])
  BY Current DEF SInv, Get
<1>2. read[j] \in Nat /\ Len(channel[j]) \in Nat
  BY <1>1 DEF SInv, TypeOK
<1>3. read[j] + 1 \in 1 .. Len(channel[j])
  BY <1>1, <1>2
<1>4. QED
  BY <1>1, <1>3, TerminalIsLast

(* The callers drain their results in order.                               *)
LEMMA DrainedKept ==
  ASSUME SInv, SInv', Drained, [Next]_vars
  PROVE  Drained'
<1> USE DEF callVars, queueVars, groupVars
<1>1. ASSUME NEW d \in Callers, cpc'[d] = "drain", NEW i \in 1 .. cat'[d] - 1,
             \/ cpc[d] = "drain" /\ i \in 1 .. cat[d] - 1
             \/ Answer(JobsOf[d][i]) = "result"
      PROVE  Answer(JobsOf[d][i])' = "result"
  <2>1. cat'[d] \in 1 .. Len(JobsOf[d]) /\ Len(JobsOf[d]) \in Nat
    <3>1. (TypeOK => cat[d] \in DOMAIN JobsOf[d])'
      BY DEF TypeOK
    <3>2. QED
      BY <3>1, Requests DEF SInv
  <2>2. JobsOf[d][i] \in Jobs
    <3>1. i \in 1 .. Len(JobsOf[d])
      BY <2>1
    <3>2. QED
      BY <3>1, Requests
  <2>3. Answer(JobsOf[d][i]) = "result"
    BY <1>1 DEF Drained
  <2>4. QED
    BY <2>2, <2>3, ResultStays
<1>2. ASSUME NEW c \in Callers, NEW d \in Callers, cpc'[d] = "drain", NEW i \in 1 .. cat'[d] - 1,
             Call(c) \/ CallerStep(c) \/ Abandon(c)
      PROVE  Answer(JobsOf[d][i])' = "result"
  <2>0. cpc \in [Callers -> {"idle", "check", "begin", "enter", "enqueue", "refuse",
                             "unqueue", "drain", "returned", "raised", "left"}] /\ cat \in [Callers -> Nat]
    BY DEF SInv, TypeOK
  <2>1. CASE d # c
    <3>1. cpc'[d] = cpc[d] /\ cat'[d] = cat[d]
      BY <1>2, <2>0, <2>1 DEF Call, CallerStep, CheckOpen, BeginRequest, EnterQueue, Enqueue, Accept, RefuseState,
                              RefuseQueue, Get, Abandon
    <3>2. QED
      BY <1>1, <1>2, <3>1
  <2>2. CASE d = c /\ Get(c)
    <3>1. cpc[c] = "drain"
      BY <2>2 DEF Get
    <3>2. cat'[c] = cat[c] \/ (cat'[c] = cat[c] + 1 /\ channel[Cur(c)][read[Cur(c)] + 1] \in {"result", "None"})
      BY <2>0, <2>2 DEF Get
    <3>3. CASE i \in 1 .. cat[c] - 1
      BY <1>1, <1>2, <2>2, <3>1, <3>3
    <3>4. CASE i \notin 1 .. cat[c] - 1
      <4>1. cat'[c] = cat[c] + 1 /\ i = cat[c]
        BY <1>2, <2>0, <2>2, <3>2, <3>4
      <4>2. Answer(JobsOf[d][i]) = "result"
        <5>1. channel[Cur(c)][read[Cur(c)] + 1] \in {"result", "None"}
          BY <2>0, <3>2, <4>1
        <5>2. Answer(Cur(c)) = "result"
          BY <2>2, <5>1, TakenIsAnswer
        <5>3. QED
          BY <2>2, <4>1, <5>2 DEF Cur
      <4>3. QED
        BY <1>1, <1>2, <4>2
    <3>5. QED
      BY <3>3, <3>4
  <2>3. CASE d = c /\ Enqueue(c)
    <3>1. cpc[c] = "enqueue"
      BY <2>3 DEF Enqueue
    <3>2. cat'[c] = 1
      BY <1>2, <2>0, <2>3, <3>1 DEF Enqueue, Accept
    <3>3. QED
      BY <1>2, <2>3, <3>2
  <2>4. CASE d = c /\ ~Get(c) /\ ~Enqueue(c)
    <3>1. cpc'[c] # "drain"
      BY <1>2, <2>0, <2>4 DEF Call, CallerStep, CheckOpen, BeginRequest, EnterQueue, RefuseState, RefuseQueue,
                              Abandon
    <3>2. QED
      BY <1>2, <2>4, <3>1
  <2>5. QED
    BY <2>1, <2>2, <2>3, <2>4
<1>3. CASE UNCHANGED <<cpc, cat>>
  BY <1>1, <1>3 DEF Drained
<1>4. CASE \E c \in Callers : Call(c) \/ CallerStep(c) \/ Abandon(c)
  BY <1>2, <1>4 DEF Drained
<1>5. CASE SchedulerStep \/ CloserStep \/ Ended \/ UNCHANGED vars
  <2>1. UNCHANGED <<cpc, cat>>
    BY <1>5 DEF SchedulerStep, Sleep, Exit, TakeGroup, GraceFill, GraceOver, StartJobs, EngineCall,
                FoldSerial, FoldBatched, PutAnswer, PutNone, ClearState, LeaveQueue, CloserStep, CloseBegin, Join, CloseState, CloseEngine,
                Ended, vars
  <2>2. QED
    BY <1>3, <2>1
<1>6. QED
  BY <1>4, <1>5 DEF Next

(* A refusal is under way only after the close.                            *)
RefusedAfterClose == \A c \in Callers : cpc[c] \in {"refuse", "unqueue"} => closed
LEMMA RefusedKept == SInv /\ RefusedAfterClose /\ [Next]_vars => RefusedAfterClose'
<1> SUFFICES ASSUME SInv, RefusedAfterClose, [Next]_vars PROVE RefusedAfterClose'
  OBVIOUS
<1> USE DEF callVars, queueVars, groupVars
<1>0. cpc \in [Callers -> {"idle", "check", "begin", "enter", "enqueue", "refuse",
                           "unqueue", "drain", "returned", "raised", "left"}]
  BY DEF SInv, TypeOK
<1>1. ASSUME NEW c \in Callers, Call(c) \/ CallerStep(c) \/ Abandon(c) PROVE RefusedAfterClose'
  <2>1. /\ UNCHANGED closed /\ \A d \in Callers \ {c} : cpc'[d] = cpc[d]
        /\ cpc'[c] \in {"refuse", "unqueue"} => closed \/ cpc[c] \in {"refuse", "unqueue"}
    BY <1>0, <1>1 DEF Call, CallerStep, CheckOpen, BeginRequest, EnterQueue, Enqueue, Accept, RefuseState,
                      RefuseQueue, Get, Abandon
  <2>2. QED
    BY <2>1 DEF RefusedAfterClose
<1>2. CASE SchedulerStep \/ CloserStep \/ Ended \/ UNCHANGED vars
  <2>0. CASE SchedulerStep
    <3>1. CASE Sleep \/ Exit \/ TakeGroup \/ GraceFill \/ GraceOver \/ StartJobs
      BY <3>1 DEF Sleep, Exit, TakeGroup, GraceFill, GraceOver, StartJobs, RefusedAfterClose
    <3>2. CASE EngineCall
      BY <3>2 DEF EngineCall, RefusedAfterClose
    <3>3. CASE FoldSerial \/ FoldBatched
      <4>1. UNCHANGED callVars /\ UNCHANGED closed
        <5>1. CASE FoldSerial
          BY <5>1, Zenon DEF FoldSerial
        <5>2. CASE FoldBatched
          BY <5>2, Zenon DEF FoldBatched
        <5>3. QED
          BY <3>3, <5>1, <5>2
      <4>2. QED
        BY <4>1 DEF RefusedAfterClose
    <3>4. CASE PutAnswer \/ PutNone \/ ClearState \/ LeaveQueue
      BY <3>4 DEF PutAnswer, PutNone, ClearState, LeaveQueue, RefusedAfterClose
    <3>5. QED
      BY <2>0, <3>1, <3>2, <3>3, <3>4 DEF SchedulerStep
  <2>1. CASE CloserStep
    <3>1. UNCHANGED cpc /\ (closed => closed')
      BY <2>1 DEF CloserStep, CloseBegin, Join, CloseState, CloseEngine
    <3>2. QED
      BY <3>1 DEF RefusedAfterClose
  <2>2. CASE Ended \/ UNCHANGED vars
    BY <2>2 DEF Ended, vars, RefusedAfterClose
  <2>3. QED
    BY <1>2, <2>0, <2>1, <2>2
<1>3. QED
  BY <1>1, <1>2 DEF Next

(* Each step is one of the service's, or none.                             *)
LEMMA StepIsService ==
  ASSUME SInv, SInv', Drained, RefusedAfterClose, [Next]_vars
  PROVE  [Service!Next]_(Service!vars)
<1> USE DEF callVars, queueVars, groupVars
<1> DEFINE Told == [j \in Jobs |-> Answer(j)]
           Came == [c \in Callers |->
                      IF cpc[c] \in {"returned", "raised", "left"} THEN cpc[c] ELSE "waiting"]
<1>0. cpc \in [Callers -> {"idle", "check", "begin", "enter", "enqueue", "refuse",
                           "unqueue", "drain", "returned", "raised", "left"}] /\ cat \in [Callers -> Nat] /\ closed \in BOOLEAN
  BY DEF SInv, TypeOK
<1>1. ASSUME \A j \in Jobs : Answer(j)' = Answer(j), UNCHANGED closed,
             \A c \in Callers : Outcome(c)' = Outcome(c)
      PROVE  UNCHANGED Service!vars
  BY <1>1 DEF Service!vars, Outcome
<1>2. CASE Answering
  <2>1. UNCHANGED <<cpc, closed>>
    BY <1>2 DEF Answering, PutAnswer, PutNone
  <2>2. PICK j \in Jobs : /\ Answer(j) = "accepted" /\ Answer(j)' \in {"result", "failure"}
                          /\ \A k \in Jobs \ {j} : Answer(k)' = Answer(k)
    BY <1>2, DeliveryAnswers
  <2>3. Told[j] = "accepted" /\ Told' = [Told EXCEPT ![j] = Answer(j)']
    BY <2>2
  <2>4. Service!Answer(j)
    BY <2>1, <2>2, <2>3 DEF Service!Answer
  <2>5. QED
    BY <2>4 DEF Service!Next
<1>3. ASSUME NEW c \in Callers, Enqueue(c), ~closed PROVE Service!Next
  <2>1. UNCHANGED closed /\ \A d \in Callers : Outcome(d)' = Outcome(d)
    BY <1>0, <1>3 DEF Enqueue, Accept, Outcome
  <2>2. PICK j \in Jobs : /\ Answer(j) = "new" /\ Answer(j)' = "accepted"
                          /\ \A k \in Jobs \ {j} : Answer(k)' = Answer(k)
    BY <1>3, AcceptAnswers
  <2>3. Told[j] = "new" /\ Told' = [Told EXCEPT ![j] = "accepted"]
    BY <2>2
  <2>4. Service!Accept(j)
    BY <1>3, <2>1, <2>3 DEF Service!Accept, Outcome
  <2>5. QED
    BY <2>4 DEF Service!Next
<1>a. ASSUME ~Answering, \A c \in Callers : ~(Enqueue(c) /\ ~closed)
      PROVE  \A j \in Jobs : Answer(j)' = Answer(j)
  BY <1>a, OtherAnswers
<1>4. ASSUME NEW c \in Callers, NEW o \in {"returned", "raised", "left"}, UNCHANGED closed,
             cpc[c] \notin {"returned", "raised", "left"}, cpc' = [cpc EXCEPT ![c] = o],
             \A j \in Jobs : Answer(j)' = Answer(j)
      PROVE  /\ Came[c] = "waiting" /\ Came' = [Came EXCEPT ![c] = o]
             /\ Told' = Told /\ UNCHANGED closed
  BY <1>0, <1>4
<1>5. ASSUME NEW c \in Callers, Call(c) \/ CallerStep(c) \/ Abandon(c), ~(Enqueue(c) /\ ~closed),
             \A j \in Jobs : Answer(j)' = Answer(j)
      PROVE  Service!Next \/ UNCHANGED Service!vars
  <2>1. \A j \in Jobs : Answer(j)' = Answer(j)
    BY <1>5
  <2>2. UNCHANGED closed
    BY <1>5 DEF Call, CallerStep, CheckOpen, BeginRequest, EnterQueue, Enqueue, RefuseState, RefuseQueue,
                Get, Abandon
  <2>3. ASSUME closed, cpc' = [cpc EXCEPT ![c] = "raised"], cpc[c] \notin {"returned", "raised", "left"}
        PROVE  Service!Next
    <3>1. Service!Raise(c)
      BY <1>4, <2>1, <2>2, <2>3 DEF Service!Raise
    <3>2. QED
      BY <3>1 DEF Service!Next
  <2>4. ASSUME cpc'[c] \notin {"returned", "raised", "left"}, cpc[c] \notin {"returned", "raised", "left"},
               \A d \in Callers \ {c} : cpc'[d] = cpc[d]
        PROVE  UNCHANGED Service!vars
    BY <1>1, <2>1, <2>2, <2>4 DEF Outcome
  <2>5. CASE CheckOpen(c)
    <3>1. CASE closed
      BY <2>3, <2>5, <3>1 DEF CheckOpen
    <3>2. CASE ~closed
      BY <1>0, <2>4, <2>5, <3>2 DEF CheckOpen
    <3>3. QED
      BY <3>1, <3>2
  <2>6. CASE Enqueue(c)
    BY <1>0, <1>5, <2>4, <2>6 DEF Enqueue
  <2>7. CASE Call(c) \/ BeginRequest(c) \/ EnterQueue(c) \/ RefuseState(c)
    BY <1>0, <2>4, <2>7 DEF Call, BeginRequest, EnterQueue, RefuseState
  <2>a. CASE RefuseQueue(c)
    <3>1. closed
      BY <2>a DEF RefuseQueue, RefusedAfterClose
    <3>2. QED
      BY <2>3, <2>a, <3>1 DEF RefuseQueue
  <2>8. CASE Abandon(c)
    <3>1. c \in Streamers /\ cpc[c] = "drain" /\ cpc' = [cpc EXCEPT ![c] = "left"]
      BY <2>8 DEF Abandon
    <3>2. Service!Leave(c)
      BY <1>4, <2>1, <2>2, <3>1 DEF Service!Leave
    <3>3. QED
      BY <3>2 DEF Service!Next
  <2>9. CASE Get(c)
    <3> DEFINE event == channel[Cur(c)][read[Cur(c)] + 1]
    <3>1. cpc[c] = "drain" /\ cat[c] \in 1 .. Len(JobsOf[c]) /\ Len(JobsOf[c]) \in Nat
          /\ DOMAIN JobsOf[c] = 1 .. Len(JobsOf[c]) /\ \A i \in 1 .. Len(JobsOf[c]) : JobsOf[c][i] \in Jobs
      BY <2>9, Current, Requests DEF Get, SInv
    <3>2. CASE cpc' = [cpc EXCEPT ![c] = "raised"] /\ event = "failure"
      <4>1. Answer(JobsOf[c][cat[c]]) = "failure"
        BY <2>9, <3>2, TakenIsAnswer DEF Cur
      <4>2. JobsOf[c][cat[c]] \in Range(JobsOf[c]) /\ Told[JobsOf[c][cat[c]]] = "failure"
        BY <3>1, <4>1 DEF Range
      <4>3. [d \in Callers |-> Range(JobsOf[d])][c] = Range(JobsOf[c])
        OBVIOUS
      <4>4. Service!Raise(c)
        BY <1>4, <2>1, <2>2, <3>1, <3>2, <4>2, <4>3 DEF Service!Raise
      <4>5. QED
        BY <4>4 DEF Service!Next
    <3>3. CASE cpc' = [cpc EXCEPT ![c] = "returned"] /\ event \in {"result", "None"} /\ ~(cat[c] < Len(JobsOf[c]))
      <4>1. Answer(JobsOf[c][cat[c]]) = "result"
        BY <2>9, <3>3, TakenIsAnswer DEF Cur
      <4>2. ASSUME NEW i \in 1 .. Len(JobsOf[c]) PROVE Told[JobsOf[c][i]] = "result"
        <5>1. i = cat[c] \/ i \in 1 .. cat[c] - 1
          BY <3>1, <3>3
        <5>2. Answer(JobsOf[c][i]) = "result"
          BY <3>1, <4>1, <5>1 DEF Drained
        <5>3. QED
          BY <3>1, <5>2
      <4>3. \A r \in [d \in Callers |-> Range(JobsOf[d])][c] : Told[r] = "result"
        BY <3>1, <4>2 DEF Range
      <4>4. Service!Return(c)
        BY <1>4, <2>1, <2>2, <3>1, <3>3, <4>3 DEF Service!Return
      <4>5. QED
        BY <4>4 DEF Service!Next
    <3>4. CASE UNCHANGED cpc
      BY <2>4, <3>1, <3>4
    <3>5. QED
      BY <2>9, <3>2, <3>3, <3>4 DEF Get
  <2>10. QED
    BY <1>5, <2>5, <2>6, <2>7, <2>8, <2>9, <2>a DEF CallerStep
<1>6. ASSUME CloserStep, \A j \in Jobs : Answer(j)' = Answer(j)
      PROVE  Service!Next \/ UNCHANGED Service!vars
  <2>1. UNCHANGED cpc
    BY <1>6 DEF CloserStep, CloseBegin, Join, CloseState, CloseEngine
  <2>2. \A j \in Jobs : Answer(j)' = Answer(j)
    BY <1>6
  <2>3. CASE CloseBegin
    <3>1. ~closed /\ closed'
      BY <2>3 DEF CloseBegin, SInv, Phase
    <3>2. Told' = Told /\ Came' = Came
      BY <2>1, <2>2
    <3>3. Service!Close
      BY <3>1, <3>2 DEF Service!Close
    <3>4. QED
      BY <3>3 DEF Service!Next
  <2>4. CASE UNCHANGED closed
    BY <1>1, <2>1, <2>2, <2>4 DEF Outcome
  <2>5. QED
    BY <1>6, <2>3, <2>4 DEF CloserStep, Join, CloseState, CloseEngine
<1>7. ASSUME (SchedulerStep /\ ~Answering) \/ UNCHANGED vars, \A j \in Jobs : Answer(j)' = Answer(j)
      PROVE  UNCHANGED Service!vars
  <2>1. UNCHANGED <<cpc, closed>>
    BY <1>7 DEF SchedulerStep, Sleep, Exit, TakeGroup, GraceFill, GraceOver, StartJobs, EngineCall,
                FoldSerial, FoldBatched, PutAnswer, PutNone, ClearState, LeaveQueue, vars
  <2>2. QED
    BY <1>1, <1>7, <2>1 DEF Outcome
<1>8. CASE ~Answering /\ \A c \in Callers : ~(Enqueue(c) /\ ~closed)
  BY <1>a, <1>5, <1>6, <1>7, <1>8 DEF Next, Ended
<1>9. QED
  BY <1>2, <1>3, <1>8

(* The backend implements RequestService, for any callers, requests, batch
   width and budget: a request is accepted only while the service is open,
   answered once, and its answer never changes; a call returns only with a
   result for each of its requests, and raises only for a failure of its
   own or because of the close.                                            *)
THEOREM BackendKeepsPromise == Spec => ImplementsService
<1>1. Init => Service!Init
  <2> SUFFICES ASSUME Init PROVE Service!Init
    OBVIOUS
  <2>1. Waiting = {}
    BY DEF Init, Waiting, Unanswered, Range
  <2>2. \A j \in Jobs : Answer(j) = "new"
    BY <2>1 DEF Init, Answer
  <2>3. QED
    BY <2>2 DEF Init, Service!Init
<1>2. Init => Drained /\ RefusedAfterClose
  BY DEF Init, Drained, RefusedAfterClose
<1>3. SInv /\ SInv' /\ Drained /\ [Next]_vars => Drained'
  BY DrainedKept
<1>4. SInv /\ SInv' /\ Drained /\ RefusedAfterClose /\ [Next]_vars => [Service!Next]_(Service!vars)
  BY StepIsService
<1> QED
  BY <1>1, <1>2, <1>3, <1>4, InitSInv, NextKeeps, RefusedKept, PTL DEF Spec, ImplementsService, Service!Spec
=============================================================================
