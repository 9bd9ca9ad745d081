------------------------------ MODULE XlmBackend ------------------------------
(***************************************************************************)
(* The delegate adapter, `XlmBackend` (server/xlm_backend.py) over         *)
(* `XlmEngine` (xlm.py): one vendor session, a lock around it, and for a   *)
(* stream a worker thread inside the vendor call with the generator at the *)
(* other end of a queue.                                                   *)
(*                                                                         *)
(* A piece of text is represented by the request whose call produced it.   *)
(* The vendor library is external: a call makes some callbacks, one of     *)
(* them perhaps an error, and returns.  cancel is a constant False here,   *)
(* so no request is ever cancelled.                                        *)
(***************************************************************************)
EXTENDS Integers, Sequences

CONSTANTS
  Callers,    \* threads with one request each, to _run or to stream
  Streamers,  \* those that stream
  MaxPieces,  \* bound: pieces of text in one answer
  Closer,     \* the thread that calls close
  None

ASSUME XlmAssumption ==
  /\ Streamers \subseteq Callers /\ MaxPieces \in Nat
  /\ Closer \notin Callers /\ None \notin Callers \cup {Closer}

VARIABLES
  patient,  \* whether the clients of this run read their streams to the end
  pc,       \* pc[c]: where c's _run, or its generator, is
  outcome,  \* outcome[c]: "none", "ok", "raised" or "left"
  text,     \* text[c]: the pieces c's answer is made of
  usage,    \* usage[c]: the call whose performance block c reports, or None
  ipc,      \* ipc[c]: where c's XlmEngine.infer is, on c's own thread or on its worker
  mailbox,  \* mailbox[c]: the queue `chunks` of c's stream
  lock,     \* who holds _lock
  active,   \* RequestState._active
  queued,   \* _queued
  zpc,      \* where close is
  closed,   \* _closed, the engine's too
  handle,   \* the vendor session: "live" or "destroyed"
  state,    \* the engine's dict: [sink, chunks, error, performance]
  fd1,      \* what file descriptor 1 is
  saved,    \* saved[c]: what fd 1 was when c's call redirected it
  made      \* made[c]: what the vendor has produced for c: [pieces, erred]

clientVars == <<pc, outcome, text, usage>>
countVars  == <<active, queued>>
closeVars  == <<zpc, closed, handle>>
inferVars  == <<ipc, mailbox, state, fd1, saved, made>>
vars == <<patient, clientVars, inferVars, lock, countVars, closeVars>>

NewState == [sink |-> None, chunks |-> << >>, error |-> FALSE, performance |-> None]

Init ==
  /\ patient \in BOOLEAN
  /\ pc \in [Callers -> {"idle", "ended"}]      \* not everyone has a request
  /\ outcome = [c \in Callers |-> "none"]
  /\ text = [c \in Callers |-> << >>] /\ usage = [c \in Callers |-> None]
  /\ ipc = [c \in Callers |-> "none"] /\ mailbox = [c \in Callers |-> << >>]
  /\ lock = None /\ active = {} /\ queued = 0
  /\ zpc = "open" /\ closed = FALSE /\ handle = "live"
  /\ state = NewState
  /\ fd1 = "stdout" /\ saved = [c \in Callers |-> None]
  /\ made = [c \in Callers |-> [pieces |-> 0, erred |-> FALSE]]

-----------------------------------------------------------------------------
(* The caller, up to the lock.                                             *)

Begin(c) ==
  /\ pc[c] = "idle"
  /\ active' = active \cup {c}
  /\ pc' = [pc EXCEPT ![c] = "enter"]
  /\ UNCHANGED <<outcome, text, usage, inferVars, lock, queued, closeVars>>

EnterQueue(c) ==
  /\ pc[c] = "enter"
  /\ queued' = queued + 1
  /\ pc' = [pc EXCEPT ![c] = "lock"]
  /\ UNCHANGED <<outcome, text, usage, inferVars, lock, active, closeVars>>

(* The lock; _run goes on to infer, stream starts the worker that will.    *)
Acquire(c) ==
  /\ pc[c] = "lock" /\ lock = None
  /\ lock' = c
  /\ pc' = [pc EXCEPT ![c] = IF c \in Streamers THEN "drain" ELSE "infer"]
  /\ ipc' = [ipc EXCEPT ![c] = "check"]
  /\ UNCHANGED <<outcome, text, usage, mailbox, state, fd1, saved, made, countVars, closeVars>>

-----------------------------------------------------------------------------
(* XlmEngine.infer, and the callback.                                      *)

(* The prompt may be refused (empty, token ids, longer than the cache), and
   a closed engine refuses every prompt.                                   *)
Check(c) ==
  /\ ipc[c] = "check"
  /\ \/ ipc' = [ipc EXCEPT ![c] = "failed"]
     \/ ~closed /\ ipc' = [ipc EXCEPT ![c] = "reset"]
  /\ UNCHANGED <<clientVars, mailbox, state, fd1, saved, made, lock, countVars, closeVars>>

(* Wrong variant of Reset: the last call's pieces stay.                    *)
Reset_KeepsChunks(c) ==
  /\ ipc[c] = "reset"
  /\ state' = [NewState EXCEPT !.sink = IF c \in Streamers THEN c ELSE None,
                               !.chunks = state.chunks]
  /\ ipc' = [ipc EXCEPT ![c] = "redirect"]
  /\ UNCHANGED <<clientVars, mailbox, fd1, saved, made, lock, countVars, closeVars>>

(* "Reset both per call": sink, chunks, error and performance.             *)
Reset(c) ==
  /\ ipc[c] = "reset"
  /\ state' = [NewState EXCEPT !.sink = IF c \in Streamers THEN c ELSE None]
  /\ ipc' = [ipc EXCEPT ![c] = "redirect"]
  /\ UNCHANGED <<clientVars, mailbox, fd1, saved, made, lock, countVars, closeVars>>

(* quiet_delegate_stdout, and into xlm_infer.                              *)
Redirect(c) ==
  /\ ipc[c] = "redirect"
  /\ saved' = [saved EXCEPT ![c] = fd1] /\ fd1' = "stderr"
  /\ ipc' = [ipc EXCEPT ![c] = "inside"]
  /\ UNCHANGED <<clientVars, mailbox, state, made, lock, countVars, closeVars>>

(* A piece of c's answer goes to whichever list and sink are in the dict.  *)
Callback(c) ==
  /\ ipc[c] = "inside" /\ made[c].pieces < MaxPieces
  /\ made' = [made EXCEPT ![c].pieces = @ + 1]
  /\ state' = [state EXCEPT !.chunks = Append(@, c)]
  /\ mailbox' = IF state.sink = None THEN mailbox
                ELSE [mailbox EXCEPT ![state.sink] = Append(@, [kind |-> "chunk", of |-> c])]
  /\ UNCHANGED <<clientVars, ipc, fd1, saved, lock, countVars, closeVars>>

(* XLM_STATE_ERROR                                                         *)
CallbackError(c) ==
  /\ ipc[c] = "inside" /\ ~made[c].erred
  /\ made' = [made EXCEPT ![c].erred = TRUE]
  /\ state' = [state EXCEPT !.error = TRUE]
  /\ UNCHANGED <<clientVars, ipc, mailbox, fd1, saved, lock, countVars, closeVars>>

(* Wrong variant of Return: fd 1 is left where the call put it.            *)
Return_KeepsFd(c) ==
  /\ ipc[c] = "inside"
  /\ \/ ipc' = [ipc EXCEPT ![c] = "back"] /\ state' = [state EXCEPT !.performance = c]
     \/ ipc' = [ipc EXCEPT ![c] = "failed"] /\ UNCHANGED state
  /\ UNCHANGED <<clientVars, mailbox, fd1, saved, made, lock, countVars, closeVars>>

(* The last callback reports the performance block and the call returns, or
   it returns a bad status; fd 1 is put back either way.                   *)
Return(c) ==
  /\ ipc[c] = "inside"
  /\ \/ ipc' = [ipc EXCEPT ![c] = "back"] /\ state' = [state EXCEPT !.performance = c]
     \/ ipc' = [ipc EXCEPT ![c] = "failed"] /\ UNCHANGED state
  /\ fd1' = saved[c]
  /\ UNCHANGED <<clientVars, mailbox, saved, made, lock, countVars, closeVars>>

Failed(c) == ipc[c] = "failed" \/ state.error

(* Wrong variant of Deliver: an exception in the worker is not passed on.  *)
Deliver_Swallows(c) ==
  /\ ipc[c] \in {"back", "failed"}
  /\ ipc' = [ipc EXCEPT ![c] = "done"]
  /\ IF c \in Streamers
     THEN /\ mailbox' = IF Failed(c) THEN mailbox
                        ELSE [mailbox EXCEPT ![c] = Append(@, [kind |-> "done", of |-> c])]
          /\ UNCHANGED clientVars
     ELSE /\ pc' = [pc EXCEPT ![c] = "release"]
          /\ outcome' = [outcome EXCEPT ![c] = IF Failed(c) THEN "raised" ELSE "ok"]
          /\ UNCHANGED <<text, usage, mailbox>>
  /\ UNCHANGED <<state, fd1, saved, made, lock, countVars, closeVars>>

(* infer raises or returns the joined pieces: to _run, or to the worker,
   which puts "error" or "done" on its stream's queue.                     *)
Deliver(c) ==
  /\ ipc[c] \in {"back", "failed"}
  /\ ipc' = [ipc EXCEPT ![c] = "done"]
  /\ IF c \in Streamers
     THEN /\ mailbox' = [mailbox EXCEPT ![c] =
                Append(@, [kind |-> IF Failed(c) THEN "error" ELSE "done", of |-> c])]
          /\ UNCHANGED clientVars
     ELSE /\ pc' = [pc EXCEPT ![c] = "release"]
          /\ outcome' = [outcome EXCEPT ![c] = IF Failed(c) THEN "raised" ELSE "ok"]
          /\ IF Failed(c) THEN UNCHANGED <<text, usage>>
             ELSE /\ text' = [text EXCEPT ![c] = state.chunks]
                  /\ usage' = [usage EXCEPT ![c] = state.performance]
          /\ UNCHANGED mailbox
  /\ UNCHANGED <<state, fd1, saved, made, lock, countVars, closeVars>>

-----------------------------------------------------------------------------
(* The generator of a stream.                                              *)

Drain(c) ==
  /\ pc[c] = "drain" /\ mailbox[c] # << >>
  /\ mailbox' = [mailbox EXCEPT ![c] = Tail(@)]
  /\ LET event == Head(mailbox[c])
     IN  \/ /\ event.kind = "chunk"
            /\ text' = [text EXCEPT ![c] = Append(@, event.of)]
            /\ pc' = [pc EXCEPT ![c] = "yield"]
            /\ UNCHANGED <<outcome, usage>>
         \/ /\ event.kind = "done"
            /\ outcome' = [outcome EXCEPT ![c] = "ok"]
            /\ usage' = [usage EXCEPT ![c] = state.performance]
            /\ pc' = [pc EXCEPT ![c] = "release"]
            /\ UNCHANGED text
         \/ /\ event.kind = "error"
            /\ outcome' = [outcome EXCEPT ![c] = "raised"]
            /\ pc' = [pc EXCEPT ![c] = "release"]
            /\ UNCHANGED <<text, usage>>
  /\ UNCHANGED <<ipc, state, fd1, saved, made, lock, countVars, closeVars>>

(* The client took the event and nothing in the text so far stops it.      *)
Resume(c) ==
  /\ pc[c] = "yield"
  /\ pc' = [pc EXCEPT ![c] = "drain"]
  /\ UNCHANGED <<outcome, text, usage, inferVars, lock, countVars, closeVars>>

(* A stop sequence: `break`, with the worker still in its call.            *)
StopMatched(c) ==
  /\ ~patient /\ pc[c] = "yield"
  /\ pc' = [pc EXCEPT ![c] = "release"] /\ outcome' = [outcome EXCEPT ![c] = "ok"]
  /\ UNCHANGED <<text, usage, inferVars, lock, countVars, closeVars>>

(* The client is gone: the generator is closed at its yield.               *)
Disconnect(c) ==
  /\ ~patient /\ pc[c] = "yield"
  /\ pc' = [pc EXCEPT ![c] = "release"] /\ outcome' = [outcome EXCEPT ![c] = "left"]
  /\ UNCHANGED <<text, usage, inferVars, lock, countVars, closeVars>>

-----------------------------------------------------------------------------
(* The finally of both.                                                    *)

Release(c) ==
  /\ pc[c] = "release"
  /\ lock' = None
  /\ pc' = [pc EXCEPT ![c] = "leave"]
  /\ UNCHANGED <<outcome, text, usage, inferVars, countVars, closeVars>>

LeaveQueue(c) ==
  /\ pc[c] = "leave"
  /\ queued' = IF queued = 0 THEN 0 ELSE queued - 1
  /\ pc' = [pc EXCEPT ![c] = "clear"]
  /\ UNCHANGED <<outcome, text, usage, inferVars, lock, active, closeVars>>

Clear(c) ==
  /\ pc[c] = "clear"
  /\ active' = active \ {c}
  /\ pc' = [pc EXCEPT ![c] = "ended"]
  /\ UNCHANGED <<outcome, text, usage, inferVars, lock, queued, closeVars>>

-----------------------------------------------------------------------------
(* close                                                                   *)

CloseCalled ==
  /\ zpc = "open"
  /\ zpc' = "lock"
  /\ UNCHANGED <<clientVars, inferVars, lock, countVars, closed, handle>>

(* Wrong variant of CloseLock: close does not wait for the lock.           *)
CloseLock_NoWait ==
  /\ zpc = "lock"
  /\ zpc' = "locked" /\ lock' = Closer
  /\ UNCHANGED <<clientVars, inferVars, countVars, closed, handle>>

CloseLock ==
  /\ zpc = "lock" /\ lock = None
  /\ zpc' = "locked" /\ lock' = Closer
  /\ UNCHANGED <<clientVars, inferVars, countVars, closed, handle>>

(* _closed, RequestState.close, XlmEngine.close, and the lock given back.  *)
CloseEngine ==
  /\ zpc = "locked"
  /\ closed' = TRUE /\ active' = {} /\ handle' = "destroyed"
  /\ zpc' = "gone" /\ lock' = None
  /\ UNCHANGED <<clientVars, inferVars, queued>>

-----------------------------------------------------------------------------
CallerStep(c) ==
  \/ EnterQueue(c) \/ Acquire(c) \/ Drain(c) \/ Resume(c)
  \/ Release(c) \/ LeaveQueue(c) \/ Clear(c)

InferStep(c) == Check(c) \/ Reset(c) \/ Redirect(c) \/ Return(c) \/ Deliver(c)

CloserStep == CloseLock \/ CloseEngine

Ended ==
  /\ \A c \in Callers : pc[c] = "ended" /\ ipc[c] \in {"none", "done"}
  /\ zpc = "gone"
  /\ UNCHANGED vars

(* What a client is does not change.                                       *)
Steady(A) == A /\ UNCHANGED patient

Next ==
  \/ \E c \in Callers :
       \/ Steady(Begin(c)) \/ Steady(CallerStep(c)) \/ Steady(InferStep(c))
       \/ Steady(Callback(c)) \/ Steady(CallbackError(c))
       \/ Steady(StopMatched(c)) \/ Steady(Disconnect(c))
  \/ Steady(CloseCalled) \/ Steady(CloserStep)
  \/ Ended

Spec == Init /\ [][Next]_vars

(* Threads that can run do; the lock's waiters are finitely many; the vendor
   call returns, which is the vendor's promise and not this code's.        *)
Fairness ==
  /\ \A c \in Callers : WF_vars(Steady(CallerStep(c))) /\ WF_vars(Steady(InferStep(c)))
  /\ WF_vars(Steady(CloserStep))

FairSpec == Spec /\ Fairness

-----------------------------------------------------------------------------
(* Properties.                                                             *)

Inside == {c \in Callers : ipc[c] = "inside"}

ClientTypes ==
  /\ pc \in [Callers -> {"idle", "enter", "lock", "infer", "drain", "yield",
                         "release", "leave", "clear", "ended"}]
  /\ outcome \in [Callers -> {"none", "ok", "raised", "left"}]
  /\ text \in [Callers -> Seq(Callers)] /\ usage \in [Callers -> Callers \cup {None}]

InferTypes ==
  /\ ipc \in [Callers -> {"none", "check", "reset", "redirect", "inside", "back", "failed", "done"}]
  /\ mailbox \in [Callers -> Seq([kind : {"chunk", "done", "error"}, of : Callers])]
  /\ state \in [sink : Callers \cup {None}, chunks : Seq(Callers), error : BOOLEAN,
                performance : Callers \cup {None}]
  /\ fd1 \in {"stdout", "stderr", None} /\ saved \in [Callers -> {"stdout", "stderr", None}]
  /\ made \in [Callers -> [pieces : 0 .. MaxPieces, erred : BOOLEAN]]

SharedTypes ==
  /\ patient \in BOOLEAN /\ lock \in Callers \cup {Closer, None}
  /\ active \subseteq Callers /\ queued \in Nat
  /\ zpc \in {"open", "lock", "locked", "gone"}
  /\ closed \in BOOLEAN /\ handle \in {"live", "destroyed"}

TypeOK == ClientTypes /\ InferTypes /\ SharedTypes

(* "two threads sharing it ... interleave one prompt's tokens into another's
   answer and return a 200 with the wrong text": whoever shares the engine,
   an answer is made of its own call's pieces, an answer that reports its
   usage has all of them and reports its own, and a call the vendor has
   flagged as failed gives no such answer.                                 *)
Own(c) ==
  /\ \A i \in DOMAIN text[c] : text[c][i] = c
  /\ outcome[c] = "ok" /\ usage[c] # None =>
       usage[c] = c /\ Len(text[c]) = made[c].pieces /\ ~made[c].erred

AnswersAreOwn == \A c \in Callers : Own(c)

(* The same, of clients that read to the end: what the code does keep.     *)
PatientAnswersAreOwn == patient => AnswersAreOwn

(* quiet_delegate_stdout "puts fd 1 back": with no call in progress the
   process's stdout is its own.                                            *)
StdoutPutBack == patient /\ Inside = {} => fd1 = "stdout"

(* "The session cannot be xlm_destroy-ed while a call is inside it"
   (watchdog.py), of clients that read to the end.                         *)
DestroyedAlone == patient /\ handle = "destroyed" => Inside = {}

(* Every request ends -- also the one that meets a closed engine, a failed
   call or a client that is gone -- and close gets the lock, however many
   requests wait for it.                                                   *)
EveryCallEnds ==
  /\ \A c \in Callers : pc[c] = "enter" ~> pc[c] = "ended"
  /\ zpc = "lock" ~> zpc = "gone"
=============================================================================
