---------------------------- MODULE RequestService ----------------------------
(***************************************************************************)
(* What the serving backend promises its callers, whatever threads, groups *)
(* and shutdowns are behind it.  A request is accepted while the service   *)
(* is open, answered once, by a result or by a failure, and a call returns *)
(* only with a result for each of its requests.                            *)
(***************************************************************************)
CONSTANTS
  Callers,     \* threads that call generate or stream
  Requests,    \* the requests of all the calls
  RequestsOf,  \* RequestsOf[c]: the requests of c's call
  Streamers    \* the callers that stream, and may go away half way

VARIABLES
  answer,   \* answer[r]: "new", "accepted", "result" or "failure"
  outcome,  \* outcome[c]: "waiting", "returned", "raised" or "left"
  open      \* the service has not been closed

vars == <<answer, outcome, open>>

Init ==
  /\ answer = [r \in Requests |-> "new"]
  /\ outcome = [c \in Callers |-> "waiting"]
  /\ open = TRUE

Accept(r) ==
  /\ open /\ answer[r] = "new"
  /\ answer' = [answer EXCEPT ![r] = "accepted"]
  /\ UNCHANGED <<outcome, open>>

Answer(r) ==
  /\ answer[r] = "accepted"
  /\ \E a \in {"result", "failure"} : answer' = [answer EXCEPT ![r] = a]
  /\ UNCHANGED <<outcome, open>>

Return(c) ==
  /\ outcome[c] = "waiting"
  /\ \A r \in RequestsOf[c] : answer[r] = "result"
  /\ outcome' = [outcome EXCEPT ![c] = "returned"]
  /\ UNCHANGED <<answer, open>>

(* A call raises for one of its own failures, or because of the close.     *)
Raise(c) ==
  /\ outcome[c] = "waiting"
  /\ ~open \/ \E r \in RequestsOf[c] : answer[r] = "failure"
  /\ outcome' = [outcome EXCEPT ![c] = "raised"]
  /\ UNCHANGED <<answer, open>>

Leave(c) ==
  /\ c \in Streamers /\ outcome[c] = "waiting"
  /\ outcome' = [outcome EXCEPT ![c] = "left"]
  /\ UNCHANGED <<answer, open>>

Close ==
  /\ open /\ open' = FALSE
  /\ UNCHANGED <<answer, outcome>>

Next ==
  \/ \E r \in Requests : Accept(r) \/ Answer(r)
  \/ \E c \in Callers : Return(c) \/ Raise(c) \/ Leave(c)
  \/ Close

Spec == Init /\ [][Next]_vars
=============================================================================
