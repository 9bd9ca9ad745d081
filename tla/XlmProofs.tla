------------------------------ MODULE XlmProofs ------------------------------
(***************************************************************************)
(* What the lock of XlmBackend gives to clients that read their streams to *)
(* the end, for any number of callers, streams and pieces: the three       *)
(* invariants of XlmBackend.cfg.                                           *)
(***************************************************************************)
EXTENDS XlmBackend, TLAPS, SequenceTheorems

USE XlmAssumption

Held == {"infer", "drain", "yield", "release"}
Working == {"check", "reset", "redirect", "inside", "back", "failed"}

(* Whoever is past the lock and before its release holds it.               *)
LockHeld ==
  /\ \A c \in Callers : pc[c] \in Held <=> lock = c
  /\ zpc = "locked" <=> lock = Closer

(* Who is inside infer still has its generator, and so holds the lock: this
   is what a client that leaves breaks.                                    *)
InItsCall(c) == ipc[c] \in Working => pc[c] \in {"infer", "drain", "yield"}

Kinds(c) ==
  /\ pc[c] = "infer" => c \notin Streamers
  /\ pc[c] \in {"drain", "yield"} => c \in Streamers

(* Nothing has been made before the vendor is called.                      *)
Fresh(c) ==
  /\ pc[c] \in {"idle", "enter", "lock"} =>
       ipc[c] = "none" /\ text[c] = << >> /\ mailbox[c] = << >>
  /\ ipc[c] \in {"none", "check", "reset"} => made[c].pieces = 0 /\ made[c].erred = FALSE

(* During c's call the shared dict is c's.                                 *)
Clean(c) ==
  ipc[c] \in {"redirect", "inside", "back"} =>
    /\ state.sink = IF c \in Streamers THEN c ELSE None
    /\ Len(state.chunks) = made[c].pieces
    /\ \A i \in 1 .. Len(state.chunks) : state.chunks[i] = c
    /\ state.error = made[c].erred
    /\ ipc[c] = "back" => state.performance = c

(* A stream's queue holds the pieces its generator has not taken, and after
   them how the call ended, once it has.                                   *)
Reading(c) ==
  pc[c] \in {"drain", "yield"} =>
    LET n == Len(mailbox[c])
    IN  /\ \A i \in 1 .. n : mailbox[c][i].of = c
        /\ ipc[c] # "done" =>
             /\ \A i \in 1 .. n : mailbox[c][i].kind = "chunk"
             /\ Len(text[c]) + n = made[c].pieces
        /\ ipc[c] = "done" =>
             /\ n > 0 /\ mailbox[c][n].kind # "chunk"
             /\ \A i \in 1 .. n - 1 : mailbox[c][i].kind = "chunk"
             /\ mailbox[c][n].kind = "done" =>
                  /\ Len(text[c]) + n = made[c].pieces + 1
                  /\ made[c].erred = FALSE /\ state.performance = c

(* A request that has its outcome is past its generator, and its answer is
   its own.                                                                *)
Settled(c) ==
  /\ \A i \in 1 .. Len(text[c]) : text[c][i] = c
  /\ outcome[c] # "none" => pc[c] \in {"release", "leave", "clear", "ended"}
  /\ outcome[c] = "ok" /\ usage[c] # None =>
       usage[c] = c /\ Len(text[c]) = made[c].pieces /\ made[c].erred = FALSE

Good(c) == InItsCall(c) /\ Kinds(c) /\ Fresh(c) /\ Clean(c) /\ Reading(c) /\ Settled(c)

(* fd 1 is stderr only during a call, which will put stdout back.          *)
FdKept ==
  /\ \A c \in Callers : ipc[c] = "inside" => saved[c] = "stdout"
  /\ (\A c \in Callers : ipc[c] # "inside") => fd1 = "stdout"

(* After a close no call gets as far as the vendor.                        *)
CloseKept ==
  /\ handle = "destroyed" => closed
  /\ closed => \A c \in Callers : ipc[c] \notin {"reset", "redirect", "inside"}

Kept == patient => (\A c \in Callers : Good(c)) /\ FdKept /\ CloseKept

-----------------------------------------------------------------------------
(* Sequences, element by element.                                          *)

LEMMA Appended ==
  ASSUME NEW S, NEW s \in Seq(S), NEW e \in S
  PROVE  /\ Append(s, e) \in Seq(S) /\ Len(Append(s, e)) = Len(s) + 1 /\ Len(s) \in Nat
         /\ \A i \in 1 .. Len(s) : Append(s, e)[i] = s[i]
         /\ Append(s, e)[Len(s) + 1] = e
BY AppendProperties, LenProperties

LEMMA Tailed ==
  ASSUME NEW S, NEW s \in Seq(S), s # << >>
  PROVE  /\ Tail(s) \in Seq(S) /\ Len(Tail(s)) = Len(s) - 1 /\ Len(s) \in Nat \ {0}
         /\ \A i \in 1 .. Len(s) - 1 : Tail(s)[i] = s[i + 1]
         /\ Head(s) = s[1] /\ Head(s) \in S
BY HeadTailProperties, LenProperties, EmptySeq

(* Two calls do not overlap.                                               *)
LEMMA OneCall ==
  ASSUME LockHeld, Kept, patient, NEW c \in Callers, ipc[c] \in Working
  PROVE  /\ lock = c /\ pc[c] \in {"infer", "drain", "yield"}
         /\ \A d \in Callers : d # c => pc[d] \notin Held /\ ipc[d] \notin Working
<1>1. pc[c] \in {"infer", "drain", "yield"}
  BY DEF Kept, Good, InItsCall
<1>2. lock = c
  BY <1>1 DEF LockHeld, Held
<1>3. ASSUME NEW d \in Callers, d # c PROVE pc[d] \notin Held /\ ipc[d] \notin Working
  <2>1. pc[d] \notin Held
    BY <1>2, <1>3 DEF LockHeld
  <2> QED
    BY <2>1 DEF Kept, Good, InItsCall, Held
<1> QED
  BY <1>1, <1>2, <1>3

-----------------------------------------------------------------------------
(* Types.                                                                  *)

Events == [kind : {"chunk", "done", "error"}, of : Callers]

LEMMA TypeInit == Init => TypeOK
<1> SUFFICES ASSUME Init PROVE TypeOK
  OBVIOUS
<1>1. << >> \in Seq(Callers) /\ << >> \in Seq(Events)
  OBVIOUS
<1>2. ClientTypes
  BY <1>1 DEF Init, ClientTypes
<1>3. InferTypes
  BY <1>1 DEF Init, InferTypes, NewState, Events
<1>4. SharedTypes
  BY DEF Init, SharedTypes
<1> QED
  BY <1>2, <1>3, <1>4 DEF TypeOK

LEMMA Updated ==
  ASSUME NEW A, NEW B, NEW f \in [A -> B], NEW a \in A, NEW b \in B
  PROVE  [f EXCEPT ![a] = b] \in [A -> B]
OBVIOUS

LEMMA ClientsUntouched == ClientTypes /\ UNCHANGED clientVars => ClientTypes'
BY DEF ClientTypes, clientVars

LEMMA InferUntouched == InferTypes /\ UNCHANGED inferVars => InferTypes'
BY DEF InferTypes, inferVars

(* The caller's own steps.                                                 *)
LEMMA TypeOfCaller ==
  ASSUME TypeOK, NEW c \in Callers, Begin(c) \/ CallerStep(c) \/ StopMatched(c) \/ Disconnect(c),
         UNCHANGED patient
  PROVE  TypeOK'
<1> USE DEF TypeOK
<1>1. CASE Begin(c)
  <2>1. ClientTypes'
    BY <1>1 DEF Begin, ClientTypes, inferVars, closeVars
  <2>2. InferTypes'
    BY <1>1 DEF Begin, InferTypes, inferVars, closeVars
  <2>3. SharedTypes'
    BY <1>1 DEF Begin, SharedTypes, inferVars, closeVars
  <2> QED
    BY <2>1, <2>2, <2>3
<1>2. CASE EnterQueue(c)
  <2>1. ClientTypes'
    BY <1>2 DEF EnterQueue, ClientTypes, inferVars, closeVars
  <2>2. InferTypes'
    BY <1>2 DEF EnterQueue, InferTypes, inferVars, closeVars
  <2>3. SharedTypes'
    BY <1>2 DEF EnterQueue, SharedTypes, inferVars, closeVars
  <2> QED
    BY <2>1, <2>2, <2>3
<1>3. CASE Acquire(c)
  <2>1. ClientTypes'
    BY <1>3 DEF Acquire, ClientTypes, countVars, closeVars
  <2>2. InferTypes'
    BY <1>3 DEF Acquire, InferTypes, countVars, closeVars
  <2>3. SharedTypes'
    BY <1>3 DEF Acquire, SharedTypes, countVars, closeVars
  <2> QED
    BY <2>1, <2>2, <2>3
<1>4. CASE Drain(c)
  <2>1. mailbox[c] \in Seq(Events) /\ mailbox[c] # << >>
    BY <1>4 DEF Drain, InferTypes, Events
  <2>2. Head(mailbox[c]) \in Events /\ Tail(mailbox[c]) \in Seq(Events)
    BY <2>1, Tailed
  <2>3. text[c] \in Seq(Callers) /\ Head(mailbox[c]).of \in Callers
    BY <2>2 DEF ClientTypes, Events
  <2>4. Append(text[c], Head(mailbox[c]).of) \in Seq(Callers)
    BY <2>3, Appended
  <2>5. InferTypes'
    <3>1. mailbox' \in [Callers -> Seq(Events)]
      BY <1>4, <2>2 DEF Drain, InferTypes, Events
    <3> QED
      BY <1>4, <3>1 DEF Drain, InferTypes, Events
  <2>6. SharedTypes'
    BY <1>4 DEF Drain, SharedTypes, countVars, closeVars
  <2>7. ClientTypes'
    <3>1. state.performance \in Callers \cup {None}
      BY DEF InferTypes
    <3>2. \/ /\ pc' = [pc EXCEPT ![c] = "yield"] /\ UNCHANGED <<outcome, usage>>
             /\ text' = [text EXCEPT ![c] = Append(text[c], Head(mailbox[c]).of)]
          \/ /\ pc' = [pc EXCEPT ![c] = "release"] /\ UNCHANGED text
             /\ outcome' = [outcome EXCEPT ![c] = "ok"]
             /\ usage' = [usage EXCEPT ![c] = state.performance]
          \/ /\ pc' = [pc EXCEPT ![c] = "release"] /\ UNCHANGED <<text, usage>>
             /\ outcome' = [outcome EXCEPT ![c] = "raised"]
      BY <1>4 DEF Drain
    <3>3. /\ pc' \in [Callers -> {"idle", "enter", "lock", "infer", "drain", "yield",
                                "release", "leave", "clear", "ended"}]
          /\ outcome' \in [Callers -> {"none", "ok", "raised", "left"}]
      BY <3>2 DEF ClientTypes
    <3>4. text' \in [Callers -> Seq(Callers)]
      <4>1. [text EXCEPT ![c] = Append(text[c], Head(mailbox[c]).of)] \in [Callers -> Seq(Callers)]
        BY <2>4, Updated DEF ClientTypes
      <4> QED
        BY <3>2, <4>1 DEF ClientTypes
    <3>5. usage' \in [Callers -> Callers \cup {None}]
      <4>1. [usage EXCEPT ![c] = state.performance] \in [Callers -> Callers \cup {None}]
        BY <3>1, Updated DEF ClientTypes
      <4> QED
        BY <3>2, <4>1 DEF ClientTypes
    <3> QED
      BY <3>3, <3>4, <3>5 DEF ClientTypes
  <2> QED
    BY <2>5, <2>6, <2>7
<1>5. CASE Resume(c)
  <2>1. ClientTypes'
    BY <1>5 DEF Resume, ClientTypes, inferVars, countVars, closeVars
  <2>2. InferTypes'
    BY <1>5 DEF Resume, InferTypes, inferVars, countVars, closeVars
  <2>3. SharedTypes'
    BY <1>5 DEF Resume, SharedTypes, inferVars, countVars, closeVars
  <2> QED
    BY <2>1, <2>2, <2>3
<1>6. CASE Release(c)
  <2>1. ClientTypes'
    BY <1>6 DEF Release, ClientTypes, inferVars, countVars, closeVars
  <2>2. InferTypes'
    BY <1>6 DEF Release, InferTypes, inferVars, countVars, closeVars
  <2>3. SharedTypes'
    BY <1>6 DEF Release, SharedTypes, inferVars, countVars, closeVars
  <2> QED
    BY <2>1, <2>2, <2>3
<1>7. CASE LeaveQueue(c)
  <2>1. ClientTypes'
    BY <1>7 DEF LeaveQueue, ClientTypes, inferVars, closeVars
  <2>2. InferTypes'
    BY <1>7 DEF LeaveQueue, InferTypes, inferVars, closeVars
  <2>3. SharedTypes'
    BY <1>7 DEF LeaveQueue, SharedTypes, inferVars, closeVars
  <2> QED
    BY <2>1, <2>2, <2>3
<1>8. CASE Clear(c)
  <2>1. ClientTypes'
    BY <1>8 DEF Clear, ClientTypes, inferVars, closeVars
  <2>2. InferTypes'
    BY <1>8 DEF Clear, InferTypes, inferVars, closeVars
  <2>3. SharedTypes'
    BY <1>8 DEF Clear, SharedTypes, inferVars, closeVars
  <2> QED
    BY <2>1, <2>2, <2>3
<1>9. CASE StopMatched(c)
  <2>1. ClientTypes'
    BY <1>9 DEF StopMatched, ClientTypes, inferVars, countVars, closeVars
  <2>2. InferTypes'
    BY <1>9 DEF StopMatched, InferTypes, inferVars, countVars, closeVars
  <2>3. SharedTypes'
    BY <1>9 DEF StopMatched, SharedTypes, inferVars, countVars, closeVars
  <2> QED
    BY <2>1, <2>2, <2>3
<1>10. CASE Disconnect(c)
  <2>1. ClientTypes'
    BY <1>10 DEF Disconnect, ClientTypes, inferVars, countVars, closeVars
  <2>2. InferTypes'
    BY <1>10 DEF Disconnect, InferTypes, inferVars, countVars, closeVars
  <2>3. SharedTypes'
    BY <1>10 DEF Disconnect, SharedTypes, inferVars, countVars, closeVars
  <2> QED
    BY <2>1, <2>2, <2>3
<1> QED
  BY <1>1, <1>2, <1>3, <1>4, <1>5, <1>6, <1>7, <1>8, <1>9, <1>10 DEF CallerStep

(* The steps inside infer.                                                 *)
LEMMA TypeOfInfer ==
  ASSUME TypeOK, NEW c \in Callers, InferStep(c) \/ Callback(c) \/ CallbackError(c), UNCHANGED patient
  PROVE  TypeOK'
<1> USE DEF TypeOK
<1>1. CASE Check(c)
  <2>1. ipc' \in {[ipc EXCEPT ![c] = "failed"], [ipc EXCEPT ![c] = "reset"]}
    BY <1>1 DEF Check
  <2>2. InferTypes'
    <3>1. /\ [ipc EXCEPT ![c] = "failed"] \in [Callers -> {"none", "check", "reset", "redirect", "inside", "back", "failed", "done"}]
          /\ [ipc EXCEPT ![c] = "reset"] \in [Callers -> {"none", "check", "reset", "redirect", "inside", "back", "failed", "done"}]
      BY DEF InferTypes
    <3> QED
      BY <1>1, <2>1, <3>1 DEF Check, InferTypes
  <2> QED
    BY <1>1, <2>2, ClientsUntouched DEF Check, SharedTypes, countVars, closeVars
<1>2. CASE Reset(c)
  <2>1. << >> \in Seq(Callers)
    OBVIOUS
  <2>2. state' = [sink |-> IF c \in Streamers THEN c ELSE None, chunks |-> << >>, error |-> FALSE,
                  performance |-> None]
    BY <1>2 DEF Reset, NewState
  <2>3. InferTypes'
    <3>1. state' \in [sink : Callers \cup {None}, chunks : Seq(Callers), error : BOOLEAN,
                     performance : Callers \cup {None}]
      BY <2>1, <2>2
    <3> QED
      BY <1>2, <3>1 DEF Reset, InferTypes
  <2> QED
    BY <1>2, <2>3 DEF Reset, ClientTypes, SharedTypes, clientVars, countVars, closeVars
<1>3. CASE Redirect(c)
  BY <1>3, SMTT(30) DEF Redirect, ClientTypes, InferTypes, SharedTypes, clientVars, countVars, closeVars
<1>4. CASE Return(c)
  <2>1. ipc' \in {[ipc EXCEPT ![c] = "back"], [ipc EXCEPT ![c] = "failed"]}
    BY <1>4 DEF Return
  <2>2. state' \in {state, [state EXCEPT !.performance = c]}
    BY <1>4 DEF Return
  <2>3. state' \in [sink : Callers \cup {None}, chunks : Seq(Callers), error : BOOLEAN,
                   performance : Callers \cup {None}]
    BY <2>2 DEF InferTypes
  <2> QED
    BY <1>4, <2>1, <2>3 DEF Return, ClientTypes, InferTypes, SharedTypes, clientVars, countVars, closeVars
<1>5. CASE Deliver(c)
  <2>1. mailbox' \in [Callers -> Seq(Events)]
    <3>1. \A k \in {"done", "error"} : Append(mailbox[c], [kind |-> k, of |-> c]) \in Seq(Events)
      BY ZenonT(60), Appended DEF InferTypes, Events
    <3>2. \/ UNCHANGED mailbox
          \/ \E k \in {"done", "error"} :
               mailbox' = [mailbox EXCEPT ![c] = Append(mailbox[c], [kind |-> k, of |-> c])]
      BY <1>5 DEF Deliver
    <3>3. \A k \in {"done", "error"} :
            [mailbox EXCEPT ![c] = Append(mailbox[c], [kind |-> k, of |-> c])] \in [Callers -> Seq(Events)]
      BY <3>1, Updated DEF InferTypes, Events
    <3>4. mailbox \in [Callers -> Seq(Events)]
      BY DEF InferTypes, Events
    <3> QED
      BY <3>2, <3>3, <3>4
  <2>2. InferTypes'
    BY <1>5, <2>1 DEF Deliver, InferTypes, Events
  <2>3. ClientTypes'
    <3>1. /\ pc' \in {pc, [pc EXCEPT ![c] = "release"]}
          /\ outcome' \in {outcome, [outcome EXCEPT ![c] = "ok"], [outcome EXCEPT ![c] = "raised"]}
          /\ text' \in {text, [text EXCEPT ![c] = state.chunks]}
          /\ usage' \in {usage, [usage EXCEPT ![c] = state.performance]}
      BY <1>5 DEF Deliver, clientVars
    <3>2. state.chunks \in Seq(Callers) /\ state.performance \in Callers \cup {None}
      BY DEF InferTypes
    <3>3. /\ pc' \in [Callers -> {"idle", "enter", "lock", "infer", "drain", "yield",
                                "release", "leave", "clear", "ended"}]
          /\ outcome' \in [Callers -> {"none", "ok", "raised", "left"}]
      BY ZenonT(60), <3>1 DEF ClientTypes
    <3>4. /\ [text EXCEPT ![c] = state.chunks] \in [Callers -> Seq(Callers)]
          /\ [usage EXCEPT ![c] = state.performance] \in [Callers -> Callers \cup {None}]
      BY <3>2, Updated DEF ClientTypes
    <3>5. text' \in [Callers -> Seq(Callers)] /\ usage' \in [Callers -> Callers \cup {None}]
      BY <3>1, <3>4 DEF ClientTypes
    <3> QED
      BY <3>3, <3>5 DEF ClientTypes
  <2> QED
    BY <1>5, <2>2, <2>3 DEF Deliver, SharedTypes, countVars, closeVars
<1>6. CASE Callback(c)
  <2>1. mailbox' \in [Callers -> Seq(Events)]
    <3>1. \A d \in Callers : Append(mailbox[d], [kind |-> "chunk", of |-> c]) \in Seq(Events)
      BY ZenonT(60), Appended DEF InferTypes, Events
    <3>2. \/ UNCHANGED mailbox
          \/ \E d \in Callers :
               mailbox' = [mailbox EXCEPT ![d] = Append(mailbox[d], [kind |-> "chunk", of |-> c])]
      BY <1>6 DEF Callback, InferTypes
    <3>3. \A d \in Callers :
            [mailbox EXCEPT ![d] = Append(mailbox[d], [kind |-> "chunk", of |-> c])] \in [Callers -> Seq(Events)]
      BY <3>1, Updated DEF InferTypes, Events
    <3>4. mailbox \in [Callers -> Seq(Events)]
      BY DEF InferTypes, Events
    <3> QED
      BY <3>2, <3>3, <3>4
  <2>2. Append(state.chunks, c) \in Seq(Callers)
    BY Appended DEF InferTypes
  <2>3. state' \in [sink : Callers \cup {None}, chunks : Seq(Callers), error : BOOLEAN,
                   performance : Callers \cup {None}]
    BY <1>6, <2>2 DEF Callback, InferTypes
  <2>4. made' \in [Callers -> [pieces : 0 .. MaxPieces, erred : BOOLEAN]]
    <3>1. made[c].pieces + 1 \in 0 .. MaxPieces
      BY <1>6 DEF Callback, InferTypes
    <3>2. [made[c] EXCEPT !.pieces = made[c].pieces + 1] \in [pieces : 0 .. MaxPieces, erred : BOOLEAN]
      <4>1. made[c] \in [pieces : 0 .. MaxPieces, erred : BOOLEAN]
        BY DEF InferTypes
      <4> QED
        BY <3>1, <4>1
    <3>3. [made EXCEPT ![c] = [made[c] EXCEPT !.pieces = made[c].pieces + 1]]
            \in [Callers -> [pieces : 0 .. MaxPieces, erred : BOOLEAN]]
      BY <3>2, Updated DEF InferTypes
    <3>4. made' = [made EXCEPT ![c] = [made[c] EXCEPT !.pieces = made[c].pieces + 1]]
      BY <1>6 DEF Callback
    <3> QED
      BY <3>3, <3>4
  <2> QED
    BY <1>6, <2>1, <2>3, <2>4 DEF Callback, ClientTypes, InferTypes, SharedTypes, Events, clientVars, countVars, closeVars
<1>7. CASE CallbackError(c)
  <2>1. state' \in [sink : Callers \cup {None}, chunks : Seq(Callers), error : BOOLEAN,
                   performance : Callers \cup {None}]
    BY <1>7 DEF CallbackError, InferTypes
  <2>2. made' \in [Callers -> [pieces : 0 .. MaxPieces, erred : BOOLEAN]]
    BY ZenonT(60), <1>7 DEF CallbackError, InferTypes
  <2> QED
    BY <1>7, <2>1, <2>2 DEF CallbackError, ClientTypes, InferTypes, SharedTypes, clientVars, countVars, closeVars
<1> QED
  BY <1>1, <1>2, <1>3, <1>4, <1>5, <1>6, <1>7 DEF InferStep

LEMMA TypeOfClose ==
  ASSUME TypeOK, CloseCalled \/ CloserStep, UNCHANGED patient
  PROVE  TypeOK'
<1>1. CASE CloseCalled
  BY <1>1, ClientsUntouched, InferUntouched DEF TypeOK, CloseCalled, SharedTypes, countVars
<1>2. CASE CloseLock
  BY <1>2, ClientsUntouched, InferUntouched DEF TypeOK, CloseLock, SharedTypes, countVars
<1>3. CASE CloseEngine
  BY <1>3, ClientsUntouched, InferUntouched DEF TypeOK, CloseEngine, SharedTypes
<1> QED
  BY <1>1, <1>2, <1>3 DEF CloserStep

LEMMA TypeStep == TypeOK /\ [Next]_vars => TypeOK'
<1> SUFFICES ASSUME TypeOK, [Next]_vars PROVE TypeOK'
  OBVIOUS
<1>1. ASSUME UNCHANGED vars PROVE TypeOK'
  BY ZenonT(60), <1>1 DEF TypeOK, ClientTypes, InferTypes, SharedTypes, vars, clientVars, inferVars, countVars, closeVars
<1>2. ASSUME NEW c \in Callers, UNCHANGED patient,
             Begin(c) \/ CallerStep(c) \/ StopMatched(c) \/ Disconnect(c) PROVE TypeOK'
  BY <1>2, TypeOfCaller
<1>3. ASSUME NEW c \in Callers, UNCHANGED patient,
             InferStep(c) \/ Callback(c) \/ CallbackError(c) PROVE TypeOK'
  BY <1>3, TypeOfInfer
<1>4. ASSUME UNCHANGED patient, CloseCalled \/ CloserStep PROVE TypeOK'
  BY <1>4, TypeOfClose
<1>5. ASSUME Ended PROVE UNCHANGED vars
  BY <1>5 DEF Ended
<1> QED
  BY <1>1, <1>2, <1>3, <1>4, <1>5 DEF Next, Steady

LEMMA Typed == Spec => []TypeOK
BY TypeInit, TypeStep, PTL DEF Spec

-----------------------------------------------------------------------------
(* The steps of one caller, for clients that read to the end.              *)

LEMMA OtherKept ==
  ASSUME NEW d \in Callers, Good(d),
         pc'[d] = pc[d], ipc'[d] = ipc[d], text'[d] = text[d], usage'[d] = usage[d],
         outcome'[d] = outcome[d], mailbox'[d] = mailbox[d], made'[d] = made[d],
         state' = state \/ (pc[d] \notin Held /\ ipc[d] \notin Working)
  PROVE  Good(d)'
<1>1. (InItsCall(d) /\ Kinds(d) /\ Fresh(d) /\ Settled(d))'
  BY DEF Good, InItsCall, Kinds, Fresh, Settled
<1>2. Clean(d)'
  BY DEF Good, Clean, Working
<1>3. Reading(d)'
  BY DEF Good, Reading, Held
<1> QED
  BY <1>1, <1>2, <1>3 DEF Good

(* Steps that only move c on, outside infer.                               *)
LEMMA MovedOn ==
  ASSUME TypeOK, Kept, patient, NEW c \in Callers, NEW p,
         UNCHANGED <<outcome, text, usage, inferVars, closed, handle>>,
         pc' = [pc EXCEPT ![c] = p],
         ipc[c] \notin Working,
         p \in {"enter", "lock", "leave", "clear", "ended"},
         pc[c] \in {"idle", "enter"} \/ p \in {"leave", "clear", "ended"},
         pc[c] \in {"idle", "enter"} => p \in {"enter", "lock"}
  PROVE  (\A d \in Callers : Good(d)') /\ FdKept' /\ CloseKept'
<1>1. pc'[c] = p /\ \A d \in Callers : d # c => pc'[d] = pc[d]
  BY DEF TypeOK, ClientTypes
<1>2. Good(c)
  BY DEF Kept
<1>3. Good(c)'
  <2>1. (InItsCall(c) /\ Kinds(c) /\ Fresh(c) /\ Clean(c) /\ Reading(c))'
    BY <1>1, <1>2 DEF inferVars, Good, InItsCall, Kinds, Fresh, Clean, Reading, Working
  <2>2. Settled(c)'
    BY <1>1, <1>2 DEF inferVars, Good, Settled
  <2> QED
    BY <2>1, <2>2 DEF Good
<1>4. ASSUME NEW d \in Callers, d # c PROVE Good(d)'
  BY <1>1, <1>4, OtherKept DEF Kept, inferVars
<1>5. FdKept' /\ CloseKept'
  BY DEF Kept, FdKept, CloseKept, inferVars
<1> QED
  BY <1>3, <1>4, <1>5

LEMMA AcquireKept ==
  ASSUME TypeOK, Kept, patient, NEW c \in Callers, Acquire(c)
  PROVE  (\A d \in Callers : Good(d)') /\ FdKept' /\ CloseKept'
<1>1. /\ pc' = [pc EXCEPT ![c] = IF c \in Streamers THEN "drain" ELSE "infer"]
      /\ ipc' = [ipc EXCEPT ![c] = "check"] /\ pc[c] = "lock"
      /\ UNCHANGED <<outcome, text, usage, mailbox, state, fd1, saved, made, closed, handle>>
  BY DEF Acquire, closeVars
<1>2. /\ pc'[c] = IF c \in Streamers THEN "drain" ELSE "infer"
      /\ ipc'[c] = "check"
      /\ \A d \in Callers : d # c => pc'[d] = pc[d] /\ ipc'[d] = ipc[d]
  BY <1>1 DEF TypeOK, ClientTypes, InferTypes
<1>3. Good(c)
  BY DEF Kept
<1>4. Good(c)'
  <2>1. ipc[c] = "none" /\ text[c] = << >> /\ mailbox[c] = << >>
    BY <1>1, <1>3 DEF Good, Fresh
  <2>2. made[c].pieces = 0 /\ made[c].erred = FALSE
    BY <2>1, <1>3 DEF Good, Fresh
  <2>3. (InItsCall(c) /\ Kinds(c) /\ Fresh(c) /\ Clean(c))'
    BY <1>1, <1>2, <2>2 DEF InItsCall, Kinds, Fresh, Clean
  <2>4. Reading(c)'
    BY <1>1, <1>2, <2>1, <2>2 DEF Reading
  <2>5. Settled(c)'
    BY <1>1, <1>2, <1>3 DEF Good, Settled
  <2> QED
    BY <2>3, <2>4, <2>5 DEF Good
<1>5. ASSUME NEW d \in Callers, d # c PROVE Good(d)'
  BY <1>1, <1>2, <1>5, OtherKept DEF Kept
<1>6. FdKept' /\ CloseKept'
  <2>1. ipc[c] # "inside"
    BY <1>1, <1>3 DEF Good, Fresh
  <2> QED
    BY <1>1, <1>2, <2>1 DEF Kept, FdKept, CloseKept
<1> QED
  BY <1>4, <1>5, <1>6

LEMMA ResumeKept ==
  ASSUME TypeOK, Kept, patient, NEW c \in Callers, Resume(c)
  PROVE  (\A d \in Callers : Good(d)') /\ FdKept' /\ CloseKept'
<1>1. /\ pc' = [pc EXCEPT ![c] = "drain"] /\ pc[c] = "yield"
      /\ UNCHANGED <<outcome, text, usage, inferVars, closed, handle>>
  BY DEF Resume, closeVars
<1>2. pc'[c] = "drain" /\ \A d \in Callers : d # c => pc'[d] = pc[d]
  BY <1>1 DEF TypeOK, ClientTypes
<1>3. Good(c)
  BY DEF Kept
<1>4. Good(c)'
  BY <1>1, <1>2, <1>3 DEF inferVars, Good, InItsCall, Kinds, Fresh, Clean, Reading, Settled
<1>5. ASSUME NEW d \in Callers, d # c PROVE Good(d)'
  BY <1>1, <1>2, <1>5, OtherKept DEF Kept, inferVars
<1>6. FdKept' /\ CloseKept'
  BY <1>1 DEF Kept, FdKept, CloseKept, inferVars
<1> QED
  BY <1>4, <1>5, <1>6

(* The generator takes an event; the last one finds the call over.         *)
LEMMA DrainKept ==
  ASSUME TypeOK, TypeOK', Kept, patient, NEW c \in Callers, Drain(c)
  PROVE  (\A d \in Callers : Good(d)') /\ FdKept' /\ CloseKept'
<1> DEFINE event == Head(mailbox[c])
           n == Len(mailbox[c])
<1>1. /\ pc[c] = "drain" /\ mailbox[c] # << >>
      /\ mailbox' = [mailbox EXCEPT ![c] = Tail(mailbox[c])]
      /\ UNCHANGED <<ipc, state, fd1, saved, made, closed, handle>>
  BY DEF Drain, closeVars
<1>2. /\ mailbox[c] \in Seq(Events) /\ text[c] \in Seq(Callers)
  BY DEF TypeOK, InferTypes, ClientTypes, Events
<1>3. /\ mailbox'[c] = Tail(mailbox[c]) /\ \A d \in Callers : d # c => mailbox'[d] = mailbox[d]
  BY <1>1 DEF TypeOK, InferTypes
<1>4. /\ Len(mailbox'[c]) = n - 1 /\ n \in Nat \ {0}
      /\ \A i \in 1 .. n - 1 : mailbox'[c][i] = mailbox[c][i + 1]
      /\ event = mailbox[c][1] /\ event \in Events /\ 1 \in 1 .. n
  <2>1. /\ Len(Tail(mailbox[c])) = n - 1 /\ n \in Nat \ {0}
        /\ \A i \in 1 .. n - 1 : Tail(mailbox[c])[i] = mailbox[c][i + 1]
        /\ event = mailbox[c][1] /\ event \in Events
    BY <1>1, <1>2, Tailed
  <2> QED
    BY <1>3, <2>1
<1>5. Good(c) /\ Reading(c) /\ Settled(c) /\ outcome[c] = "none" /\ c \in Streamers
  BY <1>1 DEF Kept, Good, Settled, Kinds
<1>6. event.of = c
  BY <1>1, <1>4, <1>5 DEF Reading
<1>7. FdKept' /\ CloseKept'
  BY <1>1 DEF Kept, FdKept, CloseKept
<1>8. ASSUME NEW d \in Callers, d # c,
             pc'[d] = pc[d], text'[d] = text[d], usage'[d] = usage[d], outcome'[d] = outcome[d]
      PROVE  Good(d)'
  BY <1>1, <1>3, <1>8, OtherKept DEF Kept
<1>9. CASE event.kind = "chunk"
  <2>1. /\ text' = [text EXCEPT ![c] = Append(text[c], event.of)]
        /\ pc' = [pc EXCEPT ![c] = "yield"] /\ UNCHANGED <<outcome, usage>>
    BY <1>9 DEF Drain
  <2>2. /\ pc'[c] = "yield" /\ text'[c] = Append(text[c], c)
        /\ \A d \in Callers : d # c => pc'[d] = pc[d] /\ text'[d] = text[d]
    BY <2>1, <1>6 DEF TypeOK, ClientTypes
  <2>3. /\ Len(text'[c]) = Len(text[c]) + 1 /\ Len(text[c]) \in Nat
        /\ \A i \in 1 .. Len(text[c]) : text'[c][i] = text[c][i]
        /\ text'[c][Len(text[c]) + 1] = c
    BY <2>2, <1>2, Appended
  <2>4. Reading(c)'
    <3>1. \A i \in 1 .. n - 1 : mailbox'[c][i].of = c
      BY <1>1, <1>4, <1>5 DEF Reading
    <3>2. CASE ipc[c] # "done"
      BY <1>1, <1>4, <1>5, <2>2, <2>3, <3>1, <3>2 DEF Reading, TypeOK, InferTypes
    <3>3. CASE ipc[c] = "done"
      <4>1. n > 1
        BY <1>1, <1>4, <1>5, <1>9, <3>3 DEF Reading
      <4>2. mailbox'[c][n - 1] = mailbox[c][n]
        BY <1>4, <4>1
      <4>3. \A i \in 1 .. n - 1 - 1 : mailbox'[c][i].kind = "chunk"
        BY <1>1, <1>4, <1>5, <3>3 DEF Reading
      <4>4. mailbox[c][n].kind # "chunk"
        BY <1>1, <1>5, <3>3 DEF Reading
      <4>5. mailbox[c][n].kind = "done" =>
              Len(text'[c]) + (n - 1) = made[c].pieces + 1 /\ made[c].erred = FALSE /\ state.performance = c
        <5>1. mailbox[c][n].kind = "done" =>
                Len(text[c]) + n = made[c].pieces + 1 /\ made[c].erred = FALSE /\ state.performance = c
          BY <1>1, <1>5, <3>3 DEF Reading
        <5>2. Len(text'[c]) + (n - 1) = Len(text[c]) + n
          <6>1. n \in Nat \ {0} /\ Len(text[c]) \in Nat /\ Len(text'[c]) = Len(text[c]) + 1
            BY <1>4, <2>3
          <6> HIDE DEF n
          <6> QED
            BY <6>1
        <5> QED
          BY <5>1, <5>2
      <4>6. ipc'[c] = "done" /\ made' = made /\ state' = state /\ Len(mailbox'[c]) = n - 1 /\ n - 1 > 0
        BY <1>1, <1>4, <3>3, <4>1
      <4> HIDE DEF n, event
      <4> QED
        BY <3>1, <4>2, <4>3, <4>4, <4>5, <4>6 DEF Reading
    <3> QED
      BY <3>2, <3>3
  <2>5. Settled(c)'
    BY <1>1, <1>5, <2>1, <2>2, <2>3 DEF Settled
  <2>6. (InItsCall(c) /\ Kinds(c) /\ Fresh(c) /\ Clean(c))'
    BY <1>1, <1>5, <2>2 DEF Good, InItsCall, Kinds, Fresh, Clean
  <2>7. Good(c)'
    BY <2>4, <2>5, <2>6 DEF Good
  <2>8. ASSUME NEW d \in Callers, d # c PROVE Good(d)'
    BY <1>8, <2>1, <2>2, <2>8
  <2> QED
    BY <1>7, <2>7, <2>8
<1>10. CASE event.kind # "chunk"
  <2>1. pc' = [pc EXCEPT ![c] = "release"] /\ UNCHANGED text
    BY <1>10 DEF Drain
  <2>2. /\ pc'[c] = "release" /\ \A d \in Callers : d # c => pc'[d] = pc[d]
    BY <2>1 DEF TypeOK, ClientTypes
  <2>3. ipc[c] = "done" /\ n = 1
    <3>1. ipc[c] = "done"
      BY <1>1, <1>4, <1>5, <1>10 DEF Reading
    <3>2. ~(1 \in 1 .. n - 1)
      BY <1>1, <1>4, <1>5, <1>10, <3>1 DEF Reading
    <3>3. n \in Nat \ {0}
      BY <1>4
    <3> HIDE DEF n
    <3> QED
      BY <3>1, <3>2, <3>3
  <2>4. (InItsCall(c) /\ Kinds(c) /\ Fresh(c) /\ Clean(c) /\ Reading(c))'
    BY <1>1, <2>2, <2>3 DEF InItsCall, Kinds, Fresh, Clean, Reading, Working
  <2>5. \/ /\ event.kind = "done" /\ outcome' = [outcome EXCEPT ![c] = "ok"]
           /\ usage' = [usage EXCEPT ![c] = state.performance]
        \/ outcome' = [outcome EXCEPT ![c] = "raised"] /\ UNCHANGED usage
    BY <1>10 DEF Drain
  <2>6. Settled(c)'
    <3>1. CASE event.kind = "done" /\ outcome' = [outcome EXCEPT ![c] = "ok"]
               /\ usage' = [usage EXCEPT ![c] = state.performance]
      <4>1. outcome'[c] = "ok" /\ usage'[c] = state.performance
        BY <3>1 DEF TypeOK, ClientTypes
      <4>2. Len(text[c]) + 1 = made[c].pieces + 1 /\ made[c].erred = FALSE /\ state.performance = c
        BY <1>1, <1>4, <1>5, <2>3, <3>1 DEF Reading
      <4>3. Len(text[c]) = made[c].pieces
        BY <1>2, <4>2, LenProperties DEF TypeOK, InferTypes
      <4> QED
        BY <1>1, <1>5, <2>1, <2>2, <4>1, <4>2, <4>3 DEF Settled
    <3>2. CASE outcome' = [outcome EXCEPT ![c] = "raised"] /\ UNCHANGED usage
      <4>1. outcome'[c] = "raised"
        BY <3>2 DEF TypeOK, ClientTypes
      <4> QED
        BY <1>1, <1>5, <2>1, <2>2, <4>1 DEF Settled
    <3> QED
      BY <2>5, <3>1, <3>2
  <2>7. Good(c)'
    BY <2>4, <2>6 DEF Good
  <2>8. ASSUME NEW d \in Callers, d # c PROVE Good(d)'
    <3>1. outcome'[d] = outcome[d] /\ usage'[d] = usage[d]
      BY <2>5, <2>8 DEF TypeOK, ClientTypes
    <3> QED
      BY <1>8, <2>1, <2>2, <2>8, <3>1
  <2> QED
    BY <1>7, <2>7, <2>8
<1> QED
  BY <1>9, <1>10

-----------------------------------------------------------------------------
(* The steps inside infer: c holds the lock, and nobody else is in a call. *)

LEMMA CheckKept ==
  ASSUME TypeOK, LockHeld, Kept, patient, NEW c \in Callers, Check(c)
  PROVE  (\A d \in Callers : Good(d)') /\ FdKept' /\ CloseKept'
<1>1. /\ ipc[c] = "check" /\ UNCHANGED <<pc, outcome, text, usage, mailbox, state, fd1, saved, made, closed, handle>>
      /\ \/ ipc' = [ipc EXCEPT ![c] = "failed"]
         \/ ~closed /\ ipc' = [ipc EXCEPT ![c] = "reset"]
  BY DEF Check, clientVars, closeVars
<1>2. /\ ipc'[c] \in {"failed", "reset"} /\ (ipc'[c] = "reset" => ~closed)
      /\ \A d \in Callers : d # c => ipc'[d] = ipc[d]
  BY <1>1 DEF TypeOK, InferTypes
<1>3. Good(c) /\ pc[c] \in {"infer", "drain", "yield"}
  BY <1>1 DEF Kept, Good, InItsCall, Working
<1>4. Good(c)'
  <2>1. (InItsCall(c) /\ Kinds(c) /\ Fresh(c) /\ Clean(c) /\ Settled(c))'
    BY <1>1, <1>2, <1>3 DEF Good, InItsCall, Kinds, Fresh, Clean, Settled
  <2>2. Reading(c)'
    BY <1>1, <1>2, <1>3 DEF Good, Reading
  <2> QED
    BY <2>1, <2>2 DEF Good
<1>5. ASSUME NEW d \in Callers, d # c PROVE Good(d)'
  BY <1>1, <1>2, <1>5, OtherKept DEF Kept
<1>6. FdKept' /\ CloseKept'
  BY <1>1, <1>2 DEF Kept, FdKept, CloseKept
<1> QED
  BY <1>4, <1>5, <1>6

LEMMA ResetKept ==
  ASSUME TypeOK, LockHeld, Kept, patient, NEW c \in Callers, Reset(c)
  PROVE  (\A d \in Callers : Good(d)') /\ FdKept' /\ CloseKept'
<1>1. /\ ipc[c] = "reset" /\ UNCHANGED <<pc, outcome, text, usage, mailbox, fd1, saved, made, closed, handle>>
      /\ ipc' = [ipc EXCEPT ![c] = "redirect"]
      /\ state'.sink = (IF c \in Streamers THEN c ELSE None)
      /\ state'.chunks = << >> /\ state'.error = FALSE
  BY DEF Reset, NewState, clientVars, closeVars
<1>2. ipc'[c] = "redirect" /\ \A d \in Callers : d # c => ipc'[d] = ipc[d]
  BY <1>1 DEF TypeOK, InferTypes
<1>3. /\ pc[c] \in {"infer", "drain", "yield"}
      /\ \A d \in Callers : d # c => pc[d] \notin Held /\ ipc[d] \notin Working
  BY <1>1, OneCall DEF Working
<1>4. Good(c)'
  <2>1. Good(c)
    BY DEF Kept
  <2>2. made[c].pieces = 0 /\ made[c].erred = FALSE
    BY <1>1, <2>1 DEF Good, Fresh
  <2>3. (InItsCall(c) /\ Kinds(c) /\ Fresh(c) /\ Settled(c))'
    BY <1>1, <1>2, <1>3, <2>1 DEF Good, InItsCall, Kinds, Fresh, Settled
  <2>4. Clean(c)'
    <3>1. Len(state'.chunks) = 0 /\ \A i \in 1 .. Len(state'.chunks) : state'.chunks[i] = c
      BY <1>1
    <3> QED
      BY <1>1, <1>2, <2>2, <3>1 DEF Clean
  <2>5. Reading(c)'
    BY <1>1, <1>2, <2>1 DEF Good, Reading
  <2> QED
    BY <2>3, <2>4, <2>5 DEF Good
<1>5. ASSUME NEW d \in Callers, d # c PROVE Good(d)'
  BY <1>1, <1>2, <1>3, <1>5, OtherKept DEF Kept
<1>6. FdKept' /\ CloseKept'
  BY <1>1, <1>2 DEF Kept, FdKept, CloseKept
<1> QED
  BY <1>4, <1>5, <1>6

(* fd 1 is stdout here, because nobody else is inside.                     *)
LEMMA RedirectKept ==
  ASSUME TypeOK, LockHeld, Kept, patient, NEW c \in Callers, Redirect(c)
  PROVE  (\A d \in Callers : Good(d)') /\ FdKept' /\ CloseKept'
<1>1. /\ ipc[c] = "redirect" /\ UNCHANGED <<pc, outcome, text, usage, mailbox, state, made, closed, handle>>
      /\ ipc' = [ipc EXCEPT ![c] = "inside"] /\ saved' = [saved EXCEPT ![c] = fd1]
  BY DEF Redirect, clientVars, closeVars
<1>2. /\ ipc'[c] = "inside" /\ saved'[c] = fd1
      /\ \A d \in Callers : d # c => ipc'[d] = ipc[d] /\ saved'[d] = saved[d]
  BY <1>1 DEF TypeOK, InferTypes
<1>3. /\ pc[c] \in {"infer", "drain", "yield"}
      /\ \A d \in Callers : d # c => pc[d] \notin Held /\ ipc[d] \notin Working
  BY <1>1, OneCall DEF Working
<1>4. Good(c)'
  <2>1. Good(c)
    BY DEF Kept
  <2>2. (InItsCall(c) /\ Kinds(c) /\ Fresh(c) /\ Settled(c))'
    BY <1>1, <1>2, <1>3, <2>1 DEF Good, InItsCall, Kinds, Fresh, Settled
  <2>3. (Clean(c) /\ Reading(c))'
    BY <1>1, <1>2, <2>1 DEF Good, Clean, Reading
  <2> QED
    BY <2>2, <2>3 DEF Good
<1>5. ASSUME NEW d \in Callers, d # c PROVE Good(d)'
  BY <1>1, <1>2, <1>5, OtherKept DEF Kept
<1>6. FdKept'
  <2>1. \A d \in Callers : ipc[d] # "inside"
    BY <1>1, <1>3 DEF Working
  <2>2. fd1 = "stdout"
    BY <2>1 DEF Kept, FdKept
  <2> QED
    BY <1>2, <2>1, <2>2 DEF FdKept
<1>7. CloseKept'
  BY <1>1, <1>2 DEF Kept, CloseKept
<1> QED
  BY <1>4, <1>5, <1>6, <1>7

LEMMA ReturnKept ==
  ASSUME TypeOK, LockHeld, Kept, patient, NEW c \in Callers, Return(c)
  PROVE  (\A d \in Callers : Good(d)') /\ FdKept' /\ CloseKept'
<1>1. /\ ipc[c] = "inside" /\ fd1' = saved[c]
      /\ UNCHANGED <<pc, outcome, text, usage, mailbox, saved, made, closed, handle>>
      /\ \/ ipc' = [ipc EXCEPT ![c] = "back"] /\ state' = [state EXCEPT !.performance = c]
         \/ ipc' = [ipc EXCEPT ![c] = "failed"] /\ UNCHANGED state
  BY DEF Return, clientVars, closeVars
<1>2. /\ ipc'[c] \in {"back", "failed"}
      /\ \A d \in Callers : d # c => ipc'[d] = ipc[d]
      /\ ipc'[c] = "back" => state' = [state EXCEPT !.performance = c]
  BY <1>1 DEF TypeOK, InferTypes
<1>3. /\ pc[c] \in {"infer", "drain", "yield"}
      /\ \A d \in Callers : d # c => pc[d] \notin Held /\ ipc[d] \notin Working
  BY <1>1, OneCall DEF Working
<1>4. Good(c)'
  <2>1. Good(c)
    BY DEF Kept
  <2>2. (InItsCall(c) /\ Kinds(c) /\ Fresh(c) /\ Settled(c))'
    BY <1>1, <1>2, <1>3, <2>1 DEF Good, InItsCall, Kinds, Fresh, Settled
  <2>3. Reading(c)'
    BY <1>1, <1>2, <2>1 DEF Good, Reading
  <2>4. Clean(c)'
    <3> SUFFICES ASSUME ipc'[c] = "back" PROVE Clean(c)'
      BY <1>2 DEF Clean
    <3>1. /\ state'.sink = state.sink /\ state'.chunks = state.chunks /\ state'.error = state.error
          /\ state'.performance = c
      BY <1>2 DEF TypeOK, InferTypes
    <3> QED
      BY <1>1, <2>1, <3>1 DEF Good, Clean
  <2> QED
    BY <2>2, <2>3, <2>4 DEF Good
<1>5. ASSUME NEW d \in Callers, d # c PROVE Good(d)'
  BY <1>1, <1>2, <1>3, <1>5, OtherKept DEF Kept
<1>6. FdKept' /\ CloseKept'
  <2>1. saved[c] = "stdout"
    BY <1>1 DEF Kept, FdKept
  <2> QED
    BY <1>1, <1>2, <2>1 DEF Kept, FdKept, CloseKept
<1> QED
  BY <1>4, <1>5, <1>6

LEMMA CallbackErrorKept ==
  ASSUME TypeOK, LockHeld, Kept, patient, NEW c \in Callers, CallbackError(c)
  PROVE  (\A d \in Callers : Good(d)') /\ FdKept' /\ CloseKept'
<1>1. /\ ipc[c] = "inside" /\ UNCHANGED <<pc, outcome, text, usage, ipc, mailbox, fd1, saved, closed, handle>>
      /\ made' = [made EXCEPT ![c].erred = TRUE] /\ state' = [state EXCEPT !.error = TRUE]
  BY DEF CallbackError, clientVars, closeVars
<1>2. /\ made'[c].pieces = made[c].pieces /\ made'[c].erred = TRUE
      /\ \A d \in Callers : d # c => made'[d] = made[d]
  BY <1>1 DEF TypeOK, InferTypes
<1>3. state'.sink = state.sink /\ state'.chunks = state.chunks /\ state'.error = TRUE
  BY <1>1 DEF TypeOK, InferTypes
<1>4. /\ pc[c] \in {"infer", "drain", "yield"}
      /\ \A d \in Callers : d # c => pc[d] \notin Held /\ ipc[d] \notin Working
  BY <1>1, OneCall DEF Working
<1>5. Good(c)'
  <2>1. Good(c) /\ outcome[c] = "none"
    BY <1>4 DEF Kept, Good, Settled
  <2>2. (InItsCall(c) /\ Kinds(c) /\ Fresh(c) /\ Settled(c))'
    BY <1>1, <1>2, <1>4, <2>1 DEF Good, InItsCall, Kinds, Fresh, Settled
  <2>3. Reading(c)'
    BY <1>1, <1>2, <2>1 DEF Good, Reading
  <2>4. Clean(c)'
    BY <1>1, <1>2, <1>3, <2>1 DEF Good, Clean
  <2> QED
    BY <2>2, <2>3, <2>4 DEF Good
<1>6. ASSUME NEW d \in Callers, d # c PROVE Good(d)'
  BY <1>1, <1>2, <1>4, <1>6, OtherKept DEF Kept
<1>7. FdKept' /\ CloseKept'
  BY <1>1 DEF Kept, FdKept, CloseKept
<1> QED
  BY <1>5, <1>6, <1>7

(* A piece goes to the list, and to the queue of the one who is in a call. *)
LEMMA CallbackKept ==
  ASSUME TypeOK, LockHeld, Kept, patient, NEW c \in Callers, Callback(c)
  PROVE  (\A d \in Callers : Good(d)') /\ FdKept' /\ CloseKept'
<1>1. /\ ipc[c] = "inside" /\ UNCHANGED <<pc, outcome, text, usage, ipc, fd1, saved, closed, handle>>
      /\ made' = [made EXCEPT ![c].pieces = made[c].pieces + 1]
      /\ state' = [state EXCEPT !.chunks = Append(state.chunks, c)]
      /\ mailbox' = IF state.sink = None THEN mailbox
                    ELSE [mailbox EXCEPT ![state.sink] = Append(mailbox[state.sink], [kind |-> "chunk", of |-> c])]
  BY DEF Callback, clientVars, closeVars
<1>2. /\ made'[c].pieces = made[c].pieces + 1 /\ made'[c].erred = made[c].erred /\ made[c].pieces \in Nat
      /\ \A d \in Callers : d # c => made'[d] = made[d]
  BY <1>1 DEF TypeOK, InferTypes
<1>3. state'.sink = state.sink /\ state'.chunks = Append(state.chunks, c) /\ state'.error = state.error
  BY <1>1 DEF TypeOK, InferTypes
<1>4. /\ pc[c] \in {"infer", "drain", "yield"}
      /\ \A d \in Callers : d # c => pc[d] \notin Held /\ ipc[d] \notin Working
  BY <1>1, OneCall DEF Working
<1>5. /\ Good(c) /\ outcome[c] = "none" /\ Clean(c)
      /\ state.sink = IF c \in Streamers THEN c ELSE None
  BY <1>1, <1>4 DEF Kept, Good, Settled, Clean
<1>6. /\ c \in Streamers => mailbox'[c] = Append(mailbox[c], [kind |-> "chunk", of |-> c])
      /\ \A d \in Callers : d # c => mailbox'[d] = mailbox[d]
  <2>1. c # None
    OBVIOUS
  <2> QED
    BY <1>1, <1>5, <2>1 DEF TypeOK, InferTypes
<1>7. /\ Len(state'.chunks) = Len(state.chunks) + 1 /\ Len(state.chunks) \in Nat
      /\ \A i \in 1 .. Len(state.chunks) : state'.chunks[i] = state.chunks[i]
      /\ state'.chunks[Len(state.chunks) + 1] = c
  <2>1. state.chunks \in Seq(Callers)
    BY DEF TypeOK, InferTypes
  <2> QED
    BY <1>3, <2>1, Appended
<1>8. Good(c)'
  <2>1. (InItsCall(c) /\ Kinds(c) /\ Fresh(c) /\ Settled(c))'
    BY <1>1, <1>2, <1>4, <1>5 DEF Good, InItsCall, Kinds, Fresh, Settled
  <2>2. Clean(c)'
    <3>1. Len(state.chunks) = made[c].pieces /\ \A i \in 1 .. Len(state.chunks) : state.chunks[i] = c
      BY <1>1, <1>5 DEF Clean
    <3>2. \A i \in 1 .. Len(state'.chunks) : state'.chunks[i] = c
      <4> DEFINE m == Len(state.chunks)
      <4>1. /\ Len(state'.chunks) = m + 1 /\ m \in Nat
            /\ \A i \in 1 .. m : state'.chunks[i] = c
            /\ state'.chunks[m + 1] = c
        BY <1>7, <3>1
      <4> HIDE DEF m
      <4> QED
        BY <4>1
    <3>3. Len(state'.chunks) = made'[c].pieces
      BY <1>2, <1>7, <3>1
    <3> QED
      BY <1>1, <1>2, <1>3, <1>5, <3>2, <3>3 DEF Clean
  <2>3. Reading(c)'
    <3> SUFFICES ASSUME pc[c] \in {"drain", "yield"} PROVE Reading(c)'
      BY <1>1 DEF Reading
    <3> DEFINE n == Len(mailbox[c])
               e == [kind |-> "chunk", of |-> c]
    <3>1. c \in Streamers
      BY <1>5 DEF Good, Kinds
    <3>2. mailbox[c] \in Seq(Events) /\ e \in Events
      BY DEF TypeOK, InferTypes, Events
    <3>3. /\ Len(mailbox'[c]) = n + 1 /\ n \in Nat
          /\ \A i \in 1 .. n : mailbox'[c][i] = mailbox[c][i]
          /\ mailbox'[c][n + 1] = e
      BY <1>6, <3>1, <3>2, Appended
    <3>4. /\ Len(text[c]) + n = made[c].pieces
          /\ \A i \in 1 .. n : mailbox[c][i].of = c /\ mailbox[c][i].kind = "chunk"
      BY <1>1, <1>5 DEF Good, Reading
    <3>5. text[c] \in Seq(Callers)
      BY DEF TypeOK, ClientTypes
    <3>6. Len(text[c]) \in Nat
      BY <3>5, LenProperties
    <3>7. e.of = c /\ e.kind = "chunk"
      OBVIOUS
    <3> HIDE DEF n, e
    <3>8. \A i \in 1 .. Len(mailbox'[c]) : mailbox'[c][i].of = c /\ mailbox'[c][i].kind = "chunk"
      BY <3>3, <3>4, <3>7
    <3>9. Len(text[c]) + Len(mailbox'[c]) = made'[c].pieces
      BY <1>2, <3>3, <3>4, <3>6
    <3> QED
      BY <1>1, <3>8, <3>9 DEF Reading
  <2> QED
    BY <2>1, <2>2, <2>3 DEF Good
<1>9. ASSUME NEW d \in Callers, d # c PROVE Good(d)'
  BY <1>1, <1>2, <1>4, <1>6, <1>9, OtherKept DEF Kept
<1>10. FdKept' /\ CloseKept'
  BY <1>1 DEF Kept, FdKept, CloseKept
<1> QED
  BY <1>8, <1>9, <1>10

(* infer is over: a collected answer is the list, a stream's last event
   follows its pieces.                                                     *)
LEMMA DeliverKept ==
  ASSUME TypeOK, LockHeld, Kept, patient, NEW c \in Callers, Deliver(c)
  PROVE  (\A d \in Callers : Good(d)') /\ FdKept' /\ CloseKept'
<1>1. /\ ipc[c] \in {"back", "failed"} /\ ipc' = [ipc EXCEPT ![c] = "done"]
      /\ UNCHANGED <<state, fd1, saved, made, closed, handle>>
  BY DEF Deliver, closeVars
<1>2. ipc'[c] = "done" /\ \A d \in Callers : d # c => ipc'[d] = ipc[d]
  BY <1>1 DEF TypeOK, InferTypes
<1>3. /\ pc[c] \in {"infer", "drain", "yield"}
      /\ \A d \in Callers : d # c => pc[d] \notin Held /\ ipc[d] \notin Working
  BY <1>1, OneCall DEF Working
<1>4. /\ Good(c) /\ outcome[c] = "none"
      /\ ~Failed(c) => /\ state.performance = c /\ made[c].erred = FALSE
                       /\ Len(state.chunks) = made[c].pieces
                       /\ \A i \in 1 .. Len(state.chunks) : state.chunks[i] = c
  <2>1. Good(c) /\ outcome[c] = "none"
    BY <1>3 DEF Kept, Good, Settled
  <2>2. ASSUME ~Failed(c)
        PROVE  /\ state.performance = c /\ made[c].erred = FALSE
               /\ Len(state.chunks) = made[c].pieces
               /\ \A i \in 1 .. Len(state.chunks) : state.chunks[i] = c
    <3>1. ipc[c] = "back" /\ state.error # TRUE
      BY <1>1, <2>2 DEF Failed
    <3>2. made[c].erred \in BOOLEAN
      BY DEF TypeOK, InferTypes
    <3> QED
      BY <2>1, <3>1, <3>2 DEF Good, Clean
  <2> QED
    BY <2>1, <2>2
<1>5. FdKept' /\ CloseKept'
  BY <1>1, <1>2 DEF Kept, FdKept, CloseKept
<1>6. CASE c \in Streamers
  <2> DEFINE n == Len(mailbox[c])
             e == [kind |-> IF Failed(c) THEN "error" ELSE "done", of |-> c]
  <2>1. UNCHANGED <<pc, outcome, text, usage>> /\ mailbox' = [mailbox EXCEPT ![c] = Append(mailbox[c], e)]
    BY <1>6 DEF Deliver, clientVars
  <2>2. mailbox'[c] = Append(mailbox[c], e) /\ \A d \in Callers : d # c => mailbox'[d] = mailbox[d]
    BY <2>1 DEF TypeOK, InferTypes
  <2>3. mailbox[c] \in Seq(Events) /\ e \in Events
    BY DEF TypeOK, InferTypes, Events
  <2>4. /\ Len(mailbox'[c]) = n + 1 /\ n \in Nat
        /\ \A i \in 1 .. n : mailbox'[c][i] = mailbox[c][i]
        /\ mailbox'[c][n + 1] = e
    BY <2>2, <2>3, Appended
  <2>5. pc[c] \in {"drain", "yield"}
    BY <1>3, <1>4, <1>6 DEF Good, Kinds
  <2>6. /\ Len(text[c]) + n = made[c].pieces
        /\ \A i \in 1 .. n : mailbox[c][i].of = c /\ mailbox[c][i].kind = "chunk"
    BY <1>1, <1>4, <2>5 DEF Good, Reading
  <2>7. Len(text[c]) \in Nat
    BY LenProperties DEF TypeOK, ClientTypes
  <2>8. e.of = c /\ e.kind # "chunk" /\ (e.kind = "done" => ~Failed(c))
    OBVIOUS
  <2>9. Reading(c)'
    <3> HIDE DEF n, e
    <3>1. Len(mailbox'[c]) > 0 /\ mailbox'[c][Len(mailbox'[c])] = e
      BY <2>4
    <3>2. \A i \in 1 .. Len(mailbox'[c]) : mailbox'[c][i].of = c
      BY <2>4, <2>6, <2>8
    <3>3. \A i \in 1 .. Len(mailbox'[c]) - 1 : mailbox'[c][i].kind = "chunk"
      BY <2>4, <2>6
    <3>4. Len(text[c]) + Len(mailbox'[c]) = made[c].pieces + 1
      <4> DEFINE l == Len(text[c])
                 k == Len(mailbox'[c])
                 p == made[c].pieces
      <4>1. k = n + 1 /\ n \in Nat
        BY <2>4
      <4>2. l + n = p
        BY <2>6
      <4>3. l \in Nat
        BY <2>7
      <4> HIDE DEF l, k, p
      <4>4. l + k = p + 1
        BY <4>1, <4>2, <4>3
      <4> QED
        BY <4>4 DEF l, k, p
    <3>5. mailbox'[c][Len(mailbox'[c])].kind # "chunk"
      BY <2>8, <3>1
    <3>6. mailbox'[c][Len(mailbox'[c])].kind = "done" =>
            made'[c].erred = FALSE /\ state'.performance = c
      BY <1>1, <1>4, <2>8, <3>1
    <3>7. text' = text /\ made' = made
      BY <1>1, <2>1
    <3>8. Len(text'[c]) + Len(mailbox'[c]) = made'[c].pieces + 1 /\ ipc'[c] = "done"
      BY <1>2, <3>4, <3>7
    <3> DEFINE after == mailbox'[c]
    <3>9. /\ Len(after) > 0 /\ after[Len(after)].kind # "chunk"
          /\ \A i \in 1 .. Len(after) : after[i].of = c
          /\ \A i \in 1 .. Len(after) - 1 : after[i].kind = "chunk"
          /\ after[Len(after)].kind = "done" => made'[c].erred = FALSE /\ state'.performance = c
          /\ Len(text'[c]) + Len(after) = made'[c].pieces + 1
      BY <3>1, <3>2, <3>3, <3>5, <3>6, <3>8
    <3> QED
      BY <3>8, <3>9 DEF Reading
  <2>10. (InItsCall(c) /\ Kinds(c) /\ Fresh(c) /\ Clean(c) /\ Settled(c))'
    BY <1>1, <1>2, <1>4, <2>1, <2>5 DEF Good, InItsCall, Kinds, Fresh, Clean, Settled, Working
  <2>11. ASSUME NEW d \in Callers, d # c PROVE Good(d)'
    BY <1>1, <1>2, <2>1, <2>2, <2>11, OtherKept DEF Kept
  <2> QED
    BY <1>5, <2>9, <2>10, <2>11 DEF Good
<1>7. CASE c \notin Streamers
  <2>1. /\ pc' = [pc EXCEPT ![c] = "release"] /\ UNCHANGED mailbox
        /\ outcome' = [outcome EXCEPT ![c] = IF Failed(c) THEN "raised" ELSE "ok"]
        /\ IF Failed(c) THEN UNCHANGED <<text, usage>>
           ELSE /\ text' = [text EXCEPT ![c] = state.chunks]
                /\ usage' = [usage EXCEPT ![c] = state.performance]
    BY <1>7 DEF Deliver
  <2>2. /\ pc'[c] = "release" /\ outcome'[c] = (IF Failed(c) THEN "raised" ELSE "ok")
        /\ \A d \in Callers : d # c => /\ pc'[d] = pc[d] /\ outcome'[d] = outcome[d]
                                       /\ text'[d] = text[d] /\ usage'[d] = usage[d]
    BY <2>1 DEF TypeOK, ClientTypes
  <2>3. Settled(c)'
    <3>1. CASE Failed(c)
      <4>1. outcome'[c] = "raised" /\ text' = text /\ usage' = usage
        BY <2>1, <2>2, <3>1
      <4> QED
        BY <1>1, <1>4, <2>2, <4>1 DEF Good, Settled
    <3>2. CASE ~Failed(c)
      <4>1. text'[c] = state.chunks /\ usage'[c] = state.performance
        BY <2>1, <3>2 DEF TypeOK, ClientTypes
      <4> QED
        BY <1>1, <1>4, <2>2, <3>2, <4>1 DEF Settled
    <3> QED
      BY <3>1, <3>2
  <2>4. (InItsCall(c) /\ Kinds(c) /\ Fresh(c) /\ Clean(c) /\ Reading(c))'
    BY <1>1, <1>2, <2>2 DEF InItsCall, Kinds, Fresh, Clean, Reading, Working
  <2>5. ASSUME NEW d \in Callers, d # c PROVE Good(d)'
    BY <1>1, <1>2, <2>1, <2>2, <2>5, OtherKept DEF Kept
  <2> QED
    BY <1>5, <2>3, <2>4, <2>5 DEF Good
<1> QED
  BY <1>6, <1>7

-----------------------------------------------------------------------------
(* close.                                                                  *)

LEMMA CloseStepKept ==
  ASSUME TypeOK, LockHeld, Kept, patient, CloseCalled \/ CloserStep
  PROVE  (\A d \in Callers : Good(d)') /\ FdKept' /\ CloseKept'
<1>1. UNCHANGED <<clientVars, inferVars>>
  BY DEF CloseCalled, CloserStep, CloseLock, CloseEngine
<1>2. ASSUME NEW d \in Callers PROVE Good(d)'
  BY <1>1, OtherKept DEF Kept, clientVars, inferVars
<1>3. FdKept'
  BY <1>1 DEF Kept, FdKept, inferVars
<1>4. CASE CloseEngine
  <2>1. lock = Closer
    BY <1>4 DEF CloseEngine, LockHeld
  <2>2. \A d \in Callers : ipc[d] \notin Working
    BY <2>1, OneCall
  <2> QED
    BY <1>1, <1>2, <1>3, <1>4, <2>2 DEF CloseEngine, CloseKept, inferVars, Working
<1>5. CASE UNCHANGED <<closed, handle>>
  BY <1>1, <1>2, <1>3, <1>5 DEF Kept, CloseKept, inferVars
<1> QED
  BY <1>4, <1>5 DEF CloseCalled, CloserStep, CloseLock

-----------------------------------------------------------------------------
(* The lock.                                                               *)

LEMMA LockStays ==
  ASSUME TypeOK, LockHeld, NEW c \in Callers, NEW p,
         pc' = [pc EXCEPT ![c] = p], pc[c] \in Held <=> p \in Held, UNCHANGED <<lock, zpc>>
  PROVE  LockHeld'
<1>1. pc'[c] = p /\ \A d \in Callers : d # c => pc'[d] = pc[d]
  BY DEF TypeOK, ClientTypes
<1>2. ASSUME NEW d \in Callers PROVE pc'[d] \in Held <=> lock' = d
  <2>1. pc'[d] \in Held <=> pc[d] \in Held
    BY <1>1
  <2> QED
    BY <2>1 DEF LockHeld
<1> QED
  BY <1>2 DEF LockHeld

LEMMA CallerLock ==
  ASSUME TypeOK, LockHeld, NEW c \in Callers,
         Begin(c) \/ CallerStep(c) \/ StopMatched(c) \/ Disconnect(c)
  PROVE  LockHeld'
<1>1. CASE Begin(c)
  BY <1>1, LockStays DEF Begin, closeVars, Held
<1>2. CASE EnterQueue(c)
  BY <1>2, LockStays DEF EnterQueue, closeVars, Held
<1>3. CASE Acquire(c)
  <2>1. /\ lock = None /\ lock' = c /\ zpc' = zpc
        /\ pc' = [pc EXCEPT ![c] = IF c \in Streamers THEN "drain" ELSE "infer"]
    BY <1>3 DEF Acquire, closeVars
  <2>2. pc'[c] \in Held /\ \A d \in Callers : d # c => pc'[d] = pc[d]
    BY <2>1 DEF TypeOK, ClientTypes, Held
  <2>3. \A d \in Callers : pc[d] \notin Held
    BY <2>1 DEF LockHeld
  <2>4. zpc # "locked" /\ c # Closer
    BY <2>1 DEF LockHeld
  <2> QED
    BY <2>1, <2>2, <2>3, <2>4 DEF LockHeld
<1>4. CASE Drain(c)
  <2>1. pc[c] \in Held /\ UNCHANGED <<lock, zpc>>
    BY <1>4 DEF Drain, closeVars, Held
  <2>2. PICK p \in Held : pc' = [pc EXCEPT ![c] = p]
    BY <1>4 DEF Drain, Held
  <2> QED
    BY <2>1, <2>2, LockStays
<1>5. CASE Resume(c)
  BY <1>5, LockStays DEF Resume, closeVars, Held
<1>6. CASE Release(c)
  <2>1. pc[c] = "release" /\ lock' = None /\ pc' = [pc EXCEPT ![c] = "leave"] /\ zpc' = zpc
    BY <1>6 DEF Release, closeVars
  <2>2. pc'[c] \notin Held /\ \A d \in Callers : d # c => pc'[d] = pc[d]
    BY <2>1 DEF TypeOK, ClientTypes, Held
  <2>3. lock = c
    BY <2>1 DEF LockHeld, Held
  <2>4. zpc # "locked" /\ \A d \in Callers : d # c => pc[d] \notin Held
    BY <2>3 DEF LockHeld
  <2> QED
    BY <2>1, <2>2, <2>4 DEF LockHeld
<1>7. CASE LeaveQueue(c)
  BY <1>7, LockStays DEF LeaveQueue, closeVars, Held
<1>8. CASE Clear(c)
  BY <1>8, LockStays DEF Clear, closeVars, Held
<1>9. CASE StopMatched(c)
  BY <1>9, LockStays DEF StopMatched, closeVars, Held
<1>10. CASE Disconnect(c)
  BY <1>10, LockStays DEF Disconnect, closeVars, Held
<1> QED
  BY <1>1, <1>2, <1>3, <1>4, <1>5, <1>6, <1>7, <1>8, <1>9, <1>10 DEF CallerStep

(* Only the call of a collected answer moves its caller, which has the
   lock while it is in the call.                                           *)
LEMMA InferLock ==
  ASSUME TypeOK, LockHeld, Kept, patient, NEW c \in Callers,
         InferStep(c) \/ Callback(c) \/ CallbackError(c)
  PROVE  LockHeld'
<1>1. ASSUME UNCHANGED <<pc, lock, zpc>> PROVE LockHeld'
  BY <1>1 DEF LockHeld
<1>2. CASE Check(c) \/ Reset(c) \/ Redirect(c) \/ Return(c) \/ Callback(c) \/ CallbackError(c)
  BY <1>1, <1>2 DEF Check, Reset, Redirect, Return, Callback, CallbackError, clientVars, closeVars
<1>3. CASE Deliver(c)
  <2>1. UNCHANGED <<lock, zpc>> /\ pc[c] \in Held
    BY <1>3, OneCall DEF Deliver, closeVars, Working, Held
  <2>2. CASE c \in Streamers
    BY <1>1, <1>3, <2>1, <2>2 DEF Deliver, clientVars
  <2>3. CASE c \notin Streamers
    BY <1>3, <2>1, <2>3, LockStays DEF Deliver, Held
  <2> QED
    BY <2>2, <2>3
<1> QED
  BY <1>2, <1>3 DEF InferStep

LEMMA CloserLock ==
  ASSUME TypeOK, LockHeld, CloseCalled \/ CloserStep
  PROVE  LockHeld'
<1>1. pc' = pc
  BY DEF CloseCalled, CloserStep, CloseLock, CloseEngine, clientVars
<1>2. Closer # None
  OBVIOUS
<1>3. CASE CloseCalled
  BY <1>1, <1>3 DEF CloseCalled, LockHeld
<1>4. CASE CloseLock
  BY <1>1, <1>4 DEF CloseLock, LockHeld
<1>5. CASE CloseEngine
  BY <1>1, <1>2, <1>5 DEF CloseEngine, LockHeld
<1> QED
  BY <1>3, <1>4, <1>5 DEF CloserStep

-----------------------------------------------------------------------------
(* The theorems.                                                           *)

Ruled == patient => LockHeld /\ Kept

LEMMA RuledInit == Init => Ruled
<1> SUFFICES ASSUME Init PROVE LockHeld /\ Kept
  BY DEF Ruled
<1>1. LockHeld
  BY DEF Init, LockHeld, Held
<1>2. \A c \in Callers : Good(c)
  <2> SUFFICES ASSUME NEW c \in Callers PROVE Good(c)
    OBVIOUS
  <2>1. /\ pc[c] \in {"idle", "ended"} /\ ipc[c] = "none" /\ outcome[c] = "none"
        /\ text[c] = << >> /\ mailbox[c] = << >> /\ made[c] = [pieces |-> 0, erred |-> FALSE]
    BY DEF Init
  <2>2. made[c].pieces = 0 /\ made[c].erred = FALSE
    BY <2>1
  <2>3. InItsCall(c) /\ Kinds(c) /\ Clean(c) /\ Reading(c)
    BY <2>1 DEF InItsCall, Kinds, Clean, Reading, Working
  <2>4. Fresh(c)
    BY <2>1, <2>2 DEF Fresh
  <2>5. Len(text[c]) = 0
    BY <2>1
  <2>6. Settled(c)
    BY <2>1, <2>5 DEF Settled
  <2> QED
    BY <2>3, <2>4, <2>6 DEF Good
<1>3. FdKept /\ CloseKept
  BY DEF Init, FdKept, CloseKept
<1> QED
  BY <1>1, <1>2, <1>3 DEF Kept

(* Release, LeaveQueue and Clear come after the call.                      *)
LEMMA CallerKept ==
  ASSUME TypeOK, TypeOK', LockHeld, Kept, patient, NEW c \in Callers,
         Begin(c) \/ CallerStep(c) \/ StopMatched(c) \/ Disconnect(c)
  PROVE  Kept'
<1> SUFFICES (\A d \in Callers : Good(d)') /\ FdKept' /\ CloseKept'
  BY DEF Kept
<1>1. pc[c] \notin {"infer", "drain", "yield"} => ipc[c] \notin Working
  BY DEF Kept, Good, InItsCall
<1>2. CASE Begin(c)
  BY <1>1, <1>2, MovedOn DEF Begin, closeVars
<1>3. CASE EnterQueue(c)
  BY <1>1, <1>3, MovedOn DEF EnterQueue, closeVars
<1>4. CASE Acquire(c)
  BY <1>4, AcquireKept
<1>5. CASE Drain(c)
  BY <1>5, DrainKept
<1>6. CASE Resume(c)
  BY <1>6, ResumeKept
<1>7. CASE Release(c)
  BY <1>1, <1>7, MovedOn DEF Release, closeVars
<1>8. CASE LeaveQueue(c)
  BY <1>1, <1>8, MovedOn DEF LeaveQueue, closeVars
<1>9. CASE Clear(c)
  BY <1>1, <1>9, MovedOn DEF Clear, closeVars
<1> QED
  BY <1>2, <1>3, <1>4, <1>5, <1>6, <1>7, <1>8, <1>9 DEF CallerStep, StopMatched, Disconnect

LEMMA InferKept ==
  ASSUME TypeOK, LockHeld, Kept, patient, NEW c \in Callers,
         InferStep(c) \/ Callback(c) \/ CallbackError(c)
  PROVE  Kept'
BY CheckKept, ResetKept, RedirectKept, CallbackKept, CallbackErrorKept, ReturnKept, DeliverKept
   DEF InferStep, Kept

LEMMA RuledStep == TypeOK /\ TypeOK' /\ Ruled /\ [Next]_vars => Ruled'
<1> SUFFICES ASSUME TypeOK, TypeOK', LockHeld, Kept, patient, [Next]_vars
             PROVE  LockHeld' /\ Kept'
  <2>1. ASSUME [Next]_vars PROVE patient' = patient
    <3>1. Ended => UNCHANGED vars
      BY DEF Ended
    <3>2. UNCHANGED vars => patient' = patient
      BY DEF vars
    <3> QED
      BY <2>1, <3>1, <3>2 DEF Next, Steady
  <2>2. ASSUME TypeOK, TypeOK', Ruled, [Next]_vars, patient' PROVE LockHeld' /\ Kept'
    <3>1. patient
      BY <2>1, <2>2, Zenon
    <3> QED
      BY <2>2, <3>1 DEF Ruled
  <2> QED
    BY <2>2, Zenon DEF Ruled
<1>1. ASSUME UNCHANGED vars PROVE LockHeld' /\ Kept'
  <2>1. LockHeld'
    BY <1>1 DEF vars, LockHeld, clientVars, closeVars
  <2>2. \A d \in Callers : Good(d)'
    BY <1>1, OtherKept DEF vars, clientVars, inferVars, Kept
  <2>3. FdKept' /\ CloseKept'
    BY <1>1 DEF vars, inferVars, closeVars, Kept, FdKept, CloseKept
  <2> QED
    BY <2>1, <2>2, <2>3 DEF Kept
<1>2. ASSUME NEW c \in Callers, Begin(c) \/ CallerStep(c) \/ StopMatched(c) \/ Disconnect(c)
      PROVE  LockHeld' /\ Kept'
  BY <1>2, CallerLock, CallerKept
<1>3. ASSUME NEW c \in Callers, InferStep(c) \/ Callback(c) \/ CallbackError(c)
      PROVE  LockHeld' /\ Kept'
  BY <1>3, InferLock, InferKept
<1>4. ASSUME CloseCalled \/ CloserStep PROVE LockHeld' /\ Kept'
  BY <1>4, CloserLock, CloseStepKept DEF Kept
<1>5. Ended => UNCHANGED vars
  BY DEF Ended
<1> QED
  BY <1>1, <1>2, <1>3, <1>4, <1>5 DEF Next, Steady

(* While every client reads its stream to the end, whoever is inside infer
   holds the lock (_lock is taken around it in _run and in stream), the
   shared dict holds that call's pieces and no other's, and a destroyed
   session is entered by nobody.                                           *)
THEOREM Invariance == Spec => [](TypeOK /\ Ruled)
<1>1. Init => TypeOK /\ Ruled
  BY TypeInit, RuledInit
<1>2. TypeOK /\ Ruled /\ [Next]_vars => TypeOK' /\ Ruled'
  BY TypeStep, RuledStep
<1> QED
  BY <1>1, <1>2, PTL DEF Spec

(* No prompt's tokens are interleaved into another's answer: an answer of
   _run or stream is made of its own call's pieces, and one that reports its
   usage is whole and reports its own.                                     *)
THEOREM PatientAnswers == Spec => []PatientAnswersAreOwn
<1>1. TypeOK /\ Ruled => PatientAnswersAreOwn
  <2> SUFFICES ASSUME TypeOK, Ruled, patient, NEW c \in Callers PROVE Own(c)
    BY DEF PatientAnswersAreOwn, AnswersAreOwn
  <2>1. Settled(c)
    BY DEF Ruled, Kept, Good
  <2>2. text[c] \in Seq(Callers)
    BY DEF TypeOK, ClientTypes
  <2>3. DOMAIN text[c] = 1 .. Len(text[c])
    BY <2>2, LenProperties
  <2> QED
    BY <2>1, <2>3 DEF Settled, Own
<1> QED
  BY <1>1, Invariance, PTL

(* quiet_delegate_stdout puts fd 1 back, however many calls redirect it:
   with none in progress it is the process's own stdout.                   *)
THEOREM StdoutIsPutBack == Spec => []StdoutPutBack
<1>1. TypeOK /\ Ruled => StdoutPutBack
  BY DEF Ruled, Kept, FdKept, StdoutPutBack, Inside
<1> QED
  BY <1>1, Invariance, PTL

(* close destroys the session under the lock, after which no call gets past
   the check: the session is never destroyed with a call inside it.        *)
THEOREM DestroyedByItself == Spec => []DestroyedAlone
<1>1. TypeOK /\ Ruled => DestroyedAlone
  BY DEF Ruled, Kept, CloseKept, DestroyedAlone, Inside
<1> QED
  BY <1>1, Invariance, PTL
=============================================================================
