------------------------------- MODULE Watchdog -------------------------------
(***************************************************************************)
(* `run_watchdogged` (watchdog.py): a child process writes its stdout to a *)
(* file, the watcher polls the child and tails the file, forwards what is  *)
(* new, and kills a child that is silent for the stall window.             *)
(*                                                                         *)
(* Time is counted in poll intervals.  The watcher's own steps take none;  *)
(* a sleep takes one, or more on a busy or a suspended host.  A character  *)
(* of the stream is one byte, "a", or two, "e1" and "e2".                  *)
(***************************************************************************)
EXTENDS Integers, SequencesExt

CONSTANTS
  Stall,     \* stall_seconds
  HardCap,   \* hard_cap_seconds; 0 for None
  MaxBytes   \* bound: bytes the child writes

ASSUME WatchdogAssumption ==
  Stall \in Nat \ {0} /\ HardCap \in Nat /\ MaxBytes \in Nat

VARIABLES
  child,     \* "running", or how it ended: "ok", "error" or "killed"
  file,      \* the bytes of stream_path
  at,        \* where the watcher is
  code,      \* the loop's `code`: the child has been seen to have ended
  consumed,  \* bytes forwarded
  partial,   \* the incremental decoder holds the first half of a character
  out,       \* what was written to the caller's stdout
  silent,    \* time since last_progress
  age,       \* time since start
  stalled,   \* the outcome's `stalled`
  exit,      \* the outcome's exit_code
  quiet,     \* the child's: time since its last write
  longest    \* the child's: its longest time between two writes

childVars == <<child, file>>
tailVars  == <<consumed, partial, out>>
timeVars  == <<silent, age, quiet, longest>>
endVars   == <<stalled, exit>>
watchVars == <<childVars, at, code, tailVars, timeVars, endVars>>

WatchInit ==
  /\ child = "running" /\ file = << >>
  /\ at = "poll" /\ code = FALSE
  /\ consumed = 0 /\ partial = FALSE /\ out = << >>
  /\ silent = 0 /\ age = 0 /\ quiet = 0 /\ longest = 0
  /\ stalled = FALSE /\ exit = "none"

-----------------------------------------------------------------------------
(* The child.                                                              *)

HalfAChar(bytes) == bytes # << >> /\ bytes[Len(bytes)] = "e1"

ChildWrites ==
  /\ child = "running" /\ Len(file) < MaxBytes
  /\ \E b \in IF HalfAChar(file) THEN {"e2"} ELSE {"a", "e1"} : file' = Append(file, b)
  /\ quiet' = 0
  /\ UNCHANGED <<child, at, code, tailVars, silent, age, longest, endVars>>

ChildEnds ==
  /\ child = "running"
  /\ child' \in {"ok", "error"}
  /\ UNCHANGED <<file, at, code, tailVars, timeVars, endVars>>

-----------------------------------------------------------------------------
(* The watcher's loop.                                                     *)

Poll ==
  /\ at = "poll"
  /\ code' = (child # "running")
  /\ at' = "read"
  /\ UNCHANGED <<childVars, tailVars, timeVars, endVars>>

(* The characters that end in `bytes`; at the end half a character counts. *)
Completed(bytes) ==
  FlattenSeq([i \in DOMAIN bytes |-> IF bytes[i] = "e1" THEN << >> ELSE <<bytes[i]>>])

Chars(bytes, final) ==
  Completed(bytes) \o (IF final /\ HalfAChar(bytes) THEN <<"?">> ELSE << >>)

(* Wrong variant of Decoded: every read is decoded by itself.              *)
Decoded_Stateless(new, final) == Chars(new, TRUE)

(* What the incremental decoder returns for `new`.                         *)
Decoded(new, final) ==
  Chars(IF new = << >> /\ partial THEN <<"e1">> ELSE new, final)

(* Read from `consumed`, decode, write.                                    *)
Forward(final) ==
  LET new == SubSeq(file, consumed + 1, Len(file))
  IN  /\ consumed' = Len(file)
      /\ out' = out \o Decoded(new, final)
      /\ partial' = IF new = << >> THEN partial /\ ~final ELSE ~final /\ HalfAChar(new)

(* Wrong variant of Read: progress is what can be shown, and half a
   character cannot.                                                       *)
Read_IfText ==
  /\ at = "read"
  /\ Forward(FALSE)
  /\ silent' = IF Len(out') > Len(out) THEN 0 ELSE silent
  /\ at' = "judge"
  /\ UNCHANGED <<childVars, code, age, quiet, longest, endVars>>

Read ==
  /\ at = "read"
  /\ Forward(FALSE)
  /\ silent' = IF consumed' > consumed THEN 0 ELSE silent
  /\ at' = "judge"
  /\ UNCHANGED <<childVars, code, age, quiet, longest, endVars>>

Judge ==
  /\ at = "judge"
  /\ stalled' = (~code /\ (silent >= Stall \/ (HardCap > 0 /\ age >= HardCap)))
  /\ at' = IF code THEN "wait" ELSE IF stalled' THEN "kill" ELSE "sleep"
  /\ UNCHANGED <<childVars, code, tailVars, timeVars, exit>>

(* Times are capped where the watcher no longer tells them apart.          *)
Later(t) == IF t > Stall + HardCap THEN t ELSE t + 1

TimePasses ==
  /\ silent' = Later(silent) /\ age' = Later(age) /\ quiet' = Later(quiet)
  /\ longest' = IF child = "running" /\ quiet' > longest THEN quiet' ELSE longest
  /\ UNCHANGED <<childVars, code, tailVars, endVars>>

Sleep == at = "sleep" /\ at' = "poll" /\ TimePasses
OverSleep == at = "sleep" /\ UNCHANGED at /\ TimePasses

(* Wrong variant of Kill: the signal does not reach the child.             *)
Kill_Misses ==
  /\ at = "kill"
  /\ at' = "wait"
  /\ UNCHANGED <<child, file, code, tailVars, timeVars, endVars>>

(* killpg, SIGKILL.                                                        *)
Kill ==
  /\ at = "kill"
  /\ child' = IF child = "running" THEN "killed" ELSE child
  /\ at' = "wait"
  /\ UNCHANGED <<file, code, tailVars, timeVars, endVars>>

(* An exception in the loop: Ctrl-C, or the caller's stdout has gone.      *)
Interrupt ==
  /\ at \in {"poll", "read", "judge", "sleep", "kill"}
  /\ at' = "interrupted"
  /\ UNCHANGED <<childVars, code, tailVars, timeVars, endVars>>

(* The finally after an exception: wait ten seconds, kill, and drain.      *)
WaitTen ==
  /\ at = "interrupted"
  /\ child' = IF child = "running" THEN "killed" ELSE child
  /\ Forward(TRUE)
  /\ at' = "raised"
  /\ UNCHANGED <<file, code, timeVars, endVars>>

(* The child is waited for, the file drained and the outcome made.         *)
Finish ==
  /\ at = "wait" /\ child # "running"
  /\ Forward(TRUE)
  /\ exit' = IF stalled THEN "killed" ELSE child
  /\ at' = "done"
  /\ UNCHANGED <<childVars, code, timeVars, stalled>>

Over == at \in {"done", "raised"} /\ UNCHANGED watchVars

WatcherStep == Poll \/ Read \/ Judge \/ Sleep \/ Kill \/ WaitTen \/ Finish

WatchNext == WatcherStep \/ OverSleep \/ Interrupt \/ ChildWrites \/ ChildEnds \/ Over

WatchSpec == WatchInit /\ [][WatchNext]_watchVars

(* The watcher runs; the child need never write or end.                    *)
WatchFairness == WF_watchVars(WatcherStep) /\ WF_watchVars(Sleep)

-----------------------------------------------------------------------------
(* Properties.                                                             *)

WatchTypeOK ==
  /\ child \in {"running", "ok", "error", "killed"}
  /\ file \in Seq({"a", "e1", "e2"}) /\ out \in Seq({"a", "e2", "?"})
  /\ at \in {"poll", "read", "judge", "sleep", "kill", "wait", "interrupted", "done", "raised"}
  /\ consumed \in 0 .. Len(file) /\ Len(out) <= consumed
  /\ {code, partial, stalled} \subseteq BOOLEAN
  /\ {silent, age, quiet, longest} \subseteq 0 .. Stall + HardCap + 1
  /\ exit \in {"none", "ok", "error", "killed"}

(* "the caller sees exactly what the unwatched command would have printed":
   when the watcher returns, everything the child wrote has been forwarded
   as one text, however the writes, reads and the kill fell.               *)
Transparent == at = "done" => out = Chars(file, TRUE)

(* "as long as the child keeps emitting decoded pieces it is making
   progress": only a child that has been silent for the window is killed as
   stalled, whatever the polls have seen of it.                            *)
NeverKillsProgress ==
  stalled /\ (HardCap = 0 \/ age < HardCap) => longest >= Stall

(* "When False the child exited on its own and exit_code is its real
   status"; and a child is never left running, by an exception neither.    *)
ExitIsItsOwn ==
  /\ at = "done" /\ ~stalled => child \in {"ok", "error"} /\ exit = child
  /\ at \in {"done", "raised"} => child # "running"

(* What the watcher reports of a child is what became of it.               *)
OutcomeIsTrue == NeverKillsProgress /\ ExitIsItsOwn

(* A hung child does not hang the watcher.                                 *)
WatchEnds == <>(at \in {"done", "raised"})

=============================================================================
