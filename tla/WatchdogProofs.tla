---------------------------- MODULE WatchdogProofs ----------------------------
(***************************************************************************)
(* What the outcome of a watched child says is true for every stall window *)
(* and every hard cap, however the polls, the reads, the child's writes    *)
(* and its end fall.                                                       *)
(***************************************************************************)
EXTENDS Watchdog, SequenceLemmas

USE WatchdogAssumption

Times == 0 .. Stall + HardCap + 1

Typed ==
  /\ child \in {"running", "ok", "error", "killed"}
  /\ file \in Seq({"a", "e1", "e2"}) /\ consumed \in 0 .. Len(file)
  /\ at \in {"poll", "read", "judge", "sleep", "kill", "wait", "interrupted", "done", "raised"}
  /\ code \in BOOLEAN /\ stalled \in BOOLEAN
  /\ silent \in Times /\ age \in Times /\ quiet \in Times /\ longest \in Times

(* The child's own silence is at least what the watcher has counted, if it
   has read everything; what it counted up to its last read the child has
   been silent for, also when it has written or ended since.               *)
SilenceIsReal ==
  /\ consumed = Len(file) /\ at \in {"poll", "read", "judge", "sleep"} => quiet >= silent
  /\ child = "running" => longest >= quiet
  /\ at = "read" /\ ~code => longest >= quiet
  /\ at = "judge" /\ ~code => longest >= silent

(* Between the judgement and the outcome nothing is judged again.          *)
JudgedOnce ==
  /\ stalled => at \in {"kill", "wait", "interrupted", "done", "raised"}
  /\ at = "kill" => stalled
  /\ at \in {"wait", "done"} => stalled \/ code

EndIsKnown ==
  /\ code => child # "running"
  /\ at \in {"wait", "done", "raised"} => child # "running"
  /\ child = "killed" => stalled \/ at = "raised"
  /\ at = "done" /\ ~stalled => exit = child

IInv == Typed /\ SilenceIsReal /\ JudgedOnce /\ EndIsKnown /\ NeverKillsProgress

-----------------------------------------------------------------------------
LEMMA IInvInit == WatchInit => IInv
<1> SUFFICES ASSUME WatchInit PROVE IInv
  OBVIOUS
<1>1. Len(<< >>) = 0 /\ << >> \in Seq({"a", "e1", "e2"})
  OBVIOUS
<1>2. Typed
  <2>1. Len(file) = 0 /\ file \in Seq({"a", "e1", "e2"}) /\ consumed = 0
    BY <1>1 DEF WatchInit
  <2>2. 0 \in Times /\ consumed \in 0 .. Len(file)
    BY <2>1 DEF Times
  <2>3. code = FALSE /\ stalled = FALSE /\ silent = 0 /\ age = 0 /\ quiet = 0 /\ longest = 0
    BY DEF WatchInit
  <2> QED
    BY <2>1, <2>2, <2>3 DEF WatchInit, Typed
<1>3. SilenceIsReal
  BY DEF WatchInit, SilenceIsReal
<1>4. JudgedOnce /\ EndIsKnown /\ NeverKillsProgress
  BY DEF WatchInit, JudgedOnce, EndIsKnown, NeverKillsProgress
<1> QED
  BY <1>2, <1>3, <1>4 DEF IInv

LEMMA LaterIsLater ==
  ASSUME NEW t \in Times
  PROVE  /\ Later(t) \in Times /\ Later(t) >= t
         /\ \A s \in Times : s <= t => Later(s) <= Later(t)
BY DEF Later, Times

LEMMA LenOfFile == Typed => Len(file) \in Nat
BY LenProperties DEF Typed

(* The child writes, or ends, at any point of the loop.                    *)
LEMMA ChildKeeps ==
  ASSUME IInv, ChildWrites \/ ChildEnds
  PROVE  IInv'
<1>1. CASE ChildWrites
  <2>1. PICK b \in {"a", "e1", "e2"} : file' = Append(file, b)
    BY <1>1 DEF ChildWrites
  <2>2. file' \in Seq({"a", "e1", "e2"}) /\ Len(file') = Len(file) + 1 /\ Len(file) \in Nat
    BY <2>1, AppendProperties, LenOfFile DEF IInv, Typed
  <2>3. /\ child = "running" /\ quiet' = 0
        /\ UNCHANGED <<child, at, code, consumed, silent, age, longest, stalled, exit>>
    BY <1>1 DEF ChildWrites, tailVars, endVars
  <2>4. Typed'
    BY <2>2, <2>3 DEF IInv, Typed, Times
  <2>5. SilenceIsReal'
    BY <2>2, <2>3 DEF IInv, Typed, Times, SilenceIsReal
  <2> QED
    BY <2>3, <2>4, <2>5 DEF IInv, JudgedOnce, EndIsKnown, NeverKillsProgress
<1>2. CASE ChildEnds
  BY <1>2 DEF ChildEnds, tailVars, timeVars, endVars, IInv, Typed, SilenceIsReal, JudgedOnce,
              EndIsKnown, NeverKillsProgress
<1> QED
  BY <1>1, <1>2

LEMMA PollKeeps ==
  ASSUME IInv, Poll
  PROVE  IInv'
<1>1. /\ at = "poll" /\ at' = "read" /\ code' = (child # "running")
      /\ UNCHANGED <<child, file, consumed, silent, age, quiet, longest, stalled, exit>>
  BY DEF Poll, childVars, tailVars, timeVars, endVars
<1>2. code' \in BOOLEAN /\ (code' <=> child # "running")
  BY <1>1
<1>3. Typed'
  BY <1>1, <1>2 DEF IInv, Typed
<1>4. SilenceIsReal'
  BY <1>1, <1>2 DEF IInv, SilenceIsReal
<1>5. JudgedOnce' /\ EndIsKnown' /\ NeverKillsProgress'
  BY <1>1, <1>2 DEF IInv, JudgedOnce, EndIsKnown, NeverKillsProgress
<1> QED
  BY <1>3, <1>4, <1>5 DEF IInv

(* What was new stops the count; with nothing new, the child has been
   silent for as long as the count says.                                   *)
LEMMA ReadKeeps ==
  ASSUME IInv, Read
  PROVE  IInv'
<1>1. /\ at = "read" /\ at' = "judge" /\ consumed' = Len(file)
      /\ silent' = IF consumed' > consumed THEN 0 ELSE silent
      /\ UNCHANGED <<child, file, code, age, quiet, longest, stalled, exit>>
  BY DEF Read, Forward, childVars, endVars
<1>2. Len(file) \in Nat /\ consumed \in 0 .. Len(file)
  BY LenOfFile DEF IInv, Typed
<1>3. Typed'
  BY <1>1, <1>2 DEF IInv, Typed, Times
<1>4. SilenceIsReal'
  <2>1. quiet >= silent'
    BY <1>1, <1>2 DEF IInv, SilenceIsReal, Typed, Times
  <2>2. ~code => longest >= quiet
    BY <1>1 DEF IInv, SilenceIsReal
  <2> QED
    BY <1>1, <1>3, <2>1, <2>2 DEF IInv, SilenceIsReal, Typed, Times
<1> QED
  BY <1>1, <1>3, <1>4 DEF IInv, JudgedOnce, EndIsKnown, NeverKillsProgress

LEMMA JudgeKeeps ==
  ASSUME IInv, Judge
  PROVE  IInv'
<1>1. /\ at = "judge" /\ UNCHANGED <<child, file, code, consumed, silent, age, quiet, longest, exit>>
      /\ stalled' = (~code /\ (silent >= Stall \/ (HardCap > 0 /\ age >= HardCap)))
      /\ at' = IF code THEN "wait" ELSE IF stalled' THEN "kill" ELSE "sleep"
  BY DEF Judge, childVars, tailVars, timeVars
<1>2. Typed' /\ SilenceIsReal' /\ JudgedOnce' /\ EndIsKnown'
  BY <1>1 DEF IInv, Typed, SilenceIsReal, JudgedOnce, EndIsKnown
<1>3. NeverKillsProgress'
  <2> SUFFICES ASSUME stalled', HardCap = 0 \/ age < HardCap PROVE longest >= Stall
    BY <1>1 DEF NeverKillsProgress
  <2>1. ~code /\ (silent >= Stall \/ (HardCap > 0 /\ age >= HardCap))
    BY <1>1
  <2>2. silent >= Stall
    BY <2>1 DEF IInv, Typed, Times
  <2> QED
    BY <1>1, <2>1, <2>2 DEF IInv, SilenceIsReal, Typed, Times
<1> QED
  BY <1>2, <1>3 DEF IInv

(* Time passes for the watcher and the child alike.                        *)
LEMMA SleepKeeps ==
  ASSUME IInv, Sleep \/ OverSleep
  PROVE  IInv'
<1>1. /\ at = "sleep" /\ at' \in {"poll", "sleep"} /\ ~stalled
      /\ silent' = Later(silent) /\ age' = Later(age) /\ quiet' = Later(quiet)
      /\ longest' = IF child = "running" /\ quiet' > longest THEN quiet' ELSE longest
      /\ UNCHANGED <<child, file, code, consumed, stalled, exit>>
  BY DEF Sleep, OverSleep, TimePasses, childVars, tailVars, endVars, IInv, JudgedOnce
<1>2. silent' \in Times /\ age' \in Times /\ quiet' \in Times
  BY <1>1, LaterIsLater DEF IInv, Typed
<1>3. Typed'
  BY <1>1, <1>2 DEF IInv, Typed
<1>4. consumed = Len(file) => quiet' >= silent'
  BY <1>1, <1>2, LaterIsLater DEF IInv, Typed, SilenceIsReal, Times
<1>5. SilenceIsReal'
  BY <1>1, <1>2, <1>4 DEF IInv, Typed, SilenceIsReal, Times
<1> QED
  BY <1>1, <1>3, <1>5 DEF IInv, JudgedOnce, EndIsKnown, NeverKillsProgress

LEMMA EndKeeps ==
  ASSUME IInv, Kill \/ Interrupt \/ WaitTen \/ Finish
  PROVE  IInv'
<1>1. CASE Kill
  BY <1>1 DEF Kill, tailVars, timeVars, endVars, IInv, Typed, SilenceIsReal, JudgedOnce, EndIsKnown,
              NeverKillsProgress
<1>2. CASE Interrupt
  BY <1>2 DEF Interrupt, childVars, tailVars, timeVars, endVars, IInv, Typed, SilenceIsReal, JudgedOnce,
              EndIsKnown, NeverKillsProgress
<1>3. CASE WaitTen \/ Finish
  <2>1. /\ consumed' = Len(file) /\ Len(file) \in Nat
        /\ UNCHANGED <<file, code, silent, age, quiet, longest, stalled>>
    BY <1>3, LenOfFile DEF WaitTen, Finish, Forward, childVars, timeVars, endVars, IInv
  <2>2. /\ at' \in {"done", "raised"} /\ child' # "running" /\ child' \in {child, "killed"}
        /\ child' = child \/ at' = "raised"
        /\ at' = "done" => at = "wait" /\ (~stalled => exit' = child')
    BY <1>3 DEF WaitTen, Finish, childVars, IInv, Typed
  <2>3. Typed'
    BY <2>1, <2>2 DEF IInv, Typed
  <2>4. SilenceIsReal' /\ NeverKillsProgress'
    BY <2>1, <2>2 DEF IInv, SilenceIsReal, NeverKillsProgress
  <2>5. JudgedOnce' /\ EndIsKnown'
    BY <2>1, <2>2 DEF IInv, Typed, JudgedOnce, EndIsKnown
  <2> QED
    BY <2>3, <2>4, <2>5 DEF IInv
<1> QED
  BY <1>1, <1>2, <1>3

LEMMA NextKeeps == IInv /\ [WatchNext]_watchVars => IInv'
<1> SUFFICES ASSUME IInv, [WatchNext]_watchVars PROVE IInv'
  OBVIOUS
<1>1. CASE UNCHANGED watchVars
  BY <1>1 DEF watchVars, childVars, tailVars, timeVars, endVars, IInv, Typed, SilenceIsReal, JudgedOnce,
              EndIsKnown, NeverKillsProgress
<1>2. Over => UNCHANGED watchVars
  BY DEF Over
<1> QED
  BY <1>1, <1>2, ChildKeeps, PollKeeps, ReadKeeps, JudgeKeeps, SleepKeeps, EndKeeps DEF WatchNext, WatcherStep

(* What SilenceIsReal, JudgedOnce and EndIsKnown say of the loop of
   run_watchdogged holds at each of its steps.                             *)
THEOREM Invariance == WatchSpec => []IInv
BY IInvInit, NextKeeps, PTL DEF WatchSpec

(* "True means the child went silent past the window", and "when False the
   child exited on its own and exit_code is its real status": run_watchdogged
   kills nothing that has been making progress, whatever the poll, the read
   and the judgement have each seen, and leaves no child running.          *)
THEOREM OutcomeIsAlwaysTrue == WatchSpec => []OutcomeIsTrue
<1>1. IInv => OutcomeIsTrue
  <2> SUFFICES ASSUME IInv PROVE ExitIsItsOwn
    BY DEF OutcomeIsTrue, IInv
  <2> QED
    BY DEF IInv, Typed, JudgedOnce, EndIsKnown, ExitIsItsOwn
<1> QED
  BY <1>1, Invariance, PTL

-----------------------------------------------------------------------------
(* The text.                                                               *)

Bytes == {"a", "e1", "e2"}

PiecesOf(bytes) == [i \in 1 .. Len(bytes) |-> IF bytes[i] = "e1" THEN << >> ELSE <<bytes[i]>>]

LEMMA PiecesAreSeqs ==
  ASSUME NEW bytes \in Seq(Bytes)
  PROVE  /\ PiecesOf(bytes) \in Seq(Seq(Bytes)) /\ Len(PiecesOf(bytes)) = Len(bytes)
         /\ Completed(bytes) = FlattenSeq(PiecesOf(bytes)) /\ Completed(bytes) \in Seq(Bytes)
<1> DEFINE T == Seq(Bytes)
<1>1. Len(bytes) \in Nat /\ DOMAIN bytes = 1 .. Len(bytes) /\ \A i \in 1 .. Len(bytes) : bytes[i] \in Bytes
  OBVIOUS
<1>2. \A b \in Bytes : (IF b = "e1" THEN << >> ELSE <<b>>) \in T
  OBVIOUS
<1> HIDE DEF T
<1>3. PiecesOf(bytes) \in [1 .. Len(bytes) -> T]
  BY <1>1, <1>2 DEF PiecesOf
<1>4. PiecesOf(bytes) \in Seq(T) /\ Len(PiecesOf(bytes)) = Len(bytes)
  BY <1>1, <1>3, FunctionIsSeq
<1>5. Completed(bytes) = FlattenSeq(PiecesOf(bytes))
  BY <1>1 DEF Completed, PiecesOf
<1> QED
  BY <1>4, <1>5, FlattenIsSeq DEF T

(* What has ended of two stretches is what has ended of each.              *)
LEMMA EndedJoins ==
  ASSUME NEW u \in Seq(Bytes), NEW v \in Seq(Bytes)
  PROVE  Completed(u \o v) = Completed(u) \o Completed(v)
<1> DEFINE p == PiecesOf(u)
           q == PiecesOf(v)
           r == PiecesOf(u \o v)
<1>1. u \o v \in Seq(Bytes) /\ Len(u \o v) = Len(u) + Len(v) /\ Len(u) \in Nat /\ Len(v) \in Nat
  OBVIOUS
<1>2. /\ p \in Seq(Seq(Bytes)) /\ Len(p) = Len(u) /\ Completed(u) = FlattenSeq(p)
      /\ q \in Seq(Seq(Bytes)) /\ Len(q) = Len(v) /\ Completed(v) = FlattenSeq(q)
      /\ r \in Seq(Seq(Bytes)) /\ Len(r) = Len(u) + Len(v) /\ Completed(u \o v) = FlattenSeq(r)
  BY <1>1, PiecesAreSeqs
<1>3. \A i \in 1 .. Len(u) : r[i] = p[i]
  BY <1>1, Joined DEF PiecesOf
<1>4. \A i \in 1 .. Len(v) : r[Len(u) + i] = q[i]
  <2> SUFFICES ASSUME NEW i \in 1 .. Len(v) PROVE r[Len(u) + i] = q[i]
    OBVIOUS
  <2>1. (u \o v)[Len(u) + i] = v[i] /\ Len(u) + i \in 1 .. Len(u \o v)
    BY <1>1, Joined
  <2> QED
    BY <2>1 DEF PiecesOf
<1>5. r = p \o q
  <2> DEFINE T == Seq(Bytes)
  <2>1. p \in Seq(T) /\ q \in Seq(T) /\ r \in Seq(T)
    BY <1>2
  <2>2. /\ Len(r) = Len(p) + Len(q) /\ \A i \in 1 .. Len(p) : r[i] = p[i]
        /\ \A i \in 1 .. Len(q) : r[Len(p) + i] = q[i]
    BY <1>2, <1>3, <1>4
  <2> HIDE DEF T, p, q, r
  <2> QED
    BY <2>1, <2>2, MadeOfTwo
<1> HIDE DEF p, q, r
<1>6. FlattenSeq(p \o q) = FlattenSeq(p) \o FlattenSeq(q)
  BY <1>2, FlattenJoins
<1> QED
  BY <1>2, <1>5, <1>6

(* What has been forwarded, and that half a character is held back.        *)
Taken == SubSeq(file, 1, consumed)

ShownSoFar ==
  /\ at \notin {"done", "raised"} => out = Completed(Taken) /\ partial = HalfAChar(Taken)
  /\ at = "done" => out = Chars(file, TRUE)

LEMMA TakenAndNew ==
  ASSUME Typed
  PROVE  LET new == SubSeq(file, consumed + 1, Len(file))
         IN  /\ Taken \in Seq(Bytes) /\ new \in Seq(Bytes) /\ file \in Seq(Bytes)
             /\ file = Taken \o new /\ SubSeq(file, 1, Len(file)) = file
             /\ new = << >> => file = Taken
<1> DEFINE new == SubSeq(file, consumed + 1, Len(file))
<1>1. file \in Seq(Bytes) /\ consumed \in 0 .. Len(file) /\ Len(file) \in Nat
  BY LenOfFile DEF Typed, Bytes
<1>2. Taken \in Seq(Bytes) /\ new \in Seq(Bytes)
  BY <1>1 DEF Taken
<1>3. SubSeq(file, 1, Len(file)) = file
  BY <1>1, SubSeqFull
<1>5. file = Taken \o new
  <2>1. 1 \in 1 .. Len(file) + 1 /\ consumed \in 1 - 1 .. Len(file) /\ Len(file) \in consumed .. Len(file)
    BY <1>1
  <2>2. SubSeq(file, 1, consumed) \o SubSeq(file, consumed + 1, Len(file)) = SubSeq(file, 1, Len(file))
    BY <1>1, <2>1, ConcatAdjacentSubSeq
  <2> QED
    BY <1>3, <2>2 DEF Taken
<1> HIDE DEF new
<1>4. new = << >> => file = Taken
  BY <1>2, <1>5, ConcatEmptySeq
<1> QED
  BY <1>1, <1>2, <1>3, <1>4, <1>5 DEF new

(* The last byte of two stretches is the second's, if it has one.          *)
LEMMA HalfOfJoin ==
  ASSUME NEW u \in Seq(Bytes), NEW v \in Seq(Bytes), v # << >>
  PROVE  HalfAChar(u \o v) = HalfAChar(v)
<1>1. Len(u) \in Nat /\ Len(v) \in Nat \ {0} /\ Len(u \o v) = Len(u) + Len(v)
  BY EmptySeq
<1>2. (u \o v)[Len(u) + Len(v)] = v[Len(v)] /\ u \o v # << >>
  BY <1>1, Joined
<1> QED
  BY <1>1, <1>2 DEF HalfAChar

HalfShown(bytes, final) == IF final /\ HalfAChar(bytes) THEN <<"?">> ELSE << >>

(* Nothing has ended in nothing, or in half a character.                   *)
LEMMA EndedOfNone == Completed(<< >>) = << >> /\ Completed(<<"e1">>) = << >>
<1>1. << >> \in Seq(Bytes) /\ <<"e1">> \in Seq(Bytes) /\ << >> \in Seq(Seq(Bytes))
  BY DEF Bytes
<1>2. PiecesOf(<< >>) = << >> /\ PiecesOf(<<"e1">>) = Append(<< >>, << >>)
  BY DEF PiecesOf
<1>3. Completed(<< >>) = FlattenSeq(<< >>) /\ Completed(<<"e1">>) = FlattenSeq(Append(<< >>, << >>))
  BY <1>1, <1>2, PiecesAreSeqs
<1>4. FlattenSeq(Append(<< >>, << >>)) = FlattenSeq(<< >>) \o << >>
  BY <1>1, FlattenAppend
<1>5. << >> \o << >> = << >>
  BY <1>1, ConcatEmptySeq
<1> QED
  BY <1>3, <1>4, <1>5, FlattenEmpty

(* Decoding what is new goes on where the decoder left off.                *)
LEMMA DecodedGoesOn ==
  ASSUME Typed, partial = HalfAChar(Taken), out = Completed(Taken), NEW final \in BOOLEAN, Forward(final)
  PROVE  out' = Chars(file, final) /\ (~final => partial' = HalfAChar(file))
<1> DEFINE new == SubSeq(file, consumed + 1, Len(file))
           U == Bytes \cup {"?"}
<1>1. /\ Taken \in Seq(Bytes) /\ new \in Seq(Bytes) /\ file \in Seq(Bytes) /\ file = Taken \o new
      /\ new = << >> => file = Taken
  BY TakenAndNew
<1>2. /\ out' = out \o Decoded(new, final)
      /\ partial' = IF new = << >> THEN partial /\ ~final ELSE ~final /\ HalfAChar(new)
  BY DEF Forward
<1> HIDE DEF new
<1>3. Completed(Taken) \in Seq(U) /\ Completed(new) \in Seq(U) /\ HalfShown(file, final) \in Seq(U)
  <2>1. Completed(Taken) \in Seq(Bytes) /\ Completed(new) \in Seq(Bytes)
    BY <1>1, PiecesAreSeqs
  <2>2. \A s \in Seq(Bytes) : s \in Seq(U)
    OBVIOUS
  <2>3. <<"?">> \in Seq(U) /\ << >> \in Seq(U)
    OBVIOUS
  <2> HIDE DEF U
  <2> QED
    BY <2>1, <2>2, <2>3 DEF HalfShown
<1>4. Chars(file, final) = Completed(file) \o HalfShown(file, final)
  BY DEF Chars, HalfShown
<1>5. CASE new = << >>
  <2>1. HalfAChar(<<"e1">>) /\ ~HalfAChar(<< >>)
    BY DEF HalfAChar
  <2>2. Decoded(new, final) = << >> \o HalfShown(file, final)
    <3>1. CASE partial
      <4>1. HalfAChar(file) /\ Decoded(new, final) = Chars(<<"e1">>, final)
        BY <1>1, <1>5, <3>1 DEF Decoded
      <4> QED
        BY <4>1, <2>1, EndedOfNone DEF Chars, HalfShown
    <3>2. CASE ~partial
      <4>1. ~HalfAChar(file) /\ Decoded(new, final) = Chars(<< >>, final)
        BY <1>1, <1>5, <3>2 DEF Decoded
      <4> QED
        BY <4>1, <2>1, EndedOfNone DEF Chars, HalfShown
    <3> QED
      BY <3>1, <3>2
  <2>3. << >> \o HalfShown(file, final) = HalfShown(file, final)
    BY <1>3, ConcatEmptySeq
  <2>4. out' = Chars(file, final)
    <3> HIDE DEF U
    <3>1. Completed(Taken) = Completed(file)
      BY <1>1, <1>5
    <3>2. out' = Completed(file) \o (<< >> \o HalfShown(file, final))
      BY <1>2, <2>2, <3>1, Zenon
    <3> QED
      BY <1>4, <2>3, <3>2, Zenon
  <2>5. ASSUME ~final PROVE partial' = HalfAChar(file)
    <3>1. partial' = (partial /\ ~final)
      BY <1>2, <1>5
    <3>2. partial = HalfAChar(file)
      BY <1>1, <1>5
    <3> QED
      BY <2>5, <3>1, <3>2 DEF HalfAChar
  <2> QED
    BY <2>4, <2>5
<1>6. CASE new # << >>
  <2>1. HalfAChar(file) = HalfAChar(new)
    BY <1>1, <1>6, HalfOfJoin
  <2>2. Completed(file) = Completed(Taken) \o Completed(new)
    BY <1>1, EndedJoins
  <2>3. Decoded(new, final) = Completed(new) \o HalfShown(file, final)
    BY <1>6, <2>1 DEF Decoded, Chars, HalfShown
  <2> DEFINE a == Completed(Taken)
             b == Completed(new)
             c == HalfShown(file, final)
  <2>4. a \in Seq(U) /\ b \in Seq(U) /\ c \in Seq(U)
    BY <1>3
  <2>5. out' = a \o (b \o c) /\ Chars(file, final) = (a \o b) \o c
    BY <1>2, <1>4, <2>2, <2>3
  <2> HIDE DEF a, b, c, U
  <2>6. (a \o b) \o c = a \o (b \o c)
    BY <2>4
  <2>7. ASSUME ~final PROVE partial' = HalfAChar(file)
    <3>1. partial' = (~final /\ HalfAChar(new))
      BY <1>2, <1>6
    <3> QED
      BY <2>1, <2>7, <3>1 DEF HalfAChar
  <2> QED
    BY <2>5, <2>6, <2>7
<1> QED
  BY <1>5, <1>6

(* Until the watcher returns, the whole characters of what it has taken have
   been shown, and the decoder remembers whether half of one is left.      *)
LEMMA ShownInit == WatchInit => ShownSoFar
<1> SUFFICES ASSUME WatchInit PROVE ShownSoFar
  OBVIOUS
<1>1. Taken = << >>
  BY DEF WatchInit, Taken
<1> QED
  BY <1>1, EndedOfNone DEF WatchInit, ShownSoFar, HalfAChar

LEMMA ChildAddsNothing ==
  ASSUME Typed, ShownSoFar, ChildWrites, at # "done"
  PROVE  ShownSoFar'
<1>1. PICK b \in Bytes : file' = Append(file, b)
  BY DEF ChildWrites, Bytes
<1>2. UNCHANGED <<at, consumed, partial, out>>
  BY DEF ChildWrites, tailVars
<1>3. file \in Seq(Bytes) /\ consumed \in 0 .. Len(file) /\ Len(file) \in Nat
  BY LenOfFile DEF Typed, Bytes
<1>4. Taken' = Taken
  <2> DEFINE u == SubSeq(file, 1, consumed)
             v == SubSeq(Append(file, b), 1, consumed)
  <2>1. u \in Seq(Bytes) /\ v \in Seq(Bytes) /\ Len(u) = consumed /\ Len(v) = consumed
    BY <1>3
  <2>2. \A i \in 1 .. consumed : u[i] = v[i]
    BY <1>3
  <2>3. u = v
    <3> HIDE DEF u, v
    <3> QED
      BY <2>1, <2>2, SeqEqual
  <2> QED
    BY <1>1, <1>2, <2>3 DEF Taken
<1> QED
  BY <1>2, <1>4 DEF ShownSoFar

(* After a drain there is nothing left to be taken.                        *)
LEMMA DrainedAll ==
  ASSUME Typed, NEW final \in BOOLEAN, Forward(final), UNCHANGED file
  PROVE  Taken' = file
BY TakenAndNew DEF Forward, Taken

LEMMA ShownNext == IInv /\ ShownSoFar /\ [WatchNext]_watchVars => ShownSoFar'
<1> SUFFICES ASSUME IInv, ShownSoFar, [WatchNext]_watchVars PROVE ShownSoFar'
  OBVIOUS
<1> USE DEF IInv
<1>1. ASSUME UNCHANGED <<file, tailVars>>, at' = at \/ {at, at'} \cap {"done", "raised"} = {} PROVE ShownSoFar'
  BY <1>1 DEF ShownSoFar, Taken, tailVars
<1>2. CASE UNCHANGED watchVars \/ Over
  BY <1>1, <1>2 DEF Over, watchVars, childVars, tailVars
<1>3. CASE Poll \/ Judge \/ Sleep \/ Kill \/ OverSleep \/ Interrupt \/ ChildEnds
  BY <1>1, <1>3 DEF Poll, Judge, Sleep, Kill, OverSleep, Interrupt, ChildEnds, TimePasses, childVars
<1>4. CASE ChildWrites
  <2>1. at # "done"
    BY <1>4 DEF ChildWrites, JudgedOnce, EndIsKnown
  <2> QED
    BY <1>4, <2>1, ChildAddsNothing
<1>5. CASE Read
  <2>1. at = "read" /\ at' = "judge" /\ Forward(FALSE) /\ UNCHANGED file
    BY <1>5 DEF Read, childVars
  <2>2. out' = Chars(file, FALSE) /\ partial' = HalfAChar(file)
    BY <2>1, DecodedGoesOn DEF ShownSoFar
  <2>3. Taken' = file /\ file \in Seq(Bytes)
    BY <2>1, DrainedAll, TakenAndNew
  <2>4. Chars(file, FALSE) = Completed(file)
    <3>1. Completed(file) \in Seq(Bytes) /\ Chars(file, FALSE) = Completed(file) \o << >>
      BY <2>3, PiecesAreSeqs DEF Chars
    <3> QED
      BY <3>1, ConcatEmptySeq
  <2> QED
    BY <2>1, <2>2, <2>3, <2>4 DEF ShownSoFar
<1>6. CASE WaitTen \/ Finish
  <2>1. /\ at \notin {"done", "raised"} /\ at' \in {"done", "raised"}
        /\ Forward(TRUE) /\ UNCHANGED file
    BY <1>6 DEF WaitTen, Finish, childVars
  <2>2. out' = Chars(file, TRUE)
    BY <2>1, DecodedGoesOn DEF ShownSoFar
  <2>3. Chars(file', TRUE) = Chars(file, TRUE)
    BY <2>1
  <2> QED
    BY <2>1, <2>2, <2>3 DEF ShownSoFar
<1> QED
  BY <1>2, <1>3, <1>4, <1>5, <1>6 DEF WatchNext, WatcherStep

(* "the caller sees exactly what the unwatched command would have printed":
   when run_watchdogged returns, the text it has forwarded is the text of
   everything the child wrote, as if it had been decoded at once, wherever
   its reads cut a character and whenever the child was killed.            *)
THEOREM TextIsWhole == WatchSpec => []Transparent
<1>1. IInv /\ IInv' /\ ShownSoFar /\ [WatchNext]_watchVars => ShownSoFar'
  BY ShownNext
<1>2. ShownSoFar => Transparent
  BY DEF ShownSoFar, Transparent
<1> QED
  BY <1>1, <1>2, ShownInit, Invariance, PTL DEF WatchSpec
====
