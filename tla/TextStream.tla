------------------------------ MODULE TextStream ------------------------------
(***************************************************************************)
(* The text of one request (native_backend.py): each token grows the ids,  *)
(* all of them are decoded again, a streaming job sends what is new of the *)
(* reasoning and of the answer, a collected job is given the whole at its  *)
(* end.  Both run the same `_advance_job`, so one job is read both ways    *)
(* here: `sent` is what it streams, `result` what it collects.             *)
(*                                                                         *)
(* A token is a sequence of bytes, a text a sequence of characters.  The   *)
(* bytes "L" and "C" are the two halves of the character "e"; any other    *)
(* byte is a character.  "<think>" is "<" and ">", "</think>" is "<", "/"  *)
(* and ">": like the code's they begin alike and can straddle tokens; the  *)
(* letters in the middle are left out.  "?" is the replacement character.  *)
(***************************************************************************)
EXTENDS Integers, SequencesExt

CONSTANTS
  Tokens,     \* the vocabulary: a set of sequences of bytes
  Stops,      \* sampling_params.stop: a sequence of sequences of characters
  Mode,       \* thinking_mode: "chat" or "thinking"
  CapMin,     \* the decode buffer's least size in bytes ...
  CapPer,     \* ... and its size per token
  Budget      \* job.budget

ASSUME TextAssumption ==
  /\ Tokens \subseteq Seq(STRING) /\ << >> \notin Tokens
  /\ Mode \in {"chat", "thinking"}
  /\ {CapMin, CapPer, Budget} \subseteq Nat \ {0}

VARIABLES
  bytes,   \* the bytes of job.emitted_ids
  count,   \* job.completion_tokens
  text,    \* job.text
  split,   \* the splitter's last _reasoning and _content
  sent,    \* what the stream's events carried, put together
  cut,     \* the last text that was the beginning of an opener; history
  finish,  \* job.finish_reason; "none" until job.done
  result   \* the GenerationResult's reasoning and text; NoResult before it

vars == <<bytes, count, text, split, sent, cut, finish, result>>

NoResult == [reasoning |-> <<"none">>, content |-> <<"none">>]
Nothing  == [reasoning |-> << >>, content |-> << >>]

Init ==
  /\ bytes = << >> /\ count = 0
  /\ text = << >> /\ split = Nothing /\ sent = Nothing /\ cut = << >>
  /\ finish = "none" /\ result = NoResult

-----------------------------------------------------------------------------
(* Decoding.                                                               *)

(* bytes.decode("utf-8", "replace"): a half without its other half is "?". *)
Opens(b, i)  == b[i] = "L" /\ i < Len(b) /\ b[i + 1] = "C"
Closes(b, i) == b[i] = "C" /\ i > 1 /\ b[i - 1] = "L"
Shown(b, i)  == IF Closes(b, i) THEN "e" ELSE IF b[i] \in {"L", "C"} THEN "?" ELSE b[i]

Utf8(b) ==
  FlattenSeq([i \in DOMAIN b |-> IF Opens(b, i) THEN << >> ELSE <<Shown(b, i)>>])

UpTo(s, n) == SubSeq(s, 1, IF n < Len(s) THEN n ELSE Len(s))

(* The engine's decode: what fits the buffer, less the terminator.         *)
EngineDecode(b, n) ==
  LET cap == IF CapPer * n > CapMin THEN CapPer * n ELSE CapMin
  IN  Utf8(UpTo(b, cap - 1))

(* Wrong variants of DecodedText: the half-decoded tail is kept; only the
   new token is decoded, after the text there is.                          *)
DecodedText_KeepTail(b, n) == EngineDecode(b, n)
DecodedText_PerToken(b, n) == text \o Utf8(SubSeq(b, Len(bytes) + 1, Len(b)))

(* _decoded_text: a trailing replacement character is not text.            *)
DecodedText(b, n) ==
  LET t == EngineDecode(b, n)
  IN  IF IsSuffix(<<"?">>, t) THEN Front(t) ELSE t

-----------------------------------------------------------------------------
(* Finding the stop sequences and the end of the reasoning.                *)

Occurs(s, t) == s # << >> /\ \E i \in 1..Len(t) : IsPrefix(s, SubSeq(t, i, Len(t)))

IndexOf(s, t) ==
  CHOOSE i \in 1..Len(t) :
    /\ IsPrefix(s, SubSeq(t, i, Len(t)))
    /\ \A j \in 1..(i - 1) : ~IsPrefix(s, SubSeq(t, j, Len(t)))

Stopped(t) == \E k \in DOMAIN Stops : Occurs(Stops[k], t)

(* _stop_match: where the first stop of the list that occurs, occurs.      *)
StopMatch(t) ==
  IndexOf(Stops[CHOOSE k \in DOMAIN Stops :
                  /\ Occurs(Stops[k], t)
                  /\ \A j \in 1..(k - 1) : ~Occurs(Stops[j], t)], t)

(* _trim_stop                                                              *)
TrimStop(t) == IF Stopped(t) THEN SubSeq(t, 1, StopMatch(t) - 1) ELSE t

Opener == <<"<", ">">>
Marker == <<"<", "/", ">">>

(* removeprefix("<think>")                                                 *)
Unopened(t) == IF IsPrefix(Opener, t) THEN SubSeq(t, Len(Opener) + 1, Len(t)) ELSE t

SplitReasoning(t) ==
  CASE Occurs(Marker, t) ->
         LET at == IndexOf(Marker, t)
         IN  [reasoning |-> Unopened(SubSeq(t, 1, at - 1)),
              content   |-> SubSeq(t, at + Len(Marker), Len(t))]
    [] ~Occurs(Marker, t) /\ Mode = "thinking" ->
         [reasoning |-> Unopened(t), content |-> << >>]
    [] OTHER -> [reasoning |-> << >>, content |-> t]

(* What `new` adds to `old`, if it does continue it; `otherwise` if not.   *)
Added(old, new, otherwise) ==
  IF IsPrefix(old, new) THEN SubSeq(new, Len(old) + 1, Len(new)) ELSE otherwise

(* Wrong variant of Delta: the answer's first characters are taken for
   known.                                                                  *)
Delta_ByLength(now) ==
  [reasoning |-> SubSeq(now.reasoning, Len(split.reasoning) + 1, Len(now.reasoning)),
   content   |-> SubSeq(now.content, Len(split.reasoning) + 1, Len(now.content))]

(* _ReasoningSplitter.feed                                                 *)
Delta(now) ==
  [reasoning |-> Added(split.reasoning, now.reasoning, << >>),
   content   |-> Added(split.content, now.content, now.content)]

-----------------------------------------------------------------------------
(* _advance_job                                                            *)

Spent(n) == n >= Budget

Eos ==
  /\ finish = "none"
  /\ count' = count + 1
  /\ finish' = "stop"
  /\ UNCHANGED <<bytes, text, split, sent, cut, result>>

(* Some of an opener, and not all of it.                                   *)
Opening(t) == t # << >> /\ t # Opener /\ IsPrefix(t, Opener)

Advance(token) ==
  /\ finish = "none"
  /\ bytes' = bytes \o token
  /\ count' = count + 1
  /\ text' = DecodedText(bytes', count')
  /\ split' = SplitReasoning(text')
  /\ LET d == Delta(split')
     IN  sent' = [reasoning |-> sent.reasoning \o d.reasoning,
                  content   |-> sent.content \o d.content]
  /\ cut' = IF Opening(text') THEN text' ELSE cut
  /\ finish' = CASE Stopped(text')                    -> "stop"
                 [] ~Stopped(text') /\ Spent(count') -> "length"
                 [] OTHER                             -> "none"
  /\ UNCHANGED result

(* _finish_job of a job that did not fail                                  *)
FinishJob ==
  /\ finish # "none" /\ result = NoResult
  /\ result' = SplitReasoning(TrimStop(text))
  /\ UNCHANGED <<bytes, count, text, split, sent, cut, finish>>

Next == Eos \/ (\E token \in Tokens : Advance(token)) \/ FinishJob

Spec == Init /\ [][Next]_vars

-----------------------------------------------------------------------------
(* Properties.                                                             *)

(* A decode of more ids continues the text of fewer: nothing that was sent
   is ever taken back, whatever bytes a token ends in.                     *)
TextOnlyGrows == [][IsPrefix(text, text')]_vars

(* Bytes that are UTF-8 so far, and spell no replacement character, are
   never shown with one, though a token may end inside a character.        *)
NotMangled ==
  (\A i \in DOMAIN bytes :
     /\ bytes[i] # "?"
     /\ bytes[i] = "L" => i = Len(bytes) \/ bytes[i + 1] = "C"
     /\ bytes[i] = "C" => i > 1 /\ bytes[i - 1] = "L")
  => ~Contains(text, "?")

(* A marker that straddles tokens: some of a "</think>" was sent as
   reasoning.                                                              *)
WithMarkerBegun(reasoning) == {reasoning \o SubSeq(Marker, 1, k) : k \in 0 .. Len(Marker) - 1}

(* An opener that straddles tokens: it was sent as reasoning, as far as it
   went, and the reasoning that came with the rest of it never was.        *)
OpenerLost(reasoning) ==
  IF cut # << >> /\ IsPrefix(Opener, text)
  THEN {cut \o SubSeq(reasoning, i, Len(reasoning)) : i \in 1 .. Len(reasoning) + 1} ELSE {}

(* The streamed answer is the collected one, when no stop sequence ended it,
   whatever tokens it came in; so is the reasoning, when neither marker
   straddles tokens, and it differs by what is said above when one does.   *)
AnswerIsResult ==
  result # NoResult /\ ~Stopped(text) =>
    /\ sent.content = result.content
    /\ \E said \in WithMarkerBegun(result.reasoning) : sent.reasoning \in {said} \cup OpenerLost(said)

(* "The one case that cannot be recovered is a </think> marker straddling a
   token boundary": a stream has all the reasoning of the collected answer,
   and at most the beginning of that marker after it.                      *)
OnlyMarkerIsLost ==
  result # NoResult /\ ~Stopped(text) =>
    sent.content = result.content /\ sent.reasoning \in WithMarkerBegun(result.reasoning)

=============================================================================
