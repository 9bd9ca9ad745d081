------------------------------- MODULE KvHosts -------------------------------
(***************************************************************************)
(* The programs that drive one KV cache, each with the calls it really     *)
(* makes, over the session of KvSession:                                   *)
(*   "session"  one conversation through the C API                         *)
(*   "abi"      every call of Session in any order, batches and            *)
(*              reservations included                                      *)
(*   "serving"  the scheduler thread of the server (ServingKv)             *)
(*   "vlm"      VlmSession::compose: text, an image, text                  *)
(*   "asr"      AsrSession::compose and generate: text, windows of sound,  *)
(*              text, then a token at a time                               *)
(* The towers' own passes are TowerMemory's; here an encode succeeds or    *)
(* throws.                                                                 *)
(***************************************************************************)
EXTENDS ServingKv

CONSTANTS
  Sides,      \* bound: the sides of a merged image grid
  Lengths,    \* bound: the text before and after, and the tokens of a window
  Windows     \* bound: windows of sound in one recording

ASSUME HostsAssumption ==
  /\ Sides \subseteq Nat \ {0} /\ Lengths \subseteq Nat \ {0} /\ Windows \subseteq Nat \ {0}
  /\ 0 .. 4 \subseteq Tokens

VARIABLES
  host,       \* which of the programs this is
  composing,  \* where compose is, and what it was given
  report      \* Composition: positions and cache_rows

hostVars == <<host, composing, report>>
everything == <<allVars, hostVars>>
Nothing == [at |-> "no"]
NoReport == [positions |-> 0, rows |-> 0]

(* VlmSession::open, AsrSession::open: a session over a text checkpoint.
   The serving loop runs over one layer here (the README says why).        *)
HostsInit ==
  /\ ServeInit
  /\ host \in {"session", "abi", "serving", "vlm", "asr"}
  /\ layers = (IF host = "serving" THEN Min(LayerCounts) ELSE Max(LayerCounts))
  /\ composing = Nothing /\ report = NoReport

BeforeToken == 1    \* the text before
MediaToken == 2     \* a row of the tower's output
AfterToken == 3     \* the text after
MadeToken == 4      \* a token the model chose

TokensOf(token, n) == [i \in 1 .. n |-> token]

-----------------------------------------------------------------------------
(* VlmSession::compose                                                     *)

(* std::llround(std::sqrt(tokens))                                         *)
Side(tokens) == CHOOSE s \in 0 .. tokens :
                  /\ (2 * s - 1) * (2 * s - 1) <= 4 * tokens
                  /\ 4 * tokens < (2 * s + 1) * (2 * s + 1)

(* The grid's rotary positions: one in time for the whole span, a row and a
   column offset by it, the column the fast axis.                          *)
GridPositions(start, tokens) ==
  [i \in 1 .. tokens |-> <<start, start + (i - 1) \div Side(tokens), start + ((i - 1) % Side(tokens))>>]

(* A text token turns by one position in all three sections.               *)
TextPositions(base, n) == [i \in 1 .. n |-> [j \in 1 .. 3 |-> base + i - 1]]

(* Wrong variant of AfterBase: the text goes on from the cache's length.   *)
AfterBase_CacheLength(start, tokens) == start + tokens

(* The span advances the positions by its side, not by its tokens.         *)
AfterBase(start, tokens) == start + Side(tokens)

(* Refusals before this point leave the cache alone; from here on compose
   owns it.                                                                *)
ComposeImage ==
  /\ host = "vlm" /\ composing.at \in {"no", "done"}
  /\ Reset
  /\ \E b \in Lengths, a \in Lengths, w \in Sides, h \in Sides :
       composing' = [at |-> "before", before |-> b, after |-> a, w |-> w, h |-> h,
                     windows |-> 0, width |-> 0, start |-> 0, made |-> 0]
  /\ report' = NoReport

(* The next step of compose, unless the engine refused the call.           *)
Then(at, start) ==
  IF reply' = "ok" THEN composing' = [composing EXCEPT !.at = at, !.start = start]
                   ELSE composing' = Nothing

ImageBefore ==
  /\ host = "vlm" /\ composing.at = "before"
  /\ Forward(TokensOf(BeforeToken, composing.before))
  /\ Then("span", seqLen'[1])
  /\ UNCHANGED report

ImageSpan ==
  LET tokens == composing.w * composing.h
  IN  /\ host = "vlm" /\ composing.at = "span"
      /\ ForwardTurned(TokensOf(MediaToken, tokens), composing.start,
                       GridPositions(composing.start, tokens))
      /\ Then("after", composing.start)
      /\ UNCHANGED report

ImageAfter ==
  LET base == AfterBase(composing.start, composing.w * composing.h)
  IN  /\ host = "vlm" /\ composing.at = "after"
      /\ ForwardTurned(TokensOf(AfterToken, composing.after), seqLen[1],
                       TextPositions(base, composing.after))
      /\ Then("done", composing.start)
      /\ report' = IF reply' = "ok"
                   THEN [positions |-> base + composing.after, rows |-> seqLen'[1]]
                   ELSE report

-----------------------------------------------------------------------------
(* AsrSession::compose and generate                                        *)

ComposeSound ==
  /\ host = "asr" /\ composing.at \in {"no", "done"}
  /\ Reset
  /\ \E b \in Lengths, a \in Lengths, n \in Windows, width \in Lengths :
       composing' = [at |-> "before", before |-> b, after |-> a, w |-> 0, h |-> 0,
                     windows |-> n, width |-> width, start |-> 0, made |-> 0]
  /\ report' = NoReport

SoundBefore ==
  /\ host = "asr" /\ composing.at = "before"
  /\ Forward(TokensOf(BeforeToken, composing.before))
  /\ Then("span", 0)
  /\ UNCHANGED report

(* Where the next window's rows begin.                                     *)
WindowStart == seqLen[1]

(* One window: the tower's features at the cache's length, with no positions
   of their own.  The `start` field counts the windows that are in.        *)
SoundWindow ==
  /\ host = "asr" /\ composing.at = "span"
  /\ ForwardSpan(TokensOf(MediaToken, composing.width), WindowStart)
  /\ Then(IF composing.start + 1 = composing.windows THEN "after" ELSE "span",
          composing.start + 1)
  /\ UNCHANGED report

(* The tower throws half way through the recording.                        *)
SoundThrows ==
  /\ host = "asr" /\ composing.at = "span"
  /\ composing' = Nothing
  /\ UNCHANGED <<allVars, report>>

SoundAfter ==
  /\ host = "asr" /\ composing.at = "after"
  /\ Forward(TokensOf(AfterToken, composing.after))
  /\ Then("done", 0)
  /\ report' = IF reply' = "ok" THEN [positions |-> seqLen'[1], rows |-> seqLen'[1]] ELSE report

(* generate: the token chosen last goes back in.                           *)
SoundToken ==
  /\ host = "asr" /\ composing.at = "done"
  /\ Forward(<<MadeToken>>)
  /\ composing' = IF reply' = "ok" THEN [composing EXCEPT !.made = @ + 1] ELSE Nothing
  /\ UNCHANGED report

-----------------------------------------------------------------------------

(* One conversation, two tokens to tell apart, and resets.                 *)
SessionNext ==
  /\ host = "session"
  /\ \/ \E n \in 1 .. 2 : \E run \in [1 .. n -> {1, 2}] : Forward(run)
     \/ Reset
  /\ UNCHANGED <<serveVars, hostVars>>

AbiRuns == {TokensOf(1, 1), TokensOf(1, 2)}

(* Every call of Session, in any order; one token, for extents are counted
   and not contents.                                                       *)
AbiNext ==
  /\ host = "abi"
  /\ \/ \E run \in AbiRuns : Forward(run)
     \/ \E run \in AbiRuns, start \in {position, seqLen[1]} : ForwardSpan(run, start)
     \/ \E n \in 1 .. MaxBatch : \E batch \in [1 .. n -> AbiRuns] : ForwardBatch(batch)
     \/ \E positions \in 1 .. Capacity + 1, slots \in 1 .. MaxBatch : Reserve(positions, slots)
     \/ Reset
  /\ UNCHANGED <<serveVars, hostVars>>

ServingNext == host = "serving" /\ ServeNext /\ UNCHANGED hostVars

ComposeNext ==
  /\ \/ ComposeImage \/ ImageBefore \/ ImageSpan \/ ImageAfter
     \/ ComposeSound \/ SoundBefore \/ SoundWindow \/ SoundThrows \/ SoundAfter \/ SoundToken
  /\ UNCHANGED <<serveVars, host>>

HostsNext == SessionNext \/ AbiNext \/ ServingNext \/ ComposeNext

HostsSpec == HostsInit /\ [][HostsNext]_everything

-----------------------------------------------------------------------------
(* Properties.                                                             *)

(* The promise of KvLog, made to every host but the one that calls out of
   order: there a reservation or a wider batch parts the log from the slabs
   (the README gives the sequences), and the promise is left out.          *)
Log == INSTANCE KvLog WITH
         call <- IF host = "abi" THEN [op |-> "open", batch |-> << >>] ELSE call,
         logs <- IF host = "abi" THEN << << >> >> ELSE Attended

(* Every conversation, served request and composition reads back, in every
   layer, exactly what was fed to it since the last reset.                 *)
ImplementsLog == Log!Spec

(* The rotary position the cache turned position p of the first layer by.  *)
Turned(p) == kv.rows[Address(kv.cap, 0, 0, p)].rot

(* "Computing the first from the second is the mistake" (vlm_session.cpp):
   when a composition is done, every row of the cache belongs to the text or
   the media it was laid out for; over a square grid no two rows turn alike
   in all three sections, the text after the image begins one past the
   furthest position of the image, and the report's next position is one past
   the last row's.  Sound counts its rows.                                 *)
CompositionInPlace ==
  composing.at = "done" =>
    LET c == composing
        last == report.rows - 1
        media == c.before .. last - c.after
        reach == Max(UNION {{Turned(p)[j] : j \in 1 .. 3} : p \in 0 .. last - c.after})
    IN  /\ report.rows = c.before + c.w * c.h + c.windows * c.width + c.after
        /\ seqLen = <<report.rows + c.made>>
        /\ \A p \in 0 .. seqLen[1] - 1 : ReadBack(0, 0, p) =
             CASE p < c.before -> BeforeToken
               [] p \in media -> MediaToken
               [] p \in last - c.after + 1 .. last -> AfterToken
               [] OTHER -> MadeToken
        /\ host = "vlm" /\ c.w = c.h =>
             /\ \A p, q \in 0 .. last : p # q => Turned(p) # Turned(q)
             /\ \A j \in 1 .. 3 : Turned(last - c.after + 1)[j] = reach + 1
             /\ \A j \in 1 .. 3 : Turned(last)[j] = report.positions - 1
        /\ host = "asr" => \A p \in 0 .. seqLen[1] - 1, j \in 1 .. 3 : Turned(p)[j] = p
=============================================================================
