---------------------------- MODULE SpeechDecoder ----------------------------
(***************************************************************************)
(* One sentence's synthesis in tts/orpheus.py: vLLM generates tokens and   *)
(* calls back with all it has so far, token_gen() hands them on,           *)
(* _decode_tokens() decodes a sliding window of them each time a frame is  *)
(* complete, and synthesize_text() numbers the audio. Barge-in and close   *)
(* set _cancelled, which is looked at between the steps.                   *)
(*                                                                         *)
(* Of a token's value only its slot matters: the part of the vocabulary    *)
(* that stands for a place in a frame of PerFrame tokens. -1 is any token  *)
(* that is no audio. A token in a buffer is its index.                     *)
(***************************************************************************)
EXTENDS Integers, Sequences, FiniteSets

CONSTANTS PerFrame,     \* tokens in a frame (7)
          WindowFrames, \* frames in a window (4)
          MaxTokens     \* bound on the tokens of a sentence

ASSUME DecoderAssumption == {PerFrame, WindowFrames} \subseteq Nat \ {0} /\ MaxTokens \in Nat

VARIABLES tokens,     \* slots of the tokens generated so far
          engine,     \* the request in vLLM: "running", "finished" or "aborted"
          ttsCancelled, \* _cancelled
          decoder,    \* "asking", "taking", "decoding", "over" or "failed"
          offered,    \* how many tokens the last callback showed
          seen, buffer, count,  \* of _decode_tokens()
          sequence,   \* of synthesize_text()
          played      \* history: the windows decoded, <<>> for one without audio

decVars == <<tokens, engine, ttsCancelled, decoder, offered, seen, buffer, count,
             sequence, played>>

DecInit ==
    /\ tokens = <<>> /\ engine = "running"
    /\ ttsCancelled = FALSE
    /\ decoder = "asking" /\ offered = 0
    /\ seen = 0 /\ buffer = <<>> /\ count = 0
    /\ sequence = 0 /\ played = <<>>

Window == PerFrame * WindowFrames

\* vLLM, on its own: it calls back after any number of tokens.
Generate(slot) ==
    /\ engine = "running" /\ Len(tokens) < MaxTokens
    /\ tokens' = Append(tokens, slot)
    /\ UNCHANGED <<engine, ttsCancelled, decoder, offered, seen, buffer, count, sequence, played>>

EngineStops ==
    /\ engine = "running"
    /\ engine' = "finished"
    /\ UNCHANGED <<tokens, ttsCancelled, decoder, offered, seen, buffer, count, sequence, played>>

CancelSynthesis ==
    /\ ~ttsCancelled
    /\ ttsCancelled' = TRUE
    /\ UNCHANGED <<tokens, engine, decoder, offered, seen, buffer, count, sequence, played>>

Aborted == engine' = IF engine = "running" THEN "aborted" ELSE engine

\* token_gen(): a callback with more tokens than the last.
Callback ==
    /\ decoder = "asking" /\ Len(tokens) > offered
    /\ offered' = Len(tokens)
    /\ IF ttsCancelled
       THEN decoder' = "over" /\ Aborted
       ELSE decoder' = "taking" /\ UNCHANGED engine
    /\ UNCHANGED <<tokens, ttsCancelled, seen, buffer, count, sequence, played>>

\* The request ends, and the generators with it.
StreamEnds ==
    /\ decoder = "asking" /\ engine # "running" /\ Len(tokens) = offered
    /\ decoder' = "over"
    /\ UNCHANGED <<tokens, engine, ttsCancelled, offered, seen, buffer, count, sequence, played>>

\* Seeded bug: of what a callback brings only the last token is taken.
Bug_LastTokenOnly == offered

\* The index of the next token of a callback.
NextToken == seen + 1

\* A token that the place in the frame makes negative is skipped; the others
\* are buffered, and the last of a frame has the window decoded in a thread.
TakeToken ==
    /\ decoder = "taking" /\ seen < offered
    /\ seen' = NextToken
    /\ IF tokens[NextToken] < count % PerFrame
       THEN UNCHANGED <<decoder, buffer, count>>
       ELSE /\ buffer' = Append(buffer, NextToken)
            /\ count' = count + 1
            /\ decoder' = IF count' % PerFrame = 0 /\ count' > Window - 1
                          THEN "decoding" ELSE decoder
    /\ UNCHANGED <<tokens, engine, ttsCancelled, offered, sequence, played>>

CallbackDone ==
    /\ decoder = "taking" /\ seen = offered
    /\ decoder' = "asking"
    /\ UNCHANGED <<tokens, engine, ttsCancelled, offered, seen, buffer, count, sequence, played>>

LastWindow == SubSeq(buffer, Len(buffer) - Window + 1, Len(buffer))

\* The thread returns audio, which goes out unless the reply was cancelled ...
Decoded ==
    /\ decoder = "decoding"
    /\ IF ttsCancelled
       THEN decoder' = "over" /\ Aborted /\ UNCHANGED <<sequence, played>>
       ELSE /\ decoder' = "taking"
            /\ sequence' = sequence + 1
            /\ played' = Append(played, LastWindow)
            /\ UNCHANGED engine
    /\ UNCHANGED <<tokens, ttsCancelled, offered, seen, buffer, count>>

\* ... or nothing, or it raises.
NotDecoded ==
    /\ decoder = "decoding"
    /\ \/ decoder' = "taking" /\ played' = Append(played, <<>>)
       \/ decoder' = "failed" /\ UNCHANGED played
    /\ UNCHANGED <<tokens, engine, ttsCancelled, offered, seen, buffer, count, sequence>>

DecNext ==
    \/ \E slot \in -1 .. PerFrame - 1 : Generate(slot)
    \/ EngineStops \/ CancelSynthesis
    \/ Callback \/ StreamEnds \/ TakeToken \/ CallbackDone \/ Decoded \/ NotDecoded

DecSpec == DecInit /\ [][DecNext]_decVars

-----------------------------------------------------------------------------

\* Reference: these are, in order, the tokens among the first n that a decoder
\* accepts if it is called back for each one. A token is judged by its place,
\* which is how many were accepted before it.
Accepts(taken, n) ==
    /\ taken \in Seq(1 .. n)
    /\ \A i, j \in DOMAIN taken : i < j => taken[i] < taken[j]
    /\ \A i \in DOMAIN taken : tokens[taken[i]] >= (i - 1) % PerFrame
    /\ \A i \in 0 .. Len(taken), k \in 1 .. n :
          (i > 0 => taken[i] < k) /\ (i < Len(taken) => k < taken[i + 1])
             => tokens[k] < i % PerFrame

\* The k-th window of the tokens accepted, and how many there are.
WindowAt(k) == SubSeq(buffer, (k - 1) * PerFrame + 1, (k - 1) * PerFrame + Window)
Windows == IF count < Window THEN 0 ELSE count \div PerFrame - WindowFrames + 1

\* What is decoded depends on the tokens alone, not on how many of them a
\* callback brings: none is skipped, each window is decoded once, in order and
\* a frame after the one before (orpheus.py:36-41). A synthesis that comes to
\* its end, cancelled or not, leaves no request running.
DecodedByToken ==
    /\ Accepts(buffer, seen) /\ count = Len(buffer)
    /\ \A i \in DOMAIN played : played[i] \in {<<>>, WindowAt(i)}
    /\ decoder \in {"asking", "taking"} => Len(played) = Windows
    /\ sequence = Cardinality({i \in DOMAIN played : played[i] # <<>>})
    /\ decoder = "over" => engine # "running"
==============================================================================
