-------------------------- MODULE VoicePipelineProofs --------------------------
(***************************************************************************)
(* Proofs about VoicePipeline, for any number of replies, sentences and    *)
(* chunks and any size of the playback queue.                              *)
(***************************************************************************)
EXTENDS VoicePipeline, DataLemmas

Chunks == (0 .. MaxReplies) \X (0 .. MaxSentences) \X (0 .. MaxChunks)
Playing == {"created", "text", "draining", "sink"}

\* The types; only a reply that runs has a cancellation to see.
TypeOK ==
    /\ session \in {"active", "reaped", "closed"}
    /\ fired \in BOOLEAN /\ bound \subseteq Replies
    /\ driver \in {"ready", "flushing", "barging", "replacing", "hanging_up", "unwinding",
                   "closed", "aborted"}
    /\ axe \in {"none", "sent", "seen"}
    /\ replyTask \in Replies \cup {NoReply} /\ ttsSession \in Replies \cup {NoReply}
    /\ phase \in [Replies -> {"none", "over"} \cup Playing]
    /\ doomed \subseteq Live /\ told \subseteq Replies
    /\ at \in [Replies -> 1 .. MaxSentences + 1]
    /\ pump \in [Pumps -> {"none", "running", "done", "failed", "stopped"}]
    /\ made \in [Pumps -> 0 .. MaxChunks] /\ taken \in [Pumps -> 0 .. MaxChunks]
    /\ \A p \in Pumps : taken[p] <= made[p]
    /\ output \in Seq(Chunks) /\ heard \in Chunks
    /\ sender \in {"getting", "sending", "failed", "doomed", "stopped"}
    /\ history \in Seq(Replies) /\ context \in [Replies -> Nat]

\* Replies are numbered as they start, and so are the sentences of each; the
\* reply the pipeline holds is the last one.
Numbered ==
    /\ Started \in 0 .. MaxReplies
    /\ \A r \in Replies : phase[r] # "none" <=> r <= Started
    /\ \A r \in Replies : /\ Sentences(r) \in 0 .. MaxSentences
                          /\ \A n \in 1 .. MaxSentences : pump[<<r, n>>] # "none" <=> n <= Sentences(r)
    /\ replyTask \in {NoReply, Started}
    /\ driver = "replacing" => Started < MaxReplies

\* The TTS session the pipeline holds is that of its reply, and has been made
\* before anything is synthesised or stopped.
OneVoice ==
    /\ ttsSession \in {NoReply, replyTask}
    /\ \A r \in Replies : phase[r] \in {"text", "draining", "sink"} => ttsSession = r
    /\ \A r \in told \cup ({ttsSession} \ {NoReply}) : phase[r] \notin {"none", "created"}
    /\ \A p \in Pumps : pump[p] # "none" =>
          phase[p[1]] \notin {"none", "created"} /\ (p[1] = replyTask => ttsSession = p[1])

\* Whoever waits for a reply has stopped it and its synthesis; a reply whose
\* synthesis was stopped is being stopped too.
StoppedTogether ==
    /\ driver \in {"barging", "replacing", "unwinding"} =>
          Live \subseteq doomed /\ ttsSession \in told \cup {NoReply}
    /\ told \cap Live \subseteq doomed
    /\ \A p \in Pumps : pump[p] = "stopped" => p[1] \in told

\* The sentences before the one that is drained were synthesised and taken to
\* the end, and a reply in the history has none left.
Drained ==
    /\ \A p \in Pumps : p[2] < at[p[1]] => pump[p] = "done" /\ taken[p] = made[p]
    /\ \A r \in Replies : r \in ToSet(history) => /\ phase[r] \in {"sink", "over"}
                                                 /\ at[r] > Sentences(r)

\* A chunk that was queued precedes whatever can still be taken.
Passed(c) ==
    c[1] # 0 => /\ phase[c[1]] # "none"
                /\ c[2] # 0 /\ c[2] <= at[c[1]] /\ c[3] <= taken[<<c[1], c[2]>>]

\* What is queued for playback is in order, and after what was heard.
InOrder ==
    /\ Passed(heard)
    /\ \A i \in DOMAIN output : Passed(output[i]) /\ Before(heard, output[i])
    /\ \A i, j \in DOMAIN output : i < j => Before(output[i], output[j])

IInv == /\ TypeOK /\ Numbered /\ OneVoice /\ StoppedTogether /\ Drained /\ InOrder
        /\ LiveReplyStoppable /\ NoStraySynthesis /\ NoStaleContext

-----------------------------------------------------------------------------
(* Pumps are pairs, and what is counted is numbered.                       *)

LEMMA PumpPairs ==
    /\ \A p \in Pumps : p[1] \in Replies /\ p[2] \in 1 .. MaxSentences /\ p = <<p[1], p[2]>>
    /\ \A r \in Replies, n \in 1 .. MaxSentences : <<r, n>> \in Pumps
BY DEF Pumps

LEMMA Bounds ==
    /\ MaxReplies \in Nat \ {0} /\ MaxSentences \in Nat \ {0}
    /\ MaxChunks \in Nat \ {0} /\ OutputSize \in Nat \ {0}
    /\ Replies = 1 .. MaxReplies /\ NoReply = 0 /\ NoReply \notin Replies
BY BoundsAssumption, OutputSizeAssumption DEF Replies, NoReply

LEMMA ChunkIs ==
    ASSUME NEW c \in Chunks
    PROVE  c[1] \in 0 .. MaxReplies /\ c[2] \in 0 .. MaxSentences /\ c[3] \in Nat
<1>1. c[1] \in 0 .. MaxReplies /\ c[2] \in 0 .. MaxSentences /\ c[3] \in 0 .. MaxChunks
  BY DEF Chunks
<1>2. 0 .. MaxChunks \subseteq Nat
  BY Bounds
<1>. QED  BY <1>1, <1>2

\* Where a reply is, and what of a sentence it has taken, are numbers.
LEMMA Places ==
    ASSUME TypeOK
    PROVE  /\ \A r \in Replies : at[r] \in Nat /\ at[r] <= at[r] /\ at[r] <= at[r] + 1
           /\ \A p \in Pumps : taken[p] \in Nat /\ taken[p] <= taken[p]
<1>1. /\ at \in [Replies -> 1 .. MaxSentences + 1] /\ taken \in [Pumps -> 0 .. MaxChunks]
  BY DEF TypeOK
<1>2. /\ \A k \in 1 .. MaxSentences + 1 : k \in Nat /\ k <= k /\ k <= k + 1
      /\ \A k \in 0 .. MaxChunks : k \in Nat /\ k <= k
  BY Bounds
<1>. QED  BY <1>1, <1>2

\* No reply starts: the count stays.
LEMMA SameReplies ==
    ASSUME \A r \in Replies : phase'[r] # "none" <=> phase[r] # "none"
    PROVE  Started' = Started
<1>1. {r \in Replies : phase'[r] # "none"} = {r \in Replies : phase[r] # "none"}
  OBVIOUS
<1>. QED  BY <1>1 DEF Started

\* The next one starts.
LEMMA NextReply ==
    ASSUME Numbered, Started < MaxReplies, phase'[Started + 1] # "none",
           \A r \in Replies \ {Started + 1} : phase'[r] = phase[r]
    PROVE  Started' = Started + 1
<1> DEFINE S == {r \in Replies : phase'[r] # "none"}
<1>n. /\ MaxReplies \in Nat /\ Started \in Nat /\ Started + 1 \in 0 .. MaxReplies
      /\ Replies = 1 .. MaxReplies /\ \A r \in Replies : phase[r] # "none" <=> r <= Started
  BY Bounds DEF Numbered
<1>1. /\ S \in SUBSET (1 .. MaxReplies)
      /\ \A r \in 1 .. MaxReplies : r \in S <=> r <= Started + 1
  <2>1. \A r \in 1 .. MaxReplies : r <= Started + 1 <=> r <= Started \/ r = Started + 1
    BY <1>n
  <2>2. \A r \in Replies : phase'[r] # "none" <=> r <= Started \/ r = Started + 1
    BY <1>n
  <2>. QED  BY <1>n, <2>1, <2>2
<1> HIDE DEF S
<1>2. Cardinality(S) = Started + 1
  BY <1>n, <1>1, PrefixCount
<1>. QED  BY <1>2 DEF Started, S

LEMMA SameSentences ==
    ASSUME NEW r, \A n \in 1 .. MaxSentences : pump'[<<r, n>>] # "none" <=> pump[<<r, n>>] # "none"
    PROVE  Sentences(r)' = Sentences(r)
<1>1. {n \in 1 .. MaxSentences : pump'[<<r, n>>] # "none"}
        = {n \in 1 .. MaxSentences : pump[<<r, n>>] # "none"}
  OBVIOUS
<1>. QED  BY <1>1 DEF Sentences

LEMMA NextSentence ==
    ASSUME Numbered, NEW r \in Replies, Sentences(r) < MaxSentences,
           pump'[<<r, Sentences(r) + 1>>] # "none",
           \A n \in (1 .. MaxSentences) \ {Sentences(r) + 1} : pump'[<<r, n>>] = pump[<<r, n>>]
    PROVE  Sentences(r)' = Sentences(r) + 1
<1> DEFINE S == {n \in 1 .. MaxSentences : pump'[<<r, n>>] # "none"}
<1>n. /\ MaxSentences \in Nat /\ Sentences(r) \in Nat /\ Sentences(r) + 1 \in 0 .. MaxSentences
      /\ \A n \in 1 .. MaxSentences : pump[<<r, n>>] # "none" <=> n <= Sentences(r)
  BY Bounds DEF Numbered
<1>1. /\ S \in SUBSET (1 .. MaxSentences)
      /\ \A n \in 1 .. MaxSentences : n \in S <=> n <= Sentences(r) + 1
  <2>1. \A n \in 1 .. MaxSentences : n <= Sentences(r) + 1 <=> n <= Sentences(r) \/ n = Sentences(r) + 1
    BY <1>n
  <2>2. \A n \in 1 .. MaxSentences :
           pump'[<<r, n>>] # "none" <=> n <= Sentences(r) \/ n = Sentences(r) + 1
    BY <1>n
  <2>. QED  BY <2>1, <2>2
<1> HIDE DEF S
<1>2. Cardinality(S) = Sentences(r) + 1
  BY <1>n, <1>1, PrefixCount
<1>. QED  BY <1>2 DEF Sentences, S

-----------------------------------------------------------------------------
(* Which steps change what.                                                *)

\* The steps of a reply's task that change its phase.
ReplyStep(r) ==
    \/ ReplyStarts(r) \/ TextEnds(r) \/ SentenceEnds(r) \/ Record(r) \/ Saved(r)
    \/ ReplyFails(r) \/ ReplyCancelled(r)

LEMMA ReplyMoves ==
    ASSUME TypeOK, NEW r \in Replies, ReplyStep(r)
    PROVE  /\ r \in Live
           /\ phase' \in [Replies -> {"none", "over"} \cup Playing]
           /\ phase'[r] \in {"text", "draining", "sink", "over"}
           /\ \A q \in Replies \ {r} : phase'[q] = phase[q]
           /\ doomed' = doomed \ {r} \/ (doomed' = doomed /\ r \notin doomed)
           /\ r \notin doomed \/ phase'[r] = "over"
           /\ UNCHANGED <<session, fired, bound, driver, axe, replyTask, told, pump, made, taken,
                          output, sender, heard>>
<1> USE DEF tokenVars, driverVars, replyVars, pumpVars, playVars, Live, Playing, TypeOK
<1>1. CASE ReplyStarts(r)
  BY <1>1 DEF ReplyStarts
<1>2. CASE TextEnds(r)
  BY <1>2 DEF TextEnds
<1>3. CASE SentenceEnds(r)
  BY <1>3 DEF SentenceEnds
<1>4. CASE Record(r)
  BY <1>4 DEF Record
<1>5. CASE Saved(r)
  BY <1>5 DEF Saved
<1>6. CASE ReplyFails(r)
  BY <1>6 DEF ReplyFails
<1>7. CASE ReplyCancelled(r)
  BY <1>7 DEF ReplyCancelled
<1>. QED  BY <1>1, <1>2, <1>3, <1>4, <1>5, <1>6, <1>7 DEF ReplyStep

\* The steps of the handler, the reaper and the sender that leave the replies,
\* their pumps and the queue alone.
Quiet == \/ SpeechEnds \/ NothingHeard \/ HangUp \/ CancelHandler \/ HandlerCancelled
         \/ Reaped \/ Sent \/ SenderStops \/ UNCHANGED vars

LEMMA QuietIs ==
    ASSUME Quiet, TypeOK
    PROVE  /\ UNCHANGED <<fired, bound, replyTask, ttsSession, phase, doomed, at, context, told,
                          pump, made, taken, output, heard, history>>
           /\ session' \in {"active", "reaped", "closed"}
           /\ driver' \in {"ready", "flushing", "hanging_up", "aborted", driver}
           /\ axe' \in {"none", "sent", "seen"}
           /\ sender' \in {"getting", "sending", "failed", "doomed", "stopped"}
<1> USE DEF tokenVars, driverVars, replyVars, pumpVars, playVars, SenderCancelled, TypeOK
<1>1. CASE SpeechEnds \/ NothingHeard \/ HangUp
  BY <1>1 DEF SpeechEnds, NothingHeard, HangUp
<1>2. CASE CancelHandler \/ HandlerCancelled
  BY <1>2 DEF CancelHandler, HandlerCancelled
<1>3. CASE Reaped \/ Sent \/ SenderStops
  BY <1>3 DEF Reaped, Sent, SenderStops
<1>4. CASE UNCHANGED vars
  BY <1>4 DEF vars
<1>. QED  BY <1>1, <1>2, <1>3, <1>4 DEF Quiet

\* Nothing else than the pipeline's reply runs.
LEMMA LiveIs ==
    ASSUME IInv
    PROVE  /\ Live \subseteq {replyTask} /\ Live \subseteq Replies
           /\ replyTask = NoReply => Live = {}
           /\ replyTask \notin Live => Live = {}
           /\ \A r \in Live : r \in doomed \/ (r \in bound /\ ~fired)
<1>1. Live \subseteq {replyTask} /\ \A r \in Live : r \in doomed \/ (r \in bound /\ ~fired)
  BY DEF IInv, LiveReplyStoppable
<1>2. Live \subseteq Replies
  BY DEF Live
<1>. QED  BY <1>1, <1>2, Bounds

\* The steps that stop a reply, or let go of one that is over.
Stops == \/ SpeechStarts \/ ClosePipeline \/ Release \/ SessionClosed
         \/ Transcribed /\ replyTask # NoReply
         \/ InterruptReturns /\ driver = "barging"

LEMMA StopsIs ==
    ASSUME IInv, Stops
    PROVE  /\ UNCHANGED <<bound, phase, at, context, pump, made, taken, output, heard, sender,
                          history, axe>>
           /\ fired' \in BOOLEAN /\ session' \in {"active", "reaped", "closed"}
           /\ driver' \in {"ready", "barging", "replacing", "unwinding", "closed", driver}
           /\ driver' = "replacing" => driver = "replacing" \/ Started < MaxReplies
           /\ \/ replyTask' = replyTask /\ ttsSession' = ttsSession
              \/ /\ replyTask' = NoReply /\ ttsSession' = NoReply /\ Live = {}
                 /\ ttsSession \in told' \cup {NoReply}
           /\ doomed \subseteq doomed' /\ doomed' \subseteq doomed \cup Live
           /\ told \subseteq told' /\ told' \subseteq told \cup ({ttsSession} \ {NoReply})
           /\ told' = told \/ Live \subseteq doomed'
           /\ fired' = fired \/ Live \subseteq doomed'
           /\ driver' \in {"barging", "replacing", "unwinding"} =>
                 Live \subseteq doomed' /\ ttsSession \in told' \cup {NoReply}
<1> USE LiveIs DEF tokenVars, driverVars, replyVars, pumpVars, playVars, TypeOK, IInv
<1>i. Interrupted => /\ fired' = TRUE /\ bound' = bound
                     /\ doomed \subseteq doomed' /\ doomed' \subseteq doomed \cup Live
                     /\ Live \subseteq doomed'
                     /\ told' = told \cup ({ttsSession} \ {NoReply})
                     /\ ttsSession \in told' \cup {NoReply}
  BY DEF Interrupted
<1>n. replyTask = NoReply => ttsSession = NoReply
  BY DEF OneVoice
<1>1. CASE SpeechStarts
  BY <1>1, <1>i DEF SpeechStarts
<1>2. CASE ClosePipeline
  <2>1. CASE replyTask = NoReply
    BY <1>2, <1>i, <1>n, <2>1 DEF ClosePipeline, Released
  <2>2. CASE replyTask # NoReply
    BY <1>2, <1>i, <2>2 DEF ClosePipeline
  <2>. QED  BY <2>1, <2>2
<1>3. CASE Release
  BY <1>3 DEF Release, Released, StoppedTogether
<1>4. CASE SessionClosed
  <2>1. /\ session' = "closed" /\ fired' = TRUE
        /\ doomed' = doomed \cup (IF fired THEN {} ELSE Live \cap bound)
        /\ UNCHANGED <<bound, driver, axe, replyTask, ttsSession, phase, at, context, told, pump,
                       made, taken, output, sender, heard, history>>
    BY <1>4 DEF SessionClosed
  <2>2. fired' = fired \/ Live \subseteq doomed'
    BY <2>1
  <2>3. driver' \in {"barging", "replacing", "unwinding"} =>
           Live \subseteq doomed' /\ ttsSession \in told' \cup {NoReply}
    BY <2>1 DEF StoppedTogether
  <2>4. driver = driver' /\ driver' \in {driver}
    BY <2>1
  <2>. QED  BY <2>1, <2>2, <2>3, <2>4
<1>5. CASE Transcribed /\ replyTask # NoReply
  BY <1>5, <1>i DEF Transcribed
<1>6. CASE InterruptReturns /\ driver = "barging"
  BY <1>6 DEF InterruptReturns, StoppedTogether
<1>. QED  BY <1>1, <1>2, <1>3, <1>4, <1>5, <1>6 DEF Stops

\* The steps that start a reply.
Starts == \/ Transcribed /\ replyTask = NoReply
          \/ InterruptReturns /\ driver = "replacing"

LEMMA StartsIs ==
    ASSUME IInv, Starts
    PROVE  /\ Live = {} /\ Started < MaxReplies /\ ttsSession \in told \cup {NoReply}
           /\ phase' = [phase EXCEPT ![Started + 1] = "created"]
           /\ replyTask' = Started + 1 /\ ttsSession' = NoReply
           /\ fired' = FALSE /\ bound' = {Started + 1} /\ driver' = "ready"
           /\ UNCHANGED <<session, axe, doomed, told, at, context, pump, made, taken, output,
                          sender, heard, history>>
<1> USE LiveIs DEF tokenVars, driverVars, replyVars, pumpVars, playVars, IInv, Replying
<1>1. CASE Transcribed /\ replyTask = NoReply
  BY <1>1 DEF Transcribed, OneVoice
<1>2. CASE InterruptReturns /\ driver = "replacing"
  BY <1>2 DEF InterruptReturns, StoppedTogether, Numbered
<1>. QED  BY <1>1, <1>2 DEF Starts

\* These, the pumps and the playback are all there is.
LEMMA NextIs ==
    ASSUME IInv, [Next]_vars
    PROVE  \/ Quiet \/ Stops \/ Starts \/ Send
           \/ \E r \in Replies : ReplyStep(r) \/ Dispatch(r) \/ TakeChunk(r)
           \/ \E p \in Pumps : PumpChunk(p) \/ PumpEnds(p)
<1>1. InterruptReturns => driver \in {"barging", "replacing"}
  BY DEF InterruptReturns
<1>. QED  BY <1>1 DEF Next, Quiet, Stops, Starts, ReplyStep

-----------------------------------------------------------------------------
(* Each of them keeps the invariant.                                       *)

\* What was passed stays so while replies, sentences and chunks go forward.
Forward ==
    /\ \A r \in Replies : /\ phase[r] # "none" => phase'[r] # "none"
                          /\ at'[r] \in Nat /\ at[r] <= at'[r]
    /\ \A p \in Pumps : taken'[p] \in Nat /\ taken[p] <= taken'[p]

LEMMA StandStill ==
    ASSUME TypeOK, UNCHANGED <<phase, at, taken>>
    PROVE  Forward
<1>. QED  BY Places DEF Forward

LEMMA PassedForward ==
    ASSUME TypeOK, Forward, NEW c \in Chunks, Passed(c)
    PROVE  Passed(c)'
<1>1. c[1] \in 0 .. MaxReplies /\ c[2] \in 0 .. MaxSentences /\ c[3] \in Nat
  BY ChunkIs
<1>2. CASE c[1] # 0
  <2>1. c[1] \in Replies /\ c[2] \in 1 .. MaxSentences /\ <<c[1], c[2]>> \in Pumps
    <3>1. c[1] \in Replies
      BY <1>1, <1>2, Bounds
    <3>2. c[2] # 0
      BY <1>2 DEF Passed
    <3>3. c[2] \in 1 .. MaxSentences
      BY <1>1, <3>2, Bounds
    <3>. QED  BY <3>1, <3>3, PumpPairs
  <2>2. /\ phase'[c[1]] # "none" /\ at[c[1]] \in Nat /\ at'[c[1]] \in Nat /\ at[c[1]] <= at'[c[1]]
    BY <1>2, <2>1, Places DEF Forward, Passed
  <2>3. /\ taken[<<c[1], c[2]>>] \in Nat /\ taken'[<<c[1], c[2]>>] \in Nat
        /\ taken[<<c[1], c[2]>>] <= taken'[<<c[1], c[2]>>]
    BY <2>1, Places DEF Forward
  <2>. QED  BY <1>1, <1>2, <2>1, <2>2, <2>3 DEF Passed
<1>. QED  BY <1>2 DEF Passed

LEMMA OrderKept ==
    ASSUME TypeOK, InOrder, Forward, UNCHANGED <<output, heard>>
    PROVE  InOrder'
<1>1. heard \in Chunks /\ \A i \in DOMAIN output : output[i] \in Chunks
  BY DEF TypeOK
<1>2. Passed(heard)' /\ \A i \in DOMAIN output : Passed(output[i])'
  <2>1. \A c \in Chunks : Passed(c) => Passed(c)'
    BY PassedForward
  <2>2. \A c \in Chunks : c = heard => (Passed(heard)' <=> Passed(c)')
    BY DEF Passed
  <2>3. \A c \in Chunks, i \in DOMAIN output : c = output[i] => (Passed(output[i])' <=> Passed(c)')
    BY DEF Passed
  <2>. QED  BY <1>1, <2>1, <2>2, <2>3 DEF InOrder
<1>. QED  BY <1>2 DEF InOrder, Before

\* Neither a reply nor a sentence is begun.
LEMMA SameNumbers ==
    ASSUME TypeOK, Numbered, \A r \in Replies : phase'[r] # "none" <=> phase[r] # "none",
           \A p \in Pumps : pump'[p] # "none" <=> pump[p] # "none",
           replyTask' \in {replyTask, NoReply}, driver' = "replacing" => Started < MaxReplies
    PROVE  Numbered'
<1>1. Started' = Started
  BY SameReplies
<1>2. \A r \in Replies : Sentences(r)' = Sentences(r)
  BY SameSentences, PumpPairs
<1>3. \A r \in Replies, n \in 1 .. MaxSentences : pump'[<<r, n>>] # "none" <=> pump[<<r, n>>] # "none"
  BY PumpPairs
<1>. QED  BY <1>1, <1>2, <1>3 DEF Numbered

LEMMA QuietKeeps ==
    ASSUME IInv, Quiet
    PROVE  IInv'
<1> USE DEF IInv
<1>0. /\ UNCHANGED <<fired, bound, replyTask, ttsSession, phase, doomed, at, context, told,
                     pump, made, taken, output, heard, history>>
      /\ session' \in {"active", "reaped", "closed"}
      /\ driver' \in {"ready", "flushing", "hanging_up", "aborted", driver}
      /\ axe' \in {"none", "sent", "seen"}
      /\ sender' \in {"getting", "sending", "failed", "doomed", "stopped"}
  BY QuietIs
<1>1. Live' = Live
  BY <1>0 DEF Live
<1>2. TypeOK'
  BY <1>0, <1>1 DEF TypeOK
<1>3. Numbered'
  BY <1>0, SameNumbers DEF Numbered
<1>4. OneVoice' /\ StoppedTogether' /\ NoStraySynthesis' /\ NoStaleContext' /\ LiveReplyStoppable'
  BY <1>0, <1>1 DEF OneVoice, StoppedTogether, NoStraySynthesis, NoStaleContext, LiveReplyStoppable
<1>6. Drained'
  <2>1. \A r \in Replies : Sentences(r)' = Sentences(r)
    BY <1>0, SameSentences
  <2>2. ToSet(history)' = ToSet(history)
    BY <1>0 DEF ToSet
  <2>. QED  BY <1>0, <2>1, <2>2 DEF Drained
<1>5. InOrder'
  <2>1. Forward
    BY <1>0, StandStill
  <2>. QED  BY <1>0, <2>1, OrderKept
<1>. QED  BY <1>2, <1>3, <1>4, <1>5, <1>6

LEMMA StopsKeeps ==
    ASSUME IInv, Stops
    PROVE  IInv'
<1> USE DEF IInv
<1>0. /\ UNCHANGED <<bound, phase, at, context, pump, made, taken, output, heard, sender,
                     history, axe>>
      /\ driver' = "replacing" => Started < MaxReplies
      /\ \/ replyTask' = replyTask /\ ttsSession' = ttsSession
         \/ /\ replyTask' = NoReply /\ ttsSession' = NoReply /\ Live = {}
            /\ ttsSession \in told' \cup {NoReply}
  BY StopsIs DEF Numbered
<1>1. Live' = Live
  BY <1>0 DEF Live
<1>2. TypeOK'
  <2>1. /\ session' \in {"active", "reaped", "closed"} /\ fired' \in BOOLEAN
        /\ driver' \in {"ready", "flushing", "barging", "replacing", "hanging_up", "unwinding",
                       "closed", "aborted"}
    <3>1. driver' \in {"ready", "barging", "replacing", "unwinding", "closed", driver}
      BY StopsIs
    <3>2. session' \in {"active", "reaped", "closed"} /\ fired' \in BOOLEAN
      BY StopsIs
    <3>. QED  BY <3>1, <3>2 DEF TypeOK
  <2>2. replyTask' \in Replies \cup {NoReply} /\ ttsSession' \in Replies \cup {NoReply}
    BY <1>0 DEF TypeOK
  <2>3. doomed' \subseteq Live' /\ told' \subseteq Replies
    <3>1. doomed' \subseteq doomed \cup Live /\ told' \subseteq told \cup ({ttsSession} \ {NoReply})
      BY StopsIs
    <3>. QED  BY <1>1, <3>1 DEF TypeOK
  <2>4. /\ bound' = bound /\ phase' = phase /\ at' = at /\ context' = context /\ pump' = pump
        /\ made' = made /\ taken' = taken /\ output' = output /\ heard' = heard
        /\ sender' = sender /\ history' = history /\ axe' = axe
    BY <1>0
  <2>. QED  BY <2>1, <2>2, <2>3, <2>4 DEF TypeOK
<1>3. Numbered'
  BY <1>0, SameNumbers DEF Numbered
<1>4. OneVoice'
  <2>1. ttsSession' \in {NoReply, replyTask'}
    BY <1>0 DEF OneVoice
  <2>2. \A r \in Replies : phase'[r] \in {"text", "draining", "sink"} => ttsSession' = r
    BY <1>0 DEF OneVoice, Live
  <2>3. \A p \in Pumps : pump'[p] # "none" =>
           phase'[p[1]] \notin {"none", "created"} /\ (p[1] = replyTask' => ttsSession' = p[1])
    BY <1>0 DEF OneVoice
  <2>4. \A r \in told' \cup ({ttsSession'} \ {NoReply}) : phase'[r] \notin {"none", "created"}
    <3>1. told' \subseteq told \cup ({ttsSession} \ {NoReply})
      BY StopsIs
    <3>2. told' \cup ({ttsSession'} \ {NoReply}) \subseteq told \cup ({ttsSession} \ {NoReply})
      BY <1>0, <3>1
    <3>3. \A r \in told \cup ({ttsSession} \ {NoReply}) : phase[r] \notin {"none", "created"}
      BY DEF OneVoice
    <3>. QED  BY <1>0, <3>2, <3>3
  <2>. QED  BY <2>1, <2>2, <2>3, <2>4 DEF OneVoice
<1>5. StoppedTogether'
  <2>1. driver' \in {"barging", "replacing", "unwinding"} =>
           Live \subseteq doomed' /\ ttsSession' \in told' \cup {NoReply}
    BY <1>0, StopsIs
  <2>2. told' \cap Live \subseteq doomed'
    BY StopsIs DEF StoppedTogether
  <2>3. \A p \in Pumps : pump'[p] = "stopped" => p[1] \in told'
    BY <1>0, StopsIs DEF StoppedTogether
  <2>. QED  BY <1>1, <2>1, <2>2, <2>3 DEF StoppedTogether
<1>6. Drained' /\ NoStaleContext'
  <2>1. \A r \in Replies : Sentences(r)' = Sentences(r)
    BY <1>0, SameSentences
  <2>2. ToSet(history)' = ToSet(history)
    BY <1>0 DEF ToSet
  <2>. QED  BY <1>0, <2>1, <2>2 DEF Drained, NoStaleContext
<1>7. NoStraySynthesis'
  <2>1. ASSUME NEW p \in Pumps, pump[p] = "running"
        PROVE  p[1] \in told' \cup {replyTask'}
    <3>1. p[1] \in told \cup {replyTask} /\ told \subseteq told'
      BY <2>1, StopsIs DEF NoStraySynthesis
    <3>2. p[1] = replyTask => ttsSession = p[1] /\ p[1] # NoReply
      BY <2>1, PumpPairs, Bounds DEF OneVoice
    <3>. QED  BY <1>0, <3>1, <3>2
  <2>. QED  BY <1>0, <2>1 DEF NoStraySynthesis
<1>8. LiveReplyStoppable'
  <2>1. \A r \in Live : r = replyTask'
    BY <1>0, LiveIs
  <2>2. \A r \in Live : r \in doomed' \/ (r \in bound' /\ ~fired')
    <3>1. doomed \subseteq doomed' /\ (fired' = fired \/ Live \subseteq doomed')
      BY StopsIs
    <3>. QED  BY <1>0, <3>1, LiveIs
  <2>. QED  BY <1>1, <2>1, <2>2 DEF LiveReplyStoppable
<1>9. InOrder'
  <2>1. Forward
    BY <1>0, StandStill
  <2>. QED  BY <1>0, <2>1, OrderKept
<1>. QED  BY <1>2, <1>3, <1>4, <1>5, <1>6, <1>7, <1>8, <1>9

LEMMA StartsKeeps ==
    ASSUME IInv, Starts
    PROVE  IInv'
<1> USE DEF IInv
<1> DEFINE new == Started + 1
<1>0. /\ Live = {} /\ Started < MaxReplies /\ ttsSession \in told \cup {NoReply}
      /\ phase' = [phase EXCEPT ![new] = "created"]
      /\ replyTask' = new /\ ttsSession' = NoReply
      /\ fired' = FALSE /\ bound' = {new} /\ driver' = "ready"
      /\ UNCHANGED <<session, axe, doomed, told, at, context, pump, made, taken, output,
                     sender, heard, history>>
  BY StartsIs
<1>n. new \in Replies /\ phase[new] = "none" /\ new # NoReply
  BY <1>0, Bounds DEF Numbered
<1>s. Started' = new
  BY <1>0, <1>n, NextReply DEF TypeOK
<1>m. \A r \in Replies : phase[r] # "none" => r # new
  BY <1>n
<1>o. \A r \in Replies : r <= new <=> r <= Started \/ r = new
  BY <1>0, Bounds DEF Numbered
<1> HIDE DEF new
<1>1. phase'[new] = "created" /\ \A r \in Replies \ {new} : phase'[r] = phase[r]
  BY <1>0, <1>n DEF TypeOK
<1>2. Live' = {new}
  BY <1>0, <1>1, <1>n DEF Live
<1>3. TypeOK'
  <2>1. doomed' \subseteq Live'
    BY <1>0 DEF TypeOK
  <2>2. phase' \in [Replies -> {"none", "over"} \cup Playing]
    BY <1>0 DEF TypeOK, Playing
  <2>. QED  BY <1>0, <1>n, <2>1, <2>2 DEF TypeOK
<1>4. Numbered'
  <2>1. \A r \in Replies : Sentences(r)' = Sentences(r)
    BY <1>0, SameSentences
  <2>2. new \in 0 .. MaxReplies
    BY <1>n, Bounds
  <2>3. \A r \in Replies : phase'[r] # "none" <=> r <= new
    BY <1>1, <1>n, <1>o DEF Numbered
  <2>. QED  BY <1>0, <1>s, <2>1, <2>2, <2>3 DEF Numbered
<1>5. OneVoice'
  <2>1. \A r \in Replies : phase'[r] \notin {"text", "draining", "sink"}
    BY <1>0, <1>1 DEF Live
  <2>2. \A p \in Pumps : pump[p] # "none" => p[1] # new /\ phase'[p[1]] \notin {"none", "created"}
    BY <1>1, <1>n, PumpPairs DEF OneVoice
  <2>3. \A r \in told : phase'[r] \notin {"none", "created"}
    BY <1>1, <1>n DEF OneVoice, TypeOK
  <2>. QED  BY <1>0, <2>1, <2>2, <2>3 DEF OneVoice
<1>6. StoppedTogether'
  <2>1. new \notin told
    BY <1>n DEF OneVoice
  <2>. QED  BY <1>0, <1>2, <2>1 DEF StoppedTogether
<1>7. Drained'
  <2>1. \A r \in Replies : r \in ToSet(history) => phase'[r] = phase[r]
    BY <1>1, <1>n DEF Drained
  <2>2. \A r \in Replies : Sentences(r)' = Sentences(r)
    BY <1>0, SameSentences
  <2>3. ToSet(history)' = ToSet(history)
    BY <1>0 DEF ToSet
  <2>. QED  BY <1>0, <2>1, <2>2, <2>3 DEF Drained
<1>8. NoStraySynthesis'
  <2>1. ASSUME NEW p \in Pumps, pump[p] = "running"
        PROVE  p[1] \in told
    <3>1. p[1] \in told \cup {replyTask}
      BY <2>1 DEF NoStraySynthesis
    <3>2. p[1] = replyTask => ttsSession = p[1] /\ p[1] # NoReply
      BY <2>1, PumpPairs, Bounds DEF OneVoice
    <3>. QED  BY <1>0, <3>1, <3>2
  <2>. QED  BY <1>0, <2>1 DEF NoStraySynthesis
<1>9. NoStaleContext'
  BY <1>0, <1>1 DEF NoStaleContext
<1>10. LiveReplyStoppable'
  BY <1>0, <1>2 DEF LiveReplyStoppable
<1>11. InOrder'
  <2>1. Forward
    BY <1>0, <1>1, Places DEF Forward
  <2>. QED  BY <1>0, <2>1, OrderKept
<1>. QED  BY <1>3, <1>4, <1>5, <1>6, <1>7, <1>8, <1>9, <1>10, <1>11

\* What a reply's steps do to the TTS session, the history and the sentence
\* that is drained.
LEMMA ReplyEffects ==
    ASSUME IInv, NEW r \in Replies, ReplyStep(r)
    PROVE  /\ ttsSession' \in {ttsSession, r}
           /\ phase'[r] \in {"text", "draining", "sink"} => ttsSession' = r
           /\ r \in doomed => ttsSession' = ttsSession
           /\ context' \in [Replies -> Nat]
           /\ phase'[r] \in {"text", "draining"} => context'[r] = Len(history')
           /\ phase[r] = "sink" => phase'[r] = "over"
           /\ \/ history' = history
              \/ /\ history' = Append(history, r) /\ phase'[r] \in {"sink", "over"}
                 /\ at[r] > Sentences(r)
           /\ \/ at' = at
              \/ /\ at' = [at EXCEPT ![r] = @ + 1] /\ history' = history
                 /\ phase[r] = "draining" /\ r \notin doomed /\ at[r] <= Sentences(r)
                 /\ taken[<<r, at[r]>>] = made[<<r, at[r]>>]
                 /\ pump[<<r, at[r]>>] \notin {"running", "failed"}
<1> USE DEF IInv, tokenVars, driverVars, replyVars, pumpVars, playVars, TypeOK, NoStaleContext
<1>t. history \in Seq(Replies) /\ Len(history) \in Nat
  OBVIOUS
<1>v. phase[r] \in {"text", "draining", "sink"} => ttsSession = r
  BY DEF OneVoice
<1>1. CASE ReplyStarts(r)
  BY <1>1, <1>t DEF ReplyStarts
<1>2. CASE TextEnds(r)
  BY <1>2, <1>v DEF TextEnds
<1>3. CASE SentenceEnds(r)
  BY <1>3, <1>v DEF SentenceEnds
<1>4. CASE Record(r)
  BY <1>4, <1>v DEF Record
<1>5. CASE Saved(r) \/ ReplyFails(r)
  BY <1>5, <1>v DEF Saved, ReplyFails
<1>6. CASE ReplyCancelled(r)
  BY <1>6, <1>v DEF ReplyCancelled
<1>. QED  BY <1>1, <1>2, <1>3, <1>4, <1>5, <1>6 DEF ReplyStep

LEMMA ReplyStepKeeps ==
    ASSUME IInv, NEW r \in Replies, ReplyStep(r)
    PROVE  IInv'
<1>e. /\ ttsSession' \in {ttsSession, r}
      /\ phase'[r] \in {"text", "draining", "sink"} => ttsSession' = r
      /\ r \in doomed => ttsSession' = ttsSession
      /\ context' \in [Replies -> Nat]
      /\ phase'[r] \in {"text", "draining"} => context'[r] = Len(history')
      /\ phase[r] = "sink" => phase'[r] = "over"
  BY ReplyEffects
<1>h. \/ history' = history
      \/ /\ history' = Append(history, r) /\ phase'[r] \in {"sink", "over"}
         /\ at[r] > Sentences(r)
  BY ReplyEffects
<1>a. \/ at' = at
      \/ /\ at' = [at EXCEPT ![r] = @ + 1] /\ history' = history
         /\ phase[r] = "draining" /\ r \notin doomed /\ at[r] <= Sentences(r)
         /\ taken[<<r, at[r]>>] = made[<<r, at[r]>>]
         /\ pump[<<r, at[r]>>] \notin {"running", "failed"}
  BY ReplyEffects
<1> USE DEF IInv
<1>0. /\ r \in Live
      /\ phase' \in [Replies -> {"none", "over"} \cup Playing]
      /\ phase'[r] \in {"text", "draining", "sink", "over"}
      /\ \A q \in Replies \ {r} : phase'[q] = phase[q]
      /\ doomed' = doomed \ {r} \/ (doomed' = doomed /\ r \notin doomed)
      /\ r \notin doomed \/ phase'[r] = "over"
      /\ UNCHANGED <<session, fired, bound, driver, axe, replyTask, told, pump, made, taken,
                     output, sender, heard>>
  BY ReplyMoves
<1>r. Live = {r} /\ replyTask = r /\ r # NoReply
  BY <1>0, LiveIs, Bounds
<1>d. doomed' = {}
  BY <1>0, <1>r DEF TypeOK
<1>l. Live' = IF phase'[r] = "over" THEN {} ELSE {r}
  <2>1. \A q \in Replies \ {r} : q \notin Live
    BY <1>r
  <2>2. \A q \in Replies \ {r} : q \notin Live'
    BY <1>0, <2>1 DEF Live
  <2>3. r \in Live' <=> phase'[r] # "over"
    BY <1>0 DEF Live
  <2>4. Live' \subseteq Replies
    BY DEF Live
  <2>. QED  BY <2>2, <2>3, <2>4
<1>s. \A q \in Replies : Sentences(q)' = Sentences(q)
  BY <1>0, SameSentences
<1>1. TypeOK'
  <2>1. at' \in [Replies -> 1 .. MaxSentences + 1]
    <3>1. at \in [Replies -> 1 .. MaxSentences + 1] /\ Sentences(r) \in 0 .. MaxSentences
      BY DEF TypeOK, Numbered
    <3>2. at[r] <= Sentences(r) => at[r] + 1 \in 1 .. MaxSentences + 1
      BY <3>1, Bounds
    <3>. QED  BY <1>a, <3>1, <3>2
  <2>2. history' \in Seq(Replies)
    <3>1. history \in Seq(Replies)
      BY DEF TypeOK
    <3>. QED  BY <1>h, <3>1
  <2>3. ttsSession' \in Replies \cup {NoReply}
    BY <1>e DEF TypeOK
  <2>4. doomed' \subseteq Live'
    BY <1>d
  <2>5. context' \in [Replies -> Nat] /\ phase' \in [Replies -> {"none", "over"} \cup Playing]
    BY <1>0, <1>e DEF TypeOK
  <2>6. /\ session' = session /\ fired' = fired /\ bound' = bound /\ driver' = driver
        /\ axe' = axe /\ replyTask' = replyTask /\ told' = told /\ pump' = pump
        /\ made' = made /\ taken' = taken /\ output' = output /\ sender' = sender
        /\ heard' = heard
    BY <1>0
  <2>7. /\ session' \in {"active", "reaped", "closed"} /\ fired' \in BOOLEAN /\ bound' \subseteq Replies
        /\ driver' \in {"ready", "flushing", "barging", "replacing", "hanging_up", "unwinding",
                       "closed", "aborted"}
        /\ axe' \in {"none", "sent", "seen"} /\ replyTask' \in Replies \cup {NoReply}
        /\ told' \subseteq Replies
    BY <2>6 DEF TypeOK
  <2>8. /\ pump' \in [Pumps -> {"none", "running", "done", "failed", "stopped"}]
        /\ made' \in [Pumps -> 0 .. MaxChunks] /\ taken' \in [Pumps -> 0 .. MaxChunks]
        /\ \A p \in Pumps : taken'[p] <= made'[p]
        /\ output' \in Seq(Chunks) /\ heard' \in Chunks
        /\ sender' \in {"getting", "sending", "failed", "doomed", "stopped"}
    BY <2>6 DEF TypeOK
  <2>. QED  BY <2>1, <2>2, <2>3, <2>4, <2>5, <2>7, <2>8 DEF TypeOK
<1>2. Numbered'
  <2>1. \A q \in Replies : phase'[q] # "none" <=> phase[q] # "none"
    BY <1>0 DEF Live
  <2>. QED  BY <1>0, <2>1, SameNumbers DEF Numbered
<1>3. OneVoice'
  <2>1. ttsSession' \in {NoReply, replyTask'}
    BY <1>0, <1>e, <1>r DEF OneVoice
  <2>2. \A q \in Replies : phase'[q] \in {"text", "draining", "sink"} => ttsSession' = q
    BY <1>0, <1>e, <1>r DEF Live
  <2>3. \A p \in Pumps : pump[p] # "none" =>
           phase'[p[1]] \notin {"none", "created"} /\ (p[1] = replyTask => ttsSession' = p[1])
    BY <1>0, <1>e, <1>r, PumpPairs DEF OneVoice
  <2>4. \A q \in told \cup ({ttsSession'} \ {NoReply}) : phase'[q] \notin {"none", "created"}
    <3>1. \A q \in told : phase'[q] \notin {"none", "created"}
      BY <1>0 DEF OneVoice, TypeOK
    <3>2. ttsSession' \in {NoReply, r}
      BY <1>0, <1>r, <2>1
    <3>. QED  BY <1>0, <3>1, <3>2
  <2>. QED  BY <1>0, <2>1, <2>2, <2>3, <2>4 DEF OneVoice
<1>4. StoppedTogether'
  <2>1. driver \in {"barging", "replacing", "unwinding"} =>
           Live' = {} /\ ttsSession' \in told \cup {NoReply}
    BY <1>0, <1>e, <1>r, <1>l DEF StoppedTogether
  <2>2. told \cap Live' = {}
    BY <1>0, <1>r, <1>l DEF StoppedTogether
  <2>. QED  BY <1>0, <1>d, <2>1, <2>2 DEF StoppedTogether
<1>5. Drained'
  <2>1. \A p \in Pumps : p[2] < at'[p[1]] => pump[p] = "done" /\ taken[p] = made[p]
    <3>1. CASE at' = at
      BY <3>1 DEF Drained
    <3>2. CASE at' # at
      <4>1. /\ at' = [at EXCEPT ![r] = @ + 1] /\ r \notin doomed /\ at[r] <= Sentences(r)
            /\ taken[<<r, at[r]>>] = made[<<r, at[r]>>]
            /\ pump[<<r, at[r]>>] \notin {"running", "failed"}
        BY <1>a, <3>2
      <4>2. at[r] \in 1 .. MaxSentences /\ <<r, at[r]>> \in Pumps
        <5>1. at[r] \in 1 .. MaxSentences + 1 /\ Sentences(r) \in 0 .. MaxSentences
          BY DEF TypeOK, Numbered
        <5>. QED  BY <4>1, <5>1, Bounds, PumpPairs
      <4>3. pump[<<r, at[r]>>] # "none"
        BY <4>1, <4>2 DEF Numbered
      <4>4. pump[<<r, at[r]>>] # "stopped"
        BY <1>r, <4>1, <4>2, PumpPairs DEF StoppedTogether
      <4>5. pump[<<r, at[r]>>] = "done"
        BY <4>1, <4>2, <4>3, <4>4 DEF TypeOK
      <4>6. ASSUME NEW p \in Pumps, p[2] < at'[p[1]]
            PROVE  p[2] < at[p[1]] \/ p = <<r, at[r]>>
        <5>1. p[1] \in Replies /\ p[2] \in 1 .. MaxSentences /\ p = <<p[1], p[2]>>
          BY PumpPairs
        <5>2. CASE p[1] = r
          <6>1. at'[r] = at[r] + 1
            BY <4>1 DEF TypeOK
          <6>2. p[2] < at[r] \/ p[2] = at[r]
            BY <4>2, <4>6, <5>1, <5>2, <6>1, Bounds
          <6>. QED  BY <5>1, <5>2, <6>2
        <5>3. CASE p[1] # r
          BY <4>1, <4>6, <5>1, <5>3 DEF TypeOK
        <5>. QED  BY <5>2, <5>3
      <4>. QED  BY <4>1, <4>5, <4>6 DEF Drained
    <3>. QED  BY <3>1, <3>2
  <2>2. ASSUME NEW q \in Replies, q \in ToSet(history')
        PROVE  phase'[q] \in {"sink", "over"} /\ at'[q] > Sentences(q)
    <3>1. CASE q \in ToSet(history)
      <4>1. phase[q] \in {"sink", "over"} /\ at[q] > Sentences(q)
        BY <3>1 DEF Drained
      <4>2. phase'[q] \in {"sink", "over"}
        <5>1. q = r => phase[q] # "over"
          BY <1>0 DEF Live
        <5>. QED  BY <1>0, <1>e, <4>1, <5>1
      <4>3. at'[q] = at[q]
        BY <1>a, <4>1 DEF TypeOK
      <4>. QED  BY <4>1, <4>2, <4>3
    <3>2. CASE q \notin ToSet(history)
      <4>1. /\ history' = Append(history, r) /\ phase'[r] \in {"sink", "over"}
            /\ at[r] > Sentences(r) /\ at' = at
        <5>1. history' # history
          BY <2>2, <3>2 DEF ToSet
        <5>. QED  BY <1>a, <1>h, <5>1
      <4>2. q = r
        <5>1. history \in Seq(Replies) /\ Len(history) \in Nat
          BY DEF TypeOK
        <5>2. PICK i \in 1 .. Len(history) + 1 : Append(history, r)[i] = q
          BY <2>2, <4>1, <5>1 DEF ToSet
        <5>3. i \in 1 .. Len(history) => q \in ToSet(history)
          BY <5>1, <5>2 DEF ToSet
        <5>. QED  BY <3>2, <5>1, <5>2, <5>3
      <4>. QED  BY <4>1, <4>2
    <3>. QED  BY <3>1, <3>2
  <2>3. \A q \in Replies : q \in ToSet(history)' <=> q \in ToSet(history')
    BY DEF ToSet
  <2>. QED  BY <1>0, <1>s, <2>1, <2>2, <2>3 DEF Drained
<1>6. NoStraySynthesis'
  BY <1>0 DEF NoStraySynthesis
<1>7. NoStaleContext'
  BY <1>0, <1>e, <1>h, <1>r DEF NoStaleContext, Live
<1>8. LiveReplyStoppable'
  BY <1>0, <1>r, <1>l, LiveIs DEF LiveReplyStoppable
<1>9. InOrder'
  <2>1. \A q \in Replies : at'[q] \in Nat /\ at[q] <= at'[q]
    <3>2. at \in [Replies -> 1 .. MaxSentences + 1]
      BY DEF TypeOK
    <3>. QED  BY <1>a, <3>2, Places
  <2>2. Forward
    BY <1>0, <2>1, Places DEF Forward
  <2>. QED  BY <1>0, <2>2, OrderKept
<1>. QED  BY <1>1, <1>2, <1>3, <1>4, <1>5, <1>6, <1>7, <1>8, <1>9

LEMMA DispatchKeeps ==
    ASSUME IInv, NEW r \in Replies, Dispatch(r)
    PROVE  IInv'
<1> USE DEF IInv
<1> DEFINE n == Sentences(r) + 1
<1>0. /\ phase[r] = "text" /\ n <= MaxSentences
      /\ pump' = [pump EXCEPT ![<<r, n>>] = "running"]
      /\ UNCHANGED <<session, fired, bound, driver, axe, replyTask, ttsSession, phase, doomed,
                     at, context, told, made, taken, output, sender, heard, history>>
  BY DEF Dispatch, tokenVars, driverVars, replyVars, playVars
<1>n. n \in 1 .. MaxSentences /\ <<r, n>> \in Pumps /\ Sentences(r) < MaxSentences
      /\ pump[<<r, n>>] = "none"
  BY <1>0, Bounds, PumpPairs DEF Numbered
<1> HIDE DEF n
<1>p. pump'[<<r, n>>] = "running" /\ \A p \in Pumps \ {<<r, n>>} : pump'[p] = pump[p]
  BY <1>0, <1>n DEF TypeOK
<1>r. replyTask = r /\ ttsSession = r /\ r \in Live
  BY <1>0, LiveIs DEF Live, OneVoice
<1>l. Live' = Live /\ Started' = Started
  BY <1>0, SameReplies DEF Live
<1>s. Sentences(r)' = n /\ \A q \in Replies \ {r} : Sentences(q)' = Sentences(q)
  <2>1. Sentences(r)' = Sentences(r) + 1
    <3>1. \A m \in (1 .. MaxSentences) \ {Sentences(r) + 1} : pump'[<<r, m>>] = pump[<<r, m>>]
      BY <1>p, PumpPairs DEF n
    <3>2. pump'[<<r, Sentences(r) + 1>>] # "none"
      BY <1>p DEF n
    <3>. QED  BY <1>n, <3>1, <3>2, NextSentence
  <2>2. ASSUME NEW q \in Replies \ {r}
        PROVE  Sentences(q)' = Sentences(q)
    <3>1. \A m \in 1 .. MaxSentences : pump'[<<q, m>>] = pump[<<q, m>>]
      BY <1>p, PumpPairs
    <3>. QED  BY <3>1, SameSentences
  <2>. QED  BY <2>1, <2>2 DEF n
<1>1. TypeOK'
  <2>1. pump' \in [Pumps -> {"none", "running", "done", "failed", "stopped"}]
    BY <1>0 DEF TypeOK
  <2>2. doomed' \subseteq Live'
    BY <1>0, <1>l DEF TypeOK
  <2>3. /\ session' = session /\ fired' = fired /\ bound' = bound /\ driver' = driver
        /\ axe' = axe /\ replyTask' = replyTask /\ ttsSession' = ttsSession /\ phase' = phase
        /\ told' = told /\ at' = at /\ made' = made /\ taken' = taken /\ output' = output
        /\ heard' = heard /\ sender' = sender /\ history' = history /\ context' = context
    BY <1>0
  <2>. QED  BY <2>1, <2>2, <2>3 DEF TypeOK
<1>2. Numbered'
  <2>1. ASSUME NEW q \in Replies, NEW m \in 1 .. MaxSentences
        PROVE  pump'[<<q, m>>] # "none" <=> m <= Sentences(q)'
    <3>1. CASE q = r /\ m = n
      BY <1>n, <1>p, <1>s, <3>1
    <3>2. CASE q = r /\ m # n
      <4>1. pump'[<<q, m>>] = pump[<<q, m>>]
        BY <1>p, <3>2, PumpPairs
      <4>2. m <= n <=> m <= Sentences(r)
        BY <1>n, <3>2, Bounds DEF n, Numbered
      <4>. QED  BY <1>s, <3>2, <4>1, <4>2 DEF Numbered
    <3>3. CASE q # r
      <4>1. pump'[<<q, m>>] = pump[<<q, m>>]
        BY <1>p, <3>3, PumpPairs
      <4>. QED  BY <1>s, <3>3, <4>1 DEF Numbered
    <3>. QED  BY <3>1, <3>2, <3>3
  <2>2. \A q \in Replies : Sentences(q)' \in 0 .. MaxSentences
    BY <1>n, <1>s DEF Numbered
  <2>. QED  BY <1>0, <1>l, <2>1, <2>2 DEF Numbered
<1>3. OneVoice' /\ StoppedTogether' /\ NoStraySynthesis' /\ NoStaleContext' /\ LiveReplyStoppable'
  <2>1. OneVoice'
    BY <1>0, <1>p, <1>r, PumpPairs DEF OneVoice
  <2>2. StoppedTogether'
    BY <1>0, <1>l, <1>p DEF StoppedTogether
  <2>3. NoStraySynthesis'
    BY <1>0, <1>p, <1>r, PumpPairs DEF NoStraySynthesis
  <2>4. NoStaleContext' /\ LiveReplyStoppable'
    BY <1>0, <1>l DEF NoStaleContext, LiveReplyStoppable
  <2>. QED  BY <2>1, <2>2, <2>3, <2>4
<1>4. Drained'
  <2>1. \A p \in Pumps : p[2] < at[p[1]] => p # <<r, n>>
    BY <1>n DEF Drained
  <2>2. ToSet(history)' = ToSet(history)
    BY <1>0 DEF ToSet
  <2>. QED  BY <1>0, <1>p, <1>s, <2>1, <2>2 DEF Drained
<1>5. InOrder'
  <2>1. Forward
    BY <1>0, StandStill
  <2>. QED  BY <1>0, <2>1, OrderKept
<1>. QED  BY <1>1, <1>2, <1>3, <1>4, <1>5

\* A pump that runs has not been drained; it queues a chunk or ends.
LEMMA PumpKeeps ==
    ASSUME IInv, NEW p \in Pumps, PumpChunk(p) \/ PumpEnds(p)
    PROVE  IInv'
<1> USE DEF IInv
<1>0. /\ pump[p] = "running" /\ pump' \in [Pumps -> {"none", "running", "done", "failed", "stopped"}]
      /\ \A q \in Pumps \ {p} : pump'[q] = pump[q] /\ made'[q] = made[q]
      /\ pump'[p] # "none" /\ (pump'[p] = "stopped" => p[1] \in told)
      /\ made' \in [Pumps -> 0 .. MaxChunks] /\ taken[p] <= made'[p]
      /\ UNCHANGED <<session, fired, bound, driver, axe, replyTask, ttsSession, phase, doomed,
                     at, context, told, taken, output, sender, heard, history>>
  <2>1. CASE PumpChunk(p)
    <3>1. made[p] \in 0 .. MaxChunks /\ taken[p] \in 0 .. MaxChunks /\ taken[p] <= made[p]
      BY DEF TypeOK
    <3>. QED  BY <2>1, <3>1, Bounds
              DEF PumpChunk, TypeOK, tokenVars, driverVars, replyVars, playVars
  <2>2. CASE PumpEnds(p)
    BY <2>2 DEF PumpEnds, TypeOK, tokenVars, driverVars, replyVars, playVars
  <2>. QED  BY <2>1, <2>2
<1>l. Live' = Live
  BY <1>0 DEF Live
<1>1. TypeOK'
  <2>1. doomed' \subseteq Live'
    BY <1>0, <1>l DEF TypeOK
  <2>2. \A q \in Pumps : taken'[q] <= made'[q]
    BY <1>0 DEF TypeOK
  <2>3. /\ session' = session /\ fired' = fired /\ bound' = bound /\ driver' = driver
        /\ axe' = axe /\ replyTask' = replyTask /\ ttsSession' = ttsSession /\ phase' = phase
        /\ told' = told /\ at' = at /\ taken' = taken /\ output' = output
        /\ heard' = heard /\ sender' = sender /\ history' = history /\ context' = context
    BY <1>0
  <2>4. /\ made' \in [Pumps -> 0 .. MaxChunks]
        /\ pump' \in [Pumps -> {"none", "running", "done", "failed", "stopped"}]
    BY <1>0
  <2>. QED  BY <2>1, <2>2, <2>3, <2>4 DEF TypeOK
<1>2. Numbered'
  <2>1. \A q \in Pumps : pump'[q] # "none" <=> pump[q] # "none"
    BY <1>0
  <2>2. \A r \in Replies : phase'[r] # "none" <=> phase[r] # "none"
    BY <1>0
  <2>. QED  BY <1>0, <2>1, <2>2, SameNumbers DEF Numbered
<1>3. OneVoice' /\ StoppedTogether' /\ NoStraySynthesis' /\ NoStaleContext' /\ LiveReplyStoppable'
  <2>1. OneVoice'
    BY <1>0 DEF OneVoice
  <2>2. StoppedTogether'
    BY <1>0, <1>l DEF StoppedTogether
  <2>3. NoStraySynthesis'
    BY <1>0 DEF NoStraySynthesis
  <2>4. NoStaleContext' /\ LiveReplyStoppable'
    BY <1>0, <1>l DEF NoStaleContext, LiveReplyStoppable
  <2>. QED  BY <2>1, <2>2, <2>3, <2>4
<1>4. Drained'
  <2>1. \A q \in Pumps : q[2] < at[q[1]] => q # p
    BY <1>0 DEF Drained
  <2>2. ToSet(history)' = ToSet(history)
    BY <1>0 DEF ToSet
  <2>3. \A r \in Replies : Sentences(r)' = Sentences(r)
    BY <1>0, SameSentences, PumpPairs
  <2>. QED  BY <1>0, <2>1, <2>2, <2>3 DEF Drained
<1>5. InOrder'
  <2>1. Forward
    BY <1>0, StandStill
  <2>. QED  BY <1>0, <2>1, OrderKept
<1>. QED  BY <1>1, <1>2, <1>3, <1>4, <1>5

\* The chunk that is taken follows every chunk passed.
LEMMA TakeChunkKeeps ==
    ASSUME IInv, NEW r \in Replies, TakeChunk(r)
    PROVE  IInv'
<1> USE DEF IInv
<1> DEFINE p == <<r, at[r]>>
           next == <<r, at[r], taken[p] + 1>>
           kept == IF Len(output) < OutputSize THEN output ELSE Tail(output)
<1>0. /\ phase[r] = "draining" /\ at[r] <= Sentences(r) /\ taken[p] < made[p]
      /\ taken' = [taken EXCEPT ![p] = @ + 1]
      /\ output' = Append(kept, next)
      /\ UNCHANGED <<session, fired, bound, driver, axe, replyTask, ttsSession, phase, doomed,
                     at, context, told, pump, made, sender, heard, history>>
  BY DEF TakeChunk, Played, tokenVars, driverVars, replyVars
<1>p. /\ at[r] \in 1 .. MaxSentences /\ p \in Pumps
      /\ taken[p] \in 0 .. MaxChunks /\ made[p] \in 0 .. MaxChunks /\ taken[p] + 1 <= made[p]
      /\ taken[p] + 1 \in 1 .. MaxChunks
  <2>1. at[r] \in 1 .. MaxSentences
    <3>1. at[r] \in 1 .. MaxSentences + 1 /\ Sentences(r) \in 0 .. MaxSentences
      BY DEF TypeOK, Numbered
    <3>. QED  BY <1>0, <3>1, Bounds
  <2>2. p \in Pumps
    BY <2>1, PumpPairs
  <2>3. taken[p] \in 0 .. MaxChunks /\ made[p] \in 0 .. MaxChunks
    BY <2>2 DEF TypeOK
  <2>4. taken[p] < made[p]
    BY <1>0
  <2> HIDE DEF p
  <2>5. taken[p] + 1 <= made[p] /\ taken[p] + 1 \in 1 .. MaxChunks
    BY <2>3, <2>4, Bounds
  <2>. QED  BY <2>1, <2>2, <2>3, <2>5
<1>c. PICK chunk \in Chunks : /\ chunk[1] = r /\ chunk[2] = at[r] /\ chunk[3] = taken[p] + 1
                              /\ output' = Append(kept, chunk)
  <2>1. /\ next \in Chunks /\ next[1] = r /\ next[2] = at[r] /\ next[3] = taken[p] + 1
    BY <1>p, Bounds DEF Chunks
  <2> HIDE DEF next
  <2>. QED  BY <1>0, <2>1
<1>k. /\ kept \in Seq(Chunks)
      /\ \A i \in DOMAIN kept : Passed(kept[i]) /\ Before(heard, kept[i])
      /\ \A i, j \in DOMAIN kept : i < j => Before(kept[i], kept[j])
  <2>1. output \in Seq(Chunks) /\ OutputSize \in Nat \ {0}
    BY Bounds DEF TypeOK
  <2>2. CASE Len(output) < OutputSize
    BY <2>1, <2>2 DEF InOrder
  <2>3. CASE ~(Len(output) < OutputSize)
    <3>1. /\ output # <<>> /\ kept = Tail(output) /\ Len(output) \in Nat
      BY <2>1, <2>3
    <3>2. /\ kept \in Seq(Chunks) /\ DOMAIN kept = 1 .. Len(output) - 1
          /\ \A i \in 1 .. Len(output) - 1 : kept[i] = output[i + 1] /\ i + 1 \in DOMAIN output
      BY <2>1, <3>1
    <3>3. \A i, j \in DOMAIN kept : i < j => i + 1 < j + 1
      BY <3>2
    <3>. QED  BY <3>2, <3>3 DEF InOrder
  <2>. QED  BY <2>2, <2>3
<1>t. /\ taken' \in [Pumps -> 0 .. MaxChunks] /\ taken'[p] = taken[p] + 1
      /\ \A q \in Pumps \ {p} : taken'[q] = taken[q]
  BY <1>0, <1>p DEF TypeOK
<1> HIDE DEF p, next, kept
<1>l. Live' = Live
  BY <1>0 DEF Live
<1>f. Forward
  <2>1. /\ \A q \in Replies : at[q] \in Nat /\ at[q] <= at[q]
        /\ \A q \in Pumps : taken[q] \in Nat /\ taken[q] <= taken[q]
    BY Places
  <2>2. taken[p] \in Nat /\ taken'[p] \in Nat /\ taken[p] <= taken'[p]
    BY <1>p, <1>t, Bounds
  <2>3. \A q \in Pumps : taken'[q] \in Nat /\ taken[q] <= taken'[q]
    BY <1>t, <2>1, <2>2
  <2>. QED  BY <1>0, <2>1, <2>3 DEF Forward
<1>1. TypeOK'
  <2>1. output' \in Seq(Chunks)
    BY <1>0, <1>c, <1>k
  <2>2. \A q \in Pumps : taken'[q] <= made[q]
    BY <1>p, <1>t DEF TypeOK
  <2>3. doomed' \subseteq Live'
    BY <1>0, <1>l DEF TypeOK
  <2>4. /\ made' = made /\ taken' \in [Pumps -> 0 .. MaxChunks]
        /\ \A q \in Pumps : taken'[q] <= made'[q]
    BY <1>0, <1>t, <2>2
  <2>5. /\ session' = session /\ fired' = fired /\ bound' = bound /\ driver' = driver
        /\ axe' = axe /\ replyTask' = replyTask /\ ttsSession' = ttsSession /\ phase' = phase
        /\ told' = told /\ at' = at /\ pump' = pump /\ heard' = heard /\ sender' = sender
        /\ history' = history /\ context' = context
    BY <1>0
  <2>. QED  BY <2>1, <2>3, <2>4, <2>5 DEF TypeOK
<1>2. Numbered'
  BY <1>0, SameNumbers DEF Numbered
<1>3. OneVoice' /\ StoppedTogether' /\ NoStraySynthesis' /\ NoStaleContext' /\ LiveReplyStoppable'
  BY <1>0, <1>l DEF OneVoice, StoppedTogether, NoStraySynthesis, NoStaleContext, LiveReplyStoppable
<1>4. Drained'
  <2>1. \A q \in Pumps : q[2] < at[q[1]] => q # p
    BY <1>p, PumpPairs DEF p
  <2>2. ToSet(history)' = ToSet(history)
    BY <1>0 DEF ToSet
  <2>3. \A q \in Replies : Sentences(q)' = Sentences(q)
    BY <1>0, SameSentences
  <2>. QED  BY <1>0, <1>t, <2>1, <2>2, <2>3 DEF Drained
<1>5. InOrder'
  <2>1. ASSUME NEW c \in Chunks, Passed(c)
        PROVE  Passed(c)' /\ Before(c, chunk)
    <3>1. Passed(c)'
      BY <1>f, <2>1, PassedForward
    <3>2. Before(c, chunk)
      <4>1. c[1] \in 0 .. MaxReplies /\ c[2] \in 0 .. MaxSentences /\ c[3] \in Nat
        BY <2>1, ChunkIs
      <4>2. c[1] <= r
        <5>1. replyTask = r /\ Started = r
          BY <1>0, LiveIs, Bounds DEF Live, Numbered
        <5>2. CASE c[1] = 0
          BY <5>2, Bounds
        <5>3. CASE c[1] # 0
          <6>1. c[1] \in Replies /\ phase[c[1]] # "none"
            BY <2>1, <4>1, <5>3, Bounds DEF Passed
          <6>. QED  BY <5>1, <6>1 DEF Numbered
        <5>. QED  BY <5>2, <5>3
      <4>3. c[1] = r => c[2] <= at[r] /\ (c[2] = at[r] => c[3] <= taken[p])
        BY <2>1, Bounds DEF Passed, p
      <4>4. r \in Nat /\ at[r] \in Nat /\ taken[p] \in Nat
        BY <1>p, Bounds
      <4>5. \/ c[1] < r
            \/ c[1] = r /\ c[2] < at[r]
            \/ c[1] = r /\ c[2] = at[r] /\ c[3] < taken[p] + 1
        BY <4>1, <4>2, <4>3, <4>4
      <4>. QED  BY <1>c, <4>5 DEF Before
    <3>. QED  BY <3>1, <3>2
  <2>2. Passed(chunk)'
    <3>1. phase'[r] # "none" /\ at'[r] = at[r] /\ taken'[<<r, at[r]>>] = taken[p] + 1
      BY <1>0, <1>t DEF p
    <3>2. taken[p] + 1 <= taken[p] + 1 /\ at[r] <= at[r] /\ at[r] # 0
      BY <1>p, Bounds
    <3>. QED  BY <1>c, <3>1, <3>2 DEF Passed
  <2>3. DOMAIN output' = 1 .. Len(kept) + 1 /\ output'[Len(kept) + 1] = chunk
        /\ \A i \in 1 .. Len(kept) : output'[i] = kept[i] /\ i \in DOMAIN kept /\ kept[i] \in Chunks
    BY <1>c, <1>k
  <2>4. ASSUME NEW i \in DOMAIN output'
        PROVE  Passed(output[i])' /\ Before(heard, output'[i])
    <3>1. CASE i \in 1 .. Len(kept)
      <4>1. output'[i] = kept[i] /\ kept[i] \in Chunks /\ Passed(kept[i]) /\ Before(heard, kept[i])
        BY <1>k, <2>3, <3>1
      <4>. QED  BY <2>1, <4>1 DEF Passed
    <3>2. CASE i = Len(kept) + 1
      <4>1. heard \in Chunks /\ Passed(heard)
        BY DEF TypeOK, InOrder
      <4>. QED  BY <2>1, <2>2, <2>3, <3>2, <4>1 DEF Passed
    <3>3. i \in 1 .. Len(kept) \/ i = Len(kept) + 1
      BY <1>k, <2>3
    <3>. QED  BY <3>1, <3>2, <3>3
  <2>5. ASSUME NEW i \in DOMAIN output', NEW j \in DOMAIN output', i < j
        PROVE  Before(output'[i], output'[j])
    <3>1. Len(kept) \in Nat /\ i \in 1 .. Len(kept) /\ (j \in 1 .. Len(kept) \/ j = Len(kept) + 1)
      BY <1>k, <2>3, <2>5
    <3>2. output'[i] = kept[i] /\ kept[i] \in Chunks /\ Passed(kept[i])
      BY <1>k, <2>3, <3>1
    <3>3. CASE j \in 1 .. Len(kept)
      BY <1>k, <2>3, <2>5, <3>1, <3>2, <3>3
    <3>4. CASE j = Len(kept) + 1
      BY <2>1, <2>3, <3>2, <3>4
    <3>. QED  BY <3>1, <3>3, <3>4
  <2>6. Passed(heard)'
    <3>1. heard \in Chunks /\ Passed(heard) /\ heard' = heard
      BY <1>0 DEF TypeOK, InOrder
    <3>. QED  BY <2>1, <3>1 DEF Passed
  <2>. QED  BY <1>0, <2>4, <2>5, <2>6 DEF InOrder, Before
<1>. QED  BY <1>1, <1>2, <1>3, <1>4, <1>5

\* The chunk that is sent follows the one before, and what waits follows it.
LEMMA SendKeeps ==
    ASSUME IInv, Send
    PROVE  IInv' /\ Before(heard, heard')
<1> USE DEF IInv
<1>0. /\ output # <<>> /\ heard' = Head(output) /\ output' = Tail(output) /\ sender' = "sending"
      /\ UNCHANGED <<session, fired, bound, driver, axe, replyTask, ttsSession, phase, doomed,
                     at, context, told, pump, made, taken, history>>
  BY DEF Send, tokenVars, driverVars, replyVars, pumpVars
<1>o. /\ output \in Seq(Chunks) /\ Len(output) \in Nat /\ 1 \in DOMAIN output
      /\ heard' = output[1] /\ heard' \in Chunks
      /\ output' \in Seq(Chunks) /\ DOMAIN output' = 1 .. Len(output) - 1
      /\ \A i \in DOMAIN output' : output'[i] = output[i + 1] /\ i + 1 \in DOMAIN output /\ 1 < i + 1
      /\ \A i, j \in DOMAIN output' : i < j => i + 1 < j + 1
  <2>1. output \in Seq(Chunks)
    BY DEF TypeOK
  <2>. QED  BY <1>0, <2>1
<1>l. Live' = Live
  BY <1>0 DEF Live
<1>1. TypeOK'
  BY <1>0, <1>l, <1>o DEF TypeOK
<1>2. Numbered'
  BY <1>0, SameNumbers DEF Numbered
<1>3. OneVoice' /\ StoppedTogether' /\ NoStraySynthesis' /\ NoStaleContext' /\ LiveReplyStoppable'
  BY <1>0, <1>l DEF OneVoice, StoppedTogether, NoStraySynthesis, NoStaleContext, LiveReplyStoppable
<1>4. Drained'
  <2>1. ToSet(history)' = ToSet(history)
    BY <1>0 DEF ToSet
  <2>2. \A q \in Replies : Sentences(q)' = Sentences(q)
    BY <1>0, SameSentences
  <2>. QED  BY <1>0, <2>1, <2>2 DEF Drained
<1>b. Before(heard, output[1])
  BY <1>o DEF InOrder
<1>5. InOrder'
  <2>1. \A c \in Chunks : Passed(c) => Passed(c)'
    BY <1>0, StandStill, PassedForward
  <2>2. \A c \in Chunks : c = heard' => (Passed(heard)' <=> Passed(c)')
    BY DEF Passed
  <2>3. Passed(heard)'
    BY <1>o, <2>1, <2>2 DEF InOrder
  <2>4. ASSUME NEW i \in DOMAIN output'
        PROVE  Passed(output[i])' /\ Before(heard', output'[i])
    <3>1. PICK c \in Chunks : c = output'[i]
      BY <1>o
    <3>2. Passed(c) /\ Before(heard', c)
      BY <1>o, <3>1 DEF InOrder
    <3>3. Passed(c)' <=> Passed(output[i])'
      BY <3>1 DEF Passed
    <3>. QED  BY <2>1, <3>1, <3>2, <3>3
  <2>5. \A i, j \in DOMAIN output' : i < j => Before(output'[i], output'[j])
    BY <1>o DEF InOrder
  <2>. QED  BY <2>3, <2>4, <2>5 DEF InOrder, Before
<1>. QED  BY <1>1, <1>2, <1>3, <1>4, <1>5, <1>b, <1>o

-----------------------------------------------------------------------------
(* The invariant, and what follows from it.                                *)

LEMMA InitIInv == Init => IInv
<1> SUFFICES ASSUME Init PROVE IInv
  OBVIOUS
<1> USE DEF Init
<1>l. Live = {}
  BY DEF Live
<1>s. Started = 0 /\ \A r \in Replies : Sentences(r) = 0
  <2>1. {r \in Replies : phase[r] # "none"} = {}
    OBVIOUS
  <2>2. \A r \in Replies : {n \in 1 .. MaxSentences : pump[<<r, n>>] # "none"} = {}
    BY PumpPairs
  <2>. QED  BY <2>1, <2>2, FS_EmptySet DEF Started, Sentences
<1>1. TypeOK
  <2>1. /\ at \in [Replies -> 1 .. MaxSentences + 1] /\ context \in [Replies -> Nat]
        /\ made \in [Pumps -> 0 .. MaxChunks] /\ taken \in [Pumps -> 0 .. MaxChunks]
        /\ \A p \in Pumps : taken[p] <= made[p]
    BY Bounds
  <2>2. heard \in Chunks
    BY Bounds DEF Chunks
  <2>3. /\ phase \in [Replies -> {"none", "over"} \cup Playing]
        /\ pump \in [Pumps -> {"none", "running", "done", "failed", "stopped"}]
    OBVIOUS
  <2>4. output \in Seq(Chunks) /\ history \in Seq(Replies)
    OBVIOUS
  <2>. QED  BY <1>l, <2>1, <2>2, <2>3, <2>4 DEF TypeOK
<1>2. Numbered
  <2>1. /\ 0 \in 0 .. MaxReplies /\ 0 \in 0 .. MaxSentences
        /\ \A r \in Replies : ~ (r <= 0) /\ \A n \in 1 .. MaxSentences : ~ (n <= 0)
    BY Bounds
  <2>2. \A r \in Replies, n \in 1 .. MaxSentences : pump[<<r, n>>] = "none"
    BY PumpPairs
  <2>. QED  BY <1>s, <2>1, <2>2 DEF Numbered
<1>3. OneVoice /\ StoppedTogether /\ NoStraySynthesis /\ NoStaleContext /\ LiveReplyStoppable
  BY <1>l DEF OneVoice, StoppedTogether, NoStraySynthesis, NoStaleContext, LiveReplyStoppable
<1>4. Drained
  <2>1. \A p \in Pumps : ~ (p[2] < at[p[1]])
    BY PumpPairs, Bounds
  <2>2. ToSet(history) = {}
    BY DEF ToSet
  <2>. QED  BY <2>1, <2>2 DEF Drained
<1>5. InOrder
  BY DEF InOrder, Passed
<1>. QED  BY <1>1, <1>2, <1>3, <1>4, <1>5 DEF IInv

LEMMA StepIInv == IInv /\ [Next]_vars => IInv'
<1> SUFFICES ASSUME IInv, [Next]_vars PROVE IInv'
  OBVIOUS
<1>. QED
  BY NextIs, QuietKeeps, StopsKeeps, StartsKeeps, SendKeeps, ReplyStepKeeps, DispatchKeeps,
     TakeChunkKeeps, PumpKeeps

LEMMA AlwaysIInv == Spec => []IInv
BY InitIInv, StepIInv, PTL DEF Spec

\* A reply that runs is the one the pipeline holds, and can be stopped
\* (VoicePipeline.interrupt(), barge_in()).
THEOREM ReplyStoppable == Spec => []LiveReplyStoppable
<1>1. IInv => LiveReplyStoppable
  BY DEF IInv
<1>. QED  BY <1>1, AlwaysIInv, PTL

\* No pump synthesises on for a reply the pipeline has let go of
\* (_OrpheusSession.cancel()).
THEOREM SynthesisStopped == Spec => []NoStraySynthesis
<1>1. IInv => NoStraySynthesis
  BY DEF IInv
<1>. QED  BY <1>1, AlwaysIInv, PTL

\* No turn slips in between a question and its answer (_run_reply()).
THEOREM ContextCurrent == Spec => []NoStaleContext
<1>1. IInv => NoStaleContext
  BY DEF IInv
<1>. QED  BY <1>1, AlwaysIInv, PTL

\* What the history says was said, was synthesised and played to the end
\* (_run_reply(), _OrpheusSession.audio()).
THEOREM HistoryWasSaid == Spec => []RecordedWasSaid
<1>1. IInv => RecordedWasSaid
  <2> SUFFICES ASSUME IInv, NEW i \in DOMAIN history, NEW n \in 1 .. Sentences(history[i])
               PROVE  pump[<<history[i], n>>] = "done"
                      /\ taken[<<history[i], n>>] = made[<<history[i], n>>]
    BY DEF RecordedWasSaid
  <2>1. history[i] \in Replies /\ history[i] \in ToSet(history)
    BY DEF IInv, TypeOK, ToSet
  <2>2. Sentences(history[i]) \in 0 .. MaxSentences /\ at[history[i]] > Sentences(history[i])
        /\ at[history[i]] \in 1 .. MaxSentences + 1
    BY <2>1 DEF IInv, Numbered, Drained, TypeOK
  <2>3. n \in 1 .. MaxSentences /\ n < at[history[i]]
    BY <2>2, Bounds
  <2>4. <<history[i], n>> \in Pumps
    BY <2>1, <2>3, PumpPairs
  <2>. QED  BY <2>3, <2>4 DEF IInv, Drained
<1>. QED  BY <1>1, AlwaysIInv, PTL

\* The client hears the replies, and the sentences of each, in order, and no
\* chunk twice (the drain of _OrpheusSession.audio(), BoundedAudioQueue).
THEOREM PlaybackOrdered == Spec => HeardInOrder
<1>1. IInv /\ [Next]_vars => [heard' # heard => Before(heard, heard')]_vars
  <2> SUFFICES ASSUME IInv, [Next]_vars, heard' # heard PROVE Before(heard, heard')
    OBVIOUS
  <2>1. CASE Send
    BY <2>1, SendKeeps
  <2>2. CASE Quiet \/ Stops \/ Starts
    BY <2>2, QuietIs, StopsIs, StartsIs DEF IInv
  <2>3. ASSUME NEW r \in Replies, ReplyStep(r) \/ Dispatch(r) \/ TakeChunk(r)
        PROVE  heard' = heard
    <3>1. CASE ReplyStep(r)
      BY <3>1, ReplyMoves DEF IInv
    <3>. QED  BY <2>3, <3>1 DEF Dispatch, TakeChunk, playVars
  <2>4. ASSUME NEW p \in Pumps, PumpChunk(p) \/ PumpEnds(p)
        PROVE  heard' = heard
    BY <2>4 DEF PumpChunk, PumpEnds, playVars
  <2>. QED  BY NextIs, <2>1, <2>2, <2>3, <2>4
<1>. QED  BY <1>1, AlwaysIInv, PTL DEF Spec, HeardInOrder
==============================================================================
