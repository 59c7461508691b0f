--------------------------- MODULE VoicePipeline ---------------------------
(***************************************************************************)
(* One call: the voice socket's handler (api/app.py), the VoicePipeline it *)
(* drives (streaming/pipeline.py), the replies that one starts, the pumps  *)
(* of their _OrpheusSession (tts/orpheus.py) and the sender that plays     *)
(* what comes out.  They are tasks of one event loop and meet in the       *)
(* session's cancellation token, the TTS session's _cancelled and the      *)
(* playback queue.  The session may be closed from outside at any time.    *)
(*                                                                         *)
(* A reply drains what a pump has ready without giving way; here it takes  *)
(* one chunk a step, which only adds interleavings.  The VAD may report    *)
(* any sequence of events, as its protocol allows and the tests' does.     *)
(***************************************************************************)
EXTENDS Integers, Sequences, FiniteSets

CONSTANTS
    MaxReplies,   \* bound: replies ever started
    MaxSentences, \* bound: sentences in a reply
    MaxPumps,     \* bound: sentences in all
    MaxChunks,    \* bound: audio chunks in a sentence
    OutputSize    \* output_queue_size

ASSUME BoundsAssumption == {MaxReplies, MaxSentences, MaxPumps, MaxChunks} \subseteq Nat \ {0}
ASSUME OutputSizeAssumption == OutputSize \in Nat \ {0}

Replies == 1 .. MaxReplies
Pumps == Replies \X (1 .. MaxSentences)
NoReply == 0

VARIABLES
    session,    \* "active", "reaped" (active, out of the registry) or "closed"
    fired,      \* the session's token has fired
    bound,      \* replies bound to the token
    driver,     \* where the socket's handler is
    axe,        \* the server's cancellation of it: "none", "sent" or "seen"
    replyTask,  \* _reply_task
    ttsSession, \* _tts_session, as the reply it belongs to
    phase,      \* each reply's task; "over" however it ended, which is only logged
    doomed,     \* replies sent a cancellation they have not seen yet
    told,       \* replies whose TTS session has _cancelled set
    at,         \* the sentence each reply is draining
    pump,       \* each sentence's pump task
    made,       \* chunks a pump has queued
    taken,      \* how many of them the reply has taken
    output,     \* the playback queue, of chunks <<reply, sentence, number>>
    sender,     \* the send_audio task
    \* History:
    heard,      \* the chunk sent last
    history,    \* replies recorded in the session's history
    context     \* how much of it each reply was given

tokenVars == <<fired, bound>>
driverVars == <<driver, axe, replyTask, ttsSession>>
replyVars == <<phase, doomed, at, context>>
pumpVars == <<told, pump, made, taken>>
playVars == <<output, sender, heard>>
vars == <<session, tokenVars, driverVars, replyVars, pumpVars, playVars, history>>

Live == {r \in Replies : phase[r] \in {"created", "text", "draining", "sink"}}
\* The sentences of r dispatched so far.
Sentences(r) == Cardinality({n \in 1 .. MaxSentences : pump[<<r, n>>] # "none"})
Started == Cardinality({r \in Replies : phase[r] # "none"})

Init ==
    /\ session = "active"
    /\ fired = FALSE /\ bound = {}
    /\ driver = "ready" /\ axe = "none"
    /\ replyTask = NoReply /\ ttsSession = NoReply
    /\ phase = [r \in Replies |-> "none"] /\ doomed = {} /\ told = {}
    /\ at = [r \in Replies |-> 1] /\ context = [r \in Replies |-> 0]
    /\ pump = [p \in Pumps |-> "none"]
    /\ made = [p \in Pumps |-> 0] /\ taken = [p \in Pumps |-> 0]
    /\ output = <<>> /\ sender = "getting" /\ heard = <<0, 0, 0>>
    /\ history = <<>>

-----------------------------------------------------------------------------
(* VoicePipeline.interrupt() and start_reply() *)

\* Seeded bug: the interrupt waits for the reply without stopping it.
Bug_InterruptedWaits ==
    /\ fired' = TRUE
    /\ told' = told \cup ({ttsSession} \ {NoReply})
    /\ UNCHANGED <<doomed, bound>>

\* Seeded bug: a reply that is over is taken to have left nothing running.
Bug_InterruptedSparesEnded ==
    /\ fired' = TRUE
    /\ doomed' = doomed \cup (Live \cap ({replyTask} \cup (IF fired THEN {} ELSE bound)))
    /\ told' = told \cup (Live \cap {ttsSession})
    /\ UNCHANGED bound

\* barge_in() fires the token, which cancels the bound tasks; the TTS session
\* and the reply's task are cancelled too.  All before interrupt() gives way.
Interrupted ==
    /\ fired' = TRUE
    /\ doomed' = doomed \cup (Live \cap ({replyTask} \cup (IF fired THEN {} ELSE bound)))
    /\ told' = told \cup ({ttsSession} \ {NoReply})
    /\ UNCHANGED bound

\* Seeded bug: bind() is forgotten.
Bug_RepliesUnbound ==
    LET r == Started + 1 IN
    /\ phase' = [phase EXCEPT ![r] = "created"]
    /\ replyTask' = r
    /\ ttsSession' = NoReply
    /\ fired' = FALSE
    /\ bound' = {}

\* begin_turn() re-arms the token, the new task is created and bound to it.
Replying ==
    LET r == Started + 1 IN
    /\ phase' = [phase EXCEPT ![r] = "created"]
    /\ replyTask' = r
    /\ ttsSession' = NoReply
    /\ fired' = FALSE
    /\ bound' = {r}

\* push_audio() with SPEECH_STARTED; without a reply there is none to wait for.
SpeechStarts ==
    /\ driver = "ready" /\ axe # "sent"
    /\ session # "closed"
    /\ Interrupted
    /\ driver' = IF replyTask = NoReply THEN "ready" ELSE "barging"
    /\ UNCHANGED <<session, axe, replyTask, ttsSession, phase, at, context,
                   pump, made, taken, playVars, history>>

\* push_audio() with SPEECH_ENDED, up to the transcription.
SpeechEnds ==
    /\ driver = "ready" /\ axe # "sent"
    /\ session # "closed"
    /\ driver' = "flushing"
    /\ UNCHANGED <<session, tokenVars, axe, replyTask, ttsSession, replyVars, pumpVars,
                   playVars, history>>

\* sender.cancel(): a sender that has failed is done already.
SenderCancelled == sender' = IF sender = "failed" THEN "failed" ELSE "doomed"

\* Nothing was said, or the transcription failed.
NothingHeard ==
    /\ driver = "flushing" /\ axe # "sent"
    /\ \/ driver' = "ready" /\ UNCHANGED sender
       \/ driver' = "hanging_up" /\ SenderCancelled
    /\ UNCHANGED <<session, tokenVars, axe, replyTask, ttsSession, replyVars, pumpVars,
                   output, heard, history>>

\* Seeded bug: start_reply() does not interrupt the reply before.
Bug_TranscribedOverlaps ==
    /\ driver = "flushing" /\ axe # "sent"
    /\ Started < MaxReplies
    /\ Replying
    /\ driver' = "ready"
    /\ UNCHANGED <<session, axe, doomed, at, context, pumpVars, playVars, history>>

\* flush() returns what was said: start_reply(), after the interrupt it begins
\* with, which has nobody to wait for unless there is a reply.
Transcribed ==
    /\ driver = "flushing" /\ axe # "sent"
    /\ Started < MaxReplies
    /\ IF replyTask = NoReply
       THEN /\ Replying
            /\ driver' = "ready"
            /\ UNCHANGED <<doomed, told>>
       ELSE /\ Interrupted
            /\ driver' = "replacing"
            /\ UNCHANGED <<phase, replyTask, ttsSession>>
    /\ UNCHANGED <<session, axe, at, context, pump, made, taken, playVars, history>>

\* interrupt() has the reply's result, and returns.
InterruptReturns ==
    /\ driver \in {"barging", "replacing"} /\ axe # "sent"
    /\ replyTask \notin Live
    /\ driver' = "ready"
    /\ IF driver = "replacing"
       THEN Replying
       ELSE /\ replyTask' = NoReply
            /\ ttsSession' = NoReply
            /\ UNCHANGED <<tokenVars, phase>>
    /\ UNCHANGED <<session, axe, doomed, at, context, pumpVars, playVars, history>>

-----------------------------------------------------------------------------
(* The end of the socket *)

\* The client is gone, a frame was too large, or push_audio() raised: on a
\* closed session it always does.
HangUp ==
    /\ driver = "ready" /\ axe # "sent"
    /\ driver' = "hanging_up"
    /\ SenderCancelled
    /\ UNCHANGED <<session, tokenVars, axe, replyTask, ttsSession, replyVars, pumpVars,
                   output, heard, history>>

\* The rest of pipeline.aclose(), and manager.close(), which finds a session
\* that left the registry gone.  The token has fired; nobody reads the queue.
Released ==
    /\ driver' = "closed"
    /\ replyTask' = NoReply
    /\ ttsSession' = NoReply
    /\ session' = IF session = "active" THEN "closed" ELSE session

\* The sender is over: pipeline.aclose(), up to the reply it waits for, if any.
ClosePipeline ==
    /\ driver = "hanging_up" /\ axe # "sent"
    /\ sender \in {"stopped", "failed"}
    /\ Interrupted
    /\ IF replyTask = NoReply
       THEN Released
       ELSE driver' = "unwinding" /\ UNCHANGED <<session, replyTask, ttsSession>>
    /\ UNCHANGED <<axe, phase, at, context, pump, made, taken, playVars, history>>

Release ==
    /\ driver = "unwinding" /\ axe # "sent"
    /\ replyTask \notin Live
    /\ Released
    /\ UNCHANGED <<tokenVars, axe, replyVars, pumpVars, playVars, history>>

\* The server cancels the handler, once, when its patience is over.
CancelHandler ==
    /\ driver \notin {"closed", "aborted"}
    /\ axe = "none"
    /\ axe' = "sent"
    /\ UNCHANGED <<session, tokenVars, driver, replyTask, ttsSession, replyVars, pumpVars,
                   playVars, history>>

\* It sees CancelledError: a gather raises it when what it waits for is over.
\* In the try block it leads to the finally block, from there out of it.
HandlerCancelled ==
    /\ axe = "sent"
    /\ axe' = "seen"
    /\ \/ /\ driver \in {"ready", "flushing", "barging", "replacing"}
          /\ driver \in {"barging", "replacing"} => replyTask \notin Live
          /\ driver' = "hanging_up"
          /\ SenderCancelled
       \/ /\ \/ driver = "hanging_up" /\ sender \in {"stopped", "failed"}
             \/ driver = "unwinding" /\ replyTask \notin Live
          /\ driver' = "aborted"
          /\ UNCHANGED sender
    /\ UNCHANGED <<session, tokenVars, replyTask, ttsSession, replyVars, pumpVars, output,
                   heard, history>>

\* The reaper takes the session's slot, and closes it a while later.
Reaped ==
    /\ session = "active"
    /\ session' = "reaped"
    /\ UNCHANGED <<tokenVars, driverVars, replyVars, pumpVars, playVars, history>>

\* session.aclose() by the reaper, by DELETE or by the shutdown.
SessionClosed ==
    /\ session # "closed"
    /\ session' = "closed"
    /\ fired' = TRUE
    /\ doomed' = doomed \cup (IF fired THEN {} ELSE Live \cap bound)
    /\ UNCHANGED <<bound, driverVars, phase, at, context, pumpVars, playVars, history>>

-----------------------------------------------------------------------------
(* A reply: _run_reply() over _OrpheusSession.audio() *)

\* The history is read and the TTS session made.
ReplyStarts(r) ==
    /\ phase[r] = "created" /\ r \notin doomed
    /\ phase' = [phase EXCEPT ![r] = "text"]
    /\ context' = [context EXCEPT ![r] = Len(history)]
    /\ ttsSession' = r
    /\ UNCHANGED <<session, tokenVars, driver, axe, replyTask, doomed, at, pumpVars,
                   playVars, history>>

\* A sentence of the text is complete: _dispatch() starts its pump.
Dispatch(r) ==
    LET n == Sentences(r) + 1 IN
    /\ phase[r] = "text" /\ r \notin doomed
    /\ n <= MaxSentences
    /\ Cardinality({p \in Pumps : pump[p] # "none"}) < MaxPumps
    /\ pump' = [pump EXCEPT ![<<r, n>>] = "running"]
    /\ UNCHANGED <<session, tokenVars, driverVars, replyVars, told, made, taken, playVars,
                   history>>

\* The LLM has no more text.
TextEnds(r) ==
    /\ phase[r] = "text" /\ r \notin doomed
    /\ phase' = [phase EXCEPT ![r] = "draining"]
    /\ UNCHANGED <<session, tokenVars, driverVars, doomed, at, context, pumpVars, playVars,
                   history>>

\* put() on the playback queue, which drops its oldest chunk when full.
Played(chunk) ==
    output' = Append(IF Len(output) < OutputSize THEN output ELSE Tail(output), chunk)

\* Seeded bug: chunks are taken from whichever pump has one.
Bug_TakesFromAny(r) ==
    \E n \in 1 .. Sentences(r) :
        LET p == <<r, n>> IN
        /\ phase[r] = "draining" /\ r \notin doomed
        /\ taken[p] < made[p]
        /\ taken' = [taken EXCEPT ![p] = @ + 1]
        /\ Played(<<r, n, taken[p] + 1>>)
        /\ UNCHANGED <<session, tokenVars, driverVars, replyVars, told, pump, made, sender,
                       heard, history>>

\* The next chunk of the sentence being drained goes to the playback queue.
TakeChunk(r) ==
    /\ phase[r] = "draining" /\ r \notin doomed
    /\ at[r] <= Sentences(r)
    /\ LET p == <<r, at[r]>> IN
        /\ taken[p] < made[p]
        /\ taken' = [taken EXCEPT ![p] = @ + 1]
        /\ Played(<<r, at[r], taken[p] + 1>>)
    /\ UNCHANGED <<session, tokenVars, driverVars, replyVars, told, pump, made, sender, heard,
                   history>>

\* Seeded bug: a pump's exception is not raised again.
Bug_SentenceEndsWell(r) ==
    /\ phase[r] = "draining" /\ r \notin doomed
    /\ at[r] <= Sentences(r)
    /\ LET p == <<r, at[r]>> IN taken[p] = made[p] /\ pump[p] # "running"
    /\ at' = [at EXCEPT ![r] = @ + 1]
    /\ UNCHANGED <<session, tokenVars, driverVars, phase, doomed, context, pumpVars, playVars,
                   history>>

\* The sentinel: on to the next sentence, or the pump's exception ends the
\* reply.  The pumps of other sentences run on.
SentenceEnds(r) ==
    /\ phase[r] = "draining" /\ r \notin doomed
    /\ at[r] <= Sentences(r)
    /\ LET p == <<r, at[r]>> IN
        /\ taken[p] = made[p]
        /\ pump[p] # "running"
        /\ IF pump[p] = "failed"
           THEN phase' = [phase EXCEPT ![r] = "over"] /\ UNCHANGED at
           ELSE at' = [at EXCEPT ![r] = @ + 1] /\ UNCHANGED phase
    /\ UNCHANGED <<session, tokenVars, driverVars, doomed, context, pumpVars, playVars, history>>

\* Everything is drained: the turn is recorded, and saved if there is a sink.
Record(r) ==
    /\ phase[r] = "draining" /\ r \notin doomed
    /\ at[r] > Sentences(r)
    /\ history' = Append(history, r)
    /\ \E next \in {"sink", "over"} : phase' = [phase EXCEPT ![r] = next]
    /\ UNCHANGED <<session, tokenVars, driverVars, doomed, at, context, pumpVars, playVars>>

Saved(r) ==
    /\ phase[r] = "sink" /\ r \notin doomed
    /\ phase' = [phase EXCEPT ![r] = "over"]
    /\ UNCHANGED <<session, tokenVars, driverVars, doomed, at, context, pumpVars, playVars,
                   history>>

\* The voice is unknown, the LLM or the database fails.
ReplyFails(r) ==
    /\ phase[r] \in {"created", "text", "sink"} /\ r \notin doomed
    /\ phase' = [phase EXCEPT ![r] = "over"]
    /\ UNCHANGED <<session, tokenVars, driverVars, doomed, at, context, pumpVars, playVars,
                   history>>

\* CancelledError, wherever the reply waits; one that never ran never does.
\* Nothing in audio() stops the pumps then.
ReplyCancelled(r) ==
    /\ r \in doomed
    /\ phase' = [phase EXCEPT ![r] = "over"]
    /\ doomed' = doomed \ {r}
    /\ UNCHANGED <<session, tokenVars, driverVars, at, context, pumpVars, playVars, history>>

-----------------------------------------------------------------------------
(* Pumps and the sender *)

\* A decoded chunk is queued, unless _cancelled is seen first.  What a pump
\* queues for a reply that is over nobody takes, and it is left out.
PumpChunk(p) ==
    /\ pump[p] = "running" /\ p[1] \in Live \ told
    /\ made[p] < MaxChunks
    /\ made' = [made EXCEPT ![p] = @ + 1]
    /\ UNCHANGED <<session, tokenVars, driverVars, replyVars, told, pump, taken, playVars,
                   history>>

\* The synthesis is complete, stopped by _cancelled, or raises; the sentinel
\* is queued in each case.
PumpEnds(p) ==
    /\ pump[p] = "running"
    /\ \E end \in {"done", "failed", "stopped"} :
        /\ end = "stopped" => p[1] \in told
        /\ pump' = [pump EXCEPT ![p] = end]
    /\ UNCHANGED <<session, tokenVars, driverVars, replyVars, told, made, taken, playVars,
                   history>>

\* output() yields the next chunk, send_bytes() begins.
Send ==
    /\ sender = "getting"
    /\ output # <<>>
    /\ heard' = Head(output)
    /\ output' = Tail(output)
    /\ sender' = "sending"
    /\ UNCHANGED <<session, tokenVars, driverVars, replyVars, pumpVars, history>>

\* It is sent, or raises, which nobody hears of until the socket ends.
Sent ==
    /\ sender = "sending"
    /\ sender' \in {"getting", "failed"}
    /\ UNCHANGED <<session, tokenVars, driverVars, replyVars, pumpVars, output, heard, history>>

SenderStops ==
    /\ sender = "doomed"
    /\ sender' = "stopped"
    /\ UNCHANGED <<session, tokenVars, driverVars, replyVars, pumpVars, output, heard, history>>

Next ==
    \/ SpeechStarts \/ SpeechEnds \/ NothingHeard \/ Transcribed \/ InterruptReturns
    \/ HangUp \/ ClosePipeline \/ Release \/ CancelHandler \/ HandlerCancelled
    \/ Reaped \/ SessionClosed
    \/ \E r \in Replies :
        \/ ReplyStarts(r) \/ Dispatch(r) \/ TextEnds(r) \/ TakeChunk(r) \/ SentenceEnds(r)
        \/ Record(r) \/ Saved(r) \/ ReplyFails(r) \/ ReplyCancelled(r)
    \/ \E p \in Pumps : PumpChunk(p) \/ PumpEnds(p)
    \/ Send \/ Sent \/ SenderStops

Spec == Init /\ [][Next]_vars

\* The loop resumes what is ready.  Nothing makes the client speak, the LLM
\* produce text, the GPU audio, the transcriber, the database or the socket
\* answer: a call must end although they hang.
Fairness ==
    /\ WF_vars(InterruptReturns) /\ WF_vars(ClosePipeline) /\ WF_vars(Release)
    /\ WF_vars(HandlerCancelled) /\ WF_vars(SenderStops)
    /\ \A r \in Replies : WF_vars(ReplyCancelled(r))

FairSpec == Spec /\ Fairness

-----------------------------------------------------------------------------
Before(c, d) ==
    \/ c[1] < d[1]
    \/ c[1] = d[1] /\ c[2] < d[2]
    \/ c[1] = d[1] /\ c[2] = d[2] /\ c[3] < d[3]

(* The client hears the replies in the order of its questions, the          *)
(* sentences of each in the order of the text although they are synthesised *)
(* concurrently, and no chunk twice; chunks may be missing.                 *)
HeardInOrder == [][heard' # heard => Before(heard, heard')]_vars

(* Whatever the interleaving of questions, interrupts and failures, a reply *)
(* that runs is the one the pipeline holds, and can be stopped: it is bound *)
(* to a token that is armed, or has a cancellation on its way.              *)
LiveReplyStoppable ==
    \A r \in Live :
        /\ r = replyTask
        /\ r \in doomed \/ (r \in bound /\ ~fired)

(* A barge-in stops the synthesis (cancellation.py): no pump runs on        *)
(* unaware for a reply the pipeline has let go of, also when that reply had *)
(* failed before, or never saw its pumps.                                   *)
NoStraySynthesis ==
    \A p \in Pumps : pump[p] = "running" => p[1] \in told \cup {replyTask}

(* A reply is recorded right after the history it was given: no other turn  *)
(* slips in between its question and its answer.                            *)
NoStaleContext ==
    \A r \in Replies : phase[r] \in {"text", "draining"} => context[r] = Len(history)

(* What the history says the assistant said was synthesised to the end: no  *)
(* sentence of a recorded reply failed, was cut short or left undrained.    *)
RecordedWasSaid ==
    \A i \in DOMAIN history : \A n \in 1 .. Sentences(history[i]) :
        LET p == <<history[i], n>> IN pump[p] = "done" /\ taken[p] = made[p]

(* A barge-in, a question that replaces a reply and the end of the socket   *)
(* get through although the LLM, the synthesis and the database hang: the   *)
(* handler does not wait for ever, and at the end of it no reply is left    *)
(* and the session's slot is free, unless the server cancels the handler.   *)
CallEnds ==
    /\ driver \in {"barging", "replacing"} ~> driver \notin {"barging", "replacing"}
    /\ driver = "hanging_up" ~>
        axe # "none" \/ (driver = "closed" /\ Live = {} /\ session # "active")

(* "they must stop three things at once: ... and playback" (cancellation.py *)
(* lines 3 to 6): once an interrupt is over, no audio is left to be played. *)
PlaybackStops ==
    driver = "ready" /\ replyTask = NoReply => output = <<>>

(* "The state flips to CLOSING, so new work is refused immediately"         *)
(* (Session.aclose): no reply runs on a closed session.                     *)
NoReplyOnClosedSession ==
    session = "closed" => Live \subseteq doomed

=============================================================================
