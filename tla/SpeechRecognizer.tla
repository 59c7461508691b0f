--------------------------- MODULE SpeechRecognizer ---------------------------
(***************************************************************************)
(* Speech recognition of asr/nemotron.py: a session per call that collects *)
(* the frames of an utterance, and one model that transcribes for all of   *)
(* them in threads, behind a semaphore.                                    *)
(*                                                                         *)
(* A frame is its number in the call. Generation keeps its working state   *)
(* on the model object it was given and removes it when it ends. The gate  *)
(* is asyncio.Semaphore: first come first served, a release handing its    *)
(* permit to the first waiter.                                             *)
(***************************************************************************)
EXTENDS Integers, Sequences, FiniteSets, SequencesExt, FiniteSetsExt

CONSTANTS AsrCalls,  \* the calls, each with a session and a handler task
          MaxBatch,  \* max_batch_size
          MaxFrames  \* bound on the frames of a call

ASSUME AsrAssumption == MaxBatch \in Nat \ {0} /\ MaxFrames \in Nat

VARIABLES asrClosed,     \* _closed
          chunks,        \* _chunks
          request,       \* the handler: "idle", "waiting", "woken" or "thread"
          audio,         \* what its flush() is about
          permits,       \* the gate's value
          waiters,       \* the calls in its line
          thread,        \* the call's thread in the executor
          view,          \* the model object a thread generates with
          workingState,  \* whose working state is on a model object
          loaded,        \* _model is there
          pushed,        \* history: frames pushed
          settled        \* history: frames transcribed, or given up

asrVars == <<asrClosed, chunks, request, audio, permits, waiters, thread, view,
             workingState, loaded, pushed, settled>>

SharedModel == "shared"
NoOne == "no one"
Models == AsrCalls \cup {SharedModel}

AsrInit ==
    /\ asrClosed = [c \in AsrCalls |-> FALSE]
    /\ chunks = [c \in AsrCalls |-> <<>>]
    /\ request = [c \in AsrCalls |-> "idle"]
    /\ audio = [c \in AsrCalls |-> <<>>]
    /\ permits = MaxBatch
    /\ waiters = <<>>
    /\ thread = [c \in AsrCalls |-> "none"]
    /\ view = [c \in AsrCalls |-> SharedModel]
    /\ workingState = [m \in Models |-> NoOne]
    /\ loaded = TRUE
    /\ pushed = [c \in AsrCalls |-> 0]
    /\ settled = [c \in AsrCalls |-> <<>>]

gateVars == <<permits, waiters>>
threadVars == <<thread, view, workingState, loaded>>

\* The places in a line of its first n sleeping waiters.
FirstAsleep(line, requests, n) ==
    {k \in DOMAIN line : /\ requests[line[k]] = "waiting"
                         /\ Cardinality({j \in 1 .. k : requests[line[j]] = "waiting"}) <= n}

\* The gate with this line and free permits, of which it hands up to limit to
\* its first sleeping waiters: one in release(), all when a waiter leaves.
Hand(line, requests, free, limit) ==
    LET given == FirstAsleep(line, requests, Min({free, limit}))
    IN /\ waiters' = line
       /\ permits' = free - Cardinality(given)
       /\ request' = [d \in AsrCalls |->
                         IF \E k \in given : line[k] = d THEN "woken" ELSE requests[d]]

-----------------------------------------------------------------------------

PushFrame(c) ==
    /\ request[c] = "idle" /\ ~asrClosed[c]
    /\ pushed[c] < MaxFrames
    /\ pushed' = [pushed EXCEPT ![c] = @ + 1]
    /\ chunks' = [chunks EXCEPT ![c] = Append(@, pushed[c] + 1)]
    /\ UNCHANGED <<asrClosed, request, audio, gateVars, threadVars, settled>>

\* flush(): the chunks are taken before the gate is awaited.
TakeChunks(c) ==
    /\ audio' = [audio EXCEPT ![c] = chunks[c]]
    /\ chunks' = [chunks EXCEPT ![c] = <<>>]

FlushSpeech(c) ==
    /\ request[c] = "idle" /\ chunks[c] # <<>>
    /\ TakeChunks(c)
    /\ IF permits > 0 /\ waiters = <<>>
       THEN /\ permits' = permits - 1
            /\ request' = [request EXCEPT ![c] = "thread"]
            /\ thread' = [thread EXCEPT ![c] = "submitted"]
            /\ UNCHANGED waiters
       ELSE /\ waiters' = Append(waiters, c)
            /\ request' = [request EXCEPT ![c] = "waiting"]
            /\ UNCHANGED <<permits, thread>>
    /\ UNCHANGED <<asrClosed, view, workingState, loaded, pushed, settled>>

\* Through the gate: asyncio.to_thread().
EnterGate(c) ==
    /\ request[c] = "woken"
    /\ Hand(RemoveFirst(waiters, c), [request EXCEPT ![c] = "thread"], permits, MaxBatch)
    /\ thread' = [thread EXCEPT ![c] = "submitted"]
    /\ UNCHANGED <<asrClosed, chunks, audio, view, workingState, loaded, pushed, settled>>

\* Seeded bug: a transcription works on the shared model itself.
Bug_ViewShared(c) == SharedModel

\* _view(): a copy of the model for this transcription.
ViewOf(c) == c

\* _transcribe_sync(), in its thread, up to generate() ...
GenerateStarts(c) ==
    /\ thread[c] = "submitted"
    /\ IF loaded
       THEN /\ view' = [view EXCEPT ![c] = ViewOf(c)]
            /\ thread' = [thread EXCEPT ![c] = "generating"]
            /\ workingState' = [workingState EXCEPT ![ViewOf(c)] = c]
       ELSE /\ thread' = [thread EXCEPT ![c] = "failed"]
            /\ UNCHANGED <<view, workingState>>
    /\ UNCHANGED <<asrClosed, chunks, request, audio, gateVars, loaded, pushed, settled>>

\* ... and from its return, or its exception, on.
GenerateEnds(c) ==
    /\ thread[c] = "generating"
    /\ \E result \in {"done", "failed"} : thread' = [thread EXCEPT ![c] = result]
    /\ workingState' = [workingState EXCEPT ![view[c]] = NoOne]
    /\ UNCHANGED <<asrClosed, chunks, request, audio, gateVars, view, loaded, pushed, settled>>

\* The handler gets its transcript, or the exception, and leaves the gate.
Answered(c) ==
    /\ request[c] = "thread" /\ thread[c] \in {"done", "failed"}
    /\ Hand(waiters, [request EXCEPT ![c] = "idle"], permits + 1, 1)
    /\ thread' = [thread EXCEPT ![c] = "none"]
    /\ settled' = [settled EXCEPT ![c] = @ \o audio[c]]
    /\ audio' = [audio EXCEPT ![c] = <<>>]
    /\ UNCHANGED <<asrClosed, chunks, view, workingState, loaded, pushed>>

\* aclose() of a session, by its pipeline once the handler is not in flush().
CloseAsr(c) ==
    /\ request[c] = "idle" /\ ~asrClosed[c]
    /\ asrClosed' = [asrClosed EXCEPT ![c] = TRUE]
    /\ settled' = [settled EXCEPT ![c] = @ \o chunks[c]]
    /\ chunks' = [chunks EXCEPT ![c] = <<>>]
    /\ UNCHANGED <<request, audio, gateVars, threadVars, pushed>>

\* The handler is cancelled in flush(): it leaves the line, or gives its permit
\* back, and the pipeline closes. A thread that has started runs on, without
\* a permit; one the executor has not started is dropped.
CancelFlush(c) ==
    /\ request[c] # "idle"
    /\ Hand(RemoveFirst(waiters, c), [request EXCEPT ![c] = "idle"],
            permits + (IF request[c] = "waiting" THEN 0 ELSE 1),
            IF request[c] = "thread" THEN 1 ELSE MaxBatch)
    /\ thread' = [thread EXCEPT ![c] = IF @ = "submitted" THEN "none" ELSE @]
    /\ settled' = [settled EXCEPT ![c] = @ \o audio[c] \o chunks[c]]
    /\ audio' = [audio EXCEPT ![c] = <<>>]
    /\ chunks' = [chunks EXCEPT ![c] = <<>>]
    /\ asrClosed' = [asrClosed EXCEPT ![c] = TRUE]
    /\ UNCHANGED <<view, workingState, loaded, pushed>>

\* NemotronASR.aclose(), at shutdown, whoever is still transcribing.
UnloadAsr ==
    /\ loaded
    /\ loaded' = FALSE
    /\ UNCHANGED <<asrClosed, chunks, request, audio, gateVars, thread, view,
                   workingState, pushed, settled>>

AsrNext ==
    \/ \E c \in AsrCalls :
          \/ PushFrame(c) \/ FlushSpeech(c) \/ EnterGate(c) \/ GenerateStarts(c)
          \/ GenerateEnds(c) \/ Answered(c) \/ CloseAsr(c) \/ CancelFlush(c)
    \/ UnloadAsr

AsrSpec == AsrInit /\ [][AsrNext]_asrVars

-----------------------------------------------------------------------------

\* A transcription finds its own working state until it ends.
OwnWorkingState ==
    \A c \in AsrCalls : thread[c] = "generating" => workingState[view[c]] = c

\* Permits are free, handed to a woken waiter, or held by a transcription that
\* is waited for; when one is free, nobody sleeps in the line unless a woken
\* waiter, who will wake the next, is still in it.
PermitsAddUp ==
    /\ permits >= 0
    /\ permits + Cardinality({c \in AsrCalls : request[c] \in {"woken", "thread"}}) = MaxBatch
    /\ permits > 0 => \/ \A c \in AsrCalls : request[c] # "waiting"
                      \/ \E c \in AsrCalls : request[c] = "woken"

\* Each frame is waiting, being transcribed or settled, once, in order.
FramesOnce ==
    \A c \in AsrCalls :
        settled[c] \o audio[c] \o chunks[c] = [k \in 1 .. pushed[c] |-> k]

\* Several calls transcribe at once without disturbing each other, whichever
\* of them fail, are cancelled or close: no generation loses its working state
\* to another one's cleanup (nemotron.py:90-96), no permit of the gate is lost
\* or doubled, and no frame is transcribed twice or forgotten.
TranscriptionsApart == OwnWorkingState /\ PermitsAddUp /\ FramesOnce
==============================================================================
