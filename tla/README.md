# TLA+ verification of Orphus

Orphus is a voice agent: a client streams audio over a WebSocket, a voice
activity detector cuts it into questions, speech recognition transcribes them, a
language model answers, and Orpheus speaks the answer sentence by sentence while
the client may interrupt at any time. It is one asyncio process. Its code is
sequential between two awaits, so what can go wrong lies in what other tasks do
during an await: cancellations, closes from outside, barge-ins, timeouts.

This directory holds the models of that core and of the parts around it, the TLC
runs that check them and the TLAPS proofs of nearly all safety properties the runs
check, for every value of the constants. `PROJECT.json` is the index: components, runs,
seeded bugs, findings, hazards, theorems and, for each definition, the source lines
it translates. Paths below are relative to `src/src/orphus/`.

## The system

| component | state | operations | talks to |
| --- | --- | --- | --- |
| queue (`queue/`) | items or heap, waiters, counters, closed | put under three overflow policies, get, get_nowait, clear, drain, remove_if, close | the worker pool, the playback of a pipeline |
| worker pool (`scheduler/pool.py`) | priority queue, worker tasks, running items | start, submit, cancel_session, aclose | its submitters, by futures |
| cancellation token (`conversation/cancellation.py`) | event, reason, generation, bound tasks, callbacks | cancel, reset, bind, guard, wait, on_cancel | one per session; the pipeline fires and re-arms it |
| session (`conversation/session.py`) | ACTIVE, CLOSING or CLOSED, close lock, cleanup hooks, turns | aclose, add_cleanup, touch, begin_turn, barge_in, record_turn | its token, its history |
| session manager (`conversation/manager.py`) | registry under a ceiling, closed | create, get, close, reap, aclose | API routes, reaper, lifespan |
| reaper and lifespan (`api/app.py`) | two tasks | load the models; sweep on a timer; cancel the reaper, close the sessions, unload the models | the manager, the runtime |
| voice socket (`api/app.py`) | handler task and sender task | receive frames, send chunks, clean up | one pipeline, the manager |
| voice pipeline (`streaming/pipeline.py`) | reply task, TTS session, playback queue | push_audio, interrupt, start_reply, output, aclose | VAD, ASR, LLM, TTS, the session |
| TTS session (`tts/orpheus.py`) | one pump task and queue per sentence, cancelled flag | dispatch, drain in order, cancel | the token decoder |
| token decoder (`tts/orpheus.py`) | tokens seen, buffer, count | take a callback's tokens, decode windows, abort | vLLM, in callbacks of any size |
| LLM provider (`providers/grok.py`) | failures, breaker, usage by session | stream_chat with retries, last_usage, health | an HTTP API |
| speech recognition (`asr/nemotron.py`) | chunks per session, a semaphore, the model | push, flush, aclose; transcribe in threads | worker threads |
| voice activity (`vad/silero.py`) | a network and counters per session | open_session, process, reset | the pipeline, by events |
| history (`conversation/history.py`) | messages, budgets | add, extend, trim, snapshot, restore | the session |
| inbound audio (`audio/`) | ring buffer, partial frame, resampler phase | push, flush, reset | the voice socket |
| key check and limiter (`middleware/`) | hits per client | authenticate, check, sweep | API routes |
| health registry (`observability/health.py`) | probes by name | register, unregister, check | `/health` |
| model runtime (`runtime.py`, `observability/metrics.py`) | components, GPU poller, NVML | load, pipeline, aclose | lifespan |
| configuration (`config/settings.py`) | a cached instance, overrides | load_settings, clear | the environment and files |
| logging, persistence, scripts, entry points | see `PROJECT.json` | | |

What is hard in it, and the property each part owes:

* *queue*: a consumer can be cancelled after a producer has woken it. No wakeup
  may be lost, no item unaccounted for, no order broken, whatever the policy.
* *pool*: futures belong to submitters, who cancel them whenever they like; the
  drain has a timeout. Nothing may be lost, run twice, or run after its
  cancellation, and the close must come back.
* *token*: a fire is delivered later than it is sent, and the token may be re-armed
  in between. It must stop its own turn, all of it, and never the next one.
* *sessions*: up to four parties close one session. Hooks run once, in order, to
  the end; nobody returns early; no session is left behind.
* *pipeline*: a reply is a task, plus pumps, plus what is already queued for
  playback, and any await may see it replaced. Nothing may run on behind an
  interrupt, history and audio keep their order, and the call must end although a
  provider hangs.
* *audio and speech*: a stream arrives in pieces that mean nothing. What comes out may
  not depend on them: no sample lost, shifted or dated wrongly, no token skipped, and
  no call may disturb another one's network or transcription.
* *history*: two budgets are cut from one list; the newest turns must survive, whole.
* *LLM provider*: calls that fail, succeed and are retried at once share one breaker.
* *limiter, health, runtime, settings*: decisions at the very edge of a window or a
  timeout; probes that come and go during a check; a shutdown that must close
  everything although a part of it fails; settings that must come from the right source.

## The modules

| module | models | composed with |
| --- | --- | --- |
| `Channel` | the abstract promise of a queue: a bounded channel that loses only what its policy says, serves a waiting consumer when it holds something, and tells everyone when it is closed | |
| `BoundedQueue` | `_QueueBase`, `BoundedQueue` and `PriorityBoundedQueue`; one action per put outcome, per way a `get` ends and per maintenance call | refines `Channel` |
| `MCBoundedQueue` | priorities for TLC | extends `BoundedQueue` |
| `DataLemmas` | lemmas about finite sets, numbers and lines of waiters | used by the modules of proofs |
| `BoundedQueueProofs` | the TLAPS proofs | extends `BoundedQueue` |
| `WorkerPool` | the worker loop over a priority queue, with submitters and the two-phase close | `MCWorkerPool` gives items their sessions and priorities |
| `WorkerPoolProofs` | the TLAPS proofs | extends `WorkerPool` |
| `CancellationToken` | the token with a plain task, a guard, a waiter and a listener | |
| `SessionManager` | registry, close lock and hooks, reaper, lifespan | |
| `SessionManagerProofs` | the TLAPS proofs | extends `SessionManager` |
| `VoicePipeline` | one call: socket handler, pipeline, replies, pumps, sender | with the effect of a session's close on its token |
| `VoicePipelineProofs` | the TLAPS proofs | extends `VoicePipeline` |
| `AudioRing` | the ring buffer's cells, head and size | in `MCSpeech` |
| `InboundAudio` | resampler, frame slicer and the pipeline that composes them | in `MCSpeech` |
| `SpeechDetector` | the counters behind `SPEECH_STARTED` and `SPEECH_ENDED`, one network per call | in `MCSpeech` |
| `SpeechRecognizer` | sessions, gate, worker threads and the shared model of the ASR | in `MCSpeech` |
| `SpeechDecoder` | the token decoder of one sentence, vLLM's callbacks | in `MCSpeech` |
| `ConversationHistory` | the window over the transcript | in `MCSpeech` |
| `GrokProvider` | completions, retries, breaker, usage | in `MCSpeech` |
| `SpeechProofs` | the TLAPS proofs about the cancellation token, the detector, the recogniser, the decoder and the provider | extends those five |
| `AudioProofs` | the TLAPS proofs about the ring and the inbound audio | extends those two |
| `RequestGate` | the key check and the limiter behind it | in `MCService` |
| `HealthRegistry` | probes, the requests that run them and the event loop they share | in `MCService` |
| `ModelRuntime` | load, service and shutdown of the shared models, the GPU collector | in `MCService` |
| `Settings` | sources, merge, cache and overrides | in `MCService` |
| `ServiceProofs` | the TLAPS proofs about the four parts of `MCService` | extends those four |

`MCSpeech` and `MCService` are sums: their parts share no state in the code either
(what they do to each other through a call is in `VoicePipeline`), so a behaviour
chooses one of them at the start and runs it alone. That is one run instead of
seven, over the same states, and nothing of a part is cut short by it.

**State and actions.** Variables carry the names of the fields they stand for
(`_waiters` is `waiters`, `_reply_task` is `replyTask`); comments in the modules
say which. An action is a stretch of code between two awaits of one task, so a
`get` is several actions (park, resume and serve, resume and park again, be
cancelled) and a `put` is one. An asyncio cancellation is two steps as well: it
is sent, and the task sees it when it is resumed next. Tasks that were sent one
and have not seen it are in a set (`doomed`).

**Abstractions.** Items, hooks and sentences are numbers; the heap is the set of
its entries with their order; audio is a chunk's place in its reply. Names, log
lines, metrics and latencies are left out. That `remove_if` and an eviction make
a heap again of what they leave is taken from `heapq`. The queue inside the pool
and the one inside the pipeline appear as what `BoundedQueue` shows them to be. In
`VoicePipeline` a reply takes one chunk a step where the code takes all that are
ready, and the VAD may report any sequence of events, as its protocol allows and
the pipeline's test does. asyncio's lock, semaphore, futures and task cancellation
are modelled from CPython's behaviour that the code relies on: FIFO waiters, a
cancelled waiter passing a wakeup on, a task cancelled before its first step
never running, and a `gather` passing its cancellation to its children.

Signals are positions. A sample in `AudioRing` and `InboundAudio` is its place in
the stream, and a resampled one is the stretch of the input its filter covers with
the row of the filter table; so a model can tell a lost, doubled or shifted sample
without computing one. The network of `SpeechDetector` gives any verdict, and all
that is kept of its memory is whose frames it has seen. A token of `SpeechDecoder` is
the slot that decides whether it is skipped. A message of `ConversationHistory` is a role
and a length, a completion of `GrokProvider` its usage figures and its end. An API
key is its last sixteen characters and the rest, because the limiter's buckets see
only the former. A source of `Settings` is a tree with what it does not say left out.
History variables (`written`, `transcript`, `admitted`, `log` ...) remember what the code
forgets, and the properties compare the code's state with them.

## The runs

| run | module | question | bounds | states |
| --- | --- | --- | --- | --- |
| `queue` | `MCBoundedQueue` | are wakeups, items, order and counters kept under each policy, and does the queue implement `Channel`, liveness included? | 2 consumers, 5 offers, 2 priorities, capacity 2 | 386,000 |
| `pool_drains` | `MCWorkerPool` | does the pool answer, cancel and close properly? | 2 workers, 3 items of 2 sessions, capacity 2 | 42,000 |
| `pool_dead_worker` | `MCWorkerPool` | *finding*: is accepted work always answered? | 1 worker, 2 items | |
| `token` | `CancellationToken` | does a fire stop its own turn and no other? | 3 turns, a task, a guard, a waiter, a listener | 50,000 |
| `sessions` | `SessionManager` | is teardown done once, in order, to the end, whoever is cancelled; is no session left behind, and does the reaper free every seat? | 2 sessions, 2 hooks, 1 caller beside reaper and shutdown | 112,000 |
| `sessions_shutdown` | `SessionManager` | *finding*: does the shutdown close every session? | 1 session | |
| `call` | `VoicePipeline` | does a call keep track of its replies, keep order, and end? | 2 replies, 2 sentences, 1 chunk each, a queue of 1 | 407,000 |
| `call_playback` | `VoicePipeline` | *finding*: does a barge-in stop the playback? | as `call` | |
| `call_late_reply` | `VoicePipeline` | *finding*: does a closed session refuse new replies? | as `call` | |
| `speech` | `MCSpeech` | does each part a pipeline is made of do what its reference says, in whatever pieces its input comes? | see below | 334,000 |
| `grok_usage` | `GrokProvider` | *finding*: are the usage figures those of the last completion? | 1 session | |
| `service` | `MCService` | do limiter, health, runtime and settings keep their promises at their edges? | see below | 739,000 |

What the two sum runs compare with what:

| property | part | reference |
| --- | --- | --- |
| `RingKeepsNewest` | ring | the newest samples of everything written; nothing dropped while there is room |
| `SignalKept` | resampler and slicer | the whole signal resampled at once, each output around its own position |
| `FramesDated` | slicer | the true time of a frame's first sample, within a payload and half a kernel |
| `UtterancesHeard` | VAD | the runs of the verdicts heard, of this call alone |
| `TranscriptionsApart` | ASR | each frame settled once; permits conserved; no working state lost to another call |
| `DecodedByToken` | decoder | a decoder called back for every single token |
| `HistoryWindow` | history | the transcript since the last clear: its newest turns that fit, no fewer |
| `BreakerCounts` | LLM provider | the log of all failures, successes and resets |
| `WindowExact` | limiter | all admissions ever made to a client |
| `ReportWhole` | health | the probes registered when the request came; one timeout, and the time that probes held the loop |
| `ShutsDownWhole` | runtime | what was loaded: all closed, and only after the last call |
| `HighestSourceWins` | settings | for each key, the highest source that says something |

**Why the bounds are enough.** The hazards are races of two or three parties over
one resource, and each configuration has one party more than the race needs, or
as many where the state space forbids it. The queue has two consumers, so that a
wakeup can be handed from a cancelled one to the other; its capacity is reached and
overrun in two bands, and with all entries in one band it is the FIFO queue. A close lock has up to three
contenders for one session: a caller, the reaper's child and another party's, and
one may leave the middle of the line. `token` has three turns, so a fire of the first
could reach the third. Two sentences can complete in the wrong order or fail
apart from each other; two replies can overlap; a playback queue of one drops
chunks as soon as the second arrives. `VoicePipeline` also passes with two chunks
per sentence (1.8 million states); the run is kept smaller. What two sentences in
each of two replies do together has been checked for the invariants only (8.6 million
states).

In `speech` the ring of 3 is written 8 samples in blocks of up to 5: it wraps, is
overrun by one block and by several. `InboundAudio` has four streams: one channel
and two, down- and upsampling, a passthrough, a ratio that does not reduce to 1 and one with
more phases than the filter table has rows; 9 samples in payloads of 0 to 4 put a
boundary at each phase. Two calls hear 5 frames each with thresholds of 2
(rounded half to even) and 2 frames, so that an utterance starts, is interrupted, ends
and starts again. Three calls share a gate of two. A frame of 2 tokens and a
window of 2 frames with 6 tokens give three places for a window. Two turns
and 6 characters with messages of 1 and 3 make either budget the binding one. Two
sessions, a breaker at 2 and one retry let failures of one session open it under
the other. In `service` the limiter's window is two ticks and the clock runs
five, so a hit is inside, exactly at and past the edge; two keys share their tail. The readings
of the probes are both sides of each threshold. One request to `/health` is enough, because
requests share nothing but the registry, which changes during the one, and the loop, which one of
its two probes can hold before, during or after the other's timeout (two ticks, a timeout of
one). `check_memory` is left out of the run: it grades as `check_cuda` does and raises
as a custom probe does. Three values of each alias, one file layered over another, and a
change of the environment between two loads show a stale cache or a stale override.

**Seeded bugs.** Every property of a passing run has a bug it catches: an operator
`Bug_...` next to the definition it replaces, with a mistake one could make in
that code (a wakeup kept by a cancelled consumer, a return too early under the
close lock, a `bind` forgotten). They are not part of any specification.

**Fairness.** Weak fairness stands for the event loop: it resumes every task that is
ready. Producers, clients, submitters and the server's cancellations get none.
In `WorkerPool` operations are assumed to end; in `CancellationToken` a cancelled
task is assumed to stop; in `SessionManager` hooks end and the reaper's timer
goes off (its loop catches everything except a cancellation, `api/app.py:94-103`).
In `VoicePipeline` only resumptions are fair: the LLM, the GPU, the
transcription, the database and the network may hang, and the call must still
end. In `ModelRuntime` (`RuntimeFairness`) a component's `aclose()` ends or raises
and the handler goes on; nothing makes the load, the socket or the start of a shutdown happen.
The parts of `speech` and the rest of `service` are checked for safety and need none. What
`HealthRegistry` says of time rests on the loop being free but for the probes: timers fire when
they are due unless a probe holds it (`held` counts how long), and a cancelled probe stops at once.
`ModelRuntime` takes from the ASGI server that the lifespan is shut down after the
last socket has gone, as uvicorn does.

`CHECK_DEADLOCK FALSE` appears where the system may stop: a call that is over
(`call`), a stream, a sentence or a conversation at its bound (`speech`), a server that
has stopped (`service`).

## What is proved

Each theorem holds for every value of the constants that the assumptions named in the
component's module allow, so for any number of tasks, items, sessions, replies, calls,
and for any limit. The pattern is the same everywhere. The property the run checks is
seldom inductive; what it leaves unsaid (who holds the lock, whose task is bound, what
a counter counts) is said by the named parts of an invariant, each action has a lemma
which shows that it keeps them, and the theorem combines the two. The invariants were checked
by TLC before they were proved.

`BoundedQueueProofs` proves for every capacity, set of consumers, number of
offers, set of priorities and set of policies, from the assumptions named in
`BoundedQueue`:

| theorem | statement |
| --- | --- |
| `TypeCorrect` | `Spec => []TypeOK` |
| `WakeupNeverLost` | `Spec => []NoLostWakeup` |
| `BooksBalance` | `Spec => []Conservation` |
| `DepthBounded` | `Spec => []Bounded` |
| `ServedInOrder` | `Spec => []StableOrder` |
| `CloseWakesAll` | `Spec => []ClosedParksNobody` |
| `QueueImplementsChannel` | `Spec => Chan!ChanSafety`, the safety part of the refinement |

The argument has two layers. `Struct` is the inductive invariant about shape:
types, finiteness of what is stored, distinct ages of the entries, waiters that
are exactly the parked and woken consumers. It is what makes the queue's choices well defined: a
nonempty finite set has a next entry (`NextEntryPrecedes`) and an oldest one
(`OldestEntryIsOldest`), both from `FiniteMinimal` (in `DataLemmas`). It does not need the others,
so it is proved first (`StructStep`). `Books` adds the counters, the order and the
parked consumers; `NoLostWakeup` is inductive relative to `Struct`, by counting: each
transition that stores an entry wakes a sleeper (`WakeAddsOne`), each that takes a
wakeup away takes an entry too (`ResumeTakesOne`), hands it on, or leaves nobody
asleep. `Channel` hides the waiters, so `QueueImplementsChannel` shows that waking
and handing off are stuttering and that every other action is one of the channel's.

`WorkerPoolProofs` proves, for every nonempty finite set of workers, every number of items,
capacity, assignment of sessions and priorities, with submitters that cancel their futures
or not and operations that raise before they are tasks or not:

| theorem | statement |
| --- | --- |
| `PoolTypeCorrect` | `Spec => []TypeOK` |
| `RegistryAlwaysExact` | `Spec => []RegistryExact` |
| `FuturesTellTheTruth` | `Spec => []FutureTellsTruth` |
| `ClosesGracefully` | `Spec => []GracefulClose` |
| `CancelledStaysDown` | `Spec => CancelledNeverStarts` |

`RegistryExact` and `FutureTellsTruth` need each other's support: that a future is never
left pending by a finished operation depends on who holds the item. The invariant adds
`Waiting` (what is queued has not run, what is not submitted is nowhere), `Employed` (a
busy worker's item was started, any other worker has none) and `AllOrNone` (`start()` makes all
workers or none). Every way round the worker's loop ends in `Loop`, so `LoopKeeps`
states once what it needs of the futures and of the registry the worker leaves behind;
each action then has only to show that it provides that (`LetGo`). For the close,
`Drained` says that a worker returns only from a closed, empty queue and that an item which
still waits for its answer is queued, unless a worker died of it; `LoopDrains` shows that what the loop drops on its
way to the most urgent live item (`MostUrgentPrecedes`) was cancelled. So when the last worker
has returned, nothing is unanswered, whether or not the drain timed out.

`SpeechProofs` begins with the token and proves, for every set of tasks, guards, waiters and listeners
and any number of turns:

| theorem | statement |
| --- | --- |
| `TokenTypeCorrect` | `Spec => []TypeOK` |
| `FireStopsItsTurn` | `Spec => []TurnStopped` |
| `NoTurnKillsAnother` | `Spec => []NoLateKill` |
| `GuardLeavesNothing` | `Spec => []GuardOutcome` |

None of the three safety properties is inductive. What is missing is `BoundToTurn`: the
bound set holds the running tasks of the current turn, all of them while the token has not fired and
none of another turn. `cancel()` acts on the bound set only, so this is what makes
it stop its own turn and no other; `reset()` keeps it because it empties the set when
it starts a generation no task has. `GuardedOnly` says that a guard's task runs
only while `guard()` awaits it, and `FiredBefore` that the current turn is not among those that
fired while the token is armed, so that a guard the token stopped can take a fire for the end of
its caller only after a reset. `TokenInv` is their conjunction, and each action has a lemma.

`SessionManagerProofs` proves, for every set of sessions and of callers, any number of hooks,
any ceiling and any timeouts:

| theorem | statement |
| --- | --- |
| `SessionTypeCorrect` | `Spec => []TypeOK` |
| `TeardownDeterministic` | `Spec => []UnwoundOnce` |
| `CloseWaitsForTeardown` | `Spec => []ReturnedMeansClosed` |
| `NoZombies` | `Spec => []NoOrphanSession` |

That each hook runs once depends on who may hold the close lock. `Queued` says
that the lock's waiters are the tasks waiting for it, each once; `WokenFirst` that a woken
one is the first in line for a free lock; `Held` that a session is CLOSING exactly while
somebody runs its hooks, who has the lock. `Accounted` then counts the hooks: registered,
run, or still to be run, by the state of the session. The steps of a task in `aclose()` are alike
in what they do to the lock, so `LockMoves` states it and `LockStep` proves it once.
`Serving` is about the reaper and the lifespan, on which `NoOrphanSession` rests: one sweep is
over before the next begins and nothing cancels a sweep's children while the server runs. (A
shutdown may, which is the finding of `sessions_shutdown`.)

`VoicePipelineProofs` proves, for any number of replies, sentences and chunks and any size of
the playback queue:

| theorem | statement |
| --- | --- |
| `ReplyStoppable` | `Spec => []LiveReplyStoppable` |
| `SynthesisStopped` | `Spec => []NoStraySynthesis` |
| `ContextCurrent` | `Spec => []NoStaleContext` |
| `HistoryWasSaid` | `Spec => []RecordedWasSaid` |
| `PlaybackOrdered` | `Spec => HeardInOrder` |

What makes a reply stoppable is that the pipeline has not lost it: `Numbered` says
that the reply it holds is the last one started, `OneVoice` that its TTS session is that
reply's and was made before anything is synthesised, `StoppedTogether` that whoever waits for a
reply to end has cancelled it and its synthesis both. `Drained` records that the
sentences before the one being drained were played out, which is what `record_turn()`
at the end of the drain makes true of the history. For the order, `InOrder` says
that every chunk queued or heard comes before whatever can still be taken: a
cancelled reply leaves its chunks in the queue (the finding of `call_playback`), and the
next one's follow them.

`ServiceProofs` proves about the parts of `service`, for all sets of clients, probes, calls,
devices and sources, and all limits:

| theorem | statement |
| --- | --- |
| `LimiterExact` | `GateSpec => []WindowExact` |
| `HealthReportWhole` | `HealthSpec => []ReportWhole` |
| `CallsKeepTheirModels` | `RuntimeSpec => []ModelsOutliveCalls` |
| `StoppedIsClosed` | `RuntimeSpec => [](Stopped => ...)`, every component absent or closed |
| `SettingsLayered` | `SettingsSpec => []HighestSourceWins` |

The limiter forgets: `Tracked` says that a client's deque is the end of the list of its
admissions, and that what it lacks is out of the window; `Spaced` that an admission and
the one `MaxRequests` later are more than a window apart, which is the promise. For the
health report, `Underway` ties each result of a running check to the probe it came from,
although the registry changes meanwhile, and `Stands` bounds it in time: until a probe's first step
only probes had the loop, so its timeout begins no later than the check and the time they
held it. `Stages` says what may
be open, running and handed out at each stage of the lifespan handler; the two theorems
about the runtime are the safety conjuncts of `ShutsDownWhole`. `Layered` follows a
setting through merge, aliases, files, cache and overrides.

`SpeechProofs` also proves about four parts of `speech`:

| theorem | statement |
| --- | --- |
| `BreakerExact` | `GrokSpec => []BreakerCounts` |
| `TranscriptionsIsolated` | `AsrSpec => []TranscriptionsApart` |
| `VoicesToldApart` | `VadSpec => []UtterancesHeard` |
| `WindowsInOrder` | `DecSpec => []DecodedByToken` |

* *Breaker*: `GrokInv` says that the count is the row of failures at the end of the log and
  that the breaker opened at the last entry that made the row long enough; the lemmas say what
  an entry appended to the log does to either (`RowAppend`, `OpeningsAppend`).
* *Recogniser*: `Gate` is about the semaphore: the line is the requests that wait, permits and
  those who hold one make up `MaxBatch`, and nobody sleeps beside a free permit. Handing a
  permit on and leaving the line are lemmas of their own (`HandKeeps`, `StepsOut`), as they
  occur in most steps. `Generating` says whose working state is on which view of the model, and
  `Frames` that what a call settled, holds and has queued is what was pushed, in order.
* *Detector*: `Judged` says of one call that its counters are the lengths of the runs at the end
  of what it heard and its events the changes of the reference; `TalkingAppend` is
  the step from one frame to the next. `Apart` says that a network has one owner and has seen
  that owner's frames. That a free one exists for each new call is a pigeonhole
  argument, for which the calls have to be finitely many (`VadAssumption`).
* *Decoder*: a token is judged by how many were accepted before it, so the reference (`Accepts`)
  says which tokens are accepted by what precedes each, without running a decoder.
  `AcceptsNext` is one token more; `CompleteNext` counts the windows that it completes and
  `WindowStays` leaves the earlier ones alone. `Kept` ties the decoder's place in its
  loop to the number of windows decoded.

`AudioProofs` proves about what comes in, for streams of any rates, widths and channels:

| theorem | statement |
| --- | --- |
| `RingExact` | `RingSpec => RingKeepsNewest` |
| `AudioInvariant` | `AudioSpec => []AudioInv` |
| `SignalIsKept` | `AudioSpec => []SignalKept` |
| `FramesAreDated` | `AudioSpec => []FramesDated` |

* *Ring*: `RingInv` gives the content of each held cell, counted from `head` around the
  end. A block that fits is one case, one larger than the ring another.
* *Resampler*: `Exhausted` says that m outputs are what n samples allow: the kernel of the last
  one ends inside the input and that of the next does not. `Fed` is the state after
  that: the buffer holds the last samples of the input, and the carried fraction is what places
  the next output, exactly: `m * Down = Up * position + fraction`. `NextBlock` shows that a block
  of any size leads from one such state to the next and that the outputs are those of the
  reference. Nothing can drift, because nothing is accumulated but that equation.
  There is one such m for each n (`ExhaustedOnce`), so a stream and a one-shot `resample()`
  of the same samples give the same outputs (`ResampleIs`).
* *Slicer*: `Sliced` puts output `(k - 1) * FrameSamples + j - 1` into slot j of frame k, `Held` says
  that the pending samples are the rest and that the date they carry is no earlier than
  the first of them and within a payload and half a kernel (`Late`). `DateFits` is where that bound
  comes from: the outputs of a chunk begin at most half a kernel before it, and a chunk
  is dated by its end or, if the client dates it, by its beginning.
* *Pipeline*: `AudioInv` joins them: until `flush()` the frames and the pending samples are what the
  samples pushed allow (`Onward`), afterwards what half a kernel more would (`Finished`). The proofs
  use of the rates only what the code makes of them, a greatest common divisor and two
  quotients (`GcdIs`, `Rates`); products of unknown rates are kept out of the solver's way by
  lemmas in `DataLemmas` (`Division`, `QuotientBelow`).

Only model-checked, and why:

* liveness (`Progress`, `FireReleases`, `TeardownEnds`, `SeatFreed`, `CallEnds`, the third
  conjunct of `ShutsDownWhole`, that of `ImplementsChannel`): fairness and `ENABLED` are out of
  the prover's reach;
* `HistoryWindow`: its reference is a fold over messages, and what a fold computes would
  need induction over data, for which no installed prover can instantiate the library's
  theorems (where a proof needs a least or a greatest number, `DataLemmas` gets
  it from the finite sets instead).

No module uses a `RECURSIVE` operator.

## Where the code and its documents disagree

Each of these is a run that TLC refutes, listed with its lines in `PROJECT.json`.

* `pool_dead_worker`: a submitter that cancels the future of a running item kills
  the worker (`InvalidStateError` at `scheduler/pool.py:92`); with no worker left,
  accepted items are never answered.
* `sessions_shutdown`: a shutdown that cancels the reaper right after a sweep took
  expired sessions out of the registry leaves them open for good
  (`conversation/manager.py:106`).
* `call_playback`: a barge-in stops the LLM and the synthesis but not the playback;
  up to `output_queue_size` chunks of the interrupted reply are still sent.
* `call_late_reply`: a session closed while its last question is transcribed
  starts a reply all the same; `begin_turn()` re-arms the token that the close fired.

* `grok_usage`: a completion that ends without usage figures leaves those of an
  earlier one for `last_usage()`, which promises the most recent completion's
  (`domain/protocols.py:245`).

Seen while modelling, and not checked by a run:

* `Session.aclose` says a cancellation is raised again after the remaining hooks
  (`conversation/session.py:271`); it is swallowed. It also says the close aborts
  TTS work: the reply stops, its pumps run on until the handler's next frame.
* `guard()` and `wait()` take the event and the reason from the token when they resume, which a
  reset may have erased by then (`conversation/cancellation.py:137`, `:207`). A guard that the
  token stopped then raises `CancelledError`, as if its caller had been torn down
  (`GuardOutcome` allows it only then); the application calls neither.
* `observability/health.py:5-11` says that a probe never raises and that every probe is bounded by
  a timeout. `check_cuda` calls `is_available()` outside its `try` (`:353`), which `_run_one`
  makes up for, and never awaits, so that no timeout can cut it and everything else on the loop
  waits for its import of torch. The application does not register it.
* An operation that raises when it is called, before it is a task (`scheduler/pool.py:83`), ends
  its worker as a cancelled future does: the call is outside the `try`.
* `.env.example` tells its reader to copy it to `.env` (line 4), but the flat names in it are looked
  up in `os.environ` only (`config/settings.py:398`).
* A session's slot is given back before its teardown (`conversation/manager.py:90`),
  so sessions still closing do not count against the ceiling.
* The ASR's chunks and the per-sentence queues are unbounded, where
  `queue/__init__.py` says that nothing in the system is.
* The drain of the pool may exceed its timeout by what a cancelled operation takes.
* A handler cancelled in its `finally` block skips the rest of it: its session stays
  in the registry until the reaper or the shutdown finds it (`axe` in `VoicePipeline`).
* A cancelled transcription gives its permit back while its thread generates on
  (`asr/nemotron.py:104-106`), so more than `max_batch_size` threads can be on the GPU,
  where line 61 speaks of "bounded concurrent GPU generation".
* The breaker is looked at once per completion: retries go on while it is open, and a
  success leaves it open until its time is over, where `docs/runbook.md` has the
  provider fail fast. A retry after some text has been streamed repeats that text.
* A frame is dated by the arrival of its payload, since the voice socket passes no
  capture time; frames after a gap keep counting from before it (`audio/framing.py:162`).
* Clients that send `Authorization: Bearer` share the bucket of their address
  (`middleware/rate_limit.py:51`); the voice socket's route has no limiter; nothing calls
  `sweep()`, so the table of clients grows.
* `ORPHUS_ENV=production` selects a YAML file that does not exist and does not set
  `Settings.environment`; the checks for production and the loading of the models
  (`api/app.py:125`) depend on the latter, which only `ORPHUS_ENVIRONMENT` or a YAML file sets.
* A load that fails midway leaves what it opened open (outside the `try` of the
  lifespan), and a collector that fails after `nvmlInit` leaves NVML initialised.
* `AudioRingBuffer`, the pipelines' `flush()`, the history's `snapshot()` and `restore()`
  and the Redis cache are not used by the application itself.

## Not modelled, and the plan

What neural networks compute, filter coefficients, mu-law and dithering in floating
point, counters and gauges, log records and their context, and shell scripts are outside what
these models are for: nothing reads them back, or their values decide nothing here.
Persistence is a statement per call whose transaction is the database's. Declarations
(`domain/types.py`, `domain/protocols.py`, the ranges of single settings) have no
behaviour of their own. Two sockets on one session, which the route does not
refuse, are not modelled, because no document says what should then happen; nor is
`Session.wait_closed()`, which only waits for an event that `aclose()` sets.

What is left is `HistoryWindow`, which wants a reference that is not a fold before it can
be proved.
