----------------------------- MODULE GrokProvider -----------------------------
(***************************************************************************)
(* The language model's client, providers/grok.py: completions of several  *)
(* sessions at once, each retried when its stream breaks, over one count   *)
(* of failures and one circuit breaker.                                    *)
(*                                                                         *)
(* What the API sends is any sequence of usage figures ending in [DONE], in*)
(* an early end of the stream or in an error. Text is left out. A          *)
(* completion's figures are its number.                                    *)
(***************************************************************************)
EXTENDS Integers, Sequences, FiniteSets, FiniteSetsExt

CONSTANTS GrokSessions,    \* sessions that complete concurrently
          MaxRetries,      \* max_retries
          Threshold,       \* circuit_breaker_threshold
          ResetAfter,      \* circuit_breaker_reset_s
          MaxCompletions,  \* bound on the completions of all sessions
          MaxTime          \* bound on the clock

ASSUME GrokAssumption == /\ {MaxRetries, ResetAfter, MaxCompletions, MaxTime} \subseteq Nat
                         /\ Threshold \in Nat \ {0}

VARIABLES failures,    \* _failures
          openedAt,    \* _opened_at
          usage,       \* _usage
          clock,       \* time.monotonic()
          completion,  \* how many completions each session has asked for
          stage,       \* of the current one: "idle", "streaming" or "backoff"
          attempt,     \* attempt
          outcome,     \* how the last one ended
          log          \* history: what happened to the breaker, and when

grokVars == <<failures, openedAt, usage, clock, completion, stage, attempt, outcome, log>>

NotOpen == -1
NoUsage == 0

GrokInit ==
    /\ failures = 0 /\ openedAt = NotOpen
    /\ usage = [s \in GrokSessions |-> NoUsage]
    /\ clock = 0
    /\ completion = [s \in GrokSessions |-> 0]
    /\ stage = [s \in GrokSessions |-> "idle"]
    /\ attempt = [s \in GrokSessions |-> 0]
    /\ outcome = [s \in GrokSessions |-> "none"]
    /\ log = <<>>

Noted(what) == log' = Append(log, [what |-> what, time |-> clock])

\* _ensure_available(), when it lets the caller pass: the breaker is closed,
\* or its time is over and it closes.
Available ==
    \/ /\ openedAt = NotOpen
       /\ UNCHANGED <<failures, openedAt, log>>
    \/ /\ openedAt # NotOpen /\ clock - openedAt >= ResetAfter
       /\ openedAt' = NotOpen /\ failures' = 0
       /\ Noted("reset")

Unavailable == openedAt # NotOpen /\ clock - openedAt < ResetAfter

\* Seeded bug: the breaker opens one failure late.
Bug_OpensPastThreshold ==
    /\ failures' = failures + 1
    /\ openedAt' = IF failures > Threshold THEN clock ELSE openedAt
    /\ Noted("failure")

\* _record_failure()
RecordFailure ==
    /\ failures' = failures + 1
    /\ openedAt' = IF failures' >= Threshold THEN clock ELSE openedAt
    /\ Noted("failure")

-----------------------------------------------------------------------------

\* The first step of _stream_chat().
Ask(s) ==
    /\ stage[s] = "idle" /\ MapThenSumSet(LAMBDA t : completion[t], GrokSessions) < MaxCompletions
    /\ completion' = [completion EXCEPT ![s] = @ + 1]
    /\ attempt' = [attempt EXCEPT ![s] = 0]
    /\ \/ /\ Available
          /\ stage' = [stage EXCEPT ![s] = "streaming"]
          /\ outcome' = [outcome EXCEPT ![s] = "none"]
       \/ /\ Unavailable
          /\ outcome' = [outcome EXCEPT ![s] = "refused"]
          /\ UNCHANGED <<failures, openedAt, log, stage>>
    /\ UNCHANGED <<usage, clock>>

UsageArrives(s) ==
    /\ stage[s] = "streaming"
    /\ usage' = [usage EXCEPT ![s] = completion[s]]
    /\ UNCHANGED <<failures, openedAt, clock, completion, stage, attempt, outcome, log>>

Ends(s, how) ==
    /\ stage' = [stage EXCEPT ![s] = "idle"]
    /\ outcome' = [outcome EXCEPT ![s] = how]

\* [DONE]: the failures are forgotten, the breaker is left as it is.
Done(s) ==
    /\ stage[s] = "streaming"
    /\ failures' = 0
    /\ Noted("success")
    /\ Ends(s, "done")
    /\ UNCHANGED <<openedAt, usage, clock, completion, attempt>>

\* The stream ends without [DONE], or the reply is cancelled in it, or an
\* event is no object at all, which nothing here catches.
EndsEarly(s) ==
    /\ stage[s] # "idle"
    /\ \/ stage[s] = "streaming" /\ Ends(s, "done")
       \/ Ends(s, "aborted")
    /\ UNCHANGED <<failures, openedAt, usage, clock, completion, attempt, log>>

\* An HTTP error, a broken connection or an unreadable event.
Breaks(s) ==
    /\ stage[s] = "streaming"
    /\ RecordFailure
    /\ IF attempt[s] >= MaxRetries
       THEN Ends(s, "failed")
       ELSE /\ stage' = [stage EXCEPT ![s] = "backoff"]
            /\ UNCHANGED outcome
    /\ UNCHANGED <<usage, clock, completion, attempt>>

\* The backoff is over: the next attempt, whatever the breaker says.
Retry(s) ==
    /\ stage[s] = "backoff"
    /\ stage' = [stage EXCEPT ![s] = "streaming"]
    /\ attempt' = [attempt EXCEPT ![s] = @ + 1]
    /\ UNCHANGED <<failures, openedAt, usage, clock, completion, outcome, log>>

\* health() asks the breaker as a completion does, and counts nothing.
ProbeGrok ==
    /\ openedAt # NotOpen
    /\ Available
    /\ UNCHANGED <<usage, clock, completion, stage, attempt, outcome>>

TimePasses ==
    /\ clock < MaxTime
    /\ clock' = clock + 1
    /\ UNCHANGED <<failures, openedAt, usage, completion, stage, attempt, outcome, log>>

GrokNext ==
    \/ \E s \in GrokSessions : Ask(s) \/ UsageArrives(s) \/ Done(s) \/ EndsEarly(s)
                               \/ Breaks(s) \/ Retry(s)
    \/ ProbeGrok \/ TimePasses

GrokSpec == GrokInit /\ [][GrokNext]_grokVars

-----------------------------------------------------------------------------

\* How many failures in a row, with no success and no reset between them, the
\* log has up to entry n.
InARow(n) ==
    Cardinality({i \in 1 .. n : \A j \in i .. n : log[j].what = "failure"})

\* The failures that had the breaker open and were not followed by a reset.
Openers ==
    {i \in DOMAIN log : InARow(i) >= Threshold
                        /\ \A j \in i .. Len(log) : log[j].what # "reset"}

\* With several completions failing, succeeding and being retried at once the
\* breaker stays what its constants say: open from the last failure that made
\* a row of Threshold, for ResetAfter, whoever was failing; never before, and
\* a completion is refused only then (grok.py:42-54).
BreakerCounts ==
    /\ failures = InARow(Len(log))
    /\ openedAt = IF Openers = {} THEN NotOpen
                  ELSE log[CHOOSE i \in Openers : \A j \in Openers : j <= i].time
    /\ \A s \in GrokSessions : attempt[s] <= MaxRetries

\* protocols.py:245 says of last_usage(): "Token usage for the most recent
\* completion, if the provider reports it." So what it returns after a
\* completion is that completion's own figures or none.
UsageIsCurrent ==
    \A s \in GrokSessions : outcome[s] = "done" => usage[s] \in {NoUsage, completion[s]}
==============================================================================
