---------------------------- MODULE HealthRegistry ----------------------------
(***************************************************************************)
(* The health registry of observability/health.py: requests to /health run *)
(* every registered probe at once, each under a timeout, while probes are  *)
(* registered and removed. A probe measures something and grades it, or    *)
(* fails, raises, never answers, or holds up the event loop that all of    *)
(* them share.                                                             *)
(*                                                                         *)
(* Percentages are whole. Timers fire before time moves on, unless a probe *)
(* holds the loop; nothing else is taken to hold it. A probe that its      *)
(* timeout cancels is taken to unwind at once.                             *)
(***************************************************************************)
EXTENDS Integers, Sequences, SequencesExt

CONSTANTS ProbeNames,     \* names a probe may be registered under
          Probes,         \* the module's probes, and "custom": any other ProbeFn
          Readings,       \* percentages a host probe may measure
          SlowAfter,      \* degraded_above_ms, in ticks
          ProbeTimeout,   \* timeout_s, in ticks
          Checkers,       \* requests to /health
          MaxUptime       \* bound on the clock

ASSUME HealthAssumption == /\ {ProbeTimeout, MaxUptime, SlowAfter} \subseteq Nat
                           /\ Readings \subseteq 0 .. 100
                           /\ Probes \subseteq {"disk", "memory", "cuda", "callable", "custom"}

VARIABLES uptime,     \* time.perf_counter()
          registry,   \* _probes, in the order of registration
          onLoop,     \* <<request, place>> of the probe that the loop is running
          checking,   \* the probes that a request runs
          started,    \* when it created their tasks
          held,       \* history: how long, since then, probes held the loop
          results,    \* its results so far, by the place of the probe
          report      \* what it answered last

healthVars == <<uptime, registry, onLoop, checking, started, held, results, report>>

Statuses == {"healthy", "degraded", "unhealthy"}
Nobody == <<>>
\* The result of a probe whose task has not taken its first step, and of one
\* that took it at the instant `from`.
Queued == [component |-> "", status |-> "queued", from |-> 0]
NoReport == [status |-> "none", components |-> <<>>, probes |-> <<>>, from |-> 0, held |-> 0, at |-> 0]

HealthInit == /\ uptime = 0
              /\ registry = <<>>
              /\ onLoop = Nobody
              /\ checking = [c \in Checkers |-> <<>>]
              /\ started = [c \in Checkers |-> 0]
              /\ held = [c \in Checkers |-> 0]
              /\ results = [c \in Checkers |-> <<>>]
              /\ report = [c \in Checkers |-> NoReport]

\* register(): in place of the probe of that name, or after the others.
Register(name, probe) ==
    LET entry == [name |-> name, probe |-> probe]
    IN /\ onLoop = Nobody
       /\ registry' = IF \E k \in DOMAIN registry : registry[k].name = name
                      THEN [k \in DOMAIN registry |->
                               IF registry[k].name = name THEN entry ELSE registry[k]]
                      ELSE Append(registry, entry)
       /\ UNCHANGED <<uptime, onLoop, checking, started, held, results, report>>

Unregister(name) ==
    /\ onLoop = Nobody
    /\ registry' = IF \E k \in DOMAIN registry : registry[k].name = name
                   THEN RemoveAt(registry, CHOOSE k \in DOMAIN registry : registry[k].name = name)
                   ELSE registry
    /\ UNCHANGED <<uptime, onLoop, checking, started, held, results, report>>

\* check_disk(): of free space; the other two: of what is used.
DiskStatus(free) ==
    IF free < 5 THEN "unhealthy" ELSE IF free < 15 THEN "degraded" ELSE "healthy"
MemoryStatus(used) ==
    IF used > 95 THEN "unhealthy" ELSE IF used > 85 THEN "degraded" ELSE "healthy"
CudaStatus(used) ==
    IF used > 97 THEN "unhealthy" ELSE IF used > 90 THEN "degraded" ELSE "healthy"

\* make_callable_check(): a success that took long is no outage.
CallableStatus(elapsed) == IF elapsed > SlowAfter THEN "degraded" ELSE "healthy"

\* What a probe that does not fail may answer, `elapsed` after its first step.
\* Without psutil check_memory answers "healthy"; without torch or a device
\* check_cuda answers "unhealthy".
Grades(probe, elapsed) ==
    CASE probe = "disk" -> {DiskStatus(r) : r \in Readings}
      [] probe = "memory" -> {MemoryStatus(r) : r \in Readings} \cup {"healthy"}
      [] probe = "cuda" -> {CudaStatus(r) : r \in Readings} \cup {"unhealthy"}
      [] probe = "callable" -> {CallableStatus(elapsed)}
      [] probe = "custom" -> Statuses

\* The worst of the results.
Overall(rs) ==
    LET has(status) == \E k \in DOMAIN rs : rs[k].status = status
    IN IF has("unhealthy") THEN "unhealthy"
       ELSE IF has("degraded") THEN "degraded" ELSE "healthy"

Answer(c, probes, rs, from, hold) ==
    report' = [report EXCEPT ![c] = [status |-> Overall(rs), components |-> rs, probes |-> probes,
                                     from |-> from, held |-> hold, at |-> uptime]]

\* check_all() up to its gather(), which makes a task of each probe: of no
\* probe at all it answers at once.
Check(c) ==
    /\ onLoop = Nobody /\ checking[c] = <<>>
    /\ IF registry = <<>>
       THEN Answer(c, registry, <<>>, uptime, 0) /\ UNCHANGED <<checking, started, results>>
       ELSE /\ checking' = [checking EXCEPT ![c] = registry]
            /\ started' = [started EXCEPT ![c] = uptime]
            /\ results' = [results EXCEPT ![c] = [k \in DOMAIN registry |-> Queued]]
            /\ report' = [report EXCEPT ![c] = NoReport]
    /\ UNCHANGED <<uptime, registry, onLoop, held>>

InState(c, k, status) == k \in DOMAIN results[c] /\ results[c][k].status = status
Running(c, k) == InState(c, k, "pending")

\* Seeded bug: the probes are awaited one after another.
Bug_OneByOne(c, k) ==
    /\ InState(c, k, "queued")
    /\ \A j \in 1 .. k - 1 : ~ InState(c, j, "queued") /\ ~ InState(c, j, "pending")

\* The tasks of a gather() take their first step in order, and none waits for
\* another to end.
Turn(c, k) ==
    /\ InState(c, k, "queued")
    /\ \A j \in 1 .. k - 1 : ~ InState(c, j, "queued")

\* _run_one() up to the first await of its probe, which has the loop till then.
ProbeStarts(c, k) ==
    /\ onLoop = Nobody /\ Turn(c, k)
    /\ onLoop' = <<c, k>>
    /\ results' = [results EXCEPT ![c][k] = [component |-> "", status |-> "pending", from |-> uptime]]
    /\ UNCHANGED <<uptime, registry, checking, started, held, report>>

\* check_cuda() is a coroutine without an await: it has the loop to its end.
ProbeAwaits(c, k) ==
    /\ onLoop = <<c, k>> /\ checking[c][k].probe # "cuda"
    /\ onLoop' = Nobody
    /\ UNCHANGED <<uptime, registry, checking, started, held, results, report>>

\* A probe of the caller's may work, or block, between two awaits too.
ProbeResumes(c, k) ==
    /\ onLoop = Nobody /\ Running(c, k) /\ checking[c][k].probe \in {"callable", "custom"}
    /\ onLoop' = <<c, k>>
    /\ UNCHANGED <<uptime, registry, checking, started, held, results, report>>

\* The probe's task ends, which it does on the loop.
Resolve(c, k, component, status) ==
    /\ Running(c, k) /\ onLoop \in {Nobody, <<c, k>>}
    /\ onLoop' = Nobody
    /\ results' = [results EXCEPT ![c][k] =
                      [component |-> component, status |-> status, from |-> 0]]
    /\ UNCHANGED <<uptime, registry, checking, started, held, report>>

\* The ways out of _run_one(): the probe's answer, under the name that the
\* probe calls itself, ...
ProbeAnswers(c, k) ==
    /\ Running(c, k)
    /\ \E status \in Grades(checking[c][k].probe, uptime - results[c][k].from) :
          Resolve(c, k, checking[c][k].probe, status)

\* ... which it also gives of the errors that it catches, ...
ProbeFails(c, k) ==
    /\ Running(c, k) /\ checking[c][k].probe # "custom"
    /\ Resolve(c, k, checking[c][k].probe, "unhealthy")

\* ... an error that it lets out: check_memory() one of its import other than
\* ImportError, check_cuda() one of is_available(), a custom probe any ...
ProbeRaises(c, k) ==
    /\ Running(c, k) /\ checking[c][k].probe \in {"memory", "cuda", "custom"}
    /\ Resolve(c, k, checking[c][k].name, "unhealthy")

\* ... and the timeout, which needs the loop to cancel the probe.
Due(c, k) == onLoop = Nobody /\ Running(c, k) /\ uptime >= results[c][k].from + ProbeTimeout

ProbeTimesOut(c, k) ==
    /\ Due(c, k)
    /\ Resolve(c, k, checking[c][k].name, "unhealthy")

\* The gather() of check_all() returns when the last probe has.
Report(c) ==
    /\ onLoop = Nobody /\ checking[c] # <<>>
    /\ \A k \in DOMAIN results[c] : ~ InState(c, k, "queued") /\ ~ Running(c, k)
    /\ Answer(c, checking[c], results[c], started[c], held[c])
    /\ checking' = [checking EXCEPT ![c] = <<>>]
    /\ results' = [results EXCEPT ![c] = <<>>]
    /\ started' = [started EXCEPT ![c] = 0]
    /\ held' = [held EXCEPT ![c] = 0]
    /\ UNCHANGED <<uptime, registry, onLoop>>

\* The event loop runs whatever is ready before it lets time pass.
Idle(c) ==
    /\ checking[c] = <<>> \/ \E k \in DOMAIN results[c] : Running(c, k)
    /\ \A k \in DOMAIN results[c] : ~ Turn(c, k) /\ ~ Due(c, k)

HealthTick ==
    /\ uptime < MaxUptime
    /\ onLoop = Nobody /\ \A c \in Checkers : Idle(c)
    /\ uptime' = uptime + 1
    /\ UNCHANGED <<registry, onLoop, checking, started, held, results, report>>

\* A probe works or blocks on the loop, and nothing else runs: no other probe,
\* no timer.
LoopHeld ==
    /\ uptime < MaxUptime
    /\ onLoop # Nobody
    /\ uptime' = uptime + 1
    /\ held' = [c \in Checkers |-> IF checking[c] = <<>> THEN 0 ELSE held[c] + 1]
    /\ UNCHANGED <<registry, onLoop, checking, started, results, report>>

HealthNext ==
    \/ \E name \in ProbeNames : Unregister(name) \/ \E p \in Probes : Register(name, p)
    \/ \E c \in Checkers :
          \/ Check(c) \/ Report(c)
          \/ \E k \in DOMAIN results[c] :
                \/ ProbeStarts(c, k) \/ ProbeAwaits(c, k) \/ ProbeResumes(c, k)
                \/ ProbeAnswers(c, k) \/ ProbeFails(c, k) \/ ProbeRaises(c, k) \/ ProbeTimesOut(c, k)
    \/ HealthTick
    \/ LoopHeld

HealthSpec == HealthInit /\ [][HealthNext]_healthVars

-----------------------------------------------------------------------------
Rank(status) == CASE status = "healthy" -> 0 [] status = "degraded" -> 1
                  [] status = "unhealthy" -> 2

\* An answer of /health has one result for each probe registered when it was
\* asked, in that order, whatever is registered or removed meanwhile: what
\* the probe answered, under the name it gave itself, or, of one that raised or
\* hung, that it is unhealthy, under the name it is registered by. The verdict is no better than the worst of them and
\* no worse. And however many probes hang, they cost one timeout together, and
\* nothing more than the time in which probes kept the loop from running.
ReportWhole ==
    \A c \in Checkers : report[c] # NoReport =>
        LET r == report[c] IN
        /\ Len(r.components) = Len(r.probes)
        /\ \A k \in DOMAIN r.probes :
              LET shown == r.components[k] IN
              /\ \/ shown.component = r.probes[k].probe
                 \/ shown.component = r.probes[k].name /\ shown.status = "unhealthy"
              /\ shown.status \in Statuses
              /\ Rank(shown.status) <= Rank(r.status)
        /\ r.status = "healthy" \/ \E k \in DOMAIN r.probes : r.components[k].status = r.status
        /\ r.at <= r.from + ProbeTimeout + r.held
=============================================================================
