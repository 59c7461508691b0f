----------------------------- MODULE ModelRuntime -----------------------------
(***************************************************************************)
(* The life of the server's shared models: ModelRuntime of runtime.py, the *)
(* lifespan handler of api/app.py that loads and closes it, and the GPU    *)
(* collector of observability/metrics.py that it starts beside it.         *)
(*                                                                         *)
(* Outside: what a load or a close does, each ends or raises; the server   *)
(* that runs the handler, which shuts down after its last socket has gone. *)
(***************************************************************************)
EXTENDS Integers, Sequences, FiniteSets

CONSTANTS CallIds,  \* sessions that open the voice socket
          Gpus      \* devices NVML lists, numbered from 1

ASSUME RuntimeAssumption == Gpus \in Nat

VARIABLES production,  \* config.environment == "production", with the runtime's own pipelines
          component,   \* "absent", "open", "closing" or "closed" of each component
          lifespan,    \* where the handler is
          pollers,     \* the tasks it runs: of "reaper" and "gpu"
          nvml,        \* NVML: "down", "up" or "shut"
          handles,     \* len(_handles) of the collector, -1 with metrics off
          available,   \* _available of the collector
          minted       \* sessions with a live pipeline

runtimeVars == <<production, component, lifespan, pollers, nvml, handles, available, minted>>

\* load() opens them one after another, the models first.
Models == <<"tts", "asr", "vad">>
Services == <<"llm", "cache", "repository">>
Components == {Models[k] : k \in 1 .. 3} \cup {Services[k] : k \in 1 .. 3}

RuntimeInit == /\ production \in BOOLEAN
               /\ component = [c \in Components |-> "absent"]
               /\ lifespan = "loading"
               /\ pollers = {} /\ nvml = "down" /\ handles = -1 /\ available = FALSE
               /\ minted = {}

Collector == <<nvml, handles, available>>

\* One model of load(), in a thread; or load() raises, and the server does
\* not start. What was open by then stays open.
LoadModel ==
    /\ lifespan = "loading" /\ production
    /\ \E k \in 1 .. 3 :
          /\ \A j \in 1 .. 3 : (component[Models[j]] = "open") <=> (j < k)
          /\ component' = [component EXCEPT ![Models[k]] = "open"]
    /\ UNCHANGED <<production, lifespan, pollers, Collector, minted>>

ModelsOpen == \A k \in 1 .. 3 : component[Models[k]] = "open"

LoadModelFails ==
    /\ lifespan = "loading" /\ production /\ ~ ModelsOpen
    /\ lifespan' = "failed"
    /\ UNCHANGED <<production, component, pollers, Collector, minted>>

\* The end of load(), which awaits nothing: a constructor may raise too.
OpenServices(upTo) == [c \in Components |->
    IF \E k \in 1 .. upTo : c = Services[k] THEN "open" ELSE component[c]]

ConnectFails ==
    /\ lifespan = "loading" /\ production /\ ModelsOpen
    /\ \E k \in 0 .. 2 : component' = OpenServices(k)
    /\ lifespan' = "failed"
    /\ UNCHANGED <<production, pollers, Collector, minted>>

\* start() of the collector: no metrics wanted; NVML not there; an error after
\* some of the devices, which leaves NVML initialised; or every device.
StartCollector ==
    \/ UNCHANGED Collector
    \/ nvml' = "down" /\ handles' = 0 /\ available' = FALSE
    \/ nvml' = "up" /\ handles' \in 0 .. Gpus /\ available' = FALSE
    \/ nvml' = "up" /\ handles' = Gpus /\ available' = TRUE

\* The handler up to its yield, from the last component on.
StartServing ==
    /\ lifespan = "loading"
    /\ production => ModelsOpen
    /\ component' = IF production THEN OpenServices(3) ELSE component
    /\ StartCollector
    /\ pollers' = {"reaper"} \cup (IF available' /\ handles' > 0 THEN {"gpu"} ELSE {})
    /\ lifespan' = "serving"
    /\ UNCHANGED <<production, minted>>

Ready == \A c \in {"vad", "asr", "tts", "llm"} : component[c] = "open"

\* The voice socket asks for its pipeline, pipeline(); it closes it at its end.
MintPipeline(s) ==
    /\ lifespan = "serving" /\ production /\ Ready
    /\ component["repository"] = "open"
    /\ minted' = minted \cup {s}
    /\ UNCHANGED <<production, component, lifespan, pollers, Collector>>

SocketEnds(s) ==
    /\ s \in minted
    /\ minted' = minted \ {s}
    /\ UNCHANGED <<production, component, lifespan, pollers, Collector>>

\* The handler's end: cancel the tasks and wait for them, shut NVML down, then
\* close the sessions and the runtime.
StopServing ==
    /\ lifespan = "serving" /\ minted = {}
    /\ pollers' = {}
    /\ nvml' = IF nvml = "up" /\ available THEN "shut" ELSE nvml
    /\ available' = FALSE
    /\ handles' = IF handles = -1 THEN -1 ELSE 0
    /\ lifespan' = "closing"
    /\ UNCHANGED <<production, component, minted>>

\* aclose(): gather() starts the close of every component there is.
CloseComponents ==
    /\ lifespan = "closing"
    /\ component' = [c \in Components |-> IF component[c] = "open" THEN "closing" ELSE component[c]]
    /\ lifespan' = "gathering"
    /\ UNCHANGED <<production, pollers, Collector, minted>>

\* A component's aclose() returns or raises: either way it is over, and
\* return_exceptions keeps an error from the others.
CloseEnds(c) ==
    /\ component[c] = "closing"
    /\ component' = [component EXCEPT ![c] = "closed"]
    /\ UNCHANGED <<production, lifespan, pollers, Collector, minted>>

\* Seeded bug: the first component to close ends the shutdown.
Bug_FirstCloseEndsIt ==
    /\ lifespan = "gathering"
    /\ \/ \E c \in Components : component[c] = "closed"
       \/ \A c \in Components : component[c] # "closing"
    /\ lifespan' = "stopped"
    /\ UNCHANGED <<production, component, pollers, Collector, minted>>

StopsWhenClosed ==
    /\ lifespan = "gathering"
    /\ \A c \in Components : component[c] # "closing"
    /\ lifespan' = "stopped"
    /\ UNCHANGED <<production, component, pollers, Collector, minted>>

RuntimeNext ==
    \/ LoadModel \/ LoadModelFails \/ ConnectFails \/ StartServing
    \/ \E s \in CallIds : MintPipeline(s) \/ SocketEnds(s)
    \/ StopServing \/ CloseComponents \/ StopsWhenClosed
    \/ \E c \in Components : CloseEnds(c)

\* The loop resumes what is ready; every component's aclose() ends.
RuntimeFairness == /\ WF_runtimeVars(CloseComponents) /\ WF_runtimeVars(StopsWhenClosed)
                   /\ \A c \in Components : WF_runtimeVars(CloseEnds(c))

RuntimeSpec == RuntimeInit /\ [][RuntimeNext]_runtimeVars /\ RuntimeFairness

-----------------------------------------------------------------------------
Stopped == lifespan = "stopped"

\* A call's pipeline has every component it holds open under it, and the tasks
\* that use them are over before any of them closes.
ModelsOutliveCalls ==
    /\ minted # {} => \A c \in Components \ {"cache"} : component[c] = "open"
    /\ \A c \in Components : component[c] \in {"closing", "closed"} => minted = {} /\ pollers = {}
    /\ "gpu" \in pollers => nvml = "up" /\ handles = Gpus

\* A shutdown ends, with every component that was loaded closed, whichever of
\* them fails to and in whatever order they end; until it has, none is closed
\* that a call still holds.
ShutsDownWhole ==
    /\ []ModelsOutliveCalls
    /\ [](Stopped => \A c \in Components : component[c] \in {"absent", "closed"})
    /\ lifespan = "closing" ~> Stopped
=============================================================================
