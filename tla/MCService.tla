------------------------------- MODULE MCService -------------------------------
(***************************************************************************)
(* TLC instance of the parts around the sessions: what a request passes on *)
(* its way in, the health endpoint, the life of the models and the         *)
(* settings. None touches another's state, so a run takes one of them,     *)
(* chosen at the start, and leaves the others where they began.            *)
(***************************************************************************)
EXTENDS RequestGate, HealthRegistry, ModelRuntime, Settings

VARIABLE aspect  \* the component that runs

\* Two accepted keys with the same tail, sent in either header, or none.
MCApiKeys == {[head |-> 1, tail |-> 9], [head |-> 2, tail |-> 9]}
MCRequests ==
    {[xKey |-> k, bearer |-> NoKey, host |-> "office"] : k \in MCApiKeys}
    \cup {[xKey |-> NoKey, bearer |-> b, host |-> "office"] : b \in {NoKey, [head |-> 1, tail |-> 9]}}

\* A deployment's defaults and files, cut down to the keys validated.
MCDefaults == [root |-> [environment |-> "development"],
               asr |-> [max_batch_size |-> 2],
               session |-> [max_concurrent |-> 2],
               llm |-> [api_key |-> "", model |-> "grok-4-fast"],
               security |-> [api_keys |-> {}]]
MCYamlFiles == [default |-> [llm |-> [model |-> "grok-4"], asr |-> [max_batch_size |-> 2]],
                production |-> [root |-> [environment |-> "production"],
                                llm |-> [api_key |-> "grok"]]]
MCFlatEnvs == [MAX_CONCURRENT_SESSIONS : {Unset, Blank, 1, 3}, GROK_API_KEY : {Unset, Blank, "key"},
               ORPHUS_API_KEYS : {Unset, {}, {"client"}}]
MCNestedTrees == {EmptyTree, [asr |-> [max_batch_size |-> 3],
                              root |-> [environment |-> "production"]]}
MCOverrideTrees == {EmptyTree, [session |-> [max_concurrent |-> 1]], [llm |-> [api_key |-> ""]]}

Init == /\ aspect \in {"gate", "health", "runtime", "settings"}
        /\ GateInit /\ HealthInit /\ RuntimeInit /\ SettingsInit
        /\ aspect # "runtime" => production
        /\ aspect # "settings" => /\ \A v \in DOMAIN flat : flat[v] = Unset
                                  /\ nested = EmptyTree /\ orphusEnv = "development"

Next ==
    \/ aspect = "gate" /\ GateNext /\ UNCHANGED <<aspect, healthVars, runtimeVars, settingsVars>>
    \/ aspect = "health" /\ HealthNext /\ UNCHANGED <<aspect, gateVars, runtimeVars, settingsVars>>
    \/ aspect = "runtime" /\ RuntimeNext /\ UNCHANGED <<aspect, gateVars, healthVars, settingsVars>>
    \/ aspect = "settings" /\ SettingsNext /\ UNCHANGED <<aspect, gateVars, healthVars, runtimeVars>>

vars == <<aspect, gateVars, healthVars, runtimeVars, settingsVars>>

Spec == Init /\ [][Next]_vars /\ (aspect = "runtime" => RuntimeFairness)
=============================================================================
