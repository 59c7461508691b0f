-------------------------------- MODULE Settings -------------------------------
(***************************************************************************)
(* How config/settings.py builds the settings: sources laid one over the   *)
(* other, section by section, a validation across the sections, one cached *)
(* instance, and the runtime overrides handed over in a global.            *)
(*                                                                         *)
(* A source is a tree: section -> key -> value, with what it leaves out    *)
(* out of its domain. The keys are those the validation looks at; the one  *)
(* key without a section, "environment", stands in a section "root".       *)
(***************************************************************************)
EXTENDS Integers, Sequences, SequencesExt, FiniteSets

CONSTANTS Defaults,     \* the tree of the fields' defaults
          YamlFiles,    \* file name -> tree, of the files there are in config/
          FlatEnvs,     \* what the flat aliases may be exported with, as records
          NestedTrees,  \* trees the ORPHUS_<section>__<key> variables may give
          OverrideTrees,  \* arguments of load_settings(), the empty tree too
          Unset, Blank, \* an alias not exported, exported as blanks
          MaxChanges    \* bound on the changes of the environment

VARIABLES flat,      \* the flat aliases of os.environ
          nested,    \* the tree of its ORPHUS_ variables
          orphusEnv, \* its ORPHUS_ENV
          runtimeOverrides,  \* _runtime_overrides
          cached,    \* what lru_cache holds of _cached_settings()
          loaded,    \* history: the last load_settings(), and what it was given
          changes    \* history: changes of the environment so far

settingsVars == <<flat, nested, orphusEnv, runtimeOverrides, cached, loaded, changes>>

EmptyTree == [s \in {} |-> <<>>]
Nothing == [made |-> FALSE, tree |-> EmptyTree, sources |-> <<>>, raised |-> FALSE]

SettingsInit ==
    /\ flat \in FlatEnvs
    /\ nested \in NestedTrees
    /\ orphusEnv \in {"development", "production"}
    /\ runtimeOverrides = EmptyTree
    /\ cached = Nothing
    /\ loaded = [call |-> EmptyTree, was |-> Nothing]
    /\ changes = 0

\* One mapping over another.
Over(base, overlay) ==
    [x \in DOMAIN base \cup DOMAIN overlay |->
        IF x \in DOMAIN overlay THEN overlay[x] ELSE base[x]]

\* Seeded bug: a section replaces the one below it.
Bug_ShallowMerge(base, overlay) == Over(base, overlay)

\* _deep_merge(), of the YAML files, and pydantic's of the sources: sections
\* are merged, values replaced.
DeepMerge(base, overlay) ==
    [s \in DOMAIN base \cup DOMAIN overlay |->
        IF s \in DOMAIN base \cap DOMAIN overlay THEN Over(base[s], overlay[s])
        ELSE IF s \in DOMAIN overlay THEN overlay[s] ELSE base[s]]

\* Trees in rising precedence, as one.
Merged(trees) == FoldLeft(DeepMerge, EmptyTree, trees)

\* YamlSettingsSource._load(): the files there are, in this order.
YamlTrees ==
    SelectSeq(<<"default", orphusEnv, "local">>, LAMBDA f : f \in DOMAIN YamlFiles)
YamlSource == Merged([k \in DOMAIN YamlTrees |-> YamlFiles[YamlTrees[k]]])

\* FlatEnvAliasSource: what is set and not blank, at its dotted path.
FlatEnvAliases == [MAX_CONCURRENT_SESSIONS |-> <<"session", "max_concurrent">>,
                   GROK_API_KEY |-> <<"llm", "api_key">>,
                   ORPHUS_API_KEYS |-> <<"security", "api_keys">>]

FlatSource ==
    LET given == {v \in DOMAIN flat : flat[v] \notin {Unset, Blank}}
        path(v) == FlatEnvAliases[v]
    IN [s \in {path(v)[1] : v \in given} |->
           [k \in {path(v)[2] : v \in {u \in given : path(u)[1] = s}} |->
               flat[CHOOSE v \in given : path(v) = <<s, k>>]]]

\* settings_customise_sources(), from the lowest, over the defaults.
Sources(overrides) == <<Defaults, YamlSource, nested, FlatSource, overrides>>

\* _check_cross_section_invariants().
Consistent(t) ==
    /\ t.asr.max_batch_size >= t.session.max_concurrent
    /\ t.root.environment = "production" => t.llm.api_key # "" /\ t.security.api_keys # {}

\* Settings().
Build(overrides) ==
    LET src == Sources(overrides)
        tree == DeepMerge(DeepMerge(DeepMerge(DeepMerge(src[1], src[2]), src[3]), src[4]), src[5])
    IN [made |-> TRUE, tree |-> tree, sources |-> src, raised |-> ~ Consistent(tree)]

\* load_settings(): overrides go round the cache; an error is not cached.
LoadSettings(overrides, useCache) ==
    LET caches == useCache /\ overrides = EmptyTree
        built == Build(runtimeOverrides')
    IN /\ runtimeOverrides' = overrides
       /\ IF caches /\ cached.made
          THEN loaded' = [call |-> overrides, was |-> cached] /\ UNCHANGED cached
          ELSE /\ loaded' = [call |-> overrides, was |-> built]
               /\ cached' = IF caches /\ ~ built.raised THEN built ELSE cached
       /\ UNCHANGED <<flat, nested, orphusEnv, changes>>

\* clear_settings_cache().
ClearSettingsCache ==
    /\ cached' = Nothing
    /\ UNCHANGED <<flat, nested, orphusEnv, runtimeOverrides, loaded, changes>>

\* Somebody changes the process's environment.
Export == /\ changes < MaxChanges /\ changes' = changes + 1
          /\ \/ flat' \in FlatEnvs /\ UNCHANGED <<nested, orphusEnv>>
             \/ nested' \in NestedTrees /\ UNCHANGED <<flat, orphusEnv>>
             \/ orphusEnv' \in {"development", "production"} /\ UNCHANGED <<flat, nested>>
          /\ UNCHANGED <<runtimeOverrides, cached, loaded>>

SettingsNext ==
    \/ \E t \in OverrideTrees, b \in BOOLEAN : LoadSettings(t, b)
    \/ ClearSettingsCache
    \/ Export

SettingsSpec == SettingsInit /\ [][SettingsNext]_settingsVars

-----------------------------------------------------------------------------
Says(tree, s, k) == s \in DOMAIN tree /\ k \in DOMAIN tree[s]

\* The key's value is that of the highest of the sources which give it one.
FromHighest(tree, sources, s, k) ==
    \E i \in DOMAIN sources :
        /\ Says(sources[i], s, k) /\ \A j \in DOMAIN sources : j > i => ~ Says(sources[j], s, k)
        /\ Says(tree, s, k) /\ tree[s][k] = sources[i][s][k]

\* Each key of the settings that the last load_settings() returned has the
\* value of the highest source that gives one, and no source's section hides
\* the rest of a lower one's; the overrides it was built with are the ones of
\* that very call, never those of a call before, by the cache or by the
\* global; and what is cached holds no overrides and is valid.
HighestSourceWins ==
    LET was == loaded.was IN
    was.made =>
        /\ was.sources[5] = loaded.call
        /\ \A s \in DOMAIN Defaults : \A k \in DOMAIN Defaults[s] :
              FromHighest(was.tree, was.sources, s, k)
        /\ cached.made => ~ cached.raised /\ cached.sources[5] = EmptyTree
=============================================================================
