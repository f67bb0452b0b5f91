--------------------------- MODULE MC_DaemonConfig ---------------------------
(***************************************************************************)
(* Inputs for DaemonConfig: command lines with zero, one or two hosts and  *)
(* realtime values 0 or 1; daemon.json files that repeat a host, add two,  *)
(* give each kind of log option, lists and realtime values (including a    *)
(* negative one, which the merge ignores), or cannot be parsed.            *)
(***************************************************************************)
EXTENDS DaemonConfig

CONSTANTS h1, h2, h3

MC_Hosts == {h1, h2, h3}

MC_ScalarFields == {"graph", "tls", "image_layer_check"}

NoLog == [k \in LogOptKeys |-> Unset]

MC_ArgsInputs ==
    { [hosts |-> h,
       fields |-> [graph |-> g, tls |-> "a", image_layer_check |-> Unset],
       log |-> NoLog,
       lists |-> [l \in ListFields |-> ls],
       rt |-> [period |-> p, runtime |-> p]] :
         h \in {<<>>, <<h1>>, <<h1, h2>>}, g \in {"a", Empty}, ls \in {<<>>, <<"o1">>}, p \in {0, 1} }

MC_FileInputs ==
    { [parseable |-> TRUE,
       hosts |-> h,
       fields |-> fs,
       logOpts |-> lo,
       lists |-> [storage_opts |-> ls, registry_mirrors |-> <<>>, insecure_registries |-> ls],
       rt |-> rt] :
         h \in {<<>>, <<h1>>, <<h2, h2>>, <<h3, h1, h2>>},
         fs \in {[graph |-> "f", tls |-> Unset, image_layer_check |-> "f"],
                 [graph |-> Empty, tls |-> "f", image_layer_check |-> Unset]},
         lo \in {<<>>,
                 <<<<"log-path", "bad">>, <<"max-size", "pos">>, <<"log-path", "pos">>>>,
                 <<<<"log-file-mode", "zero">>, <<"max-file", "zero">>>>},
         ls \in {<<>>, <<"o2">>},
         rt \in {[period |-> 0, runtime |-> 0], [period |-> 2, runtime |-> 0],
                 [period |-> -1, runtime |-> 2]} }
    \cup { [parseable |-> FALSE, hosts |-> <<>>,
            fields |-> [graph |-> Unset, tls |-> Unset, image_layer_check |-> Unset],
            logOpts |-> <<>>,
            lists |-> [l \in ListFields |-> <<>>],
            rt |-> [period |-> 0, runtime |-> 0]] }

MC_CgroupPaths == {<<>>, <<"isulad">>, <<"isulad", "c1">>, <<"a", "b", "c">>}

=============================================================================
