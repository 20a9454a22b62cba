--------------------------- MODULE MCPrecookCache ---------------------------
(***************************************************************************)
(* Small instances of PrecookCache.                                        *)
(***************************************************************************)
EXTENDS PrecookCacheInv, TLC

CONSTANTS urcu, ust, tools, modules

Marker(sha, deps) == [sha |-> sha, deps |-> deps]
SourcesOf(configs) == {[conf |-> c, py |-> p] : c \in configs, p \in Pys}

(* The dependencies of config.yaml: lttng-tools on lttng-ust and urcu,     *)
(* lttng-ust on urcu.  Then the branch of urcu moves, and then lttng-tools *)
(* does no longer name urcu.                                               *)
Base == [l \in {urcu, ust, tools} |->
           CASE l = urcu  -> Marker(1, {})
             [] l = ust   -> Marker(1, {urcu})
             [] l = tools -> Marker(1, {ust, urcu})]
Moved   == [Base EXCEPT ![urcu].sha = 2]
Dropped == [Moved EXCEPT ![tools].deps = {ust}]

(* lttng-modules, which is skipped when it does not build; then its marker *)
(* is dropped and two markers are made to depend on each other, which      *)
(* bootstrap.py accepts.                                                   *)
WithModules == (modules :> Marker(1, {})) @@ (ust :> Marker(1, {urcu}))
                 @@ (urcu :> Marker(1, {}))
Cyclic == (ust :> Marker(1, {urcu})) @@ (urcu :> Marker(1, {ust}))

\* Two histories; no configuration and no project.py comes back in either.
Histories == {<<Base, Moved, Dropped>>, <<WithModules, Cyclic>>}
MCConfigs == UNION {{h[i] : i \in DOMAIN h} : h \in Histories}

Forward ==
    {e \in SourcesOf(MCConfigs) \X SourcesOf(MCConfigs) :
       /\ e[1] # e[2]
       /\ e[1].py <= e[2].py
       /\ \E h \in Histories : \E i, j \in DOMAIN h :
             i <= j /\ h[i] = e[1].conf /\ h[j] = e[2].conf}
NoEdits == {}

\* Two labels, for the process that is killed.
TwoLabels == (urcu :> Marker(1, {})) @@ (ust :> Marker(1, {urcu}))
AltConfigs == {TwoLabels, [TwoLabels EXCEPT ![urcu].sha = 2]}
=============================================================================
