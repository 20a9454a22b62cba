--------------------------- MODULE MCProjectObject ---------------------------
(***************************************************************************)
(* The objects of test_soname_configure: lttng-tools on lttng-ust and urcu *)
(* of the cache, and a fresh lttng-ust that replaces the one of the cache; *)
(* and lttng-modules, fresh and of the cache, and babeltrace.              *)
(***************************************************************************)
EXTENDS ProjectObject, TLC

CONSTANTS urcu, ust, tools, newust, modules, newmodules, babeltrace

MCProjectOf == (urcu :> "urcu") @@ (tools :> "lttng-tools")
                 @@ [o \in {ust, newust} |-> "lttng-ust"]
                 @@ [o \in {modules, newmodules} |-> "lttng-modules"]
                 @@ (babeltrace :> "babeltrace")
MCDefaultDeps == (tools :> {ust, urcu}) @@ [o \in {ust, newust} |-> {urcu}]
                   @@ [o \in {urcu, modules, newmodules, babeltrace} |-> {}]
=============================================================================
