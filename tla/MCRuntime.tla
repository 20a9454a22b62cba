------------------------------ MODULE MCRuntime ------------------------------
(***************************************************************************)
(* Small instances of Runtime: two daemons or applications, two versions   *)
(* of lttng-tools, whose special variables are the same, and babeltrace.   *)
(***************************************************************************)
EXTENDS Runtime

CONSTANTS tools, othertools, babeltrace

MCVarsOf == [p \in Projects |->
               IF p = babeltrace THEN {} ELSE {"LTTNG_SESSION_CONFIG_XSD_PATH"}]
==============================================================================
