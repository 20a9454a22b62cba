------------------------- MODULE MCRuntimeInterrupts -------------------------
(***************************************************************************)
(* The instance of MCRuntime, interrupted.                                 *)
(***************************************************************************)
EXTENDS RuntimeInterrupts

CONSTANTS tools, othertools

MCVarsOf == [p \in Projects |-> {"LTTNG_SESSION_CONFIG_XSD_PATH"}]
===============================================================================
