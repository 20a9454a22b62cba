-------------------------- MODULE MCSnapshotScenario --------------------------
(***************************************************************************)
(* A small instance of SnapshotScenario: two tests, applications of two    *)
(* events, no projects.                                                    *)
(***************************************************************************)
EXTENDS SnapshotScenario

CONSTANTS app1, app2

MCVarsOf == [p \in Projects |-> {}]
MCApp == <<app1, app2>>
===============================================================================
