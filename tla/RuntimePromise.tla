--------------------------- MODULE RuntimePromise ---------------------------
(***************************************************************************)
(* What `with get_runtime(...) as runtime' promises a test, without the    *)
(* registry, the calls and the order in which close() goes through them:   *)
(* the test may spawn subprocesses; they end when they do; and the         *)
(* statement is only over when each has been waited for, and raises the    *)
(* errors of all that failed, unless it says that it broke off.            *)
(***************************************************************************)
CONSTANT Procs

VARIABLES
    phase,   \* of the `with' statement: "test", "closing" or "over"
    spawned, \* the subprocesses that were started so far
    live,    \* those that have not ended
    held,    \* those that nobody has waited for
    failed,  \* those that ended with an error
    report   \* what the statement raised: whether it broke off, whose errors

vars == <<phase, spawned, live, held, failed, report>>

Nothing == [broken |-> FALSE, errors |-> {}]

Init ==
    /\ phase = "test"
    /\ spawned = {}
    /\ live = {}
    /\ held = {}
    /\ failed = {}
    /\ report = Nothing

\* A test may start a subprocess; nothing is started once it is being closed.
Spawn(p) ==
    /\ phase = "test"
    /\ p \notin spawned
    /\ spawned' = spawned \cup {p}
    /\ live' = live \cup {p}
    /\ held' = held \cup {p}
    /\ UNCHANGED <<phase, failed, report>>

\* A subprocess ends, of itself or because of a signal.
End(p) ==
    /\ p \in live
    /\ live' = live \ {p}
    /\ failed' \in {failed, failed \cup {p}}
    /\ UNCHANGED <<phase, spawned, held, report>>

Leave == phase = "test" /\ phase' = "closing"

\* Only what has ended is waited for; the wait may raise in the test.
Collect(p) ==
    /\ p \in held \ live
    /\ held' = held \ {p}
    /\ Leave \/ UNCHANGED phase
    /\ UNCHANGED <<spawned, live, failed, report>>

\* The test ends or raises.
TestEnds ==
    /\ Leave
    /\ UNCHANGED <<spawned, live, held, failed, report>>

Over ==
    /\ phase = "closing"
    /\ held = {}
    /\ phase' = "over"
    /\ report' \in {[broken |-> FALSE, errors |-> failed],
                    [broken |-> TRUE, errors |-> {}]}
    /\ UNCHANGED <<spawned, live, held, failed>>

Next ==
    \/ \E p \in Procs : Spawn(p) \/ End(p) \/ Collect(p)
    \/ TestEnds
    \/ Over

Spec == Init /\ [][Next]_vars
=============================================================================
