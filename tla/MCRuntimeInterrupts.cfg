\* Two subprocesses, interrupted in the test and in close().
\* The driver stops when the `with' statement is over.
CONSTANTS
    tools = tools
    othertools = othertools
    Procs = {p1, p2}
    Projects = {tools, othertools}
    VarsOf <- MCVarsOf
    Nobody = Nobody
SPECIFICATION ISpec
INVARIANTS
    InterruptedIsClean
    InterruptedIsReported
PROPERTIES
    ReapedIsFinal
    CloseAdvances
    CloseEnds
CHECK_DEADLOCK FALSE
