\* Two subprocesses; two versions of lttng-tools, which exclude each other.
\* The driver stops when the `with' statement is over.
CONSTANTS
    tools = tools
    othertools = othertools
    babeltrace = babeltrace
    Procs = {p1, p2}
    Projects = {tools, othertools}
    VarsOf <- MCVarsOf
    Nobody = Nobody
SPECIFICATION Spec
INVARIANTS
    TypeOK
    NoSurvivor
PROPERTIES
    KeepsPromise
CHECK_DEADLOCK FALSE
