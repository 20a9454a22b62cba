\* One subprocess.
\* The driver stops when the `with' statement is over.
CONSTANTS
    tools = tools
    othertools = othertools
    babeltrace = babeltrace
    Procs = {p1}
    Projects = {babeltrace}
    VarsOf <- MCVarsOf
    Nobody = Nobody
SPECIFICATION Spec
PROPERTIES
    AlwaysTriesToUnload
CHECK_DEADLOCK FALSE
