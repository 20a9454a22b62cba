\* One daemon of each kind, and a viewer.
\* The driver may be killed, and does nothing more then.
CONSTANTS
    Sessionds = {s1}
    Relayds = {r1}
    Ports = {t1, t2, t3}
    Timeout = 2
    Late = FALSE
SPECIFICATION Spec
PROPERTIES
    FoundIsThere
CHECK_DEADLOCK FALSE
