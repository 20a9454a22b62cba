\* Two session daemons and a relay daemon, as late as they like.
\* The driver may be killed, and does nothing more then.
CONSTANTS
    Sessionds = {s1, s2}
    Relayds = {r1}
    Ports = {t1, t2, t3}
    Timeout = 2
    Late = TRUE
SPECIFICATION FairSpec
INVARIANTS
    OnlyLateKills
    PortsClashOnlyIfEarly
PROPERTIES
    WaitsEnd
CHECK_DEADLOCK FALSE
