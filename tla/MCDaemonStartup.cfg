\* Two session daemons that answer within a minute, one relay daemon.
\* The driver may be killed, and does nothing more then.
CONSTANTS
    Sessionds = {s1, s2}
    Relayds = {r1}
    Ports = {t1, t2, t3, t4, t5}
    Timeout = 2
    Late = FALSE
SYMMETRY PortSymmetry
SPECIFICATION Spec
INVARIANTS
    TypeOK
    DriverSurvives
    SessiondAnswered
CHECK_DEADLOCK FALSE
