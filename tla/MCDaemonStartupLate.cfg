\* Two session daemons that may be late.
\* The driver may be killed, and does nothing more then.
CONSTANTS
    Sessionds = {s1, s2}
    Relayds = {}
    Ports = {t1, t2, t3, t4}
    Timeout = 2
    Late = TRUE
SYMMETRY PortSymmetry
SPECIFICATION Spec
INVARIANTS
    CleanupPerformed
CHECK_DEADLOCK FALSE
