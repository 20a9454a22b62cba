\* Two tests.
\* The driver stops when the `with' statement is over.
CONSTANTS
    sessiond = sessiond
    app1 = app1
    app2 = app2
    Procs = {sessiond, app1, app2}
    App <- MCApp
    nb_loop = 3
    Projects = {}
    VarsOf <- MCVarsOf
    Nobody = Nobody
SPECIFICATION ScenarioFairSpec
INVARIANTS
    ScenarioTypeOK
    AliveAtRecord
    EventBeforeRecord
    OnlyRaceFails
    NeverBothWait
PROPERTIES
    ScenarioEnds
CHECK_DEADLOCK FALSE
