\* Two histories of the run configuration, which only goes forward as does
\* project.py: urcu moves; lttng-modules, an undefined label and a cycle.
CONSTANTS
    urcu = urcu
    ust = ust
    tools = tools
    modules = modules
    Labels = {urcu, ust, tools, modules}
    Modules = {modules}
    Shas = {1, 2}
    Pys = {1, 2}
    Configs <- MCConfigs
    Edits <- Forward
    EditedDuringRun = FALSE
    OnlyForward = TRUE
    MaxDepth = 4
    Absent = Absent
    Truncated = Truncated
SPECIFICATION FairSpec
INVARIANTS
    TypeOK
    ReturnedMatchesMarkers
    ValidCacheIsHonest
    DependenciesInstalled
    LimitOnlyIfDeep
PROPERTIES
    ImmutableWhileValid
    KeepsPromise
    CallsEnd
