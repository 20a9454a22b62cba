\* The process is killed at any point; the sources stay.
CONSTANTS
    urcu = urcu
    ust = ust
    tools = tools
    modules = modules
    Labels = {urcu, ust}
    Modules = {}
    Shas = {1, 2}
    Pys = {1}
    Configs <- AltConfigs
    Edits <- NoEdits
    EditedDuringRun = FALSE
    OnlyForward = TRUE
    MaxDepth = 2
    Absent = Absent
    Truncated = Truncated
SPECIFICATION Spec
INVARIANTS
    LeftoversAreRebuilt
