\* Two fresh objects of four, over three of the cache.
CONSTANTS
    urcu = urcu
    ust = ust
    tools = tools
    newust = newust
    modules = modules
    newmodules = newmodules
    babeltrace = babeltrace
    Fresh = {tools, newust, newmodules, babeltrace}
    Cached = {urcu, ust, modules}
    ProjectOf <- MCProjectOf
    DefaultDeps <- MCDefaultDeps
    Agent = {ust, newust}
    Babeltrace2 = {babeltrace}
    UserVars = {"PYTHONPATH"}
    MaxFresh = 2
    Absent = Absent
SPECIFICATION Spec
INVARIANTS
    TypeOK
    ReturnedIsComplete
    UnstrippedExplained
    LinkedToInstalled
    ConflictsAreTheUsers
    RefusedExplained
PROPERTIES
    ImmutableUntouched
