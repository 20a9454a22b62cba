\* Three labels of two remotes that move once, two lookups cut short, four
\* config.yaml.
CONSTANTS
    urcu = urcu
    ust = ust
    oldust = oldust
    urcugit = urcugit
    ustgit = ustgit
    stable = stable
    Labels = {urcu, ust, oldust}
    Urls = {urcugit, ustgit}
    Refs = {stable}
    Shas = {1, 2}
    Configs <- MCConfigs
    Deprecated = {oldust}
    TestOnly = {}
    Tests <- MCTests
    Mark = Mark
    MaxMoves = 1
    MaxMissed = 2
    Absent = Absent
SPECIFICATION Spec
INVARIANTS
    TypeOK
    MarkersClosed
    AsRemoteSaid
    PipelineUsesItsOwn
    TestsFindPrebuilt
