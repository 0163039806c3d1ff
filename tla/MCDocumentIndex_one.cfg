CONSTANTS
    Worker = {w1}
    File = {f1, f2}
    Content = {c1, c2}
    Uploader = {"hr_team", "hr_head"}
    None = None
    MaxDocs = 4
    MaxCrashes = 1
    MaxFailures = 1
SPECIFICATION MCSpec
INVARIANTS
    TypeOK
    NoGhostChunks
    KeywordsCoverStore
    RestartLosesNothing
SYMMETRY Names
