CONSTANTS
    Worker = {w1, w2}
    File = {f1}
    Content = {c1}
    Uploader = {"hr_team"}
    None = None
    MaxDocs = 2
    MaxCrashes = 0
    MaxFailures = 0
SPECIFICATION MCFairSpec
PROPERTIES
    DeletedStaysDeleted
    RequestsEnd
