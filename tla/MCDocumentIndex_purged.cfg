CONSTANTS
    Worker = {w1}
    File = {f1, f2}
    Content = {c1, c2}
    Uploader = {"hr_team", "hr_head"}
    None = None
    MaxDocs = 3
    MaxCrashes = 0
    MaxFailures = 0
SPECIFICATION MCSpec
INVARIANT ApprovedIsSearchable
