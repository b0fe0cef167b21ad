SPECIFICATION ModeSpec
CONSTANTS
    None = None
    s1 = s1
    s2 = s2
    PatientIds = {1, 2}
    Ids = {1, 2, 3}
    Files = {f1, f2}
    Infected = {f2}
    Sessions = {s1, s2, s3}
    Workers = {w1, w2}
    MaxQueued = 1
    Ops = {"upload", "replace", "delete", "publish", "edit", "sweep", "crash", "broadcast",
           "submit", "start_review", "approve", "reject", "acknowledge", "archive"}
INVARIANTS TypeOK Attended UploadOneDraft PatientPublishedIsClean
           PatientReviewedIsComplete
PROPERTY CrowdAnswered
CHECK_DEADLOCK FALSE
