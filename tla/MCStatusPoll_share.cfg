\* Uploads, the alarm and the popup share polls; the worker is stopped.
CONSTANTS
    Scope = {s1}
    RevisionsKept = 1
    MaxRevision = 2
    Poll = {p1, p2}
    Upload = {j1, j2}
    NoPoll = NoPoll
    Thresholds = {}
    expires <- NoHints
    RETRIES = 1
    MaxHour = 0
    MaxFaults = 1
SYMMETRY Slots
SPECIFICATION PollSpec
INVARIANTS PollTypeOK RefreshIsFresh
PROPERTIES StatusNeverGoesBack
