\* The feedback loop after a recovery that published the same cookies.
CONSTANTS
    h1 = h1
    h2 = h2
    h3 = h3
    f1 = f1
    f2 = f2
    Scope = {s1}
    User = {u1}
    Password = {pw}
    Hash = {h1}
    Kind = {"authentication_required"}
    RevisionsKept = 2
    MaxRevision = 2
    MaxGrant = 1
    Reader = u1
    Secret = pw
    Metadata = TRUE
    File = {f1, f2}
    renderNetscape <- Rendering
    NoFile = NoFile
    Foreign = Foreign
    Broken = Broken
    MaxFaults = 0
SPECIFICATION SyncSpec
PROPERTIES ReportIsObserved
