\* An event is logged after its scope has been uploaded.
CONSTANTS
    s1 = s1
    s2 = s2
    popup = popup
    Scope = {s1, s2}
    Installation = {here, there}
    maxDiagnosticEvents = 2
    maxDiagnosticDepth = 4
    maxDiagnosticsBytes = 2
    RowsKept = 2
    Retention = 1
    Tolerance = 2
    Ahead = 1
    maxLimit = 1
    defaultLimit = 2
    Logger = {worker, popup}
    Worker = worker
    Self = here
    NoScope = NoScope
    Grants <- Granted
    Logs <- Pages
    EVENTS_PER_BATCH = 2
    MAX_EVENTS = 3
    BatchesPerUpload = 1
    MaxInputs = 4
SPECIFICATION DiagSpec
CHECK_DEADLOCK FALSE
INVARIANTS UploadedMeansReceived
