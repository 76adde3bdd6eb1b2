\* Two targets share the combined jar; COOKIE_SYNC_METADATA=false.
CONSTANTS
    h1 = h1
    h2 = h2
    h3 = h3
    f1 = f1
    f2 = f2
    Scope = {s1, s2}
    User = {u1}
    Password = {pw}
    Hash = {h1}
    Kind = {}
    RevisionsKept = 1
    MaxRevision = 1
    MaxGrant = 2
    Reader = u1
    Secret = pw
    Metadata = FALSE
    File = {f1, f2}
    renderNetscape <- Rendering
    NoFile = NoFile
    Foreign = Foreign
    Broken = Broken
    MaxFaults = 2
SYMMETRY Targets
SPECIFICATION SyncSpec
PROPERTIES JarKeepsTargets
