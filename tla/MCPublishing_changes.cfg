\* A scope captured on change and one with recovery; five inputs of any kind.
\* Once they are used up and every upload has ended there is nothing to do.
CONSTANTS
    Scope = {s1, s2}
    User = {}
    Password = {}
    Hash <- Hashes
    Kind = {}
    RevisionsKept = 2
    MaxRevision = 2
    MaxGrant = 0
    Jar <- Jars
    Interactive = {s2}
    Upload = {j1, j2}
    RETRIES = 2
    MaxInputs = 5
SPECIFICATION FairPublishSpec
CHECK_DEADLOCK FALSE
INVARIANTS PublishTypeOK ServedIsAccepted
PROPERTIES RevisionsBringNews ChangeIsPublished
