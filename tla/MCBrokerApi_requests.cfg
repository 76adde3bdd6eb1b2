\* Two requests at a time, and brokerctl, which rolls back too; every
\* handler comes to its end.
CONSTANTS
    u1 = u1
    s1 = s1
    h1 = h1
    h2 = h2
    pass = pass
    Scope = {s1}
    User = {u1}
    Password = {pass}
    Hash = {h1, h2}
    Kind = {"authentication_required"}
    RevisionsKept = 2
    MaxRevision = 3
    MaxGrant = 2
    Request = {q1, q2}
    Calls <- Traffic
    NoHash = NoHash
    Free = Free
SPECIFICATION FairApiSpec
INVARIANTS ApiTypeOK ConnectionOwner AnswerWasPublished
PROPERTIES ImplementsStore RequestsEnd
