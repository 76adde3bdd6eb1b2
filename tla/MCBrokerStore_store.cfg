\* One scope with a long history, and two users whose access comes and goes.
CONSTANTS
    Scope = {s1}
    User = {u1, u2}
    Password = {pw}
    Hash = {h1, h2}
    Kind = {"ok", "authentication_required"}
    RevisionsKept = 2
    MaxRevision = 3
    MaxGrant = 2
SYMMETRY Symmetry
SPECIFICATION Spec
INVARIANTS TypeOK RetentionWindow CurrentRetained RevisionNamesOneContent NoOrphans
PROPERTIES FreshRevisionIsHealthy AlarmHasCause AlarmClearedByItsReader ShowsStatus
