\* A scope whose health and expiry are watched while time passes; lasting
\* alarms.
CONSTANTS
    Scope = {s1}
    RevisionsKept = 2
    MaxRevision = 2
    Poll = {p1}
    Upload = {}
    NoPoll = NoPoll
    Thresholds = {1, 2}
    expires <- Hints
    RETRIES = 1
    MaxHour = 4
    MaxFaults = 1
SPECIFICATION FairPollSpec
INVARIANTS ToldBeforeRecorded
PROPERTIES NoticesAreNew AlarmIsNoticed
