\* Recoveries from start to end, two starts and two arrivals at a time.
CONSTANTS
    Window = {w1, w2}
    Starter = {t1, t2}
    Capturer = {c1, c2}
    NoWindow = NoWindow
SYMMETRY Slots
SPECIFICATION RecoverySpec
INVARIANTS RecoveryTypeOK OneIsolatedWindow FlagHasOwner ClosesOnlyItsOwn
