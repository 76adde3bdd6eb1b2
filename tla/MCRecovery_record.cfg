\* A recovery is completed while another one starts.
CONSTANTS
    Window = {w1, w2}
    Starter = {t1}
    Capturer = {c1}
    NoWindow = NoWindow
SPECIFICATION RecoverySpec
INVARIANTS RecoveryIsRecorded
