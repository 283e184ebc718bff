CONSTANTS
    r1 = r1
    r2 = r2
    r3 = r3
    Req = {r1, r2}
    Nil = Nil
    KeepPastWorker = FALSE
SPECIFICATION Spec
INVARIANT TrampolineArgRetained
CHECK_DEADLOCK FALSE
