CONSTANTS
    r1 = r1
    r2 = r2
    r3 = r3
    Req = {r1, r2, r3}
    Nil = Nil
    KeepPastWorker = FALSE
SPECIFICATION Spec
SYMMETRY Symm
INVARIANTS
    IndInv
    StateOutlivesUsers
    RefsExact
    DestroyedWithLastOwner
    ListenerCallsSound
    SingleUse
CHECK_DEADLOCK FALSE
