CONSTANTS
    PtrMod = 512
    i1 = i1
    i2 = i2
    a1 = a1
    a2 = a2
    s1 = s1
    s2 = s2
    Id = {i1, i2}
    Handler = {a1, a2}
    Slot = {s1, s2}
    MaxSends = 4
    Raw = Raw
    Nil = Nil
SPECIFICATION FairSpec
INVARIANTS
    IndInv
    NoFreedHandler
    ClosureExclusive
PROPERTIES
    CallbacksReturn
    DropEnds
CHECK_DEADLOCK FALSE
