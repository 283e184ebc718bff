CONSTANTS
    PtrMod = 512
    i1 = i1
    i2 = i2
    a1 = a1
    a2 = a2
    s1 = s1
    s2 = s2
    Id = {i1}
    Handler = {a1, a2}
    Slot = {s1, s2}
    MaxSends = 2
    Raw = Raw
    Nil = Nil
SPECIFICATION Spec
INVARIANT PanickedNotInvokedAgain
CHECK_DEADLOCK FALSE
