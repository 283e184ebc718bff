SPECIFICATION MemorySpec
CONSTANTS
    Builder = {b1, b2}
    Param = {p1}
    Cell = {c1, c2}
    Text = {t1, t2}
    NulText = NulText
    Nil = Nil
    ByteMod = 2
    Ctx = {x1, x2}
    Memh = {m1}
    Pack = {q1}
    Buf = {u1, u2}
    Payload <- Payloads
SYMMETRY Symmetry
INVARIANTS
    MemoryInv
    OneOwner
    UcxReadsAsked
    AdmissionExact
    ConversionsExact
    PackedKeyUnpacks
    OrderlyIsSafe
CHECK_DEADLOCK FALSE
