CONSTANTS
    w1 = w1
    w2 = w2
    e1 = e1
    e2 = e2
    Worker = {w1, w2}
    Ep = {e1, e2}
    Flag = {f1, f2}
    MaxRounds = 1
    Nil = Nil
    Key = {k1, k2}
    Wire <- Wires
    DataAddr = {64}
    PtrMod = 512
    ByteMod = 2
SPECIFICATION HandlesFairSpec
INVARIANTS
    HInv
    FlagsTell
    GuardedCallsSound
    GivenUpOnce
    StreamDataPinsEp
PROPERTIES
    CloseFreesFinished
    DanglesOnlyOutlived
    LoopsEnd
CHECK_DEADLOCK FALSE
