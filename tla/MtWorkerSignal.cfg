CONSTANTS
    t1 = t1
    t2 = t2
    h1 = h1
    h2 = h2
    Thread = {t1, t2}
    Handle = {h1, h2}
    Creator = t1
    Ops = {"signal", "wait"}
    MaxCalls = 1
    MaxRounds = 1
    Nil = Nil
SPECIFICATION FairSpec
PROPERTY SignalWakes
CHECK_DEADLOCK FALSE
