CONSTANTS
    t1 = t1
    t2 = t2
    h1 = h1
    h2 = h2
    Thread = {t1, t2}
    Handle = {h1, h2}
    Creator = t1
    Ops = {"short", "signal", "wait", "flush", "create_ep", "progress", "with_worker"}
    MaxCalls = 2
    MaxRounds = 1
    Nil = Nil
SPECIFICATION FairSpec
INVARIANTS
    IndInv
    OneThreadInWorker
    NoUseAfterDestroy
    OnlyClosuresPanic
PROPERTIES
    CallsReturn
    ImplementsShared
    LastDropDestroys
CHECK_DEADLOCK FALSE
