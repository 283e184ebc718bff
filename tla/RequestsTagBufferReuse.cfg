CONSTANTS
    PtrMod = 512
    Addr = {8, 16}
    v1 = v1
    v2 = v2
    b1 = b1
    w1 = w1
    w2 = w2
    Var <- MCVar
    Buf = {b1}
    Worker <- MCWorker
    ErrStatus <- MCErrStatus
    MaxProgress = 2
    Nil = Nil
SPECIFICATION Spec
INVARIANT TagBufferNotReusable
CHECK_DEADLOCK FALSE
