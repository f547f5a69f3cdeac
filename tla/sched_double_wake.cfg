\* As sched_safety, with fibers that wait for two events at once.
SPECIFICATION Spec
CONSTANTS
    w1 = w1  w2 = w2
    f1 = f1  f2 = f2  f3 = f3
    j1 = j1  j2 = j2  j3 = j3
    AnyThread = AnyThread  None = None  Caller = Caller
    Workers = {w1, w2}
    UseCaller = FALSE
    Fibers = {f1, f2}
    Jobs = {j1, j2}
    Pins = {AnyThread, w1, w2}
    AllowReady = FALSE
    MaxWaits = 2
    MaxSuspends = 1
INVARIANTS SwapInAssert
