\* One worker and the caller's own thread; bodies also YieldToReady, no task
\* names a thread.  Progress.
SPECIFICATION FairSpec
CONSTANTS
    w1 = w1  w2 = w2
    f1 = f1  f2 = f2  f3 = f3
    j1 = j1  j2 = j2  j3 = j3
    AnyThread = AnyThread  None = None  Caller = Caller
    Workers = {w1}
    UseCaller = TRUE
    Fibers = {f1, f2}
    Jobs = {j1, j2}
    Pins = {AnyThread}
    AllowReady = TRUE
    MaxWaits = 1
    MaxSuspends = 2
PROPERTIES StopReturns WokenIsResumed ImplementsPool
