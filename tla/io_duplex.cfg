\* One thread, both events of a descriptor.  Progress.
SPECIFICATION FairSpec
CONSTANTS
    t1 = t1  t2 = t2  fd1 = fd1  fd2 = fd2  NoFd = NoFd
    AnyThread = AnyThread
    Threads = {t1}
    Pins = {AnyThread}
    Fds = {fd1, fd2}
    Events = {"READ", "WRITE"}
    MaxTasks = 2
    MaxYields = 1
    MaxAdds = 3
    MaxArrivals = 2
INVARIANTS TriggerAssert ExitMeansDone
PROPERTIES EventDelivered StopReturns
