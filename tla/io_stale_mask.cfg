\* As io_pool, with both events of one descriptor and no READY yields.
SPECIFICATION Spec
CONSTANTS
    t1 = t1  t2 = t2  fd1 = fd1  fd2 = fd2  NoFd = NoFd
    AnyThread = AnyThread
    Threads = {t1, t2}
    Pins = {AnyThread}
    Fds = {fd1}
    Events = {"READ", "WRITE"}
    MaxTasks = 1
    MaxYields = 0
    MaxAdds = 2
    MaxArrivals = 2
INVARIANTS TriggerAssert
