\* Two threads, two descriptors, one kind of event; tasks for one of the threads
\* and tasks that yield READY.
SPECIFICATION Spec
CONSTANTS
    t1 = t1  t2 = t2  fd1 = fd1  fd2 = fd2  NoFd = NoFd
    AnyThread = AnyThread
    Threads = {t1, t2}
    Pins = {AnyThread, t1}
    Fds = {fd1, fd2}
    Events = {"READ"}
    MaxTasks = 2
    MaxYields = 2
    MaxAdds = 2
    MaxArrivals = 2
INVARIANTS TypeOK PendingExact ContextsInSync WorkHasThread
PROPERTIES ImplementsHub
