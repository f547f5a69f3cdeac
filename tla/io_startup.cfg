\* Two threads, started twice; descriptors inside the table, at its edge and
\* outside, and two calls that find it too small.
SPECIFICATION FairSpec
CONSTANTS
    Count = 2
    MaxStarts = 2
    MaxTasks = 4
    Threads <- MCThreads
    Fds = {2, 4}
    Events = {"READ", "WRITE"}
    InitSize = 2
    MaxResizes = 3
INVARIANTS IdsExact ListComplete DestroyedEnded InBounds NoneForgotten HarmedByRaceOnly StopsClean
PROPERTIES CallsReturn
