\* One thread in each of three processes writing the same funk.
CONSTANTS
    p1 = p1
    p2 = p2
    p3 = p3
    t1 = t1
    t2 = t2
    t3 = t3
    f1 = f1
    f2 = f2
    Procs = {p1, p2, p3}
    Threads = {t1, t2, t3}
    ProcOf <- ThreeProcs
    Funks = {f1}
    NoThread = NoThread
    HasThreads = TRUE
    LockMod = 4

SPECIFICATION Spec
\* FD_LOG_CRIT aborts a process: a run ends when the live threads are blocked.
CHECK_DEADLOCK FALSE
INVARIANT
    OneWriterPerFunk
