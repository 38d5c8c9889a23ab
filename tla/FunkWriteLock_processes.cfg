\* Two threads of one process and one of another, writing two funks.
CONSTANTS
    p1 = p1
    p2 = p2
    p3 = p3
    t1 = t1
    t2 = t2
    t3 = t3
    f1 = f1
    f2 = f2
    Procs = {p1, p2}
    Threads = {t1, t2, t3}
    ProcOf <- TwoProcsThree
    Funks = {f1, f2}
    NoThread = NoThread
    HasThreads = TRUE
    LockMod = 4

SPECIFICATION Spec
\* FD_LOG_CRIT aborts a process: once both have aborted nothing runs.
CHECK_DEADLOCK FALSE
INVARIANTS
    OneWriterPerFunk
PROPERTIES
    CasLoopLockFree
