\* A build without FD_HAS_THREADS: two threads of one process.
CONSTANTS
    p1 = p1
    p2 = p2
    p3 = p3
    t1 = t1
    t2 = t2
    t3 = t3
    f1 = f1
    f2 = f2
    Procs = {p1}
    Threads = {t1, t2}
    ProcOf <- OneProc
    Funks = {f1}
    NoThread = NoThread
    HasThreads = FALSE
    LockMod = 4

SPECIFICATION Spec
CHECK_DEADLOCK FALSE
INVARIANT
    NoCrit
