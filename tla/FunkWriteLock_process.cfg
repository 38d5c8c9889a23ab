\* Three threads of one process writing two funks, threaded build.
CONSTANTS
    p1 = p1
    t1 = t1
    t2 = t2
    t3 = t3
    f1 = f1
    f2 = f2
    Procs = {p1}
    Threads = {t1, t2, t3}
    ProcOf <- OneProc
    Funks = {f1, f2}
    NoThread = NoThread
    HasThreads = TRUE
    LockMod = 4
    p2 = p2
    p3 = p3

SPECIFICATION Spec
INVARIANTS
    NoCrit
    WriterAgreement
