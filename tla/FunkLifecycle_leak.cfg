\* One call of fd_funk_new in which fd_alloc_new fails.
CONSTANTS
    f1 = f1
    f2 = f2
    Funks = {f1}
    j1 = j1
    j2 = j2
    j3 = j3
    Joiners = {j1}
    FailPoints = {"alloc_new"}
    MaxNew = 1

SPECIFICATION Spec
CHECK_DEADLOCK FALSE
INVARIANT
    NoLeak
