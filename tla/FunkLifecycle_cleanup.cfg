\* Two funks in one workspace, each made by up to two calls of
\* fd_funk_new that fail at any step but fd_alloc_new or succeed; joins
\* by two threads; deletes.
CONSTANTS
    f1 = f1
    f2 = f2
    Funks = {f1, f2}
    j1 = j1
    j2 = j2
    j3 = j3
    Joiners = {j1, j2}
    FailPoints <- CleanFailPoints
    MaxNew = 2

SPECIFICATION Spec
\* fd_funk_new is called at most MaxNew times: the last delete ends a run.
CHECK_DEADLOCK FALSE
INVARIANTS
    TypeOK
    NoLeak
    JoinedSeesLive
