\* Every 3-word program of CtlInstrs (control flow and the call stack) and
\* every 3-word program of MemInstrs (memory, syscalls and the heap).
CONSTANTS
    Span = 16
    RodataSz = 8
    GuardSz = 4
    FrameSz = 4
    FrameMax = 2
    HeapMax = 16
    InputFrags <- MC_InputFrags
    DirectMapping = TRUE
    IsDeprecated = FALSE
    TextCnt = 3
    EntryPc = 0
    EntryCU = 5
    Calldests = {0, 1}
    Syscalls <- MC_Syscalls
    AllocFreeId <- MC_AllocFreeId
    Programs <- VmPrograms
    LoadVals = {0, 2}
    RegMod = 128
    MaxSyscallCU = 1
    AllocSizes = {1, 8}

SPECIFICATION Spec
\* A run returns: its last state has no successor.
CHECK_DEADLOCK FALSE
INVARIANTS
    TypeOK
    FrameDiscipline
    HeapBlocksDisjoint
PROPERTIES
    Metered
    Termination
