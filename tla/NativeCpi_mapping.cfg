\* Transactions of up to three accounts, calling instructions of up to two
\* accounts and up to two metas, over the system program and two other
\* pubkeys; uchar narrowed to 4 values so that the sentinel is in reach of
\* the width.
CONSTANTS
    sys = sys
    a = a
    b = b
    Keys = {sys, a, b}
    SysProg = sys
    NoKey = NoKey
    MaxTxnAccts = 3
    MaxInstrAccts = 2
    MaxMetas = 2
    UcharMod = 4
    UshortMod = 65536
    EncodeCanFail = TRUE

SPECIFICATION Spec
SYMMETRY KeySymmetry
\* fd_native_cpi_execute_system_program_instruction returns: a finished
\* call is a final state.
CHECK_DEADLOCK FALSE
INVARIANTS
    MetaMapping
