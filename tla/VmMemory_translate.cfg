\* Translation against the byte-level reference, direct mapping on.
CONSTANTS
    Span = 16
    RodataSz = 8
    GuardSz = 4
    FrameSz = 4
    FrameMax = 2
    HeapMax = 16
    InputFrags <- MC_InputFrags
    DirectMapping = TRUE
    IsDeprecated = FALSE

SPECIFICATION ProbeSpec
INVARIANT
    TranslateMatchesReference
