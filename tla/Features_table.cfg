\* Three features, slots 0 .. 7 with 7 the sentinel, the bank at slots 0 .. 3.
CONSTANTS
    FeatureCnt = 3
    IdIndex <- MCIdIndex
    ULongMod = 8
    SlotMax = 3
    SetSlots = {0, 2, 3}
SPECIFICATION Spec
INVARIANT ActiveMeansActivated
PROPERTY IterCoversAll
