SPECIFICATION Spec
CONSTANTS
    l1 = l1
    l2 = l2
    d1 = d1
    Layer <- MCLayer
    Groups <- MCGroups
    DraftLayers <- MCDraftLayers
    NumBlocks = 2
    LookupBound = 1
    MaxInits = 2
INVARIANTS
    OwnerTypeOK
    OneDriver
    ReadsDriversSlots
    NoStaleSlots
PROPERTY
    FreedSlotsHaveACache
