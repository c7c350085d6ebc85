SPECIFICATION Spec
CONSTANTS
    Block = {b1, b2, b3, b4}
    Slot = {s1, s2, s3}
    Group = 3
    Request = {r1}
    Conversation = {c1}
    None = None
    MaxModelLen = 7
    MaxQueryLen = 2
    DraftPasses = 2
    DeferRows = FALSE
SYMMETRY Symmetry
INVARIANTS
    ServingTypeOK
    NeverExhausted
    SlotPartition
    CachedReadable
PROPERTIES
    AttentionReadsOwnTokens
    ReclaimSparesRunning
