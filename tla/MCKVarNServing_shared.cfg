SPECIFICATION Spec
CONSTANTS
    Block = {b1, b2, b3, b4}
    Slot = {s1, s2, s3}
    Group = 1
    Request = {r1, r2}
    Conversation = {c1}
    None = None
    MaxModelLen = 3
    MaxQueryLen = 2
    DraftPasses = 0
    DeferRows = FALSE
SYMMETRY Symmetry
INVARIANTS
    SinkBookkeeping
    ResidencyIsFree
    CachedReadable
PROPERTIES
    Int4IsFinal
    LiveSinkResident
    AttentionReadsOwnTokens
CHECK_DEADLOCK FALSE
