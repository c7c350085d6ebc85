SPECIFICATION Spec
CONSTANTS
    Block = {b1, b2, b3, b4}
    Slot = {s1, s2, s3, s4}
    Group = 2
    Request = {r1, r2}
    Conversation = {c1}
    None = None
    MaxModelLen = 3
    MaxQueryLen = 2
    DraftPasses = 0
    DeferRows = TRUE
SYMMETRY Symmetry
PROPERTIES
    ReclaimSparesRunning
