SPECIFICATION GemmSpec
CONSTANTS
    Calls <- MCCalls
    Counters = 2
INVARIANTS
    GemmTypeOK
    StageHoldsKBlock
    ProductIsWhole
    LastSeesEveryPartial
    CountersLeftZero
    DecodesTheBlock
    UnrepackInverts
