SPECIFICATION Spec
CONSTANTS
    Group = 16
    SlotBytes = 3
    Requested = {1, 2, 12}
    BatchTokens = {16, 24, 40}
    Budgets = {0, 33, 50, 90, 200}
    EnvSlots = {0, 20}
    Committed = {0, 1, 15, 16, 31}
    Query = {1, 2, 3, 16, 18, 24}
    LongRows = 8
INVARIANTS
    SizingTypeOK
    PoolSuffices
    PoolFitsAFeasibleBudget
