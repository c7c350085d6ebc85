SPECIFICATION TileSpec
CONSTANTS
    Blocks = {0, 1}
    NumLayers = 2
    Slots = {0, 1}
    Heads = 2
    Group = 4
    HeadDims = {4, 8}
    ValueBits = {2, 4}
    WideHead = 8
    TilesPerLaunch = 4
    PairsPerLaunch = 3
    StepTokens = 3
    Uses = 3
INVARIANTS TileTypeOK ReadersSeeTheBlock
CHECK_DEADLOCK FALSE
