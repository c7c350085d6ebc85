SPECIFICATION Spec
CONSTANTS
    Group = 2
    MaxModelLen = 6
    Hk = 2
    Hq = 4
    SplitBlocks = 3
    Deployments <- MCDeployments
    Shapes <- MCShapes
    MaxRows = 3
INVARIANTS
    AttentionTypeOK
    OutputsExact
    PlanMatchesInputs
