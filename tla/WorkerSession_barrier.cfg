\* One job with speech analysis and two executables, with fairness.
SPECIFICATION FairSpec
CONSTANTS
    x1 = x1
    Job = {j1}
    Model = {x1, x2}
    ModelOf <- OneModel
    Tested = {}
    Variants = 2
    MaximumRestarts = 1
    MaximumUnloads = 2
    LaunchesMayFail = FALSE
    CheckpointsMayFail = FALSE
    LeaseMayBeLost = FALSE
    Analyses = TRUE
    RequestIds = 5
    Backlog = 1
    None = None
    Tester = Tester
PROPERTIES BarrierEnds FenceLifts
