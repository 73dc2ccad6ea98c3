\* One job, two executables that may not start, checkpoints that may fail.
SPECIFICATION Spec
CONSTANTS
    x1 = x1
    Job = {j1}
    Model = {x1, x2}
    ModelOf <- OneModel
    Tested = {}
    Variants = 2
    MaximumRestarts = 1
    MaximumUnloads = 2
    LaunchesMayFail = TRUE
    CheckpointsMayFail = TRUE
    LeaseMayBeLost = FALSE
    Analyses = FALSE
    RequestIds = 5
    Backlog = 1
    None = None
    Tester = Tester
INVARIANTS NeverStranded
