\* A desktop application and a command line, one-chunk plans, with fairness.
SPECIFICATION FairExecSpec
CONSTANTS
    Job = {j1}
    Recording = {r1}
    RecordingOf <- SameRecording
    Owner = {gui, cli}
    Gui = {gui}
    Edits = {}
    Deletable = {}
    NoJob = NoJob
    NoLease = NoLease
    MaxChunks = 1
    LeaseTTL = 2
PROPERTIES
    
    LostJobRecovered
    QueueMoves
    CancellationCarriedOut
