\* A desktop application and a command line over one job.
SPECIFICATION ExecSpec
CONSTANTS
    Job = {j1}
    Recording = {r1}
    RecordingOf <- SameRecording
    Owner = {gui, cli}
    Gui = {gui}
    Edits = {}
    Deletable = {}
    NoJob = NoJob
    NoLease = NoLease
    MaxChunks = 2
    LeaseTTL = 1
INVARIANTS
    CompletedChunkIsSaved
    PublishedIsWhole
    RunningChunkIsRun
    
PROPERTIES
    CompletedChunksRetained
