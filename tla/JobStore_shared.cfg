\* Two jobs of one recording, two executors, one-chunk plans.
SPECIFICATION Spec
CONSTANTS
    Job = {j1, j2}
    Recording = {r1}
    RecordingOf <- SameRecording
    Owner = {o1, o2}
    NoJob = NoJob
    NoLease = NoLease
    MaxChunks = 1
    LeaseTTL = 1
SYMMETRY Symmetry
INVARIANTS
    StoreInv
PROPERTIES
    CancellationSticks
    LiveLeaseRespected
    ManualEditsKept
    PublishedTranscriptKept
    UnownedChunksKept
    ImplementsExclusiveExecution
\* A library whose recordings are all permanently deleted has nothing left to do.
CHECK_DEADLOCK FALSE
