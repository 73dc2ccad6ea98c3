\* A desktop application and a command line download one model of three blocks.
SPECIFICATION FairDlSpec
CONSTANTS
    Process = {gui, cli}
    Desktop = {gui}
    NoProcess = none
    Size = 3
    MaxRetries = 1
INVARIANTS
    DownloadInv
PROPERTIES
    PublishedKept
    
    
\* Downloads that are over need not be repeated.
CHECK_DEADLOCK FALSE
