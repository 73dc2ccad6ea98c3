\* The models of a desktop application, one of which a command line downloads too.
SPECIFICATION LibSpec
CONSTANTS
    Process = {gui, cli}
    Desktop = {gui}
    Gui = gui
    NoProcess = none
    Size = 2
    MaxRetries = 0
INVARIANTS
    LibraryInv
PROPERTIES
    UsedModelKept
CONSTRAINT OneSideAtATime
\* Nothing has to be done with a model.
CHECK_DEADLOCK FALSE
