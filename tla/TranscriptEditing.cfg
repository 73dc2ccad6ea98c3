SPECIFICATION EditingSpec
CONSTANTS
  Job = {j1, j2}
  None = None
  MaxWrites = 2
  MaxEdits = 2
INVARIANTS EditingInv
PROPERTIES ChangesNotDropped RecognizedIsKept ChangesAreSavedOrReported
