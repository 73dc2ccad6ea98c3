SPECIFICATION PrepSpec
CONSTANTS
  Recording = {r1}
  Source = {s1}
  Execution = {e1, e2}
  Desktop = {e1}
  None = None
  MaxVersion = 2
INVARIANTS PreparationInv ChunksOfOneSource
PROPERTY ReferencedIsKept
CHECK_DEADLOCK FALSE
