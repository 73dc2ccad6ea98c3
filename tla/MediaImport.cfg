SPECIFICATION FairImportSpec
CONSTANTS
  Recording = {r1, r2, r3}
  Source = {s1}
  Execution = {}
  None = None
  MaxVersion = 1
  MaxGeneration = 2
  BatchSize = 2
INVARIANTS ImportInv
PROPERTIES FolderImportEnds  SharedCopyIsKept
CONSTRAINT LibraryAtRest
