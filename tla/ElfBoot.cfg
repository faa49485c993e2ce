SPECIFICATION MCSpec
CONSTANTS
  ElfStart = 2
  StackSize = 1
  CodeEnd = 3
  DtbBlob = 4
  DtbSize = 2
  FileBase = 6
  FileEnd = 11
  Word = 2
  SearchWords = 3
  BssStart = 11
  End = 12
  DtbStart = 19
  MemSize = 22
  WordSize = 46
  LongSize = 92
  SearchBytes = 3
  PageBytes = 2
  Sizes = {0, 2, 5, 10}
  Odds = {{}, {1}}
  Images <- AllImages
CHECK_DEADLOCK FALSE
INVARIANTS
  LoadedIsFile
  DtbSaved
  LoaderIntact
  ReaderAgrees
PROPERTIES
  BootEnds
