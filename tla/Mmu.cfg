SPECIFICATION MCSpec
CONSTANTS
  Entries = 4
  PageSize = 2
  MmioPage = 12
  UartPage = 13
  Base = 6
  ImageStart = 1
  Sections <- AllSections
  Cores = {0, 1, 2}
  BssBytes = 19
  BufferSize = 9
  Counts = {0, 1, 3}
  SizeOf <- TypeSizes
  Formats <- AllFormats
CHECK_DEADLOCK FALSE
INVARIANTS
  IdentityMapped
  DevicesAreDevices
  ImageProtected
  KernelSeesUart
  FaultsAreReported
  MainStartsReady
  FormatsLikeC
  BufferHoldsText
