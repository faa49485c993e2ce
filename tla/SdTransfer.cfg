SPECIFICATION Spec
CONSTANTS
  d1 = d1
  d2 = d2
  MaxPolls = 1
  Args <- TransferArgs
  Codes <- TransferCodes
  Responses <- TransferResponses
  Lines = {"DAT_INHIBIT", "READ_AVAILABLE", "WRITE_AVAILABLE"}
  Events = {"DATA_DONE", "READ_RDY", "WRITE_RDY", "DATA_TIMEOUT", "ERROR"}
  NumBlocks = 2
  MaxNum = 2
  BlockLen = 2
  Data = {d1, d2}
  Flags <- AnyCapacity
  Refusing = FALSE
  Reach = 3
  FaultBits = {"CMD_TIMEOUT", "DATA_TIMEOUT"}
  MaxFaults = 1
SYMMETRY Contents
INVARIANTS
  TypeOK
  ReadReturnsDisk
  TransferReachesDisk
  CardBackInTran
PROPERTIES
  ImplementsStore
