SPECIFICATION FairSpec
CONSTANTS
  d1 = d1
  d2 = d2
  MaxPolls = 1
  Args <- TransferArgs
  Codes <- TransferCodes
  Responses <- TransferResponses
  Lines = {"DAT_INHIBIT", "READ_AVAILABLE", "WRITE_AVAILABLE"}
  Events = {"DATA_DONE", "READ_RDY", "WRITE_RDY", "DATA_TIMEOUT", "ERROR"}
  NumBlocks = 2
  MaxNum = 2
  BlockLen = 2
  Data = {d1}
  Flags <- AnyCapacity
  Refusing = TRUE
  Reach = 3
  FaultBits = {"ERROR"}
  MaxFaults = 1
PROPERTIES
  TransferReturns
  UsesSdCmd
