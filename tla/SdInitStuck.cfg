SPECIFICATION FairSpec
CONSTANTS
  MaxPolls = 1
  Args = {0}
  Codes <- InitCodes
  Responses <- InitResponses
  Lines = {"DAT_INHIBIT", "READ_AVAILABLE"}
  Events = {"DATA_DONE", "READ_RDY", "DATA_TIMEOUT", "ERROR"}
  MaxTries = 2
  Cards <- OneCard
  MaxFaults = 1
PROPERTIES
  InitReturns
