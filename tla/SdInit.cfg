SPECIFICATION FairSpec
CONSTANTS
  MaxPolls = 2
  Args = {0}
  Codes <- InitCodes
  Responses <- InitResponses
  Lines = {"DAT_INHIBIT", "READ_AVAILABLE"}
  Events = {"DATA_DONE", "READ_RDY", "DATA_TIMEOUT", "ERROR"}
  MaxTries = 3
  Cards <- AllCards
  MaxFaults = 2
INVARIANTS
  InitEstablishes
PROPERTIES
  UsesSdCmd
  InitReturnsOrStarves
