SPECIFICATION CmdFairSpec
CONSTANTS
  MaxPolls = 1
  Args = {0}
  Lines = {"DAT_INHIBIT"}
  Events = {"DATA_DONE", "ERROR"}
  Codes <- MCCodes
  Responses <- MCResponses
INVARIANTS
  ResponseIsOwn
  AppCommandIsPrefixed
PROPERTIES
  CallReturns
