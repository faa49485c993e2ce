---------------------------- MODULE SdCmdProofs ----------------------------
(* Theorems about SdCmd, for every client, every polling bound and every set  *)
(* of commands, responses and events.                                         *)
EXTENDS SdCmd, TLAPS

LEMMA CmdInitType == CmdInit => CmdTypeOK
<1> SUFFICES ASSUME CmdInit PROVE CmdTypeOK
  OBVIOUS
<1>1. HostTypeOK
  BY DEF CmdInit, HostInit, HostTypeOK, Commands
<1>2. wait \in WaitLabels /\ cmd \in CmdLabels /\ res \in Results /\ sd_err \in Errors
  BY DEF CmdInit, WaitLabels, CmdLabels, Results, Errors
<1>3. mask = {} /\ snap = {} /\ val = {} /\ arg \in Nat
  BY DEF CmdInit
<1>4. cnt \in -1 .. MaxPolls /\ cnt >= 0
  BY MaxPollsAssumption DEF CmdInit
<1>5. code \in Commands /\ outer \in AppCommands \cup {NoCommand}
  BY DEF CmdInit, Commands
<1>6. sd_rca \in BOOLEAN
  BY DEF CmdInit
<1> QED BY <1>1, <1>2, <1>3, <1>4, <1>5, <1>6 DEF CmdTypeOK

\* The client, the driver and the controller keep every variable in its type.
LEMMA CmdNextType == CmdTypeOK /\ [CmdNext]_driverVars => CmdTypeOK'
<1> SUFFICES ASSUME CmdTypeOK, [CmdNext]_driverVars PROVE CmdTypeOK'
  OBVIOUS
<1> USE MaxPollsAssumption, CodesAssumption, ArgsAssumption, ResponsesAssumption,
        LinesAssumption, EventsAssumption
    DEF CmdTypeOK, HostTypeOK, hostVars, waitVars, cmdVars
<1>1. CASE CmdClient
  <2>1. ASSUME NEW c \in Codes, NEW a \in Args, CallCmd(c, a) PROVE CmdTypeOK'
    <3>1. wait' = "status_poll" /\ mask' = {"CMD_INHIBIT"} /\ cnt' = MaxPolls
          /\ cmd' = "busy" /\ sd_err' = "OK" /\ arg' = a
          /\ UNCHANGED <<hostVars, snap, res, val, sd_rca>>
      BY <2>1 DEF CallCmd, CallStatus, Poll
    <3>2. code' \in Commands /\ outer' \in AppCommands \cup {NoCommand}
      BY <2>1 DEF CallCmd, Commands
    <3> QED BY <3>1, <3>2 DEF WaitLabels, CmdLabels, Errors, Results, StatusBits
  <2>2. CASE ClientPolls
    BY <2>2 DEF ClientPolls, CallStatus, CallInt, Poll, WaitLabels, StatusBits
  <2>3. CASE ClientAssigns
    BY <2>3 DEF ClientAssigns
  <2>4. CASE ClientMovesData
    BY <2>4 DEF ClientMovesData, FifoStatus, DataStatus, StatusBits
  <2>5. CASE ClientResets
    BY <2>5 DEF ClientResets
  <2> QED BY <1>1, <2>1, <2>2, <2>3, <2>4, <2>5 DEF CmdClient
<1>2. CASE WaitStep
  <2>1. CASE StatusPoll
    <3>1. wait' \in WaitLabels
          /\ cnt' \in -1 .. MaxPolls /\ (wait' = wait => cnt' >= 0)
      BY <2>1 DEF StatusPoll, PollStep, WaitLabels
    <3> QED BY <2>1, <3>1 DEF StatusPoll, PollStep
  <2>2. CASE StatusExit
    BY <2>2 DEF StatusExit, WaitLabels, Results
  <2>3. CASE IntPoll
    <3>1. wait' \in WaitLabels
          /\ cnt' \in -1 .. MaxPolls /\ (wait' = wait => cnt' >= 0)
      BY <2>3 DEF IntPoll, PollStep, WaitLabels
    <3> QED BY <2>3, <3>1 DEF IntPoll, PollStep
  <2>4. CASE IntRead
    BY <2>4 DEF IntRead, WaitLabels
  <2>5. CASE IntAck
    BY <2>5 DEF IntAck, Verdict, ClearInterrupt, WaitLabels, Results
  <2> QED BY <1>2, <2>1, <2>2, <2>3, <2>4, <2>5 DEF WaitStep
<1>3. CASE CmdStep
  <2>1. ASSUME NEW v \in SUBSET RespBits, NEW e \in Errors, Return(v, e)
        PROVE CmdTypeOK'
    <3>1. CASE ReturnToClient(v, e)
      BY <2>1, <3>1 DEF Return, ReturnToClient, CmdLabels
    <3>2. CASE AppRejected(v)
      BY <2>1, <3>2 DEF Return, AppRejected, CmdLabels, Errors, Results, NoCommand
    <3>3. CASE AppAccepted(v, e)
      <4>1. wait' = "status_poll" /\ mask' = {"CMD_INHIBIT"} /\ cnt' = MaxPolls
            /\ cmd' = "busy" /\ sd_err' = e
            /\ UNCHANGED <<hostVars, snap, res, arg, val, sd_rca>>
        BY <2>1, <3>3 DEF Return, AppAccepted, CallStatus, Poll
      <4>2. code' \in Commands /\ outer' = NoCommand
        BY <3>3 DEF AppAccepted, Commands
      <4> QED BY <4>1, <4>2 DEF WaitLabels, CmdLabels, StatusBits
    <3> QED BY <2>1, <3>1, <3>2, <3>3 DEF Return
  <2>2. CASE CmdBusy
    <3>1. CASE res = "OK"
      BY <2>2, <3>1 DEF CmdBusy, CmdLabels
    <3>2. CASE res # "OK"
      BY <2>1, <2>2, <3>2 DEF CmdBusy, Errors, Results
    <3> QED BY <3>1, <3>2
  <2>3. CASE CmdClear
    BY <2>3 DEF CmdClear, ClearInterrupt, CmdLabels
  <2>4. CASE CmdIssue
    BY <2>4 DEF CmdIssue, WriteCmdtm, CallInt, Poll, CmdLabels, WaitLabels,
                StatusBits, DataStatus, EventBits, RcaArg
  <2>5. CASE CmdWait
    <3>1. Value(code) \in SUBSET RespBits
      BY DEF Value, OpCondBits, OcrBits, RespBits, Commands, AppCommands, DataCommands,
             ReadCommands, WriteCommands
    <3>2. res \in Errors /\ ResponseError(code) \in Errors
      BY DEF ResponseError, Errors, Results
    <3> QED BY <2>1, <2>5, <3>1, <3>2 DEF CmdWait
  <2> QED BY <1>3, <2>2, <2>3, <2>4, <2>5 DEF CmdStep
<1>4. CASE HwStep
  <2>1. CASE HwCmdDone
    BY <2>1 DEF HwCmdDone, EndCommand, IntBits, EventBits
  <2>2. CASE HwCmdFailed
    BY <2>2 DEF HwCmdFailed, EndCommand, IntBits, ErrorBits, TimeoutBits
  <2>3. CASE HwData
    BY <2>3 DEF HwData, DataEvents, StatusBits, DataStatus
  <2> QED BY <1>4, <2>1, <2>2, <2>3 DEF HwStep
<1>5. CASE UNCHANGED driverVars
  BY <1>5 DEF driverVars
<1> QED BY <1>1, <1>2, <1>3, <1>4, <1>5 DEF CmdNext, DriverStep

\* The type invariant of the driver and the registers.
THEOREM CmdTypeCorrect == CmdSpec => []CmdTypeOK
  BY CmdInitType, CmdNextType, PTL DEF CmdSpec
-----------------------------------------------------------------------------
LEMMA OwnAnswerInit == CmdInit => OwnAnswer
  BY DEF CmdInit, OwnAnswer

LEMMA OwnAnswerNext == CmdTypeOK /\ OwnAnswer /\ [CmdNext]_driverVars => OwnAnswer'
<1> SUFFICES ASSUME CmdTypeOK, OwnAnswer, [CmdNext]_driverVars PROVE OwnAnswer'
  OBVIOUS
<1> USE DEF OwnAnswer, Executing, hostVars, waitVars, cmdVars
<1>1. CASE CmdClient
  <2>1. ASSUME NEW c \in Codes, NEW a \in Args, CallCmd(c, a) PROVE OwnAnswer'
    BY <2>1 DEF CallCmd, CallStatus, Poll
  <2>2. CASE ClientPolls
    BY <1>1, <2>2 DEF CmdClient, Idle, ClientPolls, CallStatus, CallInt, Poll
  <2>3. CASE ClientAssigns
    BY <2>3 DEF ClientAssigns
  <2>4. CASE ClientMovesData
    BY <1>1, <2>4 DEF CmdClient, Idle, ClientMovesData
  <2>5. CASE ClientResets
    BY <1>1, <2>5 DEF CmdClient, Idle, ClientResets
  <2> QED BY <1>1, <2>1, <2>2, <2>3, <2>4, <2>5 DEF CmdClient
<1>2. CASE WaitStep
  <2>1. CASE StatusPoll
    BY <2>1 DEF StatusPoll, PollStep, CmdTypeOK
  <2>2. CASE StatusExit
    BY <2>2 DEF StatusExit, CmdTypeOK
  <2>3. CASE IntPoll
    BY <2>3 DEF IntPoll, PollStep, CmdTypeOK
  <2>4. CASE IntRead
    BY <2>4 DEF IntRead
  <2>5. CASE IntAck
    BY <2>5 DEF IntAck, Verdict, ClearInterrupt, CmdTypeOK, ErrorBits, TimeoutBits
  <2> QED BY <1>2, <2>1, <2>2, <2>3, <2>4, <2>5 DEF WaitStep
<1>3. CASE CmdStep
  <2>1. ASSUME NEW v, NEW e, Return(v, e) PROVE OwnAnswer'
    <3>1. CASE ReturnToClient(v, e)
      BY <2>1, <3>1 DEF Return, ReturnToClient
    <3>2. CASE AppRejected(v)
      BY <2>1, <3>2 DEF Return, AppRejected
    <3>3. CASE AppAccepted(v, e)
      BY <2>1, <3>3 DEF Return, AppAccepted, CallStatus, Poll
    <3> QED BY <2>1, <3>1, <3>2, <3>3 DEF Return
  <2>2. CASE CmdBusy
    BY <2>1, <2>2 DEF CmdBusy
  <2>3. CASE CmdClear
    BY <2>3 DEF CmdClear, ClearInterrupt
  <2>4. CASE CmdIssue
    BY <2>4 DEF CmdIssue, WriteCmdtm, CallInt, Poll
  <2>5. CASE CmdWait
    BY <2>1, <2>5 DEF CmdWait
  <2> QED BY <1>3, <2>2, <2>3, <2>4, <2>5 DEF CmdStep
<1>4. CASE HwStep
  <2>1. CASE HwCmdDone
    BY <2>1 DEF HwCmdDone, EndCommand
  <2>2. CASE HwCmdFailed
    BY <2>2 DEF HwCmdFailed, EndCommand
  <2>3. CASE HwData
    <3>1. UNCHANGED <<cmdtm, waitVars, cmdVars>>
      BY <2>3 DEF HwData
    <3>2. interrupt \subseteq interrupt'
      BY <2>3 DEF HwData
    <3>3. "CMD_DONE" \in interrupt' => "CMD_DONE" \in interrupt
      BY <2>3, EventsAssumption DEF HwData, DataEvents
    <3>4. "CMD_INHIBIT" \in status' => "CMD_INHIBIT" \in status
      BY <2>3, LinesAssumption DEF HwData, DataStatus, FifoStatus
    <3> QED BY <3>1, <3>2, <3>3, <3>4
  <2> QED BY <1>4, <2>1, <2>2, <2>3 DEF HwStep
<1>5. CASE UNCHANGED driverVars
  BY <1>5 DEF driverVars
<1> QED BY <1>1, <1>2, <1>3, <1>4, <1>5 DEF CmdNext, DriverStep

\* The response sd_cmd reads is the one to the command it sent, whatever
\* commands were given up before and whenever the controller answers them.
THEOREM ResponseIsOwnAlways == CmdSpec => []ResponseIsOwn
<1>1. OwnAnswer => ResponseIsOwn
  BY DEF OwnAnswer, ResponseIsOwn
<1> QED BY <1>1, OwnAnswerInit, OwnAnswerNext, CmdTypeCorrect, PTL DEF CmdSpec
-----------------------------------------------------------------------------
LEMMA PrefixedInit == CmdInit => Prefixed
  BY DEF CmdInit, Prefixed

LEMMA PrefixedNext ==
  CmdTypeOK /\ OwnAnswer /\ Prefixed /\ [CmdNext]_driverVars => Prefixed'
<1> SUFFICES ASSUME CmdTypeOK, OwnAnswer, Prefixed, [CmdNext]_driverVars PROVE Prefixed'
  OBVIOUS
<1> USE DEF Prefixed, Executing, hostVars, waitVars, cmdVars
<1>1. CASE CmdClient
  <2>1. ASSUME NEW c \in Codes, NEW a \in Args, CallCmd(c, a) PROVE Prefixed'
    BY <2>1 DEF CallCmd, AppCommands
  <2>2. CASE ClientPolls \/ ClientAssigns \/ ClientMovesData \/ ClientResets
    BY <1>1, <2>2 DEF CmdClient, Idle, ClientPolls, ClientAssigns, ClientMovesData,
                      ClientResets
  <2> QED BY <1>1, <2>1, <2>2 DEF CmdClient
<1>2. CASE WaitStep
  BY <1>2 DEF WaitStep, StatusPoll, StatusExit, IntPoll, IntRead, IntAck, PollStep
<1>3. CASE CmdStep
  \* The prefix has been sent and accepted: the only way on to the command.
  <2>1. ASSUME NEW v, NEW e, Return(v, e),
               sd_rca /\ outer # NoCommand /\ v # {}
                 => cmdtm = "APP_CMD" /\ "APP_CMD" \in resp /\ ~Executing
        PROVE Prefixed'
    <3>1. CASE ReturnToClient(v, e)
      BY <2>1, <3>1 DEF Return, ReturnToClient
    <3>2. CASE AppRejected(v)
      BY <2>1, <3>2 DEF Return, AppRejected
    <3>3. CASE AppAccepted(v, e)
      BY <2>1, <3>3 DEF Return, AppAccepted
    <3> QED BY <2>1, <3>1, <3>2, <3>3 DEF Return
  <2>2. CASE CmdBusy
    BY <2>1, <2>2 DEF CmdBusy
  <2>3. CASE CmdClear
    BY <2>3 DEF CmdClear
  <2>4. CASE CmdIssue
    BY <2>4 DEF CmdIssue
  <2>5. CASE CmdWait
    <3>1. CASE res # "OK"
      BY <2>1, <2>5, <3>1 DEF CmdWait
    <3>2. CASE res = "OK"
      <4>1. cmdtm = code /\ ~Executing
        BY <2>5, <3>2 DEF CmdWait, OwnAnswer
      <4>2. outer # NoCommand /\ sd_rca /\ Value(code) # {} => "APP_CMD" \in resp
        BY DEF Value
      <4> QED BY <2>1, <2>5, <3>2, <4>1, <4>2 DEF CmdWait
    <3> QED BY <3>1, <3>2
  <2> QED BY <1>3, <2>2, <2>3, <2>4, <2>5 DEF CmdStep
<1>4. CASE HwStep
  <2>1. CASE HwCmdDone \/ HwCmdFailed
    BY <2>1 DEF HwCmdDone, HwCmdFailed, EndCommand
  <2>2. CASE HwData
    <3>1. "CMD_INHIBIT" \in status' => "CMD_INHIBIT" \in status
      BY <2>2, LinesAssumption DEF HwData, DataStatus, FifoStatus
    <3> QED BY <2>2, <3>1 DEF HwData
  <2> QED BY <1>4, <2>1, <2>2 DEF HwStep
<1>5. CASE UNCHANGED driverVars
  BY <1>5 DEF driverVars
<1> QED BY <1>1, <1>2, <1>3, <1>4, <1>5 DEF CmdNext, DriverStep

\* Once the card has an address, an application command is only ever sent to a
\* card whose last answer accepted CMD_APP_CMD.
THEOREM AppCommandIsPrefixedAlways == CmdSpec => []AppCommandIsPrefixed
<1>1. Prefixed => AppCommandIsPrefixed
  BY DEF Prefixed, AppCommandIsPrefixed
<1> QED BY <1>1, PrefixedInit, PrefixedNext, OwnAnswerInit, OwnAnswerNext, CmdTypeCorrect,
           PTL DEF CmdSpec
=============================================================================
