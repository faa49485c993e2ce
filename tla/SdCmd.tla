------------------------------- MODULE SdCmd -------------------------------
(***************************************************************************)
(* sd_status, sd_int and sd_cmd of the SD card driver (emmc/sd.c) against  *)
(* the EMMC controller.  The driver runs alone on the boot core and polls; *)
(* the controller changes the registers between any two of its accesses.   *)
(*                                                                         *)
(* The call stack is three program counters: the client's own (pc in the   *)
(* modules that extend this one), cmd for sd_cmd and wait for the polling   *)
(* loop it is in.  A caller moves only when its callee is at "none".       *)
(* sd_cmd calls itself once, for CMD_APP_CMD: outer is the suspended call. *)
(***************************************************************************)
EXTENDS EmmcHost, Integers

CONSTANTS
  MaxPolls,   \* polls before a loop gives up (1000000 in the code)
  Codes,      \* the commands the client sends
  Args,       \* and their arguments
  Responses,  \* the responses the card gives
  Lines,      \* the data bits of STATUS in use
  Events      \* the events and errors a data phase raises

ASSUME MaxPollsAssumption == MaxPolls \in Nat \ {0}
ASSUME CodesAssumption == Codes \subseteq Commands
ASSUME ArgsAssumption == Args \subseteq Nat
ASSUME ResponsesAssumption == Responses \subseteq SUBSET RespBits
ASSUME LinesAssumption == Lines \subseteq DataStatus
ASSUME EventsAssumption == Events \subseteq DataEvents

VARIABLES
  wait,    \* where sd_status / sd_int is
  mask,    \* its argument
  cnt,     \* its countdown
  snap,    \* sd_int's local r
  res,     \* what the last of the two returned
  cmd,     \* where sd_cmd is
  code,    \* the command it is sending
  arg,     \* and the argument
  outer,   \* the application command suspended behind CMD_APP_CMD
  val,     \* what sd_cmd returned: the bits set in r
  sd_err,  \* the driver's error variable
  sd_rca   \* is a relative card address assigned?

waitVars == <<wait, mask, cnt, snap, res>>
cmdVars  == <<cmd, code, arg, outer, val, sd_err, sd_rca>>
driverVars == <<hostVars, waitVars, cmdVars>>

WaitLabels == {"none", "status_poll", "status_exit", "int_poll", "int_read", "int_ack"}
CmdLabels  == {"none", "busy", "clear", "issue", "wait"}
Results    == {"OK", "TIMEOUT", "ERROR"}
Errors     == Results \cup {"CARD"}
NoCommand  == "no command"
RcaArg     == 0    \* the argument of CMD_APP_CMD, sd_rca

CmdTypeOK ==
  /\ HostTypeOK
  /\ wait \in WaitLabels
  /\ mask \subseteq StatusBits \cup EventBits
  /\ cnt \in -1 .. MaxPolls
  /\ wait \in {"status_poll", "int_poll"} => cnt >= 0
  /\ snap \subseteq IntBits
  /\ res \in Results
  /\ cmd \in CmdLabels
  /\ code \in Commands
  /\ arg \in Nat
  /\ outer \in AppCommands \cup {NoCommand}
  /\ val \subseteq RespBits
  /\ sd_err \in Errors
  /\ sd_rca \in BOOLEAN

CmdInit ==
  /\ HostInit
  /\ wait = "none" /\ mask = {} /\ cnt = 0 /\ snap = {} /\ res = "OK"
  /\ cmd = "none" /\ code = "GO_IDLE" /\ arg = 0 /\ outer = NoCommand
  /\ val = {} /\ sd_err = "OK"
  /\ sd_rca \in BOOLEAN

-----------------------------------------------------------------------------
(* sd_status and sd_int. *)

Poll(label, m) ==
  /\ wait' = label
  /\ mask' = m
  /\ cnt' = MaxPolls
  /\ UNCHANGED <<snap, res>>

CallStatus(m) == Poll("status_poll", m)
CallInt(m)    == Poll("int_poll", m)

\* Mutant: a loop without a countdown.
PollStepNoCountdown(label, again, exit) ==
  /\ wait = label
  /\ wait' = IF again THEN label ELSE exit
  /\ UNCHANGED <<cnt, mask, snap, res, hostVars, cmdVars>>

\* while (again && cnt--): the countdown is decremented only if again holds,
\* and the loop is left when it was 0 before that.
PollStep(label, again, exit) ==
  /\ wait = label
  /\ cnt' = IF again THEN cnt - 1 ELSE cnt
  /\ wait' = IF again /\ cnt > 0 THEN label ELSE exit
  /\ UNCHANGED <<mask, snap, res, hostVars, cmdVars>>

StatusPoll ==
  PollStep("status_poll",
           status \cap mask # {} /\ interrupt \cap ErrorBits = {},
           "status_exit")

StatusExit ==
  /\ wait = "status_exit"
  /\ res' = IF cnt <= 0 \/ interrupt \cap ErrorBits # {} THEN "ERROR" ELSE "OK"
  /\ wait' = "none"
  /\ UNCHANGED <<mask, cnt, snap, hostVars, cmdVars>>

IntPoll ==
  PollStep("int_poll", interrupt \cap (mask \cup ErrorBits) = {}, "int_read")

IntRead ==
  /\ wait = "int_read"
  /\ snap' = interrupt
  /\ wait' = "int_ack"
  /\ UNCHANGED <<mask, cnt, res, hostVars, cmdVars>>

\* What sd_int makes of the bits it read.
Verdict == IF cnt <= 0 \/ snap \cap TimeoutBits # {} THEN "TIMEOUT"
           ELSE IF snap \cap ErrorBits # {} THEN "ERROR"
           ELSE "OK"

\* On an error all the bits read are written back, otherwise only those
\* waited for: an event that came along with them stays latched.
IntAck ==
  /\ wait = "int_ack"
  /\ res' = Verdict
  /\ ClearInterrupt(IF Verdict = "OK" THEN mask ELSE snap)
  /\ wait' = "none"
  /\ UNCHANGED <<mask, cnt, snap, status, cmdtm, arg1, resp, cmdVars>>

WaitStep == StatusPoll \/ StatusExit \/ IntPoll \/ IntRead \/ IntAck

-----------------------------------------------------------------------------
(* sd_cmd. *)

\* sd_cmd(c, a).  An application command first sends CMD_APP_CMD.
CallCmd(c, a) ==
  /\ sd_err' = "OK"
  /\ IF c \in AppCommands
     THEN code' = "APP_CMD" /\ outer' = c
     ELSE code' = c /\ outer' = NoCommand
  /\ arg' = a
  /\ cmd' = "busy"
  /\ CallStatus({"CMD_INHIBIT"})
  /\ UNCHANGED <<val, sd_rca, hostVars>>

\* sd_cmd returns v with sd_err = e to its caller.
ReturnToClient(v, e) ==
  /\ outer = NoCommand
  /\ val' = v
  /\ sd_err' = e
  /\ cmd' = "none"
  /\ UNCHANGED <<code, arg, outer, waitVars>>

\* The nested call returns.  Its result is looked at only once the card has
\* an address; before that the application command follows in any case.
AppRejected(v) ==
  /\ outer # NoCommand
  /\ sd_rca /\ v = {}
  /\ val' = {}
  /\ sd_err' = "ERROR"
  /\ cmd' = "none"
  /\ outer' = NoCommand
  /\ UNCHANGED <<code, arg, waitVars>>

\* Mutant: the result of the nested call is never looked at.
AppAcceptedUnchecked(v, e) ==
  /\ outer # NoCommand
  /\ sd_err' = e
  /\ code' = outer
  /\ outer' = NoCommand
  /\ cmd' = "busy"
  /\ CallStatus({"CMD_INHIBIT"})
  /\ UNCHANGED <<arg, val>>

AppAccepted(v, e) ==
  /\ outer # NoCommand
  /\ ~(sd_rca /\ v = {})
  /\ sd_err' = e
  /\ code' = outer
  /\ outer' = NoCommand
  /\ cmd' = "busy"
  /\ CallStatus({"CMD_INHIBIT"})
  /\ UNCHANGED <<arg, val>>

Return(v, e) ==
  /\ ReturnToClient(v, e) \/ AppRejected(v) \/ AppAccepted(v, e)
  /\ UNCHANGED <<sd_rca, hostVars>>

\* The test for CMD_SEND_OP_COND never succeeds, because CMD_NEED_APP, a bit of
\* that constant, has been removed from code: the OCR is returned through the
\* last line, which masks it with CMD_ERRORS_MASK.
OpCondBits == OcrBits \ {"VOLTAGE_MID"}

\* The value and the error sd_cmd derives from the response to each command.
Value(c) ==
  CASE c = "GO_IDLE" -> {}
    [] c = "APP_CMD" -> IF sd_rca THEN resp \cap {"APP_CMD"} ELSE {}
    [] c = "ALL_SEND_CID" -> resp
    [] c = "SEND_OP_COND" -> resp \cap OpCondBits
    [] c = "SEND_IF_COND" -> IF "ECHO" \in resp THEN {} ELSE {"ERRORS"}
    [] c = "SEND_REL_ADDR" -> resp \cap {"RCA"}
    [] OTHER -> resp \cap {"ERRORS"}

ResponseError(c) ==
  IF c = "SEND_REL_ADDR" THEN (IF "ERRORS" \in resp THEN "CARD" ELSE "OK") ELSE sd_err

CmdBusy ==
  /\ cmd = "busy" /\ wait = "none"
  /\ IF res # "OK"
     THEN Return({}, "TIMEOUT")
     ELSE /\ cmd' = "clear"
          /\ UNCHANGED <<code, arg, outer, val, sd_err, sd_rca, waitVars, hostVars>>

\* Mutant: events latched by earlier commands are kept.
CmdClearSkipped ==
  /\ cmd = "clear"
  /\ cmd' = "issue"
  /\ UNCHANGED <<hostVars, code, arg, outer, val, sd_err, sd_rca, waitVars>>

\* *EMMC_INTERRUPT = *EMMC_INTERRUPT
CmdClear ==
  /\ cmd = "clear"
  /\ ClearInterrupt(interrupt)
  /\ cmd' = "issue"
  /\ UNCHANGED <<status, cmdtm, arg1, resp, code, arg, outer, val, sd_err, sd_rca, waitVars>>

CmdIssue ==
  /\ cmd = "issue"
  /\ WriteCmdtm(code, IF code = "APP_CMD" THEN RcaArg ELSE arg)
  /\ cmd' = "wait"
  /\ CallInt({"CMD_DONE"})
  /\ UNCHANGED <<code, arg, outer, val, sd_err, sd_rca>>

CmdWait ==
  /\ cmd = "wait" /\ wait = "none"
  /\ IF res # "OK"
     THEN Return({}, res)
     ELSE Return(Value(code), ResponseError(code))

CmdStep == CmdBusy \/ CmdClear \/ CmdIssue \/ CmdWait

DriverStep == WaitStep \/ CmdStep

-----------------------------------------------------------------------------
(* The controller, constrained no further than sd_cmd relies on: it reports   *)
(* the outcome of the command it executes and of no other.                    *)

EndCommand(bits, response) ==
  /\ Executing
  /\ interrupt' = interrupt \cup bits
  /\ resp' = response
  /\ UNCHANGED <<cmdtm, arg1, waitVars, cmdVars>>

HwCmdDone ==
  \E response \in Responses :
    /\ EndCommand({"CMD_DONE"}, response)
    /\ status' = status \ {"CMD_INHIBIT"}

HwCmdFailed ==
  \E e \in {"CMD_TIMEOUT", "ERROR"}, aborted \in SUBSET {"DAT_INHIBIT"} :
    /\ EndCommand({e}, resp)
    /\ status' = status \ ({"CMD_INHIBIT"} \cup aborted)

\* A data phase goes on, or ends well or badly, at any time.
HwData ==
  /\ "DAT_INHIBIT" \in status
  /\ \E s \in SUBSET Lines : status' = (status \ DataStatus) \cup s
  /\ \E event \in Events \cup {"none"} :
       interrupt' = IF event = "none" THEN interrupt ELSE interrupt \cup {event}
  /\ UNCHANGED <<cmdtm, arg1, resp, waitVars, cmdVars>>

HwStep == HwCmdDone \/ HwCmdFailed \/ HwData

-----------------------------------------------------------------------------
(* Any client: it calls the three functions one at a time, assigns the two    *)
(* globals between the calls, and moves data through the FIFO, which changes  *)
(* nothing but the availability bits.                                         *)

Idle == cmd = "none" /\ wait = "none"

ClientPolls ==
  /\ \/ \E m \in SUBSET Lines : CallStatus(m)
     \/ \E event \in Events \cap EventBits : CallInt({event})
  /\ UNCHANGED <<hostVars, cmdVars>>

ClientAssigns ==
  /\ sd_err' \in Errors
  /\ sd_rca' \in BOOLEAN
  /\ UNCHANGED <<cmd, code, arg, outer, val, waitVars, hostVars>>

ClientMovesData ==
  /\ \E s \in SUBSET (Lines \cap FifoStatus) : status' = (status \ FifoStatus) \cup s
  /\ UNCHANGED <<interrupt, cmdtm, arg1, resp, waitVars, cmdVars>>

\* The reset of the controller clears its status and all latched events.
ClientResets ==
  /\ status' = {} /\ interrupt' = {}
  /\ UNCHANGED <<cmdtm, arg1, resp, waitVars, cmdVars>>

CmdClient ==
  /\ Idle
  /\ \/ \E c \in Codes, a \in Args : CallCmd(c, a)
     \/ ClientPolls
     \/ ClientAssigns
     \/ ClientMovesData
     \/ ClientResets

CmdNext == CmdClient \/ DriverStep \/ HwStep

CmdSpec == CmdInit /\ [][CmdNext]_driverVars

\* The driver's core runs; nothing is assumed of the controller or the card.
CmdFairSpec == CmdSpec /\ WF_driverVars(DriverStep)

-----------------------------------------------------------------------------
(* Properties. *)

\* When sd_cmd goes on to read RESP0, the command it wrote to CMDTM is the one
\* that has completed: a CMD_DONE that an earlier command, given up by the
\* driver after a timeout, raised late is never taken for the answer.
ResponseIsOwn ==
  cmd = "wait" /\ wait = "none" /\ res = "OK" => cmdtm = code /\ ~Executing

\* The strengthening of ResponseIsOwn, along the life of a call: what each
\* polling loop has established when it is left by its condition, that the
\* line is free from there to the write of CMDTM, that no completion is latched
\* at that write, and that one latched later is the command's own.
OwnAnswer ==
  /\ cmd = "busy" => wait \in {"status_poll", "status_exit", "none"} /\ mask = {"CMD_INHIBIT"}
  /\ cmd \in {"clear", "issue"} => wait = "none" /\ ~Executing
  /\ cmd = "wait" => wait \in {"int_poll", "int_read", "int_ack", "none"}
                     /\ mask = {"CMD_DONE"} /\ cmdtm = code
  /\ cmd = "busy" /\ wait = "status_exit" /\ cnt > 0
       => ~Executing \/ interrupt \cap ErrorBits # {}
  /\ cmd = "busy" /\ wait = "none" /\ res = "OK" => ~Executing
  /\ cmd = "issue" => "CMD_DONE" \notin interrupt
  /\ cmd = "wait" /\ "CMD_DONE" \in interrupt => ~Executing
  /\ cmd = "wait" /\ wait = "int_read" /\ cnt > 0
       => interrupt \cap (mask \cup ErrorBits) # {}
  /\ cmd = "wait" /\ wait = "int_ack" /\ cnt > 0
       => snap \cap (mask \cup ErrorBits) # {}
  /\ cmd = "wait" /\ wait = "int_ack" /\ "CMD_DONE" \in snap => ~Executing
  /\ cmd = "wait" /\ wait = "none" /\ res = "OK" => ~Executing

\* Once the card has an address, an application command is written to CMDTM
\* only if the command just before it was CMD_APP_CMD and the card took it;
\* otherwise the card would run the plain command with the same index.
AppCommandIsPrefixed ==
  cmd = "issue" /\ code \in AppCommands /\ sd_rca
    => cmdtm = "APP_CMD" /\ "APP_CMD" \in resp /\ ~Executing

\* Its strengthening: the prefix stays the last command, and its acceptance the
\* last response, until the application command is written.
Prefixed ==
  /\ outer # NoCommand => code = "APP_CMD"
  /\ cmd \in {"busy", "clear", "issue"} /\ code \in AppCommands /\ sd_rca
       => cmdtm = "APP_CMD" /\ "APP_CMD" \in resp /\ ~Executing

\* Every call of sd_cmd returns, even when the controller never answers: both
\* polling loops count down, and no path goes from one back to itself.
CallReturns == cmd # "none" ~> cmd = "none"
=============================================================================
