------------------------------ MODULE EmmcHost ------------------------------
(***************************************************************************)
(* The registers of the EMMC controller that sd.c polls and writes, and    *)
(* the names of the commands it sends.  A register is the set of the bits  *)
(* that are set in it; a command, its code without the argument.           *)
(*                                                                         *)
(* Every error condition of the controller also sets the summary bit       *)
(* 0x8000 of INTERRUPT, which INT_ERROR_MASK contains (the CMD_TIMEOUT bit  *)
(* itself is not in that mask), so "an error bit is set" stands for the    *)
(* test against INT_ERROR_MASK.  All other bits of the mask behave alike   *)
(* and are the one member "ERROR".                                         *)
(***************************************************************************)
EXTENDS Naturals

VARIABLES
  status,     \* EMMC_STATUS: bits the controller reports
  interrupt,  \* EMMC_INTERRUPT: latched events, cleared by writing them back
  cmdtm,      \* EMMC_CMDTM: the last command written
  arg1,       \* EMMC_ARG1: its argument
  resp        \* EMMC_RESP0: bits of the last response

hostVars == <<status, interrupt, cmdtm, arg1, resp>>

FifoStatus == {"READ_AVAILABLE", "WRITE_AVAILABLE"}
DataStatus == FifoStatus \cup {"DAT_INHIBIT"}
StatusBits == DataStatus \cup {"CMD_INHIBIT"}

EventBits   == {"CMD_DONE", "DATA_DONE", "READ_RDY", "WRITE_RDY"}
TimeoutBits == {"CMD_TIMEOUT", "DATA_TIMEOUT"}
ErrorBits   == TimeoutBits \cup {"ERROR"}
IntBits     == EventBits \cup ErrorBits
DataEvents  == IntBits \ {"CMD_DONE", "CMD_TIMEOUT"}

\* Commands sent with a CMD_APP_CMD prefix (CMD_NEED_APP is set in their code).
AppCommands  == {"SET_BUS_WIDTH", "SEND_OP_COND", "SEND_SCR"}
ReadCommands == {"READ_SINGLE", "READ_MULTI", "SEND_SCR"}
WriteCommands == {"WRITE_SINGLE", "WRITE_MULTI"}
DataCommands == ReadCommands \cup WriteCommands
Commands == {"GO_IDLE", "ALL_SEND_CID", "SEND_REL_ADDR", "CARD_SELECT",
             "SEND_IF_COND", "STOP_TRANS", "SET_BLOCKCNT", "APP_CMD"}
            \cup AppCommands \cup DataCommands

\* The bits of a response that sd_cmd tells apart: the card took CMD_APP_CMD,
\* it echoed the argument of SEND_IF_COND, it flags an error, it has an
\* address, and the fields of the OCR that sd_init tests.  The voltage window
\* is two fields: the part inside CMD_ERRORS_MASK and bits 17 and 18 outside.
OcrBits  == {"COMPLETE", "CCS", "VOLTAGE", "VOLTAGE_MID"}
RespBits == {"APP_CMD", "ECHO", "ERRORS", "RCA"} \cup OcrBits

HostTypeOK ==
  /\ status \subseteq StatusBits
  /\ interrupt \subseteq IntBits
  /\ cmdtm \in Commands
  /\ arg1 \in Nat
  /\ resp \subseteq RespBits

HostInit ==
  /\ status = {}
  /\ interrupt = {}
  /\ cmdtm = "GO_IDLE"
  /\ arg1 = 0
  /\ resp = {}

\* The controller executes a command from the write of CMDTM until it reports
\* its outcome, and then executes no other before the next write.
Executing == "CMD_INHIBIT" \in status

\* Writing CMDTM starts a command; one with a data phase also takes the data
\* line.
WriteCmdtm(c, a) ==
  /\ arg1' = a
  /\ cmdtm' = c
  /\ status' = status \cup {"CMD_INHIBIT"}
                     \cup (IF c \in DataCommands THEN {"DAT_INHIBIT"} ELSE {})
  /\ UNCHANGED <<interrupt, resp>>

\* Writing a set of bits back to INTERRUPT clears them.
ClearInterrupt(bits) == interrupt' = interrupt \ bits
=============================================================================
