---------------------------- MODULE SdInitProofs ----------------------------
(* Theorems about SdInit, for cards of every kind, every number of attempts, of *)
(* polls and of faults.                                                         *)
EXTENDS SdInit, SdCmdProofs

(* The types, and what they rest on: sd_cmd runs only at the labels that wait for it,     *)
(* and is sending the command of the label; the data line belongs to SEND_SCR alone, which *)
(* is sent once the reset has ended every earlier data phase.                              *)

Sends(label, k) ==
  \/ label = "go_idle" /\ k = "GO_IDLE"
  \/ label = "if_cond" /\ k = "SEND_IF_COND"
  \/ label = "op_cond" /\ k = "SEND_OP_COND"
  \/ label = "cid" /\ k = "ALL_SEND_CID"
  \/ label = "rel_addr" /\ k = "SEND_REL_ADDR"
  \/ label = "select" /\ k = "CARD_SELECT"
  \/ label = "scr_cmd" /\ k = "SEND_SCR"
  \/ label = "width" /\ k = "SET_BUS_WIDTH"

CommandLabels == {"go_idle", "if_cond", "op_cond", "cid", "rel_addr", "select", "scr_cmd", "width"}

Calling ==
  /\ cmd # "none" => \/ outer = NoCommand /\ Sends(pc, code)
                     \/ outer # NoCommand /\ code = "APP_CMD" /\ Sends(pc, outer)
  /\ cmd = "none" => outer = NoCommand
  /\ clk # "none" => pc \in {"clk_slow", "clk_fast"}
  /\ cmd = "none" /\ pc \notin {"line", "scr_ready"} => wait = "none"
  /\ cmd = "none" /\ pc \in CommandLabels /\ sd_err = "OK" => ~Executing

ScrUnderWay == Executing /\ cmdtm = "SEND_SCR"

BeforeScr ==
  \/ pc \in {"clk_slow", "first", "go_idle", "if_cond", "op_cond", "cid", "rel_addr", "clk_fast",
             "select", "line"}
  \/ pc = "scr_cmd" /\ (cmd \in {"busy", "clear", "issue"} \/ (cmd = "wait" /\ code = "APP_CMD"))

ScrPhase ==
  /\ phase # "none" => "DAT_INHIBIT" \in status /\ ~ScrUnderWay
  /\ ScrUnderWay => "DAT_INHIBIT" \in status
  /\ "READ_AVAILABLE" \in status => fifo > 0
  /\ "WRITE_AVAILABLE" \notin status
  /\ BeforeScr => phase = "none" /\ ~ScrUnderWay
  /\ pc = "reset" /\ ~ResetPending => phase = "none" /\ ~Executing
  /\ pc \in {"scr_ready", "scr_read", "width"} => ~ScrUnderWay

BaseInv == TypeOK /\ OwnAnswer /\ Calling /\ ScrPhase

LEMMA BaseInitInv == Init => BaseInv
<1> SUFFICES ASSUME Init PROVE BaseInv
  OBVIOUS
<1>1. CmdTypeOK /\ OwnAnswer
  BY CmdInitType, OwnAnswerInit DEF Init
<1>2. pc = "idle" /\ clk = "none" /\ cmd = "none" /\ wait = "none" /\ outer = NoCommand /\ status = {} /\ phase = "none"
  BY DEF Init, CmdInit, HostInit
<1>3. TypeOK
  <2>1. 0 \in 0 .. MaxTries /\ 0 \in 0 .. MaxPolls /\ 0 \in 0 .. MaxFaults
    BY BoundsAssumption, MaxPollsAssumption
  <2>2. clock = "off" /\ phase = "none" /\ mode = "idle" /\ clk = "none" /\ ret = "none" /\ pc = "idle"
    BY DEF Init
  <2>3. r = {} /\ sd_scr = {} /\ control1 = {} /\ ~ccs /\ ~app /\ card \in Cards
        /\ ccs \in BOOLEAN /\ app \in BOOLEAN
    BY DEF Init
  <2>4. try = 0 /\ words = 0 /\ tick = 0 /\ width = 1 /\ fifo = 0 /\ cardWidth = 1 /\ faults = 0
    BY DEF Init
  <2> QED BY <1>1, <2>1, <2>2, <2>3, <2>4 DEF TypeOK
<1> QED BY <1>1, <1>2, <1>3 DEF BaseInv, Calling, ScrPhase, CommandLabels, BeforeScr, ScrUnderWay, Executing

-----------------------------------------------------------------------------
(* Every step is one that SdCmd allows its client or its controller. *)

LEMMA CallsOk ==
  ASSUME NEW k \in {"GO_IDLE", "SEND_IF_COND", "SEND_OP_COND", "ALL_SEND_CID", "SEND_REL_ADDR",
                    "CARD_SELECT", "SEND_SCR", "SET_BUS_WIDTH"},
         Idle, CallCmd(k, 0)
  PROVE  CmdClient
BY InterfaceAssumption DEF CmdClient

LEMMA AssignsOk ==
  ASSUME CmdTypeOK, Idle, sd_err' \in Errors, sd_rca' \in BOOLEAN,
         UNCHANGED <<cmd, code, arg, outer, val, waitVars, hostVars>>
  PROVE  CmdClient
BY DEF CmdClient, ClientAssigns

LEMMA MovesOk ==
  ASSUME CmdTypeOK, "WRITE_AVAILABLE" \notin status, Idle,
         UNCHANGED <<interrupt, cmdtm, arg1, resp, waitVars, cmdVars>>,
         status' = status \/ ("READ_AVAILABLE" \in status /\ status' = status \ {"READ_AVAILABLE"})
  PROVE  CmdClient
<1>1. status \cap FifoStatus \in SUBSET (Lines \cap FifoStatus) /\ {} \in SUBSET (Lines \cap FifoStatus)
  BY InterfaceAssumption DEF FifoStatus
<1>2. status = (status \ FifoStatus) \cup (status \cap FifoStatus)
  OBVIOUS
<1>3. status \ {"READ_AVAILABLE"} = (status \ FifoStatus) \cup {}
  BY DEF FifoStatus
<1>4. ClientMovesData
  BY <1>1, <1>2, <1>3 DEF ClientMovesData
<1> QED BY <1>4 DEF CmdClient

LEMMA InitStepIsClient == BaseInv /\ (CallInit \/ InitStep) => CmdClient \/ UNCHANGED driverVars
<1> SUFFICES ASSUME BaseInv, CallInit \/ InitStep PROVE CmdClient \/ UNCHANGED driverVars
  OBVIOUS
<1> USE DEF BaseInv, At, driverVars, hostVars, waitVars, cmdVars, Send, Go
<1>0. CmdTypeOK /\ sd_err \in Errors /\ sd_rca \in BOOLEAN
  BY DEF TypeOK, CmdTypeOK
<1>1. CASE CallInit \/ PollReset \/ ClkInhibit \/ ClkStable
  BY <1>1 DEF CallInit, PollReset, ClkInhibit, ClkStable
<1>2. CASE ClearGlobals
  BY <1>0, <1>2, AssignsOk DEF ClearGlobals, Errors, Results
<1>3. CASE GoIdle
  BY <1>3, CallsOk DEF GoIdle
<1>4. CASE AfterGoIdle
  BY <1>4, CallsOk DEF AfterGoIdle, ErrorReturn
<1>5. CASE AfterIfCond
  BY <1>5, CallsOk DEF AfterIfCond, ErrorReturn
<1>6. CASE AfterOpCond
  BY <1>6, CallsOk DEF AfterOpCond
<1>7. CASE AfterCid
  BY <1>7, CallsOk DEF AfterCid
<1>8. CASE AfterRelAddr
  BY <1>0, <1>8, AssignsOk DEF AfterRelAddr
<1>9. CASE AfterClkFast
  BY <1>9, CallsOk DEF AfterClkFast
<1>10. CASE AfterSelect
  <2>1. {"DAT_INHIBIT"} \in SUBSET Lines
    BY InterfaceAssumption
  <2>2. CASE ErrorReturn
    BY <2>2 DEF ErrorReturn
  <2>3. ASSUME CallStatus({"DAT_INHIBIT"}), UNCHANGED <<hostVars, cmdVars>> PROVE CmdClient
    BY <1>10, <2>1, <2>3 DEF AfterSelect, CmdClient, ClientPolls
  <2> QED BY <1>10, <2>2, <2>3 DEF AfterSelect
<1>11. CASE AfterLine
  BY <1>11, CallsOk DEF AfterLine
<1>12. CASE AfterScrCmd
  <2>1. "READ_RDY" \in Events \cap EventBits
    BY InterfaceAssumption DEF EventBits
  <2>2. CASE ErrorReturn
    BY <2>2 DEF ErrorReturn
  <2>3. ASSUME CallInt({"READ_RDY"}), UNCHANGED <<hostVars, cmdVars>> PROVE CmdClient
    BY <1>12, <2>1, <2>3 DEF AfterScrCmd, CmdClient, ClientPolls
  <2> QED BY <1>12, <2>2, <2>3 DEF AfterScrCmd
<1>13. CASE AfterScrReady
  BY <1>13 DEF AfterScrReady
<1>14. CASE ReadScr
  <2>1. CmdTypeOK /\ "WRITE_AVAILABLE" \notin status /\ Idle
    BY <1>0, <1>14 DEF ReadScr, ScrPhase
  <2>2. UNCHANGED <<interrupt, cmdtm, arg1, resp, waitVars, cmdVars>>
    BY <1>14 DEF ReadScr
  <2>3. status' = status \/ ("READ_AVAILABLE" \in status /\ status' = status \ {"READ_AVAILABLE"})
    BY <1>14 DEF ReadScr, ScrWord
  <2> QED BY <2>1, <2>2, <2>3, MovesOk
<1>15. CASE AfterScr
  BY <1>15, CallsOk DEF AfterScr, Finish
<1>16. CASE AfterWidth
  BY <1>16 DEF AfterWidth, ErrorReturn, Finish
<1> QED BY <1>1, <1>2, <1>3, <1>4, <1>5, <1>6, <1>7, <1>8, <1>9, <1>10, <1>11, <1>12, <1>13, <1>14,
           <1>15, <1>16 DEF InitStep

LEMMA ResponseOk == \A ready \in BOOLEAN : Response(ready) \in Responses
BY InterfaceAssumption DEF Response

LEMMA HwInitIsHw == BaseInv /\ HwInitStep => CmdClient \/ HwStep \/ UNCHANGED driverVars
<1> SUFFICES ASSUME BaseInv, HwInitStep PROVE CmdClient \/ HwStep \/ UNCHANGED driverVars
  OBVIOUS
<1> USE DEF BaseInv, driverVars, hostVars, waitVars, cmdVars
<1>1. CASE HwReset
  <2>1. Idle
    BY <1>1 DEF HwReset, Calling, Sends, Idle
  <2> QED BY <1>1, <2>1 DEF HwReset, CmdClient
<1>2. CASE HwClockStable
  BY <1>2 DEF HwClockStable
<1>3. ASSUME NEW answer \in Responses, Answered(answer) PROVE HwStep
  BY <1>3 DEF Answered, HwCmdDone, HwStep
<1>4. ASSUME NEW e \in {"CMD_TIMEOUT", "ERROR"}, Unanswered(e) PROVE HwStep
  <2>1. \E aborted \in SUBSET {"DAT_INHIBIT"} : status' = status \ ({"CMD_INHIBIT"} \cup aborted)
    <3>1. {} \in SUBSET {"DAT_INHIBIT"} /\ {"DAT_INHIBIT"} \in SUBSET {"DAT_INHIBIT"}
      OBVIOUS
    <3> QED BY <1>4, <3>1 DEF Unanswered
  <2> QED BY <1>4, <2>1 DEF Unanswered, HwCmdFailed, HwStep
<1>5. CASE Accepts
  BY <1>3, <1>5, ResponseOk DEF Accepts
<1>6. CASE Illegal
  BY <1>4, <1>6 DEF Illegal
<1>7. CASE Lost
  <2>1. {} \in Responses
    BY InterfaceAssumption
  <2> QED BY <1>3, <1>4, <1>7, <2>1 DEF Lost
<1>8. ASSUME phase # "none", NEW lines \in SUBSET StatusBits, "WRITE_AVAILABLE" \notin lines,
             lines \ DataStatus = status \ DataStatus,
             NEW e \in {"DATA_DONE", "READ_RDY", "DATA_TIMEOUT", "ERROR"}, PhaseStep({e}, lines)
      PROVE  HwStep
  <2>1. "DAT_INHIBIT" \in status
    BY <1>8 DEF ScrPhase
  <2>2. \E s \in SUBSET Lines : status' = (status \ DataStatus) \cup s
    <3>1. lines \cap DataStatus \in SUBSET Lines
          /\ lines = (status \ DataStatus) \cup (lines \cap DataStatus)
      BY <1>8, InterfaceAssumption DEF DataStatus, FifoStatus
    <3> QED BY <1>8, <3>1 DEF PhaseStep
  <2>3. e \in Events /\ e # "none" /\ interrupt' = interrupt \cup {e}
    BY <1>8, InterfaceAssumption DEF PhaseStep
  <2>4. \E event \in Events \cup {"none"} :
          interrupt' = IF event = "none" THEN interrupt ELSE interrupt \cup {event}
    BY <2>3
  <2> QED BY <1>8, <2>1, <2>2, <2>4 DEF PhaseStep, HwData, HwStep
<1>9. status \in SUBSET StatusBits /\ "WRITE_AVAILABLE" \notin status
  BY DEF TypeOK, CmdTypeOK, HostTypeOK, ScrPhase
<1> USE DEF StatusBits, DataStatus, FifoStatus
<1>10. CASE ScrArrives
  BY <1>8, <1>9, <1>10 DEF ScrArrives
<1>11. CASE PhaseDone
  BY <1>8, <1>9, <1>11 DEF PhaseDone
<1>12. CASE PhaseFails
  <2>1. PICK e \in {"DATA_TIMEOUT", "ERROR"} :
          PhaseStep({e}, status \ {"DAT_INHIBIT", "READ_AVAILABLE"})
    BY <1>12 DEF PhaseFails
  <2> QED BY <1>8, <1>9, <1>12, <2>1 DEF PhaseFails
<1> QED BY <1>1, <1>2, <1>5, <1>6, <1>7, <1>10, <1>11, <1>12 DEF HwInitStep

LEMMA NextIsCmdNext == BaseInv /\ [Next]_vars => [CmdNext]_driverVars
BY InitStepIsClient, HwInitIsHw DEF Next, LowStep, CmdNext, vars

LEMMA CmdKept == BaseInv /\ [Next]_vars => CmdTypeOK' /\ OwnAnswer'
BY NextIsCmdNext, CmdNextType, OwnAnswerNext DEF BaseInv, TypeOK

-----------------------------------------------------------------------------
(* The types. *)

InitTypes ==
  /\ try \in 0 .. MaxTries /\ r \subseteq RespBits /\ ccs \in BOOLEAN /\ words \in 0 .. 2
  /\ ret \in Errors \cup {"none"}
  /\ clk \in {"none", "inhibit", "stable"} /\ tick \in 0 .. MaxPolls
  /\ sd_scr \subseteq {"BUS_WIDTH_4", "SET_BLKCNT", "CCS"}

BoardTypes ==
  /\ control1 \subseteq {"SRST_HC", "CLK_EN", "CLK_STABLE"}
  /\ width \in {1, 4} /\ clock \in {"off", "slow", "fast"}
  /\ phase \in {"none", "waiting", "sent"} /\ fifo \in 0 .. 2

CardTypes ==
  /\ card \in Cards /\ mode \in {"idle", "ready", "ident", "stby", "tran"}
  /\ app \in BOOLEAN /\ cardWidth \in {1, 4}
  /\ faults \in 0 .. MaxFaults

Labels == {"idle", "reset", "clk_slow", "go_idle", "if_cond", "op_cond", "cid", "rel_addr",
           "first", "clk_fast", "select", "line", "scr_cmd", "scr_ready", "scr_read", "width"}

LEMMA TypeParts == TypeOK <=> CmdTypeOK /\ pc \in Labels /\ InitTypes /\ BoardTypes /\ CardTypes
BY DEF TypeOK, Labels, InitTypes, BoardTypes, CardTypes

LEMMA ScrOfCard == TypeOK => card.scr \subseteq {"BUS_WIDTH_4", "SET_BLKCNT", "CCS"}
BY CardsAssumption DEF TypeOK

LEMMA InitStepTypes ==
  BaseInv /\ (CallInit \/ InitStep) => pc' \in Labels /\ InitTypes' /\ BoardTypes' /\ CardTypes'
<1> SUFFICES ASSUME BaseInv, CallInit \/ InitStep
             PROVE  pc' \in Labels /\ InitTypes' /\ BoardTypes' /\ CardTypes'
  OBVIOUS
<1>0. /\ pc \in Labels /\ InitTypes /\ BoardTypes /\ CardTypes
      /\ sd_err \in Errors /\ val \subseteq RespBits
  BY TypeParts DEF BaseInv, CmdTypeOK
<1>1. CardTypes'
  BY <1>0 DEF CallInit, InitStep, At, PollReset, ClkInhibit, ClkStable, ClearGlobals, GoIdle, AfterGoIdle,
     AfterIfCond, AfterOpCond, AfterCid, AfterRelAddr, AfterClkFast, AfterSelect, AfterLine, AfterScrCmd,
     AfterScrReady, ReadScr, AfterScr, AfterWidth, CardTypes, cardVars
<1>2. BoardTypes'
  <2>1. CASE ReadScr
    <3>1. "READ_AVAILABLE" \in status => fifo > 0
      BY DEF BaseInv, ScrPhase
    <3> QED BY <1>0, <2>1, <3>1 DEF ReadScr, ScrWord, At, BoardTypes
  <2>2. CASE PollReset \/ ClearGlobals \/ GoIdle \/ AfterGoIdle \/ AfterIfCond \/ AfterOpCond
             \/ AfterCid \/ AfterRelAddr \/ AfterClkFast \/ AfterSelect \/ AfterLine \/ AfterScrCmd
             \/ AfterScrReady \/ AfterScr
    <3>1. UNCHANGED <<control1, width, clock, fifo, phase>>
      BY <2>2 DEF At, PollReset, ClearGlobals, GoIdle, AfterGoIdle, AfterIfCond, AfterOpCond, AfterCid,
         AfterRelAddr, AfterClkFast, AfterSelect, AfterLine, AfterScrCmd, AfterScrReady, AfterScr,
         KeepBoard, ErrorReturn
    <3> QED BY <1>0, <3>1 DEF BoardTypes
  <2>3. CASE CallInit
    BY <1>0, <2>3 DEF CallInit, At, BoardTypes
  <2>4. CASE ClkInhibit \/ ClkStable
    BY <1>0, <2>4 DEF ClkInhibit, ClkStable, ClkFails, BoardTypes
  <2>5. CASE AfterWidth
    BY <1>0, <2>5 DEF AfterWidth, At, ErrorReturn, KeepBoard, BoardTypes
  <2> QED BY <2>1, <2>2, <2>3, <2>4, <2>5 DEF InitStep
<1>3. pc' \in Labels /\ InitTypes'
  <2> USE DEF InitTypes, Labels, At, Exit, Go, Send, KeepLocals, ErrorReturn
  <2>0. MaxPolls \in 0 .. MaxPolls /\ MaxTries - 1 \in 0 .. MaxTries
    BY BoundsAssumption, MaxPollsAssumption
  <2>1. CASE CallInit
    BY <1>0, <2>0, <2>1 DEF CallInit
  <2>2. CASE PollReset
    BY <1>0, <2>0, <2>2 DEF PollReset, Again, InTime, TimedOut, CallClk, Errors, Results
  <2>3. CASE ClkInhibit \/ ClkStable
    <3>1. UNCHANGED <<try, r, words, sd_scr, ccs>>
      BY <2>3 DEF ClkInhibit, ClkStable, ClkFails
    <3>2. tick' \in 0 .. MaxPolls /\ clk' \in {"none", "inhibit", "stable"}
      BY <1>0, <2>0, <2>3 DEF ClkInhibit, ClkStable, ClkFails, Again
    <3>3. pc' \in Labels /\ ret' \in Errors \cup {"none"}
      BY <1>0, <2>3 DEF ClkInhibit, ClkStable, ClkFails, Errors, Results
    <3> QED BY <1>0, <3>1, <3>2, <3>3
  <2>4. CASE ClearGlobals \/ GoIdle \/ AfterGoIdle \/ AfterCid \/ AfterClkFast
    BY <1>0, <2>4 DEF ClearGlobals, GoIdle, AfterGoIdle, AfterCid, AfterClkFast
  <2>5. CASE AfterIfCond
    BY <1>0, <2>0, <2>5 DEF AfterIfCond
  <2>6. CASE AfterOpCond
    <3>1. pc' \in Labels /\ ret' \in Errors \cup {"none"}
      BY <1>0, <2>6 DEF AfterOpCond, Errors, Results
    <3>2. ccs' = ccs \/ ccs' = ("CCS" \in val)
      BY <2>6 DEF AfterOpCond
    <3>3. try' \in 0 .. MaxTries
      BY <1>0, <2>6, BoundsAssumption DEF AfterOpCond
    <3>4. r' = val /\ UNCHANGED <<words, clk, tick, sd_scr>>
      BY <2>6 DEF AfterOpCond
    <3>5. ccs' \in BOOLEAN
      <4>1. ccs \in BOOLEAN
        BY <1>0
      <4>2. ("CCS" \in val) \in BOOLEAN
        OBVIOUS
      <4> QED BY <3>2, <4>1, <4>2, Zenon
    <3> QED BY <1>0, <3>1, <3>3, <3>4, <3>5
  <2>7. CASE AfterRelAddr
    BY <1>0, <2>0, <2>7 DEF AfterRelAddr, CallClk
  <2>8. CASE AfterSelect \/ AfterLine \/ AfterScrCmd \/ AfterScrReady
    <3>1. words' \in 0 .. 2
      BY <1>0, <2>8 DEF AfterSelect, AfterLine, AfterScrCmd, AfterScrReady
    <3>2. pc' \in Labels /\ ret' \in Errors \cup {"none"}
      BY <1>0, <2>8 DEF AfterSelect, AfterLine, AfterScrCmd, AfterScrReady, Errors, Results
    <3>3. UNCHANGED <<try, r, clk, tick, sd_scr, ccs>>
      BY <2>8 DEF AfterSelect, AfterLine, AfterScrCmd, AfterScrReady
    <3> QED BY <1>0, <3>1, <3>2, <3>3
  <2>9. CASE ReadScr
    <3>1. words' \in 0 .. 2
      BY <1>0, <2>9 DEF ReadScr, ScrWord
    <3>2. sd_scr' = sd_scr \/ sd_scr' = card.scr
      BY <2>9 DEF ReadScr, ScrWord
    <3> QED BY <1>0, <2>9, <3>1, <3>2, ScrOfCard DEF ReadScr, BaseInv
  <2>10. CASE AfterScr \/ AfterWidth
    <3>1. sd_scr' \subseteq {"BUS_WIDTH_4", "SET_BLKCNT", "CCS"}
      BY <1>0, <2>10 DEF AfterScr, AfterWidth, Finish
    <3>2. pc' \in Labels /\ ret' \in Errors \cup {"none"}
      BY <1>0, <2>10 DEF AfterScr, AfterWidth, Finish, Errors, Results
    <3> QED BY <1>0, <2>10, <3>1, <3>2 DEF AfterScr, AfterWidth, Finish
  <2> QED BY <2>1, <2>2, <2>3, <2>4, <2>5, <2>6, <2>7, <2>8, <2>9, <2>10 DEF InitStep
<1> QED BY <1>1, <1>2, <1>3

LEMMA HwTypes == BaseInv /\ HwInitStep => pc' \in Labels /\ InitTypes' /\ BoardTypes' /\ CardTypes'
<1> SUFFICES ASSUME BaseInv, HwInitStep
             PROVE  pc' \in Labels /\ InitTypes' /\ BoardTypes' /\ CardTypes'
  OBVIOUS
<1>0. pc \in Labels /\ InitTypes /\ BoardTypes /\ CardTypes
  BY TypeParts DEF BaseInv
<1>1. UNCHANGED <<initVars, width, clock, card>>
  BY DEF HwInitStep, HwReset, HwClockStable, Accepts, Illegal, Lost, ScrArrives, PhaseDone, PhaseFails,
     PhaseStep, Answered, Unanswered, KeepDriver
<1>2. pc' \in Labels /\ InitTypes'
  BY <1>0, <1>1 DEF InitTypes, initVars
<1>3. BoardTypes'
  <2>1. control1' \subseteq control1 \cup {"CLK_STABLE"}
    BY DEF HwInitStep, HwReset, HwClockStable, Accepts, Illegal, Lost, ScrArrives, PhaseDone,
       PhaseFails, PhaseStep, Answered, Unanswered
  <2>2. phase' \in {phase, "none", "waiting", "sent"}
    BY DEF HwInitStep, HwReset, HwClockStable, Accepts, Illegal, Lost, ScrArrives, PhaseDone,
       PhaseFails, PhaseStep, Answered, Unanswered
  <2>3. fifo' \in {fifo, 0, 2}
    BY DEF HwInitStep, HwReset, HwClockStable, Accepts, Illegal, Lost, ScrArrives, PhaseDone,
       PhaseFails, PhaseStep, Answered, Unanswered
  <2> QED BY <1>0, <1>1, <2>1, <2>2, <2>3 DEF BoardTypes
<1>4. faults' \in 0 .. MaxFaults
  BY <1>0, BoundsAssumption DEF HwInitStep, HwReset, HwClockStable, Accepts, Illegal, Lost, ScrArrives,
     PhaseDone, PhaseFails, PhaseStep, Answered, Unanswered, CardTypes
<1>5. mode' \in {"idle", "ready", "ident", "stby", "tran"} /\ app' \in BOOLEAN /\ cardWidth' \in {1, 4}
  <2>1. ASSUME NEW ready \in BOOLEAN, Takes(ready)
        PROVE  mode' \in {"idle", "ready", "ident", "stby", "tran"} /\ app' \in BOOLEAN
               /\ cardWidth' \in {1, 4}
    BY <1>0, <2>1 DEF Takes, NextMode, CardTypes
  <2> QED BY <1>0, <2>1 DEF HwInitStep, HwReset, HwClockStable, Accepts, Illegal, Lost, ScrArrives,
     PhaseDone, PhaseFails, PhaseStep, CardTypes
<1> QED BY <1>0, <1>1, <1>2, <1>3, <1>4, <1>5 DEF CardTypes

LEMMA TypesKept == BaseInv /\ [Next]_vars => TypeOK'
<1> SUFFICES ASSUME BaseInv, [Next]_vars PROVE pc' \in Labels /\ InitTypes' /\ BoardTypes' /\ CardTypes'
  BY CmdKept DEF TypeOK, Labels, InitTypes, BoardTypes, CardTypes
<1>1. CASE LowStep \/ UNCHANGED vars
  <2>1. UNCHANGED <<initVars, boardVars, cardVars, faults>>
    BY <1>1 DEF LowStep, vars
  <2> QED BY <2>1, TypeParts DEF BaseInv, InitTypes, BoardTypes, CardTypes, initVars, boardVars, cardVars
<1> QED BY <1>1, InitStepTypes, HwTypes DEF Next

-----------------------------------------------------------------------------
(* sd_cmd and the data line. *)

\* What a call of sd_cmd leaves behind.
LEMMA CallGives ==
  ASSUME NEW k, k \in AppCommands \/ k # "APP_CMD", CallCmd(k, 0)
  PROVE  /\ cmd' = "busy" /\ UNCHANGED hostVars /\ UNCHANGED <<val, sd_rca>>
         /\ \/ k \notin AppCommands /\ code' = k /\ outer' = NoCommand
            \/ k \in AppCommands /\ code' = "APP_CMD" /\ outer' = k /\ outer' # NoCommand
BY DEF CallCmd, AppCommands, NoCommand

\* A step of sd_init goes on to a label without a call, or calls sd_cmd for the label.
LEMMA InitStepCalls ==
  ASSUME BaseInv, CallInit \/ InitStep
  PROVE  \/ /\ UNCHANGED <<cmd, wait, code, outer, status, cmdtm>> /\ cmd = "none" /\ wait = "none"
            /\ pc' \notin CommandLabels
         \/ /\ UNCHANGED <<cmd, code, outer, status, cmdtm>> /\ cmd = "none"
            /\ \/ pc = "select" /\ pc' = "line" /\ sd_err = "OK"
               \/ pc = "scr_cmd" /\ pc' = "scr_ready" /\ sd_err = "OK"
         \/ /\ ReadScr /\ pc = "scr_read" /\ pc' = "scr_read" /\ cmd = "none" /\ wait = "none"
            /\ UNCHANGED <<cmd, wait, code, outer, cmdtm>>
         \/ \E k : /\ Sends(pc', k) /\ CallCmd(k, 0) /\ cmd = "none"
                  /\ \/ k \notin {"SEND_SCR", "SET_BUS_WIDTH"}
                        /\ pc \in {"first", "go_idle", "if_cond", "op_cond", "cid", "rel_addr", "clk_fast"}
                     \/ k = "SEND_SCR" /\ pc = "line"
                     \/ k = "SET_BUS_WIDTH" /\ pc = "scr_read"
<1> USE DEF At, Idle, CommandLabels, Send, Go, Exit, Sends, driverVars, hostVars, waitVars, cmdVars, ErrorReturn,
            CallClk
<1>1. CASE CallInit
  BY <1>1 DEF CallInit
<1>2. CASE PollReset
  BY <1>2 DEF PollReset
<1>3. CASE ClkInhibit \/ ClkStable
  <2>1. cmd = "none" /\ wait = "none"
    BY <1>3 DEF ClkInhibit, ClkStable, BaseInv, Calling
  <2> QED BY <1>3, <2>1 DEF ClkInhibit, ClkStable, ClkFails, BaseInv, Calling
<1>4. CASE ClearGlobals
  BY <1>4 DEF ClearGlobals
<1>5. CASE GoIdle
  BY <1>5 DEF GoIdle
<1>6. CASE AfterGoIdle
  BY <1>6 DEF AfterGoIdle
<1>7. CASE AfterIfCond
  BY <1>7 DEF AfterIfCond
<1>8. CASE AfterOpCond
  BY <1>8 DEF AfterOpCond
<1>9. CASE AfterCid
  BY <1>9 DEF AfterCid
<1>10. CASE AfterRelAddr
  BY <1>10 DEF AfterRelAddr
<1>11. CASE AfterClkFast
  BY <1>11 DEF AfterClkFast
<1>12. CASE AfterSelect
  BY <1>12 DEF AfterSelect
<1>13. CASE AfterLine
  BY <1>13 DEF AfterLine
<1>14. CASE AfterScrCmd
  BY <1>14 DEF AfterScrCmd
<1>15. CASE AfterScrReady
  BY <1>15 DEF AfterScrReady
<1>16. CASE ReadScr
  BY <1>16 DEF ReadScr
<1>17. CASE AfterScr
  BY <1>17 DEF AfterScr, Finish
<1>18. CASE AfterWidth
  BY <1>18 DEF AfterWidth, Finish
<1> QED BY <1>1, <1>2, <1>3, <1>4, <1>5, <1>6, <1>7, <1>8, <1>9, <1>10, <1>11, <1>12, <1>13, <1>14,
           <1>15, <1>16, <1>17, <1>18 DEF InitStep

\* The steps of sd_status, sd_int and sd_cmd: they wait, they return or they go on.
LEMMA LowGives ==
  ASSUME BaseInv, LowStep
  PROVE  /\ UNCHANGED <<initVars, boardVars, cardVars, faults, sd_rca>>
         /\ \/ /\ wait # "none"
               /\ UNCHANGED <<cmd, code, outer, status, cmdtm, resp, val, sd_err>>
            \/ /\ cmd \in {"busy", "wait"} /\ wait = "none" /\ cmd' = "none" /\ outer' = NoCommand
               /\ UNCHANGED <<wait, status, cmdtm, resp>>
               /\ sd_err' = "OK" => /\ cmd = "wait" /\ res = "OK" /\ outer = NoCommand
                                   /\ UNCHANGED code /\ val' = Value(code)
               /\ val' = {} \/ (cmd = "wait" /\ res = "OK" /\ outer = NoCommand /\ val' = Value(code))
            \/ /\ cmd \in {"busy", "wait"} /\ outer # NoCommand /\ cmd' = "busy" /\ code' = outer /\ outer' = NoCommand
               /\ UNCHANGED <<status, cmdtm, resp>>
            \/ /\ \/ cmd = "busy" /\ cmd' = "clear"
                  \/ cmd = "clear" /\ cmd' = "issue"
               /\ UNCHANGED <<code, outer, status, cmdtm, resp, val, sd_err>> /\ wait = "none" /\ UNCHANGED wait
            \/ /\ cmd = "issue" /\ cmd' = "wait" /\ UNCHANGED <<code, outer, val, sd_err, resp>>
               /\ cmdtm' = code
               /\ status' = status \cup {"CMD_INHIBIT"}
                                   \cup (IF code \in DataCommands THEN {"DAT_INHIBIT"} ELSE {})
<1> USE DEF hostVars, waitVars, cmdVars
<1>1. UNCHANGED <<initVars, boardVars, cardVars, faults>>
  BY DEF LowStep
<1>2. CASE WaitStep
  BY <1>1, <1>2 DEF WaitStep, StatusPoll, StatusExit, IntPoll, IntRead, IntAck, PollStep
<1>3. ASSUME NEW v, NEW e, Return(v, e)
      PROVE  /\ UNCHANGED <<sd_rca, status, cmdtm, resp>>
             /\ \/ /\ cmd' = "none" /\ outer' = NoCommand /\ UNCHANGED wait
                   /\ \/ outer = NoCommand /\ val' = v /\ sd_err' = e /\ UNCHANGED code
                      \/ outer # NoCommand /\ val' = {} /\ sd_err' = "ERROR"
                \/ outer # NoCommand /\ cmd' = "busy" /\ code' = outer /\ outer' = NoCommand
  BY <1>3 DEF Return, ReturnToClient, AppRejected, AppAccepted
<1>4. CASE CmdBusy
  BY <1>1, <1>3, <1>4 DEF CmdBusy
<1>5. CASE CmdClear
  <2>1. wait = "none"
    BY <1>5 DEF CmdClear, BaseInv, OwnAnswer
  <2> QED BY <1>1, <1>5, <2>1 DEF CmdClear
<1>6. CASE CmdIssue
  BY <1>1, <1>6 DEF CmdIssue, WriteCmdtm, CallInt, Poll
<1>7. CASE CmdWait
  <2>1. CASE res # "OK"
    BY <1>1, <1>3, <1>7, <2>1 DEF CmdWait
  <2>2. CASE res = "OK"
    BY <1>1, <1>3, <1>7, <2>2 DEF CmdWait
  <2> QED BY <2>1, <2>2
<1> QED BY <1>2, <1>4, <1>5, <1>6, <1>7 DEF LowStep, DriverStep, CmdStep

LEMMA CallingLow == BaseInv /\ LowStep => Calling'
<1> SUFFICES ASSUME BaseInv, LowStep PROVE Calling'
  OBVIOUS
<1>1. UNCHANGED <<pc, clk>> /\ outer \in AppCommands \cup {NoCommand}
  BY LowGives DEF initVars, BaseInv, TypeOK, CmdTypeOK
<1> USE DEF BaseInv, Calling
<1>2. cmd = "wait" /\ wait = "none" /\ res = "OK" => ~Executing
  BY DEF OwnAnswer
<1>3. CASE wait # "none" /\ UNCHANGED <<cmd, code, outer, status, sd_err>>
  BY <1>1, <1>3 DEF Executing
<1>4. CASE cmd' = "none" /\ wait = "none" /\ outer' = NoCommand /\ UNCHANGED <<wait, status>>
           /\ (sd_err' = "OK" => cmd = "wait" /\ res = "OK")
  BY <1>1, <1>2, <1>4 DEF Executing
<1>5. CASE cmd # "none" /\ outer # NoCommand /\ cmd' = "busy" /\ code' = outer /\ outer' = NoCommand
  BY <1>1, <1>5
<1>6. CASE cmd # "none" /\ cmd' \in {"clear", "issue", "wait"} /\ UNCHANGED <<code, outer>>
  BY <1>1, <1>6
<1> QED BY <1>3, <1>4, <1>5, <1>6, LowGives

LEMMA SendsLabel == \A label, k : Sends(label, k) => label \in CommandLabels /\ k # "APP_CMD" /\ k # NoCommand
BY DEF Sends, CommandLabels, NoCommand

LEMMA CallingInit == BaseInv /\ (CallInit \/ InitStep) => Calling'
<1> SUFFICES ASSUME BaseInv, CallInit \/ InitStep PROVE Calling'
  OBVIOUS
<1>1. clk' # "none" => pc' \in {"clk_slow", "clk_fast"}
  <2> USE DEF At, Go, Exit
  <2>1. CASE PollReset
    BY <2>1 DEF PollReset, CallClk
  <2>2. CASE ClkInhibit \/ ClkStable
    BY <2>2 DEF ClkInhibit, ClkStable, ClkFails, BaseInv, Calling
  <2>3. CASE AfterRelAddr
    BY <2>3 DEF AfterRelAddr, CallClk
  <2>4. CASE CallInit \/ ClearGlobals \/ GoIdle \/ AfterGoIdle \/ AfterIfCond \/ AfterOpCond \/ AfterCid
    BY <2>4 DEF CallInit, ClearGlobals, GoIdle, AfterGoIdle, AfterIfCond, AfterOpCond, AfterCid, KeepLocals,
       ErrorReturn
  <2>5. CASE AfterClkFast \/ AfterSelect \/ AfterLine \/ AfterScrCmd \/ AfterScrReady \/ ReadScr
             \/ AfterScr \/ AfterWidth
    BY <2>5 DEF AfterClkFast, AfterSelect, AfterLine, AfterScrCmd, AfterScrReady, ReadScr, AfterScr,
       AfterWidth, KeepLocals, ErrorReturn
  <2> QED BY <2>1, <2>2, <2>3, <2>4, <2>5 DEF InitStep
<1>2. cmd = "none" /\ outer = NoCommand
  BY InitStepCalls DEF BaseInv, Calling
<1>3. ASSUME NEW k, Sends(pc', k), CallCmd(k, 0) PROVE Calling'
  <2>1. /\ cmd' = "busy"
        /\ \/ code' = k /\ outer' = NoCommand
           \/ code' = "APP_CMD" /\ outer' = k /\ outer' # NoCommand
    BY <1>3, CallGives, SendsLabel
  <2> QED BY <1>1, <1>3, <2>1 DEF Calling
<1>4. CASE UNCHANGED <<cmd, wait, outer>> /\ wait = "none" /\ pc' \notin CommandLabels
  BY <1>1, <1>2, <1>4 DEF Calling
<1>5. CASE UNCHANGED <<cmd, outer>> /\ pc' \in {"line", "scr_ready"}
  BY <1>1, <1>2, <1>5 DEF Calling, CommandLabels
<1>6. CASE pc' = "scr_read" /\ UNCHANGED <<cmd, wait, outer>> /\ wait = "none"
  BY <1>1, <1>2, <1>6 DEF Calling, CommandLabels
<1> QED BY <1>3, <1>4, <1>5, <1>6, InitStepCalls

LEMMA HwKeepsDriver ==
  ASSUME HwInitStep
  PROVE  /\ UNCHANGED <<initVars, width, clock, card, waitVars, cmdVars, cmdtm>>
         /\ Executing' => Executing
BY DEF HwInitStep, HwReset, HwClockStable, Accepts, Illegal, Lost, ScrArrives, PhaseDone, PhaseFails, PhaseStep,
   Answered, Unanswered, KeepDriver, EndCommand, ClientResets, Executing, driverVars, hostVars

LEMMA CallingHw == BaseInv /\ HwInitStep => Calling'
BY HwKeepsDriver DEF BaseInv, Calling, initVars, waitVars, cmdVars

LEMMA CallingKept == BaseInv /\ [Next]_vars => Calling'
<1>1. BaseInv /\ UNCHANGED vars => Calling'
  BY DEF BaseInv, Calling, Executing, vars, driverVars, initVars, waitVars, cmdVars, hostVars
<1> QED BY <1>1, CallingInit, CallingLow, CallingHw DEF Next

LEMMA ScrLow == BaseInv /\ LowStep => ScrPhase'
<1> SUFFICES ASSUME BaseInv, LowStep PROVE ScrPhase'
  OBVIOUS
<1>1. UNCHANGED <<pc, phase, fifo, control1>>
  BY LowGives DEF initVars, boardVars
<1> USE <1>1 DEF BaseInv, ScrPhase, ScrUnderWay, BeforeScr, Executing, ResetPending
<1>2. CASE UNCHANGED <<status, cmdtm>>
           /\ ((cmd' = cmd /\ code' = code) \/ cmd \in {"busy", "clear"} \/ cmd' = "none")
           /\ (cmd' # "wait" \/ cmd = "wait")
  BY <1>2
<1>3. CASE UNCHANGED <<status, cmdtm>> /\ cmd = "wait" /\ cmd' = "busy" /\ outer # NoCommand
  <2>1. code = "APP_CMD" /\ cmdtm = code /\ pc # "reset"
    BY <1>3 DEF OwnAnswer, Calling, Sends
  <2>2. pc = "scr_cmd" => phase = "none" /\ ~ScrUnderWay
    BY <1>3, <2>1 DEF Calling, Sends
  <2> QED BY <1>3, <2>1, <2>2
<1>4. CASE cmd = "issue" /\ cmd' = "wait" /\ code' = code /\ cmdtm' = code
           /\ status' = status \cup {"CMD_INHIBIT"}
                              \cup (IF code \in DataCommands THEN {"DAT_INHIBIT"} ELSE {})
  <2>1. pc \in CommandLabels /\ (code = "SEND_SCR" => pc = "scr_cmd")
    BY <1>4, SendsLabel DEF Calling, Sends
  <2>2. pc \notin {"reset", "scr_ready", "scr_read"}
    BY <2>1 DEF CommandLabels
  <2>3. pc # "width" => phase = "none"
    BY <1>4, <2>1 DEF CommandLabels
  <2>4. "SEND_SCR" \in DataCommands
    BY DEF DataCommands, ReadCommands
  <2>5. status \subseteq status' /\ status' \subseteq status \cup {"CMD_INHIBIT", "DAT_INHIBIT"}
        /\ (code = "SEND_SCR" => "DAT_INHIBIT" \in status')
    BY <1>4, <2>4
  <2>6. BeforeScr' => pc # "width" /\ code # "SEND_SCR"
    BY <1>4, <2>1, <2>2
  <2>7. phase # "none" => code # "SEND_SCR"
    BY <2>1, <2>3
  <2> HIDE DEF BeforeScr
  <2> QED BY <1>4, <2>1, <2>2, <2>3, <2>5, <2>6, <2>7
<1> QED BY <1>2, <1>3, <1>4, LowGives

LEMMA ScrHw == BaseInv /\ HwInitStep => ScrPhase'
<1> SUFFICES ASSUME BaseInv, HwInitStep PROVE ScrPhase'
  OBVIOUS
<1>1. UNCHANGED <<pc, cmd, code, cmdtm>> /\ (Executing' => Executing)
  BY HwKeepsDriver DEF initVars, cmdVars
<1>2. BeforeScr' <=> BeforeScr
  BY <1>1 DEF BeforeScr
<1> USE <1>1, <1>2 DEF BaseInv, ScrPhase, ScrUnderWay, ResetPending
<1>3. CASE HwReset
  BY <1>3 DEF HwReset, ClientResets, Executing, ResetPending, BeforeScr
<1>4. CASE HwClockStable
  BY <1>4 DEF HwClockStable, driverVars, hostVars
<1>5. ASSUME NEW answer, Answered(answer) PROVE ScrPhase'
  <2>1. Executing /\ ~Executing' /\ status' = status \ {"CMD_INHIBIT"} /\ UNCHANGED <<control1, fifo>>
    BY <1>5 DEF Answered, EndCommand, Executing
  <2>2. phase' = phase \/ (ScrUnderWay /\ phase' = "waiting")
    BY <1>5, <2>1 DEF Answered
  <2> QED BY <2>1, <2>2
<1>6. ASSUME NEW e, Unanswered(e) PROVE ScrPhase'
  <2>1. Executing /\ ~Executing' /\ UNCHANGED <<control1, fifo, phase>>
    BY <1>6 DEF Unanswered, EndCommand, Executing
  <2>2. status' \subseteq status /\ (phase # "none" => status' = status \ {"CMD_INHIBIT"})
    BY <1>6 DEF Unanswered
  <2> QED BY <2>1, <2>2
<1>7. CASE Accepts \/ Illegal \/ Lost
  BY <1>5, <1>6, <1>7 DEF Accepts, Illegal, Lost
<1>8. CASE ScrArrives
  BY <1>8 DEF ScrArrives, PhaseStep
<1>9. CASE PhaseDone
  <2>1. phase # "none" /\ phase' = "none" /\ fifo = 0 /\ fifo' = 0 /\ control1' = control1
        /\ status' = status \ {"DAT_INHIBIT"}
    BY <1>9 DEF PhaseDone, PhaseStep
  <2> QED BY <2>1
<1>10. CASE PhaseFails
  <2>1. phase # "none" /\ phase' = "none" /\ fifo' = 0 /\ control1' = control1
        /\ status' = status \ {"DAT_INHIBIT", "READ_AVAILABLE"}
    BY <1>10 DEF PhaseFails, PhaseStep
  <2> QED BY <2>1
<1> QED BY <1>3, <1>4, <1>7, <1>8, <1>9, <1>10 DEF HwInitStep

\* Where a step of sd_init leads to.
LEMMA InitFlow ==
  ASSUME BaseInv, CallInit \/ InitStep
  PROVE  \/ pc' = "idle"
         \/ pc' = "reset" /\ ("SRST_HC" \in control1' \/ (pc = "reset" /\ UNCHANGED control1))
         \/ pc' = "clk_slow" /\ ((pc = "reset" /\ ~ResetPending) \/ pc = "clk_slow")
         \/ pc' = "first" /\ pc = "clk_slow"
         \/ pc' = "clk_fast" /\ pc \in {"rel_addr", "clk_fast"}
         \/ pc' = "line" /\ pc = "select"
         \/ pc' = "scr_ready" /\ pc = "scr_cmd" /\ cmd = "none" /\ sd_err = "OK"
         \/ pc' = "scr_read" /\ pc \in {"scr_ready", "scr_read"}
         \/ pc' \in CommandLabels
<1> USE DEF At, Idle, Go, Exit, Send, ErrorReturn, CommandLabels
<1>1. CASE CallInit \/ ClearGlobals \/ GoIdle \/ AfterGoIdle \/ AfterIfCond \/ AfterCid
  BY <1>1 DEF CallInit, ClearGlobals, GoIdle, AfterGoIdle, AfterIfCond, AfterCid
<1>2. CASE PollReset
  BY <1>2 DEF PollReset, KeepBoard, CallClk, InTime
<1>3. CASE ClkInhibit \/ ClkStable
  <2>1. pc \in {"clk_slow", "clk_fast"}
    BY <1>3 DEF ClkInhibit, ClkStable, BaseInv, Calling
  <2> QED BY <1>3, <2>1 DEF ClkInhibit, ClkStable, ClkFails
<1>4. CASE AfterOpCond
  BY <1>4 DEF AfterOpCond
<1>5. CASE AfterRelAddr
  BY <1>5 DEF AfterRelAddr, CallClk
<1>6. CASE AfterClkFast \/ AfterSelect \/ AfterLine \/ AfterScrCmd \/ AfterScrReady \/ ReadScr
  BY <1>6 DEF AfterClkFast, AfterSelect, AfterLine, AfterScrCmd, AfterScrReady, ReadScr
<1>7. CASE AfterScr \/ AfterWidth
  BY <1>7 DEF AfterScr, AfterWidth, Finish
<1> QED BY <1>1, <1>2, <1>3, <1>4, <1>5, <1>6, <1>7 DEF InitStep

LEMMA ScrInit == BaseInv /\ (CallInit \/ InitStep) => ScrPhase'
<1> SUFFICES ASSUME BaseInv, CallInit \/ InitStep PROVE ScrPhase'
  OBVIOUS
<1> USE DEF BaseInv, ScrPhase, ScrUnderWay
<1>1. cmdtm' = cmdtm
  BY InitStepCalls DEF CallCmd, hostVars
<1>2. CASE ReadScr
  <2>1. pc = "scr_read" /\ pc' = "scr_read" /\ phase' = phase /\ status' \subseteq status
        /\ ("DAT_INHIBIT" \in status => "DAT_INHIBIT" \in status')
    BY <1>2 DEF ReadScr, At, Go, ScrWord
  <2>2. fifo \in Nat /\ ("READ_AVAILABLE" \in status' => fifo' > 0)
    BY <1>2 DEF ReadScr, ScrWord, TypeOK
  <2> QED BY <1>1, <2>1, <2>2 DEF BeforeScr, Executing
<1>3. CASE ~ReadScr
  <2>1. UNCHANGED <<phase, fifo>>
    BY <1>3 DEF CallInit, InitStep, PollReset, ClkInhibit, ClkStable, ClearGlobals, GoIdle, AfterGoIdle,
       AfterIfCond, AfterOpCond, AfterCid, AfterRelAddr, AfterClkFast, AfterSelect, AfterLine, AfterScrCmd,
       AfterScrReady, AfterScr, AfterWidth, At, KeepBoard, ErrorReturn
  <2>2. status' = status
    BY <1>3, InitStepCalls DEF CallCmd, hostVars
  <2>3. CASE pc' \in {"idle", "reset", "clk_slow", "first", "clk_fast", "line", "scr_ready", "scr_read"}
    <3>1. pc' = "scr_ready" => ~Executing
      BY InitFlow, <2>3 DEF CommandLabels, Calling, InitStep
    <3> QED BY <1>1, <2>1, <2>2, <2>3, <3>1, InitFlow DEF BeforeScr, Executing, ResetPending, CommandLabels
  <2>4. ASSUME NEW k, Sends(pc', k), CallCmd(k, 0),
               \/ k \notin {"SEND_SCR", "SET_BUS_WIDTH"}
                  /\ pc \in {"first", "go_idle", "if_cond", "op_cond", "cid", "rel_addr", "clk_fast"}
               \/ k = "SEND_SCR" /\ pc = "line"
               \/ k = "SET_BUS_WIDTH" /\ pc = "scr_read"
        PROVE  ScrPhase'
    <3>1. pc' \in CommandLabels /\ (pc' = "width" <=> k = "SET_BUS_WIDTH") /\ cmd' = "busy"
          /\ (pc' = "scr_cmd" => k = "SEND_SCR")
      BY <2>4 DEF Sends, CommandLabels, CallCmd
    <3>2. BeforeScr' => BeforeScr
      BY <2>4, <3>1 DEF BeforeScr, CommandLabels
    <3>3. pc' = "width" => pc = "scr_read"
      BY <2>4, <3>1
    <3>4. pc' \notin {"reset", "scr_ready", "scr_read"}
      BY <3>1 DEF CommandLabels
    <3> QED BY <1>1, <2>1, <2>2, <3>2, <3>3, <3>4 DEF Executing
  <2>5. CASE pc' \in CommandLabels
    BY <2>4, <2>5, InitStepCalls DEF CommandLabels
  <2> QED BY <2>3, <2>5, InitFlow
<1> QED BY <1>2, <1>3

LEMMA ScrKept == BaseInv /\ [Next]_vars => ScrPhase'
<1>1. BaseInv /\ UNCHANGED vars => ScrPhase'
  BY DEF BaseInv, ScrPhase, ScrUnderWay, BeforeScr, Executing, ResetPending, vars, driverVars, hostVars,
     cmdVars, initVars, boardVars
<1> QED BY <1>1, ScrInit, ScrLow, ScrHw DEF Next

LEMMA BaseNext == BaseInv /\ [Next]_vars => BaseInv'
BY CmdKept, TypesKept, CallingKept, ScrKept DEF BaseInv

LEMMA BaseAlways == Spec => []BaseInv
BY BaseInitInv, BaseNext, PTL DEF Spec

\* Every variable of driver, controller and card keeps its type; among others the two words
\* of the SCR are read from a FIFO that has them, and the attempts never go below 0.
THEOREM InitTypeCorrect == Spec => []TypeOK
<1>1. BaseInv => TypeOK
  BY DEF BaseInv
<1> QED BY <1>1, BaseAlways, PTL

\* sd_init with sd_clk, and the controller with the card behind it, take only steps that
\* SdCmd allows its client and its controller: what is proved of sd_cmd holds of sd_init.
THEOREM UsesSdCmdAlways == Spec => UsesSdCmd
<1>1. Init => CmdInit
  BY DEF Init
<1> QED BY <1>1, BaseInitInv, BaseNext, NextIsCmdNext, PTL DEF Spec, UsesSdCmd, CmdSpec

-----------------------------------------------------------------------------
(* What is known at each label.  Succeeded: sd_cmd has returned without an error, or the   *)
(* command of the label has completed and sd_cmd is going to do so.                        *)

Succeeded ==
  \/ cmd = "none" /\ sd_err = "OK"
  \/ /\ cmd = "wait" /\ code # "APP_CMD"
     /\ \/ "CMD_DONE" \in interrupt
        \/ wait = "int_ack" /\ "CMD_DONE" \in snap
        \/ wait = "none" /\ res = "OK"

Kind2 ==
  /\ pc = "if_cond" /\ Succeeded => card.version = 2
  /\ pc \in {"op_cond", "cid", "rel_addr", "clk_fast", "select", "line", "scr_cmd", "scr_ready",
             "scr_read", "width"} => card.version = 2

Tells(answer) == "COMPLETE" \in answer => ("CCS" \in answer <=> card.ccs)

Capacity ==
  /\ pc = "op_cond" /\ cmd = "wait" /\ Succeeded => Tells(resp)
  /\ pc = "op_cond" /\ cmd = "none" => Tells(val)
  /\ pc \in {"cid", "rel_addr", "clk_fast", "select", "line", "scr_cmd", "scr_ready",
             "scr_read", "width"} => ccs = card.ccs

Address ==
  /\ pc = "rel_addr" /\ cmd = "wait" /\ Succeeded => "RCA" \in resp
  /\ pc = "rel_addr" /\ cmd = "none" /\ Succeeded => "RCA" \in val
  /\ pc \in {"clk_fast", "select", "line", "scr_cmd", "scr_ready", "scr_read", "width"} => sd_rca

Selected ==
  /\ mode # "tran" => cardWidth = 1
  /\ pc \notin {"idle"} => width = 1
  /\ pc = "select" /\ Succeeded => mode = "tran" /\ cardWidth = 1
  /\ pc \in {"line", "scr_cmd", "scr_ready", "scr_read"}
       => mode = "tran" /\ cardWidth = 1 /\ (Executing => cmdtm \in {"APP_CMD", "SEND_SCR"})
  /\ pc \in {"scr_ready", "scr_read"} => ~Executing
  /\ pc = "width" => /\ mode = "tran" /\ (Executing => cmdtm \in {"APP_CMD", "SET_BUS_WIDTH"})
                     /\ Succeeded => cardWidth = 4

ScrKnown == (pc = "scr_read" /\ words > 0) \/ pc = "width" => sd_scr = card.scr

Established == pc = "idle" /\ ret = "OK" => ~Executing /\ InitEstablishes

InitInv == Kind2 /\ Capacity /\ Address /\ Selected /\ ScrKnown /\ Established
-----------------------------------------------------------------------------
LEMMA InitInitInv == Init => InitInv
<1> SUFFICES ASSUME Init PROVE InitInv
  OBVIOUS
<1>1. pc = "idle" /\ ret = "none" /\ cardWidth = 1 /\ width = 1
  BY DEF Init
<1> QED BY <1>1 DEF InitInv, Kind2, Capacity, Address, Selected, ScrKnown, Established

InitHyp == BaseInv /\ InitInv

\* A step of the driver brings nothing about: who succeeds after it has succeeded before.
LEMMA SucceededBefore == ASSUME BaseInv, LowStep, Succeeded' PROVE Succeeded
<1> USE DEF BaseInv, Succeeded, hostVars, waitVars, cmdVars
<1>1. CASE WaitStep
  <2>1. UNCHANGED <<cmd, code, sd_err>>
    BY <1>1 DEF WaitStep, StatusPoll, StatusExit, IntPoll, IntRead, IntAck, PollStep
  <2>2. CASE StatusPoll \/ StatusExit \/ IntPoll \/ IntRead
    BY <2>1, <2>2 DEF StatusPoll, StatusExit, IntPoll, IntRead, PollStep, OwnAnswer
  <2>3. CASE IntAck
    <3>1. CASE cmd = "none"
      BY <2>1, <3>1
    <3>2. CASE cmd = "wait"
      <4>1. wait' = "none" /\ res' = Verdict /\ interrupt' \subseteq interrupt
        BY <2>3 DEF IntAck, ClearInterrupt
      <4>2. Verdict = "OK" => "CMD_DONE" \in snap
        BY <2>3, <3>2 DEF IntAck, Verdict, OwnAnswer, TypeOK, CmdTypeOK
      <4> QED BY <2>1, <2>3, <3>2, <4>1, <4>2 DEF IntAck
    <3> QED BY <2>1, <3>1, <3>2
  <2> QED BY <1>1, <2>2, <2>3 DEF WaitStep
<1>2. CASE CmdStep
  <2>1. wait = "none"
    BY <1>2 DEF CmdStep, CmdBusy, CmdClear, CmdIssue, CmdWait, OwnAnswer
  <2>2. cmd # "none"
    BY <1>2 DEF CmdStep, CmdBusy, CmdClear, CmdIssue, CmdWait
  <2>3. CASE cmd' = "none"
    <3>1. cmd = "wait" /\ res = "OK" /\ outer = NoCommand
      BY <2>1, <2>2, <2>3, LowGives
    <3>2. code # "APP_CMD"
      BY <3>1, SendsLabel DEF Calling
    <3> QED BY <2>1, <3>1, <3>2
  <2>4. CASE cmd' = "wait"
    <3>1. CmdIssue
      BY <1>2, <2>4 DEF CmdStep, CmdBusy, CmdClear, CmdIssue, CmdWait, Return, ReturnToClient, AppRejected,
         AppAccepted
    <3> QED BY <2>4, <3>1 DEF CmdIssue, WriteCmdtm, CallInt, Poll, OwnAnswer
  <2> QED BY <2>3, <2>4
<1> QED BY <1>1, <1>2 DEF LowStep, DriverStep

LEMMA SucceededQuiet == BaseInv /\ Succeeded /\ pc \in CommandLabels => ~Executing
BY DEF BaseInv, Succeeded, Calling, OwnAnswer

LEMMA LowKeeps == InitHyp /\ LowStep => InitInv'
<1> SUFFICES ASSUME InitHyp, LowStep PROVE InitInv'
  OBVIOUS
<1> USE DEF InitHyp, InitInv
<1>1. UNCHANGED <<pc, ccs, words, ret, sd_scr, width, card, mode, cardWidth, sd_rca>>
  BY LowGives DEF initVars, boardVars, cardVars
<1>2. Succeeded' => Succeeded
  BY SucceededBefore
<1>3. resp' = resp
  BY LowGives
<1>4. cmd' = "wait" /\ Succeeded' => cmd = "wait" /\ Succeeded
  BY <1>2, LowGives DEF Succeeded
<1>5. Kind2'
  BY <1>1, <1>2 DEF Kind2
<1>6. Capacity'
  <2>1. pc = "op_cond" /\ cmd' = "none" => Tells(val)'
    <3>1. CASE cmd = "none"
      BY <1>1, <3>1, LowGives DEF Capacity, Tells
    <3>2. CASE val' = {}
      BY <3>2 DEF Tells
    <3>3. CASE cmd = "wait" /\ wait = "none" /\ res = "OK" /\ outer = NoCommand /\ val' = Value(code)
      <4>1. ASSUME pc = "op_cond" PROVE Tells(resp) /\ val' = resp \cap OpCondBits
        <5>1. code = "SEND_OP_COND"
          BY <3>3, <4>1 DEF BaseInv, Calling, Sends
        <5> QED BY <3>3, <4>1, <5>1 DEF Capacity, Succeeded, Value
      <4>2. "COMPLETE" \in OpCondBits /\ "CCS" \in OpCondBits
        BY DEF OpCondBits, OcrBits
      <4> QED BY <1>1, <4>1, <4>2 DEF Tells
    <3> QED BY <3>1, <3>2, <3>3, LowGives
  <2> QED BY <1>1, <1>3, <1>4, <2>1 DEF Capacity, Tells
<1>7. Address'
  <2>1. pc = "rel_addr" /\ cmd' = "none" /\ Succeeded' => "RCA" \in val'
    <3>1. CASE cmd = "none"
      BY <1>2, <3>1, LowGives DEF Address
    <3>2. CASE cmd # "none" /\ cmd' = "none" /\ sd_err' = "OK" /\ pc = "rel_addr"
      <4>1. cmd = "wait" /\ wait = "none" /\ res = "OK" /\ outer = NoCommand /\ val' = Value(code)
        BY <3>2, LowGives
      <4>2. code = "SEND_REL_ADDR"
        BY <3>2, <4>1 DEF BaseInv, Calling, Sends
      <4> QED BY <3>2, <4>1, <4>2 DEF Address, Succeeded, Value
    <3> QED BY <3>1, <3>2 DEF Succeeded
  <2> QED BY <1>1, <1>3, <1>4, <2>1 DEF Address
<1>8. Selected'
  <2>1. CASE UNCHANGED <<status, cmdtm>>
    BY <1>1, <1>2, <2>1 DEF Selected, Executing
  <2>2. CASE cmd = "issue" /\ cmdtm' = code
    <3>1. pc \in CommandLabels /\ (pc = "scr_cmd" => code \in {"APP_CMD", "SEND_SCR"})
          /\ (pc = "width" => code \in {"APP_CMD", "SET_BUS_WIDTH"})
      BY <2>2, SendsLabel DEF BaseInv, Calling, Sends
    <3> QED BY <1>1, <1>2, <2>2, <3>1 DEF Selected, CommandLabels
  <2> QED BY <2>1, <2>2, LowGives
<1>9. ScrKnown'
  BY <1>1 DEF ScrKnown
<1>10. Established'
  <2>1. pc = "idle" => UNCHANGED status
    BY LowGives DEF BaseInv, Calling, Sends
  <2> QED BY <1>1, <2>1 DEF Established, InitEstablishes, Executing
<1> QED BY <1>5, <1>6, <1>7, <1>8, <1>9, <1>10

\* The controller raises CMD_DONE for a command the card has taken, or for GO_IDLE.
LEMMA HwOutcome ==
  ASSUME BaseInv, HwInitStep
  PROVE  \/ UNCHANGED <<mode, cardWidth, resp>> /\ ("CMD_DONE" \in interrupt' => "CMD_DONE" \in interrupt)
         \/ Executing /\ ~Executing' /\ cmdtm = "GO_IDLE" /\ UNCHANGED <<mode, cardWidth>>
         \/ /\ Executing /\ ~Executing'
            /\ \E ready \in BOOLEAN :
                 /\ Takes(ready)
                 /\ \/ resp' = Response(ready)
                    \/ UNCHANGED resp /\ ("CMD_DONE" \in interrupt' => "CMD_DONE" \in interrupt)
<1>1. ASSUME NEW answer, Answered(answer) PROVE Executing /\ ~Executing' /\ resp' = answer
  BY <1>1 DEF Answered, EndCommand, Executing
<1>2. ASSUME NEW e \in {"CMD_TIMEOUT", "ERROR"}, Unanswered(e)
      PROVE  Executing /\ ~Executing' /\ resp' = resp /\ ("CMD_DONE" \in interrupt' => "CMD_DONE" \in interrupt)
  BY <1>2 DEF Unanswered, EndCommand, Executing
<1>3. CASE Accepts
  BY <1>1, <1>3 DEF Accepts
<1>4. CASE Illegal
  BY <1>2, <1>4 DEF Illegal
<1>5. CASE Lost
  <2>1. CASE cmdtm = "GO_IDLE"
    BY <1>1, <1>5, <2>1 DEF Lost
  <2>2. CASE cmdtm # "GO_IDLE"
    BY <1>2, <1>5, <2>2 DEF Lost
  <2> QED BY <2>1, <2>2
<1>6. CASE HwReset \/ HwClockStable
  BY <1>6 DEF HwReset, HwClockStable, ClientResets, driverVars, hostVars
<1>7. CASE ScrArrives \/ PhaseDone \/ PhaseFails
  BY <1>7 DEF ScrArrives, PhaseDone, PhaseFails, PhaseStep
<1> QED BY <1>3, <1>4, <1>5, <1>6, <1>7 DEF HwInitStep

LEMMA TakesGives ==
  ASSUME TypeOK, NEW ready \in BOOLEAN, Takes(ready), mode # "tran" => cardWidth = 1
  PROVE  /\ mode' # "tran" => cardWidth' = 1
         /\ cmdtm = "SEND_IF_COND" => card.version = 2
         /\ cmdtm = "SEND_OP_COND" => Tells(Response(ready))
         /\ cmdtm = "SEND_REL_ADDR" => "RCA" \in Response(ready)
         /\ cmdtm = "CARD_SELECT" => mode' = "tran" /\ cardWidth' = 1
         /\ mode = "tran" /\ cmdtm \in {"APP_CMD", "SEND_SCR", "SET_BUS_WIDTH"} => mode' = "tran"
         /\ cmdtm \in {"APP_CMD", "SEND_SCR"} => cardWidth' = cardWidth
         /\ cmdtm = "SET_BUS_WIDTH" => cardWidth' = 4
<1> USE DEF Takes, Executes, NextMode
<1>1. mode' # "tran" => cardWidth' = 1
  <2>1. CASE cmdtm = "GO_IDLE"
    BY <2>1
  <2>2. CASE cmdtm \in {"SEND_IF_COND", "SEND_OP_COND", "ALL_SEND_CID", "SEND_REL_ADDR", "CARD_SELECT"}
    BY <2>2
  <2>3. CASE cmdtm = "APP_CMD"
    BY <2>3
  <2>4. CASE cmdtm \notin {"GO_IDLE", "APP_CMD", "SEND_IF_COND", "SEND_OP_COND", "ALL_SEND_CID",
                           "SEND_REL_ADDR", "CARD_SELECT"}
    BY <2>4
  <2> QED BY <2>1, <2>2, <2>3, <2>4
<1>2. cmdtm = "SEND_OP_COND" => Tells(Response(ready))
  BY DEF Response, Tells
<1>3. cmdtm = "SEND_REL_ADDR" => "RCA" \in Response(ready)
  BY DEF Response
<1>4. cmdtm = "CARD_SELECT" => mode' = "tran" /\ cardWidth' = 1
  OBVIOUS
<1> QED BY <1>1, <1>2, <1>3, <1>4

LEMMA HwKeeps == InitHyp /\ HwInitStep => InitInv'
<1> SUFFICES ASSUME InitHyp, HwInitStep PROVE InitInv'
  OBVIOUS
<1> USE DEF InitHyp, InitInv
<1>1. /\ UNCHANGED <<pc, ccs, words, ret, sd_scr, width, card>>
      /\ UNCHANGED <<cmd, code, wait, res, snap, sd_err, sd_rca, val, cmdtm>> /\ (Executing' => Executing)
  BY HwKeepsDriver DEF initVars, waitVars, cmdVars
<1>2. cmd = "wait" => cmdtm = code
  BY DEF BaseInv, OwnAnswer
<1>3. TypeOK /\ (mode # "tran" => cardWidth = 1)
  BY DEF BaseInv, Selected
<1>4. pc \in CommandLabels /\ Executing => ~Succeeded
  BY SucceededQuiet
<1>5. ASSUME pc \in CommandLabels, Succeeded', ~Succeeded
      PROVE  cmd = "wait" /\ "CMD_DONE" \in interrupt' /\ "CMD_DONE" \notin interrupt /\ code # "APP_CMD"
             /\ Sends(pc, code)
  <2>1. cmd = "wait" /\ "CMD_DONE" \in interrupt' /\ "CMD_DONE" \notin interrupt /\ code # "APP_CMD"
    BY <1>1, <1>5 DEF Succeeded
  <2> QED BY <2>1 DEF BaseInv, Calling
<1>6. CASE UNCHANGED <<mode, cardWidth, resp>> /\ ("CMD_DONE" \in interrupt' => "CMD_DONE" \in interrupt)
  <2>1. Succeeded' => Succeeded
    BY <1>1, <1>6 DEF Succeeded
  <2> QED BY <1>1, <1>6, <2>1 DEF Kind2, Capacity, Address, Selected, ScrKnown, Established, InitEstablishes, Tells
<1>7. CASE Executing /\ ~Executing' /\ cmdtm = "GO_IDLE" /\ UNCHANGED <<mode, cardWidth>>
  <2>1. pc \in CommandLabels \ {"go_idle"} => ~Succeeded'
    BY <1>1, <1>2, <1>4, <1>5, <1>7 DEF Sends
  <2>2. pc = "op_cond" /\ cmd = "none" => Tells(val)'
    BY <1>1 DEF Capacity, Tells
  <2> QED BY <1>1, <1>7, <2>1, <2>2
          DEF Kind2, Capacity, Address, Selected, ScrKnown, Established, InitEstablishes, CommandLabels
<1>8. ASSUME Executing, ~Executing', NEW ready \in BOOLEAN, Takes(ready),
             \/ resp' = Response(ready)
             \/ UNCHANGED resp /\ ("CMD_DONE" \in interrupt' => "CMD_DONE" \in interrupt)
      PROVE  InitInv'
  <2>1. /\ mode' # "tran" => cardWidth' = 1
        /\ cmdtm = "SEND_IF_COND" => card.version = 2
        /\ cmdtm = "SEND_OP_COND" => Tells(Response(ready))
        /\ cmdtm = "SEND_REL_ADDR" => "RCA" \in Response(ready)
        /\ cmdtm = "CARD_SELECT" => mode' = "tran" /\ cardWidth' = 1
        /\ mode = "tran" /\ cmdtm \in {"APP_CMD", "SEND_SCR", "SET_BUS_WIDTH"} => mode' = "tran"
        /\ cmdtm \in {"APP_CMD", "SEND_SCR"} => cardWidth' = cardWidth
        /\ cmdtm = "SET_BUS_WIDTH" => cardWidth' = 4
    BY <1>3, <1>8, TakesGives
  <2>2. ASSUME pc \in CommandLabels, Succeeded'
        PROVE  cmd = "wait" /\ Sends(pc, cmdtm) /\ resp' = Response(ready)
    BY <1>2, <1>4, <1>5, <1>8, <2>2
  <2>3. Kind2'
    BY <1>1, <2>1, <2>2 DEF Kind2, CommandLabels, Sends
  <2>4. Capacity'
    <3>1. pc = "op_cond" /\ cmd = "none" => Tells(val)'
      BY <1>1 DEF Capacity, Tells
    <3>2. pc = "op_cond" /\ Succeeded' => Tells(resp)'
      BY <1>1, <2>1, <2>2 DEF CommandLabels, Sends, Tells
    <3> QED BY <1>1, <3>1, <3>2 DEF Capacity
  <2>5. Address'
    BY <1>1, <2>1, <2>2 DEF Address, CommandLabels, Sends
  <2>6. Selected'
    BY <1>1, <1>8, <2>1, <2>2 DEF Selected, CommandLabels, Sends
  <2> QED BY <1>1, <1>8, <2>3, <2>4, <2>5, <2>6 DEF ScrKnown, Established
<1> QED BY <1>6, <1>7, <1>8, HwOutcome

LateLabels == {"cid", "rel_addr", "clk_fast", "select", "line", "scr_cmd", "scr_ready", "scr_read", "width"}
AddressedLabels == LateLabels \ {"cid", "rel_addr"}
ScrLabels == {"line", "scr_cmd", "scr_ready", "scr_read"}

\* What a step of sd_init that does not leave it does to the locals, by the label it leads to.
LEMMA InitLocals ==
  ASSUME BaseInv, CallInit \/ InitStep, pc' # "idle"
  PROVE  /\ width' = width \/ (pc' = "reset" /\ width' = 1)
         /\ pc' = "op_cond" => pc = "op_cond" \/ (pc = "if_cond" /\ sd_err = "OK")
         /\ pc' \in LateLabels => \/ pc' = "cid" /\ pc = "op_cond" /\ "COMPLETE" \in val /\ ccs' = ("CCS" \in val)
                                  \/ pc \in LateLabels /\ ccs' = ccs
         /\ pc' \in AddressedLabels =>
              \/ pc \in AddressedLabels /\ sd_rca' = sd_rca
              \/ pc = "rel_addr" /\ sd_err = "OK" /\ sd_rca' = ("RCA" \in val)
         /\ pc' \in ScrLabels => pc \in ScrLabels \/ (pc = "select" /\ sd_err = "OK")
         /\ pc' = "scr_read" => \/ words' = 0 \/ sd_scr' = card.scr
                                \/ pc = "scr_read" /\ words > 0 /\ sd_scr' = sd_scr
         /\ pc' = "width" => pc = "scr_read" /\ words = 2 /\ sd_scr' = sd_scr
         /\ pc = "idle" => width' = 1
<1> USE DEF At, Go, Exit, Send, ErrorReturn, LateLabels, AddressedLabels, ScrLabels, KeepLocals, KeepBoard,
            driverVars, cmdVars
<1>1. CASE CallInit
  BY <1>1 DEF CallInit
<1>2. CASE PollReset
  BY <1>2 DEF PollReset, CallClk
<1>3. CASE ClkInhibit \/ ClkStable
  <2>1. pc \in {"clk_slow", "clk_fast"}
    BY <1>3 DEF ClkInhibit, ClkStable, BaseInv, Calling
  <2> QED BY <1>3, <2>1 DEF ClkInhibit, ClkStable, ClkFails
<1>4. CASE ClearGlobals
  BY <1>4 DEF ClearGlobals
<1>5. CASE GoIdle \/ AfterGoIdle \/ AfterIfCond
  BY <1>5 DEF GoIdle, AfterGoIdle, AfterIfCond, CallCmd
<1>6. CASE AfterOpCond
  BY <1>6 DEF AfterOpCond, CallCmd, Complete
<1>7. CASE AfterCid
  BY <1>7 DEF AfterCid, CallCmd
<1>8. CASE AfterRelAddr
  BY <1>8 DEF AfterRelAddr, CallClk
<1>9. CASE AfterClkFast
  BY <1>9 DEF AfterClkFast, CallCmd
<1>10. CASE AfterSelect
  BY <1>10 DEF AfterSelect
<1>11. CASE AfterLine
  BY <1>11 DEF AfterLine, CallCmd
<1>12. CASE AfterScrCmd
  BY <1>12 DEF AfterScrCmd
<1>13. CASE AfterScrReady
  BY <1>13 DEF AfterScrReady
<1>14. CASE ReadScr
  <2>1. words \in Nat
    BY DEF BaseInv, TypeOK
  <2>2. pc' = "scr_read" /\ pc = "scr_read" /\ UNCHANGED <<width, ccs>>
    BY <1>14 DEF ReadScr
  <2>3. sd_rca' = sd_rca
    BY <1>14 DEF ReadScr
  <2>4. words' = 0 \/ sd_scr' = card.scr \/ (words > 0 /\ sd_scr' = sd_scr)
    BY <1>14, <2>1 DEF ReadScr, ScrWord
  <2> QED BY <2>2, <2>3, <2>4
<1>15. CASE AfterScr
  BY <1>15 DEF AfterScr, CallCmd, Finish
<1>16. CASE AfterWidth
  BY <1>16 DEF AfterWidth, Finish
<1> QED BY <1>1, <1>2, <1>3, <1>4, <1>5, <1>6, <1>7, <1>8, <1>9, <1>10, <1>11, <1>12, <1>13, <1>14,
           <1>15, <1>16 DEF InitStep

\* A step that leaves sd_init with SD_OK.
LEMMA InitReturnsOk ==
  ASSUME BaseInv, CallInit \/ InitStep, pc' = "idle", ret' = "OK"
  PROVE  /\ \/ pc = "scr_read" /\ words = 2 /\ "BUS_WIDTH_4" \notin sd_scr /\ width' = width
            \/ pc = "width" /\ cmd = "none" /\ sd_err = "OK" /\ width' = 4
         /\ Finish /\ sd_rca' = sd_rca
<1> USE DEF At, Idle, Go, Exit, Send, ErrorReturn
<1>1. pc # "idle" /\ (CallInit => FALSE)
  BY DEF CallInit, InitStep, PollReset, ClkInhibit, ClkStable, ClearGlobals, GoIdle, AfterGoIdle,
     AfterIfCond, AfterOpCond, AfterCid, AfterRelAddr, AfterClkFast, AfterSelect, AfterLine, AfterScrCmd,
     AfterScrReady, ReadScr, AfterScr, AfterWidth, BaseInv, Calling
<1>2. CASE PollReset
  BY <1>1, <1>2 DEF PollReset, CallClk
<1>3. CASE ClkInhibit \/ ClkStable
  BY <1>1, <1>3 DEF ClkInhibit, ClkStable, ClkFails
<1>4. CASE ClearGlobals \/ GoIdle \/ AfterGoIdle \/ AfterIfCond \/ AfterCid \/ AfterClkFast
  BY <1>4 DEF ClearGlobals, GoIdle, AfterGoIdle, AfterIfCond, AfterCid, AfterClkFast
<1>5. CASE AfterOpCond
  BY <1>5 DEF AfterOpCond, LateError
<1>6. CASE AfterRelAddr
  BY <1>6 DEF AfterRelAddr, CallClk
<1>7. CASE AfterSelect \/ AfterLine \/ AfterScrCmd \/ AfterScrReady \/ ReadScr
  BY <1>7 DEF AfterSelect, AfterLine, AfterScrCmd, AfterScrReady, ReadScr
<1>8. CASE AfterScr
  BY <1>8 DEF AfterScr, KeepBoard, Finish, driverVars, cmdVars
<1>9. CASE AfterWidth
  BY <1>9 DEF AfterWidth, Finish, driverVars, cmdVars
<1> QED BY <1>1, <1>2, <1>3, <1>4, <1>5, <1>6, <1>7, <1>8, <1>9 DEF InitStep

LEMMA InitKeepsCard ==
  ASSUME BaseInv, CallInit \/ InitStep
  PROVE  /\ UNCHANGED <<card, mode, cardWidth, cmdtm>> /\ (Executing' <=> Executing)
         /\ pc' \in CommandLabels => cmd' = "busy"
<1>1. UNCHANGED <<card, mode, cardWidth>>
  BY DEF CallInit, InitStep, PollReset, ClkInhibit, ClkStable, ClearGlobals, GoIdle, AfterGoIdle,
     AfterIfCond, AfterOpCond, AfterCid, AfterRelAddr, AfterClkFast, AfterSelect, AfterLine, AfterScrCmd,
     AfterScrReady, ReadScr, AfterScr, AfterWidth, At, cardVars
<1>2. cmdtm' = cmdtm /\ (pc' \in CommandLabels => cmd' = "busy")
  BY InitStepCalls DEF CallCmd, hostVars, CommandLabels
<1>3. CASE ReadScr
  BY <1>1, <1>2, <1>3 DEF ReadScr, ScrWord, Executing
<1>4. CASE ~ReadScr
  BY <1>1, <1>2, <1>4, InitStepCalls DEF CallCmd, hostVars, Executing
<1> QED BY <1>3, <1>4

LEMMA InitKeeps == InitHyp /\ (CallInit \/ InitStep) => InitInv'
<1> SUFFICES ASSUME InitHyp, CallInit \/ InitStep PROVE InitInv'
  OBVIOUS
<1> USE DEF InitHyp, InitInv
<1>1. /\ UNCHANGED <<card, mode, cardWidth, cmdtm>> /\ (Executing' <=> Executing)
      /\ pc' \in CommandLabels => ~Succeeded' /\ cmd' = "busy"
  BY InitKeepsCard DEF Succeeded
<1>2. cmd = "none"
  BY InitStepCalls
<1>3. CASE pc' = "idle"
  <2>1. CASE ret' # "OK"
    BY <1>1, <1>3, <2>1 DEF Kind2, Capacity, Address, Selected, ScrKnown, Established
  <2>2. CASE ret' = "OK"
    <3>1. /\ \/ pc = "scr_read" /\ words = 2 /\ "BUS_WIDTH_4" \notin sd_scr /\ width' = width
             \/ pc = "width" /\ sd_err = "OK" /\ width' = 4
          /\ Finish /\ sd_rca' = sd_rca
      BY <1>3, <2>2, InitReturnsOk DEF InitHyp
    <3>2. sd_scr = card.scr /\ ccs = card.ccs /\ card.version = 2 /\ sd_rca /\ mode = "tran" /\ ~Executing
      BY <1>2, <3>1, SucceededQuiet DEF ScrKnown, Kind2, Capacity, Address, Selected, Succeeded, CommandLabels
    <3>3. width' = cardWidth
      BY <1>2, <3>1 DEF Selected, Succeeded
    <3>4. "CCS" \notin card.scr
      BY <3>2, CardsAssumption DEF BaseInv, TypeOK
    <3>5. ("CCS" \in sd_scr' <=> card.ccs) /\ ("SET_BLKCNT" \in sd_scr' <=> "SET_BLKCNT" \in card.scr)
      BY <3>1, <3>2, <3>4 DEF Finish
    <3>6. Established'
      BY <1>1, <3>1, <3>2, <3>3, <3>5 DEF Established, InitEstablishes
    <3> QED BY <1>1, <1>3, <3>6 DEF Kind2, Capacity, Address, Selected, ScrKnown
  <2> QED BY <2>1, <2>2
<1>4. CASE pc' # "idle"
  <2>1. Kind2'
    BY <1>1, <1>2, <1>4, InitLocals DEF Kind2, Succeeded, LateLabels, CommandLabels
  <2>2. Capacity'
    <3>1. CASE pc' = "cid" /\ pc = "op_cond" /\ "COMPLETE" \in val /\ ccs' = ("CCS" \in val)
      <4>1. "CCS" \in val <=> card.ccs
        BY <1>2, <3>1 DEF Capacity, Tells
      <4>2. card.ccs \in BOOLEAN
        BY CardsAssumption DEF BaseInv, TypeOK
      <4>3. ccs' = card.ccs
        BY <3>1, <4>1, <4>2
      <4> QED BY <1>1, <3>1, <4>3 DEF Capacity
    <3>2. CASE pc \in LateLabels /\ ccs' = ccs
      BY <1>1, <3>2 DEF Capacity, LateLabels, CommandLabels
    <3>3. CASE pc' \notin LateLabels
      BY <1>1, <3>3 DEF Capacity, LateLabels, CommandLabels
    <3> QED BY <1>4, <3>1, <3>2, <3>3, InitLocals
  <2>3. Address'
    BY <1>1, <1>2, <1>4, InitLocals DEF Address, Succeeded, LateLabels, AddressedLabels, CommandLabels
  <2>4. Selected'
    <3>1. width' = 1
      BY <1>4, InitLocals DEF Selected
    <3>2. pc' \in ScrLabels => mode = "tran" /\ cardWidth = 1 /\ (Executing => cmdtm \in {"APP_CMD", "SEND_SCR"})
      <4>1. CASE pc \in ScrLabels
        BY <4>1 DEF Selected, ScrLabels
      <4>2. CASE pc = "select" /\ sd_err = "OK"
        BY <1>2, <4>2, SucceededQuiet DEF Selected, Succeeded, CommandLabels
      <4> QED BY <1>4, <4>1, <4>2, InitLocals
    <3>3. pc' \in {"scr_ready", "scr_read"} => ~Executing
      BY <1>4, InitFlow DEF Selected, BaseInv, Calling, CommandLabels
    <3>4. pc' = "width" => mode = "tran" /\ ~Executing
      BY <1>4, InitLocals DEF Selected
    <3> QED BY <1>1, <3>1, <3>2, <3>3, <3>4 DEF Selected, ScrLabels, CommandLabels
  <2>5. ScrKnown'
    BY <1>1, <1>4, InitLocals DEF ScrKnown, BaseInv, TypeOK
  <2>6. Established'
    BY <1>4 DEF Established
  <2> QED BY <2>1, <2>2, <2>3, <2>4, <2>5, <2>6
<1> QED BY <1>3, <1>4

LEMMA InitHypNext == InitHyp /\ [Next]_vars => InitHyp'
<1>1. InitHyp /\ UNCHANGED vars => InitInv'
  BY DEF InitHyp, InitInv, Kind2, Capacity, Address, Selected, ScrKnown, Established, InitEstablishes, Succeeded,
     Tells, Executing, vars, driverVars, hostVars, waitVars, cmdVars, initVars, boardVars, cardVars
<1>2. InitHyp /\ [Next]_vars => InitInv'
  BY <1>1, InitKeeps, LowKeeps, HwKeeps DEF Next
<1> QED BY <1>2, BaseNext DEF InitHyp

\* When sd_init returns SD_OK, driver, controller and card agree on address, bus width, unit of
\* addressing and SET_BLOCKCNT: whatever was lost on the way, each of its steps goes on only with
\* what the card has really done, although two results and one error are not looked at.
THEOREM InitEstablishesAlways == Spec => []InitEstablishes
<1>1. Init => InitHyp
  BY BaseInitInv, InitInitInv DEF InitHyp
<1>2. InitHyp => InitEstablishes
  BY DEF InitHyp, InitInv, Established, InitEstablishes
<1> QED BY <1>1, <1>2, InitHypNext, PTL DEF Spec
=============================================================================
