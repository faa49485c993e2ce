------------------------------- MODULE SdInit -------------------------------
(***************************************************************************)
(* sd_init and sd_clk (emmc/sd.c): reset of the controller, identification *)
(* of the card, choice of bus width and of the flags that sd_readblock and *)
(* sd_writeblock rely on.  sd_init may be called again at any time after   *)
(* it has returned, as the constructor of the block device does.           *)
(*                                                                         *)
(* The card is the state machine of the identification: idle, ready,       *)
(* ident, stby, tran.  A command it may not execute gets no answer; the    *)
(* controller reports that as CMD_TIMEOUT, except for GO_IDLE, which has   *)
(* no answer.  A card of version 1 does not know SEND_IF_COND, and only    *)
(* its SCR has the bit that the driver uses for CCS.                       *)
(***************************************************************************)
EXTENDS SdCmd

CONSTANTS
  MaxTries,   \* ACMD41 attempts (6)
  Cards,      \* kinds of card
  MaxFaults   \* faults of the hardware in a behaviour

ASSUME BoundsAssumption == MaxTries \in Nat \ {0} /\ MaxFaults \in Nat
ASSUME CardsAssumption ==
  \A k \in Cards : /\ DOMAIN k = {"version", "ccs", "scr"}
                   /\ k.version \in {1, 2} /\ k.ccs \in BOOLEAN
                   /\ k.scr \subseteq {"BUS_WIDTH_4", "SET_BLKCNT", "CCS"}
                   /\ "CCS" \in k.scr <=> k.version = 1
                   /\ k.version = 1 => ~k.ccs

\* SdCmd is given no fewer commands, answers and events than occur here.
ASSUME InterfaceAssumption ==
  /\ {"GO_IDLE", "SEND_IF_COND", "SEND_OP_COND", "ALL_SEND_CID", "SEND_REL_ADDR",
      "CARD_SELECT", "SEND_SCR", "SET_BUS_WIDTH"} \subseteq Codes
  /\ 0 \in Args
  /\ {{}, {"ECHO"}, {"APP_CMD"}, {"RCA"}, {"VOLTAGE"}, {"VOLTAGE", "COMPLETE"},
      {"VOLTAGE", "COMPLETE", "CCS"}} \subseteq Responses
  /\ {"DAT_INHIBIT", "READ_AVAILABLE"} \subseteq Lines
  /\ {"DATA_DONE", "READ_RDY", "DATA_TIMEOUT", "ERROR"} \subseteq Events

VARIABLES
  pc, try, r, ccs, words, ret,   \* sd_init: where it is, its locals, what it returned
  clk, tick,                     \* sd_clk: where it is; the countdown of a loop of either
  sd_scr,                        \* the flags of sd_scr[0]
  control1, width, clock,        \* CONTROL1, the bus width in CONTROL0, the card clock
  phase, fifo,                   \* the data phase of SEND_SCR and the words in the FIFO
  card, mode, app, cardWidth,    \* the card: kind, state, CMD_APP_CMD taken, bus width
  faults

initVars == <<pc, try, r, ccs, words, ret, clk, tick, sd_scr>>
boardVars == <<control1, width, clock, phase, fifo>>
cardVars == <<card, mode, app, cardWidth>>
vars == <<driverVars, initVars, boardVars, cardVars, faults>>

TypeOK ==
  /\ CmdTypeOK
  /\ pc \in {"idle", "reset", "clk_slow", "go_idle", "if_cond", "op_cond", "cid", "rel_addr",
             "first", "clk_fast", "select", "line", "scr_cmd", "scr_ready", "scr_read", "width"}
  /\ try \in 0 .. MaxTries /\ r \subseteq RespBits /\ ccs \in BOOLEAN /\ words \in 0 .. 2
  /\ ret \in Errors \cup {"none"}
  /\ clk \in {"none", "inhibit", "stable"} /\ tick \in 0 .. MaxPolls
  /\ sd_scr \subseteq {"BUS_WIDTH_4", "SET_BLKCNT", "CCS"}
  /\ control1 \subseteq {"SRST_HC", "CLK_EN", "CLK_STABLE"}
  /\ width \in {1, 4} /\ clock \in {"off", "slow", "fast"}
  /\ phase \in {"none", "waiting", "sent"} /\ fifo \in 0 .. 2
  /\ card \in Cards /\ mode \in {"idle", "ready", "ident", "stby", "tran"}
  /\ app \in BOOLEAN /\ cardWidth \in {1, 4}
  /\ faults \in 0 .. MaxFaults

Init ==
  /\ CmdInit /\ ~sd_rca
  /\ pc = "idle" /\ try = 0 /\ r = {} /\ ccs = FALSE /\ words = 0 /\ ret = "none"
  /\ clk = "none" /\ tick = 0 /\ sd_scr = {}
  /\ control1 = {} /\ width = 1 /\ clock = "off" /\ phase = "none" /\ fifo = 0
  /\ card \in Cards /\ mode = "idle" /\ app = FALSE /\ cardWidth = 1
  /\ faults = 0

-----------------------------------------------------------------------------
(* sd_init. *)

At(label) == pc = label /\ Idle /\ clk = "none" /\ UNCHANGED <<cardVars, phase, faults>>

Go(label) == pc' = label /\ UNCHANGED <<ccs, ret>>

Exit(e) == pc' = "idle" /\ ret' = e /\ UNCHANGED ccs

\* What the rest of a step leaves alone.
KeepLocals == UNCHANGED <<try, r, words, clk, tick, sd_scr>>
KeepBoard  == UNCHANGED <<control1, width, clock, fifo>>

\* if (sd_err) return sd_err
ErrorReturn == sd_err # "OK" /\ Exit(sd_err) /\ UNCHANGED driverVars /\ KeepLocals /\ KeepBoard

\* sd_cmd(c, ...); the step after it is at label.
Send(c, label) == CallCmd(c, 0) /\ Go(label)

CallClk(label) == clk' = "inhibit" /\ tick' = MaxPolls /\ Go(label)

\* CONTROL0 = 0; CONTROL1 |= C1_SRST_HC
CallInit ==
  /\ At("idle")
  /\ pc' = "reset" /\ ret' = "none" /\ ccs' = FALSE
  /\ width' = 1
  /\ control1' = control1 \cup {"SRST_HC"}
  /\ tick' = MaxPolls
  /\ UNCHANGED <<driverVars, try, r, words, clk, sd_scr, clock, fifo>>

\* Mutant: a loop without a count.
AgainForever(again) == again /\ UNCHANGED tick

\* while (again && cnt--) goes round once more.
Again(again) == again /\ tick > 0 /\ tick' = tick - 1
\* It is left with a count above 0, or it counts as a timeout.
InTime(again) == ~again /\ tick > 0
TimedOut == tick = 0

ResetPending == "SRST_HC" \in control1

PollReset ==
  /\ At("reset")
  /\ \/ Again(ResetPending) /\ UNCHANGED <<pc, ret, ccs, clk>>
     \/ TimedOut /\ Exit("ERROR") /\ UNCHANGED <<clk, tick>>
     \/ InTime(ResetPending) /\ CallClk("clk_slow")
  /\ UNCHANGED <<driverVars, try, r, words, sd_scr>> /\ KeepBoard

\* sd_clk: wait for both lines, stop the clock, set the divisor, start it again
\* and wait until it is stable.
Inhibited == status \cap {"CMD_INHIBIT", "DAT_INHIBIT"} # {}
Unstable  == "CLK_STABLE" \notin control1

ClkFails ==
  /\ TimedOut
  /\ clk' = "none" /\ Exit("ERROR")
  /\ UNCHANGED <<tick, control1, clock>>

ClkInhibit ==
  /\ clk = "inhibit"
  /\ \/ Again(Inhibited) /\ UNCHANGED <<pc, ret, ccs, clk, control1, clock>>
     \/ ClkFails
     \/ /\ InTime(Inhibited)
        /\ control1' = (control1 \ {"CLK_STABLE"}) \cup {"CLK_EN"}
        /\ clock' = IF pc = "clk_slow" THEN "slow" ELSE "fast"
        /\ clk' = "stable" /\ tick' = MaxPolls
        /\ UNCHANGED <<pc, ret, ccs>>
  /\ UNCHANGED <<driverVars, try, r, words, sd_scr, width, phase, fifo, cardVars, faults>>

ClkStable ==
  /\ clk = "stable"
  /\ \/ Again(Unstable) /\ UNCHANGED <<pc, ret, ccs, clk, control1, clock>>
     \/ ClkFails
     \/ InTime(Unstable) /\ clk' = "none" /\ UNCHANGED <<pc, ret, ccs, tick, control1, clock>>
  /\ UNCHANGED <<driverVars, try, r, words, sd_scr, width, phase, fifo, cardVars, faults>>

\* sd_clk(400000) has returned: clear the globals and send the first command.
ClearGlobals ==
  /\ At("clk_slow")
  /\ sd_scr' = {} /\ sd_rca' = FALSE /\ sd_err' = "OK"
  /\ Go("first")
  /\ UNCHANGED <<hostVars, waitVars, cmd, code, arg, outer, val, try, r, words, clk, tick>>
  /\ KeepBoard

\* Mutant: the command is written past sd_cmd.
GoIdleDirect ==
  /\ At("first")
  /\ WriteCmdtm("GO_IDLE", 0)
  /\ Go("go_idle")
  /\ UNCHANGED <<waitVars, cmdVars>> /\ KeepLocals /\ KeepBoard

GoIdle == At("first") /\ Send("GO_IDLE", "go_idle") /\ KeepLocals /\ KeepBoard

AfterGoIdle ==
  /\ At("go_idle")
  /\ ErrorReturn \/ (sd_err = "OK" /\ Send("SEND_IF_COND", "if_cond") /\ KeepLocals /\ KeepBoard)

\* Mutant: the error of SEND_IF_COND is not looked at.
AfterIfCondUnchecked ==
  /\ At("if_cond")
  /\ try' = MaxTries - 1 /\ r' = {}
  /\ Send("SEND_OP_COND", "op_cond")
  /\ UNCHANGED <<words, clk, tick, sd_scr>> /\ KeepBoard

\* The value of SEND_IF_COND, whether the card echoed the argument, is not used.
AfterIfCond ==
  /\ At("if_cond")
  /\ \/ ErrorReturn
     \/ /\ sd_err = "OK"
        /\ try' = MaxTries - 1 /\ r' = {}
        /\ Send("SEND_OP_COND", "op_cond")
        /\ UNCHANGED <<words, clk, tick, sd_scr>> /\ KeepBoard

\* The loop over CMD_SEND_OP_COND.  With the prints commented out, the test of
\* sd_err is only reached when all three fields of the OCR are set.
Complete == "COMPLETE" \in val

LateError ==
  {"COMPLETE", "VOLTAGE", "CCS"} \subseteq val /\ sd_err \notin {"OK", "TIMEOUT"}

AfterOpCond ==
  /\ At("op_cond")
  /\ r' = val
  /\ \/ LateError /\ Exit(sd_err) /\ UNCHANGED <<try, driverVars>>
     \/ /\ ~Complete /\ try > 0
        /\ try' = try - 1
        /\ Send("SEND_OP_COND", "op_cond")
     \/ ~LateError /\ try = 0 /\ Exit("TIMEOUT") /\ UNCHANGED <<try, driverVars>>
     \/ /\ ~LateError /\ Complete /\ try > 0 /\ "VOLTAGE" \notin val
        /\ Exit("ERROR") /\ UNCHANGED <<try, driverVars>>
     \/ /\ ~LateError /\ Complete /\ try > 0 /\ "VOLTAGE" \in val
        /\ ccs' = ("CCS" \in val)
        /\ CallCmd("ALL_SEND_CID", 0)
        /\ pc' = "cid" /\ UNCHANGED <<ret, try>>
  /\ UNCHANGED <<words, clk, tick, sd_scr>> /\ KeepBoard

\* Whether ALL_SEND_CID succeeded is not looked at.
AfterCid == At("cid") /\ Send("SEND_REL_ADDR", "rel_addr") /\ KeepLocals /\ KeepBoard

AfterRelAddr ==
  /\ At("rel_addr")
  /\ sd_rca' = ("RCA" \in val)
  /\ \/ sd_err # "OK" /\ Exit(sd_err) /\ UNCHANGED <<clk, tick>>
     \/ sd_err = "OK" /\ CallClk("clk_fast")
  /\ UNCHANGED <<hostVars, waitVars, cmd, code, arg, outer, val, sd_err, try, r, words, sd_scr>>
  /\ KeepBoard

AfterClkFast == At("clk_fast") /\ Send("CARD_SELECT", "select") /\ KeepLocals /\ KeepBoard

AfterSelect ==
  /\ At("select")
  /\ \/ ErrorReturn
     \/ /\ sd_err = "OK"
        /\ CallStatus({"DAT_INHIBIT"}) /\ Go("line")
        /\ UNCHANGED <<hostVars, cmdVars>> /\ KeepLocals /\ KeepBoard

AfterLine ==
  /\ At("line")
  /\ \/ res # "OK" /\ Exit("TIMEOUT") /\ UNCHANGED driverVars
     \/ res = "OK" /\ Send("SEND_SCR", "scr_cmd")
  /\ KeepLocals /\ KeepBoard

AfterScrCmd ==
  /\ At("scr_cmd")
  /\ \/ ErrorReturn
     \/ /\ sd_err = "OK"
        /\ CallInt({"READ_RDY"}) /\ Go("scr_ready")
        /\ UNCHANGED <<hostVars, cmdVars>> /\ KeepLocals /\ KeepBoard

AfterScrReady ==
  /\ At("scr_ready")
  /\ \/ res # "OK" /\ Exit("TIMEOUT") /\ UNCHANGED words
     \/ res = "OK" /\ words' = 0 /\ Go("scr_read")
  /\ UNCHANGED <<driverVars, try, r, clk, tick, sd_scr>> /\ KeepBoard

\* while (r < 2 && cnt): cnt is not decremented, so that the loop goes round
\* unchanged for as long as the FIFO has nothing.  The first word has the flags.
ScrWord ==
  /\ "READ_AVAILABLE" \in status
  /\ words' = words + 1 /\ fifo' = fifo - 1
  /\ sd_scr' = IF words = 0 THEN card.scr ELSE sd_scr
  /\ status' = IF fifo = 1 THEN status \ {"READ_AVAILABLE"} ELSE status

ReadScr ==
  /\ At("scr_read") /\ words < 2
  /\ ScrWord \/ ("READ_AVAILABLE" \notin status /\ UNCHANGED <<words, fifo, sd_scr, status>>)
  /\ Go("scr_read")
  /\ UNCHANGED <<interrupt, cmdtm, arg1, resp, waitVars, cmdVars, try, r, clk, tick,
                 control1, width, clock>>

\* The last lines.  Clearing SCR_SUPP_CCS has become the body of the two tests
\* before it, whose prints are commented out.
Finish ==
  /\ sd_scr' = (IF "SET_BLKCNT" \in sd_scr /\ ccs THEN sd_scr \ {"CCS"} ELSE sd_scr)
               \cup (IF ccs THEN {"CCS"} ELSE {})
  /\ Exit("OK")
  /\ UNCHANGED driverVars

AfterScr ==
  /\ At("scr_read") /\ words = 2
  /\ \/ "BUS_WIDTH_4" \in sd_scr /\ Send("SET_BUS_WIDTH", "width") /\ UNCHANGED sd_scr
     \/ "BUS_WIDTH_4" \notin sd_scr /\ Finish
  /\ UNCHANGED <<try, r, words, clk, tick>> /\ KeepBoard

AfterWidth ==
  /\ At("width")
  /\ \/ ErrorReturn
     \/ sd_err = "OK" /\ width' = 4 /\ Finish
        /\ UNCHANGED <<try, r, words, clk, tick, control1, clock, fifo>>

InitStep ==
  \/ PollReset \/ ClkInhibit \/ ClkStable \/ ClearGlobals \/ GoIdle \/ AfterGoIdle \/ AfterIfCond
  \/ AfterOpCond \/ AfterCid \/ AfterRelAddr \/ AfterClkFast \/ AfterSelect \/ AfterLine
  \/ AfterScrCmd \/ AfterScrReady \/ ReadScr \/ AfterScr \/ AfterWidth

-----------------------------------------------------------------------------
(* The controller and the card. *)

KeepDriver == UNCHANGED <<initVars, width, clock, card>>

\* The controller has reset itself: all its state is cleared.
HwReset ==
  /\ ResetPending /\ pc \in {"reset", "idle"}
  /\ ClientResets
  /\ control1' = {} /\ phase' = "none" /\ fifo' = 0
  /\ KeepDriver /\ UNCHANGED <<mode, app, cardWidth, faults>>

HwClockStable ==
  /\ "CLK_EN" \in control1 /\ Unstable
  /\ control1' = control1 \cup {"CLK_STABLE"}
  /\ KeepDriver /\ UNCHANGED <<driverVars, phase, fifo, mode, app, cardWidth, faults>>

\* The states in which the card executes the command in CMDTM, the state it goes
\* to, and its answer.  CMD_APP_CMD carries the address the driver has.
Executes ==
  CASE cmdtm = "GO_IDLE" -> TRUE
    [] cmdtm = "APP_CMD" -> IF sd_rca THEN mode \in {"stby", "tran"} ELSE mode = "idle"
    [] cmdtm = "SEND_IF_COND" -> mode = "idle" /\ card.version = 2
    [] cmdtm = "SEND_OP_COND" -> mode = "idle" /\ app
    [] cmdtm = "ALL_SEND_CID" -> mode = "ready"
    [] cmdtm = "SEND_REL_ADDR" -> mode \in {"ident", "stby"}
    [] cmdtm = "CARD_SELECT" -> mode = "stby"
    [] OTHER -> mode = "tran" /\ app

NextMode ==
  CASE cmdtm = "GO_IDLE" -> "idle"
    [] cmdtm = "ALL_SEND_CID" -> "ident"
    [] cmdtm = "SEND_REL_ADDR" -> "stby"
    [] cmdtm = "CARD_SELECT" -> "tran"
    [] OTHER -> mode

\* A card answers SEND_OP_COND without COMPLETE until it has powered up.
Takes(ready) ==
  /\ Executes
  /\ mode' = IF cmdtm = "SEND_OP_COND" /\ ready THEN "ready" ELSE NextMode
  /\ app' = (cmdtm = "APP_CMD")
  /\ cardWidth' = CASE cmdtm = "GO_IDLE" -> 1
                    [] cmdtm = "SET_BUS_WIDTH" -> 4
                    [] OTHER -> cardWidth

Response(ready) ==
  CASE cmdtm = "APP_CMD" -> {"APP_CMD"}
    [] cmdtm = "SEND_IF_COND" -> {"ECHO"}
    [] cmdtm = "SEND_REL_ADDR" -> {"RCA"}
    [] cmdtm = "SEND_OP_COND" ->
         {"VOLTAGE"} \cup (IF ready THEN {"COMPLETE"} ELSE {})
                    \cup (IF ready /\ card.ccs THEN {"CCS"} ELSE {})
    [] OTHER -> {}

Answered(response) ==
  /\ EndCommand({"CMD_DONE"}, response)
  /\ status' = status \ {"CMD_INHIBIT"}
  /\ phase' = IF cmdtm = "SEND_SCR" THEN "waiting" ELSE phase
  /\ KeepDriver /\ UNCHANGED <<control1, fifo>>

Unanswered(e) ==
  /\ EndCommand({e}, resp)
  /\ status' = status \ ({"CMD_INHIBIT"} \cup (IF phase = "none" THEN {"DAT_INHIBIT"} ELSE {}))
  /\ KeepDriver /\ UNCHANGED <<control1, phase, fifo>>

Accepts ==
  /\ \E ready \in BOOLEAN : Takes(ready) /\ Answered(Response(ready))
  /\ UNCHANGED faults

Illegal ==
  /\ ~Executes /\ Unanswered("CMD_TIMEOUT")
  /\ UNCHANGED <<mode, app, cardWidth, faults>>

\* The command or its answer is lost; of GO_IDLE the controller knows neither.
Lost ==
  /\ faults < MaxFaults /\ faults' = faults + 1
  /\ IF cmdtm = "GO_IDLE"
     THEN Answered({}) /\ UNCHANGED <<mode, app, cardWidth>>
     ELSE /\ Unanswered("CMD_TIMEOUT") \/ Unanswered("ERROR")
          /\ (\E ready \in BOOLEAN : Takes(ready)) \/ UNCHANGED <<mode, app, cardWidth>>

\* The SCR, two words, arrives in the FIFO; its phase ends, or breaks off and
\* takes the words that have not been read with it.
PhaseStep(events, lines) ==
  /\ interrupt' = interrupt \cup events /\ status' = lines
  /\ UNCHANGED <<cmdtm, arg1, resp, waitVars, cmdVars, control1, mode, app, cardWidth>>
  /\ KeepDriver

ScrArrives ==
  /\ phase = "waiting"
  /\ phase' = "sent" /\ fifo' = 2
  /\ PhaseStep({"READ_RDY"}, status \cup {"READ_AVAILABLE"})
  /\ UNCHANGED faults

PhaseDone ==
  /\ phase = "sent" /\ fifo = 0
  /\ PhaseStep({"DATA_DONE"}, status \ {"DAT_INHIBIT"})
  /\ phase' = "none" /\ UNCHANGED <<fifo, faults>>

PhaseFails ==
  /\ phase # "none"
  /\ faults < MaxFaults /\ faults' = faults + 1
  /\ \E e \in {"DATA_TIMEOUT", "ERROR"} :
       PhaseStep({e}, status \ {"DAT_INHIBIT", "READ_AVAILABLE"})
  /\ phase' = "none" /\ fifo' = 0

HwInitStep ==
  HwReset \/ HwClockStable \/ Accepts \/ Illegal \/ Lost \/ ScrArrives \/ PhaseDone \/ PhaseFails

-----------------------------------------------------------------------------
LowStep == DriverStep /\ UNCHANGED <<initVars, boardVars, cardVars, faults>>

Next == CallInit \/ InitStep \/ LowStep \/ HwInitStep

Spec == Init /\ [][Next]_vars

\* The driver's core runs; the hardware may stop at any time.
FairSpec == Spec /\ WF_vars(LowStep) /\ WF_vars(InitStep)

-----------------------------------------------------------------------------
(* Properties. *)

\* When sd_init returns SD_OK, driver, controller and card agree on all that
\* sd_readblock and sd_writeblock rely on: the card is selected and has an
\* address, both ends use the same number of data lines, and the flags say how
\* the card is addressed and whether it knows SET_BLOCKCNT.
InitEstablishes ==
  pc = "idle" /\ ret = "OK" =>
    /\ mode = "tran" /\ sd_rca
    /\ width = cardWidth
    /\ "CCS" \in sd_scr <=> card.ccs
    /\ "SET_BLKCNT" \in sd_scr <=> "SET_BLKCNT" \in card.scr

\* Every call of sd_init returns, although the hardware may stop answering.
InitReturns == pc # "idle" ~> pc = "idle"

\* The loop that reads the SCR waits for a word that was lost with its data phase.
Starved == pc = "scr_read" /\ words < 2 /\ phase = "none" /\ fifo = 0

\* Every other loop and wait of sd_init ends: a call returns unless it starves.
InitReturnsOrStarves == pc # "idle" ~> pc = "idle" \/ Starved

\* sd_init uses sd_status, sd_int and sd_cmd as SdCmd lets any client.
UsesSdCmd == CmdSpec
=============================================================================
