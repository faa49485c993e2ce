------------------------------ MODULE SdSystem ------------------------------
(***************************************************************************)
(* The SD driver with its two clients: main of uart_and_sd, which          *)
(* initialises the card and writes one block, and the block device         *)
(* Rpi_Emmc of emmc.cpp, every constructor of which calls sd_init and      *)
(* whose read_sync and write_sync call the driver.  Neither looks at what  *)
(* sd_init returned, so that transfers also start from what a failed       *)
(* sd_init leaves behind.  main is linked with the driver of uart_and_sd,  *)
(* the device with the copy of emmc, which differs in two places of        *)
(* sd_init.                                                                *)
(*                                                                         *)
(* One call of sd_cmd, sd_status or sd_int with the test of its result is  *)
(* one step; SdCmd has their inside, SdTransfer the races within a data    *)
(* phase.  Here the card keeps its state across failures and calls.  A     *)
(* fault loses a command, its answer or a data phase.                      *)
(***************************************************************************)
EXTENDS Integers, FiniteSets

CONSTANTS
  Cards,         \* kinds of card, each with the version of the controller it is in
  MaxTries,      \* ACMD41 attempts (6)
  NumBlocks,     \* blocks of the card
  MaxNum,        \* the largest count of a read
  BlockLen,      \* bytes of a block (512)
  CountSize,     \* values of the block count field of BLKSIZECNT (2^16)
  Data,          \* what a block can hold
  MaxFaults      \* faults of the hardware in a behaviour

Blocks == 0 .. NumBlocks - 1
BaseClock == 41666666
SlowClock == 400000     \* Hz, while the card is identified
FastClock == 25000000
HostSpecV2 == 1
Unlimited == MaxNum + 1
Garbage == "garbage"    \* the bytes malloc returned
Unknown == "unknown"    \* a block after a write that failed

ASSUME SizesAssumption ==
  /\ NumBlocks \in Nat \ {0} /\ MaxNum \in 1 .. NumBlocks /\ BlockLen \in Nat \ {0}
  /\ CountSize \in Nat \ {0, 1} /\ MaxTries \in Nat \ {0} /\ MaxFaults \in Nat
\* The bit that sd.c takes for high capacity is SD_SPEC of the SCR, which is set for
\* cards of version 1 only.
ASSUME CardsAssumption ==
  \A k \in Cards : /\ DOMAIN k = {"version", "ccs", "scr", "host"}
                   /\ k.host \in 0 .. 2 /\ k.version \in {1, 2} /\ k.ccs \in BOOLEAN
                   /\ k.scr \subseteq {"BUS_WIDTH_4", "SET_BLKCNT", "CCS"}
                   /\ "CCS" \in k.scr => k.version = 1

VARIABLES
  program,                     \* which client runs
  pc, op, ret,                 \* the driver: where it is, the function called last, its result
  lba, num, c, buf,            \* the arguments and locals of a transfer
  try, ccs,                    \* locals of sd_init
  sd_scr, sd_rca, sd_err,      \* globals
  clock, width,                \* the card clock in Hz, 0 when off; the bus width
  blksizecnt, left, latched,   \* block count; blocks left in the phase; latched error bit
  card, disk, sd,              \* the card: kind, blocks, state
  stored, initOk, began,       \* what was written last; did sd_init succeed; faults before it
  faults

initVars == <<try, ccs, sd_scr, sd_rca, clock, width>>
callVars == <<lba, num, c, buf>>
hostVars == <<blksizecnt, left, latched>>
historyVars == <<stored, initOk, began>>
fixedVars == <<program, card>>
vars == <<fixedVars, pc, op, ret, callVars, initVars, sd_err, hostVars, disk, sd, historyVars, faults>>

Errors == {"OK", "TIMEOUT", "ERROR"}
CardStates == [mode : {"idle", "ready", "ident", "stby", "tran", "data", "rcv"},
               app : BOOLEAN, width : {1, 4},
               pos : 0 .. NumBlocks, limit : 0 .. Unlimited, preset : 0 .. Unlimited]
PowerUp == [mode |-> "idle", app |-> FALSE, width |-> 1, pos |-> 0, limit |-> 0,
            preset |-> Unlimited]
NoBuffer == [k \in 0 .. MaxNum - 1 |-> Garbage]

Labels == {"caller", "done", "reset", "clk_slow", "go_idle", "if_cond", "op_cond", "cid",
           "rel_addr", "clk_fast", "select", "line", "scr_cmd", "scr_ready", "scr_read", "starved",
           "width", "status", "preset", "start", "loop", "data", "flush", "stop"}

TypeOK ==
  /\ program \in {"main", "device"} /\ pc \in Labels
  /\ op \in {"none", "init", "read", "write"} /\ ret \in Errors \cup {"none", "0", "bytes"}
  /\ lba \in Blocks /\ num \in 1 .. MaxNum /\ c \in 0 .. num
  /\ buf \in [0 .. MaxNum - 1 -> Data \cup {Garbage}]
  /\ try \in 0 .. MaxTries /\ ccs \in BOOLEAN
  /\ sd_scr \subseteq {"BUS_WIDTH_4", "SET_BLKCNT", "CCS"}
  /\ sd_rca \in BOOLEAN /\ sd_err \in Errors
  /\ clock \in 0 .. BaseClock /\ width \in {1, 4}
  /\ blksizecnt \in 0 .. CountSize - 1 /\ left \in 0 .. CountSize - 1
  /\ latched \in {"none", "TIMEOUT", "ERROR"}
  /\ card \in Cards /\ disk \in [Blocks -> Data] /\ sd \in CardStates
  /\ stored \in [Blocks -> Data \cup {Unknown}] /\ initOk \in BOOLEAN
  /\ began \in 0 .. MaxFaults /\ faults \in 0 .. MaxFaults

Init ==
  /\ program \in {"main", "device"} /\ card \in Cards
  /\ pc = "caller" /\ op = "none" /\ ret = "none"
  /\ lba = 0 /\ num = 1 /\ c = 0 /\ buf = NoBuffer
  /\ try = 0 /\ ccs = FALSE /\ sd_scr = {} /\ sd_rca = FALSE /\ sd_err = "OK"
  /\ clock = 0 /\ width = 1
  /\ blksizecnt = 0 /\ left = 0 /\ latched = "none"
  /\ disk \in [Blocks -> Data] /\ sd = PowerUp
  /\ stored = disk /\ initOk = FALSE /\ began = 0 /\ faults = 0

-----------------------------------------------------------------------------
(* The card. *)

ReadCommands == {"READ_SINGLE", "READ_MULTI", "SEND_SCR"}
DataCommands == {"READ_SINGLE", "READ_MULTI", "WRITE_SINGLE", "WRITE_MULTI"}
AppCommands  == {"SEND_OP_COND", "SEND_SCR", "SET_BUS_WIDTH"}

\* A card of high capacity is addressed by blocks, one of standard capacity by bytes.
Place(a) == IF card.ccs THEN a ELSE a \div BlockLen
OnCard(a) == Place(a) \in Blocks /\ (card.ccs \/ a % BlockLen = 0)

\* The card may execute command k with argument a in state s.
Executes(s, k, a) ==
  CASE k = "GO_IDLE" -> TRUE
    [] k = "APP_CMD" -> IF a THEN s.mode \in {"stby", "tran", "data", "rcv"} ELSE s.mode = "idle"
    [] k = "SEND_IF_COND" -> s.mode = "idle" /\ card.version = 2
    [] k = "SEND_OP_COND" -> s.mode = "idle" /\ s.app
    [] k = "ALL_SEND_CID" -> s.mode = "ready"
    [] k = "SEND_REL_ADDR" -> s.mode \in {"ident", "stby"}
    [] k = "CARD_SELECT" -> s.mode = "stby" /\ a
    [] k = "STOP_TRANS" -> s.mode \in {"data", "rcv"}
    [] k \in {"SEND_SCR", "SET_BUS_WIDTH"} -> s.mode = "tran" /\ s.app
    [] OTHER -> s.mode = "tran"

\* Its state afterwards; an address that is not on the card starts no transfer.
After(s, k, a) ==
  LET t == [s EXCEPT !.app = (k = "APP_CMD")] IN
  CASE k = "GO_IDLE" -> PowerUp
    [] k = "ALL_SEND_CID" -> [t EXCEPT !.mode = "ident"]
    [] k = "SEND_REL_ADDR" -> [t EXCEPT !.mode = "stby"]
    [] k \in {"CARD_SELECT", "STOP_TRANS"} -> [t EXCEPT !.mode = "tran"]
    [] k = "SET_BUS_WIDTH" -> [t EXCEPT !.width = 4]
    [] k = "SET_BLOCKCNT" -> [t EXCEPT !.preset = a]
    [] k \in DataCommands /\ OnCard(a) ->
         [t EXCEPT !.mode = IF k \in ReadCommands THEN "data" ELSE "rcv", !.pos = Place(a),
                   !.limit = IF k \in {"READ_MULTI", "WRITE_MULTI"} THEN s.preset ELSE 1,
                   !.preset = Unlimited]
    [] OTHER -> t

Bits(k, a) ==
  CASE k = "APP_CMD" -> {"APP_CMD"}
    [] k = "SEND_REL_ADDR" -> {"RCA"}
    [] k \in DataCommands /\ ~OnCard(a) -> {"ERRORS"}
    [] OTHER -> {}

Powered(s) == [s EXCEPT !.mode = "ready", !.app = FALSE]

\* What the card may make of it.  ACMD41 is answered without COMPLETE until the
\* card has powered up.
Taken(s, k, a) ==
  IF k # "SEND_OP_COND" THEN {[sd |-> After(s, k, a), bits |-> Bits(k, a)]}
  ELSE {[sd |-> After(s, k, a), bits |-> {"VOLTAGE"}],
        [sd |-> Powered(s),
         bits |-> {"VOLTAGE", "COMPLETE"} \cup (IF card.ccs THEN {"CCS"} ELSE {})]}

-----------------------------------------------------------------------------
(* sd_cmd. *)

Outcome(s, e, b, n) == [sd |-> s, err |-> e, bits |-> b, cost |-> n]

\* What one command can come to: its answer; none, because the card may not
\* execute it; or a fault, that loses the command or the answer.  A latched error
\* lets the wait for CMD_INHIBIT fail and stays.  GO_IDLE has no answer to lose.
Outcomes(s, k, a) ==
  LET moves == IF Executes(s, k, a) THEN Taken(s, k, a) ELSE {} IN
  IF latched # "none" THEN {Outcome(s, "TIMEOUT", {}, 0)}
  ELSE {Outcome(t.sd, "OK", t.bits, 0) : t \in moves}
       \cup (IF moves = {} THEN {Outcome(s, "TIMEOUT", {}, 0)} ELSE {})
       \cup (IF k = "GO_IDLE" THEN {Outcome(s, "OK", {}, 1)}
             ELSE {Outcome(t, e, {}, 1) : t \in {s} \cup {m.sd : m \in moves},
                                          e \in {"TIMEOUT", "ERROR"}})

\* sd_cmd(k, a).  An application command is sent after CMD_APP_CMD; the error of
\* that stays in sd_err, and only with an address assigned is its answer looked at.
CmdOutcomes(k, a) ==
  IF k \notin AppCommands THEN Outcomes(sd, k, a)
  ELSE UNION {IF sd_rca /\ "APP_CMD" \notin p.bits
              THEN {Outcome(p.sd, "ERROR", {}, p.cost)}
              ELSE {Outcome(o.sd, IF o.err = "OK" THEN p.err ELSE o.err, o.bits, p.cost + o.cost) :
                      o \in Outcomes(p.sd, k, a)} :
              p \in Outcomes(sd, "APP_CMD", sd_rca)}

\* sd_cmd(k, a) came to o.
Sends(k, a, o) ==
  /\ o \in CmdOutcomes(k, a)
  /\ faults' = faults + o.cost /\ faults' <= MaxFaults
  /\ sd' = o.sd /\ sd_err' = o.err

Fault == faults < MaxFaults /\ faults' = faults + 1
NoFault == UNCHANGED faults

\* sd_status and the loops of sd_clk: the line frees itself, or a fault keeps it busy.
Frees == latched = "none" /\ NoFault
StaysBusy == (latched # "none" /\ NoFault) \/ (latched = "none" /\ Fault)

-----------------------------------------------------------------------------
(* sd_clk(f): the divisor. *)

sd_hv == card.host
PowersOfTwo == {1, 2, 4, 8, 16, 32, 64, 128}

\* The highest bit of x, of the eight that the shift is cut to.
HighestBit(x) == CHOOSE p \in PowersOfTwo : p <= x /\ \A r \in PowersOfTwo : r <= x => r <= p

\* Mutant: the shift that is left after the last test is decremented twice.
DivisorShort(f) ==
  LET q == BaseClock \div f
      d == IF sd_hv > HostSpecV2 THEN q ELSE HighestBit(IF q = 1 THEN 1 ELSE (q - 1) \div 2)
  IN IF d <= 2 THEN 2 ELSE d

\* A controller of version 3 divides by any number of ten bits, the others by a
\* power of two of eight; the register keeps no more bits than that.
Divisor(f) ==
  LET q == BaseClock \div f
      d == IF sd_hv > HostSpecV2 THEN q ELSE HighestBit(IF q = 1 THEN 1 ELSE q - 1)
  IN IF d <= 2 THEN 2 ELSE d

Field(d) == IF sd_hv > HostSpecV2 THEN d % 1024 ELSE d % 256

\* The card clock in Hz, for a divisor in the register.
Frequency(n) == BaseClock \div (IF n = 0 THEN 1 ELSE 2 * n)

-----------------------------------------------------------------------------
(* sd_init. *)

At(label) == pc = label /\ UNCHANGED <<fixedVars, op, callVars, disk, stored>>
Keep == UNCHANGED <<hostVars, began, initOk>>

Exit(e) == pc' = "caller" /\ ret' = e
ExitOr(e, label) == IF e # "OK" THEN Exit(e) ELSE pc' = label /\ UNCHANGED ret
Go(label) == pc' = label /\ UNCHANGED ret

\* One sd_cmd, left with its error if it has one.
Command(here, k, a, label) ==
  /\ At(here) /\ Keep
  /\ \E o \in CmdOutcomes(k, a) : Sends(k, a, o) /\ ExitOr(o.err, label)

CallInit ==
  /\ UNCHANGED <<fixedVars, hostVars, sd_err, sd_scr, sd_rca, clock, disk, sd, stored, faults>>
  /\ op' = "init" /\ pc' = "reset" /\ ret' = "none" /\ try' = MaxTries /\ ccs' = FALSE
  /\ lba' = 0 /\ num' = 1 /\ c' = 0 /\ buf' = NoBuffer
  /\ width' = 1
  /\ began' = faults /\ initOk' = FALSE

\* Mutant: an error bit outlives the reset.
ResetKeepsError ==
  /\ At("reset")
  /\ UNCHANGED <<try, ccs, sd_scr, sd_rca, width, sd_err, sd, blksizecnt, began, initOk, latched>>
  /\ \/ NoFault /\ Go("clk_slow") /\ clock' = 0 /\ left' = 0
     \/ Fault /\ Exit("ERROR") /\ UNCHANGED <<clock, left>>

\* SRST_HC clears the controller, or a fault keeps it set.
Reset ==
  /\ At("reset")
  /\ UNCHANGED <<try, ccs, sd_scr, sd_rca, width, sd_err, sd, blksizecnt, began, initOk>>
  /\ \/ NoFault /\ Go("clk_slow") /\ clock' = 0 /\ left' = 0 /\ latched' = "none"
     \/ Fault /\ Exit("ERROR") /\ UNCHANGED <<clock, left, latched>>

\* sd_clk: either of its loops may time out, before or after the divisor is set.
SetClock(here, f, label) ==
  /\ At(here) /\ Keep
  /\ UNCHANGED <<try, ccs, width, sd>>
  /\ \/ NoFault /\ clock' = Frequency(Field(Divisor(f))) /\ Go(label)
     \/ Fault /\ clock' \in {clock, Frequency(Field(Divisor(f)))} /\ Exit("ERROR")

ClkSlow ==
  /\ SetClock("clk_slow", SlowClock, "go_idle")
  /\ IF pc' = "go_idle" THEN sd_scr' = {} /\ sd_rca' = FALSE /\ sd_err' = "OK"
     ELSE UNCHANGED <<sd_scr, sd_rca, sd_err>>

GoIdle == Command("go_idle", "GO_IDLE", 0, "if_cond") /\ UNCHANGED initVars

IfCond ==
  /\ Command("if_cond", "SEND_IF_COND", 0, "op_cond")
  /\ UNCHANGED initVars

\* One turn of the loop over ACMD41, and the tests after it.  An error other than
\* a timeout ends it at once; so does an answer on the last attempt.
Ready(o) == "COMPLETE" \in o.bits

\* In emmc/sd.c the prints are commented out, which makes each test of a field the body of
\* the one before: there an error only counts when all fields of the answer are set.
Dangling(o) == program = "device" /\ ~{"COMPLETE", "VOLTAGE", "CCS"} \subseteq o.bits

AfterOpCondWith(error, o) ==
  \/ error /\ Exit("ERROR") /\ UNCHANGED ccs
  \/ ~error /\ ~Ready(o) /\ try > 1 /\ Go("op_cond") /\ UNCHANGED ccs
  \/ ~error /\ try = 1 /\ Exit("TIMEOUT") /\ UNCHANGED ccs
  \/ /\ ~error /\ Ready(o) /\ try > 1
     /\ IF "VOLTAGE" \in o.bits THEN Go("cid") /\ ccs' = ("CCS" \in o.bits)
        ELSE Exit("ERROR") /\ UNCHANGED ccs

AfterOpCond(o) == AfterOpCondWith(o.err = "ERROR" /\ ~Dangling(o), o)

OpCond ==
  /\ At("op_cond") /\ Keep
  /\ \E o \in CmdOutcomes("SEND_OP_COND", 0) : Sends("SEND_OP_COND", 0, o) /\ AfterOpCond(o)
  /\ try' = try - 1
  /\ UNCHANGED <<sd_scr, sd_rca, clock, width>>

\* Whether ALL_SEND_CID succeeded is not looked at.
Cid ==
  /\ At("cid") /\ Keep /\ Go("rel_addr")
  /\ \E o \in CmdOutcomes("ALL_SEND_CID", 0) : Sends("ALL_SEND_CID", 0, o)
  /\ UNCHANGED initVars

RelAddr ==
  /\ At("rel_addr") /\ Keep
  /\ \E o \in CmdOutcomes("SEND_REL_ADDR", 0) :
       Sends("SEND_REL_ADDR", 0, o) /\ sd_rca' = ("RCA" \in o.bits) /\ ExitOr(o.err, "clk_fast")
  /\ UNCHANGED <<try, ccs, sd_scr, clock, width>>

ClkFast == SetClock("clk_fast", FastClock, "select") /\ UNCHANGED <<sd_scr, sd_rca, sd_err>>
Select == Command("select", "CARD_SELECT", sd_rca, "line") /\ UNCHANGED initVars

Line ==
  /\ At("line") /\ Keep
  /\ (Frees /\ Go("scr_cmd")) \/ (StaysBusy /\ Exit("TIMEOUT"))
  /\ UNCHANGED <<initVars, sd_err, sd>>

ScrCmd ==
  /\ Command("scr_cmd", "SEND_SCR", 0, "scr_ready")
  /\ UNCHANGED initVars

ScrReady ==
  /\ At("scr_ready") /\ Keep
  /\ (NoFault /\ Go("scr_read")) \/ (Fault /\ Exit("TIMEOUT"))
  /\ UNCHANGED <<initVars, sd_err, sd>>

\* The loop over the two words has no count: it never ends if they are lost.
ScrRead ==
  /\ At("scr_read") /\ Keep
  /\ \/ NoFault /\ sd_scr' = card.scr /\ Go("width")
     \/ Fault /\ Go("starved") /\ UNCHANGED sd_scr
  /\ UNCHANGED <<try, ccs, sd_rca, clock, width, sd_err, sd>>

\* Mutant: the result of SET_BUS_WIDTH is not looked at.
WidthUnchecked ==
  /\ At("width")
  /\ UNCHANGED <<try, ccs, sd_rca, clock, hostVars, began>>
  /\ sd_scr' = (sd_scr \ {"CCS"}) \cup (IF ccs THEN {"CCS"} ELSE {}) /\ Exit("OK") /\ initOk' = TRUE
  /\ \/ "BUS_WIDTH_4" \notin sd_scr /\ NoFault /\ UNCHANGED <<width, sd_err, sd>>
     \/ /\ "BUS_WIDTH_4" \in sd_scr /\ width' = 4
        /\ \E o \in CmdOutcomes("SET_BUS_WIDTH", sd_rca) : Sends("SET_BUS_WIDTH", sd_rca, o)

\* Mutant: the software flag is not set.
FlagsFromScr == sd_scr \ {"CCS"}

\* The software flag.  The old value is cleared first; in emmc/sd.c only under the
\* tests whose prints are commented out.
Cleared == IF program = "main" \/ ("SET_BLKCNT" \in sd_scr /\ ccs) THEN sd_scr \ {"CCS"} ELSE sd_scr
Flags == Cleared \cup (IF ccs THEN {"CCS"} ELSE {})
Succeeds == sd_scr' = Flags /\ Exit("OK") /\ initOk' = TRUE

Width ==
  /\ At("width")
  /\ UNCHANGED <<try, ccs, sd_rca, clock, hostVars, began>>
  /\ \/ "BUS_WIDTH_4" \notin sd_scr /\ Succeeds /\ NoFault /\ UNCHANGED <<width, sd_err, sd>>
     \/ /\ "BUS_WIDTH_4" \in sd_scr
        /\ \E o \in CmdOutcomes("SET_BUS_WIDTH", sd_rca) :
             /\ Sends("SET_BUS_WIDTH", sd_rca, o)
             /\ IF o.err = "OK" THEN Succeeds /\ width' = 4
                ELSE Exit(o.err) /\ UNCHANGED <<initOk, sd_scr, width>>

InitStep ==
  \/ Reset \/ ClkSlow \/ GoIdle \/ IfCond \/ OpCond \/ Cid \/ RelAddr \/ ClkFast \/ Select
  \/ Line \/ ScrCmd \/ ScrReady \/ ScrRead \/ Width

-----------------------------------------------------------------------------
(* sd_readblock and sd_writeblock. *)

Ccs == "CCS" \in sd_scr
SetBlkcnt == "SET_BLKCNT" \in sd_scr

\* if (num < 1) num = 1
AtLeastOne(n) == IF n < 1 THEN 1 ELSE n

\* Here sd_status is called with SR_DAT_INHIBIT, and SR_WRITE_AVAILABLE for a write.
Call(o, l, n, b) ==
  /\ op' = o /\ lba' = l /\ num' = AtLeastOne(n) /\ c' = 0 /\ buf' = b
  /\ pc' = "status" /\ ret' = "none" /\ try' = 0 /\ ccs' = FALSE /\ began' = 0
  /\ stored' = IF o = "write" THEN [stored EXCEPT ![l] = Unknown] ELSE stored
  /\ UNCHANGED <<fixedVars, sd_scr, sd_rca, clock, width, sd_err, hostVars, disk, sd, initOk, faults>>

In(label) == pc = label /\ UNCHANGED <<fixedVars, op, lba, num, initVars, began, initOk>>

\* return 0, or num * 512; what a write that failed has left on the card is not known, nor what
\* one left anywhere after a failed sd_init.
Return(n) ==
  /\ pc' = "caller" /\ ret' = (IF n = 0 THEN "0" ELSE "bytes")
  /\ stored' = IF op = "read" THEN stored
               ELSE IF ~initOk THEN [b \in Blocks |-> Unknown]
               ELSE IF n = 0 THEN stored
               ELSE [stored EXCEPT ![lba] = buf[0]]

On(label) == pc' = label /\ UNCHANGED <<ret, stored>>

Single == IF op = "read" THEN "READ_SINGLE" ELSE "WRITE_SINGLE"
Multi  == IF op = "read" THEN "READ_MULTI" ELSE "WRITE_MULTI"

\* The controller starts a data phase when the command has been answered.
StartsPhase(o, n) == left' = IF o.bits = {} /\ o.err # "OK" THEN left ELSE n

Status ==
  /\ In("status") /\ UNCHANGED <<c, buf, hostVars, disk, sd>>
  /\ \/ Frees /\ On("preset") /\ UNCHANGED sd_err
     \/ StaysBusy /\ Return(0) /\ sd_err' = "TIMEOUT"

\* num << 16: the field has 16 bits.
BlockCountWide(n) == n   \* a mutant
BlockCount(n) == n % CountSize

\* The number of blocks is announced to a card that knows SET_BLOCKCNT.
Preset ==
  /\ In("preset") /\ UNCHANGED <<c, buf, left, latched, disk>>
  /\ blksizecnt' = BlockCount(IF Ccs THEN num ELSE 1)
  /\ IF Ccs /\ num > 1 /\ SetBlkcnt
     THEN \E o \in CmdOutcomes("SET_BLOCKCNT", num) :
            /\ Sends("SET_BLOCKCNT", num, o)
            /\ IF o.err # "OK" THEN Return(0) ELSE On("start")
     ELSE On(IF Ccs THEN "start" ELSE "loop") /\ NoFault /\ UNCHANGED <<sd, sd_err>>

SendsData(k, a, n) ==
  \E o \in CmdOutcomes(k, a) :
    /\ Sends(k, a, o) /\ StartsPhase(o, n)
    /\ IF o.err # "OK" THEN Return(0) ELSE On("data")

Start ==
  /\ In("start") /\ UNCHANGED <<c, buf, blksizecnt, latched, disk>>
  /\ SendsData(IF num = 1 THEN Single ELSE Multi, lba, IF num = 1 THEN 1 ELSE blksizecnt)

Loop ==
  /\ In("loop") /\ UNCHANGED <<c, buf, blksizecnt, latched, disk>>
  /\ \/ c < num /\ ~Ccs /\ SendsData(Single, (lba + c) * BlockLen, 1)
     \/ c < num /\ Ccs /\ On("data") /\ NoFault /\ UNCHANGED <<sd, sd_err, left>>
     \/ /\ c = num
        /\ On(IF op = "write" THEN "flush" ELSE "stop")
        /\ NoFault /\ UNCHANGED <<sd, sd_err, left>>

\* The block reaches the FIFO, or the card takes it: both ends are in the same
\* transfer, with the same number of data lines.
Moves ==
  /\ left > 0 /\ latched = "none" /\ sd.pos \in Blocks /\ sd.width = width
  /\ sd.mode = (IF op = "read" THEN "data" ELSE "rcv")

Passed ==
  [sd EXCEPT !.pos = @ + 1, !.limit = IF @ = Unlimited THEN @ ELSE @ - 1,
             !.mode = IF sd.limit = 1 THEN "tran" ELSE @]

\* sd_int(INT_READ_RDY) or sd_int(INT_WRITE_RDY) and the accesses to DATA.  The
\* block after the last one of a read may end in an error that nobody waits for;
\* one of a write that is not programmed raises an error for the next wait.
Block ==
  /\ In("data") /\ UNCHANGED <<blksizecnt>>
  /\ \/ /\ Moves
        /\ buf' = IF op = "read" THEN [buf EXCEPT ![c] = disk[sd.pos]] ELSE buf
        /\ disk' = IF op = "write" THEN [disk EXCEPT ![sd.pos] = buf[c]] ELSE disk
        /\ left' = left - 1 /\ sd' = Passed
        /\ NoFault /\ UNCHANGED latched
        /\ c' = c + 1 /\ On("loop") /\ UNCHANGED sd_err
     \/ /\ Moves /\ Fault
        /\ buf' = IF op = "read" THEN [buf EXCEPT ![c] = disk[sd.pos]] ELSE buf
        /\ left' = 0 /\ latched' \in {"TIMEOUT", "ERROR"}
        /\ sd' \in {Passed, [sd EXCEPT !.mode = "tran"]}
        /\ UNCHANGED disk
        /\ c' = c + 1 /\ On("loop") /\ UNCHANGED sd_err
     \/ /\ (~Moves /\ NoFault) \/ (Moves /\ Fault)
        /\ sd_err' \in {"TIMEOUT", "ERROR"} /\ Return(0)
        /\ left' = 0 /\ latched' = "none"
        /\ UNCHANGED <<buf, c, disk, sd>>

\* Mutant: an error at the end of a write is not looked at.
FlushUnchecked ==
  /\ In("flush") /\ UNCHANGED <<c, buf, blksizecnt, disk, sd, sd_err>>
  /\ left' = 0 /\ latched' = "none" /\ On("stop") /\ NoFault

\* sd_int(INT_DATA_DONE) after the blocks of a write.
Flush ==
  /\ In("flush") /\ UNCHANGED <<c, buf, blksizecnt, disk, sd>>
  /\ left' = 0 /\ latched' = "none"
  /\ \/ latched = "none" /\ left = 0 /\ NoFault /\ On("stop") /\ UNCHANGED sd_err
     \/ latched # "none" /\ NoFault /\ sd_err' = latched /\ Return(0)
     \/ latched = "none" /\ Fault /\ sd_err' \in {"TIMEOUT", "ERROR"} /\ Return(0)

\* An open-ended transfer is stopped; return sd_err != SD_OK || c != num ? 0 : num * 512.
Stop ==
  /\ In("stop") /\ UNCHANGED <<c, buf, blksizecnt, left, latched, disk>>
  /\ IF num > 1 /\ ~SetBlkcnt /\ Ccs
     THEN \E o \in CmdOutcomes("STOP_TRANS", 0) :
            Sends("STOP_TRANS", 0, o) /\ Return(IF o.err = "OK" /\ c = num THEN num ELSE 0)
     ELSE Return(IF sd_err = "OK" /\ c = num THEN num ELSE 0) /\ NoFault /\ UNCHANGED <<sd, sd_err>>

TransferStep == Status \/ Preset \/ Start \/ Loop \/ Block \/ Flush \/ Stop

-----------------------------------------------------------------------------
(* The clients.  main does not look at what sd_init returned; the constructor of  *)
(* Rpi_Emmc, which may run again for a second device, neither.                    *)

One(d) == [NoBuffer EXCEPT ![0] = d]

MainInit  == program = "main" /\ pc = "caller" /\ op = "none" /\ CallInit
MainWrite ==
  /\ program = "main" /\ pc = "caller" /\ op = "init"
  /\ \E d \in Data : Call("write", 0, 1, One(d))
MainEnds ==
  /\ program = "main" /\ pc = "caller" /\ op = "write"
  /\ pc' = "done"
  /\ UNCHANGED <<fixedVars, op, ret, callVars, initVars, sd_err, hostVars, disk, sd, historyVars,
                 faults>>

Rpi_Emmc == program = "device" /\ pc = "caller" /\ CallInit

\* read_sync hands out the buffer whatever sd_readblock returned, and for a count of 0 has
\* one block read into a buffer of none, which is not kept apart here; write_sync leaves out
\* the argument num, for which one block is taken.
read_sync ==
  /\ program = "device" /\ pc = "caller" /\ op # "none"
  /\ \E l \in Blocks, n \in 0 .. MaxNum : Call("read", l, n, NoBuffer)
write_sync ==
  /\ program = "device" /\ pc = "caller" /\ op # "none"
  /\ \E l \in Blocks, d \in Data : Call("write", l, 1, One(d))

Client == MainInit \/ MainWrite \/ MainEnds \/ Rpi_Emmc \/ read_sync \/ write_sync

Next == Client \/ InitStep \/ TransferStep

Spec == Init /\ [][Next]_vars

-----------------------------------------------------------------------------
(* Properties. *)

Returned(o) == pc = "caller" /\ op = o

\* A read that returned a byte count after a successful sd_init hands out what was
\* written last, whatever failed between: reads broken off, errors left latched,
\* an sd_init of another device that failed before.
ReadsLastWrite ==
  Returned("read") /\ ret = "bytes" /\ initOk =>
    \A k \in 0 .. num - 1 : lba + k \in Blocks /\ stored[lba + k] \in {Unknown, buf[k]}

\* A block changes only during a write of that block: for main, whose block is the
\* first, also after a failed sd_init; for the device after a successful one.
BlocksLandInPlace ==
  [][\A b \in Blocks :
       disk'[b] # disk[b] /\ (initOk \/ program = "main") =>
         op = "write" /\ b \in lba .. lba + num - 1]_vars

\* sd_init brings back a card of version 2 from whatever the calls before left
\* (a transfer broken off, an error latched, a half finished sd_init), unless the
\* hardware fails again or the card needs all attempts of ACMD41.
InitHeals ==
  Returned("init") /\ faults = began /\ card.version = 2 /\ try > 0 => ret = "OK"

\* The card is identified at 400 kHz at most and never clocked beyond 25 MHz, for
\* controllers of every version, however far earlier calls of sd_init came.
ClockWithinLimits ==
  /\ sd.mode \in {"ready", "ident"} => clock <= SlowClock
  /\ clock <= FastClock

\* After a sd_init that succeeded, and through every transfer until the next one, broken
\* off or not, the two copies of the driver know the card they drive: it is selected and has
\* an address, both ends use the same number of lines, and the flags are those of the card.
\* The width that a card keeps when GO_IDLE is lost, the error of ACMD41 that the copy of
\* the device passes over and the flag that it does not clear lead to no other result.
DriverKnowsCard ==
  initOk => /\ sd.mode \in {"tran", "data", "rcv"} /\ sd_rca
            /\ width = sd.width
            /\ Ccs = card.ccs /\ SetBlkcnt = ("SET_BLKCNT" \in card.scr)

\* sd_writeblock returned a byte count: the block is on the card.
WrittenIsOnCard == Returned("write") /\ ret = "bytes" => disk[lba] = buf[0]
=============================================================================
