--------------------------- MODULE SdSystemProofs ---------------------------
(* Theorems about SdSystem, for every set of cards, every number of blocks and  *)
(* attempts, every width of the block count and every number of faults.         *)
EXTENDS SdSystem, TLAPS

(***************************************************************************)
(* The types.  A transfer in progress has blocks to go, a write is of one   *)
(* block, and the card counts down from a number that is not 0.             *)
(***************************************************************************)

Identifying == {"reset", "clk_slow", "go_idle", "if_cond", "op_cond"}
InitLabels == Identifying \cup {"cid", "rel_addr", "clk_fast", "select", "line", "scr_cmd",
                                "scr_ready", "scr_read", "starved", "width"}
TransferLabels == {"status", "preset", "start", "loop", "data", "flush", "stop"}

Counts(s) == s.preset >= 1 /\ (s.mode \in {"data", "rcv"} => s.limit >= 1)

CallShape ==
  /\ pc \in InitLabels => op = "init"
  /\ pc \in TransferLabels => op \in {"read", "write"}
  /\ pc \in InitLabels \cup TransferLabels => ret = "none"
  /\ pc \in Identifying => try >= 1
  /\ pc \in {"status", "preset", "start"} => c = 0
  /\ pc = "data" => c < num
  /\ op = "write" => num = 1 /\ buf[0] \in Data
  /\ program = "main" => op # "read" /\ lba = 0
  /\ Counts(sd)

CallInv == TypeOK /\ CallShape

LEMMA BaseClockIsNat == BaseClock \in Nat
BY SMT DEF BaseClock

LEMMA InitCallInv == Init => CallInv
<1> SUFFICES ASSUME Init PROVE CallInv
  OBVIOUS
<1>1. NoBuffer \in [0 .. MaxNum - 1 -> Data \cup {Garbage}]
  BY DEF NoBuffer
<1>2. PowerUp \in CardStates /\ Counts(PowerUp)
  BY SizesAssumption DEF PowerUp, CardStates, Unlimited, Counts
<1>3. /\ 0 \in Blocks /\ 1 \in 1 .. MaxNum /\ 0 \in 0 .. 1 /\ 0 \in 0 .. MaxTries /\ 0 \in 0 .. BaseClock
      /\ 0 \in 0 .. CountSize - 1 /\ 0 \in 0 .. MaxFaults
  BY SizesAssumption, BaseClockIsNat DEF Blocks
<1>4. stored \in [Blocks -> Data \cup {Unknown}]
  BY DEF Init
<1>5. TypeOK
  BY <1>1, <1>2, <1>3, <1>4 DEF Init, TypeOK, Labels, Errors
<1> QED BY <1>2, <1>5 DEF Init, CallInv, CallShape, InitLabels, TransferLabels, Identifying

-----------------------------------------------------------------------------
(* What one command can come to. *)

\* An argument that the card can be sent with command k.
Sendable(k, a) == k = "SET_BLOCKCNT" => a \in 1 .. MaxNum


Modes == {"idle", "ready", "ident", "stby", "tran", "data", "rcv"}

LEMMA Sizes ==
  /\ Unlimited \in Nat \ {0} /\ NumBlocks \in Nat \ {0}
  /\ 1 .. MaxNum \subseteq 0 .. Unlimited /\ 1 \in 0 .. Unlimited
  /\ Unlimited \in 0 .. Unlimited
  /\ \A n \in Blocks : n \in 0 .. NumBlocks /\ n + 1 \in 0 .. NumBlocks
BY SizesAssumption DEF Unlimited, Blocks

LEMMA CardUpdates ==
  ASSUME NEW s \in CardStates
  PROVE  /\ \A m \in Modes : [s EXCEPT !.mode = m] \in CardStates
         /\ \A b \in BOOLEAN : [s EXCEPT !.app = b] \in CardStates
         /\ \A n \in 0 .. NumBlocks : [s EXCEPT !.pos = n] \in CardStates
         /\ \A n \in 0 .. Unlimited : [s EXCEPT !.limit = n] \in CardStates
         /\ \A n \in 0 .. Unlimited : [s EXCEPT !.preset = n] \in CardStates
         /\ [s EXCEPT !.width = 4] \in CardStates
<1>1. \A m \in Modes : [s EXCEPT !.mode = m] \in CardStates
  BY SMT DEF CardStates, Modes
<1>2. \A b \in BOOLEAN : [s EXCEPT !.app = b] \in CardStates
  BY SMT DEF CardStates
<1>3. \A n \in 0 .. NumBlocks : [s EXCEPT !.pos = n] \in CardStates
  BY SMT DEF CardStates
<1>4. \A n \in 0 .. Unlimited : [s EXCEPT !.limit = n] \in CardStates
  BY SMT DEF CardStates
<1>5. \A n \in 0 .. Unlimited : [s EXCEPT !.preset = n] \in CardStates
  BY SMT DEF CardStates
<1>6. [s EXCEPT !.width = 4] \in CardStates
  BY SMT DEF CardStates
<1> QED BY <1>1, <1>2, <1>3, <1>4, <1>5, <1>6

\* A transfer that starts.
LEMMA AfterCard ==
  ASSUME NEW s \in CardStates, Counts(s), NEW k, NEW a, Sendable(k, a)
  PROVE  After(s, k, a) \in CardStates /\ Counts(After(s, k, a))
<1> DEFINE t == [s EXCEPT !.app = (k = "APP_CMD")]
<1>0. t \in CardStates /\ Counts(t) /\ t.preset = s.preset /\ t.mode = s.mode
  BY CardUpdates DEF CardStates, Counts
<1> HIDE DEF t
<1>1. CASE k = "GO_IDLE"
  BY <1>1, Sizes DEF After, PowerUp, CardStates, Counts, DataCommands
<1>2. CASE k \in {"ALL_SEND_CID", "SEND_REL_ADDR", "CARD_SELECT", "STOP_TRANS"}
  <2>1. PICK m \in Modes \ {"data", "rcv"} : After(s, k, a) = [t EXCEPT !.mode = m]
    BY <1>2 DEF After, Modes, DataCommands, t
  <2>2. [t EXCEPT !.mode = m] \in CardStates
    BY <1>0, CardUpdates
  <2>3. [t EXCEPT !.mode = m].mode = m /\ [t EXCEPT !.mode = m].preset = t.preset
    BY <1>0 DEF CardStates
  <2> QED BY <1>0, <2>1, <2>2, <2>3 DEF Counts
<1>3. CASE k = "SET_BUS_WIDTH"
  <2>1. After(s, k, a) = [t EXCEPT !.width = 4]
    BY <1>3 DEF After, DataCommands, t
  <2> QED BY <1>0, <2>1, CardUpdates DEF Counts, CardStates
<1>4. CASE k = "SET_BLOCKCNT"
  <2>1. After(s, k, a) = [t EXCEPT !.preset = a] /\ a \in 0 .. Unlimited /\ a >= 1
    BY <1>4, Sizes DEF After, DataCommands, Sendable, t
  <2> QED BY <1>0, <2>1, CardUpdates DEF Counts, CardStates
<1>5. CASE k \in DataCommands /\ OnCard(a)
  <2> DEFINE m == IF k \in ReadCommands THEN "data" ELSE "rcv"
             l == IF k \in {"READ_MULTI", "WRITE_MULTI"} THEN s.preset ELSE 1
  <2>1. m \in Modes
    BY DEF Modes
  <2>5. Place(a) \in 0 .. NumBlocks /\ Unlimited \in 0 .. Unlimited
    <3>1. Place(a) \in Blocks
      BY <1>5 DEF OnCard
    <3> QED BY <3>1, Sizes
  <2>3. l \in 0 .. Unlimited /\ l >= 1
    BY Sizes DEF Counts, CardStates
  <2> DEFINE t1 == [t EXCEPT !.mode = m]
             t2 == [t1 EXCEPT !.pos = Place(a)]
             t3 == [t2 EXCEPT !.limit = l]
             t4 == [t3 EXCEPT !.preset = Unlimited]
  <2>2. After(s, k, a) = t4
    BY <1>5 DEF After, DataCommands, t
  <2> HIDE DEF m, l
  <2>4. t1 \in CardStates
    BY <1>0, <2>1, CardUpdates
  <2>6. t2 \in CardStates
    BY <2>4, <2>5, CardUpdates
  <2>7. t3 \in CardStates
    BY <2>6, <2>3, CardUpdates
  <2>8. t4 \in CardStates
    BY <2>7, <2>5, CardUpdates
  <2>9. t4.limit = l /\ t4.preset = Unlimited
    BY <1>0 DEF CardStates
  <2> QED BY <2>2, <2>3, <2>8, <2>9, Sizes DEF Counts
<1>6. CASE /\ k \notin {"GO_IDLE", "ALL_SEND_CID", "SEND_REL_ADDR", "CARD_SELECT", "STOP_TRANS",
                       "SET_BUS_WIDTH", "SET_BLOCKCNT"}
           /\ ~(k \in DataCommands /\ OnCard(a))
  BY <1>0, <1>6 DEF After, t
<1> QED BY <1>1, <1>2, <1>3, <1>4, <1>5, <1>6

LEMMA TakenCases ==
  ASSUME NEW s, NEW k, NEW a
  PROVE  /\ [sd |-> After(s, k, a),
             bits |-> IF k = "SEND_OP_COND" THEN {"VOLTAGE"} ELSE Bits(k, a)] \in Taken(s, k, a)
         /\ \A t \in Taken(s, k, a) :
              \/ t.sd = After(s, k, a)
                 /\ t.bits = (IF k = "SEND_OP_COND" THEN {"VOLTAGE"} ELSE Bits(k, a))
              \/ /\ k = "SEND_OP_COND" /\ t.sd = Powered(s)
                 /\ t.bits = {"VOLTAGE", "COMPLETE"} \cup (IF card.ccs THEN {"CCS"} ELSE {})
BY DEF Taken

LEMMA TakenOnce ==
  ASSUME NEW s, NEW k, k # "SEND_OP_COND", NEW a, NEW t \in Taken(s, k, a)
  PROVE  t.sd = After(s, k, a) /\ t.bits = Bits(k, a)
BY DEF Taken

LEMMA TakenOpCond ==
  ASSUME NEW s, NEW a, NEW t \in Taken(s, "SEND_OP_COND", a)
  PROVE  \/ t.sd = After(s, "SEND_OP_COND", a) /\ t.bits = {"VOLTAGE"}
         \/ t.sd = Powered(s) /\ t.bits = {"VOLTAGE", "COMPLETE"} \cup (IF card.ccs THEN {"CCS"} ELSE {})
BY DEF Taken

Answered(s, k, a, o) ==
  latched = "none" /\ Executes(s, k, a) /\ \E t \in Taken(s, k, a) : o.sd = t.sd /\ o.bits = t.bits
Unanswered(s, k, a, o) ==
  o.sd = s /\ o.bits = {} /\ (latched # "none" \/ ~Executes(s, k, a))
Lost(s, k, a, o) ==
  o.bits = {} /\ (o.sd = s \/ (Executes(s, k, a) /\ \E t \in Taken(s, k, a) : o.sd = t.sd))

\* The outcomes of one command.
LEMMA OutcomeCases ==
  ASSUME NEW s, NEW k, NEW a, NEW o \in Outcomes(s, k, a)
  PROVE  \/ o.err = "OK" /\ o.cost = 0 /\ Answered(s, k, a, o)
         \/ o.err = "TIMEOUT" /\ o.cost = 0 /\ Unanswered(s, k, a, o)
         \/ k = "GO_IDLE" /\ o.err = "OK" /\ o.cost = 1 /\ o.sd = s /\ o.bits = {}
         \/ k # "GO_IDLE" /\ o.err \in {"TIMEOUT", "ERROR"} /\ o.cost = 1 /\ Lost(s, k, a, o)
<1> DEFINE moves == IF Executes(s, k, a) THEN Taken(s, k, a) ELSE {}
<1>1. moves = {} => ~Executes(s, k, a)
  BY TakenCases
<1>2. CASE latched # "none"
  BY <1>2 DEF Outcomes, Outcome, Unanswered
<1>3. CASE latched = "none"
  <2>1. CASE o \in {Outcome(t.sd, "OK", t.bits, 0) : t \in moves}
    BY <2>1, <1>3 DEF Outcome, Answered
  <2>2. CASE moves = {} /\ o = Outcome(s, "TIMEOUT", {}, 0)
    BY <2>2, <1>1 DEF Outcome, Unanswered
  <2>3. CASE k = "GO_IDLE" /\ o = Outcome(s, "OK", {}, 1)
    BY <2>3 DEF Outcome
  <2>4. CASE /\ k # "GO_IDLE"
             /\ o \in {Outcome(t, e, {}, 1) : t \in {s} \cup {m.sd : m \in moves},
                                              e \in {"TIMEOUT", "ERROR"}}
    BY <2>4 DEF Outcome, Lost
  <2> QED BY <1>3, <2>1, <2>2, <2>3, <2>4 DEF Outcomes
<1> QED BY <1>2, <1>3

LEMMA PoweredCard ==
  ASSUME NEW s \in CardStates, Counts(s)
  PROVE  /\ Powered(s) \in CardStates /\ Counts(Powered(s))
         /\ Powered(s).mode = "ready" /\ Powered(s).app = FALSE
<1> DEFINE r == [s EXCEPT !.mode = "ready"]
           q == [r EXCEPT !.app = FALSE]
<1>1. r \in CardStates
  BY CardUpdates DEF Modes
<1>2. q \in CardStates
  BY <1>1, CardUpdates
<1>3. q.mode = "ready" /\ q.app = FALSE /\ q.preset = s.preset
  BY DEF CardStates
<1>4. q = Powered(s)
  BY SMT DEF Powered
<1> HIDE DEF q
<1> QED BY <1>2, <1>3, <1>4 DEF Counts

\* The card after a command has a state that it can be in.
LEMMA OutcomeCard ==
  ASSUME NEW s \in CardStates, Counts(s), NEW k, NEW a, Sendable(k, a), NEW o \in Outcomes(s, k, a)
  PROVE  o.sd \in CardStates /\ Counts(o.sd) /\ o.err \in Errors /\ o.cost \in {0, 1}
<1>1. ASSUME NEW t \in Taken(s, k, a) PROVE t.sd \in CardStates /\ Counts(t.sd)
  <2>1. t.sd = After(s, k, a) \/ t.sd = Powered(s)
    BY <1>1, TakenCases
  <2> QED BY <2>1, PoweredCard, AfterCard
<1>2. o.sd = s \/ \E t \in Taken(s, k, a) : o.sd = t.sd
  BY OutcomeCases DEF Answered, Unanswered, Lost
<1>3. o.sd \in CardStates /\ Counts(o.sd)
  BY <1>1, <1>2
<1> QED BY <1>3, OutcomeCases DEF Errors

\* sd_cmd.
LEMMA CommandCases ==
  ASSUME NEW k, NEW a, NEW o \in CmdOutcomes(k, a)
  PROVE  \/ k \notin AppCommands /\ o \in Outcomes(sd, k, a)
         \/ /\ k \in AppCommands
            /\ \E p \in Outcomes(sd, "APP_CMD", sd_rca) :
                 \/ sd_rca /\ "APP_CMD" \notin p.bits /\ o = Outcome(p.sd, "ERROR", {}, p.cost)
                 \/ /\ ~(sd_rca /\ "APP_CMD" \notin p.bits)
                    /\ \E q \in Outcomes(p.sd, k, a) :
                         o = Outcome(q.sd, IF q.err = "OK" THEN p.err ELSE q.err, q.bits, p.cost + q.cost)
BY DEF CmdOutcomes

LEMMA CommandCard ==
  ASSUME CallInv, NEW k, NEW a, Sendable(k, a), NEW o \in CmdOutcomes(k, a)
  PROVE  o.sd \in CardStates /\ Counts(o.sd) /\ o.err \in Errors /\ o.cost \in Nat
<1>1. sd \in CardStates /\ Counts(sd)
  BY DEF CallInv, TypeOK, CallShape
<1>2. CASE k \notin AppCommands /\ o \in Outcomes(sd, k, a)
  BY <1>1, <1>2, OutcomeCard
<1>3. CASE k \in AppCommands
  <2>1. PICK p \in Outcomes(sd, "APP_CMD", sd_rca) :
          \/ o = Outcome(p.sd, "ERROR", {}, p.cost)
          \/ \E q \in Outcomes(p.sd, k, a) :
               o = Outcome(q.sd, IF q.err = "OK" THEN p.err ELSE q.err, q.bits, p.cost + q.cost)
    BY <1>3, CommandCases
  <2>2. p.sd \in CardStates /\ Counts(p.sd) /\ p.err \in Errors /\ p.cost \in {0, 1}
    BY <1>1, OutcomeCard DEF Sendable
  <2>3. CASE o = Outcome(p.sd, "ERROR", {}, p.cost)
    BY <2>2, <2>3 DEF Outcome, Errors
  <2>4. ASSUME NEW q \in Outcomes(p.sd, k, a),
               o = Outcome(q.sd, IF q.err = "OK" THEN p.err ELSE q.err, q.bits, p.cost + q.cost)
        PROVE  o.sd \in CardStates /\ Counts(o.sd) /\ o.err \in Errors /\ o.cost \in Nat
    <3>1. q.sd \in CardStates /\ Counts(q.sd) /\ q.err \in Errors /\ q.cost \in {0, 1}
      BY <2>2, OutcomeCard
    <3>2. /\ o.sd = q.sd /\ o.err = (IF q.err = "OK" THEN p.err ELSE q.err)
          /\ o.cost = p.cost + q.cost
      BY <2>4 DEF Outcome
    <3> QED BY <2>2, <3>1, <3>2
  <2> QED BY <2>1, <2>3, <2>4
<1> QED BY <1>2, <1>3, CommandCases

LEMMA SendsCard ==
  ASSUME CallInv, NEW k, NEW a, Sendable(k, a), NEW o \in CmdOutcomes(k, a), Sends(k, a, o)
  PROVE  sd' \in CardStates /\ Counts(sd)' /\ sd_err' \in Errors /\ faults' \in 0 .. MaxFaults
<1>1. o.sd \in CardStates /\ Counts(o.sd) /\ o.err \in Errors /\ o.cost \in Nat
  BY CommandCard
<1>2. faults' \in 0 .. MaxFaults
  BY <1>1, SizesAssumption DEF Sends, CallInv, TypeOK
<1> QED BY <1>1, <1>2 DEF Sends, Counts

LEMMA FaultCounts == TypeOK /\ (Fault \/ NoFault) => faults' \in 0 .. MaxFaults /\ faults' >= faults
BY SizesAssumption DEF TypeOK, Fault, NoFault

-----------------------------------------------------------------------------
(* The clock that sd_clk sets. *)

LEMMA Quotients ==
  /\ BaseClock = 41666666 /\ BaseClock \div SlowClock = 104 /\ BaseClock \div FastClock = 1
  /\ BaseClock \div 208 = 200320 /\ BaseClock \div 128 = 325520 /\ BaseClock \div 4 = 10416666
BY SMT DEF BaseClock, SlowClock, FastClock

\* 103 has seven bits.
LEMMA SevenBits == HighestBit(103) = 64 /\ HighestBit(1) = 1
BY SMT DEF HighestBit, PowersOfTwo

Speed(f) == Frequency(Field(Divisor(f)))

\* For identification the divisor is 104, or 64 when it has to be a power of two; otherwise it is 2.
LEMMA Speeds ==
  ASSUME card.host \in 0 .. 2
  PROVE  Speed(SlowClock) \in {200320, 325520} /\ Speed(FastClock) = 10416666
<1>1. Divisor(SlowClock) = IF sd_hv > HostSpecV2 THEN 104 ELSE 64
  BY SevenBits, Quotients, SMT DEF Divisor, sd_hv, HostSpecV2
<1>2. Divisor(FastClock) = 2
  BY SevenBits, Quotients, SMT DEF Divisor, sd_hv, HostSpecV2
<1>3. Field(2) = 2 /\ (sd_hv > HostSpecV2 => Field(104) = 104) /\ (~(sd_hv > HostSpecV2) => Field(64) = 64)
  BY SMT DEF Field
<1>4. Frequency(2) = 10416666 /\ Frequency(104) = 200320 /\ Frequency(64) = 325520
  BY SevenBits, Quotients, SMT DEF Frequency
<1> QED BY <1>1, <1>2, <1>3, <1>4, SMT DEF Speed

-----------------------------------------------------------------------------
(* Every step keeps the types. *)

LEMMA ClientTypes == CallInv /\ Client => CallInv'
<1> SUFFICES ASSUME CallInv, Client PROVE CallInv'
  OBVIOUS
<1> USE DEF CallInv
<1>1. /\ NoBuffer \in [0 .. MaxNum - 1 -> Data \cup {Garbage}] /\ 0 \in 0 .. MaxNum - 1
      /\ \A d \in Data : One(d) \in [0 .. MaxNum - 1 -> Data \cup {Garbage}] /\ One(d)[0] = d
  BY SizesAssumption DEF NoBuffer, One
<1>2. ASSUME CallInit, pc = "caller" PROVE CallInv'
  <2>1. 0 \in Blocks /\ 1 \in 1 .. MaxNum /\ 0 \in 0 .. 1 /\ MaxTries \in 0 .. MaxTries /\ MaxTries >= 1
    BY SizesAssumption DEF Blocks
  <2>2. TypeOK'
    BY <1>1, <1>2, <2>1 DEF CallInit, TypeOK, Labels, fixedVars, hostVars
  <2>3. CallShape'
    BY <1>2, <2>1 DEF CallInit, CallShape, Identifying, InitLabels, TransferLabels, fixedVars, Counts
  <2> QED BY <2>2, <2>3
<1>3. ASSUME NEW o \in {"read", "write"}, NEW l \in Blocks, NEW n \in 0 .. MaxNum,
             NEW b \in [0 .. MaxNum - 1 -> Data \cup {Garbage}], Call(o, l, n, b),
             o = "write" => n = 1 /\ b[0] \in Data, program = "main" => o # "read" /\ l = 0
      PROVE  CallInv'
  <2>1. 0 \in 0 .. MaxTries /\ 0 \in 0 .. MaxFaults
    BY SizesAssumption
  <2>5. AtLeastOne(n) \in 1 .. MaxNum /\ 0 \in 0 .. AtLeastOne(n) /\ (n = 1 => AtLeastOne(n) = 1)
    BY SizesAssumption DEF AtLeastOne
  <2>2. stored' \in [Blocks -> Data \cup {Unknown}]
    BY <1>3 DEF Call, TypeOK
  <2>3. TypeOK'
    BY <1>3, <2>1, <2>2, <2>5 DEF Call, TypeOK, Labels, fixedVars, hostVars
  <2>4. CallShape'
    BY <1>3, <2>5 DEF Call, CallShape, Identifying, InitLabels, TransferLabels, fixedVars, Counts
  <2> QED BY <2>3, <2>4
<1>4. CASE MainWrite
  <2>1. 0 \in Blocks /\ 1 \in 0 .. MaxNum
    BY SizesAssumption DEF Blocks
  <2> QED BY <1>1, <1>3, <1>4, <2>1 DEF MainWrite
<1>5. CASE MainEnds
  <2>1. TypeOK'
    BY <1>5 DEF MainEnds, TypeOK, Labels, fixedVars, hostVars, callVars, initVars, historyVars
  <2>2. CallShape'
    BY <1>5 DEF MainEnds, CallShape, Identifying, InitLabels, TransferLabels, fixedVars, callVars, Counts
  <2> QED BY <2>1, <2>2
<1>6. CASE read_sync
  BY <1>1, <1>3, <1>6 DEF read_sync
<1>7. CASE write_sync
  <2>1. 1 \in 0 .. MaxNum
    BY SizesAssumption
  <2> QED BY <1>1, <1>3, <1>7, <2>1 DEF write_sync
<1> QED BY <1>2, <1>4, <1>5, <1>6, <1>7 DEF Client, MainInit, Rpi_Emmc

\* What a step of sd_init has to keep.
InitTypes ==
  /\ pc \in InitLabels \cup {"caller"} /\ ret \in Errors \cup {"none"}
  /\ (pc \in InitLabels => ret = "none")
  /\ try \in 0 .. MaxTries /\ (pc \in Identifying => try >= 1) /\ ccs \in BOOLEAN
  /\ sd_scr \subseteq {"BUS_WIDTH_4", "SET_BLKCNT", "CCS"}
  /\ sd_rca \in BOOLEAN /\ sd_err \in Errors /\ clock \in 0 .. BaseClock /\ width \in {1, 4}
  /\ left \in 0 .. CountSize - 1 /\ latched \in {"none", "TIMEOUT", "ERROR"}
  /\ sd \in CardStates /\ Counts(sd) /\ initOk \in BOOLEAN /\ faults \in 0 .. MaxFaults

LEMMA InitStepTypes ==
  ASSUME CallInv, NEW here \in InitLabels, At(here), UNCHANGED <<blksizecnt, began>>, InitTypes'
  PROVE  CallInv'
<1> USE DEF CallInv
<1>1. op' = "init" /\ lba' \in Blocks /\ num' \in 1 .. MaxNum /\ c' \in 0 .. num'
      /\ buf' \in [0 .. MaxNum - 1 -> Data \cup {Garbage}] /\ disk' \in [Blocks -> Data]
      /\ stored' \in [Blocks -> Data \cup {Unknown}] /\ program' \in {"main", "device"} /\ card' \in Cards
      /\ (program = "main" => lba' = 0) /\ program' = program
      /\ blksizecnt' \in 0 .. CountSize - 1 /\ began' \in 0 .. MaxFaults
  BY DEF At, TypeOK, CallShape, fixedVars, callVars
<1>2. pc' \in Labels
  BY DEF InitTypes, InitLabels, Identifying, Labels
<1>3. TypeOK'
  BY <1>1, <1>2 DEF TypeOK, InitTypes
<1>4. pc' \notin TransferLabels
  BY DEF InitTypes, InitLabels, Identifying, TransferLabels
<1>5. CallShape'
  BY <1>1, <1>4 DEF CallShape, InitTypes, TransferLabels, Counts
<1> QED BY <1>3, <1>5

\* A command of sd_init.
LEMMA CommandTypes ==
  ASSUME CallInv, NEW here \in InitLabels, NEW k, NEW a, NEW label \in InitLabels,
         k # "SET_BLOCKCNT", Command(here, k, a, label), UNCHANGED initVars,
         label \in Identifying => here \in Identifying
  PROVE  CallInv'
<1>1. PICK o \in CmdOutcomes(k, a) : Sends(k, a, o) /\ ExitOr(o.err, label)
  BY DEF Command
<1>2. o.err \in Errors /\ sd' \in CardStates /\ Counts(sd)' /\ sd_err' \in Errors /\ faults' \in 0 .. MaxFaults
  BY <1>1, CommandCard, SendsCard DEF Sendable
<1>3. pc = here /\ ret = "none" /\ (pc \in Identifying => try >= 1)
  BY DEF Command, At, CallInv, CallShape
<1>5. /\ pc' \in {label, "caller"} /\ ret' \in Errors \cup {"none"}
      /\ (pc' = label => ret' = "none") \/ pc' = "caller"
  BY <1>1, <1>2, <1>3 DEF ExitOr, Exit
<1>6. /\ try' \in 0 .. MaxTries /\ (pc' \in Identifying => try' >= 1) /\ ccs' \in BOOLEAN
      /\ sd_scr' \subseteq {"BUS_WIDTH_4", "SET_BLKCNT", "CCS"}
      /\ sd_rca' \in BOOLEAN /\ clock' \in 0 .. BaseClock /\ width' \in {1, 4}
  BY <1>3, <1>5 DEF Command, CallInv, TypeOK, initVars, Identifying
<1>7. /\ left' \in 0 .. CountSize - 1 /\ latched' \in {"none", "TIMEOUT", "ERROR"} /\ initOk' \in BOOLEAN
  BY DEF Command, Keep, CallInv, TypeOK, hostVars
<1>8. "caller" \notin InitLabels
  BY DEF InitLabels, Identifying
<1>4. InitTypes'
  BY <1>1, <1>2, <1>5, <1>6, <1>7, <1>8 DEF InitTypes
<1> QED BY <1>4, InitStepTypes DEF Command, Keep, hostVars

LEMMA SpeedType == CallInv => Speed(SlowClock) \in 0 .. BaseClock /\ Speed(FastClock) \in 0 .. BaseClock
<1> SUFFICES ASSUME CallInv PROVE Speed(SlowClock) \in 0 .. BaseClock /\ Speed(FastClock) \in 0 .. BaseClock
  OBVIOUS
<1>1. card.host \in 0 .. 2
  BY CardsAssumption DEF CallInv, TypeOK
<1>2. 200320 <= BaseClock /\ 325520 <= BaseClock /\ 10416666 <= BaseClock
  BY SMT DEF BaseClock
<1>3. BaseClock \in Nat
  BY BaseClockIsNat
<1> QED BY <1>1, <1>2, <1>3, Speeds, SMT

LEMMA InitTypeSteps == CallInv /\ InitStep => CallInv'
<1> SUFFICES ASSUME CallInv, InitStep PROVE CallInv'
  OBVIOUS
<1> USE DEF InitLabels, Identifying
<1>0. /\ try \in 0 .. MaxTries /\ ccs \in BOOLEAN /\ sd_scr \subseteq {"BUS_WIDTH_4", "SET_BLKCNT", "CCS"}
      /\ sd_rca \in BOOLEAN /\ sd_err \in Errors /\ clock \in 0 .. BaseClock /\ width \in {1, 4}
      /\ left \in 0 .. CountSize - 1 /\ latched \in {"none", "TIMEOUT", "ERROR"}
      /\ sd \in CardStates /\ Counts(sd) /\ initOk \in BOOLEAN /\ faults \in 0 .. MaxFaults
      /\ (pc \in InitLabels => ret = "none") /\ (pc \in Identifying => try >= 1)
      /\ {"OK", "TIMEOUT", "ERROR"} = Errors /\ 0 \in 0 .. CountSize - 1
  BY SizesAssumption DEF CallInv, TypeOK, CallShape, Errors
<1> TypeOK
  BY DEF CallInv
<1>1. CASE Reset
  <2>2. faults' \in 0 .. MaxFaults
    BY <1>1, FaultCounts DEF Reset
  <2>3. clock' \in 0 .. BaseClock /\ left' \in 0 .. CountSize - 1 /\ latched' \in {"none", "TIMEOUT", "ERROR"}
    BY <1>0, <1>1, BaseClockIsNat DEF Reset
  <2>1. InitTypes'
    BY <1>0, <1>1, <2>2, <2>3 DEF Reset, At, Go, Exit, InitTypes, Counts
  <2> QED BY <1>1, <2>1, InitStepTypes DEF Reset
<1>2. ASSUME NEW here \in {"clk_slow", "clk_fast"}, NEW f, Speed(f) \in 0 .. BaseClock,
             NEW label \in {"go_idle", "select"}, SetClock(here, f, label),
             sd_scr' \subseteq {"BUS_WIDTH_4", "SET_BLKCNT", "CCS"}, sd_rca' \in BOOLEAN, sd_err' \in Errors,
             label = "go_idle" => here = "clk_slow"
      PROVE  CallInv'
  <2>1. clock' \in 0 .. BaseClock
    BY <1>0, <1>2 DEF SetClock, Speed
  <2>2. InitTypes'
    BY <1>0, <1>2, <2>1, FaultCounts DEF SetClock, At, Go, Exit, InitTypes, CallInv, Counts, Keep, hostVars
  <2> QED BY <1>2, <2>2, InitStepTypes DEF SetClock, Keep, hostVars
<1>3. CASE ClkSlow
  <2>1. sd_scr' \subseteq {"BUS_WIDTH_4", "SET_BLKCNT", "CCS"} /\ sd_rca' \in BOOLEAN /\ sd_err' \in Errors
    BY <1>0, <1>3 DEF ClkSlow
  <2> QED BY <1>2, <1>3, <2>1, SpeedType DEF ClkSlow
<1>4. CASE ClkFast
  BY <1>0, <1>2, <1>4, SpeedType DEF ClkFast
<1>5. CASE GoIdle
  BY <1>5, CommandTypes DEF GoIdle
<1>6. CASE IfCond
  BY <1>6, CommandTypes DEF IfCond
<1>7. CASE Select
  BY <1>7, CommandTypes DEF Select
<1>8. CASE ScrCmd
  BY <1>8, CommandTypes DEF ScrCmd
<1>9. CASE OpCond
  <2>1. PICK o \in CmdOutcomes("SEND_OP_COND", 0) : Sends("SEND_OP_COND", 0, o) /\ AfterOpCond(o)
    BY <1>9 DEF OpCond
  <2>2. sd' \in CardStates /\ Counts(sd)' /\ sd_err' \in Errors /\ faults' \in 0 .. MaxFaults
    BY <2>1, SendsCard DEF Sendable
  <2>3. /\ pc' \in {"op_cond", "cid", "caller"} /\ (pc' = "op_cond" => try > 1)
        /\ ccs' \in BOOLEAN /\ ret' \in Errors \cup {"none"} /\ (pc' # "caller" => ret' = "none")
    <3> DEFINE error == o.err = "ERROR" /\ ~Dangling(o)
    <3>1. AfterOpCondWith(error, o)
      BY <2>1 DEF AfterOpCond
    <3> HIDE DEF error
    <3>2. ccs' \in BOOLEAN
      <4>1. ccs' = ccs \/ ccs' = ("CCS" \in o.bits)
        BY <3>1 DEF AfterOpCondWith
      <4>2. CASE ccs' = ccs
        BY <1>0, <4>2
      <4>3. CASE ccs' = ("CCS" \in o.bits)
        BY <4>3
      <4> QED BY <4>1, <4>2, <4>3
    <3>3. Exit("ERROR") \/ Exit("TIMEOUT") \/ (Go("op_cond") /\ try > 1) \/ Go("cid")
      BY <3>1 DEF AfterOpCondWith
    <3> QED BY <1>0, <1>9, <3>2, <3>3 DEF OpCond, At, Exit, Go
  <2>4. try' \in 0 .. MaxTries /\ (pc' = "op_cond" => try' >= 1)
    BY <1>0, <1>9, <2>3, SizesAssumption DEF OpCond, At
  <2>5. InitTypes'
    BY <1>0, <1>9, <2>2, <2>3, <2>4 DEF OpCond, At, InitTypes, Keep, hostVars
  <2> QED BY <1>9, <2>5, InitStepTypes DEF OpCond, Keep, hostVars
<1>10. CASE Cid
  <2>1. PICK o \in CmdOutcomes("ALL_SEND_CID", 0) : Sends("ALL_SEND_CID", 0, o)
    BY <1>10 DEF Cid
  <2>2. sd' \in CardStates /\ Counts(sd)' /\ sd_err' \in Errors /\ faults' \in 0 .. MaxFaults
    BY <2>1, SendsCard DEF Sendable
  <2>3. InitTypes'
    BY <1>0, <1>10, <2>2 DEF Cid, At, Go, InitTypes, Keep, hostVars, initVars
  <2> QED BY <1>10, <2>3, InitStepTypes DEF Cid, Keep, hostVars
<1>11. CASE RelAddr
  <2>1. PICK o \in CmdOutcomes("SEND_REL_ADDR", 0) :
          Sends("SEND_REL_ADDR", 0, o) /\ sd_rca' = ("RCA" \in o.bits) /\ ExitOr(o.err, "clk_fast")
    BY <1>11 DEF RelAddr
  <2>2. /\ sd' \in CardStates /\ Counts(sd)' /\ sd_err' \in Errors /\ faults' \in 0 .. MaxFaults
        /\ o.err \in Errors
    BY <2>1, SendsCard, CommandCard DEF Sendable
  <2>3. /\ pc' \in {"clk_fast", "caller"} /\ ret' \in Errors \cup {"none"}
        /\ (pc' # "caller" => ret' = "none") /\ sd_rca' \in BOOLEAN
    BY <1>0, <1>11, <2>1, <2>2 DEF RelAddr, At, ExitOr, Exit
  <2>4. InitTypes'
    BY <1>0, <1>11, <2>2, <2>3 DEF RelAddr, InitTypes, Keep, hostVars
  <2> QED BY <1>11, <2>4, InitStepTypes DEF RelAddr, Keep, hostVars
<1>12. CASE Line
  <2>1. InitTypes'
    BY <1>0, <1>12, FaultCounts
    DEF Line, At, Go, Exit, Frees, StaysBusy, InitTypes, CallInv, Counts, Keep, hostVars, initVars
  <2> QED BY <1>12, <2>1, InitStepTypes DEF Line, Keep, hostVars
<1>13. CASE ScrReady
  <2>1. InitTypes'
    BY <1>0, <1>13, FaultCounts
    DEF ScrReady, At, Go, Exit, InitTypes, CallInv, Counts, Keep, hostVars, initVars
  <2> QED BY <1>13, <2>1, InitStepTypes DEF ScrReady, Keep, hostVars
<1>14. CASE ScrRead
  <2>1. card.scr \subseteq {"BUS_WIDTH_4", "SET_BLKCNT", "CCS"}
    BY CardsAssumption DEF CallInv, TypeOK
  <2>2. InitTypes'
    BY <1>0, <1>14, <2>1, FaultCounts
    DEF ScrRead, At, Go, InitTypes, CallInv, Counts, Keep, hostVars
  <2> QED BY <1>14, <2>2, InitStepTypes DEF ScrRead, Keep, hostVars
<1>15. CASE Width
  <2>1. Flags \subseteq {"BUS_WIDTH_4", "SET_BLKCNT", "CCS"}
    BY <1>0 DEF Flags, Cleared
  <2>2. CASE UNCHANGED <<width, sd_err, sd, faults>> /\ Succeeds
    <3>1. InitTypes'
      BY <1>0, <1>15, <2>1, <2>2 DEF Width, At, Succeeds, Exit, InitTypes, Counts, hostVars
    <3> QED BY <1>15, <3>1, InitStepTypes DEF Width, hostVars
  <2>3. ASSUME NEW o \in CmdOutcomes("SET_BUS_WIDTH", sd_rca), Sends("SET_BUS_WIDTH", sd_rca, o),
               IF o.err = "OK" THEN Succeeds /\ width' = 4
               ELSE Exit(o.err) /\ UNCHANGED <<initOk, sd_scr, width>>
        PROVE  CallInv'
    <3>1. /\ sd' \in CardStates /\ Counts(sd)' /\ sd_err' \in Errors /\ faults' \in 0 .. MaxFaults
          /\ o.err \in Errors
      BY <2>3, SendsCard, CommandCard DEF Sendable
    <3>2. InitTypes'
      BY <1>0, <1>15, <2>1, <2>3, <3>1 DEF Width, At, Succeeds, Exit, InitTypes, hostVars
    <3> QED BY <1>15, <3>2, InitStepTypes DEF Width, hostVars
  <2> QED BY <1>15, <2>2, <2>3 DEF Width, NoFault
<1> QED BY <1>1, <1>3, <1>4, <1>5, <1>6, <1>7, <1>8, <1>9, <1>10, <1>11, <1>12, <1>13, <1>14, <1>15
        DEF InitStep

\* What a step of a transfer has to keep.
TransferTypes ==
  /\ pc \in TransferLabels \cup {"caller"} /\ ret \in {"none", "0", "bytes"}
  /\ (pc \in TransferLabels => ret = "none")
  /\ c \in 0 .. num /\ (pc \in {"status", "preset", "start"} => c = 0) /\ (pc = "data" => c < num)
  /\ buf \in [0 .. MaxNum - 1 -> Data \cup {Garbage}] /\ (op = "write" => buf[0] \in Data)
  /\ sd_err \in Errors /\ blksizecnt \in 0 .. CountSize - 1 /\ left \in 0 .. CountSize - 1
  /\ latched \in {"none", "TIMEOUT", "ERROR"} /\ disk \in [Blocks -> Data]
  /\ sd \in CardStates /\ Counts(sd) /\ stored \in [Blocks -> Data \cup {Unknown}]
  /\ faults \in 0 .. MaxFaults

LEMMA TransferStepTypes ==
  ASSUME CallInv, NEW here \in TransferLabels, In(here), TransferTypes'
  PROVE  CallInv'
<1> USE DEF CallInv
<1>1. op \in {"read", "write"} /\ op' = op /\ lba' = lba /\ num' = num /\ program' = program
      /\ try' \in 0 .. MaxTries /\ ccs' \in BOOLEAN /\ sd_scr' \subseteq {"BUS_WIDTH_4", "SET_BLKCNT", "CCS"}
      /\ sd_rca' \in BOOLEAN /\ clock' \in 0 .. BaseClock /\ width' \in {1, 4}
      /\ card' \in Cards /\ initOk' \in BOOLEAN /\ began' \in 0 .. MaxFaults
  BY DEF In, TypeOK, CallShape, fixedVars, initVars
<1>2. pc' \in Labels
  BY DEF TransferTypes, TransferLabels, Labels
<1>3. TypeOK'
  BY <1>1, <1>2 DEF TypeOK, TransferTypes
<1>4. pc' \notin InitLabels /\ pc' \notin Identifying
  BY DEF TransferTypes, InitLabels, Identifying, TransferLabels
<1>5. CallShape'
  BY <1>1, <1>4 DEF CallShape, TransferTypes, Counts
<1> QED BY <1>3, <1>5

LEMMA PassedCard ==
  ASSUME CallInv, sd.pos \in Blocks, sd.mode \in {"data", "rcv"}
  PROVE  /\ Passed \in CardStates /\ Counts(Passed) /\ Passed.pos = sd.pos + 1
         /\ Passed.mode \in {sd.mode, "tran"}
         /\ [sd EXCEPT !.mode = "tran"] \in CardStates /\ Counts([sd EXCEPT !.mode = "tran"])
<1> DEFINE l == IF sd.limit = Unlimited THEN sd.limit ELSE sd.limit - 1
           m == IF sd.limit = 1 THEN "tran" ELSE sd.mode
           s1 == [sd EXCEPT !.pos = sd.pos + 1]
           s2 == [s1 EXCEPT !.limit = l]
           s3 == [s2 EXCEPT !.mode = m]
<1>1. sd \in CardStates /\ Counts(sd) /\ sd.limit >= 1
  BY DEF CallInv, TypeOK, CallShape, Counts
<1>2. /\ sd.pos + 1 \in 0 .. NumBlocks /\ l \in 0 .. Unlimited /\ m \in Modes
      /\ (m # "tran" => l >= 1) /\ m \in {sd.mode, "tran"} /\ "tran" \in Modes
  BY <1>1, Sizes DEF CardStates, Modes
<1>3. Passed = s3
  BY SMT DEF Passed
<1> HIDE DEF l, m
<1>4. s1 \in CardStates
  BY <1>1, <1>2, CardUpdates
<1>5. s2 \in CardStates
  BY <1>2, <1>4, CardUpdates
<1>6. s3 \in CardStates
  BY <1>2, <1>5, CardUpdates
<1>7. s3.limit = l /\ s3.mode = m /\ s3.pos = sd.pos + 1 /\ s3.preset = sd.preset
  BY <1>1 DEF CardStates
<1>8. [sd EXCEPT !.mode = "tran"] \in CardStates /\ Counts([sd EXCEPT !.mode = "tran"])
  <2>1. [sd EXCEPT !.mode = "tran"].mode = "tran" /\ [sd EXCEPT !.mode = "tran"].preset = sd.preset
    BY <1>1 DEF CardStates
  <2> QED BY <1>1, <1>2, <2>1, CardUpdates DEF Counts
<1> QED BY <1>1, <1>2, <1>3, <1>6, <1>7, <1>8 DEF Counts

LEMMA TransferTypeSteps == CallInv /\ TransferStep => CallInv'
<1> SUFFICES ASSUME CallInv, TransferStep PROVE CallInv'
  OBVIOUS
<1> USE DEF TransferLabels
<1> TypeOK
  BY DEF CallInv
<1>0. /\ lba \in Blocks /\ num \in 1 .. MaxNum /\ c \in 0 .. num /\ num \in Nat
      /\ (pc \in {"status", "preset", "start"} => c = 0) /\ (pc = "data" => c < num)
      /\ buf \in [0 .. MaxNum - 1 -> Data \cup {Garbage}] /\ (op = "write" => buf[0] \in Data /\ num = 1)
      /\ sd_err \in Errors /\ blksizecnt \in 0 .. CountSize - 1 /\ left \in 0 .. CountSize - 1
      /\ latched \in {"none", "TIMEOUT", "ERROR"} /\ disk \in [Blocks -> Data]
      /\ sd \in CardStates /\ Counts(sd) /\ stored \in [Blocks -> Data \cup {Unknown}]
      /\ faults \in 0 .. MaxFaults /\ (pc \in TransferLabels => ret = "none" /\ op \in {"read", "write"})
      /\ {"OK", "TIMEOUT", "ERROR"} = Errors /\ 0 \in 0 .. CountSize - 1 /\ 1 \in 0 .. CountSize - 1
  BY SizesAssumption DEF CallInv, TypeOK, CallShape, Errors
<1>1. ASSUME NEW n, Return(n), pc \in TransferLabels
      PROVE  pc' = "caller" /\ ret' \in {"0", "bytes"} /\ stored' \in [Blocks -> Data \cup {Unknown}]
  BY <1>0, <1>1 DEF Return
<1>2. ASSUME NEW label, On(label), pc \in TransferLabels
      PROVE  pc' = label /\ ret' = "none" /\ stored' \in [Blocks -> Data \cup {Unknown}]
  BY <1>0, <1>2 DEF On
<1>3. CASE Status
  <2>1. faults' \in 0 .. MaxFaults
    BY <1>3, FaultCounts DEF Status, Frees, StaysBusy
  <2>2. TransferTypes'
    BY <1>0, <1>1, <1>2, <1>3, <2>1 DEF Status, In, TransferTypes, hostVars, Counts
  <2> QED BY <1>3, <2>2, TransferStepTypes DEF Status
<1>4. CASE Preset
  <2>1. sd' \in CardStates /\ Counts(sd)' /\ sd_err' \in Errors /\ faults' \in 0 .. MaxFaults
    <3>1. Sendable("SET_BLOCKCNT", num)
      BY <1>0 DEF Sendable
    <3>2. \/ \E o \in CmdOutcomes("SET_BLOCKCNT", num) : Sends("SET_BLOCKCNT", num, o)
          \/ NoFault /\ UNCHANGED <<sd, sd_err>>
      BY <1>4 DEF Preset
    <3> QED BY <1>0, <3>1, <3>2, SendsCard DEF NoFault, Counts
  <2>2. (\E n : Return(n)) \/ On("start") \/ On("loop")
    BY <1>4 DEF Preset
  <2>3. blksizecnt' \in 0 .. CountSize - 1
    BY <1>0, <1>4, SizesAssumption DEF Preset, BlockCount
  <2>4. TransferTypes'
    BY <1>0, <1>1, <1>2, <1>4, <2>1, <2>2, <2>3 DEF Preset, In, TransferTypes
  <2> QED BY <1>4, <2>4, TransferStepTypes DEF Preset
<1>5. ASSUME NEW k, k # "SET_BLOCKCNT", NEW a, NEW n \in 0 .. CountSize - 1, SendsData(k, a, n)
      PROVE  /\ sd' \in CardStates /\ Counts(sd)' /\ sd_err' \in Errors /\ faults' \in 0 .. MaxFaults
             /\ left' \in 0 .. CountSize - 1 /\ (Return(0) \/ On("data"))
  <2>1. PICK o \in CmdOutcomes(k, a) :
          Sends(k, a, o) /\ StartsPhase(o, n) /\ IF o.err # "OK" THEN Return(0) ELSE On("data")
    BY <1>5 DEF SendsData
  <2> QED BY <1>0, <1>5, <2>1, SendsCard DEF Sendable, StartsPhase
<1>6. CASE Start
  <2>1. /\ sd' \in CardStates /\ Counts(sd)' /\ sd_err' \in Errors /\ faults' \in 0 .. MaxFaults
        /\ left' \in 0 .. CountSize - 1 /\ (Return(0) \/ On("data"))
    BY <1>0, <1>5, <1>6 DEF Start, Single, Multi
  <2>2. TransferTypes'
    BY <1>0, <1>1, <1>2, <1>6, <2>1 DEF Start, In, TransferTypes
  <2> QED BY <1>6, <2>2, TransferStepTypes DEF Start
<1>7. CASE Loop
  <2>1. CASE c < num /\ ~Ccs /\ SendsData(Single, (lba + c) * BlockLen, 1)
    <3>1. /\ sd' \in CardStates /\ Counts(sd)' /\ sd_err' \in Errors /\ faults' \in 0 .. MaxFaults
          /\ left' \in 0 .. CountSize - 1 /\ (Return(0) \/ On("data"))
      BY <1>0, <1>5, <2>1 DEF Single
    <3>2. TransferTypes'
      BY <1>0, <1>1, <1>2, <1>7, <2>1, <3>1 DEF Loop, In, TransferTypes
    <3> QED BY <1>7, <3>2, TransferStepTypes DEF Loop
  <2>2. CASE ~(c < num /\ ~Ccs /\ SendsData(Single, (lba + c) * BlockLen, 1))
    <3>1. UNCHANGED <<sd, sd_err, left, faults>>
          /\ (On("flush") \/ On("stop") \/ (On("data") /\ c < num))
      BY <1>7, <2>2 DEF Loop, NoFault
    <3>2. TransferTypes'
      BY <1>0, <1>1, <1>2, <1>7, <3>1 DEF Loop, In, TransferTypes, Counts
    <3> QED BY <1>7, <3>2, TransferStepTypes DEF Loop
  <2> QED BY <2>1, <2>2
<1>8. CASE Block
  <2>1. faults' \in 0 .. MaxFaults
    BY <1>8, FaultCounts DEF Block
  <2>2. /\ c < num /\ c \in 0 .. MaxNum - 1 /\ (op = "write" => c = 0)
        /\ op \in {"read", "write"}
    BY <1>0, <1>8, SizesAssumption DEF Block, In
  <2>3. CASE Moves /\ buf' = (IF op = "read" THEN [buf EXCEPT ![c] = disk[sd.pos]] ELSE buf)
             /\ c' = c + 1 /\ On("loop") /\ UNCHANGED sd_err
    <3>1. sd.pos \in Blocks /\ sd.mode \in {"data", "rcv"} /\ left - 1 \in 0 .. CountSize - 1
      BY <1>0, <2>3, SizesAssumption DEF Moves
    <3>2. /\ buf' \in [0 .. MaxNum - 1 -> Data \cup {Garbage}] /\ (op = "write" => buf'[0] \in Data)
      BY <1>0, <2>2, <2>3, <3>1
    <3>3. sd' \in CardStates /\ Counts(sd')
      <4>1. sd' = Passed \/ sd' = [sd EXCEPT !.mode = "tran"]
        BY <1>8, <2>3 DEF Block, On, Return
      <4> QED BY <3>1, <4>1, PassedCard
    <3>4. disk' \in [Blocks -> Data]
      <4>1. disk' = disk \/ (op = "write" /\ disk' = [disk EXCEPT ![sd.pos] = buf[c]])
        BY <1>8, <2>3 DEF Block, On, Return
      <4> QED BY <1>0, <2>2, <3>1, <4>1
    <3>5. left' \in 0 .. CountSize - 1 /\ latched' \in {"none", "TIMEOUT", "ERROR"}
      BY <1>0, <1>8, <2>3, <3>1 DEF Block
    <3>6. c' \in 0 .. num
      BY <1>0, <2>2, <2>3
    <3>7. TransferTypes'
      BY <1>0, <1>2, <1>8, <2>1, <2>2, <2>3, <3>2, <3>3, <3>4, <3>5, <3>6
      DEF Block, In, TransferTypes, Counts
    <3> QED BY <1>8, <3>7, TransferStepTypes DEF Block
  <2>4. CASE /\ sd_err' \in {"TIMEOUT", "ERROR"} /\ Return(0) /\ left' = 0 /\ latched' = "none"
             /\ UNCHANGED <<buf, c, disk, sd>>
    <3>1. TransferTypes'
      BY <1>0, <1>1, <1>8, <2>1, <2>4 DEF Block, In, TransferTypes, Counts
    <3> QED BY <1>8, <3>1, TransferStepTypes DEF Block
  <2> QED BY <1>8, <2>3, <2>4 DEF Block
<1>9. CASE Flush
  <2>1. faults' \in 0 .. MaxFaults
    BY <1>9, FaultCounts DEF Flush
  <2>2. sd_err' \in Errors /\ (On("stop") \/ Return(0))
    BY <1>0, <1>9 DEF Flush
  <2>3. TransferTypes'
    BY <1>0, <1>1, <1>2, <1>9, <2>1, <2>2 DEF Flush, In, TransferTypes, Counts
  <2> QED BY <1>9, <2>3, TransferStepTypes DEF Flush
<1>10. CASE Stop
  <2>1. sd' \in CardStates /\ Counts(sd)' /\ sd_err' \in Errors /\ faults' \in 0 .. MaxFaults
    <3>1. \/ \E o \in CmdOutcomes("STOP_TRANS", 0) : Sends("STOP_TRANS", 0, o)
          \/ NoFault /\ UNCHANGED <<sd, sd_err>>
      BY <1>10 DEF Stop
    <3> QED BY <1>0, <3>1, SendsCard DEF Sendable, NoFault, Counts
  <2>2. \E n : Return(n)
    BY <1>10 DEF Stop
  <2>3. TransferTypes'
    BY <1>0, <1>1, <1>10, <2>1, <2>2 DEF Stop, In, TransferTypes
  <2> QED BY <1>10, <2>3, TransferStepTypes DEF Stop
<1> QED BY <1>3, <1>4, <1>6, <1>7, <1>8, <1>9, <1>10 DEF TransferStep

LEMMA CallInvHolds == Spec => []CallInv
<1>1. CallInv /\ UNCHANGED vars => CallInv'
  BY DEF CallInv, TypeOK, CallShape, Counts, vars, fixedVars, callVars, initVars, hostVars, historyVars
<1>2. CallInv /\ [Next]_vars => CallInv'
  BY <1>1, ClientTypes, InitTypeSteps, TransferTypeSteps DEF Next
<1> QED BY <1>2, InitCallInv, PTL DEF Spec

\* The types of SdSystem, in every state.
THEOREM SystemTypes == Spec => []TypeOK
<1>1. CallInv => TypeOK
  BY DEF CallInv
<1> QED BY <1>1, CallInvHolds, PTL

-----------------------------------------------------------------------------
(***************************************************************************)
(* What else holds of the driver and the card together.                    *)
(*                                                                         *)
(* The clock is slow from go_idle until the card has its address, and the   *)
(* fast clock is only set for a card that is no longer identified.          *)
(***************************************************************************)

SlowLabels == {"go_idle", "if_cond", "op_cond", "cid", "rel_addr"}

ClockInv ==
  /\ pc \in SlowLabels => clock <= SlowClock
  /\ pc = "clk_fast" => sd.mode \notin {"ready", "ident"}
  /\ ClockWithinLimits

(* Past if_cond the card is one of version 2; the answer to ACMD41 told its     *)
(* capacity, which is what the flags say when sd_init has succeeded.            *)

AfterIfCond == {"op_cond", "cid", "rel_addr", "clk_fast", "select", "line", "scr_cmd", "scr_ready",
                "scr_read", "starved", "width"}

FlagsInv ==
  /\ pc \in InitLabels => began <= faults /\ ~initOk
  /\ pc \in AfterIfCond => card.version = 2
  /\ pc \in AfterIfCond \ {"op_cond"} => ccs = card.ccs
  /\ pc = "width" => sd_scr = card.scr
  /\ initOk => Ccs = card.ccs

(* The state that the card has to be in at each step of an sd_init without       *)
(* faults.  With it every command is answered.                                   *)

Unhurt == faults = began /\ card.version = 2

Following(label, m) ==
  CASE label \in {"if_cond", "op_cond"} -> m = "idle"
    [] label = "cid" -> m = "ready"
    [] label = "rel_addr" -> m = "ident"
    [] label \in {"clk_fast", "select"} -> m = "stby"
    [] label \in {"line", "scr_cmd", "scr_ready", "scr_read", "width"} -> m = "tran"
    [] OTHER -> label # "starved"

HealInv ==
  /\ pc \in InitLabels /\ Unhurt =>
       /\ Following(pc, sd.mode)
       /\ pc # "reset" => latched = "none"
       /\ pc \in SlowLabels => ~sd_rca
       /\ pc \in AfterIfCond \ SlowLabels => sd_rca
  /\ InitHeals

(* The card is at the block that the driver expects, and what was moved so far  *)
(* is the same on both sides.                                                    *)

Sure == initOk \/ program = "main"

PlaceInv ==
  /\ pc = "start" => Ccs
  /\ pc = "loop" /\ Ccs => c >= 1
  /\ pc \in {"flush", "stop"} => c = num
  /\ pc = "data" /\ op = "write" /\ Sure /\ sd.mode = "rcv" => sd.pos = lba
  /\ initOk /\ op = "read" /\ sd.mode = "data" /\ (pc = "data" \/ (pc = "loop" /\ Ccs)) => sd.pos = lba + c

Writing == op = "write" /\ pc \in TransferLabels

StoredInv ==
  /\ Writing => stored[lba] = Unknown
  /\ ~(Writing /\ ~initOk) => \A b \in Blocks : stored[b] \in {Unknown, disk[b]}
  /\ initOk /\ op = "read" => \A k \in 0 .. c - 1 : lba + k \in Blocks /\ buf[k] = disk[lba + k]
  /\ op = "read" /\ ret = "bytes" => c = num
  /\ /\ initOk /\ op = "write" /\ c = 1
     /\ (pc \in {"loop", "flush"} /\ latched = "none") \/ pc = "stop"
     => disk[lba] = buf[0]

-----------------------------------------------------------------------------
(* What a command tells of the card. *)

LEMMA AfterMode ==
  ASSUME NEW s \in CardStates, NEW k, NEW a, NEW r, r = After(s, k, a)
  PROVE  /\ k = "GO_IDLE" => r = PowerUp
         /\ k = "ALL_SEND_CID" => r.mode = "ident"
         /\ k = "SEND_REL_ADDR" => r.mode = "stby"
         /\ k \in {"CARD_SELECT", "STOP_TRANS"} => r.mode = "tran"
         /\ k \in DataCommands /\ OnCard(a) =>
              r.mode = (IF k \in ReadCommands THEN "data" ELSE "rcv") /\ r.pos = Place(a)
         /\ \/ k \in {"GO_IDLE", "ALL_SEND_CID", "SEND_REL_ADDR", "CARD_SELECT", "STOP_TRANS"}
            \/ k \in DataCommands /\ OnCard(a)
            \/ r.mode = s.mode
         /\ k = "APP_CMD" => r.app /\ r.mode = s.mode
<1> DEFINE t == [s EXCEPT !.app = (k = "APP_CMD")]
<1>0. t \in CardStates /\ t.preset = s.preset /\ t.mode = s.mode /\ t.app = (k = "APP_CMD")
  BY CardUpdates DEF CardStates
<1> HIDE DEF t
<1>1. k = "GO_IDLE" => r = PowerUp
  BY DEF After, DataCommands
<1>2. CASE k \in {"ALL_SEND_CID", "SEND_REL_ADDR", "CARD_SELECT", "STOP_TRANS"}
  <2>1. r = [t EXCEPT !.mode = CASE k = "ALL_SEND_CID" -> "ident" [] k = "SEND_REL_ADDR" -> "stby" [] OTHER -> "tran"]
    BY <1>2 DEF After, DataCommands, t
  <2> QED BY <1>0, <1>2, <2>1 DEF CardStates, DataCommands
<1>3. CASE k = "SET_BUS_WIDTH"
  <2>1. r = [t EXCEPT !.width = 4]
    BY <1>3 DEF After, DataCommands, t
  <2> QED BY <1>0, <1>3, <2>1 DEF CardStates, DataCommands
<1>4. CASE k = "SET_BLOCKCNT"
  <2>1. r = [t EXCEPT !.preset = a]
    BY <1>4 DEF After, DataCommands, t
  <2> QED BY <1>0, <1>4, <2>1 DEF CardStates, DataCommands
<1>5. CASE k \in DataCommands /\ OnCard(a)
  <2> DEFINE m == IF k \in ReadCommands THEN "data" ELSE "rcv"
             l == IF k \in {"READ_MULTI", "WRITE_MULTI"} THEN s.preset ELSE 1
  <2>1. r = [t EXCEPT !.mode = m, !.pos = Place(a), !.limit = l, !.preset = Unlimited]
    BY <1>5 DEF After, DataCommands, t
  <2> HIDE DEF m, l
  <2>2. r.mode = m /\ r.pos = Place(a)
    BY <1>0, <2>1 DEF CardStates
  <2> QED BY <1>5, <2>2 DEF m, DataCommands
<1>6. CASE /\ k \notin {"GO_IDLE", "ALL_SEND_CID", "SEND_REL_ADDR", "CARD_SELECT", "STOP_TRANS",
                       "SET_BUS_WIDTH", "SET_BLOCKCNT"}
           /\ ~(k \in DataCommands /\ OnCard(a))
  <2>1. r = t
    BY <1>6 DEF After, t
  <2> QED BY <1>0, <1>6, <2>1
<1>7. CASE k = "GO_IDLE"
  BY <1>1, <1>7 DEF DataCommands
<1> QED BY <1>2, <1>3, <1>4, <1>5, <1>6, <1>7

\* Only ACMD41 and ALL_SEND_CID lead into the states of identification.
LEMMA OutcomeMode ==
  ASSUME NEW s \in CardStates, NEW k, NEW a, NEW o \in Outcomes(s, k, a),
         k \notin {"SEND_OP_COND", "ALL_SEND_CID"}, o.sd.mode \in {"ready", "ident"}
  PROVE  s.mode = o.sd.mode
<1>1. o.sd = s \/ \E t \in Taken(s, k, a) : o.sd = t.sd
  BY OutcomeCases DEF Answered, Unanswered, Lost
<1>2. o.sd = s \/ o.sd = After(s, k, a)
  BY <1>1, TakenCases
<1> QED BY <1>2, AfterMode DEF PowerUp

LEMMA CommandMode ==
  ASSUME CallInv, NEW k, NEW a, NEW o \in CmdOutcomes(k, a), Sendable(k, a),
         k \notin {"SEND_OP_COND", "ALL_SEND_CID"}, o.sd.mode \in {"ready", "ident"}
  PROVE  sd.mode = o.sd.mode
<1>1. sd \in CardStates /\ Counts(sd)
  BY DEF CallInv, TypeOK, CallShape
<1>2. CASE k \notin AppCommands /\ o \in Outcomes(sd, k, a)
  BY <1>1, <1>2, OutcomeMode
<1>3. CASE k \in AppCommands
  <2>1. PICK p \in Outcomes(sd, "APP_CMD", sd_rca) :
          \/ o = Outcome(p.sd, "ERROR", {}, p.cost)
          \/ \E q \in Outcomes(p.sd, k, a) :
               o = Outcome(q.sd, IF q.err = "OK" THEN p.err ELSE q.err, q.bits, p.cost + q.cost)
    BY <1>3, CommandCases
  <2>2. p.sd \in CardStates
    BY <1>1, OutcomeCard DEF Sendable
  <2>3. o.sd = p.sd \/ \E q \in Outcomes(p.sd, k, a) : o.sd = q.sd
    BY <2>1 DEF Outcome
  <2>4. p.sd.mode = o.sd.mode
    BY <2>2, <2>3, OutcomeMode
  <2> QED BY <1>1, <2>4, OutcomeMode
<1> QED BY <1>2, <1>3, CommandCases

\* A command other than GO_IDLE and the application commands was executed if it was answered.
LEMMA CommandAnswered ==
  ASSUME NEW k, k \notin AppCommands \cup {"GO_IDLE"}, NEW a, NEW o \in CmdOutcomes(k, a), o.err = "OK"
  PROVE  /\ latched = "none" /\ Executes(sd, k, a) /\ o.cost = 0
         /\ o.sd = After(sd, k, a) /\ o.bits = Bits(k, a)
<1>1. Answered(sd, k, a, o) /\ o.cost = 0
  BY CommandCases, OutcomeCases
<1>2. k # "SEND_OP_COND"
  BY DEF AppCommands
<1> QED BY <1>1, <1>2, TakenOnce DEF Answered

\* With no error latched and no fault, a command that the card may execute is executed.
LEMMA CommandUnfaulted ==
  ASSUME CallInv, latched = "none", NEW k, k \notin AppCommands, NEW a, Executes(sd, k, a),
         NEW o \in CmdOutcomes(k, a), o.cost = 0
  PROVE  o.err = "OK" /\ o.sd = After(sd, k, a) /\ o.bits = Bits(k, a)
<1>1. k # "SEND_OP_COND"
  BY DEF AppCommands
<1>2. o \in Outcomes(sd, k, a)
  BY CommandCases
<1>3. o.err = "OK" /\ Answered(sd, k, a, o)
  BY <1>2, OutcomeCases DEF Unanswered
<1> QED BY <1>1, <1>3, TakenOnce DEF Answered

LEMMA AppUnfaulted ==
  ASSUME CallInv, latched = "none", NEW k \in AppCommands, NEW a, NEW s, s = After(sd, "APP_CMD", sd_rca),
         Executes(sd, "APP_CMD", sd_rca), Executes(s, k, a),
         NEW o \in CmdOutcomes(k, a), o.cost = 0
  PROVE  o.err = "OK" /\ \E t \in Taken(s, k, a) : o.sd = t.sd /\ o.bits = t.bits
<1>1. sd \in CardStates /\ Counts(sd)
  BY DEF CallInv, TypeOK, CallShape
<1>2. PICK p \in Outcomes(sd, "APP_CMD", sd_rca) :
        \/ sd_rca /\ "APP_CMD" \notin p.bits /\ o = Outcome(p.sd, "ERROR", {}, p.cost)
        \/ /\ ~(sd_rca /\ "APP_CMD" \notin p.bits)
           /\ \E q \in Outcomes(p.sd, k, a) :
                o = Outcome(q.sd, IF q.err = "OK" THEN p.err ELSE q.err, q.bits, p.cost + q.cost)
  BY CommandCases
<1>3. p.cost \in {0, 1}
  BY <1>1, OutcomeCard DEF Sendable
<1>4. p.sd \in CardStates /\ Counts(p.sd)
  BY <1>1, OutcomeCard DEF Sendable
<1>5. \A q \in Outcomes(p.sd, k, a) : q.cost \in {0, 1}
  BY OutcomeCases
<1>6. p.cost = 0
  BY <1>2, <1>3, <1>5 DEF Outcome
<1>7. p.err = "OK" /\ p.sd = s /\ p.bits = {"APP_CMD"}
  <2>1. p.err = "OK" /\ Answered(sd, "APP_CMD", sd_rca, p)
    BY <1>6, OutcomeCases DEF Unanswered
  <2>2. p.sd = s /\ p.bits = Bits("APP_CMD", sd_rca)
    BY <2>1, TakenOnce DEF Answered
  <2> QED BY <2>1, <2>2 DEF Bits, DataCommands
<1>8. PICK q \in Outcomes(s, k, a) :
        o = Outcome(q.sd, IF q.err = "OK" THEN p.err ELSE q.err, q.bits, p.cost + q.cost)
  BY <1>2, <1>7
<1>9. o.sd = q.sd /\ o.bits = q.bits /\ o.err = (IF q.err = "OK" THEN p.err ELSE q.err)
      /\ o.cost = p.cost + q.cost
  BY <1>8 DEF Outcome
<1>10. q.cost = 0
  BY <1>5, <1>6, <1>7, <1>9
<1>11. q.err = "OK" /\ Answered(s, k, a, q)
  BY <1>10, OutcomeCases DEF Unanswered
<1> QED BY <1>7, <1>9, <1>11 DEF Answered

\* The answer to ACMD41 that has COMPLETE set has the capacity of the card.
LEMMA OpCondBits ==
  ASSUME CallInv, NEW o \in CmdOutcomes("SEND_OP_COND", 0), "COMPLETE" \in o.bits
  PROVE  ("CCS" \in o.bits) = card.ccs
<1>1. card.ccs \in BOOLEAN
  BY CardsAssumption DEF CallInv, TypeOK
<1>2. PICK p \in Outcomes(sd, "APP_CMD", sd_rca) :
        \/ o = Outcome(p.sd, "ERROR", {}, p.cost)
        \/ \E q \in Outcomes(p.sd, "SEND_OP_COND", 0) :
             o = Outcome(q.sd, IF q.err = "OK" THEN p.err ELSE q.err, q.bits, p.cost + q.cost)
  BY CommandCases DEF AppCommands
<1>3. o.bits = {} \/ \E q \in Outcomes(p.sd, "SEND_OP_COND", 0) : o.bits = q.bits
  BY <1>2 DEF Outcome
<1>4. o.bits = {} \/ \E t \in Taken(p.sd, "SEND_OP_COND", 0) : o.bits = t.bits
  BY <1>3, OutcomeCases DEF Answered, Unanswered, Lost
<1>6. o.bits = {"VOLTAGE", "COMPLETE"} \cup (IF card.ccs THEN {"CCS"} ELSE {})
  BY <1>4, TakenOpCond
<1> QED BY <1>1, <1>6

-----------------------------------------------------------------------------
(* What the steps of each party leave alone. *)

LEMMA ClientFrame ==
  ASSUME Client
  PROVE  /\ pc = "caller" /\ pc' \in {"reset", "status", "done"}
         /\ UNCHANGED <<program, card, sd_scr, sd_rca, clock, sd_err, blksizecnt, left, latched, disk, sd, faults>>
         /\ pc' = "reset" => op' = "init" /\ UNCHANGED stored /\ began' = faults /\ ~initOk'
         /\ pc' = "done" => UNCHANGED <<op, ret, stored, initOk, lba, num, c, buf, began, try>> /\ op = "write"
         /\ pc' = "status" => /\ op' \in {"read", "write"} /\ c' = 0 /\ ret' = "none" /\ UNCHANGED initOk
                              /\ stored' = IF op' = "write" THEN [stored EXCEPT ![lba'] = Unknown] ELSE stored
BY DEF Client, MainInit, MainWrite, MainEnds, Rpi_Emmc, read_sync, write_sync, Call, CallInit,
       fixedVars, hostVars, callVars, initVars, historyVars

LEMMA InitFrame ==
  ASSUME CallInv, InitStep
  PROVE  /\ pc \in InitLabels /\ pc' \in InitLabels \cup {"caller"}
         /\ UNCHANGED <<program, card, op, lba, num, c, buf, disk, stored, blksizecnt, began>>
<1> USE DEF InitLabels, Identifying, At, Go, Exit, ExitOr, fixedVars, callVars
<1>1. \E here \in InitLabels : At(here)
  BY DEF InitStep, Reset, ClkSlow, SetClock, GoIdle, IfCond, Command, OpCond, Cid, RelAddr, ClkFast,
         Select, Line, ScrCmd, ScrReady, ScrRead, Width
<1>2. UNCHANGED <<blksizecnt, began>>
  BY DEF InitStep, Reset, ClkSlow, SetClock, GoIdle, IfCond, Command, OpCond, Cid, RelAddr, ClkFast,
         Select, Line, ScrCmd, ScrReady, ScrRead, Width, Keep, hostVars
<1>3. pc' \in InitLabels \cup {"caller"}
  BY DEF InitStep, Reset, ClkSlow, SetClock, GoIdle, IfCond, Command, OpCond, Cid, RelAddr, ClkFast,
         Select, Line, ScrCmd, ScrReady, ScrRead, Width, AfterOpCond, AfterOpCondWith, Succeeds
<1> QED BY <1>1, <1>2, <1>3

LEMMA TransferFrame ==
  ASSUME CallInv, TransferStep
  PROVE  /\ pc \in TransferLabels /\ pc' \in TransferLabels \cup {"caller"}
         /\ UNCHANGED <<program, card, op, lba, num, try, ccs, sd_scr, sd_rca, clock, width, began, initOk>>
         /\ sd'.mode \in {"ready", "ident"} => sd.mode = sd'.mode
<1> USE DEF TransferLabels, In, fixedVars, initVars
<1>1. /\ pc \in TransferLabels
      /\ UNCHANGED <<program, card, op, lba, num, try, ccs, sd_scr, sd_rca, clock, width, began, initOk>>
  BY DEF TransferStep, Status, Preset, Start, Loop, Block, Flush, Stop
<1>2. pc' \in TransferLabels \cup {"caller"}
  BY DEF TransferStep, Status, Preset, Start, Loop, Block, Flush, Stop, SendsData, On, Return
<1>3. ASSUME NEW k, NEW a, k \notin {"SEND_OP_COND", "ALL_SEND_CID"}, Sendable(k, a),
             NEW o \in CmdOutcomes(k, a), Sends(k, a, o)
      PROVE  sd'.mode \in {"ready", "ident"} => sd.mode = sd'.mode
  BY <1>3, CommandMode DEF Sends
<1>4. sd'.mode \in {"ready", "ident"} => sd.mode = sd'.mode
  <2>1. CASE Status \/ Flush
    BY <2>1 DEF Status, Flush
  <2>2. CASE Preset
    <3>1. Sendable("SET_BLOCKCNT", num)
      BY DEF CallInv, TypeOK, Sendable
    <3> QED BY <1>3, <2>2, <3>1 DEF Preset
  <2>3. CASE Start \/ Loop
    <3>1. sd' = sd \/ \E k \in DataCommands : \E a : \E o \in CmdOutcomes(k, a) : Sends(k, a, o)
      BY <2>3 DEF Start, Loop, SendsData, Single, Multi, DataCommands
    <3> QED BY <1>3, <3>1 DEF DataCommands, Sendable
  <2>4. CASE Block
    <3>1. CASE sd' = sd
      BY <3>1
    <3>2. CASE Moves /\ (sd' = Passed \/ sd' = [sd EXCEPT !.mode = "tran"])
      <4>1. sd.pos \in Blocks /\ sd.mode \in {"data", "rcv"} /\ sd \in CardStates
        BY <3>2 DEF Moves, CallInv, TypeOK
      <4>2. Passed.mode \in {"data", "rcv", "tran"}
        BY <4>1, PassedCard
      <4>3. [sd EXCEPT !.mode = "tran"].mode = "tran"
        BY <4>1 DEF CardStates
      <4> QED BY <3>2, <4>2, <4>3
    <3> QED BY <2>4, <3>1, <3>2 DEF Block
  <2>5. CASE Stop
    BY <1>3, <2>5 DEF Stop, Sendable
  <2> QED BY <2>1, <2>2, <2>3, <2>4, <2>5 DEF TransferStep
<1> QED BY <1>1, <1>2, <1>4

-----------------------------------------------------------------------------
(* The clock. *)

LEMMA SpeedLimits ==
  ASSUME CallInv
  PROVE  /\ Speed(SlowClock) <= SlowClock /\ Speed(SlowClock) <= FastClock /\ Speed(FastClock) <= FastClock
         /\ 0 <= SlowClock /\ 0 <= FastClock /\ SlowClock \in Nat /\ FastClock \in Nat
<1>1. card.host \in 0 .. 2
  BY CardsAssumption DEF CallInv, TypeOK
<1> QED BY <1>1, Speeds, SMT DEF SlowClock, FastClock

LEMMA ClockStep == CallInv /\ ClockInv /\ [Next]_vars => ClockInv'
<1> SUFFICES ASSUME CallInv, ClockInv, [Next]_vars PROVE ClockInv'
  OBVIOUS
<1>0. /\ pc \in SlowLabels => clock <= SlowClock
      /\ pc = "clk_fast" => sd.mode \notin {"ready", "ident"}
      /\ sd.mode \in {"ready", "ident"} => clock <= SlowClock
      /\ clock <= FastClock
  BY DEF ClockInv, ClockWithinLimits
<1>1. CASE Client
  BY <1>0, <1>1, ClientFrame DEF ClockInv, ClockWithinLimits, SlowLabels
<1>2. CASE TransferStep
  BY <1>0, <1>2, TransferFrame DEF ClockInv, ClockWithinLimits, SlowLabels, TransferLabels
<1>3. CASE Reset
  BY <1>0, <1>3, SpeedLimits DEF Reset, Go, Exit, ClockInv, ClockWithinLimits, SlowLabels
<1>4. CASE ClkSlow
  <2>1. /\ UNCHANGED sd /\ clock' \in {clock, Speed(SlowClock)}
        /\ (pc' = "go_idle" /\ clock' = Speed(SlowClock)) \/ pc' = "caller"
    BY <1>4 DEF ClkSlow, SetClock, Speed, Go, Exit
  <2> QED BY <1>0, <2>1, SpeedLimits DEF ClockInv, ClockWithinLimits, SlowLabels
<1>5. CASE ClkFast
  <2>1. pc = "clk_fast" /\ UNCHANGED sd /\ clock' \in {clock, Speed(FastClock)} /\ pc' \in {"select", "caller"}
    BY <1>5 DEF ClkFast, SetClock, At, Speed, Go, Exit
  <2> QED BY <1>0, <2>1, SpeedLimits DEF ClockInv, ClockWithinLimits, SlowLabels
\* The other steps leave the clock.
<1>6. ASSUME UNCHANGED clock, pc' \in SlowLabels => pc \in SlowLabels,
             pc' = "clk_fast" => sd'.mode \notin {"ready", "ident"},
             sd'.mode \in {"ready", "ident"} => sd.mode = sd'.mode \/ pc \in SlowLabels
      PROVE  ClockInv'
  BY <1>0, <1>6 DEF ClockInv, ClockWithinLimits
<1>7. ASSUME NEW k, k \notin {"SEND_OP_COND", "ALL_SEND_CID"}, NEW a, Sendable(k, a),
             NEW o \in CmdOutcomes(k, a), Sends(k, a, o)
      PROVE  sd'.mode \in {"ready", "ident"} => sd.mode = sd'.mode
  BY <1>7, CommandMode DEF Sends
<1>8. ASSUME NEW here, NEW k, k \notin {"SEND_OP_COND", "ALL_SEND_CID", "SET_BLOCKCNT"}, NEW a, NEW label,
             Command(here, k, a, label), UNCHANGED clock, label # "clk_fast",
             label \in SlowLabels => here \in SlowLabels
      PROVE  ClockInv'
  <2>1. sd'.mode \in {"ready", "ident"} => sd.mode = sd'.mode
    BY <1>7, <1>8 DEF Command, Sendable
  <2>2. pc = here /\ pc' \in {label, "caller"}
    BY <1>8 DEF Command, At, ExitOr, Exit
  <2> QED BY <1>6, <1>8, <2>1, <2>2 DEF SlowLabels
<1>9. CASE GoIdle \/ IfCond \/ Select \/ ScrCmd
  BY <1>8, <1>9 DEF GoIdle, IfCond, Select, ScrCmd, initVars, SlowLabels
<1>10. CASE OpCond
  BY <1>6, <1>10 DEF OpCond, At, AfterOpCond, AfterOpCondWith, Go, Exit, SlowLabels
<1>11. CASE Cid
  BY <1>6, <1>11 DEF Cid, At, Go, initVars, SlowLabels
<1>12. CASE RelAddr
  <2>1. PICK o \in CmdOutcomes("SEND_REL_ADDR", 0) :
          Sends("SEND_REL_ADDR", 0, o) /\ ExitOr(o.err, "clk_fast")
    BY <1>12 DEF RelAddr
  <2>2. sd'.mode \in {"ready", "ident"} => sd.mode = sd'.mode
    BY <1>7, <2>1 DEF Sendable
  <2>3. pc' = "clk_fast" => sd'.mode = "stby"
    <3>1. ASSUME pc' = "clk_fast" PROVE o.sd = After(sd, "SEND_REL_ADDR", 0)
      BY <2>1, <3>1, CommandAnswered DEF ExitOr, Exit, AppCommands
    <3>2. sd \in CardStates
      BY DEF CallInv, TypeOK
    <3> QED BY <2>1, <3>1, <3>2, AfterMode DEF Sends
  <2>4. pc' \in {"clk_fast", "caller"} /\ UNCHANGED clock
    BY <1>12, <2>1 DEF ExitOr, Exit, RelAddr
  <2> QED BY <1>6, <2>2, <2>3, <2>4 DEF SlowLabels
<1>13. CASE Line \/ ScrReady \/ ScrRead
  BY <1>6, <1>13 DEF Line, ScrReady, ScrRead, Go, Exit, initVars, SlowLabels
<1>14. CASE Width
  <2>1. sd'.mode \in {"ready", "ident"} => sd.mode = sd'.mode
    BY <1>7, <1>14 DEF Width, Sendable
  <2>2. pc' = "caller" /\ UNCHANGED clock
    BY <1>14 DEF Width, Succeeds, Exit
  <2> QED BY <1>6, <2>1, <2>2 DEF SlowLabels
<1>15. CASE UNCHANGED vars
  BY <1>0, <1>15 DEF ClockInv, ClockWithinLimits, vars, initVars
<1> QED BY <1>1, <1>2, <1>3, <1>4, <1>5, <1>9, <1>10, <1>11, <1>12, <1>13, <1>14, <1>15 DEF Next, InitStep

LEMMA ClockInvHolds == Spec => []ClockInv
<1>1. Init => ClockInv
  <2>1. 0 <= FastClock
    BY SMT DEF FastClock
  <2> QED BY <2>1 DEF Init, PowerUp, ClockInv, ClockWithinLimits, SlowLabels
<1> QED BY <1>1, ClockStep, CallInvHolds, PTL DEF Spec

\* The card is identified at 400 kHz at most and never clocked beyond 25 MHz: sd_init sets
\* the fast clock only for a card that has its address, and each of the calls of sd_clk
\* divides far enough on controllers of every version.
THEOREM ClockStaysWithinLimits == Spec => []ClockWithinLimits
<1>1. ClockInv => ClockWithinLimits
  BY DEF ClockInv
<1> QED BY <1>1, ClockInvHolds, PTL

-----------------------------------------------------------------------------
(* sd_init. *)

LEMMA FlagsStep == CallInv /\ FlagsInv /\ [Next]_vars => FlagsInv'
<1> SUFFICES ASSUME CallInv, FlagsInv, [Next]_vars PROVE FlagsInv'
  OBVIOUS
<1> USE DEF Ccs
<1>0. /\ pc \in InitLabels => began <= faults /\ ~initOk
      /\ pc \in AfterIfCond => card.version = 2
      /\ pc \in AfterIfCond \ {"op_cond"} => ccs = card.ccs
      /\ pc = "width" => sd_scr = card.scr
      /\ initOk => Ccs = card.ccs
      /\ began \in Nat /\ faults \in Nat /\ (initOk \in BOOLEAN)
      /\ card.ccs \in BOOLEAN /\ ("CCS" \in card.scr => card.version = 1)
  BY CardsAssumption, SizesAssumption DEF FlagsInv, CallInv, TypeOK
<1>1. CASE Client
  <2>1. pc' = "reset" => began' <= faults' /\ ~initOk'
    BY <1>0, <1>1, ClientFrame
  <2>2. pc' \in {"reset", "status", "done"}
    BY <1>1, ClientFrame
  <2>3. initOk' => Ccs' = card'.ccs
    BY <1>0, <1>1, ClientFrame
  <2> QED BY <2>1, <2>2, <2>3 DEF FlagsInv, InitLabels, Identifying, AfterIfCond
<1>2. CASE TransferStep
  <2>1. pc' \in TransferLabels \cup {"caller"} /\ UNCHANGED <<initOk, sd_scr, card>>
    BY <1>2, TransferFrame
  <2> QED BY <1>0, <2>1 DEF FlagsInv, InitLabels, Identifying, AfterIfCond, TransferLabels
<1>3. CASE InitStep
  <2>0. pc \in InitLabels /\ ~initOk /\ UNCHANGED <<card, began>>
    BY <1>0, <1>3, InitFrame
  <2>1. faults' \in Nat /\ faults' >= faults
    <3>1. ASSUME NEW k, k # "SET_BLOCKCNT", NEW a, NEW o \in CmdOutcomes(k, a), Sends(k, a, o)
          PROVE  faults' \in Nat /\ faults' >= faults
      BY <1>0, <3>1, CommandCard DEF Sendable, Sends
    <3>2. Fault \/ NoFault \/ \E k : k # "SET_BLOCKCNT" /\ \E a : \E o \in CmdOutcomes(k, a) : Sends(k, a, o)
      BY <1>3 DEF InitStep, Reset, ClkSlow, SetClock, GoIdle, IfCond, Command, OpCond, Cid, RelAddr, ClkFast,
         Select, Line, ScrCmd, ScrReady, ScrRead, Width, Frees, StaysBusy
    <3> QED BY <1>0, <3>1, <3>2 DEF Fault, NoFault
  <2>2. began' <= faults'
    BY <1>0, <2>0, <2>1
  <2>3. ASSUME pc' \in AfterIfCond, pc \notin AfterIfCond PROVE IfCond /\ pc' = "op_cond"
    BY <1>3, <2>0, <2>3
    DEF InitStep, Reset, ClkSlow, SetClock, GoIdle, IfCond, Command, OpCond, Cid, RelAddr, ClkFast, At, Go, Exit, ExitOr,
        Select, Line, ScrCmd, ScrReady, ScrRead, Width, AfterIfCond
  <2>4. ASSUME IfCond, pc' = "op_cond" PROVE card.version = 2
    <3>1. PICK o \in CmdOutcomes("SEND_IF_COND", 0) : ExitOr(o.err, "op_cond")
      BY <2>4 DEF IfCond, Command
    <3>2. o.err = "OK"
      BY <2>4, <3>1 DEF ExitOr, Exit
    <3>3. Executes(sd, "SEND_IF_COND", 0)
      BY <3>2, CommandAnswered DEF AppCommands
    <3> QED BY <3>3 DEF Executes, AppCommands
  <2>5. pc' \in AfterIfCond => card'.version = 2
    BY <1>0, <2>0, <2>3, <2>4
  <2>6. ASSUME pc' \in AfterIfCond \ {"op_cond"} PROVE ccs' = card'.ccs
    <3>1. CASE OpCond
      <4>1. PICK o \in CmdOutcomes("SEND_OP_COND", 0) : AfterOpCond(o)
        BY <3>1 DEF OpCond
      <4> DEFINE error == o.err = "ERROR" /\ ~Dangling(o)
      <4>2. AfterOpCondWith(error, o)
        BY <4>1 DEF AfterOpCond
      <4> HIDE DEF error
      <4>3. "COMPLETE" \in o.bits /\ ccs' = ("CCS" \in o.bits)
        BY <2>6, <4>2 DEF AfterOpCondWith, Go, Exit, Ready, AfterIfCond
      <4>4. ("CCS" \in o.bits) = card.ccs
        BY <4>3, OpCondBits
      <4> QED BY <2>0, <4>3, <4>4
    <3>2. CASE ~OpCond
      <4>1. pc \in AfterIfCond \ {"op_cond"} /\ UNCHANGED ccs
        BY <1>3, <2>0, <2>3, <2>6, <3>2
        DEF InitStep, Reset, ClkSlow, SetClock, GoIdle, IfCond, Command, Cid, RelAddr, ClkFast, At, Go, Exit, ExitOr,
            Select, Line, ScrCmd, ScrReady, ScrRead, Width, AfterIfCond, initVars
      <4> QED BY <1>0, <2>0, <4>1
    <3> QED BY <3>1, <3>2
  <2>7. pc' = "width" => sd_scr' = card'.scr
    BY <1>0, <1>3, <2>0
    DEF InitStep, Reset, ClkSlow, SetClock, GoIdle, IfCond, Command, OpCond, Cid, RelAddr, ClkFast, At, Go, Exit, ExitOr,
        Select, Line, ScrCmd, ScrReady, ScrRead, Width, AfterOpCond, AfterOpCondWith, Succeeds
  <2>8. CASE Width
    <3>1. sd_scr = card.scr /\ ccs = card.ccs /\ "CCS" \notin sd_scr
      BY <1>0, <2>8 DEF Width, At, AfterIfCond
    <3>2. ("CCS" \in Flags) = card.ccs
      BY <1>0, <3>1 DEF Flags, Cleared
    <3>3. initOk' => sd_scr' = Flags
      BY <1>0, <2>0, <2>8 DEF Width, Succeeds, Exit
    <3>4. pc' = "caller"
      BY <2>8 DEF Width, Succeeds, Exit
    <3> QED BY <2>0, <3>2, <3>3, <3>4 DEF FlagsInv, InitLabels, Identifying, AfterIfCond
  <2>9. CASE ~Width
    <3>1. ~initOk'
      BY <1>3, <2>0, <2>9
      DEF InitStep, Reset, ClkSlow, SetClock, GoIdle, IfCond, Command, OpCond, Cid, RelAddr, ClkFast,
          Select, Line, ScrCmd, ScrReady, ScrRead, Keep
    <3> QED BY <2>2, <2>5, <2>6, <2>7, <3>1 DEF FlagsInv
  <2> QED BY <2>8, <2>9
<1>4. CASE UNCHANGED vars
  BY <1>0, <1>4 DEF FlagsInv, vars, initVars, fixedVars, historyVars
<1> QED BY <1>1, <1>2, <1>3, <1>4 DEF Next

LEMMA FlagsInvHolds == Spec => []FlagsInv
<1>1. Init => FlagsInv
  BY DEF Init, FlagsInv, InitLabels, Identifying, AfterIfCond
<1> QED BY <1>1, FlagsStep, CallInvHolds, PTL DEF Spec

-----------------------------------------------------------------------------
(* A card that is not selected uses one line.  Only GO_IDLE, which sd_init sends *)
(* first, lets a card be deselected; only SET_BUS_WIDTH, which it sends last,     *)
(* gives it four lines.                                                          *)

Selected == {"tran", "data", "rcv"}
AfterSelect == {"line", "scr_cmd", "scr_ready", "scr_read", "starved", "width"}
Addressed == {"clk_fast", "select"} \cup AfterSelect

OneLine(s) == s.mode \notin Selected => s.width = 1

KnowInv ==
  /\ OneLine(sd)
  /\ pc \in AfterIfCond => sd.width = 1
  /\ pc \in InitLabels => width = 1
  /\ pc \in Addressed => sd_rca
  /\ pc \in AfterSelect => sd.mode \in Selected
  /\ DriverKnowsCard

LEMMA AfterWidth ==
  ASSUME NEW s \in CardStates, NEW k, NEW a, NEW r, r = After(s, k, a)
  PROVE  /\ k = "GO_IDLE" => r.width = 1
         /\ k = "SET_BUS_WIDTH" => r.width = 4
         /\ k \notin {"GO_IDLE", "SET_BUS_WIDTH"} => r.width = s.width
<1> DEFINE t == [s EXCEPT !.app = (k = "APP_CMD")]
<1>0. t \in CardStates /\ t.width = s.width
  BY CardUpdates DEF CardStates
<1> HIDE DEF t
<1>1. CASE k = "GO_IDLE"
  BY <1>1 DEF After, PowerUp, DataCommands
<1>2. CASE k \in {"ALL_SEND_CID", "SEND_REL_ADDR", "CARD_SELECT", "STOP_TRANS"}
  <2>1. r = [t EXCEPT !.mode = CASE k = "ALL_SEND_CID" -> "ident" [] k = "SEND_REL_ADDR" -> "stby" [] OTHER -> "tran"]
    BY <1>2 DEF After, DataCommands, t
  <2> QED BY <1>0, <1>2, <2>1 DEF CardStates
<1>3. CASE k = "SET_BUS_WIDTH"
  <2>1. r = [t EXCEPT !.width = 4]
    BY <1>3 DEF After, DataCommands, t
  <2> QED BY <1>0, <1>3, <2>1 DEF CardStates
<1>4. CASE k = "SET_BLOCKCNT"
  <2>1. r = [t EXCEPT !.preset = a]
    BY <1>4 DEF After, DataCommands, t
  <2> QED BY <1>0, <1>4, <2>1 DEF CardStates
<1>5. CASE k \in DataCommands /\ OnCard(a)
  <2> DEFINE m == IF k \in ReadCommands THEN "data" ELSE "rcv"
             l == IF k \in {"READ_MULTI", "WRITE_MULTI"} THEN s.preset ELSE 1
  <2>1. r = [t EXCEPT !.mode = m, !.pos = Place(a), !.limit = l, !.preset = Unlimited]
    BY <1>5 DEF After, DataCommands, t
  <2> HIDE DEF m, l
  <2>2. r.width = t.width
    BY <1>0, <2>1 DEF CardStates
  <2> QED BY <1>0, <1>5, <2>2 DEF DataCommands
<1>6. CASE /\ k \notin {"GO_IDLE", "ALL_SEND_CID", "SEND_REL_ADDR", "CARD_SELECT", "STOP_TRANS",
                       "SET_BUS_WIDTH", "SET_BLOCKCNT"}
           /\ ~(k \in DataCommands /\ OnCard(a))
  <2>1. r = t
    BY <1>6 DEF After, t
  <2> QED BY <1>0, <1>6, <2>1
<1> QED BY <1>1, <1>2, <1>3, <1>4, <1>5, <1>6

\* What a command does to the selection of the card and to its lines.
Keeps(s, k, r) ==
  /\ OneLine(r)
  /\ k \notin {"GO_IDLE", "SET_BUS_WIDTH"} => r.width = s.width
  /\ k # "GO_IDLE" /\ s.mode \in Selected => r.mode \in Selected

LEMMA ExecutedLines ==
  ASSUME NEW s \in CardStates, OneLine(s), NEW k, NEW a, Executes(s, k, a), NEW t \in Taken(s, k, a)
  PROVE  Keeps(s, k, t.sd)
<1>1. CASE k = "SEND_OP_COND" /\ t.sd = Powered(s)
  <2>1. s.mode = "idle"
    BY <1>1 DEF Executes
  <2>2. Powered(s).mode = "ready" /\ Powered(s).width = s.width
    BY DEF Powered, CardStates
  <2> QED BY <1>1, <2>1, <2>2 DEF Keeps, OneLine, Selected
<1>2. CASE t.sd = After(s, k, a)
  <2> DEFINE r == After(s, k, a)
  <2> SUFFICES Keeps(s, k, r)
    BY <1>2
  <2>1. /\ k = "GO_IDLE" => r = PowerUp
        /\ k = "ALL_SEND_CID" => r.mode = "ident"
        /\ k = "SEND_REL_ADDR" => r.mode = "stby"
        /\ k \in {"CARD_SELECT", "STOP_TRANS"} => r.mode = "tran"
        /\ k \in DataCommands /\ OnCard(a) => r.mode \in {"data", "rcv"}
        /\ \/ k \in {"GO_IDLE", "ALL_SEND_CID", "SEND_REL_ADDR", "CARD_SELECT", "STOP_TRANS"}
           \/ k \in DataCommands /\ OnCard(a)
           \/ r.mode = s.mode
    BY AfterMode
  <2>2. /\ k = "GO_IDLE" => r.width = 1
        /\ k \notin {"GO_IDLE", "SET_BUS_WIDTH"} => r.width = s.width
    BY AfterWidth
  <2>3. /\ k = "ALL_SEND_CID" => s.mode = "ready"
        /\ k = "SEND_REL_ADDR" => s.mode \in {"ident", "stby"}
        /\ k = "SET_BUS_WIDTH" => s.mode = "tran"
    BY DEF Executes
  <2> HIDE DEF r
  <2>4. CASE k = "GO_IDLE"
    BY <2>2, <2>4 DEF Keeps, OneLine
  <2>5. CASE k \in {"ALL_SEND_CID", "SEND_REL_ADDR"}
    <3>1. s.mode \notin Selected
      BY <2>3, <2>5 DEF Selected
    <3> QED BY <2>2, <2>5, <3>1 DEF Keeps, OneLine
  <2>6. CASE k \in {"CARD_SELECT", "STOP_TRANS"} \/ (k \in DataCommands /\ OnCard(a))
    <3>1. r.mode \in Selected
      BY <2>1, <2>6 DEF Selected
    <3>2. k \notin {"GO_IDLE", "SET_BUS_WIDTH"}
      BY <2>6 DEF DataCommands
    <3> QED BY <2>2, <3>1, <3>2 DEF Keeps, OneLine
  <2>7. CASE r.mode = s.mode /\ k # "GO_IDLE"
    <3>1. k = "SET_BUS_WIDTH" => s.mode \in Selected
      BY <2>3 DEF Selected
    <3> QED BY <2>2, <2>7, <3>1 DEF Keeps, OneLine
  <2> QED BY <2>1, <2>4, <2>5, <2>6, <2>7
<1> QED BY <1>1, <1>2, TakenCases

LEMMA OutcomeLines ==
  ASSUME NEW s \in CardStates, OneLine(s), NEW k, NEW a, NEW o \in Outcomes(s, k, a)
  PROVE  Keeps(s, k, o.sd)
<1>1. o.sd = s \/ (Executes(s, k, a) /\ \E t \in Taken(s, k, a) : o.sd = t.sd)
  BY OutcomeCases DEF Answered, Unanswered, Lost
<1>2. Keeps(s, k, s)
  BY DEF Keeps
<1> QED BY <1>1, <1>2, ExecutedLines

LEMMA CommandLines ==
  ASSUME CallInv, OneLine(sd), NEW k, NEW a, NEW o \in CmdOutcomes(k, a)
  PROVE  Keeps(sd, k, o.sd)
<1>1. sd \in CardStates /\ Counts(sd)
  BY DEF CallInv, TypeOK, CallShape
<1>2. CASE k \notin AppCommands /\ o \in Outcomes(sd, k, a)
  BY <1>1, <1>2, OutcomeLines
<1>3. CASE k \in AppCommands
  <2>1. PICK p \in Outcomes(sd, "APP_CMD", sd_rca) :
          \/ o = Outcome(p.sd, "ERROR", {}, p.cost)
          \/ \E q \in Outcomes(p.sd, k, a) :
               o = Outcome(q.sd, IF q.err = "OK" THEN p.err ELSE q.err, q.bits, p.cost + q.cost)
    BY <1>3, CommandCases
  <2>2. p.sd \in CardStates
    BY <1>1, OutcomeCard DEF Sendable
  <2>3. Keeps(sd, "APP_CMD", p.sd)
    BY <1>1, OutcomeLines
  <2>4. o.sd = p.sd \/ \E q \in Outcomes(p.sd, k, a) : o.sd = q.sd
    BY <2>1 DEF Outcome
  <2>5. o.sd = p.sd \/ Keeps(p.sd, k, o.sd)
    BY <2>2, <2>3, <2>4, OutcomeLines DEF Keeps
  <2> QED BY <2>3, <2>5 DEF Keeps
<1> QED BY <1>2, <1>3, CommandCases

\* SET_BUS_WIDTH has been answered: the card uses four lines.
LEMMA BusWidthAnswered ==
  ASSUME CallInv, NEW a, NEW o \in CmdOutcomes("SET_BUS_WIDTH", a), o.err = "OK"
  PROVE  o.sd.width = 4
<1>1. sd \in CardStates /\ Counts(sd)
  BY DEF CallInv, TypeOK, CallShape
<1>2. PICK p \in Outcomes(sd, "APP_CMD", sd_rca) :
        \/ o = Outcome(p.sd, "ERROR", {}, p.cost)
        \/ \E q \in Outcomes(p.sd, "SET_BUS_WIDTH", a) :
             o = Outcome(q.sd, IF q.err = "OK" THEN p.err ELSE q.err, q.bits, p.cost + q.cost)
  BY CommandCases DEF AppCommands
<1>3. p.sd \in CardStates
  BY <1>1, OutcomeCard DEF Sendable
<1>4. PICK q \in Outcomes(p.sd, "SET_BUS_WIDTH", a) :
        o.sd = q.sd /\ o.err = (IF q.err = "OK" THEN p.err ELSE q.err)
  BY <1>2 DEF Outcome
<1>5. q.err = "OK"
  BY <1>4
<1>6. Answered(p.sd, "SET_BUS_WIDTH", a, q)
  BY <1>5, OutcomeCases
<1>7. q.sd = After(p.sd, "SET_BUS_WIDTH", a)
  BY <1>6, TakenOnce DEF Answered
<1> QED BY <1>3, <1>4, <1>7, AfterWidth

\* A transfer leaves the lines of the card alone, and selected.
LEMMA TransferLines ==
  ASSUME CallInv, OneLine(sd), TransferStep
  PROVE  Keeps(sd, "READ_SINGLE", sd')
<1>0. sd \in CardStates /\ Keeps(sd, "READ_SINGLE", sd)
  BY DEF CallInv, TypeOK, Keeps
<1>1. ASSUME NEW k, k \notin {"GO_IDLE", "SET_BUS_WIDTH"}, NEW a, NEW o \in CmdOutcomes(k, a), Sends(k, a, o)
      PROVE  Keeps(sd, "READ_SINGLE", sd')
  <2>1. Keeps(sd, k, o.sd)
    BY CommandLines
  <2> QED BY <1>1, <2>1 DEF Keeps, Sends
<1>2. CASE Status \/ Flush
  BY <1>0, <1>2 DEF Status, Flush
<1>3. CASE Preset \/ Stop
  BY <1>0, <1>1, <1>3 DEF Preset, Stop
<1>4. CASE Start \/ Loop
  <2>1. sd' = sd \/ \E k \in DataCommands : \E a : \E o \in CmdOutcomes(k, a) : Sends(k, a, o)
    BY <1>4 DEF Start, Loop, SendsData, Single, Multi, DataCommands
  <2> QED BY <1>0, <1>1, <2>1 DEF DataCommands
<1>5. CASE Block
  <2>1. CASE sd' = sd
    BY <1>0, <2>1
  <2>2. CASE Moves /\ (sd' = Passed \/ sd' = [sd EXCEPT !.mode = "tran"])
    <3>1. sd.pos \in Blocks /\ sd.mode \in {"data", "rcv"}
      BY <2>2 DEF Moves
    <3>2. Passed.mode \in {"data", "rcv", "tran"}
      BY <1>0, <3>1, PassedCard DEF CallInv, TypeOK
    <3>3. Passed.width = sd.width
      BY <1>0 DEF Passed, CardStates
    <3>4. [sd EXCEPT !.mode = "tran"].mode = "tran" /\ [sd EXCEPT !.mode = "tran"].width = sd.width
      BY <1>0 DEF CardStates
    <3> HIDE DEF Passed
    <3> QED BY <2>2, <3>2, <3>3, <3>4 DEF Keeps, OneLine, Selected
  <2> QED BY <1>5, <2>1, <2>2 DEF Block
<1> QED BY <1>2, <1>3, <1>4, <1>5 DEF TransferStep

LEMMA KnowInitStep == CallInv /\ FlagsInv /\ FlagsInv' /\ KnowInv /\ InitStep => KnowInv'
<1> SUFFICES ASSUME CallInv, FlagsInv, FlagsInv', KnowInv, InitStep PROVE KnowInv'
  OBVIOUS
<1>0. /\ OneLine(sd) /\ sd \in CardStates
      /\ pc \in AfterIfCond => sd.width = 1
      /\ pc \in InitLabels => width = 1
      /\ pc \in Addressed => sd_rca
      /\ pc \in AfterSelect => sd.mode \in Selected
      /\ pc \in InitLabels /\ ~initOk
  BY InitFrame DEF KnowInv, FlagsInv, CallInv, TypeOK
\* Until sd_init has succeeded.
<1>1. ASSUME OneLine(sd'), pc' \in AfterIfCond => sd'.width = 1, pc' \in InitLabels => width' = 1,
             pc' \in Addressed => sd_rca', pc' \in AfterSelect => sd'.mode \in Selected, ~initOk'
      PROVE  KnowInv'
  BY <1>1 DEF KnowInv, OneLine, DriverKnowsCard
\* A command that leaves the card selected, and its address.
<1>2. ASSUME NEW here, NEW k, k \notin {"GO_IDLE", "SET_BUS_WIDTH"}, NEW a, NEW label, Command(here, k, a, label),
             UNCHANGED <<width, sd_rca>>, here \in AfterIfCond, here \in Addressed,
             label \in AfterSelect => here \in AfterSelect
      PROVE  KnowInv'
  <2>1. PICK o \in CmdOutcomes(k, a) : sd' = o.sd
    BY <1>2 DEF Command, Sends
  <2>2. Keeps(sd, k, sd')
    BY <1>0, <2>1, CommandLines
  <2>3. pc = here /\ pc' \in {label, "caller"} /\ ~initOk'
    BY <1>0, <1>2 DEF Command, At, ExitOr, Exit, Keep
  <2>4. "caller" \notin AfterSelect
    BY DEF AfterSelect
  <2> QED BY <1>0, <1>1, <1>2, <2>2, <2>3, <2>4 DEF Keeps
\* Steps that send nothing.
<1>3. CASE Reset \/ ClkSlow \/ Line \/ ScrReady \/ ScrRead
  BY <1>0, <1>1, <1>3
  DEF Reset, ClkSlow, SetClock, Line, ScrReady, ScrRead, At, Keep, Go, Exit, initVars, AfterIfCond, InitLabels,
      Identifying, Addressed, AfterSelect
<1>4. CASE ClkFast
  BY <1>0, <1>1, <1>4
  DEF ClkFast, SetClock, At, Keep, Go, Exit, AfterIfCond, InitLabels, Identifying, Addressed, AfterSelect
<1>5. CASE GoIdle
  <2>1. PICK o \in CmdOutcomes("GO_IDLE", 0) : sd' = o.sd
    BY <1>5 DEF GoIdle, Command, Sends
  <2>2. OneLine(sd')
    BY <1>0, <2>1, CommandLines DEF Keeps
  <2>3. pc = "go_idle" /\ pc' \in {"if_cond", "caller"} /\ ~initOk' /\ UNCHANGED <<width, sd_rca>>
    BY <1>0, <1>5 DEF GoIdle, Command, At, ExitOr, Exit, Keep, initVars
  <2> QED BY <1>0, <1>1, <2>2, <2>3 DEF AfterIfCond, Addressed, AfterSelect
<1>6. CASE IfCond
  <2>1. PICK o \in CmdOutcomes("SEND_IF_COND", 0) : sd' = o.sd /\ ExitOr(o.err, "op_cond")
    BY <1>6 DEF IfCond, Command, Sends
  <2>2. OneLine(sd') /\ sd'.width = sd.width
    BY <1>0, <2>1, CommandLines DEF Keeps
  <2>3. pc = "if_cond" /\ pc' \in {"op_cond", "caller"} /\ ~initOk' /\ UNCHANGED <<width, sd_rca>>
    BY <1>0, <1>6 DEF IfCond, Command, At, ExitOr, Exit, Keep, initVars
  <2>4. pc' = "op_cond" => sd.width = 1
    <3>1. SUFFICES ASSUME pc' = "op_cond" PROVE sd.width = 1
      OBVIOUS
    <3>2. o.err = "OK"
      BY <2>1, <3>1 DEF ExitOr, Exit
    <3>3. Executes(sd, "SEND_IF_COND", 0)
      BY <3>2, CommandAnswered DEF AppCommands
    <3>4. sd.mode = "idle"
      BY <3>3 DEF Executes
    <3> QED BY <1>0, <3>4 DEF OneLine, Selected
  <2> QED BY <1>0, <1>1, <2>2, <2>3, <2>4 DEF AfterIfCond, Addressed, AfterSelect
<1>7. CASE OpCond \/ Cid
  <2>1. PICK k \in {"SEND_OP_COND", "ALL_SEND_CID"} : \E o \in CmdOutcomes(k, 0) : sd' = o.sd
    BY <1>7 DEF OpCond, Cid, Sends
  <2>2. OneLine(sd') /\ sd'.width = sd.width
    BY <1>0, <2>1, CommandLines DEF Keeps
  <2>3. pc \in {"op_cond", "cid"} /\ pc' \in {"op_cond", "cid", "rel_addr", "caller"} /\ ~initOk'
        /\ UNCHANGED <<width, sd_rca>>
    BY <1>0, <1>7 DEF OpCond, AfterOpCond, AfterOpCondWith, Cid, At, Go, Exit, Keep, initVars
  <2> QED BY <1>0, <1>1, <2>2, <2>3 DEF AfterIfCond, Addressed, AfterSelect
<1>8. CASE RelAddr
  <2>1. PICK o \in CmdOutcomes("SEND_REL_ADDR", 0) :
          sd' = o.sd /\ sd_rca' = ("RCA" \in o.bits) /\ ExitOr(o.err, "clk_fast")
    BY <1>8 DEF RelAddr, Sends
  <2>2. OneLine(sd') /\ sd'.width = sd.width
    BY <1>0, <2>1, CommandLines DEF Keeps
  <2>3. pc = "rel_addr" /\ pc' \in {"clk_fast", "caller"} /\ ~initOk' /\ UNCHANGED width
    BY <1>0, <1>8, <2>1 DEF RelAddr, At, ExitOr, Exit, Keep
  <2>4. pc' = "clk_fast" => sd_rca'
    <3>1. SUFFICES ASSUME pc' = "clk_fast" PROVE sd_rca'
      OBVIOUS
    <3>2. o.err = "OK"
      BY <2>1, <3>1 DEF ExitOr, Exit
    <3>3. o.bits = Bits("SEND_REL_ADDR", 0)
      BY <3>2, CommandAnswered DEF AppCommands
    <3> QED BY <2>1, <3>3 DEF Bits, DataCommands
  <2> QED BY <1>0, <1>1, <2>2, <2>3, <2>4 DEF AfterIfCond, Addressed, AfterSelect
<1>9. CASE Select
  <2>1. PICK o \in CmdOutcomes("CARD_SELECT", sd_rca) : sd' = o.sd /\ ExitOr(o.err, "line")
    BY <1>9 DEF Select, Command, Sends
  <2>2. OneLine(sd') /\ sd'.width = sd.width
    BY <1>0, <2>1, CommandLines DEF Keeps
  <2>3. pc = "select" /\ pc' \in {"line", "caller"} /\ ~initOk' /\ UNCHANGED <<width, sd_rca>>
    BY <1>0, <1>9 DEF Select, Command, At, ExitOr, Exit, Keep, initVars
  <2>4. pc' = "line" => sd'.mode \in Selected
    <3>1. SUFFICES ASSUME pc' = "line" PROVE sd'.mode \in Selected
      OBVIOUS
    <3>2. o.err = "OK"
      BY <2>1, <3>1 DEF ExitOr, Exit
    <3>3. o.sd = After(sd, "CARD_SELECT", sd_rca)
      BY <3>2, CommandAnswered DEF AppCommands
    <3>4. o.sd.mode = "tran"
      BY <1>0, <3>3, AfterMode
    <3> QED BY <2>1, <3>4 DEF Selected
  <2> QED BY <1>0, <1>1, <2>2, <2>3, <2>4 DEF AfterIfCond, Addressed, AfterSelect
<1>10. CASE ScrCmd
  <2>1. Command("scr_cmd", "SEND_SCR", 0, "scr_ready") /\ UNCHANGED <<width, sd_rca>>
    BY <1>10 DEF ScrCmd, initVars
  <2> QED BY <1>2, <2>1 DEF AfterIfCond, Addressed, AfterSelect
<1>11. CASE Width
  <2>1. pc = "width" /\ pc' = "caller" /\ UNCHANGED <<sd_rca, card>>
    BY <1>11 DEF Width, At, Succeeds, Exit, fixedVars
  <2>2. sd_rca /\ sd.width = 1 /\ width = 1 /\ sd.mode \in Selected /\ sd_scr = card.scr
    BY <1>0, <2>1 DEF AfterIfCond, Addressed, AfterSelect, InitLabels, FlagsInv
  <2>3. ("SET_BLKCNT" \in Flags) = ("SET_BLKCNT" \in card.scr)
    BY <2>2 DEF Flags, Cleared
  <2>4. initOk' => Ccs' = card'.ccs
    BY DEF FlagsInv
  <2>5. initOk' => sd_scr' = Flags
    BY <1>0, <1>11 DEF Width, Succeeds, Exit
  <2>6. OneLine(sd') /\ sd'.mode \in Selected /\ (initOk' => sd'.width = width')
    <3>1. CASE UNCHANGED <<sd, width>>
      BY <1>0, <2>2, <3>1
    <3>2. ASSUME NEW o \in CmdOutcomes("SET_BUS_WIDTH", sd_rca), sd' = o.sd,
                 (o.err = "OK" /\ width' = 4) \/ ~initOk'
          PROVE  OneLine(sd') /\ sd'.mode \in Selected /\ (initOk' => sd'.width = width')
      <4>1. Keeps(sd, "SET_BUS_WIDTH", o.sd)
        BY <1>0, CommandLines
      <4>2. o.err = "OK" => o.sd.width = 4
        BY BusWidthAnswered
      <4> QED BY <2>2, <3>2, <4>1, <4>2 DEF Keeps
    <3> QED BY <1>0, <1>11, <3>1, <3>2 DEF Width, Sends, Succeeds
  <2>7. DriverKnowsCard'
    BY <2>1, <2>2, <2>3, <2>4, <2>5, <2>6 DEF DriverKnowsCard, Selected, SetBlkcnt
  <2> QED BY <2>1, <2>6, <2>7 DEF KnowInv, OneLine, InitLabels, Identifying, AfterIfCond, Addressed, AfterSelect
<1> QED BY <1>3, <1>4, <1>5, <1>6, <1>7, <1>8, <1>9, <1>10, <1>11 DEF InitStep

LEMMA KnowStep == CallInv /\ FlagsInv /\ FlagsInv' /\ KnowInv /\ [Next]_vars => KnowInv'
<1> SUFFICES ASSUME CallInv, FlagsInv, FlagsInv', KnowInv, [Next]_vars PROVE KnowInv'
  OBVIOUS
<1>1. CASE Client
  <2>1. pc' \in {"reset", "status", "done"} /\ UNCHANGED <<card, sd_scr, sd_rca, sd>>
    BY <1>1, ClientFrame
  <2>2. pc' = "reset" => width' = 1 /\ ~initOk'
    BY <1>1 DEF Client, MainInit, MainWrite, MainEnds, Rpi_Emmc, read_sync, write_sync, Call, CallInit
  <2>3. pc' # "reset" => UNCHANGED <<width, initOk>>
    BY <1>1 DEF Client, MainInit, MainWrite, MainEnds, Rpi_Emmc, read_sync, write_sync, Call, CallInit,
                initVars, historyVars
  <2>4. DriverKnowsCard'
    BY <2>1, <2>2, <2>3 DEF KnowInv, DriverKnowsCard, Ccs, SetBlkcnt
  <2>5. OneLine(sd)'
    BY <2>1 DEF KnowInv, OneLine
  <2> QED BY <2>1, <2>2, <2>4, <2>5 DEF KnowInv, InitLabels, Identifying, AfterIfCond, Addressed, AfterSelect
<1>2. CASE TransferStep
  <2>1. pc' \in TransferLabels \cup {"caller"} /\ UNCHANGED <<card, sd_scr, sd_rca, width, initOk>>
    BY <1>2, TransferFrame
  <2>2. Keeps(sd, "READ_SINGLE", sd')
    BY <1>2, TransferLines DEF KnowInv
  <2>3. sd'.width = sd.width /\ (sd.mode \in Selected => sd'.mode \in Selected) /\ OneLine(sd)'
    BY <2>2 DEF Keeps, OneLine
  <2>4. DriverKnowsCard'
    BY <2>1, <2>3 DEF KnowInv, DriverKnowsCard, Ccs, SetBlkcnt, Selected
  <2> QED BY <2>1, <2>3, <2>4 DEF KnowInv, TransferLabels, InitLabels, Identifying, AfterIfCond, Addressed, AfterSelect
<1>3. CASE InitStep
  BY <1>3, KnowInitStep
<1>4. CASE UNCHANGED vars
  BY <1>4 DEF KnowInv, OneLine, DriverKnowsCard, Ccs, SetBlkcnt, vars, initVars, fixedVars, historyVars
<1> QED BY <1>1, <1>2, <1>3, <1>4 DEF Next

\* After a sd_init that succeeded the driver knows the card until the next one: whether it
\* is selected, its address, its lines and its flags, in both copies of the driver, for
\* every kind of card and every number of faults.
THEOREM DriverKnowsCardAlways == Spec => []DriverKnowsCard
<1>1. Init => KnowInv
  BY DEF Init, PowerUp, KnowInv, OneLine, DriverKnowsCard, InitLabels, Identifying, AfterIfCond, Addressed,
         AfterSelect
<1>2. KnowInv => DriverKnowsCard
  BY DEF KnowInv
<1> QED BY <1>1, <1>2, KnowStep, FlagsInvHolds, CallInvHolds, PTL DEF Spec

-----------------------------------------------------------------------------
(* An sd_init without faults. *)

Healing ==
  /\ Following(pc, sd.mode)
  /\ pc # "reset" => latched = "none"
  /\ pc \in SlowLabels => ~sd_rca
  /\ pc \in AfterIfCond \ SlowLabels => sd_rca

LEMMA HealInitStep ==
  ASSUME CallInv, FlagsInv, HealInv, InitStep, Unhurt'
  PROVE  (pc' \in InitLabels => Healing') /\ (pc' = "caller" /\ try' > 0 => ret' = "OK")
<1> USE DEF InitLabels, Identifying, SlowLabels, AfterIfCond, AppCommands
<1>1. /\ pc \in InitLabels /\ UNCHANGED <<card, began>> /\ began <= faults
      /\ pc' \in InitLabels \cup {"caller"} /\ began \in Nat /\ faults \in Nat
      /\ sd \in CardStates /\ Counts(sd) /\ card.version = 2 /\ "caller" \notin InitLabels
      /\ try \in 0 .. MaxTries /\ sd_rca \in BOOLEAN
  BY InitFrame, SizesAssumption DEF FlagsInv, CallInv, TypeOK, CallShape, Unhurt
<1>2. ASSUME NEW k, k # "SET_BLOCKCNT", NEW a, NEW o \in CmdOutcomes(k, a), Sends(k, a, o)
      PROVE  o.cost = 0 /\ faults = began
  <2>1. o.cost \in Nat /\ faults' = faults + o.cost
    BY <1>2, CommandCard DEF Sendable, Sends
  <2> QED BY <1>1, <2>1 DEF Unhurt
<1>3. ~Fault /\ (NoFault => faults = began)
  BY <1>1 DEF Fault, NoFault, Unhurt
<1>4. faults = began
  <2>1. Fault \/ NoFault \/ \E k : k # "SET_BLOCKCNT" /\ \E a : \E o \in CmdOutcomes(k, a) : Sends(k, a, o)
    BY DEF InitStep, Reset, ClkSlow, SetClock, GoIdle, IfCond, Command, OpCond, Cid, RelAddr, ClkFast,
       Select, Line, ScrCmd, ScrReady, ScrRead, Width, Frees, StaysBusy
  <2> QED BY <1>2, <1>3, <2>1
<1>5. Healing
  BY <1>1, <1>4 DEF HealInv, Unhurt, Healing
<1>6. CASE Reset
  BY <1>3, <1>6 DEF Reset, Go, Healing, Following
<1>7. CASE ClkSlow
  BY <1>3, <1>5, <1>7 DEF ClkSlow, SetClock, At, Keep, hostVars, Go, Healing, Following
<1>8. CASE ClkFast
  BY <1>3, <1>5, <1>8 DEF ClkFast, SetClock, At, Keep, hostVars, Go, Healing, Following
\* A command that the card may execute leads to the next label.
<1>9. ASSUME NEW here \in InitLabels, NEW k, k \notin AppCommands \cup {"SET_BLOCKCNT"}, NEW a, NEW label,
             Command(here, k, a, label), here # "reset", Executes(sd, k, a)
      PROVE  pc' = label /\ sd' = After(sd, k, a) /\ latched' = "none"
  <2>1. PICK o \in CmdOutcomes(k, a) : Sends(k, a, o) /\ ExitOr(o.err, label)
    BY <1>9 DEF Command
  <2>2. latched = "none" /\ latched' = latched
    BY <1>5, <1>9 DEF Command, At, Healing, Keep, hostVars
  <2>3. o.cost = 0
    BY <1>2, <1>9, <2>1
  <2>4. o.err = "OK" /\ o.sd = After(sd, k, a)
    BY <1>9, <2>2, <2>3, CommandUnfaulted
  <2> QED BY <2>1, <2>2, <2>4 DEF ExitOr, Sends
<1>10. CASE GoIdle
  <2>1. Executes(sd, "GO_IDLE", 0)
    BY DEF Executes
  <2>2. pc' = "if_cond" /\ sd' = After(sd, "GO_IDLE", 0) /\ latched' = "none"
    BY <1>9, <1>10, <2>1 DEF GoIdle
  <2>3. sd'.mode = "idle"
    BY <1>1, <2>2, AfterMode DEF PowerUp
  <2> QED BY <1>5, <1>10, <2>2, <2>3 DEF GoIdle, Command, At, initVars, Healing, Following
<1>11. CASE IfCond
  <2>1. pc = "if_cond" /\ sd.mode = "idle"
    BY <1>5, <1>11 DEF IfCond, Command, At, Healing, Following
  <2>2. Executes(sd, "SEND_IF_COND", 0)
    BY <1>1, <2>1 DEF Executes
  <2>3. pc' = "op_cond" /\ sd' = After(sd, "SEND_IF_COND", 0) /\ latched' = "none"
    BY <1>9, <1>11, <2>2 DEF IfCond
  <2>4. sd'.mode = "idle"
    BY <1>1, <2>1, <2>3, AfterMode DEF DataCommands
  <2> QED BY <1>5, <1>11, <2>1, <2>3, <2>4 DEF IfCond, initVars, Healing, Following
<1>12. CASE Select
  <2>1. pc = "select" /\ sd.mode = "stby" /\ sd_rca
    BY <1>5, <1>12 DEF Select, Command, At, Healing, Following
  <2>2. Executes(sd, "CARD_SELECT", sd_rca)
    BY <2>1 DEF Executes
  <2>3. pc' = "line" /\ sd' = After(sd, "CARD_SELECT", sd_rca) /\ latched' = "none"
    BY <1>9, <1>12, <2>2 DEF Select
  <2>4. sd'.mode = "tran"
    BY <1>1, <2>3, AfterMode
  <2> QED BY <1>12, <2>1, <2>3, <2>4 DEF Select, initVars, Healing, Following
<1>13. CASE Cid
  <2>1. PICK o \in CmdOutcomes("ALL_SEND_CID", 0) : Sends("ALL_SEND_CID", 0, o)
    BY <1>13 DEF Cid
  <2>2. pc = "cid" /\ sd.mode = "ready" /\ latched = "none" /\ ~sd_rca
    BY <1>5, <1>13 DEF Cid, At, Healing, Following
  <2>3. Executes(sd, "ALL_SEND_CID", 0)
    BY <2>2 DEF Executes
  <2>4. o.sd = After(sd, "ALL_SEND_CID", 0)
    BY <1>2, <2>1, <2>2, <2>3, CommandUnfaulted
  <2>5. sd'.mode = "ident"
    BY <1>1, <2>1, <2>4, AfterMode DEF Sends
  <2> QED BY <1>13, <2>2, <2>5 DEF Cid, Go, Keep, hostVars, initVars, Healing, Following
<1>14. CASE RelAddr
  <2>1. PICK o \in CmdOutcomes("SEND_REL_ADDR", 0) :
          Sends("SEND_REL_ADDR", 0, o) /\ sd_rca' = ("RCA" \in o.bits) /\ ExitOr(o.err, "clk_fast")
    BY <1>14 DEF RelAddr
  <2>2. pc = "rel_addr" /\ sd.mode = "ident" /\ latched = "none"
    BY <1>5, <1>14 DEF RelAddr, At, Healing, Following
  <2>3. Executes(sd, "SEND_REL_ADDR", 0)
    BY <2>2 DEF Executes
  <2>4. o.err = "OK" /\ o.sd = After(sd, "SEND_REL_ADDR", 0) /\ o.bits = Bits("SEND_REL_ADDR", 0)
    BY <1>2, <2>1, <2>2, <2>3, CommandUnfaulted
  <2>5. sd'.mode = "stby"
    BY <1>1, <2>1, <2>4, AfterMode DEF Sends
  <2>6. "RCA" \in o.bits
    BY <2>4 DEF Bits, DataCommands
  <2> QED BY <1>14, <2>1, <2>2, <2>4, <2>5, <2>6 DEF RelAddr, ExitOr, Keep, hostVars, Healing, Following
<1>15. CASE Line
  BY <1>3, <1>5, <1>15 DEF Line, At, Keep, hostVars, initVars, Frees, StaysBusy, Go, Healing, Following
<1>16. CASE ScrReady
  BY <1>3, <1>5, <1>16 DEF ScrReady, At, Keep, hostVars, initVars, Go, Healing, Following
<1>17. CASE ScrRead
  BY <1>3, <1>5, <1>17 DEF ScrRead, At, Keep, hostVars, Go, Healing, Following
\* An application command.
<1>18. ASSUME NEW k \in AppCommands, NEW a, NEW o \in CmdOutcomes(k, a), Sends(k, a, o), latched = "none",
              \/ sd.mode = "idle" /\ k = "SEND_OP_COND" /\ ~sd_rca
              \/ sd.mode = "tran" /\ k # "SEND_OP_COND" /\ sd_rca
       PROVE  /\ o.err = "OK"
              /\ \E s \in CardStates : s.mode = sd.mode /\ \E t \in Taken(s, k, a) : o.sd = t.sd /\ o.bits = t.bits
  <2> DEFINE s == After(sd, "APP_CMD", sd_rca)
  <2>1. Executes(sd, "APP_CMD", sd_rca)
    BY <1>18 DEF Executes
  <2>2. s \in CardStates /\ s.app /\ s.mode = sd.mode
    BY <1>1, AfterCard, AfterMode DEF Sendable
  <2> HIDE DEF s
  <2>3. Executes(s, k, a)
    <3>1. CASE k = "SEND_OP_COND"
      BY <1>18, <2>2, <3>1 DEF Executes
    <3>2. CASE k # "SEND_OP_COND"
      BY <1>18, <2>2, <3>2 DEF Executes
    <3> QED BY <3>1, <3>2
  <2>4. o.cost = 0
    BY <1>2, <1>18
  <2>5. o.err = "OK" /\ \E t \in Taken(s, k, a) : o.sd = t.sd /\ o.bits = t.bits
    BY <1>18, <2>1, <2>3, <2>4, AppUnfaulted DEF s
  <2> QED BY <2>2, <2>5
<1>19. CASE ScrCmd
  <2>1. PICK o \in CmdOutcomes("SEND_SCR", 0) : Sends("SEND_SCR", 0, o) /\ ExitOr(o.err, "scr_ready")
    BY <1>19 DEF ScrCmd, Command
  <2>2. pc = "scr_cmd" /\ sd.mode = "tran" /\ latched = "none" /\ sd_rca
    BY <1>5, <1>19 DEF ScrCmd, Command, At, Healing, Following
  <2>3. PICK s \in CardStates : o.err = "OK" /\ s.mode = "tran" /\ o.sd = After(s, "SEND_SCR", 0)
    BY <1>18, <2>1, <2>2, TakenOnce
  <2>4. sd'.mode = "tran"
    BY <2>1, <2>3, AfterMode DEF Sends, DataCommands
  <2> QED BY <1>19, <2>1, <2>2, <2>3, <2>4
          DEF ScrCmd, Command, ExitOr, Keep, hostVars, initVars, Healing, Following
<1>20. CASE Width
  <2>1. pc = "width" /\ sd.mode = "tran" /\ latched = "none" /\ sd_rca
    BY <1>5, <1>20 DEF Width, At, Healing, Following
  <2>2. \A o \in CmdOutcomes("SET_BUS_WIDTH", sd_rca) : Sends("SET_BUS_WIDTH", sd_rca, o) => o.err = "OK"
    BY <1>18, <2>1
  <2> QED BY <1>1, <1>20, <2>2 DEF Width, Succeeds, Exit
<1>21. CASE OpCond
  <2>1. PICK o \in CmdOutcomes("SEND_OP_COND", 0) : Sends("SEND_OP_COND", 0, o) /\ AfterOpCond(o)
    BY <1>21 DEF OpCond
  <2>2. pc = "op_cond" /\ sd.mode = "idle" /\ latched = "none" /\ ~sd_rca
    BY <1>5, <1>21 DEF OpCond, At, Healing, Following
  <2>9. /\ o.err = "OK"
        /\ \E s \in CardStates :
             s.mode = sd.mode /\ \E t \in Taken(s, "SEND_OP_COND", 0) : o.sd = t.sd /\ o.bits = t.bits
    BY <1>18, <2>1, <2>2
  <2>10. PICK s \in CardStates :
           s.mode = sd.mode /\ \E t \in Taken(s, "SEND_OP_COND", 0) : o.sd = t.sd /\ o.bits = t.bits
    BY <2>9
  <2>11. PICK t \in Taken(s, "SEND_OP_COND", 0) : o.sd = t.sd /\ o.bits = t.bits
    BY <2>10
  <2>3. o.err = "OK" /\ s.mode = "idle"
    BY <2>2, <2>9, <2>10
  <2>4. \/ o.sd = After(s, "SEND_OP_COND", 0) /\ o.bits = {"VOLTAGE"}
        \/ o.sd = Powered(s) /\ o.bits = {"VOLTAGE", "COMPLETE"} \cup (IF card.ccs THEN {"CCS"} ELSE {})
    BY <2>11, TakenOpCond
  <2>5. AfterOpCondWith(FALSE, o)
    <3>1. o.err # "ERROR"
      BY <2>3
    <3> QED BY <2>1, <3>1 DEF AfterOpCond
  <2>6. (Ready(o) /\ sd'.mode = "ready" /\ "VOLTAGE" \in o.bits) \/ (~Ready(o) /\ sd'.mode = "idle")
    <3>1. CASE o.sd = After(s, "SEND_OP_COND", 0) /\ o.bits = {"VOLTAGE"}
      BY <2>1, <2>3, <3>1, AfterMode DEF Ready, Sends, DataCommands
    <3>2. CASE o.sd = Powered(s) /\ o.bits = {"VOLTAGE", "COMPLETE"} \cup (IF card.ccs THEN {"CCS"} ELSE {})
      <4>1. Powered(s).mode = "ready"
        BY DEF CardStates, Powered
      <4> QED BY <2>1, <3>2, <4>1 DEF Ready, Sends
    <3> QED BY <2>4, <3>1, <3>2
  <2>7. \/ pc' = "op_cond" /\ ~Ready(o)
        \/ pc' = "caller" /\ try = 1
        \/ pc' = "cid" /\ Ready(o)
    BY <2>5, <2>6 DEF AfterOpCondWith, Go, Exit
  <2>8. try' = try - 1 /\ latched' = "none" /\ sd_rca' = sd_rca
    BY <1>21, <2>2 DEF OpCond, Keep, hostVars
  <2> QED BY <1>1, <2>2, <2>6, <2>7, <2>8 DEF Healing, Following
<1> QED BY <1>6, <1>7, <1>8, <1>10, <1>11, <1>12, <1>13, <1>14, <1>15, <1>16, <1>17, <1>19, <1>20, <1>21
        DEF InitStep

LEMMA HealStep == CallInv /\ FlagsInv /\ HealInv /\ [Next]_vars => HealInv'
<1> SUFFICES ASSUME CallInv, FlagsInv, HealInv, [Next]_vars PROVE HealInv'
  OBVIOUS
<1>1. CASE Client
  <2>1. pc' # "caller" /\ (pc' \in InitLabels => pc' = "reset")
    BY <1>1, ClientFrame DEF InitLabels, Identifying
  <2>2. pc' = "reset" => Following(pc', sd'.mode) /\ pc' \notin SlowLabels /\ pc' \notin AfterIfCond
    BY DEF Following, SlowLabels, AfterIfCond
  <2> QED BY <2>1, <2>2 DEF HealInv, InitHeals, Returned
<1>2. CASE TransferStep
  <2>1. pc' \notin InitLabels
    BY <1>2, TransferFrame DEF InitLabels, Identifying, TransferLabels
  <2>2. op' # "init"
    BY <1>2, TransferFrame DEF CallInv, CallShape
  <2> QED BY <2>1, <2>2 DEF HealInv, InitHeals, Returned
<1>3. CASE InitStep
  <2>1. CASE Unhurt'
    <3>1. (pc' \in InitLabels => Healing') /\ (pc' = "caller" /\ try' > 0 => ret' = "OK")
      BY <1>3, <2>1, HealInitStep
    <3> QED BY <3>1 DEF HealInv, Healing, InitHeals, Returned
  <2>2. CASE ~Unhurt'
    BY <2>2 DEF HealInv, InitHeals, Unhurt
  <2> QED BY <2>1, <2>2
<1>4. CASE UNCHANGED vars
  BY <1>4 DEF HealInv, InitHeals, Returned, Unhurt, vars, fixedVars, initVars, hostVars, historyVars
<1> QED BY <1>1, <1>2, <1>3, <1>4 DEF Next

LEMMA HealInvHolds == Spec => []HealInv
<1>1. Init => HealInv
  BY DEF Init, HealInv, InitHeals, Returned, InitLabels, Identifying
<1> QED BY <1>1, HealStep, CallInvHolds, FlagsInvHolds, PTL DEF Spec

\* sd_init brings back a card of version 2 from whatever the calls before left, unless the
\* hardware fails again or all attempts of ACMD41 are used up: from the reset on, the card
\* is at every step in the state in which the next command is executed.
THEOREM InitBringsCardBack == Spec => []InitHeals
<1>1. HealInv => InitHeals
  BY DEF HealInv
<1> QED BY <1>1, HealInvHolds, PTL

-----------------------------------------------------------------------------
(* The blocks. *)

LEMMA DivTimes == ASSUME NEW n \in Nat, NEW m \in Nat \ {0} PROVE (n * m) \div m = n /\ 0 \div m = 0
BY SMT

\* The command of a transfer leads the card to the block that the driver means, if the
\* driver has the right capacity, or means the first block.
LEMMA DataCommandPlace ==
  ASSUME CallInv, NEW k \in DataCommands, NEW b \in Nat, NEW a,
         a = (IF Ccs THEN b ELSE b * BlockLen), Ccs = card.ccs \/ b = 0,
         NEW o \in CmdOutcomes(k, a), o.err = "OK"
  PROVE  o.sd.mode \in {"data", "rcv"} => o.sd.pos = b /\ o.sd.mode = (IF k \in ReadCommands THEN "data" ELSE "rcv")
<1>1. Executes(sd, k, a) /\ o.sd = After(sd, k, a) /\ sd \in CardStates
  BY CommandAnswered DEF DataCommands, AppCommands, CallInv, TypeOK
<1>2. sd.mode = "tran"
  BY <1>1 DEF Executes, DataCommands
<1>3. OnCard(a) => Place(a) = b
  <2>1. card.ccs \in BOOLEAN /\ BlockLen \in Nat \ {0} /\ 0 * BlockLen = 0
    BY CardsAssumption, SizesAssumption DEF CallInv, TypeOK
  <2>2. (b * BlockLen) \div BlockLen = b /\ 0 \div BlockLen = 0
    BY <2>1, DivTimes
  <2>3. CASE b = 0
    BY <2>1, <2>2, <2>3 DEF Place
  <2>4. CASE Ccs = card.ccs
    BY <2>1, <2>2, <2>4 DEF Place
  <2> QED BY <2>3, <2>4
<1> QED BY <1>1, <1>2, <1>3, AfterMode DEF DataCommands

LEMMA PlaceStep == CallInv /\ FlagsInv /\ PlaceInv /\ [Next]_vars => PlaceInv'
<1> SUFFICES ASSUME CallInv, FlagsInv, PlaceInv, [Next]_vars PROVE PlaceInv'
  OBVIOUS
<1>0. /\ lba \in Blocks /\ lba \in Nat /\ num \in 1 .. MaxNum /\ c \in 0 .. num /\ c \in Nat /\ num \in Nat
      /\ pc \in {"status", "preset", "start"} => c = 0
      /\ pc = "data" => c < num
      /\ op = "write" => num = 1
      /\ program = "main" => op # "read" /\ lba = 0
      /\ sd \in CardStates /\ BlockLen \in Nat /\ "data" \notin {"caller", "done", "reset", "status"}
  BY SizesAssumption DEF CallInv, TypeOK, CallShape, Blocks
<1>1. CASE Client
  <2>1. pc' \notin {"start", "loop", "flush", "stop", "data"}
    BY <1>1, ClientFrame
  <2> QED BY <2>1 DEF PlaceInv
<1>2. CASE InitStep
  <2>1. pc' \notin {"start", "loop", "flush", "stop", "data"}
    BY <1>2, InitFrame DEF InitLabels, Identifying
  <2> QED BY <2>1 DEF PlaceInv
<1>3. CASE TransferStep
  <2>0. UNCHANGED <<program, card, op, lba, num, sd_scr, initOk>> /\ op \in {"read", "write"}
    BY <1>3, TransferFrame DEF CallInv, CallShape
  <2>1. Sure' = Sure /\ Ccs' = Ccs
    BY <2>0 DEF Sure, Ccs
  <2>2. ASSUME pc' \notin {"start", "loop", "flush", "stop", "data"} PROVE PlaceInv'
    BY <2>2 DEF PlaceInv
  <2>3. CASE Status \/ Stop
    BY <2>2, <2>3 DEF Status, Stop, On, Return
  <2>4. CASE Preset
    <3>1. pc' = "loop" => ~Ccs
      BY <2>4 DEF Preset, On, Return
    <3>2. pc' \notin {"flush", "stop", "data"}
      BY <2>4 DEF Preset, On, Return
    <3>3. pc' = "start" => Ccs
      BY <2>4 DEF Preset, On, Return
    <3> QED BY <2>1, <3>1, <3>2, <3>3 DEF PlaceInv
\* A command that starts a transfer.
  <2>5. ASSUME NEW k \in {Single, Multi}, NEW n, UNCHANGED c,
               SendsData(k, IF Ccs THEN lba + c ELSE (lba + c) * BlockLen, n), pc \in {"start", "loop"}
        PROVE  PlaceInv'
    <3> DEFINE a == IF Ccs THEN lba + c ELSE (lba + c) * BlockLen
    <3>1. PICK o \in CmdOutcomes(k, a) : Sends(k, a, o) /\ IF o.err # "OK" THEN Return(0) ELSE On("data")
      BY <2>5 DEF SendsData
    <3> HIDE DEF a
    <3>2. CASE o.err # "OK"
      BY <2>2, <3>1, <3>2 DEF Return
    <3>3. CASE o.err = "OK"
      <4>1. pc' = "data" /\ sd' = o.sd
        BY <3>1, <3>3 DEF On, Sends
      <4>2. k \in DataCommands /\ (k \in ReadCommands) = (op = "read")
        BY <2>0, <2>5 DEF Single, Multi, DataCommands, ReadCommands
      <4>3. ASSUME Ccs = card.ccs \/ lba + c = 0 PROVE sd'.mode \in {"data", "rcv"} => sd'.pos = lba + c
        BY <1>0, <3>3, <4>1, <4>2, <4>3, DataCommandPlace DEF a
      <4>4. initOk => Ccs = card.ccs
        BY DEF FlagsInv
      <4>5. op = "write" /\ c < num => c = 0
        BY <1>0
      <4>6. op = "write" /\ pc = "start" => c = 0
        BY <1>0
      <4>7. CallInv'
        BY <1>3, TransferTypeSteps
      <4>8. c' < num'
        BY <4>1, <4>7 DEF CallInv, CallShape
      <4>9. op = "write" => c = 0
        BY <1>0, <2>0, <2>5, <4>5, <4>8
      <4>10. op' = "write" /\ Sure' /\ sd'.mode = "rcv" => sd'.pos = lba'
        BY <1>0, <2>0, <2>1, <4>3, <4>4, <4>9 DEF Sure
      <4>11. initOk' /\ sd'.mode = "data" => sd'.pos = lba' + c'
        BY <2>0, <2>5, <4>3, <4>4
      <4> QED BY <4>1, <4>10, <4>11 DEF PlaceInv
    <3> QED BY <3>2, <3>3
  <2>6. CASE Start
    <3>1. Ccs /\ c = 0 /\ lba + c = lba
      BY <1>0, <2>6 DEF PlaceInv, Start, In
    <3> QED BY <2>5, <2>6, <3>1 DEF Start, In
  <2>7. CASE Loop
    <3>1. CASE c < num /\ ~Ccs /\ SendsData(Single, (lba + c) * BlockLen, 1)
      BY <2>5, <2>7, <3>1 DEF Loop, In
    <3>2. CASE c < num /\ Ccs /\ On("data") /\ NoFault /\ UNCHANGED <<sd, sd_err, left>>
      <4>1. pc = "loop" /\ UNCHANGED c /\ c >= 1 /\ pc' = "data" /\ UNCHANGED sd
        BY <2>7, <3>2 DEF Loop, In, On, PlaceInv
      <4>2. op # "write"
        BY <1>0, <3>2, <4>1
      <4> QED BY <1>0, <2>0, <3>2, <4>1, <4>2 DEF PlaceInv
    <3>3. CASE c = num /\ (On("flush") \/ On("stop"))
      BY <2>0, <2>7, <3>3 DEF Loop, On, PlaceInv
    <3> QED BY <2>7, <3>1, <3>2, <3>3 DEF Loop
  <2>8. CASE Block
    <3>1. pc = "data" /\ c < num
      BY <1>0, <2>8 DEF Block, In
    <3>2. CASE Moves /\ c' = c + 1 /\ On("loop") /\ (sd' = Passed \/ sd' = [sd EXCEPT !.mode = "tran"])
      <4>1. sd.pos \in Blocks /\ sd.mode = (IF op = "read" THEN "data" ELSE "rcv") /\ sd.pos \in Nat
        BY <3>2, SizesAssumption DEF Moves, Blocks
      <4>2. Passed.pos = sd.pos + 1 /\ [sd EXCEPT !.mode = "tran"].mode = "tran"
        BY <1>0, <4>1, PassedCard DEF CardStates
      <4>3. sd'.mode = "data" => sd'.pos = sd.pos + 1
        BY <3>2, <4>2
      <4>4. initOk /\ op = "read" => sd.pos = lba + c
        BY <3>1, <4>1 DEF PlaceInv
      <4>5. initOk' /\ op' = "read" /\ sd'.mode = "data" => sd'.pos = lba' + c'
        BY <1>0, <2>0, <3>2, <4>1, <4>3, <4>4
      <4>6. c' >= 1 /\ pc' = "loop"
        BY <1>0, <3>2 DEF On
      <4> QED BY <4>5, <4>6 DEF PlaceInv
    <3>3. CASE Return(0)
      BY <2>2, <3>3 DEF Return
    <3> QED BY <2>8, <3>2, <3>3 DEF Block
  <2>9. CASE Flush
    <3>1. pc = "flush" /\ UNCHANGED c /\ (On("stop") \/ Return(0))
      BY <2>9 DEF Flush, In
    <3> QED BY <2>0, <2>2, <3>1 DEF On, Return, PlaceInv
  <2> QED BY <1>3, <2>3, <2>4, <2>6, <2>7, <2>8, <2>9 DEF TransferStep
<1>4. CASE UNCHANGED vars
  BY <1>4 DEF PlaceInv, Sure, Ccs, vars, fixedVars, callVars, initVars, historyVars
<1> QED BY <1>1, <1>2, <1>3, <1>4 DEF Next

LEMMA PlaceInvHolds == Spec => []PlaceInv
<1>1. Init => PlaceInv
  BY DEF Init, PlaceInv
<1> QED BY <1>1, PlaceStep, CallInvHolds, FlagsInvHolds, PTL DEF Spec

\* What a step does to the blocks of the card: only a block of a write that moves is stored,
\* at the place where the card is.
LEMMA DiskChanges ==
  ASSUME CallInv, [Next]_vars
  PROVE  \/ UNCHANGED disk
         \/ /\ pc = "data" /\ op = "write" /\ c = 0 /\ num = 1 /\ sd.mode = "rcv" /\ sd.pos \in Blocks
            /\ disk' = [disk EXCEPT ![sd.pos] = buf[0]]
<1>1. CASE Client
  BY <1>1, ClientFrame
<1>2. CASE InitStep
  BY <1>2, InitFrame
<1>3. CASE Block
  <2>1. pc = "data" /\ c \in Nat /\ c < num /\ (op = "write" => num = 1)
    BY <1>3, SizesAssumption DEF Block, In, CallInv, TypeOK, CallShape
  <2>2. CASE Moves /\ disk' = (IF op = "write" THEN [disk EXCEPT ![sd.pos] = buf[c]] ELSE disk)
    <3>1. CASE op = "write"
      <4>1. c = 0 /\ num = 1
        BY <2>1, <3>1
      <4> QED BY <2>1, <2>2, <3>1, <4>1 DEF Moves
    <3> QED BY <2>2, <3>1
  <2> QED BY <1>3, <2>2 DEF Block
<1>4. CASE Status \/ Preset \/ Start \/ Loop \/ Flush \/ Stop
  BY <1>4 DEF Status, Preset, Start, Loop, Flush, Stop
<1>5. CASE UNCHANGED vars
  BY <1>5 DEF vars
<1> QED BY <1>1, <1>2, <1>3, <1>4, <1>5 DEF Next, TransferStep

\* A block changes only during a write of that block, for main also after a failed sd_init.
THEOREM BlocksStayInPlace == Spec => BlocksLandInPlace
<1>1. ASSUME CallInv, PlaceInv, [Next]_vars, NEW b \in Blocks, disk'[b] # disk[b], initOk \/ program = "main"
      PROVE  op = "write" /\ b \in lba .. lba + num - 1
  <2>1. /\ pc = "data" /\ op = "write" /\ num = 1 /\ sd.mode = "rcv" /\ sd.pos \in Blocks
        /\ disk' = [disk EXCEPT ![sd.pos] = buf[0]]
    BY <1>1, DiskChanges
  <2>2. b = sd.pos
    BY <1>1, <2>1 DEF CallInv, TypeOK
  <2>3. sd.pos = lba
    BY <1>1, <2>1 DEF PlaceInv, Sure
  <2>4. lba \in Int
    BY <1>1, SizesAssumption DEF CallInv, TypeOK, Blocks
  <2> QED BY <2>1, <2>2, <2>3, <2>4
<1>2. CallInv /\ PlaceInv /\ [Next]_vars =>
        [\A b \in Blocks : disk'[b] # disk[b] /\ (initOk \/ program = "main") =>
            op = "write" /\ b \in lba .. lba + num - 1]_vars
  BY <1>1
<1> QED BY <1>2, CallInvHolds, PlaceInvHolds, PTL DEF Spec, BlocksLandInPlace

(* What was written last. *)

\* A call that returns.
LEMMA ReturnStored ==
  ASSUME CallInv, StoredInv, TransferStep, NEW n, Return(n), UNCHANGED <<c, buf, disk>>,
         n # 0 => c = num /\ (op = "write" /\ initOk => disk[lba] = buf[0])
  PROVE  StoredInv'
<1>1. /\ UNCHANGED <<op, lba, num, initOk>> /\ pc \in TransferLabels /\ pc' = "caller"
      /\ op \in {"read", "write"} /\ "caller" \notin TransferLabels /\ lba \in Blocks
      /\ stored \in [Blocks -> Data \cup {Unknown}]
  BY TransferFrame DEF CallInv, TypeOK, CallShape, Return, TransferLabels
<1>2. \A b \in Blocks : stored'[b] \in {Unknown, disk'[b]}
  <2>1. CASE op = "read" \/ (op = "write" /\ initOk /\ n = 0)
    BY <1>1, <2>1 DEF StoredInv, Return, Writing
  <2>2. CASE op = "write" /\ ~initOk
    BY <2>2 DEF Return
  <2>3. CASE op = "write" /\ initOk /\ n # 0
    <3>1. stored' = [stored EXCEPT ![lba] = buf[0]] /\ disk[lba] = buf[0]
      BY <2>3 DEF Return
    <3>2. \A b \in Blocks : stored[b] \in {Unknown, disk[b]}
      BY <2>3 DEF StoredInv
    <3> QED BY <1>1, <3>1, <3>2
  <2> QED BY <1>1, <2>1, <2>2, <2>3
<1>3. initOk' /\ op' = "read" => \A k \in 0 .. c' - 1 : lba' + k \in Blocks /\ buf'[k] = disk'[lba' + k]
  BY <1>1 DEF StoredInv
<1>4. op' = "read" /\ ret' = "bytes" => c' = num'
  BY <1>1 DEF Return
<1> QED BY <1>1, <1>2, <1>3, <1>4 DEF StoredInv, Writing

\* A call that goes on, with nothing moved.
LEMMA OnStored ==
  ASSUME CallInv, StoredInv, TransferStep, NEW label \in TransferLabels, On(label), UNCHANGED <<c, buf, disk>>,
         initOk /\ op = "write" /\ c = 1
           /\ ((label \in {"loop", "flush"} /\ latched' = "none") \/ label = "stop") => disk[lba] = buf[0]
  PROVE  StoredInv'
<1>1. /\ UNCHANGED <<op, lba, num, initOk, stored>> /\ pc \in TransferLabels /\ pc' = label
      /\ ret' = "none"
  BY TransferFrame DEF CallInv, CallShape, On
<1>2. Writing' = Writing
  BY <1>1 DEF Writing
<1> QED BY <1>1, <1>2 DEF StoredInv

LEMMA BlockStored ==
  ASSUME CallInv, PlaceInv, StoredInv, Block, Moves, c' = c + 1, On("loop"),
         buf' = (IF op = "read" THEN [buf EXCEPT ![c] = disk[sd.pos]] ELSE buf),
         \/ disk' = (IF op = "write" THEN [disk EXCEPT ![sd.pos] = buf[c]] ELSE disk)
         \/ UNCHANGED disk /\ latched' # "none"
  PROVE  StoredInv'
<1>1. /\ UNCHANGED <<op, lba, num, initOk, stored>> /\ pc = "data" /\ pc' = "loop" /\ ret' = "none"
      /\ op \in {"read", "write"} /\ pc \in TransferLabels /\ pc' \in TransferLabels
  BY TransferFrame DEF CallInv, CallShape, Block, In, On, TransferStep, TransferLabels
<1>2. /\ lba \in Blocks /\ c \in 0 .. MaxNum - 1 /\ c < num /\ c \in Nat /\ sd.pos \in Blocks
      /\ op = "write" => c = 0
      /\ buf \in [0 .. MaxNum - 1 -> Data \cup {Garbage}] /\ disk \in [Blocks -> Data] /\ lba \in Nat
  BY <1>1, SizesAssumption DEF CallInv, TypeOK, CallShape, Moves, Blocks
<1>3. CASE op = "read"
  <2>1. disk' = disk /\ buf' = [buf EXCEPT ![c] = disk[sd.pos]]
    BY <1>3
  <2>2. initOk => sd.pos = lba + c
    BY <1>1, <1>3 DEF PlaceInv, Moves
  <2>3. ASSUME initOk, NEW k \in 0 .. c' - 1 PROVE lba + k \in Blocks /\ buf'[k] = disk[lba + k]
    <3>1. CASE k = c
      BY <1>2, <2>1, <2>2, <2>3, <3>1
    <3>2. CASE k # c
      <4>1. k \in 0 .. c - 1 /\ k \in 0 .. MaxNum - 1
        BY <1>2, <2>3, <3>2, SizesAssumption
      <4> QED BY <1>2, <1>3, <2>1, <2>3, <3>2, <4>1 DEF StoredInv
    <3> QED BY <3>1, <3>2
  <2>4. \A b \in Blocks : stored[b] \in {Unknown, disk[b]}
    BY <1>3 DEF StoredInv, Writing
  <2> QED BY <1>1, <1>3, <2>1, <2>3, <2>4 DEF StoredInv, Writing
<1>4. CASE op = "write"
  <2>1. c = 0 /\ buf' = buf /\ stored[lba] = Unknown
    BY <1>1, <1>2, <1>4 DEF StoredInv, Writing
  <2>2. initOk => sd.pos = lba
    BY <1>1, <1>4 DEF PlaceInv, Moves, Sure
  <2>3. CASE disk' = [disk EXCEPT ![sd.pos] = buf[0]]
    <3>1. ASSUME initOk, NEW b \in Blocks PROVE stored[b] \in {Unknown, disk'[b]}
      <4>1. stored[b] \in {Unknown, disk[b]}
        BY <3>1 DEF StoredInv
      <4> QED BY <1>2, <2>1, <2>2, <2>3, <3>1, <4>1
    <3>2. initOk => disk'[lba] = buf[0]
      BY <1>2, <2>2, <2>3
    <3> QED BY <1>1, <1>4, <2>1, <3>1, <3>2 DEF StoredInv, Writing
  <2>4. CASE UNCHANGED disk /\ latched' # "none"
    BY <1>1, <1>4, <2>1, <2>4 DEF StoredInv, Writing
  <2> QED BY <1>4, <2>1, <2>3, <2>4
<1> QED BY <1>1, <1>3, <1>4

LEMMA StoredTransfer == CallInv /\ PlaceInv /\ StoredInv /\ TransferStep => StoredInv'
<1> SUFFICES ASSUME CallInv, PlaceInv, StoredInv, TransferStep PROVE StoredInv'
  OBVIOUS
<1> USE DEF TransferLabels
<1>1. /\ pc \in {"status", "preset", "start"} => c = 0
      /\ op = "write" => num = 1
      /\ c \in Nat /\ 0 # 1
  BY DEF CallInv, TypeOK, CallShape
<1>2. ASSUME NEW label \in {"preset", "start", "data"}, On(label), UNCHANGED <<c, buf, disk>> PROVE StoredInv'
  BY <1>2, OnStored
<1>3. ASSUME Return(0), UNCHANGED <<c, buf, disk>> PROVE StoredInv'
  BY <1>3, ReturnStored
<1>4. CASE Status
  BY <1>2, <1>3, <1>4 DEF Status
<1>5. CASE Preset
  <2>1. UNCHANGED <<c, buf, disk>> /\ (Return(0) \/ On("start") \/ On("loop")) /\ c = 0
    BY <1>1, <1>5 DEF Preset, In
  <2>2. On("loop") => StoredInv'
    BY <2>1, OnStored
  <2> QED BY <1>2, <1>3, <2>1, <2>2
<1>6. CASE Start
  BY <1>2, <1>3, <1>6 DEF Start, SendsData
<1>7. CASE Loop
  <2>1. UNCHANGED <<c, buf, disk, latched>> /\ pc = "loop"
    BY <1>7 DEF Loop, In
  <2>2. \/ Return(0) \/ On("data")
        \/ c = num /\ On(IF op = "write" THEN "flush" ELSE "stop")
    BY <1>7 DEF Loop, SendsData
  <2>3. CASE On(IF op = "write" THEN "flush" ELSE "stop")
    <3>1. CASE op = "write"
      <4>1. initOk /\ c = 1 /\ latched' = "none" => disk[lba] = buf[0]
        BY <2>1, <3>1 DEF StoredInv
      <4>2. On("flush")
        BY <2>3, <3>1
      <4> QED BY <2>1, <4>1, <4>2, OnStored
    <3>2. CASE op # "write"
      <4>1. On("stop")
        BY <2>3, <3>2
      <4> QED BY <2>1, <3>2, <4>1, OnStored
    <3> QED BY <3>1, <3>2
  <2> QED BY <1>2, <1>3, <2>1, <2>2, <2>3
<1>8. CASE Block
  <2>1. CASE Return(0) /\ UNCHANGED <<c, buf, disk>>
    BY <1>3, <2>1
  <2>2. CASE Moves /\ c' = c + 1 /\ On("loop")
    <3>1. /\ buf' = (IF op = "read" THEN [buf EXCEPT ![c] = disk[sd.pos]] ELSE buf)
          /\ \/ disk' = (IF op = "write" THEN [disk EXCEPT ![sd.pos] = buf[c]] ELSE disk)
             \/ UNCHANGED disk /\ latched' # "none"
      <4>1. "loop" # "caller"
        OBVIOUS
      <4> QED BY <1>8, <2>2, <4>1 DEF Block, On, Return
    <3> QED BY <1>8, <2>2, <3>1, BlockStored
  <2> QED BY <1>8, <2>1, <2>2 DEF Block
<1>9. CASE Flush
  <2>1. /\ UNCHANGED <<c, buf, disk>> /\ pc = "flush"
        /\ Return(0) \/ (latched = "none" /\ On("stop"))
    BY <1>9 DEF Flush, In
  <2>2. CASE latched = "none" /\ On("stop")
    <3>1. initOk /\ op = "write" /\ c = 1 => disk[lba] = buf[0]
      BY <2>1, <2>2 DEF StoredInv
    <3> QED BY <2>1, <2>2, <3>1, OnStored
  <2> QED BY <1>3, <2>1, <2>2
<1>10. CASE Stop
  <2>1. UNCHANGED <<c, buf, disk>> /\ pc = "stop"
    BY <1>10 DEF Stop, In
  <2>2. Return(0) \/ (Return(num) /\ c = num)
    BY <1>10 DEF Stop
  <2>3. c = num /\ op = "write" /\ initOk => disk[lba] = buf[0]
    BY <1>1, <2>1 DEF StoredInv
  <2>4. CASE Return(num) /\ c = num
    BY <2>1, <2>3, <2>4, ReturnStored
  <2> QED BY <1>3, <2>1, <2>2, <2>4
<1> QED BY <1>4, <1>5, <1>6, <1>7, <1>8, <1>9, <1>10 DEF TransferStep

LEMMA StoredStep == CallInv /\ PlaceInv /\ StoredInv /\ [Next]_vars => StoredInv'
<1> SUFFICES ASSUME CallInv, PlaceInv, StoredInv, [Next]_vars PROVE StoredInv'
  OBVIOUS
<1>1. CASE Client
  <2>1. /\ pc = "caller" /\ ~Writing /\ UNCHANGED disk
        /\ stored \in [Blocks -> Data \cup {Unknown}] /\ lba' \in Blocks
    BY <1>1, ClientFrame, ClientTypes DEF Writing, TransferLabels, CallInv, TypeOK
  <2>2. \A b \in Blocks : stored[b] \in {Unknown, disk[b]}
    BY <2>1 DEF StoredInv
  <2>3. CASE pc' = "reset"
    BY <1>1, <2>1, <2>2, <2>3, ClientFrame DEF StoredInv, Writing, TransferLabels
  <2>4. CASE pc' = "done"
    BY <1>1, <2>1, <2>2, <2>4, ClientFrame DEF StoredInv, Writing, TransferLabels
  <2>5. CASE pc' = "status"
    <3>1. /\ c' = 0 /\ ret' = "none"
          /\ stored' = IF op' = "write" THEN [stored EXCEPT ![lba'] = Unknown] ELSE stored
      BY <1>1, <2>5, ClientFrame
    <3>2. \A b \in Blocks : stored'[b] \in {Unknown, disk'[b]}
      BY <2>1, <2>2, <3>1
    <3>3. op' = "write" => stored'[lba'] = Unknown
      BY <2>1, <3>1
    <3> QED BY <2>5, <3>1, <3>2, <3>3 DEF StoredInv, Writing
  <2> QED BY <1>1, <2>3, <2>4, <2>5, ClientFrame
<1>2. CASE InitStep
  <2>1. /\ ~Writing /\ ~Writing' /\ UNCHANGED <<disk, stored>> /\ op' = "init"
    BY <1>2, InitFrame DEF CallInv, CallShape, Writing
  <2> QED BY <2>1 DEF StoredInv
<1>3. CASE TransferStep
  BY <1>3, StoredTransfer
<1>4. CASE UNCHANGED vars
  BY <1>4 DEF StoredInv, Writing, vars, callVars, hostVars, historyVars
<1> QED BY <1>1, <1>2, <1>3, <1>4 DEF Next

LEMMA StoredInvHolds == Spec => []StoredInv
<1>1. Init => StoredInv
  BY DEF Init, StoredInv, Writing, TransferLabels
<1> QED BY <1>1, StoredStep, CallInvHolds, PlaceInvHolds, PTL DEF Spec

\* A read that returned a byte count after a successful sd_init hands out what was written
\* last: every block that the buffer holds is the one on the card, and the card has what
\* was written last wherever that is known.
THEOREM ReadsReturnLastWrite == Spec => []ReadsLastWrite
<1>1. CallInv /\ StoredInv => ReadsLastWrite
  <2> SUFFICES ASSUME CallInv, StoredInv, pc = "caller", op = "read", ret = "bytes", initOk,
                      NEW k \in 0 .. num - 1
               PROVE  lba + k \in Blocks /\ stored[lba + k] \in {Unknown, buf[k]}
    BY DEF ReadsLastWrite, Returned
  <2>1. c = num /\ ~Writing
    BY DEF StoredInv, Writing
  <2>2. lba + k \in Blocks /\ buf[k] = disk[lba + k]
    BY <2>1 DEF StoredInv
  <2> QED BY <2>1, <2>2 DEF StoredInv
<1> QED BY <1>1, CallInvHolds, StoredInvHolds, PTL
=============================================================================
