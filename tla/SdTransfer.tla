----------------------------- MODULE SdTransfer -----------------------------
(***************************************************************************)
(* sd_readblock and sd_writeblock (emmc/sd.c) against a controller with a  *)
(* one-block FIFO and a card that keeps blocks.                            *)
(*                                                                         *)
(* The driver half is the code.  The controller and the card are what that *)
(* code is written against: a data command starts a data phase of the      *)
(* number of blocks in BLKSIZECNT; READ_RDY and WRITE_RDY announce a block  *)
(* to take from or put into the FIFO; DATA_DONE ends the phase.  The card  *)
(* leaves the transfer state for a read or a write and comes back after    *)
(* the announced number of blocks, or on STOP_TRANS when none was          *)
(* announced.  Faults lose a command, lose its answer, or break off a data *)
(* phase; MaxFaults bounds them.                                           *)
(***************************************************************************)
EXTENDS SdCmd

CONSTANTS
  NumBlocks,  \* blocks of the card
  MaxNum,     \* the largest num of a call
  BlockLen,   \* bytes of a block (512)
  Data,       \* what a block can hold
  Flags,      \* the values sd_init may have left in sd_scr[0]
  Refusing,   \* may the card refuse SET_BLOCKCNT?
  Reach,      \* the block that no call goes beyond
  FaultBits,  \* the error bits a fault may raise
  MaxFaults   \* faults of the hardware in a behaviour

Blocks == 0 .. NumBlocks - 1
Garbage == "garbage"
Empty == "empty"
Unlimited == MaxNum + 1

ASSUME SizesAssumption ==
  /\ NumBlocks \in Nat \ {0} /\ MaxNum \in Nat \ {0} /\ BlockLen \in Nat \ {0}
  /\ MaxFaults \in Nat /\ Refusing \in BOOLEAN
ASSUME FlagsAssumption == Flags \subseteq SUBSET {"CCS", "SET_BLKCNT"}
ASSUME FaultsAssumption == FaultBits \subseteq ErrorBits /\ Reach \in Nat
ASSUME DataAssumption == Data \cap {Garbage, Empty} = {}

\* SdCmd is given no fewer commands, answers and events than occur here.
ASSUME InterfaceAssumption ==
  /\ {"SET_BLOCKCNT", "READ_SINGLE", "READ_MULTI", "WRITE_SINGLE", "WRITE_MULTI",
      "STOP_TRANS"} \subseteq Codes
  /\ \A n \in 0 .. NumBlocks + MaxNum : n \in Args /\ n * BlockLen \in Args
  /\ {{}, {"ERRORS"}} \subseteq Responses
  /\ DataStatus \subseteq Lines
  /\ DataEvents \subseteq Events

VARIABLES
  pc, op, lba, num, c, buf,   \* the call: where it is, which, its arguments and locals
  ret,                        \* the blocks the last call said it moved, 0 for an error
  sd_scr,                     \* the flags of sd_scr[0]
  blksizecnt,                 \* the block count in BLKSIZECNT
  phase, left, fifo,          \* the controller: data phase, blocks left in it, its buffer
  disk, mode, pos, limit, preset,  \* the card
  faults

callVars == <<pc, op, lba, num, c, buf, ret>>
dataVars == <<phase, left, fifo>>
cardVars == <<disk, mode, pos, limit, preset>>
vars == <<driverVars, callVars, sd_scr, blksizecnt, dataVars, cardVars, faults>>

PcLabels == {"idle", "ready", "preset", "start", "loop", "sent", "data", "flush", "stop"}
NoBuffer == [k \in 0 .. MaxNum - 1 |-> Garbage]

TypeOK ==
  /\ CmdTypeOK
  /\ pc \in PcLabels /\ op \in {"read", "write"}
  /\ lba \in 0 .. NumBlocks /\ num \in 1 .. MaxNum /\ c \in 0 .. num
  /\ buf \in [0 .. MaxNum - 1 -> Data \cup {Garbage, Empty}]
  /\ ret \in 0 .. MaxNum
  /\ sd_scr \in Flags
  /\ blksizecnt \in 0 .. MaxNum
  /\ phase \in {"none", "read", "write"} /\ left \in 0 .. MaxNum
  /\ fifo \in Data \cup {Garbage, Empty}
  /\ disk \in [Blocks -> Data \cup {Garbage}]
  /\ mode \in {"tran", "data", "rcv"}
  /\ pos \in 0 .. NumBlocks + MaxNum /\ limit \in 0 .. Unlimited /\ preset \in 0 .. Unlimited
  /\ faults \in 0 .. MaxFaults

Init ==
  /\ CmdInit /\ sd_rca
  /\ pc = "idle" /\ op = "read" /\ lba = 0 /\ num = 1 /\ c = 0 /\ buf = NoBuffer
  /\ ret = 0
  /\ sd_scr \in Flags
  /\ blksizecnt = 0
  /\ phase = "none" /\ left = 0 /\ fifo = Empty
  /\ disk \in [Blocks -> Data]
  /\ mode = "tran" /\ pos = 0 /\ limit = 0 /\ preset = Unlimited
  /\ faults = 0

Ccs == "CCS" \in sd_scr
SetBlkcnt == "SET_BLKCNT" \in sd_scr

-----------------------------------------------------------------------------
(* sd_readblock and sd_writeblock. *)

Call(o, l, n, b, busy) ==
  /\ pc = "idle" /\ Idle
  /\ op' = o /\ lba' = l /\ num' = (IF n < 1 THEN 1 ELSE n) /\ c' = 0 /\ buf' = b
  /\ ret' = 0
  /\ pc' = "ready"
  /\ CallStatus(busy)
  /\ UNCHANGED <<hostVars, cmdVars, sd_scr, blksizecnt, dataVars, cardVars, faults>>

\* Mutant: a read that does not wait for the data line.
CallReadAtOnce(l, n) == Call("read", l, n, NoBuffer, {})

CallRead(l, n) == Call("read", l, n, NoBuffer, {"DAT_INHIBIT"})
CallWrite(l, n, b) == Call("write", l, n, b, {"DAT_INHIBIT", "WRITE_AVAILABLE"})

\* A step of the call that leaves the controller's data phase and the card alone.
Local == UNCHANGED <<op, lba, num, sd_scr, dataVars, cardVars, faults>>

\* return n
Leave(n) == pc' = "idle" /\ ret' = n

\* return 0: the locals are gone, and the buffer is not looked at any more
LeaveFailed == Leave(0) /\ c' = 0 /\ buf' = NoBuffer

LeaveWith(e) ==
  /\ LeaveFailed
  /\ sd_err' = e
  /\ UNCHANGED <<hostVars, waitVars, cmd, code, arg, outer, val, sd_rca, blksizecnt>>

\* if (sd_err) return 0
LeaveOnError ==
  /\ sd_err # "OK"
  /\ LeaveFailed
  /\ UNCHANGED <<driverVars, blksizecnt>>

\* on to the next statement
Go(label) == pc' = label /\ UNCHANGED <<c, buf, ret>>

Single == IF op = "read" THEN "READ_SINGLE" ELSE "WRITE_SINGLE"
Multi  == IF op = "read" THEN "READ_MULTI" ELSE "WRITE_MULTI"
BlockReady == IF op = "read" THEN {"READ_RDY"} ELSE {"WRITE_RDY"}

\* Mutants: a block too many; the command written past sd_cmd.
StartTransferOneMore ==
  /\ blksizecnt' = num + 1
  /\ CallCmd(IF num = 1 THEN Single ELSE Multi, lba)
  /\ Go("start")

StartTransferDirect ==
  /\ blksizecnt' = num
  /\ WriteCmdtm(IF num = 1 THEN Single ELSE Multi, lba)
  /\ Go("start")
  /\ UNCHANGED <<waitVars, cmdVars>>

\* Program the block count and start the transfer of all blocks.
StartTransfer ==
  /\ blksizecnt' = num
  /\ CallCmd(IF num = 1 THEN Single ELSE Multi, lba)
  /\ Go("start")

\* Mutant: the block is moved without waiting for it.
AwaitBlockNot == Go("data") /\ UNCHANGED <<driverVars, blksizecnt>>

AwaitBlock == CallInt(BlockReady) /\ Go("data") /\ UNCHANGED <<hostVars, cmdVars, blksizecnt>>

Ready ==
  /\ pc = "ready" /\ Idle
  /\ Local
  /\ \/ res # "OK" /\ LeaveWith("TIMEOUT")
     \/ /\ res = "OK" /\ Ccs /\ num > 1 /\ SetBlkcnt
        /\ CallCmd("SET_BLOCKCNT", num)
        /\ Go("preset")
        /\ UNCHANGED blksizecnt
     \/ res = "OK" /\ Ccs /\ ~(num > 1 /\ SetBlkcnt) /\ StartTransfer
     \/ /\ res = "OK" /\ ~Ccs
        /\ blksizecnt' = 1
        /\ Go("loop")
        /\ UNCHANGED driverVars

Preset ==
  /\ pc = "preset" /\ Idle
  /\ Local
  /\ LeaveOnError \/ (sd_err = "OK" /\ StartTransfer)

Start ==
  /\ pc = "start" /\ Idle
  /\ Local
  /\ \/ LeaveOnError
     \/ sd_err = "OK" /\ Go("loop") /\ UNCHANGED <<driverVars, blksizecnt>>

\* Mutant: an open-ended transfer is not ended.
FinishNoStop ==
  /\ Leave(IF sd_err # "OK" \/ c # num THEN 0 ELSE num)
  /\ UNCHANGED <<driverVars, c, buf, blksizecnt>>

\* The last lines of both functions: end an open-ended transfer, return.
Finish ==
  IF num > 1 /\ ~SetBlkcnt /\ Ccs
  THEN CallCmd("STOP_TRANS", 0) /\ Go("stop") /\ UNCHANGED blksizecnt
  ELSE /\ Leave(IF sd_err # "OK" \/ c # num THEN 0 ELSE num)
       /\ UNCHANGED <<driverVars, c, buf, blksizecnt>>

Loop ==
  /\ pc = "loop" /\ Idle
  /\ Local
  /\ \/ /\ c < num /\ ~Ccs
        /\ CallCmd(Single, (lba + c) * BlockLen)
        /\ Go("sent")
        /\ UNCHANGED blksizecnt
     \/ c < num /\ Ccs /\ AwaitBlock
     \/ c = num /\ op = "read" /\ Finish
     \/ /\ c = num /\ op = "write"
        /\ CallInt({"DATA_DONE"})
        /\ Go("flush")
        /\ UNCHANGED <<hostVars, cmdVars, blksizecnt>>

Sent ==
  /\ pc = "sent" /\ Idle
  /\ Local
  /\ LeaveOnError \/ (sd_err = "OK" /\ AwaitBlock)

\* 128 accesses to DATA move a block between the buffer and the FIFO.  The FIFO
\* has nothing to say when it was not ready for them.
MoveBlock ==
  /\ pc = "data" /\ Idle /\ res = "OK"
  /\ IF op = "read"
     THEN /\ buf' = [buf EXCEPT ![c] = IF "READ_AVAILABLE" \in status THEN fifo ELSE Garbage]
          /\ fifo' = Empty
     ELSE /\ fifo' = IF "WRITE_AVAILABLE" \in status THEN buf[c] ELSE fifo
          /\ UNCHANGED buf
  /\ status' = status \ FifoStatus
  /\ c' = c + 1
  /\ pc' = "loop"
  /\ UNCHANGED <<interrupt, cmdtm, arg1, resp, waitVars, cmdVars, op, lba, num, ret, sd_scr,
                 blksizecnt, phase, left, cardVars, faults>>

\* Mutant: an error while waiting for a block starts the wait again.
NoBlockRetry == pc = "data" /\ Idle /\ res # "OK" /\ AwaitBlock /\ Local

NoBlock == pc = "data" /\ Idle /\ res # "OK" /\ LeaveWith(res) /\ Local

\* Mutant: the end of the data phase is awaited, but an error there is ignored.
FlushUnchecked == pc = "flush" /\ Idle /\ Local /\ Finish

Flush ==
  /\ pc = "flush" /\ Idle
  /\ Local
  /\ (res # "OK" /\ LeaveWith(res)) \/ (res = "OK" /\ Finish)

Stop ==
  /\ pc = "stop" /\ Idle
  /\ Local
  /\ Leave(IF sd_err # "OK" \/ c # num THEN 0 ELSE num)
  /\ UNCHANGED <<driverVars, c, buf, blksizecnt>>

CallStep == Ready \/ Preset \/ Start \/ Loop \/ Sent \/ MoveBlock \/ NoBlock \/ Flush \/ Stop

-----------------------------------------------------------------------------
(* Commands at the card. *)

Address == IF Ccs THEN arg1 ELSE arg1 \div BlockLen
IsData == cmdtm \in DataCommands
IsMulti == cmdtm \in {"READ_MULTI", "WRITE_MULTI"}

\* The card does what the command asks, if it may in its state.
CardTakes ==
  \/ /\ cmdtm = "SET_BLOCKCNT" /\ mode = "tran"
     /\ preset' = arg1
     /\ UNCHANGED <<disk, mode, pos, limit>>
  \/ /\ IsData /\ mode = "tran" /\ Address \in Blocks
     /\ mode' = IF cmdtm \in ReadCommands THEN "data" ELSE "rcv"
     /\ pos' = Address
     /\ limit' = IF IsMulti THEN preset ELSE 1
     /\ preset' = Unlimited
     /\ UNCHANGED disk
  \/ /\ cmdtm = "STOP_TRANS" /\ mode # "tran"
     /\ mode' = "tran" /\ limit' = 0
     /\ UNCHANGED <<disk, pos, preset>>

\* An answered command starts the data phase it asks for, or ends the running one.
HostTakes ==
  \/ /\ IsData
     /\ phase' = IF cmdtm \in ReadCommands THEN "read" ELSE "write"
     /\ left' = IF IsMulti THEN blksizecnt ELSE 1
     /\ fifo' = Empty
  \/ cmdtm = "STOP_TRANS" /\ left' = 0 /\ fifo' = Empty /\ UNCHANGED phase
  \/ cmdtm = "SET_BLOCKCNT" /\ UNCHANGED dataVars

\* A data command waits for the end of the phase before it.
MayAnswer == IsData => phase = "none"

Answer(response) ==
  /\ MayAnswer
  /\ EndCommand({"CMD_DONE"}, response)
  /\ status' = status \ {"CMD_INHIBIT"}
  /\ HostTakes
  /\ UNCHANGED <<callVars, sd_scr, blksizecnt, faults>>

Accepts == Answer({}) /\ CardTakes

\* An address beyond the card; a SET_BLOCKCNT that a card may refuse.
Rejects ==
  /\ Answer({"ERRORS"})
  /\ mode = "tran"
  /\ (IsData /\ Address \notin Blocks) \/ (Refusing /\ cmdtm = "SET_BLOCKCNT")
  /\ UNCHANGED cardVars

NoAnswer(e) ==
  /\ EndCommand({e}, resp)
  /\ status' = status \ ({"CMD_INHIBIT"} \cup
                         (IF IsData /\ phase = "none" THEN {"DAT_INHIBIT"} ELSE {}))
  /\ UNCHANGED <<callVars, sd_scr, blksizecnt, dataVars>>

\* A card that may not execute a command in its state does not answer it.
Illegal ==
  /\ mode = "tran" <=> cmdtm = "STOP_TRANS"
  /\ NoAnswer("CMD_TIMEOUT")
  /\ UNCHANGED <<cardVars, faults>>

\* The command or its answer is lost.
Lost ==
  /\ faults < MaxFaults /\ faults' = faults + 1
  /\ \E e \in FaultBits \ {"DATA_TIMEOUT"} : NoAnswer(e)
  /\ CardTakes \/ UNCHANGED cardVars

-----------------------------------------------------------------------------
(* The data phase. *)

\* The card has passed a block; the last announced one ends the transfer.
CardAdvances ==
  /\ pos < NumBlocks
  /\ pos' = pos + 1
  /\ limit' = IF limit = Unlimited THEN Unlimited ELSE limit - 1
  /\ mode' = IF limit = 1 THEN "tran" ELSE mode
  /\ UNCHANGED preset

PhaseStep(events, lines) ==
  /\ interrupt' = interrupt \cup events
  /\ status' = lines
  /\ UNCHANGED <<cmdtm, arg1, resp, waitVars, cmdVars, callVars, sd_scr, blksizecnt>>

BlockIn ==
  /\ phase = "read" /\ left > 0 /\ fifo = Empty /\ mode = "data"
  /\ CardAdvances
  /\ fifo' = disk[pos] /\ left' = left - 1
  /\ PhaseStep({"READ_RDY"}, status \cup {"READ_AVAILABLE"})
  /\ UNCHANGED <<phase, disk, faults>>

AskBlock ==
  /\ phase = "write" /\ left > 0 /\ fifo = Empty /\ "WRITE_AVAILABLE" \notin status
  /\ PhaseStep({"WRITE_RDY"}, status \cup {"WRITE_AVAILABLE"})
  /\ UNCHANGED <<dataVars, cardVars, faults>>

BlockOut ==
  /\ phase = "write" /\ left > 0 /\ fifo # Empty /\ mode = "rcv"
  /\ CardAdvances
  /\ disk' = [disk EXCEPT ![pos] = fifo]
  /\ fifo' = Empty /\ left' = left - 1
  /\ PhaseStep({}, status)
  /\ UNCHANGED <<phase, faults>>

\* The data line is free after the phase unless a data command waits for it.
FreeLine(lines) == IF Executing /\ IsData THEN lines ELSE lines \ {"DAT_INHIBIT"}

PhaseDone ==
  /\ phase # "none" /\ left = 0 /\ fifo = Empty
  /\ phase' = "none"
  /\ PhaseStep({"DATA_DONE"}, FreeLine(status))
  /\ UNCHANGED <<left, fifo, cardVars, faults>>

\* The phase breaks off: by a fault, or because the card has nothing to say.
\* A block on its way may have been programmed; the card may be left waiting.
CardSilent == mode # (IF phase = "read" THEN "data" ELSE "rcv") \/ pos >= NumBlocks

PhaseFails ==
  /\ phase # "none" /\ left > 0
  /\ phase' = "none" /\ left' = 0 /\ fifo' = Empty
  /\ \E e \in ErrorBits \ {"CMD_TIMEOUT"} :
       /\ \/ CardSilent /\ e = "DATA_TIMEOUT" /\ UNCHANGED faults
          \/ e \in FaultBits /\ faults < MaxFaults /\ faults' = faults + 1
       /\ PhaseStep({e}, FreeLine(status \ FifoStatus))
  /\ \/ UNCHANGED disk
     \/ ~CardSilent /\ phase = "write" /\ fifo # Empty /\ disk' = [disk EXCEPT ![pos] = fifo]
  /\ mode' \in {mode, "tran"}
  /\ UNCHANGED <<pos, limit, preset>>

HwTransferStep ==
  Accepts \/ Rejects \/ Illegal \/ Lost \/ BlockIn \/ AskBlock \/ BlockOut \/ PhaseDone \/ PhaseFails

-----------------------------------------------------------------------------
LowStep ==
  /\ DriverStep
  /\ UNCHANGED <<callVars, sd_scr, blksizecnt, dataVars, cardVars, faults>>

\* A buffer with n blocks of data; both functions move at least one.
Buffers(n) == {b \in [0 .. MaxNum - 1 -> Data \cup {Garbage}] :
                 \A k \in DOMAIN b : b[k] = Garbage <=> k >= n /\ k > 0}

\* The caller may ask for blocks that the card does not have, and for 0 blocks, which
\* is as 1.
Caller ==
  \E l \in 0 .. NumBlocks, n \in 0 .. MaxNum :
    /\ l + n <= Reach
    /\ n = 0 => l = 0
    /\ CallRead(l, n) \/ \E b \in Buffers(n) : CallWrite(l, n, b)

Next == Caller \/ CallStep \/ LowStep \/ HwTransferStep

Spec == Init /\ [][Next]_vars

\* The driver's core runs; the hardware may stop at any time.
FairSpec == Spec /\ WF_vars(LowStep) /\ WF_vars(CallStep)

-----------------------------------------------------------------------------
(* Properties. *)

Returned(o) == pc = "idle" /\ op = o /\ ret > 0

\* sd_readblock returned a byte count: the buffer holds the blocks of the card.
ReadReturnsDisk ==
  Returned("read") => /\ lba + num <= NumBlocks
                      /\ \A k \in 0 .. num - 1 : buf[k] = disk[lba + k]

\* sd_writeblock returned a byte count: the card holds the blocks of the buffer.
WriteReachesDisk ==
  Returned("write") => /\ lba + num <= NumBlocks
                       /\ \A k \in 0 .. num - 1 : disk[lba + k] = buf[k]

\* All blocks of the call are one transfer, ended by its own DATA_DONE; without
\* SCR_SUPP_CCS every block is a transfer and only the end of one is awaited.
OneTransfer == Ccs \/ num = 1

\* A write of one transfer that returned a byte count has reached the card.
TransferReachesDisk == OneTransfer => WriteReachesDisk

\* After a call of one transfer that succeeded, and once the controller is done,
\* the card is back in the transfer state, so that the next call finds it there.
CardBackInTran ==
  OneTransfer /\ pc = "idle" /\ ret > 0 /\ phase = "none" => mode = "tran"

\* Every call returns, although the hardware may stop.
TransferReturns == pc # "idle" ~> pc = "idle"

\* The two functions use sd_status, sd_int and sd_cmd as SdCmd lets any client.
UsesSdCmd == CmdSpec

\* To a caller, driver, controller and card are one store of blocks: the buffer of a
\* read counts when it has succeeded, and a block in the FIFO of a write whose call is
\* over is owed.
StoreCall == CASE pc = "idle" -> "none" [] pc = "ready" -> "new" [] OTHER -> "running"
StoreData == IF op = "read" /\ ~Returned("read") THEN NoBuffer ELSE buf
Owing == phase = "write" /\ fifo # Empty /\ ~CardSilent
StoreOwed == IF pc \in {"idle", "ready"} /\ Owing THEN {[place |-> pos, block |-> fifo]} ELSE {}

Store == INSTANCE BlockStore WITH
  Size <- NumBlocks, Contents <- Data, Nothing <- Garbage,
  call <- StoreCall, data <- StoreData, owed <- StoreOwed, hasty <- ~Ccs

\* Every behaviour of the driver with its hardware is one of that store: whatever is
\* lost or breaks off, a failed call leaves nothing but some of its own blocks, at most
\* one of them late, and a call that succeeded has done what it says.
ImplementsStore == Store!Spec
=============================================================================
