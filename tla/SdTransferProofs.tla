-------------------------- MODULE SdTransferProofs --------------------------
(* Theorems about SdTransfer, for cards, calls and blocks of every size, every  *)
(* polling bound and every number of faults.                                    *)
EXTENDS SdTransfer, SdCmdProofs

(* The types, and what they rest on: a data phase, or a data command under way, holds  *)
(* the data line, and a number of blocks that is announced is not 0.                    *)

LineHeld ==
  /\ phase # "none" => "DAT_INHIBIT" \in status
  /\ Executing /\ IsData => "DAT_INHIBIT" \in status

Announced ==
  /\ code = "SET_BLOCKCNT" => arg \in 1 .. MaxNum
  /\ cmdtm = "SET_BLOCKCNT" => arg1 \in 1 .. MaxNum
  /\ preset >= 1 /\ (mode # "tran" => limit >= 1)
  /\ outer = NoCommand
  /\ pc \in {"sent", "data"} => c < num

CallInv == TypeOK /\ LineHeld /\ Announced

LEMMA CallInitInv == Init => CallInv
<1> SUFFICES ASSUME Init PROVE CallInv
  OBVIOUS
<1>1. CmdTypeOK
  BY CmdInitType DEF Init
<1>2. NoBuffer \in [0 .. MaxNum - 1 -> Data \cup {Garbage, Empty}]
  BY DEF NoBuffer
<1>3. TypeOK
  BY <1>1, <1>2, SizesAssumption
  DEF Init, TypeOK, PcLabels, Unlimited, Blocks
<1>4. LineHeld
  BY DEF Init, CmdInit, HostInit, LineHeld, Executing
<1>5. Announced
  BY SizesAssumption DEF Init, CmdInit, HostInit, Announced, Unlimited
<1> QED BY <1>3, <1>4, <1>5 DEF CallInv

\* What the driver asks of sd_cmd is among what SdCmd lets a client ask.
LEMMA CallsAreLegal ==
  ASSUME TypeOK
  PROVE  /\ lba \in Args /\ num \in Args /\ 0 \in Args
         /\ c < num => (lba + c) * BlockLen \in Args
         /\ {Single, Multi, "SET_BLOCKCNT", "STOP_TRANS"} \subseteq Codes
         /\ \E event \in Events \cap EventBits : BlockReady = {event}
<1>1. lba \in 0 .. NumBlocks + MaxNum /\ num \in 0 .. NumBlocks + MaxNum
      /\ (c < num => lba + c \in 0 .. NumBlocks + MaxNum) /\ 0 \in 0 .. NumBlocks + MaxNum
  BY SizesAssumption DEF TypeOK
<1>2. /\ lba \in Args /\ num \in Args /\ 0 \in Args
      /\ c < num => (lba + c) * BlockLen \in Args
  BY <1>1, InterfaceAssumption
<1>3. {Single, Multi, "SET_BLOCKCNT", "STOP_TRANS"} \subseteq Codes
  BY InterfaceAssumption DEF Single, Multi
<1>4. \E event \in Events \cap EventBits : BlockReady = {event}
  BY InterfaceAssumption DEF BlockReady, EventBits, DataEvents, IntBits
<1> QED BY <1>2, <1>3, <1>4

LEMMA CallerIsClient == TypeOK /\ Caller => CmdClient
<1> SUFFICES ASSUME TypeOK,
                    NEW o, NEW l, NEW n, NEW b, NEW busy \in SUBSET Lines, Call(o, l, n, b, busy)
             PROVE  CmdClient
  BY InterfaceAssumption DEF Caller, CallRead, CallWrite, DataStatus, FifoStatus
<1> QED BY DEF Call, CmdClient, ClientPolls

LEMMA CallStepIsClient == TypeOK /\ Announced /\ CallStep => CmdClient \/ UNCHANGED driverVars
<1> SUFFICES ASSUME TypeOK, Announced, CallStep PROVE CmdClient \/ UNCHANGED driverVars
  OBVIOUS
<1>0. TypeOK /\ CmdTypeOK /\ sd_err \in Errors /\ res \in Errors /\ "TIMEOUT" \in Errors
      /\ sd_rca \in BOOLEAN
  BY DEF TypeOK, CmdTypeOK, Errors, Results
<1>1. ASSUME Idle, NEW k \in {Single, Multi, "SET_BLOCKCNT", "STOP_TRANS"}, NEW a \in Args, CallCmd(k, a)
      PROVE  CmdClient
  BY <1>1, <1>0, CallsAreLegal DEF CmdClient
<1>2. ASSUME Idle, CallInt(BlockReady), UNCHANGED <<hostVars, cmdVars>>
      PROVE  CmdClient
  BY <1>2, <1>0, CallsAreLegal DEF CmdClient, ClientPolls
<1>3. ASSUME Idle, NEW e \in Errors, LeaveWith(e)
      PROVE  CmdClient
  BY <1>3, <1>0 DEF CmdClient, ClientAssigns, LeaveWith
<1>4. CASE Ready
  BY <1>0, <1>1, <1>3, <1>4, CallsAreLegal DEF Ready, StartTransfer, Go
<1>5. CASE Preset
  BY <1>0, <1>1, <1>5, CallsAreLegal DEF Preset, StartTransfer, Go, LeaveOnError
<1>6. CASE Start
  BY <1>6 DEF Start, LeaveOnError
<1>7. CASE Loop
  <2>1. ASSUME Idle, Finish PROVE CmdClient \/ UNCHANGED driverVars
    BY <1>0, <1>1, <2>1, CallsAreLegal DEF Finish
  <2>2. ASSUME Idle, CallInt({"DATA_DONE"}), UNCHANGED <<hostVars, cmdVars>> PROVE CmdClient
    BY <2>2, InterfaceAssumption DEF CmdClient, ClientPolls, EventBits, DataEvents, IntBits
  <2> QED BY <1>0, <1>1, <1>2, <1>7, <2>1, <2>2, CallsAreLegal DEF Loop, AwaitBlock
<1>8. CASE Sent
  BY <1>2, <1>8 DEF Sent, LeaveOnError, AwaitBlock
<1>9. CASE MoveBlock
  <2>1. {} \in SUBSET (Lines \cap FifoStatus) /\ status' = (status \ FifoStatus) \cup {}
    BY <1>9 DEF MoveBlock
  <2> QED BY <1>9, <2>1 DEF MoveBlock, CmdClient, ClientMovesData
<1>10. CASE NoBlock
  BY <1>0, <1>3, <1>10 DEF NoBlock
<1>11. CASE Flush
  BY <1>0, <1>1, <1>3, <1>11, CallsAreLegal DEF Flush, Finish
<1>12. CASE Stop
  BY <1>12 DEF Stop
<1> QED
  BY <1>4, <1>5, <1>6, <1>7, <1>8, <1>9, <1>10, <1>11, <1>12 DEF CallStep

LEMMA HwIsHw == TypeOK /\ LineHeld /\ HwTransferStep => HwStep
<1> SUFFICES ASSUME TypeOK, LineHeld, HwTransferStep PROVE HwStep
  OBVIOUS
<1>1. CASE Accepts \/ Rejects
  BY <1>1, InterfaceAssumption DEF Accepts, Rejects, Answer, HwCmdDone, HwStep
<1>2. ASSUME NEW e \in {"CMD_TIMEOUT", "ERROR"}, NoAnswer(e) PROVE HwStep
  BY <1>2 DEF NoAnswer, HwCmdFailed, HwStep
<1>3. CASE Illegal \/ Lost
  BY <1>2, <1>3, FaultsAssumption DEF Illegal, Lost, ErrorBits, TimeoutBits
<1>4. ASSUME phase # "none", NEW lines \in SUBSET StatusBits,
             lines \ DataStatus = status \ DataStatus,
             NEW events, events = {} \/ (\E e \in Events : events = {e}),
             PhaseStep(events, lines)
      PROVE  HwStep
  <2>1. "DAT_INHIBIT" \in status
    BY <1>4 DEF LineHeld
  <2>2. \E s \in SUBSET Lines : status' = (status \ DataStatus) \cup s
    <3>1. lines \cap DataStatus \in SUBSET Lines
          /\ lines = (status \ DataStatus) \cup (lines \cap DataStatus)
      BY <1>4, InterfaceAssumption
    <3> QED BY <1>4, <3>1 DEF PhaseStep
  <2>3. \E event \in Events \cup {"none"} :
          interrupt' = IF event = "none" THEN interrupt ELSE interrupt \cup {event}
    BY <1>4, EventsAssumption DEF PhaseStep, DataEvents, IntBits, EventBits, ErrorBits, TimeoutBits
  <2> QED BY <1>4, <2>1, <2>2, <2>3 DEF PhaseStep, HwData, HwStep
<1>5. status \in SUBSET StatusBits
  BY DEF TypeOK, CmdTypeOK, HostTypeOK
<1>6. {"READ_RDY", "WRITE_RDY", "DATA_DONE", "DATA_TIMEOUT", "ERROR"} \subseteq Events
  BY InterfaceAssumption DEF DataEvents, IntBits, EventBits, ErrorBits, TimeoutBits
<1> USE DEF StatusBits, DataStatus, FifoStatus
<1>7. CASE BlockIn
  BY <1>4, <1>5, <1>6, <1>7 DEF BlockIn
<1>8. CASE AskBlock
  BY <1>4, <1>5, <1>6, <1>8 DEF AskBlock
<1>9. CASE BlockOut
  BY <1>4, <1>5, <1>6, <1>9 DEF BlockOut
<1>10. CASE PhaseDone
  BY <1>4, <1>5, <1>6, <1>10 DEF PhaseDone, FreeLine
<1>11. CASE PhaseFails
  BY <1>4, <1>5, <1>6, <1>11 DEF PhaseFails, FreeLine, ErrorBits, TimeoutBits
<1> QED BY <1>1, <1>3, <1>7, <1>8, <1>9, <1>10, <1>11 DEF HwTransferStep

LEMMA NextIsCmdNext == CallInv /\ [Next]_vars => [CmdNext]_driverVars
BY CallerIsClient, CallStepIsClient, HwIsHw
DEF CallInv, Next, LowStep, CmdNext, vars
-----------------------------------------------------------------------------
LEMMA CmdTypeKept == CallInv /\ [Next]_vars => CmdTypeOK'
BY NextIsCmdNext, CmdNextType DEF CallInv, TypeOK

\* The steps of sd_status, sd_int and sd_cmd.
LEMMA LowStepInv == CallInv /\ CmdTypeOK' /\ LowStep => CallInv'
<1> SUFFICES ASSUME CallInv, CmdTypeOK', LowStep PROVE CallInv'
  OBVIOUS
<1> USE DEF CallInv, Announced, LineHeld
<1>1. TypeOK'
  BY DEF LowStep, callVars, dataVars, cardVars, TypeOK
<1>2. CASE WaitStep
  BY <1>1, <1>2 DEF WaitStep, StatusPoll, StatusExit, IntPoll, IntRead, IntAck, PollStep, LowStep,
     callVars, dataVars, cardVars, hostVars, cmdVars, Executing, IsData
<1>3. CASE CmdStep
  <2>1. ASSUME NEW v, NEW e, Return(v, e)
        PROVE  UNCHANGED <<hostVars, code, arg, outer>>
    BY <2>1 DEF Return, ReturnToClient, AppRejected, AppAccepted
  <2>2. CASE CmdBusy \/ CmdWait \/ CmdClear
    BY <1>1, <2>1, <2>2 DEF CmdBusy, CmdWait, CmdClear, ClearInterrupt, LowStep, callVars, dataVars,
       cardVars, hostVars, Executing, IsData
  <2>3. CASE CmdIssue
    BY <1>1, <2>3 DEF CmdIssue, WriteCmdtm, LowStep, callVars, dataVars, cardVars, Executing, IsData
  <2> QED BY <1>3, <2>2, <2>3 DEF CmdStep
<1> QED BY <1>2, <1>3 DEF LowStep, DriverStep

LEMMA CallerInv == CallInv /\ CmdTypeOK' /\ Caller => CallInv'
<1> SUFFICES ASSUME CallInv, CmdTypeOK',
                    NEW o \in {"read", "write"}, NEW l \in 0 .. NumBlocks, NEW n \in 0 .. MaxNum,
                    NEW b \in [0 .. MaxNum - 1 -> Data \cup {Garbage, Empty}],
                    NEW busy, Call(o, l, n, b, busy)
             PROVE  CallInv'
  <2>1. NoBuffer \in [0 .. MaxNum - 1 -> Data \cup {Garbage, Empty}]
    BY DEF NoBuffer
  <2>2. \A n \in 0 .. MaxNum : Buffers(n) \subseteq [0 .. MaxNum - 1 -> Data \cup {Garbage, Empty}]
    BY DEF Buffers
  <2> QED BY <2>1, <2>2 DEF Caller, CallRead, CallWrite
<1>1. TypeOK'
  BY SizesAssumption DEF CallInv, TypeOK, Call, PcLabels, cardVars, dataVars
<1>2. LineHeld' /\ Announced'
  BY DEF Call, CallInv, LineHeld, Announced, hostVars, cmdVars, cardVars, dataVars, Executing, IsData
<1> QED BY <1>1, <1>2 DEF CallInv

\* A statement of a call changes the call, its buffer and the block count only, and
\* announces no 0.
LEMMA CallStepInv == CallInv /\ CmdTypeOK' /\ CallStep => CallInv'
<1> SUFFICES ASSUME CallInv, CmdTypeOK', CallStep PROVE CallInv'
  OBVIOUS
<1> USE DEF CallInv
<1>1. num \in 1 .. MaxNum /\ c \in 0 .. num /\ num \in Nat /\ MaxNum \in Nat \ {0}
  BY SizesAssumption DEF TypeOK
<1>2. /\ UNCHANGED <<op, lba, num, sd_scr, phase, left, cardVars, faults, cmdtm, arg1>>
      /\ status' \in {status, status \ FifoStatus}
      /\ outer' = NoCommand /\ (code' = "SET_BLOCKCNT" => arg' \in 1 .. MaxNum)
  <2>1. ASSUME NEW k \in {Single, Multi, "STOP_TRANS"}, NEW a, CallCmd(k, a)
        PROVE  /\ UNCHANGED <<cmdtm, arg1, status>> /\ outer' = NoCommand
               /\ code' # "SET_BLOCKCNT"
    BY <2>1 DEF CallCmd, hostVars, Single, Multi, AppCommands
  <2>2. ASSUME CallCmd("SET_BLOCKCNT", num)
        PROVE  /\ UNCHANGED <<cmdtm, arg1, status>> /\ outer' = NoCommand /\ arg' = num
    BY <2>2 DEF CallCmd, hostVars, AppCommands
  <2>3. CASE UNCHANGED <<hostVars, code, arg, outer>> /\ Local
    BY <2>3 DEF hostVars, Local, dataVars, Announced
  <2>4. CASE Ready \/ Preset
    BY <1>1, <2>1, <2>2, <2>3, <2>4
    DEF Ready, Preset, StartTransfer, LeaveWith, LeaveOnError, Local, dataVars, driverVars, cmdVars
  <2>5. CASE Start \/ Sent \/ NoBlock \/ Stop
    BY <2>3, <2>5
    DEF Start, Sent, NoBlock, Stop, AwaitBlock, LeaveWith, LeaveOnError, driverVars, cmdVars
  <2>6. CASE Loop \/ Flush
    BY <2>1, <2>3, <2>6
    DEF Loop, Flush, Finish, AwaitBlock, LeaveWith, Local, dataVars, driverVars, cmdVars
  <2>7. CASE MoveBlock
    BY <2>7 DEF MoveBlock, cmdVars, Announced
  <2> QED BY <2>4, <2>5, <2>6, <2>7 DEF CallStep
<1>3. /\ pc' \in PcLabels /\ ret' \in 0 .. MaxNum /\ blksizecnt' \in 0 .. MaxNum
      /\ c' \in 0 .. num /\ (pc' \in {"sent", "data"} => c' < num)
  <2> USE <1>1 DEF PcLabels, Leave, LeaveFailed, LeaveWith, LeaveOnError, Go
  <2>1. CASE Ready \/ Preset \/ Start
    BY <2>1 DEF Ready, Preset, Start, StartTransfer, TypeOK
  <2>2. CASE Loop \/ Flush \/ Stop
    BY <2>2 DEF Loop, Flush, Stop, AwaitBlock, Finish, TypeOK
  <2>3. CASE Sent \/ NoBlock
    BY <2>3 DEF Sent, NoBlock, AwaitBlock, TypeOK, Announced
  <2>4. CASE MoveBlock
    BY <2>4 DEF MoveBlock, TypeOK, Announced
  <2> QED BY <2>1, <2>2, <2>3, <2>4 DEF CallStep
<1>4. fifo' \in Data \cup {Garbage, Empty} /\ buf' \in [0 .. MaxNum - 1 -> Data \cup {Garbage, Empty}]
  <2>1. CASE MoveBlock
    <3>1. c \in 0 .. MaxNum - 1
      BY <1>1, <2>1 DEF MoveBlock, Announced
    <3> QED BY <2>1, <3>1 DEF MoveBlock, TypeOK
  <2>2. CASE ~MoveBlock
    <3>1. fifo' = fifo /\ buf' \in {buf, NoBuffer}
      BY <2>2 DEF CallStep, Ready, Preset, Start, Loop, Sent, NoBlock, Flush, Stop, StartTransfer,
         AwaitBlock, Finish, LeaveFailed, LeaveWith, LeaveOnError, Go, Local, dataVars
    <3> QED BY <3>1 DEF TypeOK, NoBuffer
  <2> QED BY <2>1, <2>2
<1>5. TypeOK'
  BY <1>2, <1>3, <1>4 DEF TypeOK, cardVars
<1>6. LineHeld'
  BY <1>2 DEF LineHeld, Executing, IsData, FifoStatus
<1>7. Announced'
  BY <1>2, <1>3 DEF Announced, cardVars
<1> QED BY <1>5, <1>6, <1>7

\* The controller and the card.
LEMMA HwStepInv == CallInv /\ CmdTypeOK' /\ HwTransferStep => CallInv'
<1> SUFFICES ASSUME CallInv, CmdTypeOK', HwTransferStep PROVE CallInv'
  OBVIOUS
<1> USE DEF CallInv
<1>0. MaxNum \in Nat \ {0} /\ NumBlocks \in Nat \ {0} /\ MaxFaults \in Nat /\ preset \in Nat /\ limit \in Nat
  BY SizesAssumption DEF TypeOK, Unlimited
<1>1. UNCHANGED <<callVars, code, arg, outer, cmdtm, arg1, sd_scr, blksizecnt>>
  BY DEF HwTransferStep, Accepts, Rejects, Answer, EndCommand, Illegal, Lost, NoAnswer, BlockIn, AskBlock,
     BlockOut, PhaseDone, PhaseFails, PhaseStep, cmdVars
<1> DEFINE CardOK == /\ disk \in [Blocks -> Data \cup {Garbage}]
                     /\ mode \in {"tran", "data", "rcv"} /\ pos \in 0 .. NumBlocks + MaxNum
                     /\ limit \in 0 .. Unlimited /\ preset \in 1 .. Unlimited
                     /\ mode # "tran" => limit >= 1
<1> DEFINE PhaseOK == /\ phase \in {"none", "read", "write"} /\ left \in 0 .. MaxNum
                      /\ fifo \in Data \cup {Garbage, Empty} /\ faults \in 0 .. MaxFaults
<1>2. CardOK /\ PhaseOK
  BY <1>0 DEF TypeOK, Announced, Unlimited
<1>3. CardOK' /\ PhaseOK' /\ LineHeld' => CallInv'
  BY <1>0, <1>1 DEF TypeOK, Announced, callVars, Unlimited
<1>4. ASSUME CardTakes \/ UNCHANGED cardVars PROVE CardOK'
  BY <1>0, <1>2, <1>4 DEF CardTakes, cardVars, Announced, Unlimited, Blocks
<1>5. CASE Accepts \/ Rejects
  <2>1. PICK response : Answer(response) /\ (CardTakes \/ UNCHANGED cardVars)
    BY <1>5 DEF Accepts, Rejects
  <2>2. PhaseOK'
    BY <1>0, <1>2, <2>1 DEF Answer, HostTakes, dataVars, TypeOK
  <2>3. LineHeld'
    BY <2>1 DEF Answer, HostTakes, EndCommand, dataVars, LineHeld, Executing
  <2> QED BY <1>3, <1>4, <2>1, <2>2, <2>3
<1>6. CASE Illegal \/ Lost
  <2>1. PICK e : NoAnswer(e) /\ (CardTakes \/ UNCHANGED cardVars)
    BY <1>6 DEF Illegal, Lost
  <2>2. PhaseOK'
    BY <1>0, <1>2, <1>6, <2>1 DEF NoAnswer, Illegal, Lost, dataVars
  <2>3. LineHeld'
    BY <2>1 DEF NoAnswer, EndCommand, dataVars, LineHeld, Executing
  <2> QED BY <1>3, <1>4, <2>1, <2>2, <2>3
<1>7. ASSUME CardAdvances, phase # "none", mode # "tran",
             disk' = disk \/ (fifo # Empty /\ disk' = [disk EXCEPT ![pos] = fifo])
      PROVE  CardOK' /\ pos \in Blocks
  BY <1>0, <1>2, <1>7 DEF CardAdvances, Blocks, Unlimited
<1>8. ASSUME NEW events, NEW lines, PhaseStep(events, lines),
             "DAT_INHIBIT" \in status => "DAT_INHIBIT" \in lines,
             "CMD_INHIBIT" \in lines => "CMD_INHIBIT" \in status,
             phase # "none"
      PROVE  LineHeld'
  BY <1>1, <1>8 DEF PhaseStep, LineHeld, Executing, IsData
<1>9. CASE BlockIn
  <2>1. CardOK' /\ pos \in Blocks
    BY <1>7, <1>9 DEF BlockIn
  <2>2. PhaseOK'
    BY <1>0, <1>2, <1>9, <2>1 DEF BlockIn
  <2> QED BY <1>3, <1>8, <1>9, <2>1, <2>2 DEF BlockIn
<1>10. CASE AskBlock
  BY <1>2, <1>3, <1>4, <1>8, <1>10 DEF AskBlock, dataVars
<1>11. CASE BlockOut
  <2>1. CardOK'
    BY <1>7, <1>11 DEF BlockOut
  <2>2. PhaseOK'
    BY <1>0, <1>2, <1>11 DEF BlockOut
  <2> QED BY <1>3, <1>8, <1>11, <2>1, <2>2 DEF BlockOut
<1>12. CASE PhaseDone \/ PhaseFails
  <2>1. CardOK'
    BY <1>0, <1>2, <1>4, <1>12 DEF PhaseDone, PhaseFails, CardSilent, cardVars
  <2>2. PhaseOK'
    <3>1. phase' = "none" /\ left' \in {0, left} /\ fifo' \in {Empty, fifo} /\ faults' \in {faults, faults + 1}
          /\ (faults' # faults => faults < MaxFaults)
      BY <1>12 DEF PhaseDone, PhaseFails
    <3> QED BY <1>0, <1>2, <3>1
  <2>3. phase' = "none" /\ (Executing' => Executing)
        /\ (Executing /\ IsData /\ "DAT_INHIBIT" \in status => "DAT_INHIBIT" \in status')
    BY <1>12 DEF PhaseDone, PhaseFails, PhaseStep, FreeLine, Executing, FifoStatus
  <2>4. LineHeld'
    BY <1>1, <2>3 DEF LineHeld, IsData
  <2> QED BY <1>3, <2>1, <2>2, <2>4
<1> QED BY <1>5, <1>6, <1>9, <1>10, <1>11, <1>12 DEF HwTransferStep

LEMMA CallNextInv == CallInv /\ [Next]_vars => CallInv'
<1> SUFFICES ASSUME CallInv, [Next]_vars PROVE CallInv'
  OBVIOUS
<1>1. CmdTypeOK'
  BY CmdTypeKept
<1>2. CASE UNCHANGED vars
  BY <1>1, <1>2 DEF vars, driverVars, hostVars, cmdVars, callVars, dataVars, cardVars, CallInv, TypeOK, LineHeld,
     Announced, Executing, IsData
<1> QED BY <1>1, <1>2, CallerInv, CallStepInv, LowStepInv, HwStepInv DEF Next

\* Every variable keeps its type.
THEOREM TransferTypeCorrect == Spec => []TypeOK
<1>1. CallInv => TypeOK
  BY DEF CallInv
<1> QED BY <1>1, CallInitInv, CallNextInv, PTL DEF Spec

\* The two functions are a client of sd_cmd, and controller and card are hardware, as
\* SdCmd has them: what is proved of every client and every controller is true of these.
THEOREM UsesSdCmdAlways == Spec => UsesSdCmd
<1>1. Init => CmdInit
  BY DEF Init
<1> QED BY <1>1, CallInitInv, CallNextInv, NextIsCmdNext, PTL DEF Spec, UsesSdCmd, CmdSpec
-----------------------------------------------------------------------------
(* The argument of ReadReturnsDisk and TransferReachesDisk.  From the moment a call has     *)
(* found the data line free, the phase of the controller is its own: READ_RDY stands for a *)
(* block in the FIFO, WRITE_RDY for room in it, and DATA_DONE for the end of the phase.     *)
(* A phase of a read that breaks off may take a block away after READ_RDY was acknowledged; *)
(* the copy is garbage then, but an error is latched, and more blocks are to come, so that  *)
(* the next wait fails.  A write needs no such case: its end has to be announced.           *)

\* The stretch in which the properties of a call hold: after the wait for the line, and
\* until the next call if it succeeded.
Active == pc # "ready" /\ (pc = "idle" => ret > 0) /\ (op = "write" => OneTransfer)
Reading == Active /\ op = "read"
Writing == Active /\ op = "write"

\* Who waits for whom.
Frames ==
  /\ cmd # "none" => pc \in {"preset", "start", "sent", "stop"}
  /\ wait # "none" => cmd # "none" \/ pc \in {"ready", "data", "flush"}
  /\ pc = "ready" => wait \in {"status_poll", "status_exit", "none"} /\ "DAT_INHIBIT" \in mask
  /\ pc \in {"data", "flush"} => wait \in {"int_poll", "int_read", "int_ack", "none"}
  /\ pc = "data" => mask = BlockReady
  /\ pc = "flush" => mask = {"DATA_DONE"}
  /\ op = "read" => pc # "flush"
  /\ pc \in {"preset", "start", "stop"} => Ccs
  /\ pc = "sent" => ~Ccs
  /\ pc \in {"ready", "preset", "start"} => c = 0
  /\ pc \in {"stop", "flush"} => c = num
  /\ pc = "idle" /\ ret > 0 => c = num

\* What the two loops have established.
LineFree ==
  pc = "ready" /\ ( \/ wait = "status_exit" /\ cnt > 0 /\ interrupt \cap ErrorBits = {}
                    \/ wait = "none" /\ res = "OK" )
    => "DAT_INHIBIT" \notin status

EventSeen ==
  pc \in {"data", "flush"} =>
    /\ wait = "int_read" /\ cnt > 0 => interrupt \cap (mask \cup ErrorBits) # {}
    /\ wait = "int_ack" => snap \subseteq interrupt
    /\ wait = "int_ack" /\ cnt > 0 => snap \cap (mask \cup ErrorBits) # {}

\* The caller of a write hands over blocks that could be written.
Filled == op = "write" => \A k \in 0 .. MaxNum - 1 : buf[k] # Empty

\* The commands of a call, before they are issued and after.
Place == IF Ccs THEN lba ELSE (lba + c) * BlockLen
Transfer == IF Ccs /\ num > 1 THEN Multi ELSE Single

Sending ==
  Active /\ cmd # "none" =>
    /\ pc = "preset" => code = "SET_BLOCKCNT" /\ arg = num
    /\ pc = "stop" => code = "STOP_TRANS"
    /\ pc \in {"start", "sent"} => code = Transfer /\ arg = Place

Unsent == pc = "preset" \/ (pc \in {"start", "sent"} /\ cmd \in {"busy", "clear", "issue"})
          \/ (pc = "loop" /\ ~Ccs /\ c < num)

Quiet == phase = "none" \/ (~Ccs /\ c > 0 /\ left = 0 /\ fifo = Empty)

InFlight ==
  Active /\ Executing =>
    /\ IsData => /\ pc \in {"start", "sent"} /\ ~Unsent /\ ~(cmd = "none" /\ sd_err = "OK")
                 /\ cmdtm = Transfer /\ arg1 = Place /\ Quiet
    /\ cmdtm = "STOP_TRANS" => phase = "none" \/ (op = "read" /\ c = num)

Programmed == Active /\ pc = "start" => blksizecnt = num

\* The data phase of a call.
Held == IF fifo = Empty THEN 0 ELSE 1

\* The first n blocks of the call are on the card.
Same(n) == \A k \in 0 .. n - 1 : lba + k < NumBlocks /\ buf[k] = disk[lba + k]

Phase ==
  /\ Active => phase \in {"none", op}
  /\ Active /\ Unsent => Quiet
  /\ Reading /\ phase = "read" =>
       /\ Ccs \/ num = 1 => left + c + Held = num
       /\ ~Ccs => left + Held <= 1
       /\ left > 0 /\ mode = "data" => pos = lba + c + Held
       /\ fifo # Empty => lba + c < NumBlocks /\ fifo = disk[lba + c]
  /\ Writing /\ phase = "write" =>
       /\ left + c = num + Held
       /\ left > 0 /\ mode = "rcv" => pos + Held = lba + c
       /\ fifo # Empty => c > 0 /\ fifo = buf[c - 1]
       /\ Same(c - Held)

\* A block that was announced is there, or was lost with a trace.
There == phase = "read" /\ fifo # Empty /\ "READ_AVAILABLE" \in status
LostBlock == phase = "none" /\ Ccs /\ c + 1 < num /\ interrupt \cap ErrorBits # {}

\* A block was asked for.
Asked == phase = "write" /\ left > 0 /\ fifo = Empty /\ "WRITE_AVAILABLE" \in status

Listening ==
  \/ pc \in {"start", "sent"} /\ ( \/ cmd = "issue"
                                   \/ cmd = "wait" /\ (wait = "none" => res = "OK")
                                   \/ cmd = "none" /\ sd_err = "OK" )
  \/ pc = "loop" /\ Ccs
  \/ pc = "data" /\ (wait = "none" => res = "OK")

Waiting == Listening \/ pc = "flush" \/ (pc = "loop" /\ c = num)

BlockSeen == pc = "data" /\ wait = "none" /\ res = "OK"

Announces ==
  /\ Active /\ pc \in {"start", "sent"} /\ (cmd = "issue" \/ (cmd = "wait" /\ Executing))
       => BlockReady \cap interrupt = {} 
  /\ Reading /\ Listening /\ "READ_RDY" \in interrupt => There \/ LostBlock
  /\ Reading /\ BlockSeen => "READ_RDY" \notin interrupt /\ (There \/ LostBlock)
  /\ Writing /\ Listening /\ "WRITE_RDY" \in interrupt => Asked \/ phase = "none"
  /\ Writing /\ BlockSeen => phase = "none" \/ (Asked /\ "WRITE_RDY" \notin interrupt)

\* The end of a write is that of all its blocks.
Done == c = num /\ phase = "none" /\ Same(num)

Ends ==
  /\ Writing /\ Waiting /\ "DATA_DONE" \in interrupt => Done
  /\ Writing /\ pc = "flush" /\ wait = "none" /\ res = "OK" => Done
  /\ Writing /\ pc \in {"stop", "idle"} => Done

\* The blocks that a read has copied are right, or the call will not succeed.
Doomed ==
  /\ Ccs /\ c < num
  /\ \/ pc = "loop" /\ interrupt \cap ErrorBits # {}
     \/ pc = "data" /\ wait \in {"int_poll", "int_read"} /\ interrupt \cap ErrorBits # {}
     \/ pc = "data" /\ wait = "int_ack" /\ snap \cap ErrorBits # {}
     \/ pc = "data" /\ wait = "none" /\ res # "OK"

Copied == Reading => Same(c) \/ Doomed

FrameInv == Frames /\ LineFree /\ EventSeen /\ Filled

LEMMA FrameLowStep == CallInv /\ OwnAnswer /\ FrameInv /\ LowStep => FrameInv'
<1> SUFFICES ASSUME CallInv, OwnAnswer, FrameInv, LowStep PROVE FrameInv'
  OBVIOUS
<1>0. UNCHANGED <<pc, op, num, c, buf, ret, sd_scr>> /\ BlockReady' = BlockReady /\ Ccs' = Ccs
      /\ {"READ_RDY", "WRITE_RDY", "DATA_DONE"} \cap ErrorBits = {}
  BY DEF LowStep, callVars, BlockReady, Ccs, ErrorBits, TimeoutBits
<1>1. cmd' # "none" => cmd # "none"
  BY DEF LowStep, DriverStep, WaitStep, CmdStep, StatusPoll, StatusExit, IntPoll, IntRead, IntAck, PollStep,
     cmdVars, CmdBusy, CmdClear, CmdIssue, CmdWait
<1>2. CASE StatusPoll
  BY <1>0, <1>2 DEF StatusPoll, PollStep, FrameInv, Frames, LineFree, EventSeen, Filled, hostVars, cmdVars, CallInv,
     TypeOK, CmdTypeOK
<1>3. CASE StatusExit
  BY <1>0, <1>3 DEF StatusExit, FrameInv, Frames, LineFree, EventSeen, Filled, hostVars, cmdVars, CallInv,
     TypeOK, CmdTypeOK
<1>4. CASE IntPoll
  BY <1>0, <1>4 DEF IntPoll, PollStep, FrameInv, Frames, LineFree, EventSeen, Filled, hostVars, cmdVars, CallInv,
     TypeOK, CmdTypeOK
<1>5. CASE IntRead
  BY <1>0, <1>5 DEF IntRead, FrameInv, Frames, LineFree, EventSeen, Filled, hostVars, cmdVars
<1>6. CASE IntAck
  BY <1>0, <1>6 DEF IntAck, FrameInv, Frames, LineFree, EventSeen, Filled, hostVars, cmdVars
<1>7. CASE CmdStep
  <2>1. pc \in {"preset", "start", "sent", "stop"}
    BY <1>7 DEF FrameInv, Frames, CmdStep, CmdBusy, CmdClear, CmdIssue, CmdWait
  <2>2. ASSUME NEW v, NEW e, Return(v, e), wait = "none" PROVE wait' = "none" \/ cmd' = "busy"
    BY <2>2 DEF Return, ReturnToClient, AppRejected, AppAccepted, waitVars
  <2>3. wait' = "none" \/ cmd' \in {"busy", "wait"}
    BY <1>7, <2>2 DEF CmdStep, CmdBusy, CmdClear, CmdIssue, CmdWait, waitVars, CallInv, OwnAnswer
  <2> QED BY <1>0, <1>1, <2>1, <2>3 DEF FrameInv, Frames, LineFree, EventSeen, Filled
<1> QED BY <1>2, <1>3, <1>4, <1>5, <1>6, <1>7 DEF LowStep, DriverStep, WaitStep

LEMMA FrameCaller == FrameInv /\ Caller => FrameInv'
<1> SUFFICES ASSUME FrameInv,
                    NEW o, NEW l, NEW n, NEW b, NEW busy, "DAT_INHIBIT" \in busy,
                    o = "write" => \A k \in 0 .. MaxNum - 1 : b[k] # Empty,
                    Call(o, l, n, b, busy)
             PROVE  FrameInv'
  <2>1. \A n \in Nat : \A b \in Buffers(n), k \in 0 .. MaxNum - 1 : b[k] # Empty
    BY DataAssumption DEF Buffers, Garbage, Empty
  <2> QED BY <2>1 DEF Caller, CallRead, CallWrite
<1> QED BY DEF Call, CallStatus, Poll, Idle, FrameInv, Frames, LineFree, EventSeen, Filled, cmdVars

LEMMA FrameCallStep == CallInv /\ FrameInv /\ CallStep => FrameInv'
<1> SUFFICES ASSUME CallInv, FrameInv, CallStep PROVE FrameInv'
  OBVIOUS
<1> USE DEF FrameInv, Frames, LineFree, EventSeen, Filled, Idle, Ccs, BlockReady, Leave, LeaveFailed, LeaveWith, LeaveOnError, Go,
        Local, CallInt, CallCmd, CallStatus, Poll, driverVars, waitVars, cmdVars
<1>0. \A k \in 0 .. MaxNum - 1 : NoBuffer[k] # Empty
  BY DEF NoBuffer, Garbage, Empty
<1>1. CASE Ready
  BY <1>0, <1>1 DEF Ready, StartTransfer
<1>2. CASE Preset \/ Start
  BY <1>0, <1>2 DEF Preset, Start, StartTransfer
<1>3. CASE Loop \/ Flush
  BY <1>0, <1>3 DEF Loop, Flush, Finish, AwaitBlock
<1>4. CASE Sent \/ Stop
  BY <1>0, <1>4 DEF Sent, Stop, AwaitBlock
<1>5. CASE MoveBlock \/ NoBlock
  BY <1>0, <1>5 DEF MoveBlock, NoBlock
<1> QED BY <1>1, <1>2, <1>3, <1>4, <1>5 DEF CallStep

LEMMA FrameHwStep == CallInv /\ FrameInv /\ HwTransferStep => FrameInv'
<1> SUFFICES ASSUME CallInv, FrameInv, HwTransferStep PROVE FrameInv'
  OBVIOUS
<1>1. UNCHANGED <<callVars, sd_scr, waitVars, cmdVars>>
  BY DEF HwTransferStep, Accepts, Rejects, Answer, EndCommand, Illegal, Lost, NoAnswer, BlockIn, AskBlock,
     BlockOut, PhaseDone, PhaseFails, PhaseStep
<1>2. interrupt \subseteq interrupt' /\ ("DAT_INHIBIT" \in status' => "DAT_INHIBIT" \in status)
  BY DEF HwTransferStep, Accepts, Rejects, Answer, EndCommand, Illegal, Lost, NoAnswer, BlockIn, AskBlock,
     BlockOut, PhaseDone, PhaseFails, PhaseStep, FreeLine, FifoStatus
<1> QED BY <1>1, <1>2 DEF FrameInv, Frames, LineFree, EventSeen, Filled, BlockReady, callVars, waitVars, cmdVars, Ccs

LEMMA FrameNext == CallInv /\ OwnAnswer /\ FrameInv /\ [Next]_vars => FrameInv'
<1> SUFFICES ASSUME CallInv, OwnAnswer, FrameInv, UNCHANGED vars PROVE FrameInv'
  BY FrameLowStep, FrameCaller, FrameCallStep, FrameHwStep DEF Next
<1> QED BY DEF vars, driverVars, callVars, hostVars, waitVars, cmdVars, FrameInv, Frames, LineFree, EventSeen, Filled,
           BlockReady, Ccs

TransferInv == Sending /\ InFlight /\ Programmed /\ Phase /\ Announces /\ Ends /\ Copied
TransferHyp == CallInv /\ OwnAnswer /\ FrameInv /\ TransferInv

\* Nothing is said of a call that has not the line yet, or has failed.
LEMMA Inactive == ~Active => TransferInv
BY DEF TransferInv, Sending, InFlight, Programmed, Phase, Announces, Ends, Copied, Reading, Writing

LEMMA CallNumbers ==
  ASSUME CallInv
  PROVE  /\ c \in Nat /\ num \in 1 .. MaxNum /\ num \in Nat \ {0} /\ MaxNum \in Nat /\ c <= num /\ left \in Nat
         /\ lba \in Nat /\ BlockLen \in Nat \ {0} /\ pos \in Nat /\ NumBlocks \in Nat
         /\ buf \in [0 .. MaxNum - 1 -> Data \cup {Garbage, Empty}]
         /\ pc \in {"sent", "data"} => c < num
BY SizesAssumption DEF CallInv, TypeOK, Announced

\* What does not depend on the registers and on the driver's own variables.
LEMMA ArgumentsSame ==
  ASSUME UNCHANGED <<op, lba, num, c, buf, sd_scr, dataVars, cardVars>>
  PROVE  /\ Quiet' = Quiet /\ Held' = Held /\ Place' = Place /\ Transfer' = Transfer /\ Ccs' = Ccs
         /\ BlockReady' = BlockReady /\ OneTransfer' = OneTransfer /\ Done' = Done
         /\ Same(c)' = Same(c) /\ Same(num)' = Same(num) /\ Same(c - Held)' = Same(c - Held)
<1>1. /\ Quiet' = Quiet /\ Held' = Held /\ Place' = Place /\ Transfer' = Transfer /\ Ccs' = Ccs
      /\ BlockReady' = BlockReady /\ OneTransfer' = OneTransfer
  BY DEF dataVars, Quiet, Held, Place, Transfer, Single, Multi, Ccs, BlockReady, OneTransfer
<1>2. Same(c)' = Same(c) /\ Same(num)' = Same(num) /\ Same(c - Held)' = Same(c - Held)
  BY <1>1 DEF cardVars, Same
<1> QED BY <1>1, <1>2 DEF Done, dataVars

LEMMA CallSame ==
  ASSUME UNCHANGED <<callVars, sd_scr, dataVars, cardVars>>
  PROVE  /\ Active' = Active /\ Reading' = Reading /\ Writing' = Writing
         /\ Quiet' = Quiet /\ Held' = Held /\ Place' = Place /\ Transfer' = Transfer /\ Ccs' = Ccs
         /\ BlockReady' = BlockReady /\ OneTransfer' = OneTransfer /\ Done' = Done
         /\ Same(c)' = Same(c) /\ Same(num)' = Same(num) /\ Same(c - Held)' = Same(c - Held)
         /\ (Unsent' => Unsent) /\ Phase => Phase'
<1>1. /\ Quiet' = Quiet /\ Held' = Held /\ Place' = Place /\ Transfer' = Transfer /\ Ccs' = Ccs
      /\ BlockReady' = BlockReady /\ OneTransfer' = OneTransfer /\ Done' = Done
      /\ Same(c)' = Same(c) /\ Same(num)' = Same(num) /\ Same(c - Held)' = Same(c - Held)
  BY ArgumentsSame DEF callVars
<1>2. Active' = Active /\ Reading' = Reading /\ Writing' = Writing
  BY <1>1 DEF callVars, Active, Reading, Writing
<1>3. (Unsent' => Unsent) /\ Phase => Phase'
  BY <1>1, <1>2 DEF callVars, dataVars, cardVars, Phase
<1> QED BY <1>1, <1>2, <1>3

\* sd_status and sd_int.
LEMMA WaitStepKeeps == TransferHyp /\ LowStep /\ WaitStep => TransferInv'
<1> SUFFICES ASSUME TransferHyp, LowStep, WaitStep PROVE TransferInv'
  OBVIOUS
<1> USE DEF TransferHyp, TransferInv
<1>1. /\ UNCHANGED <<callVars, sd_scr, blksizecnt, dataVars, cardVars, cmdVars, status, cmdtm, arg1>>
      /\ interrupt' \subseteq interrupt
  BY DEF LowStep, WaitStep, StatusPoll, StatusExit, IntPoll, IntRead, IntAck, PollStep, hostVars,
     ClearInterrupt
<1>2. /\ Active' = Active /\ Reading' = Reading /\ Writing' = Writing /\ Quiet' = Quiet /\ Place' = Place
      /\ Transfer' = Transfer /\ Ccs' = Ccs /\ BlockReady' = BlockReady /\ Done' = Done /\ Same(c)' = Same(c)
      /\ Unsent' = Unsent /\ Phase' /\ Executing' = Executing
  BY <1>1, CallSame DEF Unsent, callVars, cmdVars, Executing
<1>3. Sending' /\ InFlight' /\ Programmed'
  BY <1>1, <1>2 DEF Sending, InFlight, Programmed, callVars, cmdVars, dataVars, Executing, IsData
<1>4. CASE StatusPoll \/ StatusExit
  <2>1. interrupt' = interrupt /\ pc \notin {"data", "flush"} /\ ~(cmd = "wait")
        /\ wait \in {"status_poll", "status_exit"}
    BY <1>4 DEF StatusPoll, StatusExit, PollStep, hostVars, FrameInv, Frames, OwnAnswer
  <2>2. Announces' /\ Ends'
    BY <1>1, <1>2, <2>1 DEF Announces, Ends, Listening, Waiting, BlockSeen, There, LostBlock, Asked, callVars,
       cmdVars, dataVars
  <2>3. Copied'
    BY <1>1, <1>2, <2>1 DEF Copied, Doomed, callVars
  <2> QED BY <1>2, <1>3, <2>2, <2>3
<1>5. CASE IntPoll \/ IntRead
  <2>1. /\ interrupt' = interrupt /\ res' = res /\ wait \in {"int_poll", "int_read"}
        /\ wait' \in {"int_poll", "int_read", "int_ack"}
        /\ (wait' = "int_ack" => snap' = interrupt)
    BY <1>5 DEF IntPoll, IntRead, PollStep, hostVars
  <2>2. Announces' /\ Ends'
    BY <1>1, <1>2, <2>1 DEF Announces, Ends, Listening, Waiting, BlockSeen, There, LostBlock, Asked, callVars,
       cmdVars, dataVars
  <2>3. Copied'
    BY <1>1, <1>2, <2>1 DEF Copied, Doomed, callVars
  <2> QED BY <1>2, <1>3, <2>2, <2>3
<1>6. CASE IntAck
  <2>1. /\ wait = "int_ack" /\ wait' = "none" /\ res' = Verdict
        /\ interrupt' = interrupt \ (IF Verdict = "OK" THEN mask ELSE snap)
    BY <1>6 DEF IntAck, ClearInterrupt
  <2>2. Verdict = "OK" => snap \cap ErrorBits = {} /\ cnt > 0
    BY DEF Verdict, ErrorBits, CallInv, TypeOK, CmdTypeOK
  <2>3. cmd # "none" \/ pc \in {"data", "flush"}
    BY <2>1 DEF FrameInv, Frames
  <2>4. CASE Verdict # "OK"
    <3>1. ~Listening' /\ res' # "OK" /\ (Waiting' => Waiting)
      BY <1>1, <2>1, <2>3, <2>4 DEF Listening, Waiting, FrameInv, Frames, OwnAnswer, callVars, cmdVars
    <3>2. Announces' /\ Ends'
      BY <1>1, <1>2, <3>1 DEF Announces, Ends, BlockSeen, callVars, cmdVars
    <3>3. Copied'
      BY <1>1, <1>2, <2>1, <2>4 DEF Copied, Doomed, FrameInv, Frames, callVars, cmdVars
    <3> QED BY <1>2, <1>3, <3>2, <3>3
  <2>5. CASE Verdict = "OK" /\ pc = "data"
    <3>1. mask = BlockReady /\ BlockReady \in {{"READ_RDY"}, {"WRITE_RDY"}}
          /\ (op = "read" => mask = {"READ_RDY"}) /\ (op = "write" => mask = {"WRITE_RDY"})
      BY <2>5 DEF FrameInv, Frames, BlockReady, CallInv, TypeOK
    <3>2. BlockReady \subseteq snap /\ BlockReady \subseteq interrupt
      BY <2>1, <2>2, <2>5, <3>1 DEF FrameInv, EventSeen
    <3>3. (interrupt' \cap ErrorBits = interrupt \cap ErrorBits) /\ BlockReady \cap interrupt' = {}
      BY <2>1, <2>5, <3>1 DEF ErrorBits, TimeoutBits
    <3>4. /\ Reading => There \/ LostBlock
          /\ Writing => Asked \/ phase = "none"
      BY <2>1, <2>5, <3>1, <3>2 DEF Announces, Listening, Reading, Writing
    <3>5. Announces'
      BY <1>1, <1>2, <2>1, <2>5, <3>1, <3>3, <3>4
      DEF Announces, BlockSeen, There, LostBlock, Asked, Reading, Writing, callVars, dataVars
    <3>6. Ends'
      BY <1>1, <1>2, <2>1, <2>5 DEF Ends, Waiting, Listening, callVars
    <3>7. Copied'
      BY <1>1, <1>2, <2>1, <2>2, <2>5 DEF Copied, Doomed, callVars
    <3> QED BY <1>2, <1>3, <3>5, <3>6, <3>7
  <2>6. CASE Verdict = "OK" /\ pc = "flush"
    <3>1. "DATA_DONE" \in interrupt
      BY <2>1, <2>2, <2>6 DEF FrameInv, Frames, EventSeen
    <3>2. Writing => Done
      BY <2>6, <3>1 DEF Ends, Waiting
    <3>3. Ends'
      BY <1>1, <1>2, <3>2 DEF Ends
    <3>4. Announces' /\ Copied'
      BY <1>1, <1>2, <2>6
      DEF Announces, Listening, BlockSeen, Copied, Doomed, FrameInv, Frames, Reading, callVars
    <3> QED BY <1>2, <1>3, <3>3, <3>4
  <2>7. CASE Verdict = "OK" /\ pc \notin {"data", "flush"}
    <3>1. Listening' => Listening /\ cmd = "wait" /\ mask = {"CMD_DONE"}
      BY <1>1, <2>1, <2>7 DEF Listening, FrameInv, Frames, OwnAnswer, callVars, cmdVars
    <3>2. mask = {"CMD_DONE"} => interrupt' \cap ErrorBits = interrupt \cap ErrorBits
      BY <2>1, <2>7 DEF ErrorBits, TimeoutBits
    <3>3. Announces'
      BY <1>1, <1>2, <2>7, <3>1, <3>2
      DEF Announces, BlockSeen, There, LostBlock, Asked, callVars, cmdVars, dataVars
    <3>4. Ends'
      BY <1>1, <1>2, <2>7, <3>1 DEF Ends, Waiting, callVars
    <3>5. Copied'
      BY <1>1, <1>2, <2>1, <2>7 DEF Copied, Doomed, FrameInv, Frames, callVars
    <3> QED BY <1>2, <1>3, <3>3, <3>4, <3>5
  <2> QED BY <2>4, <2>5, <2>6, <2>7
<1> QED BY <1>4, <1>5, <1>6 DEF WaitStep

\* sd_cmd.
LEMMA CmdStepKeeps == TransferHyp /\ LowStep /\ CmdStep => TransferInv'
<1> SUFFICES ASSUME TransferHyp, LowStep, CmdStep PROVE TransferInv'
  OBVIOUS
<1> USE DEF TransferHyp, TransferInv
<1>1. UNCHANGED <<callVars, sd_scr, blksizecnt, dataVars, cardVars>>
  BY DEF LowStep
<1>2. /\ Active' = Active /\ Reading' = Reading /\ Writing' = Writing /\ Quiet' = Quiet /\ Place' = Place
      /\ Transfer' = Transfer /\ Ccs' = Ccs /\ BlockReady' = BlockReady /\ Done' = Done /\ Same(c)' = Same(c)
      /\ (Unsent' => Unsent) => Phase'
  BY <1>1, CallSame
<1>3. cmd # "none" /\ pc \in {"preset", "start", "sent", "stop"}
  BY DEF FrameInv, Frames, CmdStep, CmdBusy, CmdClear, CmdIssue, CmdWait
<1>4. Programmed' /\ Copied'
  BY <1>1, <1>2, <1>3 DEF Programmed, Copied, Doomed, callVars
\* The end of a call of sd_cmd, or of its wait for the line, is no news of the phase.
<1>5. ASSUME UNCHANGED status, interrupt' \subseteq interrupt, interrupt' = interrupt \/ ~LostBlock,
             Listening' => Listening \/ interrupt' = {},
             cmd' \in {"issue", "wait"} => interrupt' = {}
      PROVE  Announces' /\ Ends'
  BY <1>1, <1>2, <1>3, <1>5
  DEF Announces, Ends, Waiting, BlockSeen, There, LostBlock, Asked, callVars, dataVars
<1>6. ASSUME NEW v, NEW e, Return(v, e)
      PROVE  UNCHANGED hostVars /\ cmd' = "none" /\ sd_err' = e /\ (Unsent' => Unsent)
  BY <1>1, <1>6 DEF Return, ReturnToClient, AppRejected, AppAccepted, CallInv, Announced, Unsent, callVars,
     Ccs
<1>7. CASE CmdBusy
  <2>1. CASE res # "OK"
    <3>1. UNCHANGED hostVars /\ cmd' = "none" /\ sd_err' = "TIMEOUT" /\ (Unsent' => Unsent)
      BY <1>6, <1>7, <2>1 DEF CmdBusy
    <3>2. Announces' /\ Ends'
      BY <1>1, <1>3, <1>5, <3>1 DEF Listening, callVars, hostVars
    <3>3. Sending' /\ InFlight'
      BY <1>1, <1>2, <3>1 DEF Sending, InFlight, hostVars, Executing, IsData, callVars, dataVars
    <3> QED BY <1>2, <1>4, <3>1, <3>2, <3>3
  <2>2. CASE res = "OK"
    <3>1. UNCHANGED <<hostVars, code, arg, waitVars>> /\ cmd = "busy" /\ cmd' = "clear"
      BY <1>7, <2>2 DEF CmdBusy
    <3>2. Unsent' = Unsent
      BY <1>1, <3>1 DEF Unsent, callVars, Ccs
    <3>3. Announces' /\ Ends'
      BY <1>1, <1>3, <1>5, <3>1 DEF Listening, callVars, hostVars
    <3>4. Sending' /\ InFlight'
      BY <1>1, <1>2, <3>1, <3>2 DEF Sending, InFlight, hostVars, Executing, IsData, callVars, dataVars
    <3> QED BY <1>2, <1>4, <3>2, <3>3, <3>4
  <2> QED BY <2>1, <2>2
<1>8. CASE CmdClear
  <2>1. UNCHANGED <<status, cmdtm, arg1, code, arg, waitVars>> /\ cmd = "clear" /\ cmd' = "issue"
        /\ interrupt' = {}
    BY <1>8 DEF CmdClear, ClearInterrupt
  <2>2. Unsent' = Unsent
    BY <1>1, <2>1 DEF Unsent, callVars, Ccs
  <2>3. Announces' /\ Ends'
    BY <1>1, <1>2, <1>3, <2>1 DEF Announces, Ends, Waiting, Listening, BlockSeen, callVars
  <2>4. Sending' /\ InFlight'
    BY <1>1, <1>2, <2>1, <2>2 DEF Sending, InFlight, Executing, IsData, callVars, dataVars
  <2> QED BY <1>2, <1>4, <2>2, <2>3, <2>4
<1>9. CASE CmdIssue
  <2>1. /\ cmd = "issue" /\ cmd' = "wait" /\ cmdtm' = code /\ code' = code /\ arg' = arg
        /\ code # "APP_CMD" => arg1' = arg
        /\ interrupt' = interrupt /\ wait' # "none"
        /\ status \subseteq status' /\ status' \cap FifoStatus = status \cap FifoStatus
    BY <1>9 DEF CmdIssue, WriteCmdtm, CallInt, Poll, FifoStatus
  <2>2. Sending'
    BY <1>1, <1>2, <2>1 DEF Sending, callVars
  <2>3. Unsent' => Unsent
    BY <1>1, <2>1 DEF Unsent, callVars, Ccs
  <2>4. InFlight'
    <3>1. CASE Active /\ pc \in {"start", "sent"}
      <4>1. code = Transfer /\ arg = Place /\ Unsent /\ Quiet
        BY <2>1, <3>1 DEF Sending, Unsent, Phase
      <4>2. code \notin {"APP_CMD", "STOP_TRANS"}
        BY <4>1 DEF Transfer, Single, Multi
      <4> QED BY <1>1, <1>2, <2>1, <3>1, <4>1, <4>2 DEF InFlight, Unsent, callVars
    <3>2. CASE Active /\ pc = "preset"
      <4>1. code = "SET_BLOCKCNT"
        BY <2>1, <3>2 DEF Sending
      <4> QED BY <1>1, <2>1, <4>1
            DEF InFlight, IsData, DataCommands, ReadCommands, WriteCommands
    <3>3. CASE Active /\ pc = "stop"
      <4>1. code = "STOP_TRANS" /\ c = num /\ op \in {"read", "write"}
        BY <2>1, <3>3 DEF Sending, FrameInv, Frames, CallInv, TypeOK
      <4>2. phase = "none" \/ op = "read"
        BY <3>3, <4>1 DEF Ends, Done, Writing
      <4> QED BY <1>1, <2>1, <4>1, <4>2
            DEF InFlight, IsData, DataCommands, ReadCommands, WriteCommands, callVars, dataVars
    <3> QED BY <1>2, <1>3, <3>1, <3>2, <3>3 DEF InFlight
  <2>5. Announces' /\ Ends'
    BY <1>1, <1>2, <1>3, <2>1
    DEF Announces, Ends, Waiting, Listening, BlockSeen, There, LostBlock, Asked, callVars, dataVars, FifoStatus
  <2> QED BY <1>2, <1>4, <2>2, <2>3, <2>4, <2>5
<1>10. CASE CmdWait
  <2>1. PICK e : /\ UNCHANGED hostVars /\ cmd' = "none" /\ sd_err' = e /\ (Unsent' => Unsent)
                 /\ cmd = "wait" /\ wait = "none" /\ (res # "OK" => e = res)
    BY <1>6, <1>10 DEF CmdWait
  <2>2. Announces' /\ Ends'
    BY <1>1, <1>3, <1>5, <2>1 DEF Listening, hostVars, callVars
  <2>3. Sending'
    BY <2>1 DEF Sending
  <2>4. InFlight'
    BY <1>1, <1>2, <2>1 DEF InFlight, hostVars, Executing, IsData, callVars, dataVars, OwnAnswer
  <2> QED BY <1>2, <1>4, <2>1, <2>2, <2>3, <2>4
<1> QED BY <1>7, <1>8, <1>9, <1>10 DEF CmdStep

\* A new call has not the line yet.
LEMMA CallerKeeps == Caller => TransferInv'
<1> SUFFICES ASSUME NEW o, NEW l, NEW n, NEW b, NEW busy, Call(o, l, n, b, busy) PROVE ~Active'
  BY Inactive DEF Caller, CallRead, CallWrite, TransferInv, Sending, InFlight, Programmed, Phase, Announces,
     Ends, Copied, Reading, Writing
<1> QED BY DEF Call, Active

\* The statements of the call.
LEMMA ReadyKeeps == TransferHyp /\ Ready => TransferInv'
<1> SUFFICES ASSUME TransferHyp, Ready, Active' PROVE TransferInv'
  BY DEF TransferInv, Sending, InFlight, Programmed, Phase, Announces, Ends, Copied, Reading, Writing
<1>1. /\ UNCHANGED <<op, lba, num, sd_scr, dataVars, cardVars, cmdtm, arg1, status, c>>
      /\ c = 0 /\ pc' \in {"preset", "start", "loop"} /\ res = "OK" /\ op \in {"read", "write"}
  BY DEF Ready, Local, Active, StartTransfer, CallCmd, LeaveWith, Leave, LeaveFailed, Go, hostVars, driverVars,
     TransferHyp, FrameInv, Frames, CallInv, TypeOK
<1>2. phase = "none" /\ ~(Executing /\ IsData)
  BY <1>1 DEF Ready, Idle, TransferHyp, FrameInv, LineFree, CallInv, LineHeld
<1>3. phase' = "none" /\ ~(Executing /\ IsData)' /\ Quiet'
  BY <1>1, <1>2 DEF Executing, IsData, Quiet, dataVars
<1>4. Copied'
  BY <1>1 DEF Copied, Same
<1>5. InFlight' /\ Phase'
  BY <1>3 DEF InFlight, Phase
<1>6. CASE pc' = "preset"
  <2>1. cmd' = "busy" /\ code' = "SET_BLOCKCNT" /\ arg' = num
    BY <1>6 DEF Ready, StartTransfer, CallCmd, Go, LeaveWith, Leave, LeaveFailed, AppCommands
  <2>2. Sending' /\ Programmed' /\ Announces' /\ Ends'
    BY <1>1, <1>6, <2>1 DEF Sending, Programmed, Announces, Ends, Waiting, Listening, BlockSeen
  <2> QED BY <1>4, <1>5, <2>2 DEF TransferInv
<1>7. CASE pc' = "start"
  <2>1. Ccs /\ CallCmd(IF num = 1 THEN Single ELSE Multi, lba) /\ blksizecnt' = num
    BY <1>7 DEF Ready, StartTransfer, Go, LeaveWith, Leave, LeaveFailed
  <2>2. cmd' = "busy" /\ code' = (IF num = 1 THEN Single ELSE Multi) /\ arg' = lba
    BY <2>1 DEF CallCmd, Single, Multi, AppCommands
  <2>3. code' = Transfer' /\ arg' = Place'
    BY <1>1, <2>1, <2>2, CallNumbers DEF Transfer, Place, Single, Multi, Ccs, TransferHyp
  <2>4. Sending' /\ Programmed' /\ Announces' /\ Ends'
    BY <1>1, <1>7, <2>1, <2>2, <2>3 DEF Sending, Programmed, Announces, Ends, Waiting, Listening, BlockSeen
  <2> QED BY <1>4, <1>5, <2>4 DEF TransferInv
<1>8. CASE pc' = "loop"
  <2>1. ~Ccs' /\ cmd' = "none" /\ c' # num'
    BY <1>1, <1>8, CallNumbers
    DEF Ready, StartTransfer, Go, LeaveWith, Leave, LeaveFailed, Ccs, Idle, driverVars, cmdVars, TransferHyp
  <2>2. Sending' /\ Programmed' /\ Announces' /\ Ends'
    BY <1>8, <2>1 DEF Sending, Programmed, Announces, Ends, Waiting, Listening, BlockSeen
  <2> QED BY <1>4, <1>5, <2>2 DEF TransferInv
<1> QED BY <1>1, <1>6, <1>7, <1>8

LEMMA PresetKeeps == TransferHyp /\ Preset => TransferInv'
<1> SUFFICES ASSUME TransferHyp, Preset, Active' PROVE TransferInv'
  BY DEF TransferInv, Sending, InFlight, Programmed, Phase, Announces, Ends, Copied, Reading, Writing
<1> USE DEF TransferHyp, TransferInv
<1>1. Active /\ Ccs /\ pc = "preset" /\ pc' = "start" /\ StartTransfer
  BY DEF Preset, Local, LeaveOnError, Leave, LeaveFailed, Active, OneTransfer, Ccs, FrameInv, Frames, StartTransfer, Go
<1>2. op \in {"read", "write"}
  BY DEF CallInv, TypeOK
<1>3. /\ UNCHANGED <<op, lba, num, c, buf, sd_scr, dataVars, cardVars, status, cmdtm, arg1>>
      /\ blksizecnt' = num /\ cmd' = "busy" /\ code' = (IF num = 1 THEN Single ELSE Multi) /\ arg' = lba
  BY <1>1 DEF Preset, Local, StartTransfer, Go, CallCmd, Single, Multi, AppCommands, hostVars
<1>4. /\ Held' = Held /\ Ccs' = Ccs /\ Quiet' = Quiet /\ Place' = Place /\ Transfer' = Transfer
      /\ Same(c)' = Same(c) /\ Same(c - Held)' = Same(c - Held)
  BY <1>3, ArgumentsSame
<1>5. Sending' /\ Programmed' /\ Announces' /\ Ends' /\ Copied'
  <2>1. Programmed' /\ Announces' /\ Ends' /\ Copied'
    BY <1>1, <1>3, <1>4
    DEF Programmed, Announces, Ends, Waiting, Listening, BlockSeen, Copied, Doomed, Reading
  <2>2. code' = Transfer /\ arg' = Place
    BY <1>1, <1>2, <1>3, CallNumbers DEF Single, Multi, Transfer, Place
  <2> QED BY <1>1, <1>4, <2>1, <2>2 DEF Sending
<1>6. InFlight'
  BY <1>1, <1>3 DEF InFlight, Unsent, Executing, IsData, dataVars
<1>7. Phase'
  BY <1>1, <1>3, <1>4 DEF Phase, Reading, Writing, Unsent, dataVars, cardVars
<1> QED BY <1>5, <1>6, <1>7

LEMMA StartKeeps == TransferHyp /\ Start => TransferInv'
<1> SUFFICES ASSUME TransferHyp, Start, Active' PROVE TransferInv'
  BY DEF TransferInv, Sending, InFlight, Programmed, Phase, Announces, Ends, Copied, Reading, Writing
<1> USE DEF TransferHyp, TransferInv
<1>1. /\ Active /\ Ccs /\ pc = "start" /\ pc' = "loop" /\ sd_err = "OK" /\ cmd = "none" /\ wait = "none"
      /\ UNCHANGED <<op, lba, num, c, buf, sd_scr, dataVars, cardVars, driverVars, blksizecnt>> /\ c = 0
  BY DEF Start, Local, LeaveOnError, Leave, LeaveFailed, Active, OneTransfer, Ccs, FrameInv, Frames, Go, Idle
<1>2. /\ Held' = Held /\ Ccs' = Ccs /\ Quiet' = Quiet /\ Place' = Place /\ Transfer' = Transfer
      /\ Same(c)' = Same(c) /\ Same(c - Held)' = Same(c - Held) /\ Done' = Done
  BY <1>1, ArgumentsSame
<1>3. Sending' /\ Programmed' /\ Copied'
  BY <1>1, <1>2 DEF Sending, Programmed, Copied, Doomed, Reading, driverVars, cmdVars
<1>4. InFlight'
  BY <1>1 DEF InFlight, driverVars, hostVars, Executing, IsData, dataVars
<1>5. Phase'
  BY <1>1, <1>2 DEF Phase, Reading, Writing, Unsent, dataVars, cardVars
<1>6. Announces' /\ Ends'
  BY <1>1, <1>2
  DEF Announces, Ends, Waiting, Listening, BlockSeen, There, LostBlock, Asked, Reading, Writing, driverVars,
      hostVars, dataVars
<1> QED BY <1>3, <1>4, <1>5, <1>6

LEMMA SentKeeps == TransferHyp /\ Sent => TransferInv'
<1> SUFFICES ASSUME TransferHyp, Sent, Active' PROVE TransferInv'
  BY DEF TransferInv, Sending, InFlight, Programmed, Phase, Announces, Ends, Copied, Reading, Writing
<1> USE DEF TransferHyp, TransferInv
<1>1. /\ Active /\ ~Ccs /\ pc = "sent" /\ pc' = "data" /\ sd_err = "OK" /\ cmd = "none" /\ wait = "none"
      /\ wait' # "none"
      /\ UNCHANGED <<op, lba, num, c, buf, sd_scr, dataVars, cardVars, hostVars, cmdVars, blksizecnt>>
  BY DEF Sent, Local, LeaveOnError, Leave, LeaveFailed, Active, OneTransfer, Ccs, FrameInv, Frames, AwaitBlock, CallInt,
     Poll, Go, Idle
<1>2. /\ Held' = Held /\ Ccs' = Ccs /\ Quiet' = Quiet /\ Place' = Place /\ Transfer' = Transfer
      /\ Same(c)' = Same(c) /\ Same(c - Held)' = Same(c - Held) /\ Done' = Done
  BY <1>1, ArgumentsSame
<1>3. Sending' /\ Programmed' /\ Copied'
  BY <1>1, <1>2 DEF Sending, Programmed, Copied, Doomed, Reading, cmdVars
<1>4. InFlight'
  BY <1>1 DEF InFlight, hostVars, Executing, IsData, dataVars
<1>5. Phase'
  BY <1>1, <1>2 DEF Phase, Reading, Writing, Unsent, dataVars, cardVars
<1>6. Announces' /\ Ends'
  BY <1>1, <1>2
  DEF Announces, Ends, Waiting, Listening, BlockSeen, There, LostBlock, Asked, Reading, Writing, hostVars, dataVars
<1> QED BY <1>3, <1>4, <1>5, <1>6

LEMMA LoopKeeps == TransferHyp /\ Loop => TransferInv'
<1> SUFFICES ASSUME TransferHyp, Loop, Active' PROVE TransferInv'
  BY DEF TransferInv, Sending, InFlight, Programmed, Phase, Announces, Ends, Copied, Reading, Writing
<1> USE DEF TransferHyp, TransferInv
<1>1. /\ Active /\ pc = "loop" /\ cmd = "none" /\ wait = "none"
      /\ UNCHANGED <<op, lba, num, c, buf, sd_scr, dataVars, cardVars, hostVars, blksizecnt>>
  BY DEF Loop, Local, Finish, Leave, LeaveFailed, Active, OneTransfer, Ccs, AwaitBlock, CallCmd, CallInt, Poll, Go, Idle,
     driverVars
<1>2. /\ Held' = Held /\ Ccs' = Ccs /\ Quiet' = Quiet /\ Place' = Place /\ Transfer' = Transfer
      /\ Same(c)' = Same(c) /\ Same(c - Held)' = Same(c - Held) /\ Done' = Done
  BY <1>1, ArgumentsSame
<1>3. c \in Nat /\ num \in Nat \ {0} /\ c <= num
  BY CallNumbers
<1>4. (pc' = "sent" => Unsent) => Phase'
  BY <1>1, <1>2 DEF Phase, Reading, Writing, Unsent, dataVars, cardVars, Loop, AwaitBlock, Finish, Leave, LeaveFailed, Go
<1>5. (pc' # "sent" \/ ~Executing \/ ~IsData) => InFlight'
  BY <1>1 DEF InFlight, hostVars, Executing, IsData, dataVars
<1>6. CASE c < num /\ ~Ccs /\ CallCmd(Single, (lba + c) * BlockLen) /\ Go("sent")
  <2>1. pc' = "sent" /\ cmd' = "busy" /\ code' = Single /\ arg' = Place
    BY <1>6 DEF CallCmd, Go, Single, AppCommands, Place
  <2>2. Sending' /\ Programmed' /\ Copied' /\ Announces' /\ Ends'
    BY <1>1, <1>2, <1>6, <2>1
    DEF Sending, Programmed, Copied, Doomed, Announces, Ends, Waiting, Listening, BlockSeen, Transfer, Reading
  <2>3. Unsent /\ (~Executing \/ ~IsData)
    BY <1>1, <1>6 DEF Unsent, InFlight
  <2> QED BY <1>4, <1>5, <2>2, <2>3
<1>7. CASE c < num /\ Ccs /\ AwaitBlock
  <2>1. pc' = "data" /\ wait' = "int_poll" /\ cmd' = "none"
    BY <1>1, <1>7 DEF AwaitBlock, CallInt, Poll, Go, cmdVars
  <2>2. Sending' /\ Programmed' /\ Copied'
    BY <1>1, <1>2, <1>7, <2>1 DEF Sending, Programmed, Copied, Doomed, hostVars, Reading
  <2>3. Announces' /\ Ends'
    BY <1>1, <1>2, <1>7, <2>1
    DEF Announces, Ends, Waiting, Listening, BlockSeen, There, LostBlock, Asked, Reading, Writing, hostVars,
        dataVars
  <2> QED BY <1>4, <1>5, <2>1, <2>2, <2>3
<1>8. CASE c = num /\ op = "read" /\ Finish
  <2>1. Same(c)
    BY <1>1, <1>3, <1>8 DEF Copied, Doomed, Reading
  <2>2. /\ pc' \in {"stop", "idle"}
        /\ pc' = "stop" => code' = "STOP_TRANS"
        /\ pc' = "idle" => cmd' = "none"
    BY <1>1, <1>8 DEF Finish, CallCmd, Leave, LeaveFailed, Go, AppCommands, driverVars, cmdVars
  <2>3. Sending' /\ Programmed' /\ Copied' /\ Announces' /\ Ends'
    BY <1>1, <1>2, <1>8, <2>1, <2>2
    DEF Sending, Programmed, Copied, Announces, Ends, Waiting, Listening, BlockSeen, Writing
  <2> QED BY <1>4, <1>5, <2>2, <2>3
<1>9. CASE c = num /\ op = "write" /\ CallInt({"DATA_DONE"}) /\ Go("flush") /\ UNCHANGED cmdVars
  <2>1. pc' = "flush" /\ wait' = "int_poll" /\ cmd' = "none"
    BY <1>1, <1>9 DEF CallInt, Poll, Go, cmdVars
  <2>2. Sending' /\ Programmed' /\ Copied' /\ Announces'
    BY <1>1, <1>9, <2>1 DEF Sending, Programmed, Copied, Announces, Listening, BlockSeen, Reading
  <2>3. Ends'
    BY <1>1, <1>2, <1>9, <2>1 DEF Ends, Waiting, Writing, hostVars
  <2> QED BY <1>4, <1>5, <2>1, <2>2, <2>3
<1> QED BY <1>1, <1>6, <1>7, <1>8, <1>9 DEF Loop

\* A block is copied.
LEMMA MoveReadKeeps == TransferHyp /\ MoveBlock /\ op = "read" => TransferInv'
<1> SUFFICES ASSUME TransferHyp, MoveBlock, op = "read" PROVE TransferInv'
  OBVIOUS
<1>1. /\ Reading /\ Reading' /\ pc = "data" /\ pc' = "loop" /\ cmd = "none" /\ wait = "none" /\ res = "OK"
      /\ UNCHANGED <<op, lba, num, sd_scr, phase, left, cardVars, interrupt, cmdtm, arg1, cmdVars, waitVars>>
      /\ c' = c + 1 /\ fifo' = Empty /\ Executing' = Executing
      /\ buf' = [buf EXCEPT ![c] = IF "READ_AVAILABLE" \in status THEN fifo ELSE Garbage]
  BY DEF MoveBlock, Reading, Active, Idle, Executing, FifoStatus
<1> USE DEF TransferHyp, TransferInv
<1>2. /\ c \in Nat /\ num \in 1 .. MaxNum /\ MaxNum \in Nat /\ c < num /\ left \in Nat /\ lba \in Nat
      /\ buf \in [0 .. MaxNum - 1 -> Data \cup {Garbage, Empty}]
  BY <1>1, CallNumbers
<1>3. "READ_RDY" \notin interrupt /\ (There \/ LostBlock)
  BY <1>1 DEF Announces, BlockSeen
<1>4. Same(c)
  BY <1>1 DEF Copied, Doomed
<1>5. There => Same(c)'
  <2> SUFFICES ASSUME There, NEW k \in 0 .. c PROVE lba + k < NumBlocks /\ buf'[k] = disk[lba + k]
    BY <1>1, <1>2 DEF Same, cardVars
  <2>1. CASE k < c
    <3>1. k \in 0 .. c - 1 /\ buf'[k] = buf[k]
      BY <1>1, <1>2, <2>1
    <3> QED BY <1>4, <3>1 DEF Same
  <2>2. CASE k = c
    <3>1. lba + c < NumBlocks /\ fifo = disk[lba + c] /\ buf'[c] = fifo
      BY <1>1, <1>2 DEF Phase, There
    <3> QED BY <2>2, <3>1
  <2> QED BY <1>2, <2>1, <2>2
<1>6. Copied'
  BY <1>1, <1>2, <1>3, <1>5 DEF Copied, Doomed, LostBlock, Ccs
<1>7. Sending' /\ Programmed' /\ InFlight'
  BY <1>1, <1>2 DEF Sending, Programmed, InFlight, IsData, cmdVars, Reading
<1>8. Announces' /\ Ends'
  BY <1>1, <1>3 DEF Announces, Ends, BlockSeen, Reading, Writing
<1>9. Phase'
  <2>1. phase' # "write" /\ Ccs' = Ccs /\ Held' = 0
    BY <1>1 DEF Phase, Ccs, Held, Reading
  <2>2. There => Held = 1
    BY DEF There, Held
  <2>3. Ccs /\ phase = "read" => left + c + Held = num
    BY <1>1 DEF Phase
  <2>4. CASE phase = "none"
    BY <1>1, <2>1, <2>4 DEF Phase, Quiet
  <2>5. CASE phase = "read" /\ There
    <3>1. Ccs => left + c' + Held' = num
      BY <1>1, <1>2, <2>1, <2>2, <2>3, <2>5
    <3>2. ~Ccs => left = 0
      BY <1>1, <1>2, <2>2, <2>5 DEF Phase
    <3>3. left > 0 /\ mode = "data" => pos = lba + c' + Held'
      BY <1>1, <1>2, <2>1, <2>2, <2>5 DEF Phase
    <3> QED BY <1>1, <1>2, <2>1, <2>5, <3>1, <3>2, <3>3 DEF Phase, Unsent, Quiet, cardVars, Reading, Writing
  <2> QED BY <1>1, <1>3, <2>1, <2>4, <2>5 DEF Phase, LostBlock, CallInv, TypeOK
<1> QED BY <1>6, <1>7, <1>8, <1>9

LEMMA MoveWriteKeeps == TransferHyp /\ MoveBlock /\ op = "write" => TransferInv'
<1> SUFFICES ASSUME TransferHyp, MoveBlock, op = "write", Active' PROVE TransferInv'
  BY Inactive DEF TransferInv, Sending, InFlight, Programmed, Phase, Announces, Ends, Copied, Reading, Writing
<1>1. /\ Writing /\ Writing' /\ ~Reading' /\ pc = "data" /\ pc' = "loop" /\ cmd = "none" /\ wait = "none"
      /\ res = "OK"
      /\ UNCHANGED <<op, lba, num, buf, sd_scr, phase, left, cardVars, interrupt, cmdtm, arg1, cmdVars, waitVars>>
      /\ c' = c + 1 /\ fifo' = (IF "WRITE_AVAILABLE" \in status THEN buf[c] ELSE fifo)
      /\ Executing' = Executing
  BY DEF MoveBlock, Writing, Reading, Active, OneTransfer, Ccs, Idle, Executing, FifoStatus
<1> USE DEF TransferHyp, TransferInv
<1>2. /\ c \in Nat /\ num \in 1 .. MaxNum /\ MaxNum \in Nat /\ c < num /\ left \in Nat /\ lba \in Nat
      /\ pos \in Nat
      /\ buf \in [0 .. MaxNum - 1 -> Data \cup {Garbage, Empty}]
  BY <1>1, CallNumbers
<1>3. /\ phase = "none" \/ (Asked /\ "WRITE_RDY" \notin interrupt)
      /\ "DATA_DONE" \notin interrupt
  <2>1. "DATA_DONE" \in interrupt => c = num
    BY <1>1 DEF Ends, Waiting, Listening, Done
  <2> QED BY <1>1, <1>2, <2>1 DEF Announces, BlockSeen
<1>4. Copied' /\ Ends'
  BY <1>1, <1>3 DEF Copied, Ends
<1>5. Sending' /\ Programmed' /\ InFlight'
  BY <1>1, <1>2 DEF Sending, Programmed, InFlight, IsData, cmdVars, Writing
<1>6. CASE phase = "none"
  BY <1>1, <1>4, <1>5, <1>6 DEF Phase, Quiet, Announces, BlockSeen
<1>7. CASE phase = "write" /\ Asked /\ "WRITE_RDY" \notin interrupt
  <2>1. Held = 0 /\ fifo' = buf[c] /\ left > 0 /\ left + c = num /\ Same(c)
        /\ (mode = "rcv" => pos = lba + c)
    BY <1>1, <1>2, <1>7 DEF Asked, Held, Phase
  <2>2. fifo' # Empty /\ Held' = 1
    BY <1>1, <1>2, <2>1 DEF FrameInv, Filled, Held
  <2>3. (c - Held)' = c /\ Same(c - Held)'
    BY <1>1, <1>2, <2>1, <2>2 DEF Same, cardVars
  <2>4. c' - 1 = c /\ c' > 0
    BY <1>1, <1>2
  <2>5. ~Unsent'
    BY <1>1, <1>2 DEF Unsent, Writing, Active, OneTransfer, Ccs
  <2>6. Phase'
    BY <1>1, <1>2, <1>7, <2>1, <2>2, <2>3, <2>4, <2>5 DEF Phase, cardVars, Writing
  <2>7. Announces'
    BY <1>1, <1>7 DEF Announces, BlockSeen
  <2> QED BY <1>4, <1>5, <2>6, <2>7
<1> QED BY <1>1, <1>3, <1>6, <1>7 DEF Asked

\* The end of a call.
LEMMA EndKeeps == TransferHyp /\ (NoBlock \/ Flush \/ Stop) => TransferInv'
<1> SUFFICES ASSUME TransferHyp, NoBlock \/ Flush \/ Stop, Active' PROVE TransferInv'
  BY DEF TransferInv, Sending, InFlight, Programmed, Phase, Announces, Ends, Copied, Reading, Writing
<1> USE DEF TransferHyp, TransferInv
<1>1. /\ pc \in {"flush", "stop"} /\ pc' \in {"stop", "idle"} /\ Active /\ cmd = "none" /\ c = num
      /\ UNCHANGED <<op, lba, num, c, buf, sd_scr, dataVars, cardVars, hostVars, blksizecnt>>
      /\ pc' = "stop" => code' = "STOP_TRANS"
      /\ pc' = "idle" => cmd' = "none"
      /\ pc = "flush" => wait = "none" /\ res = "OK" /\ op = "write"
  BY DEF NoBlock, Flush, Stop, Finish, CallCmd, AppCommands, LeaveWith, Leave, LeaveFailed, Go, Local, Active, OneTransfer, Ccs,
     FrameInv, Frames, Idle, driverVars, cmdVars, CallInv, TypeOK
<1>2. /\ Held' = Held /\ Ccs' = Ccs /\ Quiet' = Quiet /\ Place' = Place /\ Transfer' = Transfer
      /\ Same(c)' = Same(c) /\ Same(c - Held)' = Same(c - Held) /\ Done' = Done
  BY <1>1, ArgumentsSame
<1>3. Sending' /\ Programmed' /\ Announces'
  BY <1>1 DEF Sending, Programmed, Announces, Listening, BlockSeen
<1>4. Copied'
  BY <1>1, <1>2, CallNumbers DEF Copied, Doomed, Reading
<1>5. Ends'
  BY <1>1, <1>2 DEF Ends, Writing, Waiting, Listening
<1>6. InFlight'
  BY <1>1 DEF InFlight, hostVars, Executing, IsData, dataVars
<1>7. Phase'
  BY <1>1, <1>2 DEF Phase, Reading, Writing, Unsent, dataVars, cardVars
<1> QED BY <1>3, <1>4, <1>5, <1>6, <1>7

\* The controller and the card.
LEMMA HwSame ==
  ASSUME HwTransferStep
  PROVE  /\ UNCHANGED <<callVars, waitVars, cmdVars, sd_scr, blksizecnt, cmdtm, arg1>>
         /\ Active' = Active /\ Reading' = Reading /\ Writing' = Writing /\ Ccs' = Ccs /\ Place' = Place
         /\ Transfer' = Transfer /\ Unsent' = Unsent /\ Listening' = Listening /\ Waiting' = Waiting
         /\ BlockSeen' = BlockSeen /\ BlockReady' = BlockReady /\ IsData' = IsData
         /\ interrupt \subseteq interrupt' /\ (Executing' => Executing)
<1>1. UNCHANGED <<callVars, waitVars, cmdVars, sd_scr, blksizecnt, cmdtm, arg1>>
  BY DEF HwTransferStep, Accepts, Rejects, Answer, EndCommand, Illegal, Lost, NoAnswer, BlockIn, AskBlock,
     BlockOut, PhaseDone, PhaseFails, PhaseStep
<1>2. interrupt \subseteq interrupt' /\ (Executing' => Executing)
  BY DEF HwTransferStep, Accepts, Rejects, Answer, EndCommand, Illegal, Lost, NoAnswer, BlockIn, AskBlock,
     BlockOut, PhaseDone, PhaseFails, PhaseStep, FreeLine, FifoStatus, Executing
<1>3. Active' = Active /\ Reading' = Reading /\ Writing' = Writing /\ Ccs' = Ccs /\ IsData' = IsData
  BY <1>1 DEF callVars, Active, Reading, Writing, OneTransfer, Ccs, IsData
<1>4. Place' = Place /\ Transfer' = Transfer /\ BlockReady' = BlockReady
  BY <1>1, <1>3 DEF callVars, Place, Transfer, Single, Multi, BlockReady
<1>5. Unsent' = Unsent /\ Listening' = Listening /\ Waiting' = Waiting /\ BlockSeen' = BlockSeen
  BY <1>1, <1>3 DEF callVars, waitVars, cmdVars, Unsent, Listening, Waiting, BlockSeen
<1> QED BY <1>1, <1>2, <1>3, <1>4, <1>5

\* Only a write changes the card.
LEMMA HwDisk == TransferHyp /\ HwTransferStep /\ Active /\ phase # "write" => disk' = disk
BY DEF HwTransferStep, Accepts, Rejects, Illegal, Lost, CardTakes, BlockIn, AskBlock, BlockOut, PhaseDone,
   PhaseFails, cardVars

LEMMA HwCommands == TransferHyp /\ HwTransferStep => Sending' /\ Programmed'
BY HwSame DEF Sending, Programmed, TransferHyp, TransferInv, callVars, cmdVars

LEMMA DivTimes == ASSUME NEW n \in Nat, NEW m \in Nat \ {0} PROVE (n * m) \div m = n
BY SMT

\* The data command of a call asks for its own blocks, at their place.
LEMMA OwnCommand ==
  ASSUME TransferHyp, Active, Executing, IsData
  PROVE  /\ Address = lba + c /\ (IsMulti <=> Ccs /\ num > 1)
         /\ cmdtm \in IF op = "read" THEN ReadCommands ELSE WriteCommands
         /\ Ccs => c = 0 /\ blksizecnt = num
         /\ num = 1 => c = 0
         /\ pc \in {"start", "sent"} /\ Quiet /\ ~Unsent
         /\ Listening => BlockReady \cap interrupt = {}
<1> USE DEF TransferHyp, TransferInv
<1>1. /\ pc \in {"start", "sent"} /\ ~Unsent /\ ~(cmd = "none" /\ sd_err = "OK")
      /\ cmdtm = Transfer /\ arg1 = Place /\ Quiet
  BY DEF InFlight
<1>2. Ccs => c = 0 /\ blksizecnt = num
  BY <1>1 DEF FrameInv, Frames, Programmed
<1>3. Address = lba + c
  BY <1>1, <1>2, DivTimes, CallNumbers DEF Address, Place
<1>4. Listening => BlockReady \cap interrupt = {}
  BY <1>1 DEF Listening, Announces
<1>5. num = 1 => c = 0
  BY <1>1, CallNumbers DEF FrameInv, Frames
<1> QED BY <1>1, <1>2, <1>3, <1>4, <1>5
      DEF IsMulti, Transfer, Single, Multi, ReadCommands, WriteCommands, CallInv, TypeOK

\* While the data command of a call is due or on its way.
LEMMA OwnLine ==
  ASSUME TransferHyp, Active, pc \in {"start", "sent"}, cmd = "issue" \/ (cmd = "wait" /\ Executing)
  PROVE  Quiet
<1> USE DEF TransferHyp, TransferInv
<1>1. CASE cmd = "issue"
  BY <1>1 DEF Unsent, Phase
<1>2. CASE cmd = "wait" /\ Executing
  <2>1. cmdtm = Transfer
    BY <1>2 DEF OwnAnswer, Sending
  <2>2. IsData
    BY <2>1 DEF Transfer, Single, Multi, IsData, DataCommands, ReadCommands, WriteCommands
  <2> QED BY <1>2, <2>2 DEF InFlight
<1> QED BY <1>1, <1>2

LEMMA HwReadKeeps == TransferHyp /\ HwTransferStep /\ Reading => TransferInv'
<1> SUFFICES ASSUME TransferHyp, HwTransferStep, Reading PROVE TransferInv'
  OBVIOUS
<1> USE DEF TransferHyp, TransferInv
<1>0. phase # "write" /\ op = "read" /\ Active
  BY DEF Phase, Reading
<1>1. disk' = disk
  BY <1>0, HwDisk
<1>2. Sending' /\ Programmed' /\ Copied' /\ Ends'
  <2>1. Same(c)' = Same(c)
    BY <1>1, HwSame DEF Same, callVars
  <2>2. Doomed => Doomed'
    BY HwSame DEF Doomed, callVars, cmdVars, waitVars
  <2>3. Copied' /\ Ends'
    BY <1>0, <2>1, <2>2, HwSame DEF Copied, Ends, Reading, Writing
  <2> QED BY <2>3, HwCommands
<1>3. /\ c \in Nat /\ num \in 1 .. MaxNum /\ MaxNum \in Nat /\ c <= num /\ left \in Nat /\ lba \in Nat
      /\ BlockLen \in Nat \ {0} /\ pos \in Nat /\ NumBlocks \in Nat
  BY CallNumbers
<1>4. ASSUME Executing, IsData
      PROVE  /\ Address = lba + c /\ (IsMulti <=> Ccs /\ num > 1) /\ cmdtm \in ReadCommands
             /\ Ccs => c = 0 /\ blksizecnt = num
             /\ num = 1 => c = 0
             /\ pc # "data" /\ Quiet /\ ~Unsent
             /\ Listening => "READ_RDY" \notin interrupt
  BY <1>0, <1>4, OwnCommand DEF BlockReady
<1>5. UNCHANGED <<pc, op, lba, num, c, wait, res, cmd, sd_err, code, arg1, cmdtm>>
      /\ Ccs' = Ccs /\ Place' = Place /\ Transfer' = Transfer /\ Unsent' = Unsent /\ BlockSeen' = BlockSeen
      /\ Listening' = Listening /\ IsData' = IsData /\ interrupt \subseteq interrupt' /\ Active' /\ Reading'
      /\ ~Writing' /\ BlockReady' = {"READ_RDY"} /\ BlockReady = {"READ_RDY"}
      /\ (Executing' => Executing)
  BY <1>0, HwSame DEF callVars, waitVars, cmdVars, Writing, BlockReady
<1>6. CASE Accepts \/ Rejects
  <2>1. PICK response :
          Answer(response) /\ (CardTakes \/ (mode = "tran" /\ UNCHANGED cardVars))
    BY <1>6 DEF Accepts, Rejects
  <2>2. Executing /\ ~Executing' /\ ("READ_RDY" \in interrupt' <=> "READ_RDY" \in interrupt)
        /\ ("READ_AVAILABLE" \in status' <=> "READ_AVAILABLE" \in status)
    BY <2>1 DEF Answer, EndCommand, Executing
  <2>3. InFlight'
    BY <2>2 DEF InFlight
  <2>4. CASE IsData
    <3>1. /\ phase = "none" /\ phase' = "read" /\ fifo' = Empty
          /\ left' = IF IsMulti THEN blksizecnt ELSE 1
          /\ mode' = "data" => pos' = lba + c
      BY <1>4, <2>1, <2>2, <2>4
      DEF Answer, MayAnswer, HostTakes, CardTakes, cardVars, IsData, DataCommands, ReadCommands, WriteCommands
    <3>2. Phase'
      BY <1>0, <1>1, <1>3, <1>4, <1>5, <2>2, <2>4, <3>1 DEF Phase, Held
    <3>3. Announces'
      BY <1>0, <1>4, <1>5, <2>2, <2>4 DEF Announces, BlockSeen, Unsent
    <3> QED BY <1>2, <2>3, <3>2, <3>3
  <2>5. CASE cmdtm = "STOP_TRANS"
    <3>1. phase' = phase /\ left' = 0 /\ fifo' = Empty /\ mode' \in {mode, "tran"} /\ ~IsData
      BY <2>1, <2>5
      DEF Answer, HostTakes, CardTakes, cardVars, IsData, DataCommands, ReadCommands, WriteCommands
    <3>2. phase = "none" \/ c = num
      BY <1>0, <2>2, <2>5 DEF InFlight
    <3>3. (Ccs \/ num = 1) /\ phase = "read" => left = 0 /\ fifo = Empty
      BY <1>3, <3>2 DEF Phase, Held
    <3>4. Phase'
      BY <1>0, <1>1, <1>3, <1>5, <3>1, <3>3 DEF Phase, Held, Quiet
    <3>5. ~Ccs /\ There => ~Listening
      BY <1>3, <3>2 DEF There, Listening, FrameInv, Frames, CallInv, Announced
    <3>6. Ccs => ~There
      BY <3>3 DEF There
    <3>7. LostBlock => LostBlock'
      BY <1>5, <3>1 DEF LostBlock
    <3>8. BlockSeen => Listening
      BY DEF BlockSeen, Listening
    <3>9. Announces'
      BY <1>0, <1>5, <2>2, <3>5, <3>6, <3>7, <3>8 DEF Announces
    <3> QED BY <1>2, <2>3, <3>4, <3>9
  <2>6. CASE cmdtm = "SET_BLOCKCNT"
    <3>1. UNCHANGED <<dataVars, mode, pos>>
      BY <2>1, <2>6
      DEF Answer, HostTakes, CardTakes, cardVars, IsData, DataCommands, ReadCommands, WriteCommands
    <3>2. Phase'
      BY <1>0, <1>1, <1>5, <3>1 DEF Phase, Held, Quiet, dataVars
    <3>3. Announces'
      BY <1>0, <1>5, <2>2, <3>1 DEF Announces, There, LostBlock, dataVars
    <3> QED BY <1>2, <2>3, <3>2, <3>3
  <2> QED BY <2>1, <2>4, <2>5, <2>6 DEF Answer, HostTakes
<1>7. CASE Illegal \/ Lost
  <2>1. PICK e \in {"CMD_TIMEOUT", "ERROR"} : NoAnswer(e) /\ (CardTakes \/ UNCHANGED cardVars)
    BY <1>7, FaultsAssumption DEF Illegal, Lost, ErrorBits, TimeoutBits
  <2>2. Executing /\ ~Executing' /\ ("READ_RDY" \in interrupt' <=> "READ_RDY" \in interrupt)
        /\ ("READ_AVAILABLE" \in status' <=> "READ_AVAILABLE" \in status) /\ UNCHANGED dataVars
    BY <2>1 DEF NoAnswer, EndCommand, Executing
  <2>3. InFlight'
    BY <2>2 DEF InFlight
  <2>4. (phase = "read" /\ left > 0 /\ mode' = "data") => mode = "data" /\ pos' = pos
    BY <1>4, <2>1, <2>2 DEF CardTakes, cardVars, Quiet
  <2>5. Phase'
    BY <1>0, <1>1, <1>5, <2>2, <2>4 DEF Phase, Held, Quiet, dataVars
  <2>6. Announces'
    BY <1>0, <1>5, <2>2 DEF Announces, There, LostBlock, dataVars
  <2> QED BY <1>2, <2>3, <2>5, <2>6
<1>8. CASE BlockIn
  <2>1. /\ phase = "read" /\ phase' = phase /\ left > 0 /\ left' = left - 1 /\ fifo = Empty /\ mode = "data"
        /\ pos < NumBlocks /\ pos' = pos + 1 /\ fifo' = disk[pos] /\ "READ_AVAILABLE" \in status'
    BY <1>8 DEF BlockIn, CardAdvances, PhaseStep
  <2>2. pos = lba + c /\ Held = 0 /\ fifo' # Empty /\ Held' = 1
    <3>1. Held = 0 /\ pos = lba + c
      BY <1>3, <2>1 DEF Phase, Held
    <3>2. disk[pos] \in Data \cup {Garbage}
      BY <1>3, <2>1 DEF CallInv, TypeOK, Blocks
    <3> QED BY <2>1, <3>1, <3>2, DataAssumption DEF Held, Garbage, Empty
  <2>3. ~Quiet /\ ~Unsent
    BY <1>0, <2>1 DEF Quiet, Phase
  <2>4. Phase'
    BY <1>0, <1>1, <1>3, <1>5, <2>1, <2>2, <2>3 DEF Phase
  <2>5. InFlight'
    BY <1>0, <1>4, <1>5, <2>1, <2>3 DEF InFlight
  <2>6. There'
    BY <2>1, <2>2 DEF There
  <2>7. ~There /\ ~LostBlock
    BY <2>1 DEF There, LostBlock
  <2>8. ~(pc \in {"start", "sent"} /\ (cmd = "issue" \/ (cmd = "wait" /\ Executing)))
    BY <1>0, <2>3, OwnLine
  <2>9. Announces'
    BY <1>5, <2>6, <2>7, <2>8 DEF Announces
  <2> QED BY <1>2, <2>4, <2>5, <2>9
<1>9. CASE AskBlock \/ BlockOut
  BY <1>0, <1>9 DEF AskBlock, BlockOut
<1>10. CASE PhaseDone
  <2>1. phase # "none" /\ phase' = "none" /\ left = 0 /\ fifo = Empty /\ left' = left /\ fifo' = fifo
        /\ interrupt' = interrupt \cup {"DATA_DONE"}
    BY <1>10 DEF PhaseDone, PhaseStep
  <2>2. Phase' /\ InFlight'
    BY <1>0, <1>5, <2>1 DEF Phase, InFlight, Quiet
  <2>3. ~There /\ ~LostBlock
    BY <2>1 DEF There, LostBlock
  <2>4. Announces'
    BY <1>0, <1>5, <2>1, <2>3 DEF Announces
  <2> QED BY <1>2, <2>2, <2>4
<1>11. CASE PhaseFails
  <2>1. /\ phase # "none" /\ phase' = "none" /\ left > 0
        /\ ("READ_RDY" \in interrupt' <=> "READ_RDY" \in interrupt)
        /\ interrupt' \cap ErrorBits # {}
    BY <1>11 DEF PhaseFails, PhaseStep, ErrorBits, TimeoutBits
  <2>2. Phase' /\ InFlight'
    BY <1>0, <1>5, <2>1 DEF Phase, InFlight, Quiet
  <2>3. There => Ccs /\ c + 1 < num
    BY <1>3, <2>1 DEF There, Phase, Held
  <2>4. There \/ LostBlock => LostBlock'
    BY <1>5, <2>1, <2>3 DEF LostBlock
  <2>5. Announces'
    BY <1>0, <1>5, <2>1, <2>4 DEF Announces
  <2> QED BY <1>2, <2>2, <2>5
<1> QED BY <1>6, <1>7, <1>8, <1>9, <1>10, <1>11 DEF HwTransferStep

LEMMA HwWriteKeeps == TransferHyp /\ HwTransferStep /\ Writing => TransferInv'
<1> SUFFICES ASSUME TransferHyp, HwTransferStep, Writing PROVE TransferInv'
  OBVIOUS
<1> USE DEF TransferHyp, TransferInv
<1>0. phase \in {"none", "write"} /\ op = "write" /\ Active /\ ~Reading
  BY DEF Phase, Writing, Reading
<1>1. Sending' /\ Programmed' /\ Copied'
  BY <1>0, HwSame, HwCommands DEF Copied
<1>2. /\ c \in Nat /\ num \in 1 .. MaxNum /\ MaxNum \in Nat /\ c <= num /\ left \in Nat /\ lba \in Nat
      /\ BlockLen \in Nat \ {0} /\ pos \in Nat /\ NumBlocks \in Nat
      /\ (pc \in {"sent", "data"} => c < num)
  BY CallNumbers
<1>3. UNCHANGED <<pc, op, lba, num, c, buf, wait, res, cmd, sd_err, code, arg1, cmdtm>>
      /\ Ccs' = Ccs /\ Place' = Place /\ Transfer' = Transfer /\ Unsent' = Unsent /\ BlockSeen' = BlockSeen
      /\ Listening' = Listening /\ Waiting' = Waiting /\ IsData' = IsData /\ interrupt \subseteq interrupt'
      /\ Active' /\ Writing' /\ ~Reading' /\ BlockReady' = {"WRITE_RDY"} /\ BlockReady = {"WRITE_RDY"}
      /\ (Executing' => Executing)
  BY <1>0, HwSame DEF callVars, waitVars, cmdVars, BlockReady
\* Until its data command is answered nothing goes on, also without SCR_SUPP_CCS: the
\* write is of one block then.
<1>4. Quiet /\ (Unsent \/ pc \in {"start", "sent"}) => phase = "none"
  BY <1>0, <1>2 DEF Quiet, Unsent, Active, OneTransfer, FrameInv, Frames
<1>5. ASSUME phase = "write" PROVE ~Done
  BY <1>5 DEF Done
<1>6. disk' = disk => Same(c)' = Same(c) /\ Same(num)' = Same(num)
  BY <1>3 DEF Same
\* Between two data phases a step of the hardware only adds to what is latched.
<1>7. ASSUME phase = "none", phase' = "none", disk' = disk, interrupt' \subseteq interrupt \cup ErrorBits \cup {"CMD_DONE"}
      PROVE  TransferInv'
  <2>1. Phase' /\ InFlight'
    BY <1>0, <1>3, <1>7 DEF Phase, InFlight, Quiet
  <2>2. ("DATA_DONE" \in interrupt' => "DATA_DONE" \in interrupt) /\ ("WRITE_RDY" \in interrupt' => "WRITE_RDY" \in interrupt)
    BY <1>7 DEF ErrorBits, TimeoutBits
  <2>3. Announces'
    BY <1>0, <1>3, <1>7, <2>2 DEF Announces
  <2>4. Ends'
    BY <1>3, <1>6, <1>7, <2>2 DEF Ends, Done
  <2> QED BY <1>1, <2>1, <2>3, <2>4
<1>8. CASE Accepts \/ Rejects
  <2>1. PICK response :
          Answer(response) /\ (CardTakes \/ (mode = "tran" /\ UNCHANGED cardVars))
    BY <1>8 DEF Accepts, Rejects
  <2>2. Executing /\ ~Executing' /\ interrupt' = interrupt \cup {"CMD_DONE"}
        /\ ("WRITE_AVAILABLE" \in status' <=> "WRITE_AVAILABLE" \in status)
    BY <2>1 DEF Answer, EndCommand, Executing
  <2>3. InFlight'
    BY <2>2 DEF InFlight
  <2>4. disk' = disk
    BY <2>1 DEF CardTakes, cardVars
  <2>5. CASE IsData
    <3>1. Address = lba + c /\ (IsMulti <=> Ccs /\ num > 1) /\ cmdtm \in WriteCommands
          /\ (Ccs => c = 0 /\ blksizecnt = num)
          /\ pc \in {"start", "sent"} /\ ~Unsent /\ (Listening => BlockReady \cap interrupt = {})
      BY <1>0, <2>2, <2>5, OwnCommand
    <3>2. /\ phase = "none" /\ phase' = "write" /\ fifo' = Empty
          /\ left' = (IF IsMulti THEN blksizecnt ELSE 1)
          /\ mode' = "rcv" => pos' = lba + c
      BY <2>1, <2>5, <3>1
      DEF Answer, MayAnswer, HostTakes, CardTakes, cardVars, DataCommands, ReadCommands, WriteCommands, IsData
    <3>3. c = 0 /\ left' = num /\ Held' = 0
      BY <1>0, <1>2, <3>1, <3>2 DEF Held, Active, OneTransfer, FrameInv, Frames
    <3>4. Phase'
      BY <1>0, <1>2, <1>3, <3>1, <3>2, <3>3 DEF Phase, Same
    <3>5. Announces'
      BY <1>0, <1>3, <2>2, <3>1 DEF Announces, BlockSeen, Unsent
    <3>6. Ends'
      BY <1>2, <1>3, <2>2, <3>1, <3>3 DEF Ends, Done
    <3> QED BY <1>1, <2>3, <3>4, <3>5, <3>6
  <2>6. CASE cmdtm = "STOP_TRANS"
    <3>1. phase = "none" /\ phase' = phase
      BY <1>0, <2>1, <2>2, <2>6
      DEF InFlight, Answer, HostTakes, IsData, DataCommands, ReadCommands, WriteCommands
    <3> QED BY <1>7, <2>2, <2>4, <3>1
  <2>7. CASE cmdtm = "SET_BLOCKCNT"
    <3>1. UNCHANGED <<dataVars, mode, pos>>
      BY <2>1, <2>7
      DEF Answer, HostTakes, CardTakes, cardVars, IsData, DataCommands, ReadCommands, WriteCommands
    <3>2. Same(c - Held)' = Same(c - Held) /\ Held' = Held /\ Quiet' = Quiet
      BY <1>3, <2>4, <3>1 DEF Same, Held, Quiet, dataVars
    <3>3. Phase'
      BY <1>0, <1>3, <3>1, <3>2 DEF Phase, dataVars
    <3>4. Announces'
      BY <1>0, <1>3, <2>2, <3>1 DEF Announces, Asked, dataVars
    <3>5. Ends'
      BY <1>3, <1>6, <2>2, <2>4, <3>1 DEF Ends, Done, dataVars
    <3> QED BY <1>1, <2>3, <3>3, <3>4, <3>5
  <2> QED BY <2>1, <2>5, <2>6, <2>7 DEF Answer, HostTakes
<1>9. CASE Illegal \/ Lost
  <2>1. PICK e \in {"CMD_TIMEOUT", "ERROR"} : NoAnswer(e) /\ (CardTakes \/ UNCHANGED cardVars)
    BY <1>9, FaultsAssumption DEF Illegal, Lost, ErrorBits, TimeoutBits
  <2>2. Executing /\ ~Executing' /\ interrupt' = interrupt \cup {e}
        /\ ("WRITE_AVAILABLE" \in status' <=> "WRITE_AVAILABLE" \in status) /\ UNCHANGED dataVars
    BY <2>1 DEF NoAnswer, EndCommand, Executing
  <2>3. InFlight'
    BY <2>2 DEF InFlight
  <2>4. disk' = disk
    BY <2>1 DEF CardTakes, cardVars
  <2>5. IsData => Quiet /\ pc \in {"start", "sent"}
    BY <1>0, <2>2 DEF InFlight
  <2>6. CASE phase = "none"
    BY <1>7, <2>2, <2>4, <2>6 DEF dataVars, ErrorBits, TimeoutBits
  <2>7. CASE phase = "write"
    <3>1. mode' = "rcv" => mode = "rcv" /\ pos' = pos
      BY <1>4, <2>1, <2>5, <2>7 DEF CardTakes, cardVars
    <3>2. Same(c - Held)' = Same(c - Held) /\ Held' = Held /\ Quiet' = Quiet
      BY <1>3, <2>2, <2>4 DEF Same, Held, Quiet, dataVars
    <3>3. Phase'
      BY <1>0, <1>3, <2>2, <3>1, <3>2 DEF Phase, dataVars
    <3>4. Announces'
      BY <1>0, <1>3, <2>2 DEF Announces, Asked, dataVars
    <3>5. Ends'
      BY <1>3, <1>6, <2>2, <2>4 DEF Ends, Done, dataVars
    <3> QED BY <1>1, <2>3, <3>3, <3>4, <3>5
  <2> QED BY <1>0, <2>6, <2>7
<1>10. CASE BlockIn
  BY <1>0, <1>10 DEF BlockIn
<1>11. CASE AskBlock
  <2>1. /\ UNCHANGED <<dataVars, cardVars>> /\ phase = "write" /\ left > 0 /\ fifo = Empty
        /\ "WRITE_AVAILABLE" \notin status /\ "WRITE_AVAILABLE" \in status'
        /\ interrupt' = interrupt \cup {"WRITE_RDY"}
    BY <1>11 DEF AskBlock, PhaseStep
  <2>2. Same(c - Held)' = Same(c - Held) /\ Held' = Held /\ Quiet' = Quiet
    BY <1>3, <2>1 DEF Same, Held, Quiet, dataVars, cardVars
  <2>3. Phase' /\ InFlight'
    BY <1>0, <1>3, <2>1, <2>2 DEF Phase, InFlight, dataVars, cardVars
  <2>4. ~(pc \in {"start", "sent"} /\ (cmd = "issue" \/ (cmd = "wait" /\ Executing)))
    BY <1>0, <1>4, <2>1, OwnLine
  <2>5. ~BlockSeen
    BY <2>1 DEF Announces, Asked
  <2>6. Announces'
    BY <1>3, <2>1, <2>4, <2>5 DEF Announces, Asked, dataVars
  <2>7. Ends'
    BY <1>3, <1>5, <2>1 DEF Ends
  <2> QED BY <1>1, <2>3, <2>6, <2>7
<1>12. CASE BlockOut
  <2>1. /\ phase = "write" /\ phase' = phase /\ left > 0 /\ left' = left - 1 /\ fifo # Empty /\ fifo' = Empty
        /\ mode = "rcv" /\ pos < NumBlocks /\ pos' = pos + 1 /\ disk' = [disk EXCEPT ![pos] = fifo]
        /\ interrupt' = interrupt
    BY <1>12 DEF BlockOut, CardAdvances, PhaseStep
  <2>2. Held = 1 /\ Held' = 0 /\ left + c = num + 1 /\ pos = lba + (c - 1) /\ c > 0 /\ fifo = buf[c - 1]
        /\ Same(c - 1)
    BY <1>2, <2>1 DEF Phase, Held
  <2>3. Same(c)'
    <3> SUFFICES ASSUME NEW k \in 0 .. c - 1 PROVE lba + k < NumBlocks /\ buf[k] = disk'[lba + k]
      BY <1>3 DEF Same
    <3>0. disk \in [0 .. NumBlocks - 1 -> Data \cup {Garbage}]
      BY DEF CallInv, TypeOK, Blocks
    <3>1. CASE k = c - 1
      BY <1>2, <2>1, <2>2, <3>0, <3>1
    <3>2. CASE k < c - 1
      <4>1. k \in 0 .. (c - 1) - 1 /\ lba + k # pos /\ lba + k \in Nat
        BY <1>2, <2>2, <3>2
      <4>2. lba + k < NumBlocks /\ buf[k] = disk[lba + k]
        BY <2>2, <4>1 DEF Same
      <4> QED BY <2>1, <3>0, <4>1, <4>2
    <3> QED BY <1>2, <2>2, <3>1, <3>2
  <2>4. (c - Held)' = c /\ ~Unsent /\ ~Quiet
    BY <1>0, <1>2, <1>3, <1>4, <2>1, <2>2 DEF Phase, Quiet
  <2>5. Phase'
    BY <1>0, <1>2, <1>3, <2>1, <2>2, <2>3, <2>4 DEF Phase
  <2>6. InFlight'
    BY <1>0, <1>3, <2>1, <2>4 DEF InFlight
  <2>7. Announces'
    BY <1>0, <1>3, <2>1 DEF Announces, Asked
  <2>8. Ends'
    BY <1>3, <1>5, <2>1 DEF Ends
  <2> QED BY <1>1, <2>5, <2>6, <2>7, <2>8
<1>13. CASE PhaseDone
  <2>1. phase = "write" /\ phase' = "none" /\ left = 0 /\ fifo = Empty /\ disk' = disk
        /\ interrupt' = interrupt \cup {"DATA_DONE"}
    BY <1>0, <1>13 DEF PhaseDone, PhaseStep, cardVars
  <2>2. Phase' /\ InFlight'
    BY <1>0, <1>3, <2>1 DEF Phase, InFlight, Quiet
  <2>3. Announces'
    BY <1>0, <1>3, <2>1 DEF Announces
  <2>4. Held = 0 /\ c = num /\ Same(c)
    BY <1>2, <2>1 DEF Phase, Held
  <2>5. Ends'
    BY <1>3, <1>6, <2>1, <2>4 DEF Ends, Done
  <2> QED BY <1>1, <2>2, <2>3, <2>5
<1>14. CASE PhaseFails
  <2>1. phase = "write" /\ phase' = "none"
        /\ ("WRITE_RDY" \in interrupt' <=> "WRITE_RDY" \in interrupt)
        /\ ("DATA_DONE" \in interrupt' <=> "DATA_DONE" \in interrupt)
    BY <1>0, <1>14 DEF PhaseFails, PhaseStep, ErrorBits, TimeoutBits
  <2>2. Phase' /\ InFlight'
    BY <1>0, <1>3, <2>1 DEF Phase, InFlight, Quiet
  <2>3. Announces'
    BY <1>0, <1>3, <2>1 DEF Announces
  <2>4. Ends'
    BY <1>3, <1>5, <2>1 DEF Ends
  <2> QED BY <1>1, <2>2, <2>3, <2>4
<1> QED BY <1>8, <1>9, <1>10, <1>11, <1>12, <1>13, <1>14 DEF HwTransferStep

LEMMA HwKeeps == TransferHyp /\ HwTransferStep => TransferInv'
<1>1. TransferHyp /\ ~Reading /\ ~Writing => ~Active
  BY DEF TransferHyp, CallInv, TypeOK, Reading, Writing
<1>2. ASSUME TransferHyp, HwTransferStep, ~Active PROVE TransferInv'
  BY <1>2, HwSame DEF TransferInv, Sending, InFlight, Programmed, Phase, Announces, Ends, Copied, Reading,
     Writing
<1> QED BY <1>1, <1>2, HwReadKeeps, HwWriteKeeps

LEMMA TransferNext == TransferHyp /\ [Next]_vars => TransferInv'
<1> SUFFICES ASSUME TransferHyp, [Next]_vars PROVE TransferInv'
  OBVIOUS
<1>1. CASE LowStep
  BY <1>1, WaitStepKeeps, CmdStepKeeps DEF LowStep, DriverStep
<1>2. CASE CallStep
  <2>1. op \in {"read", "write"}
    BY DEF TransferHyp, CallInv, TypeOK
  <2> QED BY <1>2, <2>1, ReadyKeeps, PresetKeeps, StartKeeps, SentKeeps, LoopKeeps, MoveReadKeeps,
             MoveWriteKeeps, EndKeeps DEF CallStep
<1>3. CASE UNCHANGED vars
  <2>1. UNCHANGED <<callVars, sd_scr, blksizecnt, dataVars, cardVars, cmdVars, waitVars, hostVars>>
    BY <1>3 DEF vars, driverVars
  <2>2. /\ Active' = Active /\ Reading' = Reading /\ Writing' = Writing /\ Quiet' = Quiet /\ Place' = Place
        /\ Transfer' = Transfer /\ Same(c)' = Same(c) /\ Ccs' = Ccs /\ BlockReady' = BlockReady /\ Done' = Done
        /\ (Unsent' => Unsent) /\ Phase => Phase'
    BY <2>1, CallSame
  <2>3. Unsent' = Unsent /\ Executing' = Executing /\ IsData' = IsData /\ Listening' = Listening
        /\ Waiting' = Waiting /\ BlockSeen' = BlockSeen
    BY <2>1, <2>2 DEF Unsent, callVars, cmdVars, waitVars, hostVars, Executing, IsData, Listening, Waiting, BlockSeen
  <2>4. Sending' /\ InFlight' /\ Programmed' /\ Phase' /\ Copied'
    BY <2>1, <2>2, <2>3
    DEF TransferHyp, TransferInv, Sending, InFlight, Programmed, Copied, Doomed, callVars, cmdVars, hostVars,
        waitVars, dataVars
  <2>5. Announces' /\ Ends'
    BY <2>1, <2>2, <2>3
    DEF TransferHyp, TransferInv, Announces, Ends, There, LostBlock, Asked, callVars, cmdVars, hostVars, waitVars,
        dataVars
  <2> QED BY <2>4, <2>5 DEF TransferInv
<1> QED BY <1>1, <1>2, <1>3, CallerKeeps, HwKeeps DEF Next

LEMMA TransferInitInv == Init => FrameInv /\ TransferInv
<1> SUFFICES ASSUME Init PROVE FrameInv /\ TransferInv
  OBVIOUS
<1>1. ~Active /\ pc = "idle" /\ op = "read" /\ ret = 0 /\ wait = "none" /\ cmd = "none"
  BY DEF Init, CmdInit, Active
<1> QED BY <1>1, Inactive DEF FrameInv, Frames, LineFree, EventSeen, Filled

\* The blocks of a call are blocks of the card.
LEMMA SameInside ==
  ASSUME CallInv, Same(num)
  PROVE  lba + num <= NumBlocks /\ \A k \in 0 .. num - 1 : buf[k] = disk[lba + k]
<1>1. num - 1 \in 0 .. num - 1 /\ num \in Nat /\ lba \in Nat /\ NumBlocks \in Nat
  BY CallNumbers
<1>2. lba + (num - 1) < NumBlocks
  BY <1>1 DEF Same
<1> QED BY <1>1, <1>2 DEF Same

LEMMA ReadFromInv == CallInv /\ FrameInv /\ TransferInv => ReadReturnsDisk
<1> SUFFICES ASSUME CallInv, FrameInv, TransferInv, Returned("read")
             PROVE  lba + num <= NumBlocks /\ \A k \in 0 .. num - 1 : buf[k] = disk[lba + k]
  BY DEF ReadReturnsDisk
<1>1. Reading /\ c = num
  BY DEF Returned, Reading, Active, FrameInv, Frames
<1>2. Same(num)
  BY <1>1, CallNumbers DEF TransferInv, Copied, Doomed
<1> QED BY <1>2, SameInside

LEMMA WriteFromInv == CallInv /\ FrameInv /\ TransferInv => TransferReachesDisk
<1> SUFFICES ASSUME CallInv, FrameInv, TransferInv, OneTransfer, Returned("write")
             PROVE  lba + num <= NumBlocks /\ \A k \in 0 .. num - 1 : buf[k] = disk[lba + k]
  BY DEF TransferReachesDisk, WriteReachesDisk
<1>1. Writing /\ pc = "idle"
  BY DEF Returned, Writing, Active
<1>2. Same(num)
  BY <1>1 DEF TransferInv, Ends, Done
<1> QED BY <1>2, SameInside

LEMMA TransferInvAlways == Spec => [](CallInv /\ FrameInv /\ TransferInv)
<1>1. CallInv /\ OwnAnswer /\ [Next]_vars => OwnAnswer'
  BY NextIsCmdNext, OwnAnswerNext DEF CallInv, TypeOK
<1>2. Init => OwnAnswer
  BY OwnAnswerInit DEF Init
<1>3. CallInv /\ OwnAnswer /\ FrameInv /\ TransferInv /\ [Next]_vars => FrameInv' /\ TransferInv'
  BY FrameNext, TransferNext DEF TransferHyp
<1> QED BY <1>1, <1>2, <1>3, CallInitInv, CallNextInv, TransferInitInv, PTL DEF Spec

\* A read that returned a byte count has returned what is on the card, whatever was lost or
\* broke off during this call and the calls before it.
THEOREM ReadReturnsDiskAlways == Spec => []ReadReturnsDisk
BY TransferInvAlways, ReadFromInv, PTL

\* A write of one transfer that returned a byte count has put its blocks on the card, and they
\* are still there when the next call begins, whatever was lost or broke off.
THEOREM TransferReachesDiskAlways == Spec => []TransferReachesDisk
BY TransferInvAlways, WriteFromInv, PTL
-----------------------------------------------------------------------------
(* The argument of CardBackInTran.  One of three parties ends a transfer of several blocks:  *)
(* the card, after the number SET_BLOCKCNT gave it; the driver, with STOP_TRANS; and nobody, *)
(* when it is a single block.  In the first and last case the card counts down with the     *)
(* controller, so that the end of the phase is that of the transfer.                         *)

\* The number of blocks of the transfer is the card's.
Bounded == Ccs /\ num > 1 => SetBlkcnt
Presets == Ccs /\ num > 1 /\ SetBlkcnt

\* The command of this place of the call was answered.
Answered ==
  \/ cmd = "wait" /\ ( \/ "CMD_DONE" \in interrupt
                       \/ wait = "int_ack" /\ "CMD_DONE" \in snap
                       \/ wait = "none" /\ res = "OK" )
  \/ cmd = "none" /\ sd_err = "OK"

\* The driver has seen the end of the phase, or is going to.
Ended ==
  Writing /\ ( \/ Waiting /\ "DATA_DONE" \in interrupt
               \/ pc = "flush" /\ wait = "none" /\ res = "OK"
               \/ pc \in {"stop", "idle"} )

Issued == Active /\ pc = "preset" /\ cmd = "wait" => arg1 = num

Counted ==
  Active /\ Presets =>
    /\ pc = "preset" /\ Answered => preset = num /\ ~Executing
    /\ pc = "start" /\ cmd \in {"busy", "clear", "issue"} => preset = num /\ ~Executing
    /\ Executing /\ IsData => preset = num

Ending ==
  Active /\ OneTransfer /\ Bounded =>
    /\ phase # "none" /\ mode # "tran" => left > 0 /\ limit = left
    /\ op = "read" /\ phase = "none" /\ c = num => mode = "tran"
    /\ Ended => mode = "tran"

Stopped ==
  Active /\ ~Bounded /\ ((pc = "stop" /\ Answered) \/ pc = "idle") => mode = "tran"

ModeInv == Issued /\ Counted /\ Ending /\ Stopped
ModeHyp == TransferHyp /\ ModeInv

LEMMA AnsweredBefore == TransferHyp /\ LowStep /\ Answered' => Answered
<1> SUFFICES ASSUME TransferHyp, LowStep, Answered' PROVE Answered
  OBVIOUS
<1> USE DEF TransferHyp
<1>1. CASE StatusPoll \/ StatusExit \/ IntPoll \/ IntRead
  BY <1>1 DEF StatusPoll, StatusExit, IntPoll, IntRead, PollStep, hostVars, cmdVars, Answered, OwnAnswer
<1>2. CASE IntAck
  <2>1. wait = "int_ack" /\ wait' = "none" /\ UNCHANGED cmdVars /\ interrupt' \subseteq interrupt /\ res' = Verdict
    BY <1>2 DEF IntAck, ClearInterrupt
  <2>2. Verdict = "OK" => snap \cap ErrorBits = {} /\ cnt > 0
    BY DEF Verdict, ErrorBits, CallInv, TypeOK, CmdTypeOK
  <2>3. cmd = "wait" /\ Verdict = "OK" => "CMD_DONE" \in snap
    BY <2>1, <2>2 DEF OwnAnswer
  <2> QED BY <2>1, <2>3 DEF Answered, cmdVars
<1>3. ASSUME NEW v, NEW e, Return(v, e) PROVE cmd' = "none" /\ sd_err' = e
  BY <1>3 DEF Return, ReturnToClient, AppRejected, AppAccepted, CallInv, Announced
<1>4. CASE CmdBusy \/ CmdWait
  BY <1>3, <1>4 DEF CmdBusy, CmdWait, Answered
<1>5. CASE CmdClear \/ CmdIssue
  BY <1>5 DEF CmdClear, CmdIssue, CallInt, Poll, WriteCmdtm, Answered, OwnAnswer
<1> QED BY <1>1, <1>2, <1>4, <1>5 DEF LowStep, DriverStep, WaitStep, CmdStep

LEMMA EndedBefore == TransferHyp /\ LowStep /\ Ended' => Ended
<1> SUFFICES ASSUME TransferHyp, LowStep, Ended' PROVE Ended
  OBVIOUS
<1> USE DEF TransferHyp
<1>0. UNCHANGED <<callVars, sd_scr, dataVars, cardVars>> /\ Writing' = Writing /\ Ccs' = Ccs
  BY CallSame DEF LowStep
<1>1. CASE StatusPoll \/ StatusExit \/ IntPoll \/ IntRead
  BY <1>0, <1>1 DEF StatusPoll, StatusExit, IntPoll, IntRead, PollStep, hostVars, cmdVars, callVars, Ended,
     Waiting, Listening, OwnAnswer, FrameInv, Frames
<1>2. CASE IntAck
  <2>1. wait = "int_ack" /\ wait' = "none" /\ UNCHANGED cmdVars /\ interrupt' \subseteq interrupt /\ res' = Verdict
    BY <1>2 DEF IntAck, ClearInterrupt
  <2>2. Verdict = "OK" => snap \cap ErrorBits = {} /\ cnt > 0
    BY DEF Verdict, ErrorBits, CallInv, TypeOK, CmdTypeOK
  <2>3. pc = "flush" /\ Verdict = "OK" => "DATA_DONE" \in interrupt
    BY <2>1, <2>2 DEF FrameInv, Frames, EventSeen
  <2> QED BY <1>0, <2>1, <2>3 DEF Ended, Waiting, Listening, cmdVars, callVars, FrameInv, Frames, OwnAnswer
<1>3. ASSUME NEW v, NEW e, Return(v, e) PROVE UNCHANGED hostVars /\ cmd' = "none" /\ sd_err' = e
  BY <1>3 DEF Return, ReturnToClient, AppRejected, AppAccepted, CallInv, Announced
<1>4. CASE CmdBusy \/ CmdWait
  BY <1>0, <1>3, <1>4
  DEF CmdBusy, CmdWait, Ended, Waiting, Listening, hostVars, callVars, FrameInv, Frames
<1>5. CASE CmdClear \/ CmdIssue
  BY <1>0, <1>5
  DEF CmdClear, CmdIssue, CallInt, Poll, WriteCmdtm, ClearInterrupt, Ended, Waiting, Listening, callVars, FrameInv,
      Frames
<1> QED BY <1>1, <1>2, <1>4, <1>5 DEF LowStep, DriverStep, WaitStep, CmdStep

LEMMA ModeLowStep == ModeHyp /\ LowStep => ModeInv'
<1> SUFFICES ASSUME ModeHyp, LowStep PROVE ModeInv'
  OBVIOUS
<1> USE DEF ModeHyp, ModeInv
<1>1. /\ UNCHANGED <<pc, op, lba, num, c, sd_scr, phase, left, mode, limit, preset>>
      /\ Active' = Active /\ Ccs' = Ccs /\ Bounded' = Bounded /\ Presets' = Presets /\ OneTransfer' = OneTransfer
  BY CallSame DEF LowStep, callVars, dataVars, cardVars, Bounded, Presets, SetBlkcnt, Ccs
<1>2. (Answered' => Answered) /\ (Ended' => Ended)
  BY AnsweredBefore, EndedBefore DEF TransferHyp
<1>3. Ending' /\ Stopped'
  BY <1>1, <1>2 DEF Ending, Stopped
<1>4. CASE CmdIssue
  <2>1. /\ cmd = "issue" /\ cmd' = "wait" /\ cmdtm' = code
        /\ code # "APP_CMD" => arg1' = arg
    BY <1>4 DEF CmdIssue, WriteCmdtm
  <2>2. Active => /\ pc = "preset" => code = "SET_BLOCKCNT" /\ arg = num
                  /\ pc = "stop" => code = "STOP_TRANS"
    BY <2>1 DEF TransferHyp, TransferInv, Sending
  <2>3. Issued'
    BY <1>1, <2>1, <2>2 DEF Issued
  <2>4. pc \in {"preset", "start", "sent", "stop"} /\ (pc = "sent" => ~Ccs)
    BY <2>1 DEF TransferHyp, FrameInv, Frames
  <2>5. ~Answered
    BY <2>1 DEF Answered
  <2>6. Counted'
    BY <1>1, <1>2, <2>1, <2>2, <2>4, <2>5
    DEF Counted, Presets, IsData, DataCommands, ReadCommands, WriteCommands
  <2> QED BY <1>3, <2>3, <2>6
<1>5. CASE ~CmdIssue
  <2>1. UNCHANGED <<arg1, cmdtm>> /\ Executing' = Executing
        /\ (cmd' = "wait" => cmd = "wait")
        /\ (cmd' \in {"busy", "clear", "issue"} => cmd \in {"busy", "clear", "issue"})
    <3>1. ASSUME NEW v, NEW e, Return(v, e) PROVE UNCHANGED hostVars /\ cmd' = "none"
      BY <3>1 DEF Return, ReturnToClient, AppRejected, AppAccepted, TransferHyp, CallInv, Announced
    <3>2. CASE CmdStep
      BY <1>5, <3>1, <3>2 DEF CmdStep, CmdBusy, CmdClear, CmdWait, hostVars, Executing
    <3>3. CASE WaitStep
      BY <3>3 DEF WaitStep, StatusPoll, StatusExit, IntPoll, IntRead, IntAck, PollStep, hostVars, cmdVars, Executing
    <3> QED BY <3>2, <3>3 DEF LowStep, DriverStep
  <2>2. Issued' /\ Counted'
    BY <1>1, <1>2, <2>1 DEF Issued, Counted, IsData
  <2> QED BY <1>3, <2>2
<1> QED BY <1>4, <1>5

LEMMA ModeCallStep == ModeHyp /\ CallStep => ModeInv'
<1> SUFFICES ASSUME ModeHyp, CallStep, Active' PROVE ModeInv'
  BY DEF ModeInv, Issued, Counted, Ending, Stopped, Ended, Writing
<1> USE DEF ModeHyp, ModeInv, TransferHyp
<1>1. /\ UNCHANGED <<op, lba, num, sd_scr, phase, left, cardVars, cmdtm, arg1>>
      /\ Executing' = Executing /\ IsData' = IsData
  <2>1. ASSUME NEW k, NEW a, CallCmd(k, a) PROVE UNCHANGED hostVars
    BY <2>1 DEF CallCmd
  <2>2. CASE MoveBlock
    BY <2>2 DEF MoveBlock, Executing, IsData, FifoStatus
  <2>3. CASE ~MoveBlock
    BY <2>1, <2>3
    DEF CallStep, Ready, Preset, Start, Loop, Sent, NoBlock, Flush, Stop, Local, StartTransfer, LeaveWith,
        LeaveOnError, AwaitBlock, Finish, dataVars, driverVars, hostVars, Executing, IsData
  <2> QED BY <2>2, <2>3
<1>2. /\ Ccs' = Ccs /\ Bounded' = Bounded /\ Presets' = Presets /\ OneTransfer' = OneTransfer
      /\ UNCHANGED <<mode, limit, preset>>
  BY <1>1 DEF Ccs, Bounded, Presets, OneTransfer, SetBlkcnt, cardVars
<1>3. c \in Nat /\ num \in Nat \ {0} /\ c <= num /\ op \in {"read", "write"}
  BY CallNumbers DEF CallInv, TypeOK
\* What holds of a call that goes on, with the card as it was.
<1>4. ASSUME Active, c' = c, Ended' => Ended, cmd' = "wait" => pc' # "preset",
             pc' = "preset" => ~Answered',
             pc' = "start" /\ Presets => preset = num /\ ~Executing,
             ~Bounded /\ pc' \in {"stop", "idle"} => (pc' = "stop" /\ ~Answered') \/ mode = "tran"
      PROVE  ModeInv'
  <2>1. Issued'
    BY <1>4 DEF Issued
  <2>2. Counted'
    BY <1>1, <1>2, <1>4 DEF Counted
  <2>3. Ending' /\ Stopped'
    BY <1>1, <1>2, <1>4 DEF Ending, Stopped
  <2> QED BY <2>1, <2>2, <2>3
<1>5. CASE Ready
  <2>1. /\ pc' \in {"preset", "start", "loop"} /\ res = "OK" /\ c' = 0
        /\ pc' \in {"preset", "start"} => cmd' = "busy"
        /\ pc' = "start" => ~Presets
        /\ pc' = "loop" => ~Ccs
    BY <1>5 DEF Ready, Active, StartTransfer, CallCmd, LeaveWith, Leave, LeaveFailed, Go, FrameInv, Frames, Presets, Idle
  <2>2. phase = "none" /\ ~(Executing /\ IsData)
    BY <1>5, <2>1 DEF Ready, Idle, FrameInv, LineFree, LineHeld, CallInv
  <2>3. ~Answered' \/ pc' = "loop"
    BY <2>1 DEF Answered
  <2>4. ~Ended'
    BY <1>1, <1>2, <1>3, <2>1 DEF Ended, Waiting, Listening
  <2>5. Issued' /\ Counted'
    BY <1>1, <1>2, <2>1, <2>2, <2>3 DEF Issued, Counted
  <2>6. Ending' /\ Stopped'
    BY <1>1, <1>2, <1>3, <2>1, <2>2, <2>4 DEF Ending, Stopped
  <2> QED BY <2>5, <2>6
<1>6. CASE Preset
  <2>1. Active /\ Ccs /\ c' = c /\ pc = "preset" /\ pc' = "start" /\ cmd' = "busy" /\ cmd = "none" /\ sd_err = "OK"
    BY <1>6 DEF Preset, Local, LeaveOnError, Leave, LeaveFailed, Active, OneTransfer, Ccs, FrameInv, Frames, StartTransfer, Go,
       CallCmd, Idle
  <2>2. Answered
    BY <2>1 DEF Answered
  <2>3. Presets => preset = num /\ ~Executing
    BY <2>1, <2>2 DEF Counted
  <2>4. ~Ended'
    BY <2>1 DEF Ended, Waiting, Listening
  <2> QED BY <1>4, <2>1, <2>3, <2>4
<1>7. CASE Start
  <2>1. /\ Active /\ Ccs /\ pc = "start" /\ pc' = "loop" /\ sd_err = "OK" /\ cmd = "none" /\ wait = "none"
        /\ UNCHANGED <<c, interrupt, cmd, wait>>
    BY <1>7 DEF Start, Local, LeaveOnError, Leave, LeaveFailed, Active, OneTransfer, Ccs, FrameInv, Frames, Go, Idle,
       driverVars, hostVars, waitVars, cmdVars
  <2>2. Ended' => Ended
    BY <1>1, <2>1 DEF Ended, Waiting, Listening, Writing
  <2> QED BY <1>4, <2>1, <2>2
<1>8. CASE Sent
  <2>1. /\ Active /\ pc = "sent" /\ pc' = "data" /\ sd_err = "OK" /\ cmd = "none"
        /\ UNCHANGED <<c, interrupt, cmd>>
    BY <1>8 DEF Sent, Local, LeaveOnError, Leave, LeaveFailed, Active, OneTransfer, Ccs, FrameInv, Frames, AwaitBlock, CallInt,
       Poll, Go, Idle, hostVars, cmdVars
  <2>2. Ended' => Ended
    BY <1>1, <2>1 DEF Ended, Waiting, Listening, Writing
  <2> QED BY <1>4, <2>1, <2>2
<1>9. CASE Loop
  <2>1. /\ Active /\ pc = "loop" /\ cmd = "none" /\ wait = "none" /\ UNCHANGED <<c, interrupt>>
        /\ pc' \in {"sent", "data", "flush", "stop", "idle"}
        /\ pc' \in {"sent", "stop"} => cmd' = "busy"
        /\ pc' = "idle" => Bounded
        /\ pc' \in {"stop", "idle"} => op = "read"
        /\ pc' = "data" => Ccs
        /\ pc' = "flush" => c = num /\ wait' # "none"
    BY <1>9 DEF Loop, Local, Finish, Leave, LeaveFailed, Active, OneTransfer, Ccs, AwaitBlock, CallCmd, CallInt, Poll, Go, Idle,
       driverVars, hostVars, Bounded, SetBlkcnt
  <2>2. ~Answered' \/ pc' # "stop"
    BY <2>1 DEF Answered
  <2>3. Ended' => Ended
    BY <1>1, <2>1 DEF Ended, Waiting, Listening, Writing
  <2> QED BY <1>2, <1>4, <2>1, <2>2, <2>3
<1>10. CASE MoveBlock
  <2>1. /\ Active /\ pc = "data" /\ pc' = "loop" /\ cmd = "none" /\ wait = "none" /\ res = "OK" /\ c' = c + 1
        /\ UNCHANGED interrupt /\ BlockSeen
    BY <1>10 DEF MoveBlock, Idle, Active, OneTransfer, Ccs, BlockSeen
  <2>2. ~Ended'
    <3>1. Writing /\ "DATA_DONE" \in interrupt => c = num
      BY <2>1 DEF TransferInv, Ends, Waiting, Listening, Done
    <3>2. c < num
      BY <2>1, CallNumbers
    <3> QED BY <1>1, <1>3, <2>1, <3>1, <3>2 DEF Ended, Writing
  <2>3. op = "read" /\ phase = "none" => c + 1 < num
    BY <2>1 DEF TransferInv, Announces, Reading, There, LostBlock
  <2>4. Issued' /\ Counted' /\ Stopped'
    BY <1>1, <1>2, <2>1 DEF Issued, Counted, Stopped
  <2>5. Ending'
    BY <1>1, <1>2, <1>3, <2>1, <2>2, <2>3 DEF Ending
  <2> QED BY <2>4, <2>5
<1>11. CASE NoBlock \/ Flush \/ Stop
  <2>1. /\ pc \in {"flush", "stop"} /\ pc' \in {"stop", "idle"} /\ Active /\ cmd = "none" /\ c' = c
        /\ pc' = "stop" => cmd' = "busy"
        /\ pc = "flush" => wait = "none" /\ res = "OK" /\ op = "write" /\ (pc' = "idle" => Bounded)
        /\ pc = "stop" => sd_err = "OK"
    BY <1>11
    DEF NoBlock, Flush, Stop, Finish, CallCmd, LeaveWith, Leave, LeaveFailed, Go, Local, Active, OneTransfer, Ccs, FrameInv,
        Frames, Idle, CallInv, TypeOK, Bounded, SetBlkcnt
  <2>2. Writing => Ended
    BY <2>1 DEF Ended
  <2>3. Ended' => Ended
    BY <1>1, <2>1, <2>2 DEF Ended, Writing
  <2>4. pc = "stop" => Answered
    BY <2>1 DEF Answered
  <2>5. ~Answered' \/ pc' = "idle"
    BY <2>1 DEF Answered
  <2> QED BY <1>2, <1>4, <2>1, <2>3, <2>4, <2>5 DEF Stopped
<1> QED BY <1>5, <1>6, <1>7, <1>8, <1>9, <1>10, <1>11 DEF CallStep

\* Only an answer of the card answers the command, and only the end of a phase shows one.
LEMMA HwAnswers ==
  ASSUME ModeHyp, HwTransferStep
  PROVE  /\ Bounded' = Bounded /\ Presets' = Presets /\ OneTransfer' = OneTransfer
         /\ Answered' => Answered \/ (cmd = "wait" /\ (Accepts \/ Rejects))
         /\ Ended' => Ended \/ PhaseDone
<1>1. /\ UNCHANGED <<pc, op, num, sd_scr, cmd, wait, res, snap, sd_err>>
      /\ Writing' = Writing /\ Waiting' = Waiting
  BY HwSame DEF callVars, waitVars, cmdVars
<1>2. "CMD_DONE" \in interrupt' => "CMD_DONE" \in interrupt \/ Accepts \/ Rejects
  BY FaultsAssumption
  DEF ErrorBits, TimeoutBits, HwTransferStep, Illegal, Lost, NoAnswer, EndCommand, BlockIn, AskBlock, BlockOut, PhaseDone, PhaseFails, PhaseStep
<1>3. "DATA_DONE" \in interrupt' => "DATA_DONE" \in interrupt \/ PhaseDone
  BY FaultsAssumption
  DEF ErrorBits, TimeoutBits, HwTransferStep, Accepts, Rejects, Answer, Illegal, Lost, NoAnswer, EndCommand, BlockIn, AskBlock, BlockOut,
      PhaseFails, PhaseStep
<1>4. Bounded' = Bounded /\ Presets' = Presets /\ OneTransfer' = OneTransfer
  BY <1>1 DEF Bounded, Presets, OneTransfer, SetBlkcnt, Ccs
<1>5. Answered' => Answered \/ (cmd = "wait" /\ (Accepts \/ Rejects))
  BY <1>1, <1>2 DEF Answered
<1>6. Ended' => Ended \/ PhaseDone
  BY <1>1, <1>3 DEF Ended
<1> QED BY <1>4, <1>5, <1>6

\* What the command that is executed is for.
LEMMA HwExecutes ==
  ASSUME ModeHyp, Active, Executing
  PROVE  /\ cmd = "wait" /\ pc = "preset" => cmdtm = "SET_BLOCKCNT" /\ ~IsData
         /\ cmd = "wait" /\ pc = "stop" => cmdtm = "STOP_TRANS" /\ ~IsData
         /\ IsData => pc \in {"start", "sent"} /\ ~Ended
         /\ IsData /\ OneTransfer => c = 0 /\ phase = "none"
<1> USE DEF ModeHyp, TransferHyp, TransferInv
<1>1. cmd = "wait" => cmdtm = code
  BY DEF OwnAnswer
<1>2. IsData => pc \in {"start", "sent"} /\ (Ccs \/ num = 1 => c = 0) /\ Quiet
  BY OwnCommand
<1>3. c \in Nat /\ num \in Nat \ {0} /\ (pc = "sent" => c < num)
  BY CallNumbers
<1>4. IsData => c < num
  BY <1>2, <1>3 DEF FrameInv, Frames
<1>5. IsData => ~Ended
  BY <1>2, <1>3, <1>4 DEF Ended, Ends, Done
<1>6. IsData /\ OneTransfer => c = 0 /\ phase = "none"
  BY <1>2, <1>3 DEF Quiet, OneTransfer
<1>7. cmd = "wait" /\ pc \in {"preset", "stop"} => cmdtm \in {"SET_BLOCKCNT", "STOP_TRANS"} /\ ~IsData
                                                  /\ (pc = "preset" <=> cmdtm = "SET_BLOCKCNT")
  BY <1>1 DEF Sending, IsData, DataCommands, ReadCommands, WriteCommands
<1> QED BY <1>2, <1>5, <1>6, <1>7

\* The card ends its part of a transfer with the controller.
LEMMA HwEnding ==
  ASSUME ModeHyp, HwTransferStep, Active, OneTransfer, Bounded
  PROVE  /\ phase' # "none" /\ mode' # "tran" => left' > 0 /\ limit' = left'
         /\ op = "read" /\ phase' = "none" /\ c = num => mode' = "tran"
         /\ Ended' => mode' = "tran"
<1> USE DEF ModeHyp, ModeInv
<1>1. /\ phase # "none" /\ mode # "tran" => left > 0 /\ limit = left
      /\ op = "read" /\ phase = "none" /\ c = num => mode = "tran"
      /\ Ended => mode = "tran"
  BY DEF Ending
<1>2. Ended' => Ended \/ PhaseDone
  BY HwAnswers
<1>3. c \in Nat /\ num \in Nat \ {0} /\ left \in 0 .. MaxNum /\ MaxNum \in Nat
  BY CallNumbers DEF TransferHyp, CallInv, TypeOK
<1>4. phase # "none" => phase = op /\ ~Ended
  BY DEF TransferHyp, TransferInv, Phase, Ended, Ends, Done
<1>5. Executing /\ IsData => /\ c = 0 /\ phase = "none" /\ ~Ended
                             /\ IsMulti => preset = blksizecnt /\ blksizecnt \in Nat \ {0}
  <2>1. Executing /\ IsData => c = 0 /\ phase = "none" /\ ~Ended
    BY HwExecutes
  <2>2. Executing /\ IsData /\ IsMulti => Ccs /\ num > 1 /\ blksizecnt = num
    BY OwnCommand
  <2>3. Executing /\ IsData /\ IsMulti => preset = num
    BY <2>2 DEF Counted, Presets, Bounded
  <2> QED BY <1>3, <2>1, <2>2, <2>3
<1>6. PhaseDone => mode' = "tran"
  BY <1>1, <1>3 DEF PhaseDone, cardVars
<1>7. CASE Accepts
  <2>1. Executing /\ CardTakes /\ HostTakes
    BY <1>7 DEF Accepts, Answer, EndCommand
  <2>2. CASE IsData
    <3>1. phase' # "none" /\ left' = (IF IsMulti THEN blksizecnt ELSE 1)
          /\ limit' = (IF IsMulti THEN preset ELSE 1)
      BY <2>1, <2>2 DEF CardTakes, HostTakes, IsData, DataCommands, ReadCommands, WriteCommands
    <3> QED BY <1>2, <1>5, <1>6, <2>1, <2>2, <3>1
  <2>3. CASE ~IsData
    BY <2>1, <2>3 DEF CardTakes
  <2> QED BY <2>2, <2>3
<1>8. CASE Rejects
  BY <1>8 DEF Rejects, cardVars
<1>9. CASE Illegal \/ Lost
  <2>1. Executing /\ UNCHANGED <<phase, left>> /\ (CardTakes \/ UNCHANGED <<mode, limit>>)
    BY <1>9 DEF Illegal, Lost, NoAnswer, EndCommand, dataVars, cardVars
  <2>2. CASE CardTakes /\ IsData
    BY <1>2, <1>3, <1>5, <1>6, <2>1, <2>2
  <2>3. CASE CardTakes /\ ~IsData
    BY <2>3 DEF CardTakes
  <2> QED BY <1>1, <1>2, <1>6, <2>1, <2>2, <2>3
<1>10. CASE BlockIn \/ BlockOut
  <2>1. /\ phase # "none" /\ phase' = phase /\ left > 0 /\ left' = left - 1 /\ mode # "tran" /\ CardAdvances
    BY <1>10 DEF BlockIn, BlockOut
  <2>2. limit' = limit - 1 /\ mode' = IF limit = 1 THEN "tran" ELSE mode
    BY <1>1, <1>3, <2>1 DEF CardAdvances, Unlimited
  <2> QED BY <1>1, <1>2, <1>3, <1>4, <1>6, <2>1, <2>2
<1>11. CASE AskBlock \/ PhaseDone
  BY <1>1, <1>2, <1>6, <1>11 DEF AskBlock, dataVars, cardVars
<1>12. CASE PhaseFails
  <2>1. phase # "none" /\ phase' = "none" /\ left > 0 /\ mode' \in {mode, "tran"}
    BY <1>12 DEF PhaseFails
  <2>2. op = "read" => left + c + Held = num /\ Held \in Nat
    BY <1>4, <2>1 DEF TransferHyp, TransferInv, Phase, Reading, OneTransfer, Held
  <2> QED BY <1>2, <1>3, <1>4, <1>6, <2>1, <2>2
<1> QED BY <1>7, <1>8, <1>9, <1>10, <1>11, <1>12 DEF HwTransferStep

LEMMA ModeHwStep == ~Refusing /\ ModeHyp /\ HwTransferStep => ModeInv'
<1> SUFFICES ASSUME ~Refusing, ModeHyp, HwTransferStep, Active PROVE ModeInv'
  BY HwSame DEF ModeInv, Issued, Counted, Ending, Stopped
<1> USE DEF ModeHyp, ModeInv
<1>1. /\ UNCHANGED <<pc, op, num, c, cmd, arg1, cmdtm, sd_err, wait, res, snap>>
      /\ Active' = Active /\ IsData' = IsData /\ (Executing' => Executing)
  BY HwSame DEF callVars, cmdVars, waitVars
<1>2. /\ Bounded' = Bounded /\ Presets' = Presets /\ OneTransfer' = OneTransfer
      /\ Answered' => Answered \/ (cmd = "wait" /\ (Accepts \/ Rejects))
  BY HwAnswers
\* A command is taken once.
<1>3. \/ Executing /\ ~Executing' /\ (CardTakes \/ UNCHANGED <<mode, preset>>)
      \/ preset' = preset /\ (mode = "tran" => mode' = "tran")
  BY DEF HwTransferStep, Accepts, Rejects, Answer, EndCommand, Illegal, Lost, NoAnswer, BlockIn, AskBlock, BlockOut,
         PhaseDone, PhaseFails, CardAdvances, CallInv, TransferHyp, Executing, cardVars
\* What is answered at these two places was accepted.
<1>4. CASE cmd = "wait" /\ (Accepts \/ Rejects) /\ pc \in {"preset", "stop"}
  <2>1. Executing /\ ~Executing'
    BY <1>4 DEF Accepts, Rejects, Answer, EndCommand, Executing
  <2>2. ~IsData /\ cmdtm = IF pc = "preset" THEN "SET_BLOCKCNT" ELSE "STOP_TRANS"
    BY <1>4, <2>1, HwExecutes
  <2>3. CardTakes \/ (mode = "tran" /\ mode' = "tran" /\ pc = "stop")
    BY <1>4, <2>2 DEF Accepts, Rejects, cardVars
  <2>4. (pc = "preset" => preset' = num) /\ (pc = "stop" => mode' = "tran")
    BY <1>4, <2>2, <2>3 DEF CardTakes, Issued
  <2>5. Counted' /\ Stopped'
    BY <1>1, <1>2, <1>4, <2>1, <2>4 DEF Counted, Stopped
  <2> QED BY <1>1, <1>2, <2>5, HwEnding DEF Issued, Ending
<1>5. CASE ~(cmd = "wait" /\ (Accepts \/ Rejects) /\ pc \in {"preset", "stop"})
  <2>1. pc \in {"preset", "stop"} /\ Answered' => Answered
    BY <1>2, <1>5
  <2>2. Counted'
    BY <1>1, <1>2, <1>3, <2>1 DEF Counted
  <2>3. pc \in {"stop", "idle"} /\ mode = "tran" => mode' = "tran"
    BY <1>3, HwExecutes DEF CardTakes
  <2>4. Stopped'
    BY <1>1, <1>2, <2>1, <2>3 DEF Stopped
  <2> QED BY <1>1, <1>2, <2>2, <2>4, HwEnding DEF Issued, Ending
<1> QED BY <1>4, <1>5

LEMMA ModeNext == ~Refusing /\ ModeHyp /\ [Next]_vars => ModeInv'
<1> SUFFICES ASSUME ~Refusing, ModeHyp, [Next]_vars PROVE ModeInv'
  OBVIOUS
<1>1. CASE Caller
  <2>1. ~Active'
    BY <1>1 DEF Caller, CallRead, CallWrite, Call, Active
  <2> QED BY <2>1 DEF ModeInv, Issued, Counted, Ending, Stopped
<1>2. CASE UNCHANGED vars
  <2>1. UNCHANGED <<callVars, sd_scr, dataVars, cardVars, cmdVars, waitVars, hostVars>>
    BY <1>2 DEF vars, driverVars
  <2>2. /\ Active' = Active /\ Bounded' = Bounded /\ Presets' = Presets /\ OneTransfer' = OneTransfer
        /\ Executing' = Executing /\ IsData' = IsData /\ Answered' = Answered /\ Ended' = Ended
    BY <2>1, CallSame
    DEF callVars, hostVars, cmdVars, waitVars, Bounded, Presets, SetBlkcnt, Ccs, Executing, IsData, Answered, Ended,
        Waiting, Listening, Writing
  <2> QED BY <2>1, <2>2
          DEF ModeHyp, ModeInv, Issued, Counted, Ending, Stopped, callVars, cmdVars, hostVars, dataVars, cardVars
<1> QED BY <1>1, <1>2, ModeLowStep, ModeCallStep, ModeHwStep DEF Next

LEMMA ModeFromInv == CallInv /\ FrameInv /\ ModeInv => CardBackInTran
<1> SUFFICES ASSUME CallInv, FrameInv, ModeInv, OneTransfer, pc = "idle", ret > 0, phase = "none" PROVE mode = "tran"
  BY DEF CardBackInTran
<1>1. Active /\ c = num
  BY DEF Active, FrameInv, Frames
<1>2. op = "read" \/ Ended
  BY <1>1 DEF Ended, Writing, CallInv, TypeOK
<1> QED BY <1>1, <1>2 DEF ModeInv, Ending, Stopped

\* If the card does not refuse SET_BLOCKCNT, a call of one transfer that succeeded leaves it in
\* the transfer state, where the next call needs it, whatever was lost or broke off before.
THEOREM CardBackInTranAlways == ASSUME ~Refusing PROVE Spec => []CardBackInTran
<1>1. Init => ModeInv
  BY DEF Init, Active, ModeInv, Issued, Counted, Ending, Stopped
<1>2. CallInv /\ OwnAnswer /\ [Next]_vars => OwnAnswer'
  BY NextIsCmdNext, OwnAnswerNext DEF CallInv, TypeOK
<1>3. Init => OwnAnswer
  BY OwnAnswerInit DEF Init
<1>4. CallInv /\ OwnAnswer /\ FrameInv /\ TransferInv /\ ModeInv /\ [Next]_vars => ModeInv'
  BY ModeNext DEF ModeHyp, TransferHyp
<1> QED BY <1>1, <1>2, <1>3, <1>4, TransferInvAlways, ModeFromInv, PTL DEF Spec

-----------------------------------------------------------------------------
(* The argument of ImplementsStore.  A write that is not one transfer is outside of        *)
(* TransferInv; what is needed of it is that a block in the FIFO is the one of its place.   *)
(* Fresh: the command of block c has been answered and its block is not in the FIFO yet.    *)

Running == pc \notin {"idle", "ready"}
Hasty == Running /\ op = "write" /\ ~OneTransfer

Fresh ==
  \/ pc = "data"
  \/ pc = "sent" /\ cmd = "none" /\ sd_err = "OK"
  \/ /\ pc = "sent" /\ cmd = "wait"
     /\ \/ "CMD_DONE" \in interrupt
        \/ wait = "int_ack" /\ "CMD_DONE" \in snap
        \/ wait = "none" /\ res = "OK"

HastyCommand ==
  /\ Hasty /\ pc = "sent" /\ cmd # "none" => code = "WRITE_SINGLE" /\ arg = (lba + c) * BlockLen
  /\ Hasty /\ Executing /\ IsData => pc = "sent" /\ cmdtm = "WRITE_SINGLE" /\ arg1 = (lba + c) * BlockLen
  /\ Hasty /\ Fresh => ~Executing
  /\ "STOP_TRANS" \in {code, cmdtm} => Ccs

\* A rejected command starts a phase too; all later blocks are then beyond the card.
HastyPhase ==
  /\ Hasty => phase # "read"
  /\ Hasty /\ phase = "write" /\ fifo # Empty /\ mode = "rcv" => c > 0 /\ pos = lba + c - 1 /\ fifo = buf[c - 1]
  /\ Hasty /\ phase = "write" /\ Fresh => fifo = Empty /\ (mode = "rcv" => pos = lba + c)
  /\ Hasty /\ phase = "write" /\ (fifo # Empty \/ Fresh) => mode = "rcv" \/ lba + c >= NumBlocks

\* The card takes no command that would let it have a block of another call.
Settled == Executing /\ IsData /\ phase = "write" /\ fifo # Empty => mode # "tran" \/ Address \notin Blocks

\* A read has touched no more of its buffer than it has counted.
Untouched == op = "read" => \A k \in c .. MaxNum - 1 : buf[k] = Garbage

StoreInv == HastyCommand /\ HastyPhase /\ Settled /\ Untouched

StoreHyp == TransferHyp /\ StoreInv

LEMMA StoreInitInv == Init => StoreInv
<1> SUFFICES ASSUME Init PROVE StoreInv
  OBVIOUS
<1>1. ~Running /\ ~Executing /\ op = "read" /\ buf = NoBuffer /\ c = 0 /\ code = "GO_IDLE" /\ cmdtm = "GO_IDLE"
  BY DEF Init, CmdInit, HostInit, Running, Executing
<1> QED BY <1>1 DEF StoreInv, HastyCommand, HastyPhase, Hasty, Settled, Untouched, NoBuffer

LEMMA UntouchedStep == StoreHyp /\ [Next]_vars => Untouched'
<1> SUFFICES ASSUME StoreHyp, [Next]_vars, op' = "read" PROVE \A k \in c' .. MaxNum - 1 : buf'[k] = Garbage
  BY DEF Untouched
<1> USE DEF StoreHyp, TransferHyp, StoreInv
<1>1. c \in Nat /\ MaxNum \in Nat /\ buf \in [0 .. MaxNum - 1 -> Data \cup {Garbage, Empty}]
  BY CallNumbers
<1>2. CASE UNCHANGED <<op, c, buf>>
  BY <1>2 DEF Untouched
<1>3. CASE buf' = NoBuffer /\ c' = 0
  BY <1>1, <1>3 DEF NoBuffer
<1>4. CASE MoveBlock
  <2>1. op = "read" /\ c' = c + 1 /\ \E x : buf' = [buf EXCEPT ![c] = x]
    BY <1>4 DEF MoveBlock
  <2> QED BY <1>1, <2>1 DEF Untouched
<1>5. CASE Caller
  <2>1. PICK l, n : CallRead(l, n) \/ \E b : CallWrite(l, n, b)
    BY <1>5 DEF Caller
  <2>2. CallRead(l, n)
    BY <2>1 DEF CallWrite, Call
  <2> QED BY <1>3, <2>2 DEF CallRead, Call
<1>6. CASE Ready \/ Preset \/ Start \/ Loop \/ Sent \/ NoBlock \/ Flush \/ Stop
  <2>1. UNCHANGED op /\ (UNCHANGED <<c, buf>> \/ (buf' = NoBuffer /\ c' = 0))
    BY <1>6 DEF Ready, Preset, Start, Loop, Sent, NoBlock, Flush, Stop, Local, LeaveWith, LeaveOnError, LeaveFailed,
       Leave, Go, StartTransfer, AwaitBlock, Finish
  <2> QED BY <1>2, <1>3, <2>1
<1>7. CASE LowStep \/ HwTransferStep \/ UNCHANGED vars
  BY <1>2, <1>7, HwSame DEF LowStep, callVars, vars
<1> QED BY <1>4, <1>5, <1>6, <1>7 DEF Next, CallStep

LEMMA FreshBefore == ASSUME StoreHyp, LowStep, Fresh' PROVE Fresh
<1> USE DEF StoreHyp, TransferHyp, OwnAnswer
<1>1. pc' = pc /\ outer = NoCommand
  BY DEF LowStep, callVars, CallInv, Announced
<1>2. CASE WaitStep
  <2>1. UNCHANGED <<cmd, sd_err>> /\ (cmd = "wait" => IntPoll \/ IntRead \/ IntAck)
    BY <1>2 DEF WaitStep, StatusPoll, StatusExit, IntPoll, IntRead, IntAck, PollStep, cmdVars
  <2>2. CASE pc = "sent" /\ cmd = "wait"
    <3>1. CASE IntPoll
      BY <1>1, <2>1, <2>2, <3>1 DEF IntPoll, PollStep, hostVars, Fresh
    <3>2. CASE IntRead
      BY <1>1, <2>1, <2>2, <3>2 DEF IntRead, hostVars, Fresh
    <3>3. CASE IntAck
      <4>1. wait' = "none" /\ interrupt' \subseteq interrupt /\ res' = Verdict /\ wait = "int_ack"
        BY <3>3 DEF IntAck, ClearInterrupt
      <4>2. Verdict = "OK" => "CMD_DONE" \in snap
        <5>1. SUFFICES ASSUME Verdict = "OK" PROVE "CMD_DONE" \in snap
          OBVIOUS
        <5>2. cnt > 0 /\ snap \cap ErrorBits = {}
          BY <5>1 DEF Verdict, CallInv, TypeOK, CmdTypeOK, ErrorBits
        <5> QED BY <2>2, <4>1, <5>2
      <4> QED BY <1>1, <2>1, <2>2, <4>1, <4>2 DEF Fresh
    <3> QED BY <2>1, <2>2, <3>1, <3>2, <3>3
  <2> QED BY <1>1, <2>1, <2>2 DEF Fresh
<1>3. CASE CmdBusy \/ CmdClear
  BY <1>1, <1>3 DEF CmdBusy, CmdClear, Return, ReturnToClient, AppRejected, AppAccepted, Fresh
<1>4. CASE CmdIssue
  BY <1>1, <1>4 DEF CmdIssue, WriteCmdtm, CallInt, Poll, Fresh
<1>5. CASE CmdWait
  BY <1>1, <1>5 DEF CmdWait, Return, ReturnToClient, AppRejected, AppAccepted, Fresh
<1> QED BY <1>2, <1>3, <1>4, <1>5 DEF LowStep, DriverStep, CmdStep

LEMMA HastyLow == StoreHyp /\ LowStep => HastyCommand' /\ HastyPhase'
<1> SUFFICES ASSUME StoreHyp, LowStep PROVE HastyCommand' /\ HastyPhase'
  OBVIOUS
<1> USE DEF StoreHyp, TransferHyp, StoreInv
<1>1. /\ UNCHANGED <<callVars, sd_scr, dataVars, cardVars>> /\ Hasty' = Hasty /\ Ccs' = Ccs
      /\ UNCHANGED <<pc, op, lba, num, c, buf, phase, left, fifo, mode, pos>>
  BY DEF LowStep, callVars, dataVars, cardVars, Hasty, Running, OneTransfer, Ccs
<1>2. HastyPhase'
  BY <1>1, FreshBefore DEF HastyPhase
<1>3. CASE CmdIssue
  <2>1. cmd = "issue" /\ cmd' = "wait" /\ wait' = "int_poll" /\ cmdtm' = code /\ code' = code /\ arg' = arg
        /\ interrupt' = interrupt /\ (code # "APP_CMD" => arg1' = arg)
    BY <1>3 DEF CmdIssue, WriteCmdtm, CallInt, Poll
  <2>2. Hasty => pc = "sent"
    BY <2>1 DEF FrameInv, Frames, Hasty, OneTransfer
  <2>3. "CMD_DONE" \notin interrupt
    BY <2>1 DEF OwnAnswer
  <2>4. ~Fresh' \/ ~Hasty
    BY <1>1, <2>1, <2>2, <2>3 DEF Fresh
  <2> QED BY <1>1, <1>2, <2>1, <2>2, <2>4 DEF HastyCommand
<1>4. CASE WaitStep \/ CmdBusy \/ CmdClear \/ CmdWait
  <2>1. UNCHANGED <<status, cmdtm, arg1, code, arg>> /\ (cmd' # "none" => cmd # "none")
    BY <1>4 DEF WaitStep, StatusPoll, StatusExit, IntPoll, IntRead, IntAck, PollStep, CmdBusy, CmdClear, CmdWait,
       Return, ReturnToClient, AppRejected, AppAccepted, cmdVars, hostVars, CallInv, Announced
  <2>2. Executing' = Executing /\ IsData' = IsData
    BY <2>1 DEF Executing, IsData
  <2>3. HastyCommand'
    BY <1>1, <2>1, <2>2, FreshBefore DEF HastyCommand
  <2> QED BY <1>2, <2>3
<1> QED BY <1>3, <1>4 DEF LowStep, DriverStep, CmdStep
LEMMA HastyCall == StoreHyp /\ CallStep => HastyCommand' /\ HastyPhase'
<1> SUFFICES ASSUME StoreHyp, CallStep PROVE HastyCommand' /\ HastyPhase'
  OBVIOUS
<1> USE DEF StoreHyp, TransferHyp, StoreInv
<1>1. /\ UNCHANGED <<op, lba, num, sd_scr, phase, left, mode, pos, cmdtm, arg1>> /\ Ccs' = Ccs
      /\ OneTransfer' = OneTransfer /\ Idle /\ c \in Nat /\ lba \in Nat /\ num \in Nat /\ pos \in Nat
      /\ (Executing' => Executing) /\ NumBlocks \in Nat
  <2>1. UNCHANGED <<op, lba, num, sd_scr, phase, left, mode, pos, cmdtm, arg1>> /\ Idle /\ (Executing' => Executing)
    BY DEF CallStep, Ready, Preset, Start, Loop, Sent, MoveBlock, NoBlock, Flush, Stop, Local, dataVars, cardVars,
           driverVars, hostVars, LeaveWith, LeaveOnError, Finish, CallCmd, AwaitBlock, StartTransfer, Executing
  <2> QED BY <2>1, CallNumbers DEF Ccs, OneTransfer
<1>2. "STOP_TRANS" \in {code', cmdtm'} => Ccs'
  <2>1. CASE code' = code
    BY <1>1, <2>1 DEF HastyCommand
  <2>2. CASE code' # code
    <3>1. code' = "STOP_TRANS" => Ccs
      BY <2>2 DEF CallStep, Ready, Preset, Start, Loop, Sent, MoveBlock, NoBlock, Flush, Stop, driverVars, cmdVars,
           LeaveWith, LeaveOnError, Finish, CallCmd, AwaitBlock, StartTransfer, Single, Multi, AppCommands
    <3> QED BY <1>1, <3>1 DEF HastyCommand
  <2> QED BY <2>1, <2>2
<1>3. SUFFICES ASSUME Hasty' PROVE HastyCommand' /\ HastyPhase'
  BY <1>2 DEF HastyCommand, HastyPhase
<1>4. op = "write" /\ ~Ccs /\ num # 1 /\ pc' \notin {"idle", "ready"} /\ ~OneTransfer
  BY <1>1, <1>3 DEF Hasty, Running, OneTransfer
<1>5. pc \notin {"preset", "start", "stop", "idle"}
  BY <1>4 DEF FrameInv, Frames, CallStep, Ready, Preset, Start, Loop, Sent, MoveBlock, NoBlock, Flush, Stop
\* Nothing of the call is under way.
<1>6. ASSUME ~(Executing /\ IsData), ~Fresh', pc' # "sent",
             phase = "write" /\ fifo' # Empty =>
               /\ mode = "rcv" => c' > 0 /\ pos = lba + c' - 1 /\ fifo' = buf'[c' - 1]
               /\ mode = "rcv" \/ lba + c' >= NumBlocks,
             phase # "read"
      PROVE  HastyCommand' /\ HastyPhase'
  <2>1. ~(Executing /\ IsData)'
    BY <1>1, <1>6 DEF IsData
  <2> QED BY <1>1, <1>2, <1>6, <2>1 DEF HastyCommand, HastyPhase
<1>7. CASE Ready
  <2>1. res = "OK" /\ pc' = "loop" /\ pc = "ready" /\ wait = "none"
    BY <1>4, <1>7 DEF Ready, LeaveWith, LeaveFailed, Leave, Go, Idle
  <2>2. "DAT_INHIBIT" \notin status
    BY <2>1 DEF FrameInv, LineFree
  <2>3. phase = "none" /\ ~(Executing /\ IsData)
    BY <2>2 DEF CallInv, LineHeld
  <2> QED BY <1>6, <2>1, <2>3 DEF Fresh
<1>8. CASE Loop
  <2>1. Hasty /\ pc = "loop" /\ UNCHANGED <<c, buf, fifo, status>> /\ cmd = "none"
    BY <1>1, <1>4, <1>8 DEF Loop, Local, dataVars, Go, AwaitBlock, CallCmd, CallInt, Finish, Hasty, Running, hostVars,
       driverVars, Idle, Leave
  <2>2. phase # "read" /\ ~(Executing /\ IsData)
    BY <2>1 DEF HastyCommand, HastyPhase
  <2>3. phase = "write" /\ fifo # Empty =>
               /\ mode = "rcv" => c > 0 /\ pos = lba + c - 1 /\ fifo = buf[c - 1]
               /\ mode = "rcv" \/ lba + c >= NumBlocks
    BY <2>1 DEF HastyPhase
  <2>4. CASE pc' = "flush"
    BY <1>6, <2>1, <2>2, <2>3, <2>4 DEF Fresh
  <2>5. CASE pc' # "flush"
    <3>1. CallCmd(Single, (lba + c) * BlockLen) /\ pc' = "sent"
      BY <1>4, <1>8, <2>5 DEF Loop, Go
    <3>2. code' = "WRITE_SINGLE" /\ arg' = (lba + c) * BlockLen /\ cmd' = "busy"
      BY <1>4, <3>1 DEF CallCmd, Single, AppCommands
    <3>3. ~Fresh'
      BY <3>1, <3>2 DEF Fresh
    <3>4. ~(Executing /\ IsData)'
      BY <1>1, <2>2 DEF IsData
    <3>5. HastyCommand'
      BY <1>1, <1>2, <2>1, <3>2, <3>3, <3>4 DEF HastyCommand
    <3>6. HastyPhase'
      BY <1>1, <2>1, <2>2, <2>3, <3>3 DEF HastyPhase
    <3> QED BY <3>5, <3>6
  <2> QED BY <2>4, <2>5
<1>9. CASE Sent
  <2>1. /\ Hasty /\ pc = "sent" /\ pc' = "data" /\ sd_err = "OK" /\ cmd = "none"
        /\ UNCHANGED <<c, buf, fifo, status>>
    BY <1>1, <1>4, <1>9 DEF Sent, Local, dataVars, Go, AwaitBlock, CallInt, LeaveOnError, LeaveFailed, Leave, Hasty,
       Running, hostVars, Idle
  <2>2. Fresh /\ Fresh'
    BY <2>1 DEF Fresh
  <2>3. ~Executing /\ ~Executing'
    BY <1>1, <2>1, <2>2 DEF HastyCommand
  <2> QED BY <1>1, <1>2, <2>1, <2>2, <2>3 DEF HastyCommand, HastyPhase
<1>10. CASE MoveBlock
  <2>1. /\ Hasty /\ pc = "data" /\ pc' = "loop" /\ UNCHANGED buf /\ c' = c + 1
        /\ fifo' \in {buf[c], fifo}
    BY <1>1, <1>4, <1>10 DEF MoveBlock, Hasty, Running
  <2>2. Fresh /\ ~Executing /\ phase # "read"
    BY <2>1 DEF Fresh, HastyCommand, HastyPhase
  <2>3. phase = "write" /\ fifo' # Empty =>
          /\ fifo' = buf[c]
          /\ mode = "rcv" => pos = lba + c
          /\ mode = "rcv" \/ lba + c >= NumBlocks
    BY <2>1, <2>2 DEF HastyPhase
  <2>4. c' - 1 = c /\ c' > 0 /\ lba + c' - 1 = lba + c /\ (lba + c >= NumBlocks => lba + c' >= NumBlocks)
    BY <1>1, <2>1
  <2>5. ~Fresh'
    BY <2>1 DEF Fresh
  <2>6. phase = "write" /\ fifo' # Empty =>
          /\ mode = "rcv" => c' > 0 /\ pos = lba + c' - 1 /\ fifo' = buf'[c' - 1]
          /\ mode = "rcv" \/ lba + c' >= NumBlocks
    <3>1. buf'[c' - 1] = buf[c]
      BY <2>1, <2>4
    <3> QED BY <2>3, <2>4, <3>1
  <2> QED BY <1>6, <2>1, <2>2, <2>5, <2>6
<1>11. CASE NoBlock \/ Flush
  <2>1. pc' = "idle"
    BY <1>4, <1>11 DEF NoBlock, Flush, LeaveWith, LeaveFailed, Leave, Finish
  <2> QED BY <1>4, <2>1
<1> QED BY <1>5, <1>7, <1>8, <1>9, <1>10, <1>11 DEF CallStep, Preset, Start, Stop

LEMMA HastyHw == StoreHyp /\ HwTransferStep => HastyCommand' /\ HastyPhase'
<1> SUFFICES ASSUME StoreHyp, HwTransferStep PROVE HastyCommand' /\ HastyPhase'
  OBVIOUS
<1> USE DEF StoreHyp, TransferHyp, StoreInv
<1>1. /\ UNCHANGED <<pc, op, lba, num, c, buf, sd_scr, wait, snap, res, cmd, code, arg, sd_err, cmdtm, arg1>>
      /\ Ccs' = Ccs /\ IsData' = IsData /\ (Executing' => Executing) /\ Hasty' = Hasty
      /\ c \in Nat /\ lba \in Nat /\ num \in Nat /\ pos \in Nat /\ NumBlocks \in Nat /\ BlockLen \in Nat \ {0}
  BY HwSame, CallNumbers DEF callVars, waitVars, cmdVars, Hasty, Running, OneTransfer
\* What it needs to hold again.
<1>2. ASSUME Hasty =>
               /\ Fresh' => ~Executing'
               /\ phase' # "read"
               /\ phase' = "write" /\ fifo' # Empty =>
                    /\ mode' = "rcv" => c > 0 /\ pos' = lba + c - 1 /\ fifo' = buf[c - 1]
                    /\ mode' = "rcv" \/ lba + c >= NumBlocks
               /\ phase' = "write" /\ Fresh' =>
                    /\ fifo' = Empty /\ (mode' = "rcv" => pos' = lba + c)
                    /\ mode' = "rcv" \/ lba + c >= NumBlocks
      PROVE  HastyCommand' /\ HastyPhase'
  <2>1. HastyCommand'
    BY <1>1, <1>2 DEF HastyCommand
  <2>2. HastyPhase'
    BY <1>1, <1>2 DEF HastyPhase
  <2> QED BY <2>1, <2>2
<1>3. SUFFICES ASSUME Hasty
               PROVE  /\ Fresh' => ~Executing'
                      /\ phase' # "read"
                      /\ phase' = "write" /\ fifo' # Empty =>
                           /\ mode' = "rcv" => c > 0 /\ pos' = lba + c - 1 /\ fifo' = buf[c - 1]
                           /\ mode' = "rcv" \/ lba + c >= NumBlocks
                      /\ phase' = "write" /\ Fresh' =>
                           /\ fifo' = Empty /\ (mode' = "rcv" => pos' = lba + c)
                           /\ mode' = "rcv" \/ lba + c >= NumBlocks
  BY <1>2
<1>4. op = "write" /\ ~Ccs /\ num # 1
  BY <1>3 DEF Hasty, OneTransfer
<1>5. "CMD_DONE" \notin interrupt /\ "CMD_DONE" \in interrupt' => Executing /\ ~Executing'
  <2>1. CASE Accepts \/ Rejects
    BY <2>1 DEF Accepts, Rejects, Answer, EndCommand, Executing
  <2>2. CASE Illegal \/ Lost
    BY <2>2, FaultsAssumption DEF Illegal, Lost, NoAnswer, EndCommand, ErrorBits, TimeoutBits
  <2>3. CASE BlockIn \/ AskBlock \/ BlockOut \/ PhaseDone \/ PhaseFails
    BY <2>3 DEF BlockIn, AskBlock, BlockOut, PhaseDone, PhaseFails, PhaseStep, ErrorBits, TimeoutBits
  <2> QED BY <2>1, <2>2, <2>3 DEF HwTransferStep
<1>6. Fresh' /\ ~Fresh => pc = "sent" /\ cmd = "wait" /\ Executing /\ ~Executing' /\ cmdtm = "WRITE_SINGLE"
  <2>1. ASSUME Fresh', ~Fresh PROVE pc = "sent" /\ cmd = "wait" /\ "CMD_DONE" \notin interrupt /\ "CMD_DONE" \in interrupt'
    BY <1>1, <2>1 DEF Fresh
  <2>2. pc = "sent" /\ cmd = "wait" => cmdtm = "WRITE_SINGLE"
    BY <1>3 DEF HastyCommand, OwnAnswer
  <2> QED BY <1>5, <2>1, <2>2
<1>7. Fresh' => ~Executing'
  BY <1>1, <1>3, <1>6 DEF HastyCommand
<1>8. phase # "read" /\ (Fresh => ~Executing) /\ cmdtm # "STOP_TRANS"
  BY <1>3, <1>4 DEF HastyCommand, HastyPhase
<1>9. Executing /\ IsData => pc = "sent" /\ cmdtm = "WRITE_SINGLE" /\ Address = lba + c
  <2>1. ((lba + c) * BlockLen) \div BlockLen = lba + c
    BY <1>1, DivTimes
  <2> QED BY <1>3, <1>4, <2>1 DEF HastyCommand, Address
\* A step that leaves the phase and the card as they are.
<1>10. ASSUME UNCHANGED <<phase, fifo, mode, pos>>, Fresh' => Fresh
       PROVE  /\ phase' # "read"
              /\ phase' = "write" /\ fifo' # Empty =>
                   /\ mode' = "rcv" => c > 0 /\ pos' = lba + c - 1 /\ fifo' = buf[c - 1]
                   /\ mode' = "rcv" \/ lba + c >= NumBlocks
              /\ phase' = "write" /\ Fresh' =>
                   /\ fifo' = Empty /\ (mode' = "rcv" => pos' = lba + c)
                   /\ mode' = "rcv" \/ lba + c >= NumBlocks
  BY <1>3, <1>10 DEF HastyPhase
<1>11. CASE Accepts \/ Rejects
  <2>1. Executing /\ MayAnswer /\ HostTakes
    BY <1>11 DEF Accepts, Rejects, Answer, EndCommand
  <2>2. CASE IsData
    <3>1. phase' = "write" /\ fifo' = Empty /\ cmdtm = "WRITE_SINGLE" /\ Address = lba + c
      BY <1>9, <2>1, <2>2 DEF HostTakes, IsData, DataCommands, ReadCommands, WriteCommands
    <3>2. CASE Accepts
      <4>1. mode' = "rcv" /\ pos' = lba + c
        BY <3>1, <3>2 DEF Accepts, CardTakes, ReadCommands
      <4> QED BY <1>7, <3>1, <4>1
    <3>3. CASE Rejects
      <4>1. mode' = "tran" /\ lba + c \notin Blocks
        BY <3>1, <3>3 DEF Rejects, cardVars
      <4>2. lba + c >= NumBlocks
        BY <1>1, <4>1 DEF Blocks
      <4> QED BY <1>7, <3>1, <4>1, <4>2
    <3> QED BY <1>11, <3>2, <3>3
  <2>3. CASE ~IsData
    <3>1. cmdtm = "SET_BLOCKCNT" /\ UNCHANGED <<phase, fifo>>
      BY <1>8, <2>1, <2>3 DEF HostTakes, dataVars
    <3>2. UNCHANGED <<mode, pos>>
      BY <1>11, <3>1 DEF Accepts, Rejects, CardTakes, cardVars, IsData, DataCommands, ReadCommands, WriteCommands
    <3>3. Fresh' => Fresh
      BY <1>6, <3>1
    <3> QED BY <1>7, <1>10, <3>1, <3>2, <3>3
  <2> QED BY <2>2, <2>3
<1>12. CASE Illegal \/ Lost
  <2>1. Executing /\ UNCHANGED <<phase, fifo>>
    BY <1>12 DEF Illegal, Lost, NoAnswer, EndCommand, dataVars
  <2>2. "CMD_DONE" \in interrupt' => "CMD_DONE" \in interrupt
    BY <1>12, FaultsAssumption DEF Illegal, Lost, NoAnswer, EndCommand, ErrorBits, TimeoutBits
  <2>3. ~Fresh /\ ~Fresh'
    BY <1>1, <1>8, <2>1, <2>2 DEF Fresh
  <2>4. CASE UNCHANGED <<mode, pos>>
    BY <1>7, <1>10, <2>1, <2>3, <2>4
  <2>5. CASE ~UNCHANGED <<mode, pos>>
    <3>1. CardTakes
      BY <1>12, <2>5 DEF Illegal, Lost, cardVars
    <3>2. IsData /\ mode = "tran" /\ Address \in Blocks
      BY <1>8, <2>5, <3>1 DEF CardTakes
    <3>3. ~(phase = "write" /\ fifo # Empty)
      BY <1>1, <1>3, <1>9, <2>1, <3>2 DEF HastyPhase, Blocks
    <3> QED BY <1>7, <1>8, <2>1, <2>3, <3>3
  <2> QED BY <2>4, <2>5
<1>13. CASE BlockIn
  BY <1>8, <1>13 DEF BlockIn
<1>14. CASE AskBlock
  <2>1. UNCHANGED <<phase, fifo, mode, pos>>
    BY <1>14 DEF AskBlock, dataVars, cardVars
  <2>2. Fresh' => Fresh
    BY <1>1, <1>14 DEF AskBlock, PhaseStep, Fresh
  <2> QED BY <1>7, <1>10, <2>1, <2>2
<1>15. CASE BlockOut
  <2>1. fifo # Empty /\ fifo' = Empty /\ phase' = phase /\ phase = "write"
    BY <1>15 DEF BlockOut
  <2>2. Fresh' => Fresh
    BY <1>1, <1>15 DEF BlockOut, PhaseStep, Fresh
  <2>3. ~Fresh
    BY <1>3, <2>1 DEF HastyPhase
  <2> QED BY <1>7, <1>8, <2>1, <2>2, <2>3
<1>16. CASE PhaseDone \/ PhaseFails
  <2>1. phase' = "none"
    BY <1>16 DEF PhaseDone, PhaseFails
  <2> QED BY <1>7, <2>1
<1> QED BY <1>11, <1>12, <1>13, <1>14, <1>15, <1>16 DEF HwTransferStep
\* While a call runs, Settled is a consequence of the rest.
LEMMA SettledRunning == CallInv /\ FrameInv /\ TransferInv /\ HastyCommand /\ HastyPhase /\ Running => Settled
<1> SUFFICES ASSUME CallInv, FrameInv, TransferInv, HastyCommand, HastyPhase, Running,
                    Executing, IsData, phase = "write", fifo # Empty
             PROVE  mode # "tran" \/ Address \notin Blocks
  BY DEF Settled
<1>1. CASE Active
  BY <1>1 DEF TransferInv, InFlight, Quiet
<1>2. CASE ~Active
  <2>1. Hasty /\ ~Ccs
    BY <1>2 DEF Active, Running, Hasty, OneTransfer
  <2>2. Address = lba + c
    <3>1. arg1 = (lba + c) * BlockLen
      BY <2>1 DEF HastyCommand
    <3>2. lba + c \in Nat /\ BlockLen \in Nat \ {0}
      BY CallNumbers
    <3> QED BY <2>1, <3>1, <3>2, DivTimes DEF Address
  <2>3. mode = "rcv" \/ lba + c >= NumBlocks
    BY <2>1 DEF HastyPhase
  <2> QED BY <2>2, <2>3, CallNumbers DEF Blocks
<1> QED BY <1>1, <1>2

LEMMA SettledIdle == StoreHyp /\ [Next]_vars /\ ~Running' => Settled'
<1> SUFFICES ASSUME StoreHyp, [Next]_vars, ~Running' PROVE Settled'
  OBVIOUS
<1> USE DEF StoreHyp, TransferHyp, StoreInv
<1>1. ASSUME UNCHANGED <<status, cmdtm, arg1, sd_scr, phase, fifo, mode>> PROVE Settled'
  BY <1>1 DEF Settled, Executing, IsData, Address, Ccs
<1>2. CASE LowStep
  <2>1. UNCHANGED <<sd_scr, phase, fifo, mode, pc>>
    BY <1>2 DEF LowStep, callVars, dataVars, cardVars
  <2>2. cmd = "none"
    BY <2>1 DEF FrameInv, Frames, Running
  <2>3. WaitStep
    BY <1>2, <2>2 DEF LowStep, DriverStep, CmdStep, CmdBusy, CmdClear, CmdIssue, CmdWait
  <2>4. UNCHANGED <<status, cmdtm, arg1>>
    BY <2>3 DEF WaitStep, StatusPoll, StatusExit, IntPoll, IntRead, IntAck, PollStep, hostVars
  <2> QED BY <1>1, <2>1, <2>4
<1>3. CASE Caller
  BY <1>1, <1>3 DEF Caller, CallRead, CallWrite, Call, hostVars, dataVars, cardVars
<1>4. CASE CallStep
  <2>1. pc' = "idle"
    BY <1>4 DEF Running, CallStep, Ready, Preset, Start, Loop, Sent, MoveBlock, NoBlock, Flush, Stop, LeaveWith,
       LeaveOnError, LeaveFailed, Leave, Go, StartTransfer, AwaitBlock, Finish
  <2>2. UNCHANGED <<sd_scr, phase, fifo, mode>>
    BY <1>4, <2>1 DEF CallStep, Ready, Preset, Start, Loop, Sent, MoveBlock, NoBlock, Flush, Stop, Local, dataVars, cardVars
  <2>3. UNCHANGED <<status, cmdtm, arg1>>
    BY <1>4, <2>1 DEF CallStep, Ready, Preset, Start, Loop, Sent, MoveBlock, NoBlock, Flush, Stop, LeaveWith, LeaveOnError,
       LeaveFailed, Leave, Go, StartTransfer, AwaitBlock, Finish, driverVars, hostVars
  <2> QED BY <1>1, <2>2, <2>3
<1>5. CASE HwTransferStep
  <2>1. UNCHANGED <<cmdtm, arg1, sd_scr>> /\ (Executing' => Executing) /\ IsData' = IsData /\ Address' = Address
    BY <1>5, HwSame DEF Address
  <2>2. CASE Accepts \/ Rejects \/ Illegal \/ Lost
    <3>1. ~Executing'
      BY <2>2 DEF Accepts, Rejects, Answer, Illegal, Lost, NoAnswer, Executing
    <3> QED BY <3>1 DEF Settled
  <2>3. CASE AskBlock
    BY <2>1, <2>3 DEF Settled, AskBlock, dataVars, cardVars
  <2>4. CASE BlockIn \/ BlockOut \/ PhaseDone \/ PhaseFails
    <3>1. phase' # "write" \/ fifo' = Empty
      BY <2>4 DEF BlockIn, BlockOut, PhaseDone, PhaseFails
    <3> QED BY <3>1 DEF Settled
  <2> QED BY <1>5, <2>2, <2>3, <2>4 DEF HwTransferStep
<1>6. CASE UNCHANGED vars
  BY <1>1, <1>6 DEF vars, driverVars, hostVars, dataVars, cardVars
<1> QED BY <1>2, <1>3, <1>4, <1>5, <1>6 DEF Next

LEMMA StoreNext == StoreHyp /\ [Next]_vars => StoreHyp'
<1> SUFFICES ASSUME StoreHyp, [Next]_vars PROVE StoreHyp'
  OBVIOUS
<1>1. TransferHyp'
  <2>1. CallInv' /\ FrameInv' /\ TransferInv'
    BY CallNextInv, FrameNext, TransferNext DEF StoreHyp, TransferHyp
  <2>2. OwnAnswer'
    BY NextIsCmdNext, OwnAnswerNext DEF StoreHyp, TransferHyp, CallInv, TypeOK
  <2> QED BY <2>1, <2>2 DEF TransferHyp
<1>2. HastyCommand' /\ HastyPhase'
  <2>1. CASE Caller
    <3>1. pc' = "ready" /\ UNCHANGED <<code, cmdtm, sd_scr>>
      BY <2>1 DEF Caller, CallRead, CallWrite, Call, hostVars, cmdVars
    <3> QED BY <3>1 DEF HastyCommand, HastyPhase, Hasty, Running, StoreHyp, StoreInv, Ccs
  <2>2. CASE UNCHANGED vars
    <3>1. /\ Hasty' = Hasty /\ Fresh' = Fresh /\ Executing' = Executing /\ IsData' = IsData /\ Ccs' = Ccs
          /\ UNCHANGED <<pc, cmd, code, arg, cmdtm, arg1, lba, c, phase, fifo, mode, pos, buf>>
      BY <2>2 DEF vars, driverVars, hostVars, waitVars, cmdVars, callVars, dataVars, cardVars, Hasty, Running,
         OneTransfer, Ccs, Fresh, Executing, IsData
    <3> QED BY <3>1 DEF HastyCommand, HastyPhase, StoreHyp, StoreInv
  <2> QED BY <2>1, <2>2, HastyLow, HastyCall, HastyHw DEF Next
<1>3. Settled'
  <2>1. CASE Running'
    BY <1>1, <1>2, <2>1, SettledRunning, PTL DEF TransferHyp
  <2> QED BY <2>1, SettledIdle
<1> QED BY <1>1, <1>2, <1>3, UntouchedStep DEF StoreHyp, StoreInv

LEMMA StoreHypAlways == Spec => []StoreHyp
<1>1. Init => StoreHyp
  BY CallInitInv, OwnAnswerInit, TransferInitInv, StoreInitInv DEF Init, StoreHyp, TransferHyp
<1> QED BY <1>1, StoreNext, PTL DEF Spec

-----------------------------------------------------------------------------
(* The steps of the store. *)

\* A block in the FIFO of a write that runs is one of its own, next to its place.
LEMMA OwnBlock ==
  ASSUME StoreHyp, Running, Owing
  PROVE  op = "write" /\ \E k \in 0 .. num - 1 : pos = lba + k /\ fifo = buf[k] /\ lba + k \in Blocks
<1> USE DEF StoreHyp, TransferHyp, StoreInv
<1>1. /\ phase = "write" /\ fifo # Empty /\ mode = "rcv" /\ pos < NumBlocks
      /\ c \in Nat /\ num \in Nat /\ c <= num /\ left \in Nat /\ lba \in Nat /\ pos \in Nat /\ NumBlocks \in Nat
  BY CallNumbers DEF Owing, CardSilent
<1>2. op = "write" /\ c > 0 /\ pos = lba + (c - 1) /\ fifo = buf[c - 1]
  <2>1. CASE Active
    <3>1. op = "write" /\ Writing
      BY <1>1, <2>1 DEF TransferInv, Phase, Writing
    <3>2. left + c = num + Held /\ Held = 1 /\ c > 0 /\ fifo = buf[c - 1] /\ (left > 0 => pos + Held = lba + c)
      BY <1>1, <3>1 DEF TransferInv, Phase, Held
    <3> QED BY <1>1, <3>1, <3>2
  <2>2. CASE ~Active
    <3>1. Hasty
      BY <2>2 DEF Active, Running, Hasty
    <3>2. c > 0 /\ pos = lba + c - 1 /\ fifo = buf[c - 1] /\ op = "write"
      BY <1>1, <3>1 DEF HastyPhase, Hasty
    <3> QED BY <1>1, <3>2
  <2> QED BY <2>1, <2>2
<1>3. c - 1 \in 0 .. num - 1 /\ lba + (c - 1) \in Blocks
  BY <1>1, <1>2 DEF Blocks
<1> QED BY <1>2, <1>3
LEMMA StoreInitMaps == Init => Store!Init
<1> SUFFICES ASSUME Init PROVE Store!Init
  OBVIOUS
<1>1. StoreCall = "none" /\ StoreData = NoBuffer /\ StoreOwed = {}
  BY DEF Init, StoreCall, StoreData, StoreOwed, Owing, Returned
<1>2. NoBuffer \in Store!Buffer
  BY DEF NoBuffer, Store!Buffer
<1>3. 0 \in 0 .. NumBlocks /\ 1 \in 1 .. MaxNum
  BY SizesAssumption
<1> QED BY <1>1, <1>2, <1>3 DEF Init, Store!Init, Store!Places, Blocks

LEMMA StoreStutter ==
  ASSUME UNCHANGED <<disk, op, lba, num, ret, sd_scr>>,
         StoreCall' = StoreCall, StoreData' = StoreData, StoreOwed' = StoreOwed
  PROVE  UNCHANGED Store!storeVars
BY DEF Store!storeVars, Ccs

\* While the call does not change, neither does what it is to the caller.
LEMMA StoreSame ==
  ASSUME UNCHANGED callVars
  PROVE  StoreCall' = StoreCall /\ StoreData' = StoreData
BY DEF callVars, StoreCall, StoreData, Returned

\* What a call that fails, or a write that ends, hands to its caller.
LEMMA BufferTypes ==
  ASSUME StoreHyp
  PROVE  NoBuffer \in Store!Buffer /\ (op = "write" => buf \in Store!Buffer)
<1>1. buf \in [0 .. MaxNum - 1 -> Data \cup {Garbage, Empty}]
  BY DEF StoreHyp, TransferHyp, CallInv, TypeOK
<1>2. op = "write" => \A k \in 0 .. MaxNum - 1 : buf[k] # Empty
  BY DEF StoreHyp, TransferHyp, FrameInv, Filled
<1> QED BY <1>1, <1>2 DEF NoBuffer, Store!Buffer

\* What a call leaves behind is nothing, or a block of its own.
LEMMA OwedAfter ==
  ASSUME StoreHyp, Running, pc' = "idle", UNCHANGED <<phase, fifo, mode, pos>>
  PROVE  StoreOwed = {} /\ StoreOwed' \in Store!LeftBehind /\ (op = "read" => StoreOwed' = {})
<1>1. Owing' = Owing /\ StoreOwed = {} /\ StoreOwed' = IF Owing THEN {[place |-> pos, block |-> fifo]} ELSE {}
  BY DEF Owing, CardSilent, StoreOwed, Running
<1>2. CASE ~Owing
  BY <1>1, <1>2 DEF Store!LeftBehind
<1>3. CASE Owing
  <2>1. PICK k \in 0 .. num - 1 : pos = lba + k /\ fifo = buf[k] /\ lba + k \in Blocks
    BY <1>3, OwnBlock
  <2>2. op = "write" /\ StoreData = buf
    BY <1>3, OwnBlock DEF StoreData
  <2>3. Store!Place(k) = lba + k /\ Store!Place(k) \in Store!Places
    BY <2>1 DEF Store!Place, Store!Places, Blocks
  <2>4. StoreOwed' = {[place |-> Store!Place(k), block |-> StoreData[k]]}
    BY <1>1, <1>3, <2>1, <2>2, <2>3
  <2> QED BY <1>1, <2>1, <2>2, <2>3, <2>4 DEF Store!LeftBehind
<1> QED BY <1>2, <1>3

LEMMA FailMaps ==
  ASSUME StoreHyp, pc # "idle", pc' = "idle", ret' = 0, buf' \in {buf, NoBuffer},
         UNCHANGED <<disk, op, lba, num, sd_scr, phase, fifo, mode, pos>>
  PROVE  Store!Fail
<1>1. StoreCall' = "none" /\ Ccs' = Ccs
  BY DEF StoreCall, Ccs
<1>2. StoreData' \in Store!Buffer
  <2>1. op \in {"read", "write"} /\ ~Returned("read")'
    BY DEF StoreHyp, TransferHyp, CallInv, TypeOK, Returned
  <2> QED BY <2>1, BufferTypes DEF StoreData
<1>3. CASE pc = "ready"
  <2>1. StoreCall = "new" /\ StoreOwed' = StoreOwed
    BY <1>3 DEF StoreCall, StoreOwed, Owing, CardSilent
  <2> QED BY <1>1, <1>2, <2>1 DEF Store!Fail, Store!Return
<1>4. CASE pc # "ready"
  <2>1. StoreCall = "running" /\ Running
    BY <1>4 DEF StoreCall, Running
  <2> QED BY <1>1, <1>2, <2>1, OwedAfter DEF Store!Fail, Store!Return
<1> QED BY <1>3, <1>4

LEMMA SuccessMaps ==
  ASSUME StoreHyp, StoreHyp', Running, pc' = "idle", ret' = num,
         UNCHANGED <<disk, op, lba, num, c, buf, sd_scr, phase, fifo, mode, pos>>
  PROVE  Store!ReadEnds \/ Store!WriteEnds
<1> USE DEF StoreHyp, TransferHyp
<1>1. /\ StoreCall = "running" /\ StoreCall' = "none" /\ Ccs' = Ccs /\ StoreData' = buf /\ num > 0 /\ num \in Nat
      /\ OneTransfer' = OneTransfer
  BY CallNumbers DEF StoreCall, Ccs, StoreData, Running, Returned, OneTransfer
<1>2. Store!Return(num)
  BY <1>1 DEF Store!Return
<1>3. CASE op = "read"
  <2>1. lba + num <= NumBlocks /\ \A k \in 0 .. num - 1 : buf[k] = disk[lba + k]
    <3>1. ReadReturnsDisk'
      BY ReadFromInv, PTL
    <3> QED BY <1>1, <1>3, <3>1 DEF ReadReturnsDisk, Returned
  <2>2. c = num
    BY <1>1 DEF FrameInv, Frames
  <2>3. \A k \in num .. MaxNum - 1 : buf[k] = Garbage
    BY <1>3, <2>2 DEF StoreInv, Untouched
  <2>4. StoreData = NoBuffer /\ DOMAIN StoreData = 0 .. MaxNum - 1
    BY <1>3 DEF StoreData, Returned, Running, NoBuffer
  <2>5. buf \in [0 .. MaxNum - 1 -> Data \cup {Garbage, Empty}] /\ MaxNum \in Nat
    BY CallNumbers
  <2>6. \A k \in 0 .. MaxNum - 1 : buf[k] = IF k < num THEN disk[lba + k] ELSE Garbage
    BY <1>1, <2>1, <2>3, <2>5
  <2>7. buf = [k \in DOMAIN StoreData |-> IF k < num THEN disk[Store!Place(k)] ELSE Garbage]
    BY <2>4, <2>5, <2>6 DEF Store!Place
  <2>8. StoreOwed' = StoreOwed
    BY <1>3, OwedAfter
  <2>9. Store!ReadEnds
    BY <1>1, <1>2, <1>3, <2>1, <2>7, <2>8 DEF Store!ReadEnds
  <2> QED BY <2>9
<1>4. CASE op = "write"
  <2>1. StoreData' = StoreData
    BY <1>1, <1>4 DEF StoreData
  <2>2. CASE OneTransfer
    <3>1. Done'
      BY <1>1, <1>4, <2>2 DEF TransferInv, Ends, Writing, Active
    <3>2. StoreOwed' = {}
      BY <3>1 DEF Done, StoreOwed, Owing
    <3>3. \A k \in 0 .. num - 1 : lba + k < NumBlocks /\ buf[k] = disk[lba + k]
      BY <3>1 DEF Done, Same
    <3>4. \A k \in 0 .. num - 1 : Store!InPlace(k)
      <4>1. lba \in Nat /\ NumBlocks \in Nat /\ StoreData = buf
        BY <1>4, CallNumbers DEF StoreData
      <4> QED BY <1>1, <3>3, <4>1 DEF Store!InPlace, Store!Place, Store!Places
    <3> QED BY <1>1, <1>2, <1>4, <2>1, <3>2, <3>4 DEF Store!WriteEnds
  <2>3. CASE ~OneTransfer
    <3>1. ~Ccs /\ num > 1
      BY <1>1, <2>3 DEF OneTransfer
    <3> QED BY <1>1, <1>2, <1>4, <2>1, <3>1, OwedAfter DEF Store!WriteEnds
  <2> QED BY <2>2, <2>3
<1> QED BY <1>3, <1>4 DEF CallInv, TypeOK

\* A call that goes on.
LEMMA OnMaps ==
  ASSUME StoreHyp, Running, Running', UNCHANGED <<disk, op, lba, num, ret, sd_scr>>,
         op = "write" => UNCHANGED buf
  PROVE  UNCHANGED Store!storeVars
<1>1. StoreCall' = StoreCall /\ StoreOwed' = StoreOwed
  BY DEF StoreCall, StoreOwed, Running
<1>2. StoreData' = StoreData
  BY DEF StoreData, Returned, Running, StoreHyp, TransferHyp, CallInv, TypeOK
<1> QED BY <1>1, <1>2, StoreStutter

LEMMA CallerMaps == StoreHyp /\ Caller => Store!Begin
<1> SUFFICES ASSUME StoreHyp, NEW l \in 0 .. NumBlocks, NEW n \in 0 .. MaxNum,
                    CallRead(l, n) \/ \E b \in Buffers(n) : CallWrite(l, n, b)
             PROVE  Store!Begin
  BY DEF Caller
<1>1. /\ pc = "idle" /\ pc' = "ready" /\ lba' = l /\ num' = (IF n < 1 THEN 1 ELSE n) /\ ret' = 0
      /\ UNCHANGED <<disk, sd_scr, phase, fifo, mode, pos>>
  BY DEF CallRead, CallWrite, Call, cardVars, dataVars
<1>2. \/ op' = "read" /\ buf' = NoBuffer
      \/ op' = "write" /\ buf' \in Buffers(n)
  BY DEF CallRead, CallWrite, Call
<1>3. StoreCall = "none" /\ StoreCall' = "new" /\ Ccs' = Ccs /\ StoreOwed' = StoreOwed
  BY <1>1 DEF StoreCall, Ccs, StoreOwed, Owing, CardSilent
<1>4. StoreData' \in Store!Buffer /\ (op' = "read" => \A k \in DOMAIN StoreData' : StoreData'[k] = Garbage)
  <2>1. Buffers(n) \subseteq Store!Buffer
    BY DEF Buffers, Store!Buffer
  <2>2. StoreData' = IF op' = "read" THEN NoBuffer ELSE buf'
    BY <1>1 DEF StoreData, Returned
  <2>3. \A k \in DOMAIN NoBuffer : NoBuffer[k] = Garbage
    BY DEF NoBuffer
  <2> QED BY <1>2, <2>1, <2>2, <2>3, BufferTypes
<1>5. num' \in 1 .. MaxNum
  BY <1>1, SizesAssumption
<1> QED BY <1>1, <1>2, <1>3, <1>4, <1>5 DEF Store!Begin
LEMMA CallStepMaps == StoreHyp /\ StoreHyp' /\ CallStep => [Store!Next]_(Store!storeVars)
<1> SUFFICES ASSUME StoreHyp, StoreHyp', CallStep PROVE [Store!Next]_(Store!storeVars)
  OBVIOUS
<1> USE DEF StoreHyp, TransferHyp
<1>1. UNCHANGED <<disk, op, lba, num, sd_scr, mode, pos>> /\ pc \notin {"idle"} /\ (pc' # "idle" => UNCHANGED ret)
  BY DEF CallStep, Ready, Preset, Start, Loop, Sent, MoveBlock, NoBlock, Flush, Stop, Local, cardVars, LeaveWith,
     LeaveOnError, LeaveFailed, Leave, Go, StartTransfer, AwaitBlock, Finish
<1>2. CASE pc' = "idle"
  <2>1. /\ UNCHANGED <<phase, fifo>>
        /\ \/ ret' = 0 /\ buf' \in {buf, NoBuffer}
           \/ ret' = num /\ UNCHANGED <<c, buf>> /\ pc # "ready"
    BY <1>2 DEF CallStep, Ready, Preset, Start, Loop, Sent, MoveBlock, NoBlock, Flush, Stop, Local, dataVars, LeaveWith,
       LeaveOnError, LeaveFailed, Leave, Go, StartTransfer, AwaitBlock, Finish
  <2>2. CASE ret' = 0 /\ buf' \in {buf, NoBuffer}
    <3>1. Store!Fail
      BY <1>1, <1>2, <2>1, <2>2, FailMaps
    <3> QED BY <3>1 DEF Store!Next
  <2>3. CASE ret' = num /\ UNCHANGED <<c, buf>> /\ pc # "ready"
    <3>1. Store!ReadEnds \/ Store!WriteEnds
      BY <1>1, <1>2, <2>1, <2>3, SuccessMaps DEF Running
    <3> QED BY <3>1 DEF Store!Next
  <2> QED BY <2>1, <2>2, <2>3
<1>3. CASE pc' # "idle" /\ pc = "ready"
  <2>1. res = "OK" /\ wait = "none" /\ pc' \notin {"idle", "ready"} /\ UNCHANGED buf
    BY <1>3 DEF CallStep, Ready, Preset, Start, Loop, Sent, MoveBlock, NoBlock, Flush, Stop, LeaveWith, LeaveFailed, Leave, Go,
       StartTransfer, Idle
  <2>2. phase = "none"
    BY <1>3, <2>1 DEF FrameInv, LineFree, CallInv, LineHeld
  <2>3. StoreCall = "new" /\ StoreCall' = "running" /\ StoreOwed = {} /\ StoreOwed' = {} /\ Ccs' = Ccs
    BY <1>1, <1>3, <2>1, <2>2 DEF StoreCall, StoreOwed, Owing, Ccs
  <2>4. StoreData' = StoreData
    BY <1>1, <1>3, <2>1 DEF StoreData, Returned
  <2>5. Store!Start
    BY <1>1, <1>3, <2>3, <2>4 DEF Store!Start
  <2> QED BY <2>5 DEF Store!Next
<1>4. CASE pc' # "idle" /\ pc # "ready"
  <2>1. Running /\ Running'
    BY <1>1, <1>4 DEF Running, CallStep, Ready, Preset, Start, Loop, Sent, MoveBlock, NoBlock, Flush, Stop, LeaveWith,
       LeaveOnError, LeaveFailed, Leave, Go, StartTransfer, AwaitBlock, Finish
  <2>2. op = "write" => UNCHANGED buf
    BY <1>4 DEF CallStep, Ready, Preset, Start, Loop, Sent, MoveBlock, NoBlock, Flush, Stop, LeaveWith,
       LeaveOnError, LeaveFailed, Leave, Go, StartTransfer, AwaitBlock, Finish
  <2> QED BY <1>1, <1>4, <2>1, <2>2, OnMaps
<1> QED BY <1>2, <1>3, <1>4

\* A step of the controller and the card while no call runs: what is owed stays so, or is settled.
LEMMA HwIdleMaps ==
  ASSUME StoreHyp, HwTransferStep, ~Running
  PROVE  \/ UNCHANGED <<disk, StoreOwed>>
         \/ StoreOwed' = {} /\ UNCHANGED disk
         \/ Owing /\ StoreOwed' = {} /\ disk' = [disk EXCEPT ![pos] = fifo]
<1> USE DEF StoreHyp, TransferHyp, StoreInv
<1>1. pc' = pc /\ pc \in {"idle", "ready"} /\ (~Owing' => StoreOwed' = {}) /\ (~Owing => StoreOwed = {})
  BY HwSame DEF callVars, Running, StoreOwed
<1>2. ASSUME UNCHANGED <<phase, fifo, mode, pos>> PROVE UNCHANGED StoreOwed
  BY <1>1, <1>2 DEF StoreOwed, Owing, CardSilent
<1>3. CASE Accepts \/ Rejects
  <2>1. MayAnswer /\ HostTakes /\ UNCHANGED disk
    BY <1>3 DEF Accepts, Rejects, Answer, CardTakes, cardVars
  <2>2. CASE fifo' = Empty
    BY <1>1, <2>1, <2>2 DEF Owing
  <2>3. CASE fifo' # Empty
    <3>1. cmdtm = "SET_BLOCKCNT" /\ UNCHANGED <<phase, fifo>>
      BY <2>1, <2>3 DEF HostTakes, dataVars
    <3>2. UNCHANGED <<mode, pos>>
      BY <1>3, <3>1 DEF Accepts, Rejects, CardTakes, cardVars, IsData, DataCommands, ReadCommands, WriteCommands
    <3> QED BY <1>2, <2>1, <3>1, <3>2
  <2> QED BY <2>2, <2>3
<1>4. CASE Illegal \/ Lost
  <2>1. Executing /\ UNCHANGED <<phase, fifo, disk>>
    BY <1>4 DEF Illegal, Lost, NoAnswer, EndCommand, dataVars, CardTakes, cardVars
  <2>2. CASE UNCHANGED <<mode, pos>>
    BY <1>2, <2>1, <2>2
  <2>3. CASE ~UNCHANGED <<mode, pos>>
    <3>1. CardTakes
      BY <1>4, <2>3 DEF Illegal, Lost, cardVars
    <3>2. mode' = "tran" \/ (IsData /\ mode = "tran" /\ Address \in Blocks)
      BY <2>3, <3>1 DEF CardTakes
    <3>3. ~Owing'
      <4>1. CASE mode' = "tran"
        BY <4>1 DEF Owing, CardSilent
      <4>2. CASE IsData /\ mode = "tran" /\ Address \in Blocks
        BY <2>1, <4>2 DEF Owing, Settled
      <4> QED BY <3>2, <4>1, <4>2
    <3> QED BY <1>1, <2>1, <3>3
  <2> QED BY <2>2, <2>3
<1>5. CASE BlockIn
  BY <1>1, <1>5 DEF BlockIn, Owing
<1>6. CASE AskBlock
  BY <1>2, <1>6 DEF AskBlock, dataVars, cardVars
<1>7. CASE BlockOut
  <2>1. Owing /\ ~Owing'
    <3>1. pos \in Nat /\ NumBlocks \in Nat
      BY CallNumbers
    <3> QED BY <1>7, <3>1 DEF BlockOut, CardAdvances, Owing, CardSilent
  <2> QED BY <1>1, <1>7, <2>1 DEF BlockOut
<1>8. CASE PhaseDone \/ PhaseFails
  <2>1. ~Owing'
    BY <1>8 DEF PhaseDone, PhaseFails, Owing
  <2>2. UNCHANGED disk \/ (Owing /\ disk' = [disk EXCEPT ![pos] = fifo])
    BY <1>8 DEF PhaseDone, PhaseFails, Owing, cardVars
  <2> QED BY <1>1, <2>1, <2>2
<1> QED BY <1>3, <1>4, <1>5, <1>6, <1>7, <1>8 DEF HwTransferStep

LEMMA HwMaps == StoreHyp /\ HwTransferStep => [Store!Next]_(Store!storeVars)
<1> SUFFICES ASSUME StoreHyp, HwTransferStep PROVE [Store!Next]_(Store!storeVars)
  OBVIOUS
<1>1. /\ UNCHANGED <<pc, op, lba, num, ret, sd_scr>> /\ Ccs' = Ccs
      /\ StoreCall' = StoreCall /\ StoreData' = StoreData
  BY HwSame, StoreSame DEF callVars
<1>2. CASE Running
  <2>1. StoreCall = "running" /\ StoreOwed' = {} /\ StoreOwed = {}
    BY <1>1, <1>2 DEF Running, StoreCall, StoreOwed
  <2>2. CASE UNCHANGED disk
    BY <1>1, <2>1, <2>2, StoreStutter
  <2>3. CASE ~UNCHANGED disk
    <3>1. Owing /\ disk' = [disk EXCEPT ![pos] = fifo]
      <4>1. pos \in Nat /\ NumBlocks \in Nat
        BY CallNumbers DEF StoreHyp, TransferHyp
      <4> QED BY <2>3, <4>1 DEF HwTransferStep, Accepts, Rejects, Illegal, Lost, CardTakes, BlockIn, AskBlock, BlockOut,
                 CardAdvances, PhaseDone, PhaseFails, cardVars, Owing, CardSilent
    <3>2. op = "write" /\ \E k \in 0 .. num - 1 : pos = lba + k /\ fifo = buf[k] /\ lba + k \in Blocks
      BY <1>2, <3>1, OwnBlock
    <3>3. StoreData = buf
      BY <3>2 DEF StoreData
    <3>4. Store!Put
      BY <1>1, <2>1, <3>1, <3>2, <3>3 DEF Store!Put, Store!Place, Store!Places, Blocks
    <3> QED BY <3>4 DEF Store!Next
  <2> QED BY <2>2, <2>3
<1>3. CASE ~Running
  <2>1. StoreCall # "running"
    BY <1>3 DEF Running, StoreCall
  <2>2. CASE UNCHANGED <<disk, StoreOwed>>
    BY <1>1, <2>2, StoreStutter
  <2>3. CASE StoreOwed' = {} /\ UNCHANGED disk /\ StoreOwed # {}
    BY <1>1, <2>1, <2>3 DEF Store!Next, Store!Settle
  <2>4. CASE Owing /\ StoreOwed' = {} /\ disk' = [disk EXCEPT ![pos] = fifo]
    <3>1. StoreOwed = {[place |-> pos, block |-> fifo]}
      BY <1>3, <2>4 DEF StoreOwed, Running
    <3>2. Store!Settle
      BY <1>1, <2>1, <2>4, <3>1 DEF Store!Settle
    <3> QED BY <3>2 DEF Store!Next
  <2> QED BY <1>3, <2>2, <2>3, <2>4, HwIdleMaps
<1> QED BY <1>2, <1>3

\* Driver, controller and card implement the store of blocks: whatever is lost or breaks off, and
\* in whatever order polls and data phase go on, a call that failed leaves nothing but some of
\* its own blocks, at most one of them late, and a call that succeeded has done what it says.
THEOREM ImplementsStoreAlways == Spec => ImplementsStore
<1>1. StoreHyp /\ StoreHyp' /\ [Next]_vars => [Store!Next]_(Store!storeVars)
  <2> SUFFICES ASSUME StoreHyp, StoreHyp', [Next]_vars PROVE [Store!Next]_(Store!storeVars)
    OBVIOUS
  <2>1. CASE LowStep
    <3>1. UNCHANGED <<disk, op, lba, num, ret, sd_scr, pc, phase, fifo, mode, pos, callVars>>
      BY <2>1 DEF LowStep, callVars, dataVars, cardVars
    <3>2. StoreOwed' = StoreOwed
      BY <3>1 DEF StoreOwed, Owing, CardSilent
    <3> QED BY <3>1, <3>2, StoreSame, StoreStutter
  <2>2. CASE UNCHANGED vars
    <3>1. UNCHANGED <<disk, op, lba, num, ret, sd_scr, pc, phase, fifo, mode, pos, callVars>>
      BY <2>2 DEF vars, callVars, dataVars, cardVars
    <3>2. StoreOwed' = StoreOwed
      BY <3>1 DEF StoreOwed, Owing, CardSilent
    <3> QED BY <3>1, <3>2, StoreSame, StoreStutter
  <2>3. CASE Caller
    BY <2>3, CallerMaps DEF Store!Next
  <2> QED BY <2>1, <2>2, <2>3, CallStepMaps, HwMaps DEF Next
<1> QED BY <1>1, StoreInitMaps, StoreHypAlways, PTL DEF Spec, ImplementsStore, Store!Spec
=============================================================================
