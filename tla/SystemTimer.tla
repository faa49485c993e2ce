---------------------------- MODULE SystemTimer ----------------------------
(***************************************************************************)
(* delays.c: the counter of the system timer, which has to be read in two  *)
(* halves while it runs, and wait_msec_st, which polls it.                 *)
(*                                                                         *)
(* The core may be delayed between any two reads; the one assumption is    *)
(* that a call of get_system_timer takes less than one period of the low   *)
(* half (over an hour).  start and began record when a call began.         *)
(***************************************************************************)
EXTENDS Integers

CONSTANTS
  LoSize,   \* values of the low half (2^32)
  MaxHi,    \* the largest value of the high half (bound)
  Delays    \* arguments of wait_msec_st

ASSUME TimerAssumption ==
  LoSize \in Nat \ {0} /\ MaxHi \in Nat /\ Delays \subseteq Nat

VARIABLES
  hi, lo,              \* the counter
  at, h, l, start,     \* get_system_timer: where it is, its locals, the time of the call
  waiting, t, n, began \* wait_msec_st: what it reads the timer for, its locals, the time of the call

counter == <<hi, lo>>
readVars == <<at, h, l, start>>
waitVars == <<waiting, t, n, began>>
timerVars == <<counter, readVars, waitVars>>

Times == (0 .. MaxHi) \X (0 .. LoSize - 1)

TimerTypeOK ==
  /\ counter \in Times /\ start \in Times /\ began \in Times
  /\ at \in {"none", "hi", "lo", "check", "hi_again", "lo_again", "done"}
  /\ h \in 0 .. MaxHi /\ l \in 0 .. LoSize - 1
  /\ waiting \in {"none", "first", "poll", "over"}
  /\ t \in Nat /\ n \in Delays \cup {0}

TimerInit ==
  /\ hi \in 0 .. MaxHi /\ lo \in 0 .. LoSize - 1
  /\ at = "none" /\ h = 0 /\ l = 0 /\ start = counter
  /\ waiting = "none" /\ t = 0 /\ n = 0 /\ began = counter

-----------------------------------------------------------------------------
(* The counter. *)

NotAfter(a, b) == a[1] < b[1] \/ (a[1] = b[1] /\ a[2] <= b[2])
NextTime == IF lo = LoSize - 1 THEN <<hi + 1, 0>> ELSE <<hi, lo + 1>>

\* One period of the low half has not passed since time s.
WithinPeriod(s, now) == now[1] = s[1] \/ (now[1] = s[1] + 1 /\ now[2] < s[2])

Tick ==
  /\ NextTime \in Times
  /\ at = "none" \/ WithinPeriod(start, NextTime)
  /\ hi' = NextTime[1] /\ lo' = NextTime[2]
  /\ UNCHANGED <<readVars, waitVars>>

-----------------------------------------------------------------------------
(* get_system_timer. *)

CallRead == at' = "hi" /\ start' = counter /\ UNCHANGED <<h, l>>

ReadHi == at = "hi" /\ h' = hi /\ at' = "lo" /\ UNCHANGED <<l, start>>
ReadLo == at = "lo" /\ l' = lo /\ at' = "check" /\ UNCHANGED <<h, start>>

\* Mutant: the high half is not read again.
CheckNothing == at = "check" /\ at' = "done" /\ UNCHANGED <<h, l, start>>

\* The low half has rolled over between the reads.
CheckHi ==
  /\ at = "check"
  /\ at' = (IF h # hi THEN "hi_again" ELSE "done")
  /\ UNCHANGED <<h, l, start>>

ReadHiAgain == at = "hi_again" /\ h' = hi /\ at' = "lo_again" /\ UNCHANGED <<l, start>>
ReadLoAgain == at = "lo_again" /\ l' = lo /\ at' = "done" /\ UNCHANGED <<h, start>>

ReadStep ==
  (ReadHi \/ ReadLo \/ CheckHi \/ ReadHiAgain \/ ReadLoAgain) /\ UNCHANGED <<counter, waitVars>>

-----------------------------------------------------------------------------
(* wait_msec_st. *)

Value(c) == c[1] * LoSize + c[2]

CallWait ==
  /\ waiting \in {"none", "over"} /\ at = "none"
  /\ n' \in Delays /\ waiting' = "first" /\ began' = counter
  /\ CallRead /\ UNCHANGED <<counter, t>>

\* A timer that reads 0 is taken for one that does not count.
GotFirst ==
  /\ waiting = "first" /\ at = "done"
  /\ t' = Value(<<h, l>>)
  /\ IF t' = 0 THEN waiting' = "over" /\ at' = "none" /\ UNCHANGED <<h, l, start>>
     ELSE waiting' = "poll" /\ CallRead
  /\ UNCHANGED <<counter, n, began>>

Poll ==
  /\ waiting = "poll" /\ at = "done"
  /\ IF Value(<<h, l>>) < t + n THEN CallRead /\ UNCHANGED waiting
     ELSE waiting' = "over" /\ at' = "none" /\ UNCHANGED <<h, l, start>>
  /\ UNCHANGED <<counter, t, n, began>>

WaitStep == CallWait \/ GotFirst \/ Poll

TimerNext == Tick \/ ReadStep \/ WaitStep

TimerSpec == TimerInit /\ [][TimerNext]_timerVars

-----------------------------------------------------------------------------
(* Properties. *)

\* What get_system_timer returns was the time at some moment of the call, although
\* the halves are read apart and the low one may roll over between any two reads.
ReadIsCurrent ==
  at = "done" => NotAfter(start, <<h, l>>) /\ NotAfter(<<h, l>>, counter)

\* wait_msec_st does not return before its time, except when the timer reads 0.
WaitsLongEnough == waiting = "over" /\ t # 0 => Value(counter) >= Value(began) + n
=============================================================================
