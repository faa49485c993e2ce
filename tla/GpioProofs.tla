----------------------------- MODULE GpioProofs -----------------------------
(* Theorems about SystemTimer and Gpio, for counters of every width, every    *)
(* period and every choice of pins.                                           *)
EXTENDS Gpio, TLAPS

-----------------------------------------------------------------------------
(* Times are ordered as their values are. *)

LEMMA ValueType == ASSUME NEW a \in Times PROVE Value(a) \in Nat
BY TimerAssumption DEF Times, Value

LEMMA ProductMonotone ==
  ASSUME NEW a \in Nat, NEW b \in Nat, NEW m \in Nat, a <= b
  PROVE  a * m <= b * m
<1>1. PICK k \in Nat : b = a + k
  <2>1. b - a \in Nat /\ b = a + (b - a)
    OBVIOUS
  <2> QED BY <2>1
<1>2. b * m = a * m + k * m
  BY <1>1
<1>3. k * m \in Nat /\ a * m \in Nat
  BY <1>1
<1> QED BY <1>2, <1>3

LEMMA ValueMonotone ==
  ASSUME NEW a \in Times, NEW b \in Times, NotAfter(a, b)
  PROVE  Value(a) <= Value(b)
<1> DEFINE L == LoSize
<1>1. a[1] \in Nat /\ b[1] \in Nat /\ a[2] \in 0 .. L - 1 /\ b[2] \in 0 .. L - 1 /\ L \in Nat
  BY TimerAssumption DEF Times
<1>2. CASE a[1] = b[1] /\ a[2] <= b[2]
  BY <1>1, <1>2 DEF Value
<1>3. CASE a[1] < b[1]
  <2>1. (a[1] + 1) * L <= b[1] * L
    BY <1>1, <1>3, ProductMonotone
  <2>2. (a[1] + 1) * L = a[1] * L + L
    BY <1>1
  <2>3. a[1] * L \in Nat /\ b[1] * L \in Nat
    BY <1>1
  <2> HIDE DEF L
  <2> QED BY <1>1, <2>1, <2>2, <2>3 DEF Value, L
<1> QED BY <1>2, <1>3 DEF NotAfter

-----------------------------------------------------------------------------
(* get_system_timer. *)

\* What is known of the halves that have been read.
Reads ==
  /\ at # "none" => NotAfter(start, counter) /\ WithinPeriod(start, counter)
  /\ at \in {"lo", "check"} => start[1] <= h /\ h <= hi
  /\ at = "check" => \E m \in h .. hi : NotAfter(start, <<m, l>>) /\ NotAfter(<<m, l>>, counter)
  /\ at \in {"hi_again", "lo_again"} => hi = start[1] + 1
  /\ at = "lo_again" => h = hi

TimerInv == TimerTypeOK /\ Reads /\ ReadIsCurrent

LEMMA TimerInitInv == TimerInit => TimerInv
BY TimerAssumption DEF TimerInit, TimerInv, TimerTypeOK, Times, Reads, ReadIsCurrent, counter

LEMMA TickType == TimerTypeOK /\ Tick => TimerTypeOK'
BY DEF TimerTypeOK, Tick, counter, Times, NextTime, readVars, waitVars

LEMMA TickReads == TimerInv /\ Tick => Reads' /\ ReadIsCurrent'
<1> SUFFICES ASSUME TimerInv, Tick PROVE Reads' /\ ReadIsCurrent'
  OBVIOUS
<1> USE TimerAssumption DEF TimerInv, TimerTypeOK, Times, counter
<1>1. UNCHANGED <<at, h, l, start>>
  BY DEF Tick, readVars
<1>2. start[1] \in Nat /\ start[2] \in 0 .. LoSize - 1 /\ hi \in Nat /\ lo \in 0 .. LoSize - 1
  OBVIOUS
<1>3. \/ hi' = hi /\ lo' = lo + 1
      \/ hi' = hi + 1 /\ lo' = 0 /\ lo = LoSize - 1
  BY DEF Tick, NextTime
<1>4. \A s \in (Nat \X Nat) : NotAfter(s, counter) => NotAfter(s, counter')
  BY <1>2, <1>3 DEF NotAfter
<1>5. at # "none" => NotAfter(start, counter)' /\ WithinPeriod(start, counter)'
  BY <1>1, <1>2, <1>3, <1>4 DEF Reads, Tick, WithinPeriod, NotAfter, NextTime
<1>6. at = "check" => \E m \in h .. hi' : NotAfter(start, <<m, l>>) /\ NotAfter(<<m, l>>, counter')
  BY <1>2, <1>3 DEF Reads, NotAfter
<1>7. at \in {"hi_again", "lo_again"} => hi' = hi
  BY <1>1, <1>2, <1>3, <1>5 DEF Reads, WithinPeriod
<1>8. ReadIsCurrent'
  BY <1>1, <1>2, <1>3 DEF ReadIsCurrent, NotAfter
<1> QED BY <1>1, <1>2, <1>3, <1>5, <1>6, <1>7, <1>8 DEF Reads

LEMMA ReadStepInv == TimerInv /\ ReadStep => TimerInv'
<1> SUFFICES ASSUME TimerInv, ReadStep PROVE TimerInv'
  OBVIOUS
<1> USE TimerAssumption DEF TimerInv, TimerTypeOK, Times, counter, waitVars
<1>1. UNCHANGED <<hi, lo, start, waiting, t, n, began>>
  BY DEF ReadStep, ReadHi, ReadLo, CheckHi, ReadHiAgain, ReadLoAgain
<1>2. start[1] \in Nat /\ start[2] \in 0 .. LoSize - 1 /\ hi \in Nat /\ lo \in 0 .. LoSize - 1
      /\ h \in Nat /\ l \in 0 .. LoSize - 1
  OBVIOUS
<1>3. CASE ReadHi
  BY <1>1, <1>2, <1>3 DEF ReadHi, Reads, ReadIsCurrent, NotAfter, WithinPeriod
<1>4. CASE ReadLo
  BY <1>1, <1>2, <1>4 DEF ReadLo, Reads, ReadIsCurrent, NotAfter, WithinPeriod
<1>5. CASE CheckHi
  <2>1. CASE h = hi
    BY <1>1, <1>2, <1>5, <2>1 DEF CheckHi, Reads, ReadIsCurrent, NotAfter, WithinPeriod
  <2>2. CASE h # hi
    BY <1>1, <1>2, <1>5, <2>2 DEF CheckHi, Reads, ReadIsCurrent, NotAfter, WithinPeriod
  <2> QED BY <2>1, <2>2
<1>6. CASE ReadHiAgain
  BY <1>1, <1>2, <1>6 DEF ReadHiAgain, Reads, ReadIsCurrent, NotAfter, WithinPeriod
<1>7. CASE ReadLoAgain
  BY <1>1, <1>2, <1>7 DEF ReadLoAgain, Reads, ReadIsCurrent, NotAfter, WithinPeriod
<1> QED BY <1>3, <1>4, <1>5, <1>6, <1>7 DEF ReadStep

\* A call begins with what is known at once.
LEMMA CallReadInv ==
  ASSUME TimerInv, CallRead, UNCHANGED counter PROVE Reads' /\ ReadIsCurrent'
BY TimerAssumption DEF CallRead, TimerInv, TimerTypeOK, Times, counter, Reads, ReadIsCurrent, NotAfter, WithinPeriod

LEMMA WaitStepInv == TimerInv /\ WaitStep => TimerInv'
<1> SUFFICES ASSUME TimerInv, WaitStep PROVE TimerInv'
  OBVIOUS
<1>1. UNCHANGED counter /\ (CallRead \/ (at' = "none" /\ UNCHANGED <<h, l, start>>))
  BY DEF WaitStep, CallWait, GotFirst, Poll
<1>2. Reads' /\ ReadIsCurrent'
  <2>1. CASE CallRead
    BY <1>1, <2>1, CallReadInv
  <2>2. CASE at' = "none" /\ UNCHANGED <<h, l, start>>
    BY <1>1, <2>2 DEF Reads, ReadIsCurrent, counter
  <2> QED BY <1>1, <2>1, <2>2
<1>3. Value(<<h, l>>) \in Nat
  BY TimerAssumption DEF TimerInv, TimerTypeOK, Value
<1>4. TimerTypeOK'
  <2> USE DEF TimerInv, TimerTypeOK, CallRead, counter
  <2>1. CASE CallWait
    BY <2>1 DEF CallWait
  <2>2. CASE GotFirst
    BY <1>3, <2>2 DEF GotFirst
  <2>3. CASE Poll
    BY <2>3 DEF Poll
  <2> QED BY <2>1, <2>2, <2>3 DEF WaitStep
<1> QED BY <1>2, <1>4 DEF TimerInv

LEMMA TimerNextInv == TimerInv /\ [TimerNext]_timerVars => TimerInv'
<1> SUFFICES ASSUME TimerInv, [TimerNext]_timerVars PROVE TimerInv'
  OBVIOUS
<1>1. CASE Tick
  BY <1>1, TickType, TickReads DEF TimerInv
<1>2. CASE ReadStep
  BY <1>2, ReadStepInv
<1>3. CASE WaitStep
  BY <1>3, WaitStepInv
<1>4. CASE UNCHANGED timerVars
  BY <1>4 DEF timerVars, counter, readVars, waitVars, TimerInv, TimerTypeOK, Reads, ReadIsCurrent, Times
<1> QED BY <1>1, <1>2, <1>3, <1>4 DEF TimerNext

\* What get_system_timer returns was the time at some moment of the call, for counters
\* of every width and every delay between its reads.
THEOREM ReadIsCurrentAlways == TimerSpec => []ReadIsCurrent
<1>1. TimerInv => ReadIsCurrent
  BY DEF TimerInv
<1> QED BY TimerInitInv, TimerNextInv, <1>1, PTL DEF TimerSpec

-----------------------------------------------------------------------------
(* wait_msec_st. *)

Waits ==
  /\ waiting = "first" => start = began
  /\ waiting = "poll" => t >= Value(began)
  /\ WaitsLongEnough

LEMMA WaitsNext == TimerInv /\ TimerInv' /\ Waits /\ [TimerNext]_timerVars => Waits'
<1> SUFFICES ASSUME TimerInv, TimerInv', Waits, [TimerNext]_timerVars PROVE Waits'
  OBVIOUS
<1>1. counter \in Times /\ counter' \in Times /\ began \in Times /\ <<h, l>> \in Times /\ n \in Nat
  BY TimerAssumption DEF TimerInv, TimerTypeOK, Times
<1>2. Value(counter) \in Nat /\ Value(counter') \in Nat /\ Value(began) \in Nat /\ Value(<<h, l>>) \in Nat
  BY <1>1, ValueType
<1>3. at = "done" => Value(<<h, l>>) <= Value(counter)
  BY <1>1, ValueMonotone DEF TimerInv, ReadIsCurrent
<1>4. CASE Tick
  <2>1. NotAfter(counter, counter')
    BY <1>1, <1>4 DEF Tick, NextTime, NotAfter, counter, Times
  <2>2. Value(counter) <= Value(counter')
    BY <1>1, <2>1, ValueMonotone
  <2>3. UNCHANGED <<start, waiting, t, n, began>>
    BY <1>4 DEF Tick, readVars, waitVars
  <2> HIDE DEF Value
  <2>4. Value(began)' = Value(began)
    BY <2>3 DEF Value
  <2>5. Value(counter)' = Value(counter')
    BY DEF Value
  <2> QED BY <1>1, <1>2, <2>2, <2>3, <2>4, <2>5 DEF Waits, WaitsLongEnough
<1>5. CASE ReadStep
  BY <1>5 DEF ReadStep, ReadHi, ReadLo, CheckHi, ReadHiAgain, ReadLoAgain, waitVars, counter, Waits,
              WaitsLongEnough, Value
<1>6. CASE CallWait
  BY <1>6 DEF CallWait, CallRead, Waits, WaitsLongEnough
<1>7. CASE GotFirst
  <2>1. NotAfter(began, <<h, l>>)
    BY <1>7 DEF GotFirst, Waits, TimerInv, ReadIsCurrent
  <2>2. Value(began) <= Value(<<h, l>>)
    BY <1>1, <2>1, ValueMonotone
  <2>3. t' = Value(<<h, l>>) /\ UNCHANGED <<counter, n, began>>
        /\ (waiting' = "poll" \/ (waiting' = "over" /\ t' = 0))
    BY <1>7 DEF GotFirst
  <2>4. Value(began)' = Value(began)
    BY <2>3 DEF Value
  <2> QED BY <1>2, <2>2, <2>3, <2>4 DEF Waits, WaitsLongEnough
<1>8. CASE Poll
  <2>1. UNCHANGED <<counter, t, n, began>> /\ (waiting' = "poll" \/ (waiting' = "over" /\ ~(Value(<<h, l>>) < t + n)))
    BY <1>8 DEF Poll
  <2>2. Value(began)' = Value(began) /\ Value(counter)' = Value(counter)
    BY <2>1 DEF Value
  <2>3. t \in Nat
    BY DEF TimerInv, TimerTypeOK
  <2>4. t >= Value(began)
    BY <1>8 DEF Poll, Waits
  <2>5. at = "done"
    BY <1>8 DEF Poll
  <2> QED BY <1>1, <1>2, <1>3, <2>1, <2>2, <2>3, <2>4, <2>5 DEF Waits, WaitsLongEnough
<1>9. CASE UNCHANGED timerVars
  BY <1>9 DEF timerVars, counter, readVars, waitVars, Waits, WaitsLongEnough, Value
<1> QED BY <1>4, <1>5, <1>6, <1>7, <1>8, <1>9 DEF TimerNext, WaitStep

\* wait_msec_st does not return before its time, whatever the core is delayed by, except
\* when the timer reads 0.
THEOREM WaitsLongEnoughAlways == TimerSpec => []WaitsLongEnough
<1>1. TimerInit => TimerInv /\ Waits
  BY TimerInitInv DEF TimerInit, Waits, WaitsLongEnough
<1>2. Waits => WaitsLongEnough
  BY DEF Waits
<1> QED BY TimerNextInv, WaitsNext, <1>1, <1>2, PTL DEF TimerSpec

-----------------------------------------------------------------------------
(* The pins. *)

\* The timer goes on as if nothing else ran.
LEMMA GpioUsesTimer == [GpioNext]_gpioTimerVars => [TimerNext]_timerVars
BY DEF GpioNext, TimerAlone, TickStep, AnyPins, Blink, BlinkStart, Switch, WaitHalf, KeepTimer,
       TimerNext, gpioTimerVars, timerVars

LEMMA GpioTimerInv == GpioSpec => []TimerInv
<1>1. GpioInit => TimerInv
  BY TimerInitInv DEF GpioInit
<1>2. TimerInv /\ [GpioNext]_gpioTimerVars => TimerInv'
  BY GpioUsesTimer, TimerNextInv
<1> QED BY <1>1, <1>2, PTL DEF GpioSpec

\* The halves that are over began early enough before some time with the low half prev,
\* which is not in the future.
Since(m) ==
  /\ m \in 0 .. hi /\ NotAfter(<<m, prev>>, counter)
  /\ \A i \in 1 .. blinks : Value(<<m, prev>>) >= Value(switched[i]) + (blinks - i) * Period

BlinkInv ==
  /\ prev \in 0 .. LoSize - 1 /\ blinks \in Nat /\ switched \in Seq(Times)
  /\ Len(switched) = IF stage \in {"wait_on", "wait_off"} THEN blinks + 1 ELSE blinks
  /\ \A i \in 1 .. Len(switched) : NotAfter(switched[i], counter)
  /\ (test = "blink" /\ stage # "start") => \E m \in 0 .. hi : Since(m)
  /\ stage = "start" \/ test # "blink" => blinks = 0
  /\ test # "blink" => stage \notin {"wait_on", "wait_off"}
  /\ BlinksSlowly

\* A difference of the low halves, taken modulo their size, is at most the time between.
LEMMA DifferenceOfLow ==
  ASSUME NEW m \in Nat, NEW p \in 0 .. LoSize - 1, TimerTypeOK, NotAfter(<<m, p>>, counter)
  PROVE  Value(counter) >= Value(<<m, p>>) + ((lo - p) % LoSize)
<1> DEFINE L == LoSize
<1>1. hi \in Nat /\ lo \in 0 .. L - 1 /\ L \in Nat /\ L > 0
  BY TimerAssumption DEF TimerTypeOK, Times, counter
<1>2. Value(counter) = hi * L + lo /\ Value(<<m, p>>) = m * L + p
  BY DEF Value, counter
<1>3. CASE lo >= p
  <2>1. (lo - p) % L = lo - p
    BY <1>1, <1>3
  <2>2. m <= hi
    BY <1>1, <1>3 DEF NotAfter, counter
  <2>3. m * L <= hi * L /\ m * L \in Nat /\ hi * L \in Nat
    BY <1>1, <2>2, ProductMonotone
  <2> HIDE DEF L
  <2> QED BY <1>1, <1>2, <2>1, <2>3 DEF L
<1>4. CASE lo < p
  <2>1. (lo - p) % L = L + lo - p
    BY <1>1, <1>4
  <2>2. m + 1 <= hi
    BY <1>1, <1>4 DEF NotAfter, counter
  <2>3. (m + 1) * L <= hi * L /\ m * L \in Nat /\ hi * L \in Nat /\ (m + 1) * L = m * L + L
    BY <1>1, <2>2, ProductMonotone
  <2> HIDE DEF L
  <2> QED BY <1>1, <1>2, <2>1, <2>3 DEF L
<1> QED BY <1>1, <1>3, <1>4

LEMMA BlinkInitInv == GpioInit => BlinkInv
BY TimerAssumption DEF GpioInit, TimerInit, BlinkInv, BlinksSlowly

LEMMA AddUp ==
  ASSUME NEW now \in Nat, NEW then \in Nat, NEW origin \in Nat, NEW passed \in Nat,
         NEW half \in Nat, NEW sum \in Nat,
         now >= then + passed, then >= origin + sum, passed >= half
  PROVE  now >= origin + (sum + half)
OBVIOUS

LEMMA OneMore ==
  ASSUME NEW k \in Nat, NEW i \in 1 .. k, NEW half \in Nat
  PROVE  /\ (k - i) * half \in Nat
         /\ ((k + 1) - i) * half = (k - i) * half + half
<1>1. PICK d \in Nat : k - i = d
  OBVIOUS
<1>2. (k + 1) - i = d + 1
  BY <1>1
<1>3. (d + 1) * half = d * half + half /\ d * half \in Nat
  OBVIOUS
<1> QED BY ONLY <1>1, <1>2, <1>3

LEMMA BlinkTypes ==
  ASSUME TimerInv, BlinkInv
  PROVE  /\ LoSize \in Nat /\ LoSize > 0 /\ hi \in Nat /\ lo \in 0 .. LoSize - 1 /\ counter \in Times
         /\ Period \in Nat /\ counter = <<hi, lo>> /\ Len(switched) \in Nat
         /\ \A i \in 1 .. Len(switched) : switched[i] \in Times /\ Value(switched[i]) \in Nat
<1>1. counter \in Times /\ counter = <<hi, lo>>
  BY DEF TimerInv, TimerTypeOK, counter
<1>2. LoSize \in Nat /\ LoSize > 0 /\ hi \in Nat /\ lo \in 0 .. LoSize - 1
  BY <1>1, TimerAssumption DEF Times
<1>3. Period \in Nat
  BY <1>2, GpioAssumption
<1>4. switched \in Seq(Times)
  BY DEF BlinkInv
<1>5. Len(switched) \in Nat /\ \A i \in 1 .. Len(switched) : switched[i] \in Times
  BY <1>4
<1> QED BY <1>1, <1>2, <1>3, <1>5, ValueType

LEMMA PrevTime ==
  ASSUME TimerTypeOK, prev \in 0 .. LoSize - 1, NEW m \in 0 .. hi
  PROVE  <<m, prev>> \in Times
<1>1. hi \in 0 .. MaxHi /\ MaxHi \in Nat
  BY TimerAssumption DEF TimerTypeOK, counter, Times
<1>2. m \in 0 .. MaxHi
  BY <1>1
<1> QED BY <1>2 DEF Times

\* Time passes.
LEMMA BlinkTick ==
  ASSUME TimerInv, BlinkInv, UNCHANGED gpioVars, Tick
  PROVE  BlinkInv'
<1>1. LoSize \in Nat /\ LoSize > 0 /\ hi \in Nat /\ lo \in 0 .. LoSize - 1
  BY BlinkTypes
<1>2. UNCHANGED <<test, stage, prev, blinks, switched>>
  BY DEF gpioVars
<1>3. \/ hi' = hi /\ lo' = lo + 1
      \/ hi' = hi + 1 /\ lo' = 0 /\ lo = LoSize - 1
  BY <1>1 DEF Tick, NextTime, counter
<1>4. ASSUME NEW s \in (Nat \X Nat), NotAfter(s, counter) PROVE NotAfter(s, counter')
  BY <1>1, <1>3, <1>4 DEF NotAfter, counter
<1>5. ASSUME NEW m \in 0 .. hi, Since(m) PROVE m \in 0 .. hi' /\ Since(m)'
  <2>1. NotAfter(<<m, prev>>, counter')
    BY <1>1, <1>4, <1>5 DEF Since, BlinkInv
  <2>2. \A i \in 1 .. blinks : Value(<<m, prev>>) >= Value(switched[i]) + (blinks - i) * Period
    BY <1>5 DEF Since
  <2>3. m \in 0 .. hi'
    BY <1>1, <1>3
  <2> QED BY <1>2, <2>1, <2>2, <2>3 DEF Since, Value
<1>6. \A i \in 1 .. Len(switched) : switched[i] \in Nat \X Nat
  BY BlinkTypes, <1>1 DEF Times
<1>7. BlinksSlowly'
  BY <1>2 DEF BlinkInv, BlinksSlowly, Value
<1>8. \A i \in 1 .. Len(switched') : NotAfter(switched'[i], counter')
  BY <1>2, <1>4, <1>6 DEF BlinkInv
<1>9. (test' = "blink" /\ stage' # "start") => \E m \in 0 .. hi' : Since(m)'
  BY <1>2, <1>5 DEF BlinkInv
<1>10. NotAfter(switched[1], counter)' = NotAfter(switched'[1], counter')
  OBVIOUS
<1> QED BY <1>2, <1>7, <1>8, <1>9 DEF BlinkInv, NotAfter

\* The light is switched: every half before the last is over since prev at the latest.
LEMMA BlinkSwitch ==
  ASSUME TimerInv, BlinkInv, Switch
  PROVE  BlinkInv'
<1> DEFINE k == Len(switched)
<1>1. /\ switched' = Append(switched, counter) /\ blinks' = blinks /\ prev' = prev /\ test' = test
      /\ hi' = hi /\ lo' = lo /\ test = "blink" /\ stage \in {"on", "off"}
      /\ stage' \in {"wait_on", "wait_off"} /\ counter' = counter
  BY GpioAssumption DEF Switch, LevelCall, KeepTimer, counter, Aligned
<1>2. k \in Nat /\ k = blinks /\ switched \in Seq(Times) /\ counter \in Times /\ hi \in Nat
  BY <1>1, BlinkTypes DEF BlinkInv
<1>3. /\ switched' \in Seq(Times) /\ Len(switched') = k + 1 /\ switched'[k + 1] = counter
      /\ \A i \in 1 .. k : switched'[i] = switched[i]
  BY <1>1, <1>2
<1>4. PICK m \in 0 .. hi : Since(m)
  BY <1>1 DEF BlinkInv
<1>5. <<m, prev>> \in Times
  BY <1>4, PrevTime DEF BlinkInv, TimerInv
<1>6. Value(<<m, prev>>) <= Value(counter) /\ Value(<<m, prev>>) \in Nat /\ Value(counter) \in Nat
  BY <1>2, <1>4, <1>5, ValueMonotone, ValueType DEF Since
<1>7. ASSUME NEW i \in 1 .. k
      PROVE  Value(counter) - Value(switched[i]) >= (((k + 1) - i) - 1) * Period
  <2>1. Value(<<m, prev>>) >= Value(switched[i]) + (k - i) * Period
    BY <1>2, <1>4 DEF Since
  <2>2. ((k + 1) - i) - 1 = k - i
    BY <1>2
  <2>3. Value(switched[i]) \in Nat /\ Period \in Nat
    BY BlinkTypes
  <2>4. (k - i) * Period \in Nat
    BY <1>2, <2>3, OneMore
  <2>5. Value(counter) - Value(switched[i]) >= (k - i) * Period
    <3> HIDE DEF k, Value
    <3> QED BY <1>6, <2>1, <2>3, <2>4
  <2> QED BY ONLY <2>2, <2>5
<1>8. ASSUME NEW j \in 1 .. k + 1, NEW i \in 1 .. j - 1
      PROVE  Value(switched'[j]) - Value(switched'[i]) >= ((j - i) - 1) * Period
  <2>1. i \in 1 .. k /\ switched'[i] = switched[i]
    BY <1>2, <1>3
  <2>2. CASE j = k + 1
    BY <1>3, <1>7, <2>1, <2>2
  <2>3. CASE j \in 1 .. k
    <3>1. j \in DOMAIN switched /\ i \in 1 .. j - 1 /\ switched'[j] = switched[j]
      BY <1>2, <1>3, <2>3
    <3>2. BlinksSlowly
      BY DEF BlinkInv
    <3>3. Value(switched[j]) - Value(switched[i]) >= ((j - i) - 1) * Period
      BY ONLY <3>1, <3>2, Zenon DEF BlinksSlowly
    <3> QED BY ONLY <2>1, <3>1, <3>3
  <2> QED BY <1>2, <2>2, <2>3
<1>9. BlinksSlowly'
  <2> HIDE DEF k
  <2>1. DOMAIN switched' = 1 .. k + 1
    BY <1>3
  <2> QED BY <1>8, <2>1 DEF BlinksSlowly, Value
<1>10. Since(m)'
  <2>1. \A i \in 1 .. blinks : Value(<<m, prev>>) >= Value(switched'[i]) + (blinks - i) * Period
    BY <1>2, <1>3, <1>4 DEF Since
  <2>2. m \in 0 .. hi /\ NotAfter(<<m, prev>>, counter)
    BY <1>4 DEF Since
  <2> QED BY <1>1, <2>1, <2>2 DEF Since, Value
<1>11. \A i \in 1 .. k + 1 : NotAfter(switched'[i], counter)
  <2>1. NotAfter(counter, counter)
    BY <1>2, TimerAssumption DEF NotAfter, Times
  <2> QED BY <1>2, <1>3, <2>1 DEF BlinkInv
<1>12. \A i \in 1 .. Len(switched') : NotAfter(switched'[i], counter')
  BY <1>1, <1>3, <1>11
<1> QED BY <1>1, <1>2, <1>3, <1>9, <1>10, <1>12 DEF BlinkInv, NotAfter

\* A half is over: at least a period after prev.
LEMMA BlinkWait ==
  ASSUME TimerInv, BlinkInv, WaitHalf
  PROVE  BlinkInv'
<1>1. /\ prev' = lo /\ switched' = switched /\ blinks' = blinks + 1 /\ hi' = hi /\ lo' = lo
      /\ stage' \notin {"start", "wait_on", "wait_off"} /\ stage \in {"wait_on", "wait_off"}
      /\ test = "blink" /\ test' = test /\ (lo - prev) % LoSize >= Period /\ counter' = counter
  BY DEF WaitHalf, KeepTimer, counter, IsOver, NextPrev
<1>2. Len(switched) = blinks + 1 /\ blinks \in Nat /\ hi \in Nat /\ lo \in 0 .. LoSize - 1
      /\ LoSize \in Nat /\ LoSize > 0 /\ Period \in Nat /\ counter \in Times /\ counter = <<hi, lo>>
  BY <1>1, BlinkTypes DEF BlinkInv
<1>3. PICK m \in 0 .. hi : Since(m)
  BY <1>1 DEF BlinkInv
<1>4. Value(counter) >= Value(<<m, prev>>) + ((lo - prev) % LoSize)
  <2>1. m \in Nat /\ NotAfter(<<m, prev>>, counter)
    BY <1>2, <1>3 DEF Since
  <2>2. prev \in 0 .. LoSize - 1 /\ TimerTypeOK
    BY DEF BlinkInv, TimerInv
  <2> QED BY <2>1, <2>2, DifferenceOfLow
<1>5. <<m, prev>> \in Times
  BY <1>3, PrevTime DEF BlinkInv, TimerInv
<1>6. Value(<<m, prev>>) \in Nat /\ Value(counter) \in Nat /\ (lo - prev) % LoSize \in Nat
  BY <1>2, <1>5, ValueType DEF BlinkInv
<1>7. ASSUME NEW i \in 1 .. blinks
      PROVE  Value(counter) >= Value(switched[i]) + ((blinks + 1) - i) * Period
  <2>1. PICK passed \in Nat : passed = (lo - prev) % LoSize
    BY <1>6
  <2>2. (blinks - i) * Period \in Nat /\ ((blinks + 1) - i) * Period = (blinks - i) * Period + Period
    BY <1>2, OneMore
  <2>3. PICK sum \in Nat : sum = (blinks - i) * Period
    BY <2>2
  <2>4. passed >= Period
    BY ONLY <1>1, <2>1, Zenon
  <2>5. Value(counter) >= Value(<<m, prev>>) + passed
    BY ONLY <1>4, <2>1, Zenon
  <2>6. Value(<<m, prev>>) >= Value(switched[i]) + (blinks - i) * Period
    BY <1>3 DEF Since
  <2>7. Value(<<m, prev>>) >= Value(switched[i]) + sum
    BY ONLY <2>3, <2>6
  <2>8. Value(switched[i]) \in Nat
    BY <1>2, BlinkTypes
  <2>9. Value(counter) >= Value(switched[i]) + (sum + Period)
    BY ONLY <1>2, <1>6, <2>1, <2>3, <2>4, <2>5, <2>7, <2>8, AddUp
  <2> QED BY ONLY <2>2, <2>3, <2>9
<1>8. Value(counter) >= Value(switched[blinks + 1]) + ((blinks + 1) - (blinks + 1)) * Period
  <2>1. switched[blinks + 1] \in Times /\ NotAfter(switched[blinks + 1], counter)
    BY <1>2, BlinkTypes DEF BlinkInv
  <2>2. Value(switched[blinks + 1]) <= Value(counter) /\ Value(switched[blinks + 1]) \in Nat
    BY <1>2, <2>1, ValueMonotone, ValueType
  <2>3. ((blinks + 1) - (blinks + 1)) * Period = 0
    BY <1>2
  <2> HIDE DEF Value
  <2> QED BY <1>6, <2>2, <2>3
<1>9. \A i \in 1 .. blinks + 1 :
        Value(counter) >= Value(switched[i]) + ((blinks + 1) - i) * Period
  <2>1. \A i \in 1 .. blinks + 1 : i \in 1 .. blinks \/ i = blinks + 1
    BY <1>2
  <2> QED BY ONLY <1>7, <1>8, <2>1, Zenon
<1>10. Since(hi)'
  <2>1. NotAfter(<<hi, lo>>, counter) /\ Value(<<hi, lo>>) = Value(counter)
    BY <1>2 DEF NotAfter, Value
  <2>2. \A i \in 1 .. blinks + 1 :
          Value(<<hi, lo>>) >= Value(switched[i]) + ((blinks + 1) - i) * Period
    BY <1>9, <2>1
  <2> QED BY <1>1, <1>2, <2>1, <2>2 DEF Since, Value, NotAfter
<1>11. BlinksSlowly'
  BY <1>1 DEF BlinkInv, BlinksSlowly, Value
<1> QED BY <1>1, <1>2, <1>10, <1>11 DEF BlinkInv, NotAfter

LEMMA BlinkNextInv == TimerInv /\ BlinkInv /\ [GpioNext]_gpioTimerVars => BlinkInv'
<1> SUFFICES ASSUME TimerInv, BlinkInv, [GpioNext]_gpioTimerVars PROVE BlinkInv'
  OBVIOUS
<1>1. CASE UNCHANGED gpioVars /\ UNCHANGED counter
  BY <1>1 DEF gpioVars, counter, BlinkInv, Since, Value, NotAfter, BlinksSlowly
<1>2. CASE UNCHANGED gpioVars /\ Tick
  BY <1>2, BlinkTick
<1>3. CASE AnyPins
  BY <1>3 DEF AnyPins, KeepTimer, counter, BlinkInv, LevelAny, LevelCall, SelectAny, UartPins,
              BlinksSlowly, Value, NotAfter
<1>4. CASE BlinkStart
  <2>1. prev' = lo /\ switched' = switched /\ stage' = "on" /\ blinks' = 0 /\ hi' = hi /\ lo' = lo
        /\ blinks = 0 /\ test' = test /\ test = "blink" /\ counter' = counter
    BY <1>4 DEF BlinkStart, KeepTimer, counter, BlinkInv
  <2>2. hi \in Nat /\ lo \in 0 .. LoSize - 1 /\ counter = <<hi, lo>> /\ Len(switched) = 0
    BY <1>4, <2>1, BlinkTypes DEF BlinkStart, BlinkInv
  <2>3. Since(hi)'
    BY <2>1, <2>2 DEF Since, NotAfter, Value, counter
  <2> QED BY <2>1, <2>2, <2>3 DEF BlinkInv, BlinksSlowly
<1>5. CASE Switch
  BY <1>5, BlinkSwitch
<1>6. CASE WaitHalf
  BY <1>6, BlinkWait
<1> QED
  BY <1>1, <1>2, <1>3, <1>4, <1>5, <1>6
  DEF GpioNext, TimerAlone, TickStep, Blink, ReadStep, WaitStep, CallWait, GotFirst, Poll,
      gpioTimerVars, timerVars

\* Of any halves of the blink that follow each other at most one period is missing, for
\* timers of every width and every delay between the steps, although only the low half of
\* the timer is looked at and it wraps.
THEOREM BlinksSlowlyAlways == GpioSpec => []BlinksSlowly
<1>1. BlinkInv => BlinksSlowly
  BY DEF BlinkInv
<1> QED BY GpioTimerInv, BlinkInitInv, BlinkNextInv, <1>1, PTL DEF GpioSpec

-----------------------------------------------------------------------------
(* The functions of the pins. *)

\* A field of three bits is found at its place only.
LEMMA FieldsApart ==
  ASSUME NEW p \in 0 .. 53, NEW q \in 0 .. 53, NEW b \in {0, 1, 2}, NEW d \in {0, 1, 2},
         p \div 10 = q \div 10, b + (p % 10) * 3 = d + (q % 10) * 3
  PROVE  p = q
BY SMT

LEMMA FuncSelectKeeps ==
  ASSUME NEW p \in 0 .. 53, NEW mode \in SUBSET {0, 1, 2}, NEW q \in 0 .. 53,
         gpfsel \in [0 .. 5 -> SUBSET (0 .. 31)], FuncSelect(p, mode),
         Function(gpfsel', q) # Function(gpfsel, q)
  PROVE  q = p
<1>1. p \div 10 \in 0 .. 5 /\ q \div 10 \in 0 .. 5
  OBVIOUS
<1>2. CASE q \div 10 # p \div 10
  BY <1>1, <1>2 DEF FuncSelect, Function
<1>3. CASE q \div 10 = p \div 10
  <2>1. PICK b \in GPIO_FSEL_MASK :
          (b + (q % 10) * 3 \in gpfsel'[q \div 10]) # (b + (q % 10) * 3 \in gpfsel[q \div 10])
    BY DEF Function
  <2>2. b + (q % 10) * 3 \in Shifted(GPIO_FSEL_MASK, (p % 10) * 3)
    BY <1>1, <1>3, <2>1 DEF FuncSelect, SetBits
  <2>3. PICK d \in GPIO_FSEL_MASK : b + (q % 10) * 3 = d + (p % 10) * 3
    BY <2>2 DEF Shifted
  <2> QED BY <1>3, <2>1, <2>3, FieldsApart DEF GPIO_FSEL_MASK
<1> QED BY <1>2, <1>3

Registers == gpfsel \in [0 .. 5 -> SUBSET (0 .. 31)]

LEMMA FieldsFit ==
  ASSUME NEW p \in 0 .. 53, NEW bits \in SUBSET {0, 1, 2}
  PROVE  Shifted(bits, (p % 10) * 3) \subseteq 0 .. 31
BY DEF Shifted

LEMMA FuncSelectFits ==
  ASSUME Registers, NEW p \in 0 .. 53, NEW mode \in SUBSET {0, 1, 2}, FuncSelect(p, mode)
  PROVE  Registers'
<1>1. p \div 10 \in 0 .. 5
  OBVIOUS
<1>2. Shifted(mode, (p % 10) * 3) \subseteq 0 .. 31
  BY FieldsFit
<1>3. SetBits(gpfsel[p \div 10], Shifted(GPIO_FSEL_MASK, (p % 10) * 3), Shifted(mode, (p % 10) * 3))
        \in SUBSET (0 .. 31)
  BY <1>1, <1>2 DEF SetBits, Registers
<1> QED BY <1>1, <1>3 DEF FuncSelect, Registers

LEMMA UartPinsKeeps ==
  ASSUME Registers, NEW width \in {8, 32}, UartPins(width)
  PROVE  /\ Registers'
         /\ \A q \in 0 .. 53 : Function(gpfsel', q) # Function(gpfsel, q) => q \in {14, 15}
<1> DEFINE bits == 0 .. width - 1
<1> DEFINE r == ((gpfsel[1] \cap bits) \ UartMask) \cup UartAlt0
<1> DEFINE word == (gpfsel[1] \ bits) \cup (r \cap bits)
<1>1. gpfsel' = [gpfsel EXCEPT ![1] = word]
  BY DEF UartPins
<1>2. word \in SUBSET (0 .. 31)
  BY DEF Registers, UartAlt0
<1>3. Registers'
  BY <1>1, <1>2 DEF Registers
<1>4. \A i \in (0 .. 31) \ UartMask : (i \in word) <=> (i \in gpfsel[1])
  BY DEF UartMask, UartAlt0
<1> HIDE DEF word
<1>5. ASSUME NEW q \in 0 .. 53, q \notin {14, 15} PROVE Function(gpfsel', q) = Function(gpfsel, q)
  <2>1. CASE q \div 10 # 1
    BY <1>1, <2>1 DEF Function, Registers
  <2>2. CASE q \div 10 = 1
    <3>1. ASSUME NEW b \in GPIO_FSEL_MASK PROVE b + (q % 10) * 3 \in (0 .. 31) \ UartMask
      BY <1>5, <2>2, <3>1 DEF GPIO_FSEL_MASK, UartMask
    <3>2. gpfsel'[q \div 10] = word
      BY <1>1, <2>2 DEF Registers
    <3> QED BY <1>4, <2>2, <3>1, <3>2 DEF Function
  <2> QED BY <2>1, <2>2
<1> QED BY <1>3, <1>5

LEMMA PinsNext ==
  ASSUME Registers, [GpioNext]_gpioTimerVars
  PROVE  /\ Registers'
         /\ \A q \in 0 .. 53 : Function(gpfsel', q) # Function(gpfsel, q) => q \in called'
<1>1. CASE UNCHANGED gpfsel
  BY <1>1 DEF Registers
<1>2. CASE \E p \in 0 .. 53, mode \in SUBSET {0, 1, 2} : FuncSelect(p, mode) /\ called' = {p}
  <2>1. PICK p \in 0 .. 53, mode \in SUBSET {0, 1, 2} : FuncSelect(p, mode) /\ called' = {p}
    BY <1>2
  <2> QED BY <2>1, FuncSelectFits, FuncSelectKeeps DEF Registers
<1>3. CASE \E width \in {8, 32} : UartPins(width)
  BY <1>3, UartPinsKeeps DEF UartPins
<1> QED
  <2>1. SelectAny => \E p \in 0 .. 53, mode \in SUBSET {0, 1, 2} : FuncSelect(p, mode) /\ called' = {p}
    BY GpioAssumption DEF SelectAny
  <2>2. BlinkStart => \E p \in 0 .. 53, mode \in SUBSET {0, 1, 2} : FuncSelect(p, mode) /\ called' = {p}
    BY GpioAssumption DEF BlinkStart, GPIO_FSEL_OUTP
  <2> QED
    BY <1>1, <1>2, <1>3, <2>1, <2>2
    DEF GpioNext, TimerAlone, TickStep, AnyPins, LevelAny, Blink, Switch, WaitHalf,
        gpioTimerVars, gpioVars

\* A call changes the function of the pins it is about and of no other, whichever pins
\* and functions are asked for, and for both widths of the UART's set-up.
THEOREM OtherPinsKeptAlways == GpioSpec => OtherPinsKept
<1>1. GpioInit => Registers
  BY DEF GpioInit, Registers
<1>2. Registers /\ [GpioNext]_gpioTimerVars => Registers'
  BY PinsNext
<1>3. Registers /\ [GpioNext]_gpioTimerVars
        => [\A p \in 0 .. 53 : Function(gpfsel', p) # Function(gpfsel, p) => p \in called']_gpioTimerVars
  BY PinsNext
<1> QED BY <1>1, <1>2, <1>3, PTL DEF GpioSpec, OtherPinsKept
=============================================================================
