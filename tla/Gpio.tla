-------------------------------- MODULE Gpio --------------------------------
(***************************************************************************)
(* The pins: the functions of GPIO.c, the pin set-up that uart_init does   *)
(* in two ways (through unsigned int * in uart_and_sd, through char * in   *)
(* Screen), and gpio_test_main, which blinks.  A test is                   *)
(* chosen at the start; "pins" is any sequence of calls.                   *)
(*                                                                         *)
(* A register is the set of its bits.  The addresses of GPIO.h are         *)
(* integers, so that GPSET0 + pin / 32 is one byte further for the pins    *)
(* from 32 on: an access that is not aligned, which the core refuses.      *)
(***************************************************************************)
EXTENDS SystemTimer, FiniteSets, Sequences

CONSTANTS
  Pins,     \* pins that are used (of 0 .. 53)
  Modes,    \* functions that pins are given (sets of bits)
  Led,      \* the pin that blinks (29)
  Blinks,   \* how often (200)
  Period    \* ticks of each half of a blink (1000000)

ASSUME GpioAssumption ==
  /\ Pins \subseteq 0 .. 53 /\ Led \in Pins /\ Led < 32 /\ Modes \subseteq SUBSET {0, 1, 2}
  /\ Blinks \in Nat \ {0} /\ Period \in 1 .. LoSize - 1

VARIABLES
  test,          \* which test runs
  stage,         \* where it is
  called,        \* the pins of the last call that sets functions
  gpfsel,        \* GPFSEL0 .. GPFSEL5
  high,          \* the output pins that are driven high
  prev, blinks,  \* the time a half began by; half blinks that are over
  switched       \* the times at which the light was switched

gpioVars == <<test, stage, called, gpfsel, high, prev, blinks, switched>>
gpioTimerVars == <<timerVars, gpioVars>>

GpioTypeOK ==
  /\ TimerTypeOK
  /\ test \in {"timer", "pins", "blink"}
  /\ stage \in {"start", "on", "off", "wait_on", "wait_off", "delay", "end", "fault"}
  /\ called \subseteq 0 .. 53 /\ gpfsel \in [0 .. 5 -> SUBSET (0 .. 31)]
  /\ high \subseteq Pins /\ prev \in 0 .. LoSize - 1
  /\ blinks \in 0 .. 2 * Blinks /\ switched \in Seq(Times)

GpioInit ==
  /\ TimerInit
  /\ test \in {"timer", "pins", "blink"} /\ stage = "start" /\ called = {}
  /\ gpfsel = [r \in 0 .. 5 |-> {}] /\ high = {}
  /\ prev = 0 /\ blinks = 0 /\ switched = <<>>
  /\ test = "pins" => counter = <<0, 0>>

KeepTimer == UNCHANGED <<readVars, waitVars, counter>>

-----------------------------------------------------------------------------
(* GPIO.c. *)

GPIO_FSEL_MASK == {0, 1, 2}
GPIO_FSEL_OUTP == {0}
GPIO_FSEL_ALT0 == {2}

Shifted(bits, n_) == {b + n_ : b \in bits}

\* gpio_set_bits(paddr, mask, value)
SetBits(word, mask, value) == (word \ mask) \cup (value \cap mask)

Function(regs, p) == {b \in GPIO_FSEL_MASK : b + (p % 10) * 3 \in regs[p \div 10]}

\* Mutant: a field is taken to have four bits.
FuncSelectWide(p, mode) ==
  gpfsel' = [gpfsel EXCEPT ![p \div 10] =
               SetBits(@, Shifted(GPIO_FSEL_MASK, (p % 10) * 4), Shifted(mode, (p % 10) * 4))]

\* gpio_func_select(p, mode)
FuncSelect(p, mode) ==
  gpfsel' = [gpfsel EXCEPT ![p \div 10] =
               SetBits(@, Shifted(GPIO_FSEL_MASK, (p % 10) * 3), Shifted(mode, (p % 10) * 3))]

Aligned(p) == p < 32

\* gpio_set, gpio_clr and gpio_read_level reach their register, or the core faults.
LevelCall(p, now, next) ==
  IF Aligned(p) THEN high' = now /\ stage' = next ELSE stage' = "fault" /\ UNCHANGED high

-----------------------------------------------------------------------------
(* Any calls, and the pins of the UART. *)

SelectAny ==
  /\ \E p \in Pins, mode \in Modes : FuncSelect(p, mode) /\ called' = {p}
  /\ UNCHANGED <<stage, high>>

LevelAny ==
  /\ \E p \in Pins : \E now \in {high \cup {p}, high \ {p}, high} : LevelCall(p, now, "start")
  /\ UNCHANGED <<gpfsel, called>>

UartMask == {12, 13, 14, 15, 16, 17}
UartAlt0 == {14, 17}

\* r = *GPFSEL1, and *GPFSEL1 = r, of a word; of a byte, through char *.
UartPins(width) ==
  LET bits == 0 .. width - 1
      r == ((gpfsel[1] \cap bits) \ UartMask) \cup UartAlt0
  IN /\ gpfsel' = [gpfsel EXCEPT ![1] = (@ \ bits) \cup (r \cap bits)]
     /\ called' = {14, 15}
     /\ UNCHANGED <<stage, high>>

AnyPins ==
  /\ test = "pins" /\ stage = "start"
  /\ SelectAny \/ LevelAny \/ UartPins(32) \/ UartPins(8)
  /\ UNCHANGED <<test, prev, blinks, switched>> /\ KeepTimer

-----------------------------------------------------------------------------
(* gpio_test_main. *)

\* curr_time - prev_time >= count, of the low half alone and modulo 2^32; gpio_delay
\* has the same loop.
IsOver(p) == (lo - p) % LoSize >= Period

\* Mutant: a half begins when the one before was due, so that a delay is caught up with.
DueTime == (prev + Period) % LoSize

\* A half begins by the time read at the end of the one before.
NextPrev == lo

BlinkStart ==
  /\ test = "blink" /\ stage = "start"
  /\ FuncSelect(Led, GPIO_FSEL_OUTP) /\ called' = {Led}
  /\ prev' = lo /\ stage' = "on"
  /\ UNCHANGED <<test, high, blinks, switched>> /\ KeepTimer

\* gpio_set(led) and gpio_clr(led)
Switch ==
  /\ test = "blink"
  /\ \/ stage = "on" /\ LevelCall(Led, high \cup {Led}, "wait_on")
     \/ stage = "off" /\ LevelCall(Led, high \ {Led}, "wait_off")
  /\ switched' = Append(switched, counter)
  /\ UNCHANGED <<test, called, gpfsel, prev, blinks>> /\ KeepTimer

\* The loop over the timer: the difference is taken modulo 2^32.
WaitHalf ==
  /\ test = "blink" /\ stage \in {"wait_on", "wait_off"}
  /\ IsOver(prev)
  /\ prev' = NextPrev /\ blinks' = blinks + 1
  /\ stage' = IF stage = "wait_on" THEN "off" ELSE IF blinks' = 2 * Blinks THEN "end" ELSE "on"
  /\ UNCHANGED <<test, called, gpfsel, high, switched>> /\ KeepTimer

Blink == BlinkStart \/ Switch \/ WaitHalf

-----------------------------------------------------------------------------
TimerAlone == test = "timer" /\ (ReadStep \/ WaitStep) /\ UNCHANGED gpioVars
TickStep == test # "pins" /\ Tick /\ UNCHANGED gpioVars

GpioNext == TimerAlone \/ TickStep \/ AnyPins \/ Blink

GpioSpec == GpioInit /\ [][GpioNext]_gpioTimerVars

-----------------------------------------------------------------------------
(* Properties. *)

\* A call changes the function of the pins it is about and of no other, although
\* ten pins share a register that is read, changed and written back.
OtherPinsKept ==
  [][\A p \in 0 .. 53 : Function(gpfsel', p) # Function(gpfsel, p) => p \in called']_gpioTimerVars

\* However long the program is kept, between whichever of its steps, and although the timer
\* wraps: of any halves that follow each other at most one period is missing.  (A half may
\* itself be cut short, down to nothing, by a delay between the read of the timer that it
\* is counted from and the switch that begins it.)  A delay is never caught up with by a
\* row of short halves.
BlinksSlowly ==
  \A j \in DOMAIN switched : \A m \in 1 .. j - 1 :
    Value(switched[j]) - Value(switched[m]) >= (j - m - 1) * Period
=============================================================================
