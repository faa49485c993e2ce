------------------------------ MODULE MCBoard ------------------------------
(***************************************************************************)
(* The bring-up programs of the board, of which one runs at a time: the    *)
(* serial number program (Console), the programs of the pins and of the    *)
(* system timer (Gpio), a client of the screen (Screen).                   *)
(***************************************************************************)
EXTENDS Console, Gpio, Screen

VARIABLE running

allVars == <<vars, gpioTimerVars, screenVars, running>>

LetterAndEnter == {97, CR}

FrameBuffers ==
  {[bus |-> b + 16, width |-> w, height |-> k, pitch |-> 4 * w + 8] :
     b \in {0, BusBit}, w \in {17, 18, 26}, k \in {4, 5}}

\* An empty glyph, and two that differ.
Font ==
  0 :> [i \in 0 .. 1 |-> {}] @@ 1 :> [i \in 0 .. 1 |-> {i, 7}] @@ 2 :> [i \in 0 .. 1 |-> {2, 3 + i}]

BoardInit ==
  /\ Init /\ GpioInit /\ ScreenInit
  /\ running \in {"console", "gpio", "screen"}
  /\ running # "gpio" => test = "pins"

RunsConsole(A) == running = "console" /\ A /\ UNCHANGED <<gpioTimerVars, screenVars, running>>

BoardNext ==
  \/ RunsConsole(Next)
  \/ running = "gpio" /\ GpioNext /\ UNCHANGED <<vars, screenVars, running>>
  \/ running = "screen" /\ ScreenNext /\ UNCHANGED <<vars, gpioTimerVars, running>>

\* The fairness of Console.
BoardSpec ==
  /\ BoardInit /\ [][BoardNext]_allVars
  /\ WF_allVars(RunsConsole(Program)) /\ WF_allVars(RunsConsole(Firmware))
  /\ WF_allVars(RunsConsole(Transmit))

\* EverythingArrives of Console, where it runs.
ConsoleArrives == running = "console" => EverythingArrives
=============================================================================
