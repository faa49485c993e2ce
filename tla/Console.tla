------------------------------ MODULE Console ------------------------------
(***************************************************************************)
(* The serial console: uart_init, the calls to the firmware over the       *)
(* mailbox (mbox_call), uart_puts, uart_hex, uart_getc and uart_send, run  *)
(* by main of test-multiboot, against the firmware, the registers of the   *)
(* UART and a terminal at the other end of the line.                       *)
(*                                                                         *)
(* Characters are their codes.  The text that main prints before the       *)
(* number is one character long.  A word that uart_hex prints has Digits   *)
(* digits.  asked, printed and accepted only record what was asked for;    *)
(* asked has every character that is to be sent.                           *)
(***************************************************************************)
EXTENDS Integers, Sequences, SequencesExt

CONSTANTS
  MailDepth,   \* messages the mailbox holds on their way to the firmware
  MaxForeign,  \* messages of the firmware that are not for mbox_call (bound)
  TxDepth,     \* characters the transmitter holds
  RxDepth,     \* and the receiver: one, because LCRH leaves the FIFOs off
  Digits,      \* of uart_hex (8)
  SerialLow, SerialHigh,  \* the number of the board
  Keys,        \* what is typed at the terminal
  MaxTyped     \* how often (bound)

CR == 13
NL == 10
Garbled == -1      \* what arrives of a character sent at another rate
Prompt == <<77>>   \* "My serial number is: "
Failed == <<85, NL>>

Word == 0 .. 16 ^ Digits - 1

ASSUME ConsoleAssumption ==
  /\ {MailDepth, TxDepth, RxDepth, Digits} \subseteq Nat \ {0}
  /\ MaxForeign \in Nat /\ MaxTyped \in Nat
  /\ Keys \subseteq 0 .. 127 /\ SerialLow \in Word /\ SerialHigh \in Word

\* What the provers do not know of powers.
ASSUME PowersAssumption == \A n \in 0 .. Digits : 16 ^ n \in Nat \ {0}

VARIABLES
  (* main and the functions it calls *)
  pc, caller,  \* caller: where mbox_call returns to
  result,      \* of mbox_call
  todo, sent_cr, next,  \* uart_puts and uart_hex: what is left to send, and then
  char,        \* the character to echo
  (* the message buffer, and the mailbox *)
  mbox, inbox, replies, foreign,
  (* the UART and the terminal *)
  uart_on, rate, tx, rx, received, typed,
  (* history *)
  asked, printed, accepted

program == <<pc, caller, result, todo, sent_cr, next, char>>
mail == <<mbox, inbox, replies, foreign>>
line == <<uart_on, rate, tx, rx, received, typed>>
history == <<asked, printed, accepted>>
vars == <<program, mail, line, history>>

Labels == {"start", "uart_init", "main", "serial", "high", "low", "newline", "echo"}
HexCodes == 48 .. 57 \cup 65 .. 70
Codes == HexCodes \cup Keys \cup {CR, NL, 77, 85}

TypeOK ==
  /\ pc \in Labels \cup {"full", "reply", "send", "send_echo"}
  /\ caller \in Labels /\ next \in Labels /\ result \in BOOLEAN
  /\ todo \in Seq(Codes) /\ sent_cr \in BOOLEAN /\ char \in Codes
  /\ mbox \in [code : {"request", "response", "error"}, tag : {"clock", "serial"},
               low : Word, high : Word]
  /\ inbox \in Seq({"ours"}) /\ Len(inbox) <= MailDepth
  /\ replies \in Seq({"ours", "foreign"}) /\ foreign \in 0 .. MaxForeign
  /\ uart_on \in BOOLEAN /\ rate \in BOOLEAN
  /\ tx \in Seq(Codes) /\ Len(tx) <= TxDepth
  /\ rx \in Seq(Keys) /\ Len(rx) <= RxDepth
  /\ received \in Seq(Codes \cup {Garbled}) /\ typed \in 0 .. MaxTyped
  /\ asked \in Seq(Codes) /\ printed \in Seq(Word) /\ accepted \in Seq(Keys)

Request(tag) == [code |-> "request", tag |-> tag, low |-> 0, high |-> 0]

Init ==
  /\ pc = "start" /\ caller = "start" /\ result = FALSE
  /\ todo = <<>> /\ sent_cr = FALSE /\ next = "start" /\ char = NL
  /\ mbox = Request("clock") /\ inbox = <<>> /\ replies = <<>> /\ foreign = 0
  /\ uart_on = FALSE /\ rate = FALSE
  /\ tx = <<>> /\ rx = <<>> /\ received = <<>> /\ typed = 0
  /\ asked = <<>> /\ printed = <<>> /\ accepted = <<>>

-----------------------------------------------------------------------------
(* mbox_call. *)

Call(tag, label) ==
  /\ mbox' = Request(tag) /\ pc' = "full" /\ caller' = label
  /\ UNCHANGED <<result, todo, sent_cr, next, char, inbox, replies, foreign, history>>

\* The message goes when the mailbox is not full.
MboxWrite ==
  /\ pc = "full" /\ Len(inbox) < MailDepth
  /\ inbox' = Append(inbox, "ours") /\ pc' = "reply"
  /\ UNCHANGED <<caller, result, todo, sent_cr, next, char, mbox, replies, foreign, line, history>>

\* Mutants: any message is taken for the answer; the code of the answer is not looked at.
IsAnswerAny(message) == TRUE
SucceededAlways == TRUE

IsAnswer(message) == message = "ours"
Succeeded == mbox.code = "response"

\* Mutant: a message that is not the answer stays where it is.
MboxReadPeek ==
  /\ pc = "reply" /\ replies # <<>> /\ IsAnswer(Head(replies))
  /\ replies' = Tail(replies) /\ pc' = caller /\ result' = Succeeded
  /\ UNCHANGED <<caller, todo, sent_cr, next, char, mbox, inbox, foreign, line, history>>

\* Messages are read until the answer comes; the others are dropped.
MboxRead ==
  /\ pc = "reply" /\ replies # <<>>
  /\ replies' = Tail(replies)
  /\ IF IsAnswer(Head(replies)) THEN pc' = caller /\ result' = Succeeded
     ELSE UNCHANGED <<pc, result>>
  /\ UNCHANGED <<caller, todo, sent_cr, next, char, mbox, inbox, foreign, line, history>>

-----------------------------------------------------------------------------
(* uart_puts, uart_hex, uart_send. *)

\* Writing a character to a full transmitter loses it.
WriteDr(c) == tx' = IF Len(tx) < TxDepth THEN Append(tx, c) ELSE tx

\* Mutant: no waiting.
MaySendAtOnce == TRUE

\* uart_send waits while the transmitter is full.
MaySend == Len(tx) < TxDepth

\* What uart_puts sends of a text whose only newline, if it has one, is at its end.
OnWire(s) == IF s # <<>> /\ Last(s) = NL THEN Front(s) \o <<CR, NL>> ELSE s

\* uart_puts(s) or the digits of uart_hex, and on to label.
Puts(s, label) ==
  /\ todo' = s /\ sent_cr' = FALSE /\ next' = label /\ pc' = "send"
  /\ asked' = asked \o OnWire(s)
  /\ UNCHANGED <<caller, result, char, mail, line, accepted>>

SendStep ==
  /\ pc = "send"
  /\ \/ /\ todo = <<>> /\ pc' = next
        /\ UNCHANGED <<todo, sent_cr, tx>>
     \/ /\ todo # <<>> /\ MaySend
        /\ IF Head(todo) = NL /\ ~sent_cr
             THEN WriteDr(CR) /\ sent_cr' = TRUE /\ UNCHANGED todo
             ELSE WriteDr(Head(todo)) /\ sent_cr' = FALSE /\ todo' = Tail(todo)
        /\ UNCHANGED pc
  /\ UNCHANGED <<caller, result, next, char, mail, uart_on, rate, rx, received, typed, history>>

DigitCode(n) == n + (IF n > 9 THEN 55 ELSE 48)

\* The digits of d, the highest first.
Hex(d) == [k \in 1 .. Digits |-> DigitCode((d \div 16 ^ (Digits - k)) % 16)]

-----------------------------------------------------------------------------
(* uart_init, main. *)

StartUart ==
  /\ pc = "start" /\ uart_on' = FALSE /\ Call("clock", "uart_init")
  /\ UNCHANGED <<rate, tx, rx, received, typed>>

\* Whether the clock could be set is not looked at.
EnableUart ==
  /\ pc = "uart_init" /\ uart_on' = TRUE /\ pc' = "main"
  /\ UNCHANGED <<caller, result, todo, sent_cr, next, char, mail, rate, tx, rx, received, typed,
                 history>>

AskSerial == pc = "main" /\ Call("serial", "serial") /\ UNCHANGED line

ReportSerial ==
  /\ pc = "serial" /\ UNCHANGED printed
  /\ \/ result /\ Puts(Prompt, "high")
     \/ ~result /\ Puts(Failed, "echo")

\* The words of the buffer are read when their turn comes.
PrintHigh == pc = "high" /\ Puts(Hex(mbox.high), "low") /\ printed' = Append(printed, mbox.high)
PrintLow == pc = "low" /\ Puts(Hex(mbox.low), "newline") /\ printed' = Append(printed, mbox.low)
PrintNewline == pc = "newline" /\ Puts(<<NL>>, "echo") /\ UNCHANGED printed

\* uart_getc: carriage return becomes newline.
Converted(c) == IF c = CR THEN NL ELSE c

GetChar ==
  /\ pc = "echo" /\ rx # <<>>
  /\ char' = Converted(Head(rx)) /\ rx' = Tail(rx) /\ pc' = "send_echo"
  /\ asked' = Append(asked, Converted(Head(rx)))
  /\ UNCHANGED <<caller, result, todo, sent_cr, next, mail, uart_on, rate, tx, received, typed,
                 printed, accepted>>

EchoChar ==
  /\ pc = "send_echo" /\ MaySend /\ WriteDr(char) /\ pc' = "echo"
  /\ UNCHANGED <<caller, result, todo, sent_cr, next, char, mail, uart_on, rate, rx, received, typed,
                 history>>

-----------------------------------------------------------------------------
(* The firmware, the line and the terminal. *)

\* The firmware acts on what the buffer holds now.
Firmware ==
  /\ inbox # <<>> /\ inbox' = Tail(inbox) /\ replies' = Append(replies, "ours")
  /\ \/ /\ mbox' = IF mbox.tag = "serial"
                     THEN [code |-> "response", tag |-> "serial", low |-> SerialLow, high |-> SerialHigh]
                     ELSE [mbox EXCEPT !.code = "response"]
        /\ rate' = (rate \/ mbox.tag = "clock")
     \/ mbox' = [mbox EXCEPT !.code = "error"] /\ UNCHANGED rate
  /\ UNCHANGED <<program, foreign, uart_on, tx, rx, received, typed, history>>

ForeignMessage ==
  /\ foreign < MaxForeign /\ foreign' = foreign + 1
  /\ replies' = Append(replies, "foreign")
  /\ UNCHANGED <<program, mbox, inbox, line, history>>

Transmit ==
  /\ tx # <<>> /\ uart_on
  /\ received' = Append(received, IF rate THEN Head(tx) ELSE Garbled)
  /\ tx' = Tail(tx)
  /\ UNCHANGED <<program, mail, uart_on, rate, rx, typed, history>>

\* A character that comes before the last one was read is lost.
Type ==
  /\ typed < MaxTyped /\ typed' = typed + 1 /\ uart_on
  /\ \E k \in Keys :
       IF Len(rx) < RxDepth THEN rx' = Append(rx, k) /\ accepted' = Append(accepted, k)
       ELSE UNCHANGED <<rx, accepted>>
  /\ UNCHANGED <<program, mail, uart_on, rate, tx, received, asked, printed>>

Program ==
  \/ StartUart \/ MboxWrite \/ MboxRead \/ EnableUart \/ AskSerial \/ ReportSerial
  \/ PrintHigh \/ PrintLow \/ PrintNewline \/ SendStep \/ GetChar \/ EchoChar

Next == Program \/ Firmware \/ ForeignMessage \/ Transmit \/ Type

Spec == Init /\ [][Next]_vars

\* The program runs alone on its core; the firmware answers, and the line goes on.
FairSpec == Spec /\ WF_vars(Program) /\ WF_vars(Firmware) /\ WF_vars(Transmit)

-----------------------------------------------------------------------------
(* Properties. *)

\* The buffer is only filled again when the firmware is done with it: all messages
\* share one buffer, and an answer to the one before may not be mistaken for the next.
BufferIsFree ==
  [][mbox' # mbox /\ mbox'.code = "request" =>
       inbox = <<>> /\ \A k \in DOMAIN replies : replies[k] # "ours"]_vars

\* What main prints as the board's number is its number, the high word first.
PrintsItsSerial == IsPrefix(printed, <<SerialHigh, SerialLow>>)

\* At the right rate the terminal gets what was asked for, in order and with nothing
\* left out, whatever the speed of the line.
TextInOrder == rate => IsPrefix(received \o tx, asked)

\* The program gets through its messages to the loop that echoes, and there every
\* character that the receiver took is sent back in the end.
Echo(s) == [k \in DOMAIN s |-> Converted(s[k])]
EverythingArrives ==
  <>[](/\ pc = "echo" /\ Len(received) = Len(asked)
       /\ rate => IsSuffix(Echo(accepted), received))
=============================================================================
