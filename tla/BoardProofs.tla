---------------------------- MODULE BoardProofs ----------------------------
(***************************************************************************)
(* Proofs about the serial number program and the screen.                  *)
(*                                                                         *)
(* Console: the text arrives in order, the buffer of the mailbox is free   *)
(* when it is filled, and the number that is printed is the number of the  *)
(* board.  The invariant has four parts.  Types is the type of what the    *)
(* others speak of.  Mail: mbox_call has one message in the mailbox, on    *)
(* its way there or back, and no other answer is left behind.  Numbers:    *)
(* what is printed by the time the program gets to where it is going       *)
(* (Goal), and that the buffer holds what is still to be printed.  Text:   *)
(* what the terminal has, what is in the transmitter and what uart_puts    *)
(* still has to send (Pending) make up what was asked for.                 *)
(*                                                                         *)
(* Screen: a text that fits is on the screen.  The cursor is where the     *)
(* text before it says (Cursor), the pixels of all cells have addresses of *)
(* their own (SpotsApart), and a character hides only what was in its      *)
(* cell (DrawnShown).                                                      *)
(***************************************************************************)
EXTENDS Console, Screen, SequenceTheorems, FiniteSetTheorems, TLAPS


Messages == [code : {"request", "response", "error"}, tag : {"clock", "serial"},
             low : Word, high : Word]

LEMMA Sizes ==
  /\ MailDepth \in Nat \ {0} /\ TxDepth \in Nat \ {0} /\ RxDepth \in Nat \ {0}
  /\ Digits \in Nat \ {0} /\ MaxForeign \in Nat /\ MaxTyped \in Nat
  /\ SerialLow \in Word /\ SerialHigh \in Word /\ 0 \in Word
<1>1. Digits \in Nat \ {0}
  BY ConsoleAssumption
<1>2. 16 ^ Digits \in Nat \ {0}
  BY <1>1, PowersAssumption
<1>3. 0 \in Word
  BY <1>2 DEF Word
<1> QED BY <1>1, <1>3, ConsoleAssumption

\* The digits of uart_hex are characters, and none is a newline.
LEMMA HexDigits ==
  ASSUME NEW d \in Word
  PROVE  Hex(d) \in Seq(Codes) /\ \A k \in DOMAIN Hex(d) : Hex(d)[k] # NL
<1>1. \A n \in 0 .. 15 : DigitCode(n) \in HexCodes
  BY DEF DigitCode, HexCodes
<1>2. ASSUME NEW k \in 1 .. Digits
      PROVE  (d \div 16 ^ (Digits - k)) % 16 \in 0 .. 15
  <2>1. Digits \in Nat /\ Digits - k \in 0 .. Digits
    BY Sizes
  <2>2. 16 ^ (Digits - k) \in Nat \ {0}
    BY <2>1, PowersAssumption
  <2>3. d \in Nat
    <3>1. 16 ^ Digits \in Nat \ {0}
      BY Sizes, PowersAssumption
    <3> QED BY <3>1 DEF Word
  <2>4. d \div 16 ^ (Digits - k) \in Nat
    BY <2>2, <2>3
  <2> QED BY <2>4
<1>3. ASSUME NEW k \in 1 .. Digits
      PROVE  DigitCode((d \div 16 ^ (Digits - k)) % 16) \in HexCodes
  BY <1>1, <1>2
<1>4. HexCodes \subseteq Codes /\ NL \notin HexCodes
  BY DEF HexCodes, Codes, NL
<1>5. Hex(d) \in [1 .. Digits -> HexCodes]
  BY <1>3 DEF Hex
<1>6. Hex(d) \in Seq(HexCodes)
  BY <1>5, Sizes, IsASeq
<1> QED BY <1>4, <1>5, <1>6

LEMMA SimpleCodes == {CR, NL, 77, 85} \subseteq Codes /\ \A k \in Keys : k \in Codes /\ Converted(k) \in Codes
BY DEF Codes, Converted, CR, NL

\* What the terminal gets of a text.
LEMMA WireTyped == \A s \in Seq(Codes) : OnWire(s) \in Seq(Codes)
<1> SUFFICES ASSUME NEW s \in Seq(Codes) PROVE OnWire(s) \in Seq(Codes)
  OBVIOUS
<1>1. <<CR, NL>> \in Seq(Codes)
  BY SimpleCodes
<1>2. CASE s # <<>> /\ Last(s) = NL
  <2>1. Front(s) \in Seq(Codes)
    BY <1>2 DEF Front
  <2> QED BY <1>1, <1>2, <2>1, ConcatProperties DEF OnWire
<1>3. CASE ~(s # <<>> /\ Last(s) = NL)
  BY <1>3, Zenon DEF OnWire
<1> QED BY <1>2, <1>3

\* The answers of the firmware.
LEMMA AnswerTyped ==
  ASSUME NEW m \in Messages, NEW c \in {"response", "error"}
  PROVE  /\ [m EXCEPT !.code = c] \in Messages
         /\ [m EXCEPT !.code = c].code = c
         /\ [m EXCEPT !.code = c].tag = m.tag
BY DEF Messages

LEMMA SerialTyped ==
  [code |-> "response", tag |-> "serial", low |-> SerialLow, high |-> SerialHigh] \in Messages
BY Sizes DEF Messages

LEMMA RequestTyped == \A t \in {"clock", "serial"} : Request(t) \in Messages
BY Sizes DEF Request, Messages

-----------------------------------------------------------------------------
(* Types. *)

Types ==
  /\ pc \in Labels \cup {"full", "reply", "send", "send_echo"}
  /\ caller \in Labels /\ next \in Labels /\ todo \in Seq(Codes) /\ char \in Codes
  /\ mbox \in Messages /\ inbox \in Seq({"ours"}) /\ replies \in Seq({"ours", "foreign"})
  /\ tx \in Seq(Codes) /\ rx \in Seq(Keys) /\ received \in Seq(Codes \cup {Garbled})
  /\ asked \in Seq(Codes) /\ printed \in Seq(Word)

LEMMA PutsTypes ==
  ASSUME Types, NEW s \in Seq(Codes), NEW label \in Labels, Puts(s, label),
         printed' \in Seq(Word)
  PROVE  Types'
<1>1. /\ todo' = s /\ next' = label /\ pc' = "send" /\ asked' = asked \o OnWire(s)
      /\ UNCHANGED <<caller, char, mbox, inbox, replies, tx, rx, received>>
  BY DEF Puts, mail, line
<1>2. asked' \in Seq(Codes)
  BY <1>1, WireTyped, ConcatProperties DEF Types
<1> QED BY <1>1, <1>2 DEF Types

LEMMA WriteDrTypes ==
  ASSUME tx \in Seq(Codes), NEW c \in Codes, WriteDr(c)
  PROVE  tx' \in Seq(Codes)
<1>1. tx' = Append(tx, c) \/ tx' = tx
  BY DEF WriteDr
<1> QED BY <1>1

LEMMA TypesStep == Types /\ [Next]_vars => Types'
<1> SUFFICES ASSUME Types, [Next]_vars PROVE Types'
  OBVIOUS
<1>1. CASE StartUart
  <2>1. /\ mbox' = Request("clock") /\ pc' = "full" /\ caller' = "uart_init"
        /\ UNCHANGED <<todo, next, char, inbox, replies, tx, rx, received, asked, printed>>
    BY <1>1 DEF StartUart, Call, history
  <2> QED BY <2>1, RequestTyped DEF Types, Labels
<1>2. CASE MboxWrite
  <2>1. /\ inbox' = Append(inbox, "ours") /\ pc' = "reply"
        /\ UNCHANGED <<caller, todo, next, char, mbox, replies, tx, rx, received, asked, printed>>
    BY <1>2 DEF MboxWrite, line, history
  <2> QED BY <2>1 DEF Types
<1>3. CASE MboxRead
  <2>1. /\ replies # <<>> /\ replies' = Tail(replies) /\ (pc' = caller \/ pc' = pc)
        /\ UNCHANGED <<caller, todo, next, char, mbox, inbox, tx, rx, received, asked, printed>>
    BY <1>3 DEF MboxRead, line, history
  <2> QED BY <2>1 DEF Types
<1>4. CASE EnableUart
  <2>1. /\ pc' = "main"
        /\ UNCHANGED <<caller, todo, next, char, mbox, inbox, replies, tx, rx, received, asked, printed>>
    BY <1>4 DEF EnableUart, mail, history
  <2> QED BY <2>1 DEF Types, Labels
<1>5. CASE AskSerial
  <2>1. /\ mbox' = Request("serial") /\ pc' = "full" /\ caller' = "serial"
        /\ UNCHANGED <<todo, next, char, inbox, replies, tx, rx, received, asked, printed>>
    BY <1>5 DEF AskSerial, Call, history, line
  <2> QED BY <2>1, RequestTyped DEF Types, Labels
<1>6. CASE ReportSerial
  <2>1. Prompt \in Seq(Codes) /\ Failed \in Seq(Codes) /\ "high" \in Labels /\ "echo" \in Labels
    BY SimpleCodes DEF Prompt, Failed, Labels
  <2>2. printed' \in Seq(Word)
    BY <1>6 DEF ReportSerial, Types
  <2> QED BY <1>6, <2>1, <2>2, PutsTypes DEF ReportSerial
<1>7. CASE PrintHigh
  <2>1. mbox.high \in Word /\ "low" \in Labels
    BY DEF Types, Messages, Labels
  <2>2. printed' \in Seq(Word) /\ Hex(mbox.high) \in Seq(Codes)
    BY <1>7, <2>1, HexDigits DEF PrintHigh, Types
  <2> QED BY <1>7, <2>1, <2>2, PutsTypes DEF PrintHigh
<1>8. CASE PrintLow
  <2>1. mbox.low \in Word /\ "newline" \in Labels
    BY DEF Types, Messages, Labels
  <2>2. printed' \in Seq(Word) /\ Hex(mbox.low) \in Seq(Codes)
    BY <1>8, <2>1, HexDigits DEF PrintLow, Types
  <2> QED BY <1>8, <2>1, <2>2, PutsTypes DEF PrintLow
<1>9. CASE PrintNewline
  <2>1. <<NL>> \in Seq(Codes) /\ "echo" \in Labels /\ printed' \in Seq(Word)
    BY <1>9, SimpleCodes DEF PrintNewline, Types, Labels
  <2> QED BY <1>9, <2>1, PutsTypes DEF PrintNewline
<1>10. CASE SendStep
  <2>1. UNCHANGED <<caller, next, char, mbox, inbox, replies, rx, received, asked, printed>>
    BY <1>10 DEF SendStep, mail, history
  <2>2. CASE todo = <<>> /\ pc' = next /\ UNCHANGED <<todo, sent_cr, tx>>
    BY <2>1, <2>2 DEF Types
  <2>3. CASE todo # <<>> /\ UNCHANGED pc
             /\ IF Head(todo) = NL /\ ~sent_cr
                  THEN WriteDr(CR) /\ sent_cr' = TRUE /\ UNCHANGED todo
                  ELSE WriteDr(Head(todo)) /\ sent_cr' = FALSE /\ todo' = Tail(todo)
    <3>1. Head(todo) \in Codes /\ Tail(todo) \in Seq(Codes) /\ CR \in Codes
      BY <2>3, SimpleCodes DEF Types
    <3>2. tx' \in Seq(Codes)
      BY <2>3, <3>1, WriteDrTypes DEF Types
    <3>3. todo' \in Seq(Codes)
      BY <2>3, <3>1 DEF Types
    <3> QED BY <2>1, <2>3, <3>2, <3>3 DEF Types
  <2> QED BY <1>10, <2>2, <2>3 DEF SendStep
<1>11. CASE GetChar
  <2>1. /\ rx # <<>> /\ char' = Converted(Head(rx)) /\ rx' = Tail(rx) /\ pc' = "send_echo"
        /\ asked' = Append(asked, Converted(Head(rx)))
        /\ UNCHANGED <<caller, todo, next, mbox, inbox, replies, tx, received, printed>>
    BY <1>11 DEF GetChar, mail
  <2>2. Head(rx) \in Keys /\ Tail(rx) \in Seq(Keys)
    BY <2>1 DEF Types
  <2>3. Converted(Head(rx)) \in Codes
    BY <2>2, SimpleCodes
  <2>4. asked' \in Seq(Codes)
    BY <2>1, <2>3, AppendProperties DEF Types
  <2> QED BY <2>1, <2>2, <2>3, <2>4 DEF Types
<1>12. CASE EchoChar
  <2>1. /\ WriteDr(char) /\ pc' = "echo"
        /\ UNCHANGED <<caller, todo, next, char, mbox, inbox, replies, rx, received, asked, printed>>
    BY <1>12 DEF EchoChar, mail, history
  <2>2. tx' \in Seq(Codes)
    BY <2>1, WriteDrTypes DEF Types
  <2> QED BY <2>1, <2>2 DEF Types, Labels
<1>13. CASE Firmware
  <2>1. /\ inbox # <<>> /\ inbox' = Tail(inbox) /\ replies' = Append(replies, "ours")
        /\ UNCHANGED <<pc, caller, todo, next, char, tx, rx, received, asked, printed>>
        /\ \/ mbox' = [code |-> "response", tag |-> "serial", low |-> SerialLow, high |-> SerialHigh]
           \/ mbox' = [mbox EXCEPT !.code = "response"]
           \/ mbox' = [mbox EXCEPT !.code = "error"]
    BY <1>13 DEF Firmware, program, history
  <2>2. mbox' \in Messages
    BY <2>1, SerialTyped, AnswerTyped DEF Types
  <2>3. inbox' \in Seq({"ours"}) /\ replies' \in Seq({"ours", "foreign"})
    BY <2>1 DEF Types
  <2> QED BY <2>1, <2>2, <2>3 DEF Types
<1>14. CASE ForeignMessage
  <2>1. /\ replies' = Append(replies, "foreign")
        /\ UNCHANGED <<pc, caller, todo, next, char, mbox, inbox, tx, rx, received, asked, printed>>
    BY <1>14 DEF ForeignMessage, program, line, history
  <2> QED BY <2>1 DEF Types
<1>15. CASE Transmit
  <2>1. /\ tx # <<>> /\ tx' = Tail(tx)
        /\ received' = Append(received, IF rate THEN Head(tx) ELSE Garbled)
        /\ UNCHANGED <<pc, caller, todo, next, char, mbox, inbox, replies, rx, asked, printed>>
    BY <1>15 DEF Transmit, program, mail, history
  <2>2. Head(tx) \in Codes /\ Tail(tx) \in Seq(Codes)
    BY <2>1 DEF Types
  <2>3. (IF rate THEN Head(tx) ELSE Garbled) \in Codes \cup {Garbled}
    BY <2>2
  <2>4. received' \in Seq(Codes \cup {Garbled})
    BY <2>1, <2>3, AppendProperties DEF Types
  <2> QED BY <2>1, <2>2, <2>4 DEF Types
<1>16. CASE Type
  <2>1. /\ UNCHANGED <<pc, caller, todo, next, char, mbox, inbox, replies, tx, received, asked, printed>>
        /\ \E k \in Keys : rx' = Append(rx, k) \/ rx' = rx
    BY <1>16 DEF Type, program, mail
  <2>2. rx' \in Seq(Keys)
    <3>1. PICK k \in Keys : rx' = Append(rx, k) \/ rx' = rx
      BY <2>1
    <3>2. rx \in Seq(Keys)
      BY DEF Types
    <3> QED BY <3>1, <3>2
  <2> QED BY <2>1, <2>2 DEF Types
<1>17. CASE UNCHANGED vars
  BY <1>17 DEF vars, program, mail, line, history, Types
<1> QED BY <1>1, <1>2, <1>3, <1>4, <1>5, <1>6, <1>7, <1>8, <1>9, <1>10, <1>11, <1>12, <1>13,
           <1>14, <1>15, <1>16, <1>17 DEF Next, Program

-----------------------------------------------------------------------------
(* One message at a time, and what the buffer holds. *)

NoAnswer(r) == \A k \in DOMAIN r : r[k] # "ours"
OneAnswer(r) == \E k \in DOMAIN r : r[k] = "ours" /\ \A j \in DOMAIN r : j # k => r[j] # "ours"

Right == mbox.low = SerialLow /\ mbox.high = SerialHigh

\* The message is on its way to the firmware, or its answer is on the way back.
Mail ==
  /\ pc \in {"full", "reply"} =>
       /\ caller \in {"uart_init", "serial"}
       /\ mbox.tag = IF caller = "serial" THEN "serial" ELSE "clock"
  /\ pc # "reply" => inbox = <<>> /\ NoAnswer(replies)
  /\ pc = "reply" =>
       \/ inbox = <<"ours">> /\ NoAnswer(replies)
       \/ /\ inbox = <<>> /\ OneAnswer(replies)
          /\ mbox.tag = "serial" /\ mbox.code = "response" => Right

\* Where the program goes on after what it does now.
Goal ==
  CASE pc = "send" -> next
    [] pc \in {"full", "reply"} -> caller
    [] pc = "send_echo" -> "echo"
    [] OTHER -> pc

\* What has been printed by then, and that the buffer holds what is still to be.
Numbers ==
  /\ pc = "send" => next \in {"high", "low", "newline", "echo"}
  /\ pc = "serial" /\ result => Right
  /\ Goal \in {"high", "low"} => Right
  /\ Goal \in {"start", "uart_init", "main", "serial", "high"} => printed = <<>>
  /\ Goal = "low" => printed = <<SerialHigh>>
  /\ Goal = "newline" => printed = <<SerialHigh, SerialLow>>
  /\ Goal = "echo" => printed = <<>> \/ printed = <<SerialHigh, SerialLow>>

\* Reading an answer, and a message that is not one.
LEMMA ReadAnswer ==
  ASSUME NEW r \in Seq({"ours", "foreign"}), r # <<>>
  PROVE  /\ NoAnswer(r) => Head(r) # "ours" /\ NoAnswer(Tail(r))
         /\ OneAnswer(r) /\ Head(r) = "ours" => NoAnswer(Tail(r))
         /\ OneAnswer(r) /\ Head(r) # "ours" => OneAnswer(Tail(r))
<1> DEFINE t == Tail(r)
<1>1. /\ t \in Seq({"ours", "foreign"}) /\ Len(t) = Len(r) - 1 /\ Head(r) = r[1]
      /\ \A k \in 1 .. Len(t) : t[k] = r[k + 1]
  BY HeadTailProperties
<1>2. Len(r) \in Nat /\ Len(r) >= 1 /\ DOMAIN r = 1 .. Len(r) /\ DOMAIN t = 1 .. Len(t)
  BY <1>1
<1> HIDE DEF t
<1>3. NoAnswer(r) => Head(r) # "ours" /\ NoAnswer(t)
  BY <1>1, <1>2 DEF NoAnswer
<1>4. ASSUME OneAnswer(r), Head(r) = "ours" PROVE NoAnswer(t)
  <2>1. PICK k \in DOMAIN r : r[k] = "ours" /\ \A j \in DOMAIN r : j # k => r[j] # "ours"
    BY <1>4 DEF OneAnswer
  <2>2. k = 1
    BY <1>1, <1>2, <1>4, <2>1
  <2>3. \A j \in 1 .. Len(t) : r[j + 1] # "ours"
    BY <1>1, <1>2, <2>1, <2>2
  <2> QED BY <1>1, <1>2, <2>3 DEF NoAnswer
<1>5. ASSUME OneAnswer(r), Head(r) # "ours" PROVE OneAnswer(t)
  <2>1. PICK k \in DOMAIN r : r[k] = "ours" /\ \A j \in DOMAIN r : j # k => r[j] # "ours"
    BY <1>5 DEF OneAnswer
  <2>2. k # 1 /\ k - 1 \in 1 .. Len(t)
    BY <1>1, <1>2, <1>5, <2>1
  <2>3. t[k - 1] = "ours"
    BY <1>1, <2>1, <2>2
  <2>4. ASSUME NEW j \in 1 .. Len(t), j # k - 1 PROVE t[j] # "ours"
    <3>1. j + 1 \in DOMAIN r /\ j + 1 # k
      BY <1>1, <1>2, <2>1, <2>4
    <3> QED BY <1>1, <2>1, <3>1
  <2> QED BY <1>2, <2>2, <2>3, <2>4 DEF OneAnswer
<1> QED BY <1>3, <1>4, <1>5 DEF t

LEMMA ArriveAnswer ==
  ASSUME NEW r \in Seq({"ours", "foreign"})
  PROVE  /\ NoAnswer(r) => OneAnswer(Append(r, "ours"))
         /\ NoAnswer(r) => NoAnswer(Append(r, "foreign"))
         /\ OneAnswer(r) => OneAnswer(Append(r, "foreign"))
<1>1. ASSUME NEW m \in {"ours", "foreign"}
      PROVE  /\ DOMAIN Append(r, m) = 1 .. Len(r) + 1 /\ DOMAIN r = 1 .. Len(r) /\ Len(r) \in Nat
             /\ \A k \in 1 .. Len(r) : Append(r, m)[k] = r[k]
             /\ Append(r, m)[Len(r) + 1] = m
  BY AppendProperties
<1>2. ASSUME NoAnswer(r) PROVE OneAnswer(Append(r, "ours"))
  <2>1. \A j \in 1 .. Len(r) + 1 : j # Len(r) + 1 => Append(r, "ours")[j] # "ours"
    BY <1>1, <1>2 DEF NoAnswer
  <2> QED BY <1>1, <2>1 DEF OneAnswer
<1>3. ASSUME NoAnswer(r) PROVE NoAnswer(Append(r, "foreign"))
  BY <1>1, <1>3 DEF NoAnswer
<1>4. ASSUME OneAnswer(r) PROVE OneAnswer(Append(r, "foreign"))
  <2>1. PICK k \in DOMAIN r : r[k] = "ours" /\ \A j \in DOMAIN r : j # k => r[j] # "ours"
    BY <1>4 DEF OneAnswer
  <2>2. k \in 1 .. Len(r) + 1 /\ Append(r, "foreign")[k] = "ours"
    BY <1>1, <2>1
  <2>3. \A j \in 1 .. Len(r) + 1 : j # k => Append(r, "foreign")[j] # "ours"
    BY <1>1, <2>1
  <2> QED BY <1>1, <2>2, <2>3 DEF OneAnswer
<1> QED BY <1>2, <1>3, <1>4

LEMMA MailStep == Types /\ Mail /\ [Next]_vars => Mail'
<1> SUFFICES ASSUME Types, Mail, [Next]_vars PROVE Mail'
  OBVIOUS
<1>t. /\ replies \in Seq({"ours", "foreign"}) /\ inbox \in Seq({"ours"}) /\ mbox \in Messages
      /\ caller \in Labels
  BY DEF Types
\* Most steps leave the mailbox alone.
<1>k. ASSUME UNCHANGED mail, pc \notin {"full", "reply"}, pc' \notin {"full", "reply"}
      PROVE  Mail'
  BY <1>k DEF Mail, mail
<1>1. CASE StartUart
  <2>1. /\ pc = "start" /\ mbox' = Request("clock") /\ pc' = "full" /\ caller' = "uart_init"
        /\ UNCHANGED <<inbox, replies>>
    BY <1>1 DEF StartUart, Call
  <2> QED BY <2>1 DEF Mail, Request
<1>2. CASE MboxWrite
  <2>1. /\ pc = "full" /\ inbox' = Append(inbox, "ours") /\ pc' = "reply"
        /\ UNCHANGED <<caller, mbox, replies>>
    BY <1>2 DEF MboxWrite
  <2>2. inbox' = <<"ours">>
    BY <2>1 DEF Mail
  <2> QED BY <2>1, <2>2 DEF Mail
<1>3. CASE MboxRead
  <2>1. /\ pc = "reply" /\ replies # <<>> /\ replies' = Tail(replies)
        /\ UNCHANGED <<caller, mbox, inbox>>
    BY <1>3 DEF MboxRead
  <2>2. CASE Head(replies) = "ours"
    <3>1. pc' = caller
      BY <1>3, <2>2 DEF MboxRead, IsAnswer
    <3>2. inbox = <<>> /\ OneAnswer(replies) /\ caller \in {"uart_init", "serial"}
      BY <1>t, <2>1, <2>2, ReadAnswer DEF Mail
    <3>3. NoAnswer(replies')
      BY <1>t, <2>1, <2>2, <3>2, ReadAnswer
    <3> QED BY <2>1, <3>1, <3>2, <3>3 DEF Mail
  <2>3. CASE Head(replies) # "ours"
    <3>1. pc' = pc
      BY <1>3, <2>3 DEF MboxRead, IsAnswer
    <3>2. /\ NoAnswer(replies) => NoAnswer(replies')
          /\ OneAnswer(replies) => OneAnswer(replies')
      BY <1>t, <2>1, <2>3, ReadAnswer
    <3> QED BY <2>1, <3>1, <3>2 DEF Mail, Right
  <2> QED BY <2>2, <2>3
<1>4. CASE EnableUart
  BY <1>4, <1>k DEF EnableUart
<1>5. CASE AskSerial
  <2>1. /\ pc = "main" /\ mbox' = Request("serial") /\ pc' = "full" /\ caller' = "serial"
        /\ UNCHANGED <<inbox, replies>>
    BY <1>5 DEF AskSerial, Call
  <2> QED BY <2>1 DEF Mail, Request
<1>6. CASE ReportSerial \/ PrintHigh \/ PrintLow \/ PrintNewline
  <2>1. pc \in {"serial", "high", "low", "newline"} /\ pc' = "send" /\ UNCHANGED mail
    BY <1>6 DEF ReportSerial, PrintHigh, PrintLow, PrintNewline, Puts
  <2> QED BY <1>k, <2>1
<1>10. CASE SendStep \/ GetChar \/ EchoChar
  <2>1. UNCHANGED <<mbox, inbox, replies>> /\ pc \in {"send", "echo", "send_echo"}
    BY <1>10 DEF SendStep, GetChar, EchoChar, mail
  <2>2. pc' \in {"send_echo", "echo", "send"} \/ pc' = next
    BY <1>10 DEF SendStep, GetChar, EchoChar
  <2>3. next \in Labels
    BY DEF Types
  <2>4. pc' \notin {"full", "reply"}
    BY <2>2, <2>3 DEF Labels
  <2> QED BY <2>1, <2>4 DEF Mail
<1>13. CASE Firmware
  <2>1. /\ inbox # <<>> /\ inbox' = Tail(inbox) /\ replies' = Append(replies, "ours")
        /\ pc' = pc /\ caller' = caller
    BY <1>13 DEF Firmware, program
  <2>2. /\ pc = "reply" /\ inbox = <<"ours">> /\ NoAnswer(replies)
        /\ caller \in {"uart_init", "serial"}
        /\ mbox.tag = IF caller = "serial" THEN "serial" ELSE "clock"
    BY <2>1 DEF Mail
  <2>3. inbox' = <<>>
    BY <2>1, <2>2
  <2>4. OneAnswer(replies')
    BY <1>t, <2>1, <2>2, ArriveAnswer
  <2>5. /\ mbox'.tag = mbox.tag
        /\ mbox.tag = "serial" /\ mbox'.code = "response" => Right'
    <3>1. CASE mbox.tag = "serial" /\ mbox' = [code |-> "response", tag |-> "serial",
                                               low |-> SerialLow, high |-> SerialHigh]
      BY <3>1 DEF Right
    <3>2. CASE mbox.tag # "serial" /\ mbox' = [mbox EXCEPT !.code = "response"]
      BY <1>t, <3>2, AnswerTyped
    <3>3. CASE mbox' = [mbox EXCEPT !.code = "error"]
      BY <1>t, <3>3, AnswerTyped
    <3> QED BY <1>13, <3>1, <3>2, <3>3 DEF Firmware
  <2> QED BY <2>1, <2>2, <2>3, <2>4, <2>5 DEF Mail
<1>14. CASE ForeignMessage
  <2>1. /\ replies' = Append(replies, "foreign") /\ UNCHANGED <<pc, caller, mbox, inbox>>
    BY <1>14 DEF ForeignMessage, program
  <2>2. /\ NoAnswer(replies) => NoAnswer(replies')
        /\ OneAnswer(replies) => OneAnswer(replies')
    BY <1>t, <2>1, ArriveAnswer
  <2> QED BY <2>1, <2>2 DEF Mail, Right
<1>15. CASE Transmit \/ Type \/ UNCHANGED vars
  <2>1. UNCHANGED <<pc, caller, mbox, inbox, replies>>
    BY <1>15 DEF Transmit, Type, vars, program, mail
  <2> QED BY <2>1 DEF Mail, Right
<1> QED BY <1>1, <1>2, <1>3, <1>4, <1>5, <1>6, <1>10, <1>13, <1>14, <1>15 DEF Next, Program

LEMMA NumbersStep == Types /\ Mail /\ Numbers /\ [Next]_vars => Numbers'
<1> SUFFICES ASSUME Types, Mail, Numbers, [Next]_vars PROVE Numbers'
  OBVIOUS
<1>t. pc \in Labels \cup {"full", "reply", "send", "send_echo"} /\ caller \in Labels /\ next \in Labels
  BY DEF Types
<1>1. CASE StartUart
  <2>1. pc = "start" /\ pc' = "full" /\ caller' = "uart_init" /\ printed' = printed
    BY <1>1 DEF StartUart, Call, history
  <2>2. Goal = "start" /\ Goal' = "uart_init"
    BY <2>1 DEF Goal
  <2> QED BY <2>1, <2>2 DEF Numbers
<1>2. CASE MboxWrite
  <2>1. /\ pc = "full" /\ pc' = "reply" /\ UNCHANGED <<caller, mbox, printed>>
    BY <1>2 DEF MboxWrite, history
  <2>2. Goal = caller /\ Goal' = caller
    BY <2>1 DEF Goal
  <2> QED BY <2>1, <2>2 DEF Numbers, Right
<1>3. CASE MboxRead
  <2>1. pc = "reply" /\ replies # <<>> /\ UNCHANGED <<caller, mbox, printed>>
    BY <1>3 DEF MboxRead, history
  <2>2. Goal = caller /\ caller \in {"uart_init", "serial"}
    BY <2>1 DEF Goal, Mail
  <2>3. CASE Head(replies) = "ours"
    <3>1. pc' = caller /\ result' = Succeeded
      BY <1>3, <2>3 DEF MboxRead, IsAnswer
    <3>2. Goal' = caller
      BY <2>2, <3>1 DEF Goal
    <3>3. ~NoAnswer(replies)
      BY <2>1, <2>3, ReadAnswer DEF Types
    <3>4. mbox.tag = "serial" /\ mbox.code = "response" => Right
      BY <2>1, <3>3 DEF Mail
    <3>5. pc' = "serial" /\ result' => Right
      BY <2>1, <2>2, <3>1, <3>4 DEF Mail, Succeeded
    <3> QED BY <2>1, <2>2, <3>1, <3>2, <3>5 DEF Numbers, Right
  <2>4. CASE Head(replies) # "ours"
    <3>1. pc' = pc
      BY <1>3, <2>4 DEF MboxRead, IsAnswer
    <3>2. Goal' = caller
      BY <2>1, <3>1 DEF Goal
    <3> QED BY <2>1, <2>2, <3>1, <3>2 DEF Numbers
  <2> QED BY <2>3, <2>4
<1>4. CASE EnableUart
  <2>1. pc = "uart_init" /\ pc' = "main" /\ printed' = printed
    BY <1>4 DEF EnableUart, history
  <2>2. Goal = "uart_init" /\ Goal' = "main"
    BY <2>1 DEF Goal
  <2> QED BY <2>1, <2>2 DEF Numbers
<1>5. CASE AskSerial
  <2>1. pc = "main" /\ pc' = "full" /\ caller' = "serial" /\ printed' = printed
    BY <1>5 DEF AskSerial, Call, history
  <2>2. Goal = "main" /\ Goal' = "serial"
    BY <2>1 DEF Goal
  <2> QED BY <2>1, <2>2 DEF Numbers
<1>p. ASSUME NEW s, NEW label, Puts(s, label), pc \in Labels
      PROVE  pc' = "send" /\ next' = label /\ Goal = pc /\ Goal' = label /\ mbox' = mbox
  <2>1. pc' = "send" /\ next' = label /\ mbox' = mbox
    BY <1>p DEF Puts, mail
  <2> QED BY <1>p, <2>1 DEF Goal, Labels
<1>6. CASE ReportSerial
  <2>1. pc = "serial" /\ pc \in Labels /\ printed' = printed
    BY <1>6 DEF ReportSerial, Labels
  <2>2. CASE result /\ Puts(Prompt, "high")
    BY <1>p, <2>1, <2>2 DEF Numbers, Right
  <2>3. CASE ~result /\ Puts(Failed, "echo")
    BY <1>p, <2>1, <2>3 DEF Numbers
  <2> QED BY <1>6, <2>2, <2>3 DEF ReportSerial
<1>7. CASE PrintHigh
  <2>1. pc = "high" /\ pc \in Labels /\ printed' = Append(printed, mbox.high) /\ Puts(Hex(mbox.high), "low")
    BY <1>7 DEF PrintHigh, Labels
  <2>2. printed = <<>> /\ Right
    BY <1>p, <2>1 DEF Numbers
  <2>3. printed' = <<SerialHigh>>
    BY <2>1, <2>2 DEF Right
  <2> QED BY <1>p, <2>1, <2>2, <2>3 DEF Numbers, Right
<1>8. CASE PrintLow
  <2>1. pc = "low" /\ pc \in Labels /\ printed' = Append(printed, mbox.low) /\ Puts(Hex(mbox.low), "newline")
    BY <1>8 DEF PrintLow, Labels
  <2>2. printed = <<SerialHigh>> /\ Right
    BY <1>p, <2>1 DEF Numbers
  <2>3. printed' = Append(<<SerialHigh>>, SerialLow)
    BY <2>1, <2>2 DEF Right
  <2>4. printed' = <<SerialHigh, SerialLow>>
    <3>1. <<SerialHigh>> \in Seq(Word) /\ <<SerialHigh, SerialLow>> \in Seq(Word)
      BY Sizes
    <3>2. Len(<<SerialHigh>>) = 1 /\ <<SerialHigh>>[1] = SerialHigh
      OBVIOUS
    <3>3. /\ printed' \in Seq(Word) /\ Len(printed') = 2
          /\ printed'[1] = SerialHigh /\ printed'[2] = SerialLow
      BY <2>3, <3>1, <3>2, Sizes, AppendProperties
    <3>4. \A k \in 1 .. 2 : printed'[k] = <<SerialHigh, SerialLow>>[k]
      BY <3>3
    <3> QED BY <3>1, <3>3, <3>4, SeqEqual
  <2>5. pc' = "send" /\ next' = "newline" /\ Goal' = "newline"
    BY <1>p, <2>1
  <2> QED BY <2>4, <2>5 DEF Numbers
<1>9. CASE PrintNewline
  <2>1. pc = "newline" /\ pc \in Labels /\ printed' = printed /\ Puts(<<NL>>, "echo")
    BY <1>9 DEF PrintNewline, Labels
  <2> QED BY <1>p, <2>1 DEF Numbers
<1>10. CASE SendStep
  <2>1. pc = "send" /\ (pc' = next \/ pc' = pc) /\ UNCHANGED <<next, mbox, printed>>
    BY <1>10 DEF SendStep, mail, history
  <2>2. Goal = next /\ Goal' = next /\ next \in {"high", "low", "newline", "echo"}
    BY <2>1 DEF Goal, Numbers
  <2> QED BY <2>1, <2>2 DEF Numbers, Right
<1>11. CASE GetChar \/ EchoChar
  <2>1. /\ pc \in {"echo", "send_echo"} /\ pc' \in {"echo", "send_echo"} /\ printed' = printed
    BY <1>11 DEF GetChar, EchoChar, history
  <2>2. Goal = "echo" /\ Goal' = "echo"
    BY <2>1 DEF Goal
  <2> QED BY <2>1, <2>2 DEF Numbers
<1>13. CASE Firmware
  <2>1. inbox # <<>> /\ UNCHANGED <<pc, caller, next, printed>>
    BY <1>13 DEF Firmware, program, history
  <2>2. pc = "reply" /\ caller \in {"uart_init", "serial"}
    BY <2>1 DEF Mail
  <2>3. Goal = caller /\ Goal' = caller
    BY <2>1, <2>2 DEF Goal
  <2> QED BY <2>1, <2>2, <2>3 DEF Numbers
<1>14. CASE ForeignMessage \/ Transmit \/ Type \/ UNCHANGED vars
  <2>1. UNCHANGED <<pc, caller, next, result, mbox, printed>>
    BY <1>14 DEF ForeignMessage, Transmit, Type, vars, program, mail, history
  <2>2. Goal' = Goal
    BY <2>1 DEF Goal
  <2> QED BY <2>1, <2>2 DEF Numbers, Right
<1> QED BY <1>1, <1>2, <1>3, <1>4, <1>5, <1>6, <1>7, <1>8, <1>9, <1>10, <1>11, <1>13, <1>14
        DEF Next, Program

-----------------------------------------------------------------------------
(* What is under way to the terminal. *)

\* A text has a newline at its end only.
OneLine(s) == \A k \in 1 .. Len(s) - 1 : s[k] # NL

\* What is still to be sent.
Pending ==
  CASE pc = "send" -> IF sent_cr THEN todo ELSE OnWire(todo)
    [] pc = "send_echo" -> <<char>>
    [] OTHER -> <<>>

Text ==
  /\ pc = "send" => OneLine(todo) /\ (sent_cr => todo # <<>> /\ Head(todo) = NL)
  /\ Goal \in {"start", "uart_init"} => received = <<>> /\ tx = <<>> /\ asked = <<>>
  /\ rate => (received \o tx) \o Pending = asked

\* A text on the wire, character by character.
LEMMA WireElements ==
  ASSUME NEW s \in Seq(Codes), s # <<>>
  PROVE  /\ s[Len(s)] = NL =>
              /\ Len(OnWire(s)) = Len(s) + 1
              /\ OnWire(s)[Len(s)] = CR /\ OnWire(s)[Len(s) + 1] = NL
              /\ \A k \in 1 .. Len(s) - 1 : OnWire(s)[k] = s[k]
         /\ s[Len(s)] # NL => OnWire(s) = s
<1>1. Len(s) \in Nat /\ Len(s) >= 1
  OBVIOUS
<1>2. CASE s[Len(s)] = NL
  <2> DEFINE f == Front(s)
             e == <<CR, NL>>
  <2>1. OnWire(s) = f \o e
    BY <1>2, Zenon DEF OnWire, Last
  <2>2. f \in Seq(Codes) /\ Len(f) = Len(s) - 1 /\ \A k \in 1 .. Len(s) - 1 : f[k] = s[k]
    <3>1. \A k \in 1 .. Len(s) - 1 : s[k] \in Codes
      BY <1>1
    <3>2. Len(s) - 1 \in Int /\ 1 \in Int
      BY <1>1
    <3>3. /\ SubSeq(s, 1, Len(s) - 1) \in Seq(Codes)
          /\ Len(SubSeq(s, 1, Len(s) - 1)) = IF 1 <= Len(s) - 1 THEN Len(s) - 1 - 1 + 1 ELSE 0
          /\ \A k \in 1 .. Len(s) - 1 - 1 + 1 : SubSeq(s, 1, Len(s) - 1)[k] = s[1 + k - 1]
      BY <3>1, <3>2, SubSeqProperties
    <3>4. Len(s) - 1 - 1 + 1 = Len(s) - 1 /\ \A k \in 1 .. Len(s) - 1 : 1 + k - 1 = k
      BY <1>1
    <3>5. Len(f) = Len(s) - 1
      BY <1>1, <3>3, <3>4 DEF Front
    <3>6. f = SubSeq(s, 1, Len(s) - 1)
      BY DEF Front
    <3>7. \A k \in 1 .. Len(s) - 1 : f[k] = s[k]
      <4> HIDE DEF f
      <4> QED BY <3>3, <3>4, <3>6
    <3> QED BY <3>3, <3>5, <3>6, <3>7
  <2>3. e \in Seq(Codes) /\ Len(e) = 2 /\ e[1] = CR /\ e[2] = NL
    BY SimpleCodes
  <2> HIDE DEF f, e
  <2>4. /\ Len(f \o e) = Len(s) + 1
        /\ \A k \in 1 .. Len(s) + 1 : (f \o e)[k] = IF k <= Len(f) THEN f[k] ELSE e[k - Len(f)]
    <3>1. /\ Len(f \o e) = Len(f) + Len(e)
          /\ \A k \in 1 .. Len(f) + Len(e) :
               (f \o e)[k] = IF k <= Len(f) THEN f[k] ELSE e[k - Len(f)]
      BY <2>2, <2>3, ConcatProperties
    <3>2. Len(f) + Len(e) = Len(s) + 1
      BY <1>1, <2>2, <2>3
    <3> QED BY <3>1, <3>2
  <2>5. (f \o e)[Len(s)] = CR /\ (f \o e)[Len(s) + 1] = NL
    BY <1>1, <2>2, <2>3, <2>4
  <2>6. \A k \in 1 .. Len(s) - 1 : (f \o e)[k] = s[k]
    BY <1>1, <2>2, <2>4
  <2> QED BY <1>2, <2>1, <2>4, <2>5, <2>6
<1>3. CASE s[Len(s)] # NL
  BY <1>3, Zenon DEF OnWire, Last
<1> QED BY <1>2, <1>3

\* uart_puts sends the first character and has the rest to send.
LEMMA SendFirst ==
  ASSUME NEW s \in Seq(Codes), s # <<>>, OneLine(s), Head(s) # NL
  PROVE  OnWire(s) = <<Head(s)>> \o OnWire(Tail(s)) /\ OneLine(Tail(s))
<1> DEFINE h == <<Head(s)>>
           t == Tail(s)
<1>1. /\ Head(s) \in Codes /\ Head(s) = s[1] /\ t \in Seq(Codes) /\ Len(t) = Len(s) - 1
      /\ \A k \in 1 .. Len(t) : t[k] = s[k + 1]
      /\ Len(s) \in Nat /\ Len(s) >= 1
  BY HeadTailProperties
<1>2. h \in Seq(Codes) /\ Len(h) = 1 /\ h[1] = s[1]
  BY <1>1
<1> HIDE DEF h, t
<1>3. OneLine(t)
  BY <1>1 DEF OneLine
<1>4. OnWire(s) \in Seq(Codes) /\ OnWire(t) \in Seq(Codes)
  BY <1>1, WireTyped
<1>5. /\ h \o OnWire(t) \in Seq(Codes) /\ Len(h \o OnWire(t)) = 1 + Len(OnWire(t))
      /\ \A k \in 1 .. 1 + Len(OnWire(t)) :
           (h \o OnWire(t))[k] = IF k <= 1 THEN h[k] ELSE OnWire(t)[k - 1]
  <2>1. /\ h \o OnWire(t) \in Seq(Codes) /\ Len(h \o OnWire(t)) = Len(h) + Len(OnWire(t))
        /\ \A k \in 1 .. Len(h) + Len(OnWire(t)) :
             (h \o OnWire(t))[k] = IF k <= Len(h) THEN h[k] ELSE OnWire(t)[k - Len(h)]
    BY <1>2, <1>4, ConcatProperties
  <2> QED BY <1>2, <2>1
<1>6. CASE t = <<>>
  <2>1. Len(s) = 1 /\ s[Len(s)] # NL
    <3>1. Len(t) = 0
      BY <1>6
    <3>2. Len(s) = 1
      BY <1>1, <3>1
    <3> QED BY <1>1, <3>2
  <2>2. OnWire(s) = s
    BY <2>1, WireElements, <1>1
  <2>3. OnWire(t) = <<>>
    BY <1>6 DEF OnWire
  <2>4. Len(h \o OnWire(t)) = 1 /\ (h \o OnWire(t))[1] = s[1]
    BY <1>2, <1>5, <2>3
  <2>5. \A k \in 1 .. Len(s) : s[k] = (h \o OnWire(t))[k]
    BY <2>1, <2>4
  <2>6. s = h \o OnWire(t)
    BY <1>5, <2>1, <2>4, <2>5, SeqEqual
  <2> QED BY <1>3, <2>2, <2>6 DEF h, t
<1>7. CASE t # <<>>
  <2>1. Len(t) >= 1 /\ t[Len(t)] = s[Len(s)]
    BY <1>1, <1>7
  <2>2. CASE s[Len(s)] = NL
    <3>1. /\ Len(OnWire(s)) = Len(s) + 1
          /\ OnWire(s)[Len(s)] = CR /\ OnWire(s)[Len(s) + 1] = NL
          /\ \A k \in 1 .. Len(s) - 1 : OnWire(s)[k] = s[k]
      BY <1>1, <2>2, WireElements
    <3>2. /\ Len(OnWire(t)) = Len(t) + 1
          /\ OnWire(t)[Len(t)] = CR /\ OnWire(t)[Len(t) + 1] = NL
          /\ \A k \in 1 .. Len(t) - 1 : OnWire(t)[k] = t[k]
      BY <1>1, <1>7, <2>1, <2>2, WireElements
    <3>3. ASSUME NEW k \in 1 .. Len(s) + 1
          PROVE  OnWire(s)[k] = (h \o OnWire(t))[k]
      <4>1. CASE k = 1
        BY <1>1, <1>2, <1>5, <2>1, <3>1, <3>2, <4>1
      <4>2. CASE k > 1 /\ k <= Len(s) - 1
        BY <1>1, <1>5, <2>1, <3>1, <3>2, <4>2
      <4>3. CASE k = Len(s)
        BY <1>1, <1>5, <2>1, <3>1, <3>2, <4>3
      <4>4. CASE k = Len(s) + 1
        BY <1>1, <1>5, <2>1, <3>1, <3>2, <4>4
      <4>5. k = 1 \/ (k > 1 /\ k <= Len(s) - 1) \/ k = Len(s) \/ k = Len(s) + 1
        BY <1>1
      <4> QED BY <4>1, <4>2, <4>3, <4>4, <4>5
    <3>4. Len(OnWire(s)) = Len(h \o OnWire(t))
      BY <1>1, <1>5, <3>1, <3>2
    <3>5. OnWire(s) = h \o OnWire(t)
      BY <1>4, <1>5, <3>1, <3>3, <3>4, SeqEqual
    <3> QED BY <1>3, <3>5 DEF h, t
  <2>3. CASE s[Len(s)] # NL
    <3>1. OnWire(s) = s /\ OnWire(t) = t
      BY <1>1, <1>7, <2>1, <2>3, WireElements
    <3>2. \A k \in 1 .. Len(s) : s[k] = (h \o t)[k]
      BY <1>1, <1>2, <1>5, <3>1
    <3>3. Len(s) = Len(h \o t)
      BY <1>1, <1>5, <3>1
    <3>4. s = h \o t
      BY <1>5, <3>1, <3>2, <3>3, SeqEqual
    <3> QED BY <1>3, <3>1, <3>4 DEF h, t
  <2> QED BY <2>2, <2>3
<1> QED BY <1>6, <1>7

\* A carriage return goes before the newline, which is the last character.
LEMMA SendReturn ==
  ASSUME NEW s \in Seq(Codes), s # <<>>, OneLine(s), Head(s) = NL
  PROVE  OnWire(s) = <<CR>> \o s /\ s = <<NL>> /\ Tail(s) = <<>>
<1>1. Len(s) \in Nat /\ Len(s) >= 1 /\ Head(s) = s[1]
  OBVIOUS
<1>2. Len(s) = 1
  <2>1. ASSUME Len(s) > 1 PROVE FALSE
    <3>1. 1 \in 1 .. Len(s) - 1
      BY <1>1, <2>1
    <3>2. s[1] # NL
      BY <3>1 DEF OneLine
    <3> QED BY <1>1, <3>2
  <2>2. PICK n \in Nat : n = Len(s)
    BY <1>1
  <2> QED BY <1>1, <2>1, <2>2
<1>3. /\ Len(OnWire(s)) = 2 /\ OnWire(s)[1] = CR /\ OnWire(s)[2] = NL
  <2>1. s[Len(s)] = NL
    BY <1>1, <1>2
  <2>2. /\ Len(OnWire(s)) = Len(s) + 1
        /\ OnWire(s)[Len(s)] = CR /\ OnWire(s)[Len(s) + 1] = NL
    BY <2>1, WireElements
  <2> QED BY <1>2, <2>2
<1>4. <<CR>> \in Seq(Codes) /\ Len(<<CR>>) = 1 /\ <<CR>>[1] = CR
  BY SimpleCodes
<1>5. /\ <<CR>> \o s \in Seq(Codes) /\ Len(<<CR>> \o s) = 2
      /\ (<<CR>> \o s)[1] = CR /\ (<<CR>> \o s)[2] = NL
  BY <1>1, <1>2, <1>4, ConcatProperties
<1>6. OnWire(s) \in Seq(Codes)
  BY WireTyped
<1>7. OnWire(s) = <<CR>> \o s
  <2>1. \A k \in 1 .. Len(OnWire(s)) : OnWire(s)[k] = (<<CR>> \o s)[k]
    BY <1>3, <1>5
  <2> QED BY <1>3, <1>5, <1>6, <2>1, SeqEqual
<1>8. s = <<NL>>
  BY <1>1, <1>2
<1>9. Tail(s) = <<>>
  <2>1. Tail(s) \in Seq(Codes) /\ Len(Tail(s)) = 0
    BY <1>2, HeadTailProperties
  <2> QED BY <2>1, EmptySeq
<1> QED BY <1>7, <1>8, <1>9

Arriving == Codes \cup {Garbled}

LEMMA CodesArrive == \A s \in Seq(Codes) : s \in Seq(Arriving)
BY SeqMonotonic DEF Arriving

\* A character that is sent goes from what is pending to the transmitter.
LEMMA Sent ==
  ASSUME NEW r \in Seq(Arriving), NEW t \in Seq(Codes), NEW c \in Codes, NEW q \in Seq(Codes)
  PROVE  (r \o Append(t, c)) \o q = (r \o t) \o (<<c>> \o q)
<1>1. t \in Seq(Arriving) /\ q \in Seq(Arriving) /\ <<c>> \in Seq(Arriving)
  BY CodesArrive DEF Arriving
<1>2. Append(t, c) = t \o <<c>>
  BY AppendIsConcat
<1>3. r \o (t \o <<c>>) = (r \o t) \o <<c>>
  BY <1>1, ConcatAssociative
<1>4. r \o t \in Seq(Arriving)
  BY <1>1, ConcatProperties
<1>5. ((r \o t) \o <<c>>) \o q = (r \o t) \o (<<c>> \o q)
  BY <1>1, <1>4, ConcatAssociative
<1> QED BY <1>2, <1>3, <1>5

\* One that is transmitted goes to the terminal.
LEMMA Arrived ==
  ASSUME NEW r \in Seq(Arriving), NEW t \in Seq(Codes), t # <<>>
  PROVE  Append(r, Head(t)) \o Tail(t) = r \o t
<1>1. t \in Seq(Arriving) /\ Head(t) \in Codes /\ Tail(t) \in Seq(Codes)
  BY CodesArrive
<1>2. Head(t) \in Arriving /\ Tail(t) \in Seq(Arriving) /\ <<Head(t)>> \in Seq(Arriving)
  BY <1>1, CodesArrive DEF Arriving
<1>3. Append(r, Head(t)) = r \o <<Head(t)>>
  BY <1>2, AppendIsConcat
<1>4. <<Head(t)>> \o Tail(t) = t
  <2>1. /\ Len(<<Head(t)>>) = 1 /\ <<Head(t)>>[1] = t[1] /\ Len(Tail(t)) = Len(t) - 1
        /\ \A k \in 1 .. Len(Tail(t)) : Tail(t)[k] = t[k + 1]
        /\ Len(t) \in Nat /\ Len(t) >= 1
    BY <1>1, HeadTailProperties
  <2>2. /\ <<Head(t)>> \o Tail(t) \in Seq(Arriving) /\ Len(<<Head(t)>> \o Tail(t)) = Len(t)
        /\ \A k \in 1 .. Len(t) : (<<Head(t)>> \o Tail(t))[k] =
                                    IF k <= 1 THEN <<Head(t)>>[k] ELSE Tail(t)[k - 1]
    BY <1>2, <2>1, ConcatProperties
  <2>3. \A k \in 1 .. Len(t) : (<<Head(t)>> \o Tail(t))[k] = t[k]
    BY <2>1, <2>2
  <2> QED BY <1>1, <2>2, <2>3, SeqEqual
<1>5. (r \o <<Head(t)>>) \o Tail(t) = r \o (<<Head(t)>> \o Tail(t))
  BY <1>2, ConcatAssociative
<1> QED BY <1>3, <1>4, <1>5

LEMMA Beginning ==
  ASSUME NEW w \in Seq(Arriving), NEW p \in Seq(Codes)
  PROVE  IsPrefix(w, w \o p) /\ w \o <<>> = w
<1>1. p \in Seq(Arriving)
  BY CodesArrive
<1>2. /\ w \o p \in Seq(Arriving) /\ Len(w \o p) = Len(w) + Len(p)
      /\ \A k \in 1 .. Len(w) + Len(p) : (w \o p)[k] = IF k <= Len(w) THEN w[k] ELSE p[k - Len(w)]
  BY <1>1, ConcatProperties
<1>3. Len(w) \in Nat /\ Len(p) \in Nat
  BY <1>1
<1>4. \A k \in 1 .. Len(w) : w[k] \in Arriving /\ (w \o p)[k] = w[k]
  BY <1>2, <1>3
<1>5. /\ SubSeq(w, 1, Len(w)) \in Seq(Arriving) /\ Len(SubSeq(w, 1, Len(w))) = Len(w)
      /\ \A k \in 1 .. Len(w) : SubSeq(w, 1, Len(w))[k] = w[k]
  BY <1>3, <1>4, SubSeqProperties
<1>6. /\ SubSeq(w \o p, 1, Len(w)) \in Seq(Arriving) /\ Len(SubSeq(w \o p, 1, Len(w))) = Len(w)
      /\ \A k \in 1 .. Len(w) : SubSeq(w \o p, 1, Len(w))[k] = w[k]
  BY <1>2, <1>3, <1>4, SubSeqProperties
<1>7. SubSeq(w, 1, Len(w)) = SubSeq(w \o p, 1, Len(w))
  BY <1>5, <1>6, SeqEqual
<1>8. w \o <<>> = w
  BY ConcatEmptySeq
<1> QED BY <1>2, <1>3, <1>7, <1>8 DEF IsPrefix

LEMMA SentTyped == received \in Seq(Codes \cup {Garbled}) => received \in Seq(Arriving)
BY DEF Arriving

\* The text of the next call follows the texts before it.
LEMMA PutsText ==
  ASSUME Types, Text, pc \in Labels, NEW s \in Seq(Codes), OneLine(s),
         NEW label \in {"high", "low", "newline", "echo"}, Puts(s, label)
  PROVE  Text'
<1>1. /\ todo' = s /\ sent_cr' = FALSE /\ next' = label /\ pc' = "send"
      /\ asked' = asked \o OnWire(s) /\ UNCHANGED <<received, tx, rate>>
  BY DEF Puts, line
<1>2. Pending = <<>> /\ pc # "send"
  BY DEF Pending, Labels
<1>3. Pending' = OnWire(s)
  BY <1>1 DEF Pending
<1>4. received \o tx \in Seq(Arriving)
  <2>1. received \in Seq(Arriving) /\ tx \in Seq(Arriving)
    BY CodesArrive, SentTyped DEF Types
  <2> QED BY <2>1, ConcatProperties
<1>5. (received \o tx) \o Pending = received \o tx
  BY <1>2, <1>4, Beginning, ConcatEmptySeq
<1>6. rate' => (received' \o tx') \o Pending' = asked'
  <2>1. rate => received \o tx = asked
    BY <1>5 DEF Text
  <2> QED BY <1>1, <1>3, <2>1
<1>7. Goal' = label
  BY <1>1 DEF Goal
<1>8. OneLine(todo')
  BY <1>1
<1>9. (OneLine(todo))'
  BY <1>8 DEF OneLine
<1> QED BY <1>1, <1>6, <1>7, <1>9 DEF Text

\* One character of the text goes to the transmitter.
LEMMA SendText ==
  ASSUME Types, Text, pc = "send", pc' = "send", next' = next, todo # <<>>,
         UNCHANGED <<received, rate, asked>>,
         NEW c \in Codes, tx' = Append(tx, c), NEW q \in Seq(Codes),
         Pending = <<c>> \o q, Pending' = q,
         OneLine(todo'), sent_cr' => todo' # <<>> /\ Head(todo') = NL,
         next \in {"high", "low", "newline", "echo"}
  PROVE  Text'
<1>1. received \in Seq(Arriving) /\ tx \in Seq(Codes)
  BY SentTyped DEF Types
<1>2. (received \o tx') \o q = (received \o tx) \o (<<c>> \o q)
  BY <1>1, Sent
<1>3. rate' => (received' \o tx') \o Pending' = asked'
  BY <1>2 DEF Text
<1>4. Goal' = next
  BY DEF Goal
<1>5. (OneLine(todo))'
  BY DEF OneLine
<1> QED BY <1>3, <1>4, <1>5 DEF Text

LEMMA TextStep == Types /\ Mail /\ Numbers /\ Text /\ [Next]_vars => Text'
<1> SUFFICES ASSUME Types, Mail, Numbers, Text, [Next]_vars PROVE Text'
  OBVIOUS
<1>t. /\ received \in Seq(Arriving) /\ tx \in Seq(Codes) /\ todo \in Seq(Codes)
      /\ asked \in Seq(Codes) /\ char \in Codes /\ rx \in Seq(Keys)
  BY SentTyped DEF Types
\* Most steps send nothing.
<1>k. ASSUME UNCHANGED <<received, tx, asked>>, rate' => rate, pc' # "send", Pending' = Pending,
             Goal' \in {"start", "uart_init"} => Goal \in {"start", "uart_init"}
      PROVE  Text'
  BY <1>k DEF Text
<1>1. CASE StartUart
  <2>1. pc = "start" /\ pc' = "full" /\ caller' = "uart_init" /\ UNCHANGED <<received, tx, asked, rate>>
    BY <1>1 DEF StartUart, Call, history
  <2>2. Pending = <<>> /\ Pending' = <<>> /\ Goal = "start"
    BY <2>1 DEF Pending, Goal
  <2> QED BY <1>k, <2>1, <2>2
<1>2. CASE MboxWrite
  <2>1. pc = "full" /\ pc' = "reply" /\ caller' = caller /\ UNCHANGED <<received, tx, asked, rate>>
    BY <1>2 DEF MboxWrite, line, history
  <2>2. Pending = <<>> /\ Pending' = <<>> /\ Goal = caller /\ Goal' = caller
    BY <2>1 DEF Pending, Goal
  <2> QED BY <1>k, <2>1, <2>2
<1>3. CASE MboxRead
  <2>1. /\ pc = "reply" /\ pc' \in {"reply", caller} /\ caller' = caller
        /\ UNCHANGED <<received, tx, asked, rate>>
    BY <1>3 DEF MboxRead, line, history
  <2>2. caller \in {"uart_init", "serial"}
    BY <2>1 DEF Mail
  <2>3. Pending = <<>> /\ Pending' = <<>> /\ Goal = caller /\ Goal' = caller
    BY <2>1, <2>2 DEF Pending, Goal
  <2> QED BY <1>k, <2>1, <2>2, <2>3
<1>4. CASE EnableUart
  <2>1. pc = "uart_init" /\ pc' = "main" /\ UNCHANGED <<received, tx, asked, rate>>
    BY <1>4 DEF EnableUart, history
  <2>2. Pending = <<>> /\ Pending' = <<>> /\ Goal' = "main"
    BY <2>1 DEF Pending, Goal
  <2> QED BY <1>k, <2>1, <2>2
<1>5. CASE AskSerial
  <2>1. pc = "main" /\ pc' = "full" /\ caller' = "serial" /\ UNCHANGED <<received, tx, asked, rate>>
    BY <1>5 DEF AskSerial, Call, history, line
  <2>2. Pending = <<>> /\ Pending' = <<>> /\ Goal' = "serial"
    BY <2>1 DEF Pending, Goal
  <2> QED BY <1>k, <2>1, <2>2
<1>6. CASE ReportSerial
  <2>1. pc \in Labels
    BY <1>6 DEF ReportSerial, Labels
  <2>2. Prompt \in Seq(Codes) /\ OneLine(Prompt)
    BY SimpleCodes DEF Prompt, OneLine
  <2>3. Failed \in Seq(Codes) /\ OneLine(Failed)
    BY SimpleCodes DEF Failed, OneLine, NL
  <2> QED BY <1>6, <2>1, <2>2, <2>3, PutsText DEF ReportSerial
<1>h. ASSUME NEW d \in Word PROVE Hex(d) \in Seq(Codes) /\ OneLine(Hex(d))
  <2>1. Hex(d) \in Seq(Codes) /\ \A k \in DOMAIN Hex(d) : Hex(d)[k] # NL
    BY HexDigits
  <2>2. \A k \in 1 .. Len(Hex(d)) - 1 : k \in DOMAIN Hex(d)
    <3>1. PICK s \in Seq(Codes) : s = Hex(d)
      BY <2>1
    <3>2. DOMAIN s = 1 .. Len(s) /\ Len(s) \in Nat
      OBVIOUS
    <3> QED BY <3>1, <3>2
  <2> QED BY <2>1, <2>2 DEF OneLine
<1>7. CASE PrintHigh
  <2>1. pc \in Labels /\ mbox.high \in Word /\ Puts(Hex(mbox.high), "low")
    BY <1>7 DEF PrintHigh, Labels, Types, Messages
  <2> QED BY <1>h, <2>1, PutsText
<1>8. CASE PrintLow
  <2>1. pc \in Labels /\ mbox.low \in Word /\ Puts(Hex(mbox.low), "newline")
    BY <1>8 DEF PrintLow, Labels, Types, Messages
  <2> QED BY <1>h, <2>1, PutsText
<1>9. CASE PrintNewline
  <2>1. pc \in Labels /\ Puts(<<NL>>, "echo")
    BY <1>9 DEF PrintNewline, Labels
  <2>2. <<NL>> \in Seq(Codes) /\ OneLine(<<NL>>)
    BY SimpleCodes DEF OneLine
  <2> QED BY <2>1, <2>2, PutsText
<1>10. CASE SendStep
  <2>1. /\ pc = "send" /\ next \in {"high", "low", "newline", "echo"} /\ OneLine(todo)
        /\ sent_cr => todo # <<>> /\ Head(todo) = NL
    BY <1>10 DEF SendStep, Numbers, Text
  <2>2. UNCHANGED <<next, received, rate, asked>>
    BY <1>10 DEF SendStep, history
  <2>3. CASE todo = <<>> /\ pc' = next /\ UNCHANGED <<todo, sent_cr, tx>>
    <3>1. Pending = <<>>
      BY <2>1, <2>3 DEF Pending, OnWire
    <3>2. Pending' = <<>> /\ Goal' = next
      BY <2>1, <2>3 DEF Pending, Goal
    <3> QED BY <1>k, <2>1, <2>2, <2>3, <3>1, <3>2
  <2>4. CASE /\ todo # <<>> /\ MaySend /\ UNCHANGED pc
             /\ IF Head(todo) = NL /\ ~sent_cr
                  THEN WriteDr(CR) /\ sent_cr' = TRUE /\ UNCHANGED todo
                  ELSE WriteDr(Head(todo)) /\ sent_cr' = FALSE /\ todo' = Tail(todo)
    <3>1. Head(todo) \in Codes /\ Tail(todo) \in Seq(Codes) /\ CR \in Codes
      BY <1>t, <2>4, SimpleCodes
    <3>2. \A c : WriteDr(c) => tx' = Append(tx, c)
      BY <2>4 DEF WriteDr, MaySend
    <3>3. CASE Head(todo) = NL /\ ~sent_cr
      <4>1. tx' = Append(tx, CR) /\ sent_cr' = TRUE /\ todo' = todo
        BY <2>4, <3>2, <3>3
      <4>2. Pending = OnWire(todo) /\ Pending' = todo
        BY <2>1, <2>4, <3>3, <4>1 DEF Pending
      <4>3. Pending = <<CR>> \o todo
        BY <1>t, <2>1, <2>4, <3>3, <4>2, SendReturn
      <4>4. OneLine(todo') /\ (sent_cr' => todo' # <<>> /\ Head(todo') = NL)
        BY <2>1, <2>4, <3>3, <4>1
      <4> QED BY <1>t, <2>1, <2>2, <2>4, <3>1, <4>1, <4>2, <4>3, <4>4, SendText
    <3>4. CASE Head(todo) = NL /\ sent_cr
      <4>1. tx' = Append(tx, Head(todo)) /\ sent_cr' = FALSE /\ todo' = Tail(todo)
        BY <2>4, <3>2, <3>4
      <4>2. todo = <<NL>> /\ Tail(todo) = <<>>
        BY <1>t, <2>1, <2>4, <3>4, SendReturn
      <4>3. OnWire(<<>>) = <<>> /\ OneLine(<<>>)
        BY DEF OnWire, OneLine
      <4>4. Pending = todo /\ Pending' = <<>>
        BY <2>1, <2>4, <3>4, <4>1, <4>2, <4>3 DEF Pending
      <4>5. Pending = <<Head(todo)>> \o <<>>
        <5>1. <<NL>> \o <<>> = <<NL>>
          BY <1>t, <4>2, ConcatEmptySeq
        <5> QED BY <3>4, <4>2, <4>4, <5>1
      <4>6. OneLine(todo') /\ (sent_cr' => todo' # <<>> /\ Head(todo') = NL)
        BY <4>1, <4>2, <4>3
      <4>7. <<>> \in Seq(Codes)
        BY <3>1, <4>2
      <4> QED BY <2>1, <2>2, <2>4, <3>1, <4>1, <4>4, <4>5, <4>6, <4>7, SendText
    <3>5. CASE Head(todo) # NL
      <4>1. tx' = Append(tx, Head(todo)) /\ sent_cr' = FALSE /\ todo' = Tail(todo) /\ ~sent_cr
        BY <2>1, <2>4, <3>2, <3>5
      <4>2. Pending = OnWire(todo) /\ Pending' = OnWire(Tail(todo))
        BY <2>1, <2>4, <4>1 DEF Pending
      <4>3. Pending = <<Head(todo)>> \o OnWire(Tail(todo)) /\ OneLine(Tail(todo))
        BY <1>t, <2>1, <2>4, <3>5, <4>2, SendFirst
      <4>4. OnWire(Tail(todo)) \in Seq(Codes)
        BY <3>1, WireTyped
      <4>5. OneLine(todo') /\ (sent_cr' => todo' # <<>> /\ Head(todo') = NL)
        BY <4>1, <4>3
      <4> QED BY <2>1, <2>2, <2>4, <3>1, <4>1, <4>2, <4>3, <4>4, <4>5, SendText
    <3> QED BY <3>3, <3>4, <3>5
  <2> QED BY <1>10, <2>3, <2>4 DEF SendStep
<1>11. CASE GetChar
  <2>1. /\ pc = "echo" /\ pc' = "send_echo" /\ rx # <<>> /\ char' = Converted(Head(rx))
        /\ asked' = Append(asked, char') /\ UNCHANGED <<received, tx, rate>>
    BY <1>11 DEF GetChar
  <2>2. char' \in Codes
    BY <1>t, <2>1, SimpleCodes
  <2>3. Pending = <<>> /\ Pending' = <<char'>> /\ Goal' = "echo"
    BY <2>1 DEF Pending, Goal
  <2>4. received \o tx \in Seq(Arriving)
    BY <1>t, CodesArrive, ConcatProperties
  <2>5. rate => received \o tx = asked
    <3>1. (received \o tx) \o <<>> = received \o tx
      BY <2>4, ConcatEmptySeq
    <3> QED BY <2>3, <3>1 DEF Text
  <2>6. asked' = asked \o <<char'>>
    BY <1>t, <2>1, <2>2, AppendIsConcat
  <2>7. rate' => (received' \o tx') \o Pending' = asked'
    BY <2>1, <2>3, <2>5, <2>6
  <2> QED BY <2>1, <2>3, <2>7 DEF Text
<1>12. CASE EchoChar
  <2>1. /\ pc = "send_echo" /\ pc' = "echo" /\ tx' = Append(tx, char)
        /\ UNCHANGED <<received, rate, asked>>
    BY <1>12 DEF EchoChar, WriteDr, MaySend, history
  <2>2. Pending = <<char>> /\ Pending' = <<>> /\ Goal' = "echo"
    BY <2>1 DEF Pending, Goal
  <2>3. <<char>> \o <<>> = <<char>> /\ <<>> \in Seq(Codes)
    <3>1. <<char>> \in Seq(Codes)
      BY <1>t
    <3> QED BY <3>1, ConcatEmptySeq
  <2>4. (received \o tx') \o <<>> = (received \o tx) \o (<<char>> \o <<>>)
    BY <1>t, <2>1, <2>3, Sent
  <2>5. rate' => (received' \o tx') \o Pending' = asked'
    BY <2>1, <2>2, <2>3, <2>4 DEF Text
  <2> QED BY <2>1, <2>2, <2>5 DEF Text
<1>13. CASE Firmware
  <2>1. /\ inbox # <<>> /\ UNCHANGED <<pc, caller, next, todo, sent_cr, char, received, tx, asked>>
        /\ rate' => rate \/ mbox.tag = "clock"
    <3>1. rate' = (rate \/ mbox.tag = "clock") \/ rate' = rate
      BY <1>13, Zenon DEF Firmware
    <3>2. rate' => rate \/ mbox.tag = "clock"
      BY <3>1, Zenon
    <3> QED BY <1>13, <3>2 DEF Firmware, program, history
  <2>2. pc = "reply" /\ caller \in {"uart_init", "serial"}
        /\ (mbox.tag = IF caller = "serial" THEN "serial" ELSE "clock")
    BY <2>1 DEF Mail
  <2>3. Pending = <<>> /\ Pending' = <<>> /\ Goal = caller /\ Goal' = caller
    BY <2>1, <2>2 DEF Pending, Goal
  <2>4. CASE rate' => rate
    BY <1>k, <2>1, <2>2, <2>3, <2>4
  <2>5. CASE mbox.tag = "clock"
    <3>1. received = <<>> /\ tx = <<>> /\ asked = <<>>
      BY <2>2, <2>3, <2>5 DEF Text
    <3>2. (<<>> \o <<>>) \o <<>> = <<>>
      BY ConcatEmptySeq
    <3> QED BY <2>1, <2>2, <2>3, <3>1, <3>2 DEF Text
  <2> QED BY <2>1, <2>4, <2>5
<1>14. CASE Transmit
  <2>1. /\ tx # <<>> /\ tx' = Tail(tx) /\ (rate => received' = Append(received, Head(tx)))
        /\ UNCHANGED <<pc, caller, next, todo, sent_cr, char, rate, asked>>
    BY <1>14 DEF Transmit, program, history
  <2>2. Pending' = Pending /\ Goal' = Goal
    BY <2>1 DEF Pending, Goal, OnWire
  <2>3. rate => received' \o tx' = received \o tx
    BY <1>t, <2>1, Arrived
  <2>4. (OneLine(todo))' <=> OneLine(todo)
    BY <2>1 DEF OneLine
  <2> QED BY <2>1, <2>2, <2>3, <2>4 DEF Text
<1>15. CASE ForeignMessage \/ Type \/ UNCHANGED vars
  <2>1. UNCHANGED <<pc, caller, next, todo, sent_cr, char, rate, received, tx, asked>>
    BY <1>15 DEF ForeignMessage, Type, vars, program, line, history
  <2>2. Pending' = Pending /\ Goal' = Goal
    BY <2>1 DEF Pending, Goal, OnWire
  <2>3. (OneLine(todo))' <=> OneLine(todo)
    BY <2>1 DEF OneLine
  <2> QED BY <2>1, <2>2, <2>3 DEF Text
<1> QED BY <1>1, <1>2, <1>3, <1>4, <1>5, <1>6, <1>7, <1>8, <1>9, <1>10, <1>11, <1>12, <1>13,
           <1>14, <1>15 DEF Next, Program

-----------------------------------------------------------------------------
(* The theorems. *)

ConsoleInv == Types /\ Mail /\ Numbers /\ Text

LEMMA ConsoleInit == Init => ConsoleInv
<1> SUFFICES ASSUME Init PROVE ConsoleInv
  OBVIOUS
<1>1. Types
  <2>1. Request("clock") \in Messages /\ NL \in Codes
    BY RequestTyped, SimpleCodes
  <2> QED BY <2>1 DEF Init, Types, Labels
<1>2. Mail
  BY DEF Init, Mail, NoAnswer
<1>3. Goal = "start" /\ Pending = <<>>
  BY DEF Init, Goal, Pending
<1>4. Numbers
  BY <1>3 DEF Init, Numbers
<1>5. Text
  BY <1>3 DEF Init, Text
<1> QED BY <1>1, <1>2, <1>4, <1>5 DEF ConsoleInv

LEMMA ConsoleAlways == Spec => []ConsoleInv
<1>1. ConsoleInv /\ [Next]_vars => ConsoleInv'
  BY TypesStep, MailStep, NumbersStep, TextStep DEF ConsoleInv
<1> QED BY <1>1, ConsoleInit, PTL DEF Spec

LEMMA NumbersInOrder == Types /\ Mail /\ Numbers => PrintsItsSerial
<1> SUFFICES ASSUME Types, Mail, Numbers PROVE PrintsItsSerial
  OBVIOUS
<1>1. Goal \in Labels
  BY DEF Types, Mail, Numbers, Goal, Labels
<1>2. printed = <<>> \/ printed = <<SerialHigh>> \/ printed = <<SerialHigh, SerialLow>>
  BY <1>1 DEF Numbers, Labels
<1> DEFINE both == <<SerialHigh, SerialLow>>
<1>3. both \in Seq(Word) /\ Len(both) = 2 /\ both[1] = SerialHigh /\ both[2] = SerialLow
  BY Sizes
<1>4. CASE printed = <<>>
  <2>1. Len(printed) = 0 /\ SubSeq(printed, 1, 0) = <<>> /\ SubSeq(both, 1, 0) = <<>>
    BY <1>3, <1>4, EmptySeq, SubSeqProperties
  <2> QED BY <1>3, <2>1 DEF PrintsItsSerial, IsPrefix
<1>5. CASE printed = <<SerialHigh>>
  <2>1. Len(printed) = 1 /\ SubSeq(printed, 1, 1) = SubSeq(both, 1, 1)
    BY <1>3, <1>5, Sizes
  <2> QED BY <1>3, <2>1 DEF PrintsItsSerial, IsPrefix
<1>6. CASE printed = both
  BY <1>3, <1>6 DEF PrintsItsSerial, IsPrefix
<1> QED BY <1>2, <1>4, <1>5, <1>6

\* What main prints as the number of the board is its number: the answer of the firmware
\* is told from its other messages, and the buffer still holds it when its words are
\* printed.
THEOREM PrintsItsSerialAlways == Spec => []PrintsItsSerial
<1>1. ConsoleInv => PrintsItsSerial
  BY NumbersInOrder DEF ConsoleInv
<1> QED BY <1>1, ConsoleAlways, PTL

LEMMA BufferIsFreeStep ==
  ASSUME Types, Mail, [Next]_vars, mbox' # mbox, mbox'.code = "request"
  PROVE  inbox = <<>> /\ \A k \in DOMAIN replies : replies[k] # "ours"
<1>1. StartUart \/ AskSerial \/ Firmware
  BY DEF Next, Program, vars, mail, MboxWrite, MboxRead, EnableUart, ReportSerial, PrintHigh,
         PrintLow, PrintNewline, Puts, SendStep, GetChar, EchoChar, ForeignMessage, Transmit, Type
<1>2. CASE StartUart \/ AskSerial
  <2>1. pc # "reply"
    BY <1>2 DEF StartUart, AskSerial
  <2> QED BY <2>1 DEF Mail, NoAnswer
<1>3. CASE Firmware
  <2>1. \/ mbox' = [code |-> "response", tag |-> "serial", low |-> SerialLow, high |-> SerialHigh]
        \/ mbox' = [mbox EXCEPT !.code = "response"]
        \/ mbox' = [mbox EXCEPT !.code = "error"]
    BY <1>3 DEF Firmware
  <2>2. /\ [mbox EXCEPT !.code = "response"].code = "response"
        /\ [mbox EXCEPT !.code = "error"].code = "error"
    BY AnswerTyped DEF Types
  <2>3. mbox'.code = "response" \/ mbox'.code = "error"
    <3>1. CASE mbox' = [mbox EXCEPT !.code = "response"]
      BY <2>2, <3>1, Zenon
    <3>2. CASE mbox' = [mbox EXCEPT !.code = "error"]
      BY <2>2, <3>2, Zenon
    <3>3. CASE mbox' = [code |-> "response", tag |-> "serial", low |-> SerialLow, high |-> SerialHigh]
      BY <3>3
    <3> QED BY <2>1, <3>1, <3>2, <3>3
  <2> QED BY <2>3
<1> QED BY <1>1, <1>2, <1>3

\* mbox_call fills the buffer only when the firmware is done with the message before and
\* its answer has been read.
THEOREM BufferIsFreeAlways == Spec => BufferIsFree
<1>1. ConsoleInv /\ [Next]_vars =>
        [mbox' # mbox /\ mbox'.code = "request" =>
           inbox = <<>> /\ \A k \in DOMAIN replies : replies[k] # "ours"]_vars
  BY BufferIsFreeStep DEF ConsoleInv
<1> QED BY <1>1, ConsoleAlways, PTL DEF Spec, BufferIsFree

\* At the right rate the terminal gets what was asked for, in order and with nothing left
\* out, whatever the texts, the depth of the transmitter and the speed of the line.
THEOREM TextInOrderAlways == Spec => []TextInOrder
<1>1. ConsoleInv => TextInOrder
  <2> SUFFICES ASSUME ConsoleInv, rate PROVE IsPrefix(received \o tx, asked)
    BY DEF TextInOrder
  <2>1. (received \o tx) \o Pending = asked
    BY DEF ConsoleInv, Text
  <2>2. received \o tx \in Seq(Arriving)
    <3>1. received \in Seq(Arriving) /\ tx \in Seq(Arriving)
      BY CodesArrive, SentTyped DEF ConsoleInv, Types
    <3> QED BY <3>1, ConcatProperties
  <2>3. Pending \in Seq(Codes)
    <3>1. todo \in Seq(Codes) /\ OnWire(todo) \in Seq(Codes) /\ <<char>> \in Seq(Codes)
      BY WireTyped DEF ConsoleInv, Types
    <3> QED BY <3>1 DEF Pending
  <2> QED BY <2>1, <2>2, <2>3, Beginning
<1> QED BY <1>1, ConsoleAlways, PTL

-----------------------------------------------------------------------------
(* The screen: rows and columns. *)

Breaks == {Return, Newline}

\* The newlines of the first n characters, and the last line of these.
Newlines(s, n) == {m \in 1 .. n : s[m] = Newline}
LastLine(s, n) == {m \in DOMAIN s \cap (1 .. n) : \A q \in m .. n : s[q] \notin Breaks}

\* Row and Column of any text.
PrintedOf(s) == {k \in DOMAIN s : s[k] \notin Breaks}
RowOf(s, k) == Cardinality({m \in 1 .. k - 1 : s[m] = Newline})
ColumnOf(s, k) ==
  Cardinality({m \in PrintedOf(s) : m < k /\ \A q \in m .. k - 1 : s[q] \notin Breaks})

\* Where the next character goes is counted in the text before it.
LEMMA Positions ==
  ASSUME NEW s \in Seq(Chars), NEW n \in Nat
  PROVE  /\ RowOf(s, n + 1) = Cardinality(Newlines(s, n))
         /\ ColumnOf(s, n + 1) = Cardinality(LastLine(s, n))
<1>1. (n + 1) - 1 = n
  OBVIOUS
<1>2. {m \in 1 .. (n + 1) - 1 : s[m] = Newline} = Newlines(s, n)
  BY <1>1 DEF Newlines
<1>3. ASSUME NEW m
      PROVE  /\ m \in PrintedOf(s)
             /\ m < n + 1
             /\ \A q \in m .. (n + 1) - 1 : s[q] \notin Breaks
        <=> m \in LastLine(s, n)
  <2>1. DOMAIN s = 1 .. Len(s) /\ Len(s) \in Nat
    OBVIOUS
  <2>2. CASE m \in DOMAIN s /\ m < n + 1
    <3>1. m \in 1 .. n /\ m \in m .. n
      BY <2>1, <2>2
    <3> QED BY <1>1, <2>2, <3>1 DEF LastLine, PrintedOf
  <2>3. CASE ~(m \in DOMAIN s /\ m < n + 1)
    <3>1. m \notin DOMAIN s \cap (1 .. n)
      BY <2>1, <2>3
    <3> QED BY <2>3, <3>1 DEF LastLine, PrintedOf
  <2> QED BY <2>2, <2>3
<1>4. {m \in PrintedOf(s) : m < n + 1 /\ \A q \in m .. (n + 1) - 1 : s[q] \notin Breaks}
        = LastLine(s, n)
  BY <1>3
<1>5. RowOf(s, n + 1) = Cardinality({m \in 1 .. (n + 1) - 1 : s[m] = Newline})
  BY Zenon DEF RowOf
<1>6. ColumnOf(s, n + 1) = Cardinality(
        {m \in PrintedOf(s) : m < n + 1 /\ \A q \in m .. (n + 1) - 1 : s[q] \notin Breaks})
  BY Zenon DEF ColumnOf
<1> QED BY <1>2, <1>4, <1>5, <1>6

\* The places of the characters of a text that goes on.
LEMMA PlacesStay ==
  ASSUME NEW s \in Seq(Chars), NEW c \in Chars, NEW n \in Nat, n <= Len(s)
  PROVE  /\ Newlines(Append(s, c), n) = Newlines(s, n)
         /\ LastLine(Append(s, c), n) = LastLine(s, n)
<1> DEFINE t == Append(s, c)
<1>1. /\ DOMAIN s = 1 .. Len(s) /\ DOMAIN t = 1 .. Len(s) + 1 /\ Len(s) \in Nat
      /\ \A m \in 1 .. Len(s) : t[m] = s[m]
  BY AppendProperties
<1> HIDE DEF t
<1>2. \A m \in 1 .. n : t[m] = s[m] /\ m \in DOMAIN s /\ m \in DOMAIN t
  BY <1>1
<1>3. Newlines(t, n) = Newlines(s, n)
  BY <1>2 DEF Newlines
<1>4. \A m \in 1 .. n : \A q \in m .. n : t[q] = s[q]
  BY <1>2
<1>5. LastLine(t, n) = LastLine(s, n)
  BY <1>2, <1>4 DEF LastLine
<1> QED BY <1>3, <1>5 DEF t

\* The place after a character.
LEMMA NextPlace ==
  ASSUME NEW s \in Seq(Chars), NEW c \in Chars
  PROVE  LET n == Len(s)
             t == Append(s, c)
         IN /\ Cardinality(Newlines(t, n + 1)) =
                 Cardinality(Newlines(s, n)) + (IF c = Newline THEN 1 ELSE 0)
            /\ Cardinality(LastLine(t, n + 1)) =
                 IF c \in Breaks THEN 0 ELSE Cardinality(LastLine(s, n)) + 1
            /\ Cardinality(Newlines(s, n)) \in Nat /\ Cardinality(LastLine(s, n)) \in Nat
<1> DEFINE n == Len(s)
           t == Append(s, c)
<1>1. /\ n \in Nat /\ DOMAIN s = 1 .. n /\ DOMAIN t = 1 .. n + 1
      /\ (\A m \in 1 .. n : t[m] = s[m]) /\ t[n + 1] = c
  BY AppendProperties
<1> HIDE DEF t, n
<1>2. IsFiniteSet(Newlines(s, n)) /\ IsFiniteSet(LastLine(s, n))
  <2>1. IsFiniteSet(1 .. n)
    <3>1. n \in Int /\ 1 \in Int
      BY <1>1
    <3> QED BY <3>1, FS_Interval
  <2>2. Newlines(s, n) \subseteq 1 .. n /\ LastLine(s, n) \subseteq 1 .. n
    BY DEF Newlines, LastLine
  <2> QED BY <2>1, <2>2, FS_Subset
<1>3. Cardinality(Newlines(s, n)) \in Nat /\ Cardinality(LastLine(s, n)) \in Nat
  BY <1>2, FS_CardinalityType
<1>4. Cardinality(Newlines(t, n + 1)) = Cardinality(Newlines(s, n)) + (IF c = Newline THEN 1 ELSE 0)
  <2>1. CASE c = Newline
    <3>1. Newlines(t, n + 1) = Newlines(s, n) \cup {n + 1} /\ n + 1 \notin Newlines(s, n)
      BY <1>1, <2>1 DEF Newlines
    <3> QED BY <1>2, <2>1, <3>1, FS_AddElement
  <2>2. CASE c # Newline
    <3>1. Newlines(t, n + 1) = Newlines(s, n)
      BY <1>1, <2>2 DEF Newlines
    <3> QED BY <1>3, <2>2, <3>1
  <2> QED BY <2>1, <2>2
<1>5. Cardinality(LastLine(t, n + 1)) = IF c \in Breaks THEN 0 ELSE Cardinality(LastLine(s, n)) + 1
  <2>1. CASE c \in Breaks
    <3>1. \A m \in 1 .. n + 1 : n + 1 \in m .. n + 1
      BY <1>1
    <3>2. LastLine(t, n + 1) = {}
      BY <1>1, <2>1, <3>1 DEF LastLine
    <3> QED BY <2>1, <3>2, FS_EmptySet
  <2>2. CASE c \notin Breaks
    <3>1. \A m \in 1 .. n : \A q \in m .. n : t[q] = s[q] /\ q \in m .. n + 1
      BY <1>1
    <3>2. \A m \in 1 .. n + 1 : \A q \in m .. n + 1 : q = n + 1 \/ (m \in 1 .. n /\ q \in m .. n)
      BY <1>1
    <3>3. ASSUME NEW m \in 1 .. n
          PROVE  m \in LastLine(t, n + 1) <=> m \in LastLine(s, n)
      <4>1. m \in DOMAIN s \cap (1 .. n) /\ m \in DOMAIN t \cap (1 .. n + 1) /\ m # n + 1
        BY <1>1
      <4>2. (\A q \in m .. n + 1 : t[q] \notin Breaks) <=> (\A q \in m .. n : s[q] \notin Breaks)
        BY <1>1, <2>2, <3>1, <3>2, <4>1
      <4> QED BY <4>1, <4>2 DEF LastLine
    <3>4. n + 1 \in LastLine(t, n + 1)
      BY <1>1, <2>2, <3>2 DEF LastLine
    <3>5. /\ LastLine(t, n + 1) \subseteq 1 .. n + 1 /\ LastLine(s, n) \subseteq 1 .. n
          /\ 1 .. n + 1 = (1 .. n) \cup {n + 1} /\ n + 1 \notin 1 .. n
      BY <1>1 DEF LastLine
    <3>6. LastLine(t, n + 1) = LastLine(s, n) \cup {n + 1} /\ n + 1 \notin LastLine(s, n)
      BY <3>3, <3>4, <3>5
    <3> QED BY <1>2, <2>2, <3>6, FS_AddElement
  <2> QED BY <2>1, <2>2
<1> QED BY <1>3, <1>4, <1>5 DEF t, n

-----------------------------------------------------------------------------
(* Cells and addresses. *)

Fonts == FontWidth = 8 /\ FontHeight \in Nat \ {0}

ScreenTypes ==
  /\ x \in Nat /\ y \in Nat /\ width \in Nat /\ height \in Nat /\ pitch \in Nat
  /\ framebuffer \in Nat /\ text \in Seq(Chars) /\ pitch >= 4 * width

\* A number is a multiple and a rest in one way only.
LEMMA OneWay ==
  ASSUME NEW p \in Nat, NEW u \in Nat, NEW v \in Nat, NEW r \in Nat, NEW w \in Nat,
         r < p, w < p, u * p + r = v * p + w
  PROVE  u = v /\ r = w
<1>1. ASSUME NEW a \in Nat, NEW b \in Nat, a < b PROVE a * p + p <= b * p
  <2>1. PICK d \in Nat : b = (a + 1) + d
    <3>1. b - (a + 1) \in Nat /\ b = (a + 1) + (b - (a + 1))
      BY <1>1
    <3> QED BY <3>1
  <2>2. b * p = (a * p + p) + d * p
    BY <2>1
  <2>3. d * p \in Nat /\ a * p \in Nat
    OBVIOUS
  <2> QED BY <2>2, <2>3
<1>2. u * p \in Nat /\ v * p \in Nat
  OBVIOUS
<1>3. ~(u < v)
  BY <1>1, <1>2
<1>4. ~(v < u)
  BY <1>1, <1>2
<1>5. u = v
  BY <1>3, <1>4
<1> QED BY <1>2, <1>5

\* A cell that fits is inside the screen.
InScreen(col, row) == col * (FontWidth + 1) + FontWidth <= width /\ (row + 1) * FontHeight <= height

Spot(col, row, i, j) == At(col * (FontWidth + 1) + j, row * FontHeight + i)

LEMMA CellInside ==
  ASSUME Fonts, ScreenTypes, NEW col \in Nat, NEW row \in Nat, InScreen(col, row),
         NEW i \in 0 .. FontHeight - 1, NEW j \in 0 .. FontWidth - 1
  PROVE  /\ col * (FontWidth + 1) + j \in 0 .. width - 1
         /\ row * FontHeight + i \in 0 .. height - 1
<1>1. row * FontHeight \in Nat /\ (row + 1) * FontHeight = row * FontHeight + FontHeight
  BY DEF Fonts
<1>2. row * FontHeight + i \in 0 .. height - 1
  BY <1>1 DEF Fonts, ScreenTypes, InScreen
<1>3. col * (FontWidth + 1) + j \in 0 .. width - 1
  BY DEF Fonts, ScreenTypes, InScreen
<1> QED BY <1>2, <1>3

\* Pixels of the screen have addresses of their own.
LEMMA PixelsApart ==
  ASSUME ScreenTypes, NEW px \in 0 .. width - 1, NEW qx \in 0 .. width - 1,
         NEW py \in Nat, NEW qy \in Nat, At(px, py) = At(qx, qy)
  PROVE  px = qx /\ py = qy
<1>1. py * pitch \in Nat /\ qy * pitch \in Nat
  BY DEF ScreenTypes
<1>2. py * pitch + 4 * px = qy * pitch + 4 * qx
  BY <1>1 DEF At, ScreenTypes
<1>3. 4 * px \in Nat /\ 4 * qx \in Nat /\ 4 * px < pitch /\ 4 * qx < pitch /\ pitch \in Nat
  BY DEF ScreenTypes
<1>4. py = qy /\ 4 * px = 4 * qx
  BY <1>2, <1>3, OneWay
<1> QED BY <1>4 DEF ScreenTypes

\* And so have the pixels of all cells.
LEMMA SpotsApart ==
  ASSUME Fonts, ScreenTypes,
         NEW c1 \in Nat, NEW r1 \in Nat, InScreen(c1, r1),
         NEW c2 \in Nat, NEW r2 \in Nat, InScreen(c2, r2),
         NEW i1 \in 0 .. FontHeight - 1, NEW j1 \in 0 .. FontWidth - 1,
         NEW i2 \in 0 .. FontHeight - 1, NEW j2 \in 0 .. FontWidth - 1,
         Spot(c1, r1, i1, j1) = Spot(c2, r2, i2, j2)
  PROVE  c1 = c2 /\ r1 = r2 /\ i1 = i2 /\ j1 = j2
<1>1. /\ c1 * (FontWidth + 1) + j1 \in 0 .. width - 1 /\ c2 * (FontWidth + 1) + j2 \in 0 .. width - 1
      /\ r1 * FontHeight + i1 \in 0 .. height - 1 /\ r2 * FontHeight + i2 \in 0 .. height - 1
  BY CellInside
<1>2. r1 * FontHeight + i1 \in Nat /\ r2 * FontHeight + i2 \in Nat
  BY <1>1 DEF ScreenTypes
<1>3. /\ c1 * (FontWidth + 1) + j1 = c2 * (FontWidth + 1) + j2
      /\ r1 * FontHeight + i1 = r2 * FontHeight + i2
  BY <1>1, <1>2, PixelsApart DEF Spot
<1>4. c1 = c2 /\ j1 = j2
  BY <1>3 DEF Fonts
<1>5. i1 \in Nat /\ i2 \in Nat /\ i1 < FontHeight /\ i2 < FontHeight /\ FontHeight \in Nat
  BY DEF Fonts
<1>6. r1 = r2 /\ i1 = i2
  BY <1>3, <1>5, OneWay
<1> QED BY <1>4, <1>6

\* What is drawn at the cursor is in the cursor's cell.
LEMMA CursorSpot ==
  ASSUME Fonts, ScreenTypes, NEW i \in 0 .. FontHeight - 1, NEW j \in 0 .. FontWidth - 1
  PROVE  Pixel(i, j) = Spot(x, y, i, j)
<1>1. i \in Nat /\ j \in Nat /\ FontHeight \in Nat
  BY DEF Fonts
<1>2. (y * FontHeight + i) * pitch = y * FontHeight * pitch + i * pitch
  BY <1>1 DEF ScreenTypes
<1>3. y * FontHeight * pitch \in Nat /\ i * pitch \in Nat
  BY <1>1 DEF ScreenTypes
<1> QED BY <1>1, <1>2, <1>3 DEF ScreenTypes, Fonts, Pixel, Offset, Spot, At

-----------------------------------------------------------------------------
(* The screen after one more character. *)

\* TextOnScreen of any text and pixels.
Uncovered(s, k) ==
  \A m \in PrintedOf(s) :
    m > k => <<RowOf(s, m), ColumnOf(s, m)>> # <<RowOf(s, k), ColumnOf(s, k)>>

CellShows(pixels, col, row, c) ==
  \A i \in 0 .. FontHeight - 1, j \in 0 .. FontWidth - 1 :
    LET a == Spot(col, row, i, j) IN a \in DOMAIN pixels /\ pixels[a] = Shows(c, i, j)

AllFit(s) == \A k \in PrintedOf(s) : InScreen(ColumnOf(s, k), RowOf(s, k))

Shown(s, pixels) ==
  AllFit(s) =>
    /\ DOMAIN pixels \subseteq ScreenBytes
    /\ \A k \in PrintedOf(s) :
         Uncovered(s, k) => CellShows(pixels, ColumnOf(s, k), RowOf(s, k), s[k])

LEMMA ShownIsOnScreen == TextOnScreen <=> Shown(text, mem)
<1>1. \A k : Row(k) = RowOf(text, k)
  BY DEF Row, RowOf
<1>2. Printed = PrintedOf(text)
  BY DEF Printed, PrintedOf, Breaks
<1>3. \A k : Column(k) = ColumnOf(text, k)
  BY <1>2 DEF Column, ColumnOf, Breaks
<1>4. \A k : Fits(k) <=> InScreen(ColumnOf(text, k), RowOf(text, k))
  BY <1>1, <1>3 DEF Fits, InScreen
<1>5. TextOnScreen <=>
        ((\A k \in PrintedOf(text) : InScreen(ColumnOf(text, k), RowOf(text, k))) =>
           /\ DOMAIN mem \subseteq ScreenBytes
           /\ \A k \in PrintedOf(text) :
                (\A m \in PrintedOf(text) : m > k =>
                   <<RowOf(text, m), ColumnOf(text, m)>> # <<RowOf(text, k), ColumnOf(text, k)>>) =>
                  \A i \in 0 .. FontHeight - 1, j \in 0 .. FontWidth - 1 :
                    LET a == At(ColumnOf(text, k) * (FontWidth + 1) + j, RowOf(text, k) * FontHeight + i)
                    IN a \in DOMAIN mem /\ mem[a] = Shows(text[k], i, j))
  BY <1>1, <1>2, <1>3, <1>4 DEF TextOnScreen
<1> QED BY <1>5 DEF Shown, AllFit, Uncovered, CellShows, Spot

Cursor ==
  /\ x = Cardinality(LastLine(text, Len(text)))
  /\ y = Cardinality(Newlines(text, Len(text)))

\* The pixels after a character was drawn.
Cell == {Pixel(i, j) : i \in 0 .. FontHeight - 1, j \in 0 .. FontWidth - 1}
Drawn(c) ==
  LET cell == {Pixel(i, j) : i \in 0 .. FontHeight - 1, j \in 0 .. FontWidth - 1}
  IN [a \in cell \cup DOMAIN mem |->
        IF a \in cell
          THEN \E i \in 0 .. FontHeight - 1, j \in 0 .. FontWidth - 1 :
                 a = Pixel(i, j) /\ Lit(c, i, j)
          ELSE mem[a]]

LEMMA DrawnPixels ==
  ASSUME Fonts, ScreenTypes, InScreen(x, y), NEW c
  PROVE  /\ \A a : a \in DOMAIN Drawn(c) <=>
              \/ a \in DOMAIN mem
              \/ \E i \in 0 .. FontHeight - 1, j \in 0 .. FontWidth - 1 : a = Spot(x, y, i, j)
         /\ CellShows(Drawn(c), x, y, c)
         /\ \A a \in DOMAIN mem :
              (\A i \in 0 .. FontHeight - 1, j \in 0 .. FontWidth - 1 : a # Spot(x, y, i, j)) =>
                Drawn(c)[a] = mem[a]
<1> DEFINE d == Drawn(c)
<1> DEFINE lit(a) == \E i \in 0 .. FontHeight - 1, j \in 0 .. FontWidth - 1 : a = Pixel(i, j) /\ Lit(c, i, j)
<1>1. /\ DOMAIN d = Cell \cup DOMAIN mem
      /\ \A a \in Cell : d[a] = lit(a)
      /\ \A a \in DOMAIN mem : a \notin Cell => d[a] = mem[a]
  <2>1. d = [a \in Cell \cup DOMAIN mem |-> IF a \in Cell THEN lit(a) ELSE mem[a]]
    BY DEF Drawn, Cell
  <2> HIDE DEF d, lit
  <2> QED BY <2>1
<1> HIDE DEF d
<1>2. \A a : a \in Cell <=>
        \E i \in 0 .. FontHeight - 1, j \in 0 .. FontWidth - 1 : a = Spot(x, y, i, j)
  BY CursorSpot DEF Cell
<1>3. ASSUME NEW i \in 0 .. FontHeight - 1, NEW j \in 0 .. FontWidth - 1
      PROVE  Spot(x, y, i, j) \in Cell /\ d[Spot(x, y, i, j)] = Shows(c, i, j)
  <2> DEFINE a == Spot(x, y, i, j)
  <2>1. a = Pixel(i, j) /\ a \in Cell
    BY CursorSpot DEF Cell
  <2>2. x \in Nat /\ y \in Nat
    BY DEF ScreenTypes
  <2>3. ASSUME NEW k \in 0 .. FontHeight - 1, NEW l \in 0 .. FontWidth - 1, a = Pixel(k, l)
        PROVE  k = i /\ l = j
    <3>1. Spot(x, y, i, j) = Spot(x, y, k, l)
      BY <2>3, CursorSpot
    <3> QED BY <2>2, <3>1, SpotsApart
  <2>4. d[a] = \E k \in 0 .. FontHeight - 1, l \in 0 .. FontWidth - 1 : a = Pixel(k, l) /\ Lit(c, k, l)
    BY <1>1, <2>1
  <2>5. (\E k \in 0 .. FontHeight - 1, l \in 0 .. FontWidth - 1 : a = Pixel(k, l) /\ Lit(c, k, l))
          <=> Lit(c, i, j)
    <3> HIDE DEF a
    <3>1. Lit(c, i, j) =>
            \E k \in 0 .. FontHeight - 1, l \in 0 .. FontWidth - 1 : a = Pixel(k, l) /\ Lit(c, k, l)
      BY <2>1
    <3>2. ASSUME NEW k \in 0 .. FontHeight - 1, NEW l \in 0 .. FontWidth - 1,
                 a = Pixel(k, l), Lit(c, k, l)
          PROVE  Lit(c, i, j)
      BY <2>3, <3>2, Zenon
    <3> QED BY <3>1, <3>2
  <2>6. Lit(c, i, j) <=> 7 - j \in Glyph(c)[i]
    <3>1. FontWidth - 1 - j = 7 - j
      BY DEF Fonts
    <3> QED BY <3>1 DEF Lit
  <2>7. d[a] = (7 - j \in Glyph(c)[i])
    <3>1. CASE 7 - j \in Glyph(c)[i]
      <4>1. \E k \in 0 .. FontHeight - 1, l \in 0 .. FontWidth - 1 : a = Pixel(k, l) /\ Lit(c, k, l)
        BY <2>5, <2>6, <3>1
      <4>2. d[a] = TRUE
        BY <2>4, <4>1
      <4> QED BY <3>1, <4>2
    <3>2. CASE 7 - j \notin Glyph(c)[i]
      <4>1. ~\E k \in 0 .. FontHeight - 1, l \in 0 .. FontWidth - 1 : a = Pixel(k, l) /\ Lit(c, k, l)
        BY <2>5, <2>6, <3>2
      <4>2. d[a] = FALSE
        BY <2>4, <4>1
      <4>3. (7 - j \in Glyph(c)[i]) = FALSE
        BY <3>2
      <4> QED BY <4>2, <4>3
    <3> QED BY <3>1, <3>2
  <2> QED BY <2>1, <2>7 DEF Shows
<1>4. CellShows(d, x, y, c)
  BY <1>1, <1>3 DEF CellShows
<1>5. \A a : a \in DOMAIN d <=> a \in DOMAIN mem \/ a \in Cell
  BY <1>1
<1>6. \A a \in DOMAIN mem : a \notin Cell => d[a] = mem[a]
  BY <1>1
<1> QED BY <1>2, <1>4, <1>5, <1>6 DEF d

LEMMA CountsTyped ==
  ASSUME NEW s \in Seq(Chars), NEW n \in Nat
  PROVE  Cardinality(Newlines(s, n)) \in Nat /\ Cardinality(LastLine(s, n)) \in Nat
<1>1. IsFiniteSet(1 .. n)
  BY FS_Interval
<1>2. Newlines(s, n) \subseteq 1 .. n /\ LastLine(s, n) \subseteq 1 .. n
  BY DEF Newlines, LastLine
<1> QED BY <1>1, <1>2, FS_Subset, FS_CardinalityType

\* The characters of a text that goes on stay where they are.
LEMMA Growing ==
  ASSUME NEW s \in Seq(Chars), NEW c \in Chars
  PROVE  LET t == Append(s, c)
             n == Len(s)
         IN /\ PrintedOf(t) = IF c \in Breaks THEN PrintedOf(s) ELSE PrintedOf(s) \cup {n + 1}
            /\ n \in Nat /\ t[n + 1] = c
            /\ RowOf(t, n + 1) = Cardinality(Newlines(s, n))
            /\ ColumnOf(t, n + 1) = Cardinality(LastLine(s, n))
            /\ \A k \in PrintedOf(s) :
                 /\ k \in 1 .. n /\ t[k] = s[k]
                 /\ RowOf(t, k) = RowOf(s, k) /\ ColumnOf(t, k) = ColumnOf(s, k)
                 /\ RowOf(s, k) \in Nat /\ ColumnOf(s, k) \in Nat
<1> DEFINE t == Append(s, c)
           n == Len(s)
<1>1. /\ n \in Nat /\ DOMAIN s = 1 .. n /\ DOMAIN t = 1 .. n + 1 /\ t \in Seq(Chars)
      /\ (\A m \in 1 .. n : t[m] = s[m]) /\ t[n + 1] = c
  BY AppendProperties
<1>2. ASSUME NEW m \in Nat, m <= n
      PROVE  /\ RowOf(t, m + 1) = Cardinality(Newlines(s, m))
             /\ ColumnOf(t, m + 1) = Cardinality(LastLine(s, m))
             /\ RowOf(s, m + 1) = Cardinality(Newlines(s, m))
             /\ ColumnOf(s, m + 1) = Cardinality(LastLine(s, m))
  <2>1. Newlines(t, m) = Newlines(s, m) /\ LastLine(t, m) = LastLine(s, m)
    BY <1>2, PlacesStay
  <2> QED BY <1>1, <2>1, Positions
<1> HIDE DEF t, n
<1>3. PrintedOf(t) = IF c \in Breaks THEN PrintedOf(s) ELSE PrintedOf(s) \cup {n + 1}
  <2>1. \A m \in 1 .. n + 1 : m \in 1 .. n \/ m = n + 1
    BY <1>1
  <2>2. n + 1 \notin 1 .. n /\ n + 1 \in 1 .. n + 1 /\ 1 .. n \subseteq 1 .. n + 1
    BY <1>1
  <2>3. \A m : m \in PrintedOf(t) <=> m \in PrintedOf(s) \/ (m = n + 1 /\ c \notin Breaks)
    BY <1>1, <2>1, <2>2 DEF PrintedOf
  <2>4. CASE c \in Breaks
    BY <2>3, <2>4
  <2>5. CASE c \notin Breaks
    BY <2>3, <2>5
  <2> QED BY <2>4, <2>5
<1>4. ASSUME NEW k \in PrintedOf(s)
      PROVE  /\ k \in 1 .. n /\ t[k] = s[k]
             /\ RowOf(t, k) = RowOf(s, k) /\ ColumnOf(t, k) = ColumnOf(s, k)
             /\ RowOf(s, k) \in Nat /\ ColumnOf(s, k) \in Nat
  <2>1. k \in 1 .. n /\ t[k] = s[k]
    BY <1>1 DEF PrintedOf
  <2>2. PICK m \in Nat : k = m + 1 /\ m <= n
    <3>1. k - 1 \in Nat /\ k = (k - 1) + 1 /\ k - 1 <= n
      BY <1>1, <2>1
    <3> QED BY <3>1
  <2> QED BY <1>2, <2>1, <2>2, CountsTyped
<1>5. n \in Nat /\ n <= n
  BY <1>1
<1>6. RowOf(t, n + 1) = Cardinality(Newlines(s, n)) /\ ColumnOf(t, n + 1) = Cardinality(LastLine(s, n))
  BY <1>2, <1>5
<1> QED BY <1>1, <1>3, <1>4, <1>6 DEF t, n

\* A character that is drawn shows, and hides only what was in its cell.
LEMMA DrawnShown ==
  ASSUME Fonts, ScreenTypes, Cursor, Shown(text, mem), NEW c \in Chars, c \notin Breaks
  PROVE  Shown(Append(text, c), Drawn(c))
<1> DEFINE t == Append(text, c)
           n == Len(text)
           d == Drawn(c)
<1>1. /\ PrintedOf(t) = PrintedOf(text) \cup {n + 1}
      /\ n \in Nat /\ t[n + 1] = c /\ RowOf(t, n + 1) = y /\ ColumnOf(t, n + 1) = x
      /\ \A k \in PrintedOf(text) :
           /\ k \in 1 .. n /\ t[k] = text[k]
           /\ RowOf(t, k) = RowOf(text, k) /\ ColumnOf(t, k) = ColumnOf(text, k)
           /\ RowOf(text, k) \in Nat /\ ColumnOf(text, k) \in Nat
  BY Growing DEF ScreenTypes, Cursor
<1>2. text \in Seq(Chars) /\ x \in Nat /\ y \in Nat
  BY DEF ScreenTypes
<1> HIDE DEF t, n, d
<1> SUFFICES ASSUME AllFit(t)
             PROVE  /\ DOMAIN d \subseteq ScreenBytes
                    /\ \A k \in PrintedOf(t) :
                         Uncovered(t, k) => CellShows(d, ColumnOf(t, k), RowOf(t, k), t[k])
  BY DEF Shown, t, d
<1>3. InScreen(x, y) /\ AllFit(text)
  BY <1>1 DEF AllFit
<1>4. /\ \A a : a \in DOMAIN d <=>
           \/ a \in DOMAIN mem
           \/ \E i \in 0 .. FontHeight - 1, j \in 0 .. FontWidth - 1 : a = Spot(x, y, i, j)
      /\ CellShows(d, x, y, c)
      /\ \A a \in DOMAIN mem :
           (\A i \in 0 .. FontHeight - 1, j \in 0 .. FontWidth - 1 : a # Spot(x, y, i, j)) =>
             d[a] = mem[a]
  BY <1>3, DrawnPixels DEF d
<1>5. DOMAIN mem \subseteq ScreenBytes
  BY <1>3 DEF Shown
<1>6. ASSUME NEW i \in 0 .. FontHeight - 1, NEW j \in 0 .. FontWidth - 1
      PROVE  Spot(x, y, i, j) \in ScreenBytes
  <2>1. x * (FontWidth + 1) + j \in 0 .. width - 1 /\ y * FontHeight + i \in 0 .. height - 1
    BY <1>2, <1>3, CellInside
  <2> QED BY <2>1 DEF Spot, ScreenBytes
<1>7. DOMAIN d \subseteq ScreenBytes
  BY <1>4, <1>5, <1>6
<1>8. ASSUME NEW k \in PrintedOf(text), Uncovered(t, k)
      PROVE  CellShows(d, ColumnOf(text, k), RowOf(text, k), text[k])
  <2> DEFINE col == ColumnOf(text, k)
             row == RowOf(text, k)
  <2>1. Uncovered(text, k)
    BY <1>1, <1>8 DEF Uncovered
  <2>2. CellShows(mem, col, row, text[k])
    BY <1>3, <2>1 DEF Shown
  <2>3. <<row, col>> # <<y, x>>
    <3>1. n + 1 > k /\ n + 1 \in PrintedOf(t)
      BY <1>1
    <3>2. <<RowOf(t, n + 1), ColumnOf(t, n + 1)>> # <<RowOf(t, k), ColumnOf(t, k)>>
      BY <1>8, <3>1 DEF Uncovered
    <3> QED BY <1>1, <3>2
  <2>4. InScreen(col, row) /\ col \in Nat /\ row \in Nat
    BY <1>1, <1>3 DEF AllFit
  <2> HIDE DEF col, row
  <2>5. ASSUME NEW i \in 0 .. FontHeight - 1, NEW j \in 0 .. FontWidth - 1,
               NEW u \in 0 .. FontHeight - 1, NEW v \in 0 .. FontWidth - 1
        PROVE  Spot(col, row, i, j) # Spot(x, y, u, v)
    BY <1>2, <1>3, <2>3, <2>4, SpotsApart
  <2>6. ASSUME NEW i \in 0 .. FontHeight - 1, NEW j \in 0 .. FontWidth - 1
        PROVE  LET a == Spot(col, row, i, j) IN a \in DOMAIN d /\ d[a] = Shows(text[k], i, j)
    <3> DEFINE a == Spot(col, row, i, j)
    <3>1. a \in DOMAIN mem /\ mem[a] = Shows(text[k], i, j)
      BY <2>2 DEF CellShows
    <3>2. \A u \in 0 .. FontHeight - 1, v \in 0 .. FontWidth - 1 : a # Spot(x, y, u, v)
      BY <2>5
    <3> HIDE DEF a
    <3>3. a \in DOMAIN d /\ d[a] = mem[a]
      BY <1>4, <3>1, <3>2
    <3> QED BY <3>1, <3>3 DEF a
  <2> QED BY <2>6 DEF CellShows, col, row
<1>9. ASSUME NEW k \in PrintedOf(t), Uncovered(t, k)
      PROVE  CellShows(d, ColumnOf(t, k), RowOf(t, k), t[k])
  <2>1. CASE k = n + 1
    BY <1>1, <1>4, <2>1
  <2>2. CASE k \in PrintedOf(text)
    BY <1>1, <1>8, <1>9, <2>2
  <2> QED BY <1>1, <2>1, <2>2
<1> QED BY <1>7, <1>9

\* Return and newline only move the cursor.
LEMMA BreakShown ==
  ASSUME ScreenTypes, Shown(text, mem), NEW c \in Chars, c \in Breaks
  PROVE  Shown(Append(text, c), mem)
<1> DEFINE t == Append(text, c)
<1>1. /\ PrintedOf(t) = PrintedOf(text)
      /\ \A k \in PrintedOf(text) :
           /\ t[k] = text[k]
           /\ RowOf(t, k) = RowOf(text, k) /\ ColumnOf(t, k) = ColumnOf(text, k)
  BY Growing DEF ScreenTypes
<1> HIDE DEF t
<1>2. AllFit(t) => AllFit(text)
  BY <1>1 DEF AllFit
<1>3. \A k \in PrintedOf(t) : Uncovered(t, k) => Uncovered(text, k)
  BY <1>1 DEF Uncovered
<1>4. Shown(t, mem)
  BY <1>1, <1>2, <1>3 DEF Shown
<1> QED BY <1>4 DEF t

-----------------------------------------------------------------------------

ScreenInv == ScreenTypes /\ Cursor /\ Shown(text, mem)

LEMMA EmptyScreen == text = <<>> /\ mem = <<>> /\ x = 0 /\ y = 0 => Cursor /\ Shown(text, mem)
<1> SUFFICES ASSUME text = <<>>, mem = <<>>, x = 0, y = 0 PROVE Cursor /\ Shown(text, mem)
  OBVIOUS
<1>1. Len(text) = 0 /\ DOMAIN text = {} /\ DOMAIN mem = {}
  OBVIOUS
<1>2. Newlines(text, 0) = {} /\ LastLine(text, 0) = {}
  BY <1>1 DEF Newlines, LastLine
<1>3. Cursor
  BY <1>1, <1>2, FS_EmptySet DEF Cursor
<1>4. PrintedOf(text) = {}
  BY <1>1 DEF PrintedOf
<1> QED BY <1>1, <1>3, <1>4 DEF Shown

\* The frame buffer is the same for the characters that are on it.
LEMMA SameBuffer ==
  ASSUME UNCHANGED <<width, height, pitch, framebuffer>>, Shown(text', mem')
  PROVE  Shown(text, mem)'
<1>1. \A px, py : At(px, py)' = At(px, py)
  BY DEF At
<1>2. ScreenBytes' = ScreenBytes
  BY DEF ScreenBytes, At
<1>3. \A col, row, i, j : Spot(col, row, i, j)' = Spot(col, row, i, j)
  BY <1>1 DEF Spot
<1>4. \A col, row : InScreen(col, row)' <=> InScreen(col, row)
  BY DEF InScreen
<1>5. AllFit(text)' <=> AllFit(text')
  BY <1>4 DEF AllFit
<1>6. \A col, row, c : CellShows(mem, col, row, c)' <=> CellShows(mem', col, row, c)
  BY <1>3 DEF CellShows
<1>7. \A k : Uncovered(text, k)' <=> Uncovered(text', k)
  BY DEF Uncovered
<1> QED BY <1>2, <1>5, <1>6, <1>7 DEF Shown

LEMMA ScreenInitInv == ScreenInit => ScreenInv
<1> SUFFICES ASSUME ScreenInit PROVE ScreenInv
  OBVIOUS
<1>1. ScreenTypes
  BY DEF ScreenInit, ScreenTypes
<1>2. Cursor /\ Shown(text, mem)
  BY EmptyScreen DEF ScreenInit
<1> QED BY <1>1, <1>2 DEF ScreenInv

LEMMA ScreenStep == Fonts /\ ScreenInv /\ [ScreenNext]_screenVars => ScreenInv'
<1> SUFFICES ASSUME Fonts, ScreenInv, [ScreenNext]_screenVars PROVE ScreenInv'
  OBVIOUS
<1>0. ScreenTypes /\ Cursor /\ Shown(text, mem)
  BY DEF ScreenInv
<1>1. CASE screen_init
  <2>1. x' = 0 /\ y' = 0 /\ text' = <<>> /\ mem' = <<>>
    BY <1>1 DEF screen_init, Home
  <2>2. (Cursor /\ Shown(text, mem))'
    <3>1. (text = <<>> /\ mem = <<>> /\ x = 0 /\ y = 0)'
      BY <2>1
    <3> QED BY <3>1, EmptyScreen, PTL
  <2>3. /\ width' \in Nat /\ height' \in Nat /\ pitch' \in Nat /\ framebuffer' \in Nat
        /\ pitch' >= 4 * width'
    <3>1. CASE Refused
      BY <1>0, <3>1 DEF Refused, ScreenTypes
    <3>2. ASSUME NEW g \in Grants, Granted(g)
          PROVE  /\ width' \in Nat /\ height' \in Nat /\ pitch' \in Nat /\ framebuffer' \in Nat
                 /\ pitch' >= 4 * width'
      <4>1. /\ {g.bus, g.width, g.height, g.pitch} \subseteq Nat /\ g.pitch >= 4 * g.width
            /\ BusBit \in Nat \ {0}
        BY ScreenAssumption
      <4>2. g.bus % BusBit \in Nat
        BY <4>1
      <4> QED BY <3>2, <4>1, <4>2 DEF Granted
    <3> QED BY <1>1, <3>1, <3>2 DEF screen_init
  <2>4. ScreenTypes'
    <3>1. <<>> \in Seq(Chars)
      OBVIOUS
    <3> QED BY <2>1, <2>3, <3>1 DEF ScreenTypes
  <2> QED BY <2>2, <2>4 DEF ScreenInv
<1>2. CASE screen_print
  <2>1. PICK c \in Chars : PutChar(c) /\ text' = Append(text, c)
    BY <1>2 DEF screen_print
  <2>2. UNCHANGED <<width, height, pitch, framebuffer>>
    BY <1>2 DEF screen_print
  <2>3. text \in Seq(Chars) /\ text' \in Seq(Chars) /\ Len(text') = Len(text) + 1
    BY <1>0, <2>1, AppendProperties DEF ScreenTypes
  <2> DEFINE n == Len(text)
  <2>4. /\ Cardinality(Newlines(text', Len(text'))) = y + (IF c = Newline THEN 1 ELSE 0)
        /\ Cardinality(LastLine(text', Len(text'))) = IF c \in Breaks THEN 0 ELSE x + 1
    BY <1>0, <2>1, <2>3, NextPlace DEF Cursor
  <2>5. x \in Nat /\ y \in Nat
    BY <1>0 DEF ScreenTypes
  <2>6. CASE c \in Breaks
    <3>1. x' = 0 /\ y' = y + (IF c = Newline THEN 1 ELSE 0) /\ mem' = mem
      BY <2>1, <2>5, <2>6 DEF PutChar, Breaks, Return, Newline
    <3>2. Shown(text', mem')
      BY <1>0, <2>1, <2>6, <3>1, BreakShown
    <3>3. Cursor' /\ ScreenTypes'
      BY <1>0, <2>2, <2>3, <2>4, <2>5, <2>6, <3>1 DEF ScreenTypes, Cursor
    <3> QED BY <2>2, <3>2, <3>3, SameBuffer DEF ScreenInv
  <2>7. CASE c \notin Breaks
    <3>1. x' = x + 1 /\ y' = y /\ mem' = Drawn(c)
      <4>1. x' = x + 1 /\ y' = y /\ Draw(c)
        BY <2>1, <2>7 DEF PutChar, Breaks
      <4>2. mem' = Drawn(c)
        BY <4>1 DEF Draw, Drawn
      <4> QED BY <4>1, <4>2
    <3>2. Shown(text', mem')
      BY <1>0, <2>1, <2>7, <3>1, DrawnShown
    <3>3. Cursor'
      <4>1. c # Newline
        BY <2>7 DEF Breaks
      <4> QED BY <2>4, <2>5, <2>7, <3>1, <4>1 DEF Cursor
    <3>4. ScreenTypes'
      BY <1>0, <2>2, <2>3, <2>5, <3>1 DEF ScreenTypes
    <3> QED BY <2>2, <3>2, <3>3, <3>4, SameBuffer DEF ScreenInv
  <2> QED BY <2>6, <2>7
<1>3. CASE UNCHANGED screenVars
  <2>1. UNCHANGED <<x, y, width, height, pitch, framebuffer, mem, text>>
    BY <1>3 DEF screenVars
  <2>2. Shown(text', mem') /\ Cursor' /\ ScreenTypes'
    BY <1>0, <2>1 DEF Cursor, ScreenTypes
  <2> QED BY <2>1, <2>2, SameBuffer DEF ScreenInv
<1> QED BY <1>1, <1>2, <1>3 DEF ScreenNext

\* A text that fits is on the screen, in the glyphs of a font of eight columns, as that of
\* the repository, of any height: for every place, size and pitch of the frame buffer.
THEOREM TextOnScreenAlways ==
  ASSUME FontWidth = 8
  PROVE  ScreenSpec => []TextOnScreen
<1>1. Fonts
  BY ScreenAssumption DEF Fonts
<1>2. ScreenInv /\ [ScreenNext]_screenVars => ScreenInv'
  BY <1>1, ScreenStep
<1>3. ScreenInv => TextOnScreen
  BY ShownIsOnScreen DEF ScreenInv
<1> QED BY <1>2, <1>3, ScreenInitInv, PTL DEF ScreenSpec
=============================================================================
