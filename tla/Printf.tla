------------------------------- MODULE Printf -------------------------------
(***************************************************************************)
(* The printf of the loader (elf-boot/printf.c): _vsnprintf over a format, *)
(* item by item, into a buffer of limited length or to _putchar, with the  *)
(* conversion of integers, characters and strings.  Floating point is left *)
(* out.                                                                    *)
(*                                                                         *)
(* A format is a sequence of items, already split into their fields: a     *)
(* plain character, or a record of flags, width, precision, length,        *)
(* conversion and argument.  A character is a string of length one; NUL is *)
(* the character 0.  Integers have a width of their own, a buffer for      *)
(* their digits has BufferSize characters.                                 *)
(***************************************************************************)
EXTENDS Integers, Sequences, SequencesExt

CONSTANTS
  Formats,       \* the formats that are printed
  Counts,        \* lengths of a buffer
  BufferSize,    \* PRINTF_NTOA_BUFFER_SIZE (32)
  SizeOf         \* the values of "char", "short", "int" and "long" (2^8 .. 2^64)

NUL == "NUL"

Types == {"char", "short", "int", "long"}
AllFlags == {"ZEROPAD", "LEFT", "PLUS", "SPACE", "HASH", "PRECISION"}

\* The arguments a conversion is called with; a pointer is an unsigned number.
Arguments(conv) ==
  CASE conv \in {"plain", "c"} -> STRING
    [] conv = "s" -> Seq(STRING)
    [] conv = "p" -> 0 .. SizeOf["long"] - 1
    [] OTHER -> Int

IsItem(item) ==
  /\ item.conv \in {"plain", "c", "s", "p", "d", "u", "x", "X", "o", "b"}
  /\ item.arg \in Arguments(item.conv)
  /\ item.conv # "plain" =>
       /\ item.flags \subseteq AllFlags /\ item.width \in Int /\ item.prec \in Int /\ item.len \in Types
       /\ "PRECISION" \notin item.flags => item.prec = 0

ASSUME PrintfAssumption ==
  /\ BufferSize \in Nat \ {0} /\ Counts \subseteq Nat
  /\ SizeOf \in [Types -> Nat \ {0, 1}] /\ \A t \in Types : SizeOf[t] <= SizeOf["long"]
  /\ \A f \in Formats : f \in Seq(Range(f)) /\ \A j \in DOMAIN f : IsItem(f[j])

\* What the provers do not know of powers, up to one that no number reaches.
ASSUME PowersAssumption ==
  \A base \in {2, 8, 10, 16} : \E d \in 1 .. SizeOf["long"] :
    /\ base ^ d >= SizeOf["long"] /\ base ^ 0 = 1
    /\ \A n \in 0 .. d - 1 : base ^ (n + 1) = base * base ^ n

VARIABLES
  format,          \* the format, of which item number k is next
  k, idx,
  sink, maxlen,    \* where the characters go
  buffer,          \* what is in it, by index
  console,         \* what _putchar got
  ret              \* -2: no call, -1: in _vsnprintf

printfVars == <<format, k, idx, sink, maxlen, buffer, console, ret>>

PrintfInit ==
  /\ format = <<>> /\ k = 1 /\ idx = 0 /\ sink = "null" /\ maxlen = 0
  /\ buffer = <<>> /\ console = <<>> /\ ret = -2

\* printf_ and vprintf_; sprintf_; snprintf_ and vsnprintf_, also without a buffer.
CallPrintf ==
  /\ ret = -2 /\ ret' = -1 /\ format' \in Formats
  /\ \/ sink' = "putchar" /\ maxlen' = SizeOf["long"] - 1
     \/ sink' = "buffer" /\ maxlen' \in Counts \cup {SizeOf["long"] - 1}
     \/ sink' = "null" /\ maxlen' \in Counts
  /\ UNCHANGED <<k, idx, buffer, console>>

\* The call is over; what it left is not looked at any more.
ReturnPrintf ==
  /\ ret >= 0 /\ ret' = -2
  /\ format' = <<>> /\ k' = 1 /\ idx' = 0 /\ sink' = "null" /\ maxlen' = 0
  /\ buffer' = <<>> /\ console' = <<>>

-----------------------------------------------------------------------------
(* Sequences of characters. *)

DigitChars == <<"0", "1", "2", "3", "4", "5", "6", "7", "8", "9", "a", "b", "c", "d", "e", "f">>
UpperChars == <<"0", "1", "2", "3", "4", "5", "6", "7", "8", "9", "A", "B", "C", "D", "E", "F">>

Times(c, n) == [j \in 1 .. IF n > 0 THEN n ELSE 0 |-> c]

\* How many digits v has, and the digits, the lowest first.
Count(v, base) ==
  CHOOSE n \in 1 .. SizeOf["long"] : v < base ^ n /\ \A m \in 1 .. n - 1 : v >= base ^ m
DigitsOf(v, base, upper) ==
  [j \in 1 .. Count(v, base) |->
     (IF upper THEN UpperChars ELSE DigitChars)[((v \div base ^ (j - 1)) % base) + 1]]

-----------------------------------------------------------------------------
(* _out_rev, _ntoa_format, _ntoa_long and _ntoa_long_long.  buf has the number from its end. *)

OutRev(buf, width, flags) ==
  (IF flags \cap {"LEFT", "ZEROPAD"} = {} THEN Times(" ", width - Len(buf)) ELSE <<>>)
    \o Reverse(buf)
    \o (IF "LEFT" \in flags THEN Times(" ", width - Len(buf)) ELSE <<>>)

Room(buf) == Len(buf) < BufferSize
AppendIf(cond, buf, c) == IF cond /\ Room(buf) THEN Append(buf, c) ELSE buf
FillTo(buf, n, c) == buf \o Times(c, (IF n < BufferSize THEN n ELSE BufferSize) - Len(buf))

\* The width left for zeros when a sign needs a place.
ZeroWidth(negative, width, flags) ==
  IF width > 0 /\ {"LEFT", "ZEROPAD"} \cap flags = {"ZEROPAD"}
     /\ (negative \/ flags \cap {"PLUS", "SPACE"} # {})
  THEN width - 1 ELSE width

LeadingZeros(buf, prec, width, flags) ==
  IF "LEFT" \in flags THEN buf
  ELSE LET b == FillTo(buf, prec, "0")
       IN IF "ZEROPAD" \in flags THEN FillTo(b, width, "0") ELSE b

\* Mutant: no place is made for the prefix.
PrefixedOver(buf, base, prec, width, flags) ==
  IF "HASH" \notin flags THEN buf
  ELSE AppendIf(TRUE, AppendIf(base = 16, buf, IF "UPPERCASE" \in flags THEN "X" ELSE "x"), "0")

\* The last places that were filled are given up for the prefix.
Prefixed(buf, base, prec, width, flags) ==
  IF "HASH" \notin flags THEN buf
  ELSE LET cut == IF "PRECISION" \notin flags /\ Len(buf) > 0 /\ Len(buf) \in {prec, width}
                    THEN IF base = 16 /\ Len(buf) > 1 THEN 2 ELSE 1
                    ELSE 0
           b == SubSeq(buf, 1, Len(buf) - cut)
           letter == IF base = 2 THEN "b" ELSE IF "UPPERCASE" \in flags THEN "X" ELSE "x"
       IN AppendIf(TRUE, AppendIf(base \in {2, 16}, b, letter), "0")

Signed(buf, negative, flags) ==
  IF negative THEN AppendIf(TRUE, buf, "-")
  ELSE IF "PLUS" \in flags THEN AppendIf(TRUE, buf, "+")
  ELSE AppendIf("SPACE" \in flags, buf, " ")

NtoaFormat(buf, negative, base, prec, width, flags) ==
  LET w == ZeroWidth(negative, width, flags)
      b == Prefixed(LeadingZeros(buf, prec, w, flags), base, prec, w, flags)
  IN OutRev(Signed(b, negative, flags), w, flags)

Ntoa(value, negative, base, prec, width, flags) ==
  LET digits == IF "PRECISION" \in flags /\ value = 0 THEN <<>>
                ELSE DigitsOf(value, base, "UPPERCASE" \in flags)
      buf == SubSeq(digits, 1, IF Len(digits) > BufferSize THEN BufferSize ELSE Len(digits))
  IN NtoaFormat(buf, negative, base, prec, width,
                IF value = 0 THEN flags \ {"HASH"} ELSE flags)

-----------------------------------------------------------------------------
(* The fields of an item, as _vsnprintf evaluates them. *)

HasPrecision(item) == "PRECISION" \in item.flags

\* A negative width, which only * can give, is a flag, for every conversion.
Width(item) == IF item.width < 0 THEN -item.width ELSE item.width
LeftOfWidth(item) == IF item.width < 0 THEN {"LEFT"} ELSE {}
Precision(item) == IF item.prec > 0 THEN item.prec ELSE 0

Radix(item) == CASE item.conv \in {"x", "X"} -> 16 [] item.conv = "o" -> 8 [] item.conv = "b" -> 2 [] OTHER -> 10

IsSigned(item) == item.conv = "d"

Flags(item) ==
  (item.flags \cup LeftOfWidth(item)
              \cup (IF item.conv = "X" THEN {"UPPERCASE"} ELSE {}))
    \ ((IF Radix(item) = 10 THEN {"HASH"} ELSE {})
         \cup (IF IsSigned(item) THEN {} ELSE {"PLUS", "SPACE"})
         \cup (IF HasPrecision(item) THEN {"ZEROPAD"} ELSE {}))

Wrapped(v, type) == v % SizeOf[type]
AsSigned(v, type) ==
  IF Wrapped(v, type) >= SizeOf[type] \div 2 THEN Wrapped(v, type) - SizeOf[type] ELSE Wrapped(v, type)

\* The value as its type has it; a char is not signed on this processor.
Value(item) ==
  IF IsSigned(item) /\ item.len # "char" THEN AsSigned(item.arg, item.len)
  ELSE Wrapped(item.arg, item.len)

Magnitude(v) == IF v < 0 THEN -v ELSE v

Integer(item) ==
  Ntoa(Magnitude(Value(item)), Value(item) < 0, Radix(item), Precision(item), Width(item), Flags(item))

Padded(item, text) ==
  LET pad == Times(" ", Width(item) - Len(text))
  IN IF "LEFT" \in item.flags \/ item.width < 0 THEN text \o pad ELSE pad \o text

String(item) ==
  Padded(item, IF ~HasPrecision(item) THEN item.arg
               ELSE SubSeq(item.arg, 1, IF Precision(item) < Len(item.arg) THEN Precision(item)
                                        ELSE Len(item.arg)))

\* A pointer has all its digits, unless it is to be on the left.
Pointer(item) ==
  Ntoa(item.arg, FALSE, 16, Precision(item), Count(SizeOf["long"] - 1, 16),
       item.flags \cup LeftOfWidth(item) \cup {"ZEROPAD", "UPPERCASE"})

\* What an item puts out.
Output(item) ==
  CASE item.conv = "plain" -> <<item.arg>>
    [] item.conv = "c" -> Padded(item, <<item.arg>>)
    [] item.conv = "s" -> String(item)
    [] item.conv = "p" -> Pointer(item)
    [] OTHER -> Integer(item)

-----------------------------------------------------------------------------
(* _vsnprintf. *)

\* _out_char leaves out a NUL.
Visible(text) == FlattenSeq([j \in DOMAIN text |-> IF text[j] = NUL THEN <<>> ELSE <<text[j]>>])

\* _out_buffer, _out_char and _out_null, of a text from index n on.
Out(text, n) ==
  CASE sink = "buffer" ->
         /\ buffer' = [j \in DOMAIN buffer \cup {m \in n .. n + Len(text) - 1 : m < maxlen} |->
                         IF j >= n THEN text[j - n + 1] ELSE buffer[j]]
         /\ UNCHANGED console
    [] sink = "putchar" ->
         console' = console \o Visible(text) /\ UNCHANGED buffer
    [] OTHER -> UNCHANGED <<buffer, console>>

Item ==
  /\ ret = -1 /\ k <= Len(format)
  /\ Out(Output(format[k]), idx)
  /\ idx' = idx + Len(Output(format[k])) /\ k' = k + 1
  /\ UNCHANGED <<format, sink, maxlen, ret>>

\* Mutant: the end of a text that is cut off is not marked.
TerminatorAt(n) == n

\* With a maxlen of 0 the index is the largest size_t, and nothing is written.
Terminator(n) == IF n < maxlen THEN n ELSE IF maxlen = 0 THEN SizeOf["long"] - 1 ELSE maxlen - 1

Terminate ==
  /\ ret = -1 /\ k > Len(format)
  /\ Out(<<NUL>>, Terminator(idx))
  /\ ret' = idx
  /\ UNCHANGED <<format, k, idx, sink, maxlen>>

PrintfNext == CallPrintf \/ Item \/ Terminate \/ ReturnPrintf

PrintfSpec == PrintfInit /\ [][PrintfNext]_printfVars

-----------------------------------------------------------------------------
(* What the standard asks of a conversion. *)

CValue(item) == IF IsSigned(item) THEN AsSigned(item.arg, item.len) ELSE Wrapped(item.arg, item.len)
CHasPrecision(item) == HasPrecision(item) /\ item.prec >= 0

\* The digits, at least as many as the precision asks for, and of an alternative octal
\* number one zero at least; the sign and the prefix.
CDigits(item) ==
  LET v == Magnitude(CValue(item))
      p == CHasPrecision(item)
      digits == IF p /\ item.prec = 0 /\ v = 0 THEN <<>> ELSE Reverse(DigitsOf(v, Radix(item), item.conv = "X"))
      full == (IF p THEN Times("0", item.prec - Len(digits)) ELSE <<>>) \o digits
  IN IF item.conv = "o" /\ "HASH" \in item.flags /\ (full = <<>> \/ full[1] # "0")
     THEN <<"0">> \o full ELSE full

CSign(item) ==
  IF CValue(item) < 0 THEN <<"-">>
  ELSE IF IsSigned(item) /\ "PLUS" \in item.flags THEN <<"+">>
  ELSE IF IsSigned(item) /\ "SPACE" \in item.flags THEN <<" ">>
  ELSE IF item.conv \in {"x", "X", "b"} /\ "HASH" \in item.flags /\ CValue(item) # 0 THEN <<"0", item.conv>>
  ELSE <<>>

CInteger(item) ==
  LET digits == CDigits(item)
      sign == CSign(item)
      pad == Width(item) - Len(sign) - Len(digits)
  IN IF "LEFT" \in item.flags \/ item.width < 0 THEN sign \o digits \o Times(" ", pad)
     ELSE IF "ZEROPAD" \in item.flags /\ ~CHasPrecision(item)
     THEN sign \o Times("0", pad) \o digits
     ELSE Times(" ", pad) \o sign \o digits

\* Where the code is known to differ from it: the place of a prefix is taken from the
\* digits, or not from the zeros; zeros of a precision are left out on the left; an
\* alternative octal number gets a zero too many or none; a negative precision is taken
\* for 0; a char has no sign; the buffer for the digits is too short.
PrefixDiffers(item, n, zeros) ==
  /\ "HASH" \in Flags(item) /\ ~HasPrecision(item) /\ CValue(item) # 0
  /\ \/ n = Width(item)
     \/ zeros /\ Radix(item) = 16 /\ n + 1 = Width(item)
     \/ zeros /\ Radix(item) = 2 /\ n + 2 <= Width(item)

PrecisionDiffers(item, n, zeros) ==
  /\ HasPrecision(item)
  /\ \/ item.prec < 0 /\ (zeros \/ n = 0)
     \/ item.prec > n /\ "LEFT" \in Flags(item)
     \/ item.conv = "o" /\ "HASH" \in item.flags
          /\ IF n = 0 THEN item.prec = 0 ELSE item.prec > n

Differs(item) ==
  CASE item.conv \in {"plain", "c", "p"} -> FALSE
    [] item.conv = "s" -> HasPrecision(item) /\ item.prec < 0
    [] OTHER ->
         LET v == Magnitude(CValue(item))
             n == IF HasPrecision(item) /\ v = 0 THEN 0 ELSE Count(v, Radix(item))
             zeros == "ZEROPAD" \in item.flags /\ "LEFT" \notin Flags(item)
         IN \/ PrefixDiffers(item, n, zeros) \/ PrecisionDiffers(item, n, zeros)
            \/ IsSigned(item) /\ item.len = "char" /\ CValue(item) < 0
            \/ Len(CInteger(item)) > BufferSize

-----------------------------------------------------------------------------
(* Properties. *)

CText(item) == IF item.conv \in {"plain", "c", "s", "p"} THEN Output(item) ELSE CInteger(item)
Texts == FlattenSeq([j \in DOMAIN format |-> Output(format[j])])

\* Up to the listed differences, integers are printed as the standard asks: padding,
\* precision, sign and prefix meet in a buffer that is filled from its end.
FormatsLikeC ==
  sink = "putchar" /\ ret >= 0 /\ (\A j \in DOMAIN format : ~Differs(format[j])) =>
    console = Visible(FlattenSeq([j \in DOMAIN format |-> CText(format[j])]))

\* snprintf never writes beyond its buffer; when it returns, the buffer has as much of
\* the text as fits, with an end, and the result is the length of the whole text.
BufferHoldsText ==
  /\ DOMAIN buffer \subseteq 0 .. maxlen - 1
  /\ ret >= 0 => ret = Len(Texts)
  /\ sink = "buffer" /\ ret >= 0 /\ maxlen > 0 =>
       LET n == IF ret < maxlen THEN ret ELSE maxlen - 1
       IN /\ DOMAIN buffer = 0 .. n
          /\ \A j \in 0 .. n - 1 : buffer[j] = Texts[j + 1]
          /\ buffer[n] = NUL
=============================================================================
