----------------------------- MODULE ElfParser -----------------------------
(***************************************************************************)
(* The reader of elf-parser: a program of the host that says what is in an *)
(* ELF file and its multiboot header.  Here it is run on the kernel file   *)
(* before the loader is.  It looks for the header byte by byte and takes   *)
(* the last one, where the loader goes by words and takes the first.       *)
(*                                                                         *)
(* What it prints of the ELF header has no consequence: main does not look *)
(* at the result of parser_init, which returns nothing but -1 on purpose.  *)
(***************************************************************************)
EXTENDS ElfBoot, FiniteSets

CONSTANTS
  SearchBytes,   \* the bytes that are searched (8192)
  PageBytes,
  Sizes,         \* of the file, in bytes
  Odds           \* where its headers that are not at a word may be

\* The loader searches further than the reader does.
ASSUME ReaderAssumption ==
  /\ {SearchBytes, PageBytes, Word} \subseteq Nat \ {0} /\ SearchBytes <= Word * SearchWords
  /\ Sizes \subseteq Nat /\ Odds \subseteq SUBSET Nat

VARIABLES
  reading,        \* where the reader is
  mapped,         \* bytes at file_base
  odd,            \* offsets of headers that are not at a word
  mb_hdr_offset,  \* -1: not detected
  extra           \* "extra fields valid" is reported

readVars == <<reading, mapped, odd, mb_hdr_offset, extra>>

ReaderTypeOK ==
  /\ reading \in {"idle", "open", "magic", "init64", "search", "parse", "done", "crashed"}
  /\ mapped \in Nat /\ odd \subseteq Nat /\ mb_hdr_offset \in Nat \cup {-1} /\ extra \in BOOLEAN

ReaderInit ==
  /\ reading = "open" /\ mapped = 0 /\ odd \in Odds /\ mb_hdr_offset = -1 /\ extra = FALSE

\* The byte offsets of the headers in the file.
Headers == {Word * w : w \in DOMAIN image} \cup odd

-----------------------------------------------------------------------------
(* parser_init. *)

RoundUp(n) == ((n + PageBytes - 1) \div PageBytes) * PageBytes

\* stat and open, and mmap, whose failure is not noticed.
Open ==
  /\ reading = "open"
  /\ \/ reading' = "search" /\ UNCHANGED mapped
     \/ \E n \in Sizes :
          /\ \A o \in Headers : o + 3 * Word <= n
          /\ mapped' = RoundUp(n) /\ reading' = IF n = 0 THEN "crashed" ELSE "magic"
  /\ UNCHANGED <<odd, mb_hdr_offset, extra>>

\* An invalid magic, class or data, a class of 32 bits, or of neither; else 64 bits.
parser_check_magic ==
  /\ reading = "magic" /\ reading' \in {"search", "init64"}
  /\ UNCHANGED <<mapped, odd, mb_hdr_offset, extra>>

parser_init64 ==
  /\ reading = "init64" /\ reading' = "search"
  /\ UNCHANGED <<mapped, odd, mb_hdr_offset, extra>>

-----------------------------------------------------------------------------
(* multiboot_search, multiboot_parse. *)

Seen == {o \in Headers : o < SearchBytes}

\* Mutant: the offset of the loader's first version, in words.
MatchWord(o) == mb_hdr_offset' = o \div Word

Match(o) == mb_hdr_offset' = o

\* The last read is of the word at SearchBytes - 1; beyond the pages of the file there
\* is nothing.
SearchFile ==
  /\ reading = "search"
  /\ IF mapped < SearchBytes - 1 + Word
       THEN reading' = "crashed" /\ UNCHANGED mb_hdr_offset
       ELSE IF Seen = {} THEN reading' = "done" /\ UNCHANGED mb_hdr_offset
       ELSE /\ reading' = "parse"
            /\ \E o \in Seen : Match(o) /\ \A other \in Seen : other <= o
  /\ mapped' = (IF reading' = "parse" THEN mapped ELSE 0)
  /\ UNCHANGED <<odd, extra>>

\* Of a header at a word, whether flags[16] is set; of another, anything.
multiboot_parse ==
  /\ reading = "parse" /\ reading' = "done" /\ mapped' = 0
  /\ extra' \in {f \in BOOLEAN : \A w \in DOMAIN image :
                                   mb_hdr_offset = Word * w => f = image[w].direct}
  /\ UNCHANGED <<odd, mb_hdr_offset>>

ReaderNext == Open \/ parser_check_magic \/ parser_init64 \/ SearchFile \/ multiboot_parse

-----------------------------------------------------------------------------
(* The reader, then the loader. *)

Ended == reading \in {"idle", "done", "crashed"}

ReadThenBoot ==
  \/ ReaderNext /\ UNCHANGED vars
  \/ Ended /\ Next /\ UNCHANGED readVars

ReaderSpec == Init /\ ReaderInit /\ [][ReadThenBoot]_<<vars, readVars>>

\* What the reader says of a file whose only header is at a word of the bytes it
\* searches is what the loader does with it, although the two search in different
\* ways: the loader finds that header, and refuses the file if and only if the reader
\* has not reported the extra fields.  A file without a header has none for either.
ReaderAgrees ==
  reading = "done" /\ Cardinality(Headers) <= 1 /\ odd = {} /\ Headers \subseteq 0 .. SearchBytes - 1 =>
    /\ hdr # -1 => mb_hdr_offset = Word * hdr
    /\ pc = "failed" => ~extra
    /\ pc = "jumped" => extra
=============================================================================
