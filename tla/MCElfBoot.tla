------------------------------ MODULE MCElfBoot ------------------------------
(* Instances of ElfBoot, and of the reader before it, for TLC. *)
EXTENDS ElfParser, TLC

Header(direct, header_addr, load_addr, load_end_addr, bss_end_addr) ==
  [direct |-> direct, header_addr |-> header_addr, load_addr |-> load_addr,
   load_end_addr |-> load_end_addr, bss_end_addr |-> bss_end_addr]

\* Load regions anywhere in memory, of any length, with and without a bss; the
\* header up to a byte further into the segment than it is into the file.
Starts == 0 .. MemSize
OneHeader ==
  {w :> Header(TRUE, l + o, l, e, b) :
     w \in {1, SearchWords}, o \in 0 .. Word + 1, l \in Starts, e \in Starts, b \in Starts}

NoHeader == {<<>>}
Indirect == {w :> Header(FALSE, l, l, l, l) : w \in {1, 2}, l \in {0}}
Late == {2 :> Header(TRUE, l, l, l + 2, l + 3) : l \in Starts}
TwoHeaders == {(0 :> Header(TRUE, l, l, l + 2, l + 3)) @@ (1 :> Header(TRUE, m, m, m + 2, m + 3)) :
                 l \in Starts, m \in Starts}
First == {0 :> Header(TRUE, l, l, l + 2, l + 3) : l \in Starts}

AllImages == OneHeader \cup NoHeader \cup Indirect \cup Late \cup TwoHeaders \cup First

\* The reader is run on some of the files; one of their headers may not be at a word.
ReadImages == NoHeader \cup Indirect \cup Late \cup TwoHeaders \cup First

ReaderIdle ==
  reading = "idle" /\ mapped = 0 /\ odd = {} /\ mb_hdr_offset = -1 /\ extra = FALSE

MCInit ==
  /\ Init
  /\ \/ image \in ReadImages /\ ReaderInit
     \/ image \notin ReadImages /\ ReaderIdle

allVars == <<vars, readVars>>
MCSpec == MCInit /\ [][ReadThenBoot]_allVars /\ WF_allVars(ReadThenBoot)
=============================================================================
