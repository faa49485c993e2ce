------------------------------- MODULE MCMmu -------------------------------
(* Instances of Mmu, Startup and Printf for TLC. *)
EXTENDS Startup, Printf

Bytes == 0 .. (Base - 3) * PageSize

\* Sections of every length and alignment for one version, every place of the
\* data and the end for the other.
AllSections ==
  {[text |-> t, exec_end |-> e, ro |-> r, ro_end |-> s, data |-> ImageStart, end |-> ImageStart] :
     <<t, e, r, s>> \in {q \in Bytes \X Bytes \X Bytes \X Bytes :
                           q[1] < q[2] /\ q[2] <= q[3] /\ q[3] < q[4]}}
  \cup {[text |-> 0, exec_end |-> 1, ro |-> 1, ro_end |-> 2, data |-> d, end |-> e] :
          <<d, e>> \in {q \in (ImageStart .. MmioPage - 6) \X (ImageStart .. MmioPage - 6) :
                          q[1] <= q[2]}}

\* mmu/mmu.c has no _start: its mmu_init is called by a program that is not here.
Alone == \A c \in Cores : place[c] = "parked"

AloneInit ==
  /\ Init /\ version = "pages" /\ image = "elf-boot"
  /\ place = [c \in Cores |-> "parked"]
  /\ started = 1 /\ level = 1 /\ x0 = 1 /\ sel = 0 /\ sp = {0} /\ vbar = FALSE /\ cleared = 0

\* Every combination of flags with some widths, precisions and values; and texts of
\* several items.
Number(f, w, p, len, c, v) ==
  [flags |-> f, width |-> w, prec |-> p, len |-> len, conv |-> c, arg |-> v]

Precisions == {<<{}, 0>>, <<{"PRECISION"}, 1>>, <<{"PRECISION"}, 3>>, <<{"PRECISION"}, -1>>}
Numbers ==
  {<<Number(f \cup p[1], w, p[2], "int", c, v)>> :
     f \in SUBSET {"ZEROPAD", "LEFT", "PLUS", "SPACE", "HASH"}, p \in Precisions,
     w \in {0, 2, 4, -5}, c \in {"d", "x", "X", "o", "b"}, v \in {0, 18, -7}}
  \cup {<<Number({}, 0, 0, len, c, v)>> : len \in {"char", "short", "long"}, c \in {"d", "u"}, v \in {5, -7, 200}}

Plain == [conv |-> "plain", arg |-> "="]
TextItems ==
  {Plain, Number({}, 3, 0, "int", "c", NUL), Number({"LEFT"}, 2, 0, "int", "c", "k"),
   Number({"PRECISION"}, 3, 2, "int", "s", <<"a", "b", "c">>), Number({"LEFT"}, 4, 0, "int", "s", <<"a">>),
   Number({}, 0, 0, "long", "p", 171)}

AllFormats == Numbers \cup {<<a, b>> : a \in TextItems, b \in TextItems} \cup {<<>>}

TypeSizes ==
  [c \in {"char", "short", "int", "long"} |->
     CASE c = "char" -> 8 [] c = "short" -> 16 [] c = "int" -> 64 [] OTHER -> 256]

\* The loader's main calls printf; one placement of its parts is enough for that.
PrintfRuns ==
  /\ image = "elf-boot" /\ \A c \in Cores : place[c] = IF c = 0 THEN "main" ELSE "parked"
  /\ started = 2 /\ sec.data = ImageStart + 1 /\ sec.end = sec.data

MCInit == (StartupInit \/ AloneInit) /\ PrintfInit

PrintfStep == PrintfRuns /\ PrintfNext /\ UNCHANGED bootVars

MCNext ==
  \/ Start /\ ret = -2 /\ UNCHANGED printfVars
  \/ Alone /\ version = "pages" /\ Next /\ UNCHANGED <<startVars, printfVars>>
  \/ PrintfStep

MCSpec == MCInit /\ [][MCNext]_<<bootVars, printfVars>>
=============================================================================
