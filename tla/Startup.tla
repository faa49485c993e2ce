------------------------------ MODULE Startup ------------------------------
(***************************************************************************)
(* _start and the exception vectors of uart_and_sd/start.S and             *)
(* elf-boot/test.S: all cores begin here, one goes on, drops to EL1, sets  *)
(* its stack and the vectors, clears the bss, and calls main; in           *)
(* uart_and_sd, main runs mmu_init (Mmu), and a fault may come at any      *)
(* step of it.  The loader's main is not modelled here.                    *)
(*                                                                         *)
(* A core may be started at EL3, EL2 or EL1, with any choice of stack      *)
(* pointer.  Exceptions that are masked do not come.                       *)
(***************************************************************************)
EXTENDS Mmu

CONSTANTS
  Cores,      \* their numbers, the low bits of mpidr_el1
  BssBytes    \* size of the bss

ASSUME StartupAssumption == 0 \in Cores /\ Cores \subseteq Nat /\ BssBytes \in Nat

VARIABLES
  image,      \* which _start
  place,      \* of each core
  started,    \* the level the cores are started at
  level, sel, \* of core 0: its level, and which stack pointer it uses there
  x0,         \* of core 0: the level that was read
  sp,         \* which stack pointers of EL1 are set
  vbar,       \* are the vectors set?
  cleared     \* bytes of the bss that are

startVars == <<image, place, started, level, sel, x0, sp, vbar, cleared>>
bootVars == <<vars, startVars>>

Levels == 1 .. 3

StartupTypeOK ==
  /\ image \in {"uart_and_sd", "elf-boot"}
  /\ place \in [Cores -> {"start", "level", "el2", "el1", "bss", "main",
                          "parked", "handler", "lost"}]
  /\ started \in Levels /\ level \in Levels /\ x0 \in Levels
  /\ sel \in {0, 1} /\ sp \subseteq {0, 1} /\ vbar \in BOOLEAN
  /\ cleared \in 0 .. BssBytes

\* The image is not empty: it begins with this code.
StartupInit ==
  /\ Init /\ version = "blocks" /\ sec.data > ImageStart
  /\ image \in {"uart_and_sd", "elf-boot"}
  /\ place = [c \in Cores |-> "start"]
  /\ started \in Levels /\ level = started /\ x0 = started
  /\ sel \in {0, 1} /\ sp = {} /\ vbar = FALSE /\ cleared = 0

-----------------------------------------------------------------------------
(* _start. *)

Goto(label) == place' = [place EXCEPT ![0] = label]
At(label) == place[0] = label
KeepMmu == UNCHANGED <<vars, image, started>>

\* The cores but one stop in wfe.
Begin(c) ==
  /\ place[c] = "start"
  /\ place' = [place EXCEPT ![c] = IF c = 0 THEN "level" ELSE "parked"]
  /\ UNCHANGED <<level, sel, x0, sp, vbar, cleared>> /\ KeepMmu

\* From EL3 to EL2h; what was read into x0 stays.
FromEl3 ==
  /\ At("level") /\ Goto("el2")
  /\ IF x0 = 3 THEN level' = 2 /\ sel' = 1 ELSE UNCHANGED <<level, sel>>
  /\ UNCHANGED <<x0, sp, vbar, cleared>> /\ KeepMmu

\* Mutant: to EL1h (0x3c5).
DropTo1h ==
  /\ sp' = sp \cup {1} /\ vbar' = TRUE
  /\ level' = 1 /\ sel' = 1

\* sp_el1, vbar_el1, spsr_el2 = 0x3c4: to EL1t.
Drop ==
  /\ sp' = sp \cup {1} /\ vbar' = TRUE
  /\ level' = 1 /\ sel' = 0

\* A core that was at EL1 skips the vectors.
FromEl2 ==
  /\ At("el2") /\ Goto("el1")
  /\ IF x0 = 1 THEN UNCHANGED <<level, sel, sp, vbar>> ELSE Drop
  /\ UNCHANGED <<x0, cleared>> /\ KeepMmu

\* mov sp, x1: of the stack pointer in use.  The loader does not clear its bss here.
SetStack ==
  /\ At("el1") /\ Goto(IF image = "elf-boot" THEN "main" ELSE "bss")
  /\ sp' = sp \cup {sel}
  /\ UNCHANGED <<level, sel, x0, vbar, cleared>> /\ KeepMmu

\* Mutant: the last word is left out.
WordsLess == IF BssBytes \div 8 = 0 THEN 0 ELSE BssBytes \div 8 - 1

\* __bss_size: words of eight bytes.
Words == BssBytes \div 8

ClearBss ==
  /\ At("bss")
  /\ IF cleared = 8 * Words THEN Goto("main") /\ UNCHANGED cleared
     ELSE cleared' = cleared + 8 /\ UNCHANGED place
  /\ UNCHANGED <<level, sel, x0, sp, vbar>> /\ KeepMmu

-----------------------------------------------------------------------------
(* main. *)

MainStep == At("main") /\ image = "uart_and_sd" /\ Next /\ UNCHANGED startVars

\* main returns, and the core stops like the others.
MainReturns ==
  /\ At("main") /\ pc = "done" /\ Goto("parked")
  /\ UNCHANGED <<level, sel, x0, sp, vbar, cleared>> /\ KeepMmu

\* The code in page p can be executed.
Executes(p) ==
  on => LET d == Walk(ttbr0, 0, p \div Entries, p % Entries)
        IN d.to = p /\ "NX" \notin d.bits

\* The synchronous exceptions; the group of vectors is that of the stack pointer in use,
\* of which only the first is there.  They are in the first page of the image, and
\* exc_handler, which runs on the other stack pointer, in any page of its text.
Fault ==
  /\ At("main")
  /\ \E p \in ImageStart .. sec.data - 1 :
       Goto(IF vbar /\ sel = 0 /\ 1 \in sp /\ Executes(ImageStart) /\ Executes(p)
            THEN "handler" ELSE "lost")
  /\ UNCHANGED <<level, sel, x0, sp, vbar, cleared>> /\ KeepMmu

Start ==
  \/ \E c \in Cores : Begin(c)
  \/ FromEl3 \/ FromEl2 \/ SetStack \/ ClearBss \/ MainStep \/ MainReturns \/ Fault

StartupSpec == StartupInit /\ [][Start]_bootVars

-----------------------------------------------------------------------------
(* Properties. *)

\* A fault in main, at any step of the construction of the tables and after the MMU is
\* on, reaches exc_handler with a stack, if the core was not started at EL1 and the text
\* ends within the first block, the only one in which mmu_init leaves code executable.
FaultsAreReported == started # 1 /\ sec.data <= Entries => place[0] # "lost"

\* main runs on one core only, at EL1 with a stack, and over a bss all of whose
\* words are zero, from whatever level the cores were started at.
MainStartsReady ==
  At("main") =>
    /\ level = 1 /\ sel \in sp
    /\ image = "uart_and_sd" => BssBytes - cleared < 8
    /\ \A c \in Cores \ {0} : place[c] \in {"start", "parked"}
=============================================================================
