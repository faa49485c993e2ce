------------------------------- MODULE ElfBoot -------------------------------
(***************************************************************************)
(* The multiboot loader (elf-boot/main.c, multiboot.c, move.c).  One flat  *)
(* image, put into memory by the firmware, holds the loader's code, the    *)
(* device tree and the kernel file; its bss is memory nobody has cleared.  *)
(* main clears the bss, looks for the multiboot header in the file, copies *)
(* the device tree to DtbStart, copies the part of the file that the       *)
(* header asks for to load_addr, clears a bss and jumps to the kernel.     *)
(*                                                                         *)
(* A byte is known by the address the firmware put it at, so that a cell   *)
(* of memory says where its contents come from.  The copies take one step  *)
(* per byte, because source, target and the running loader may overlap.    *)
(***************************************************************************)
EXTENDS Integers

CONSTANTS
  MemSize,               \* memory, in bytes
  ElfStart, CodeEnd,     \* _ELF_START_; the last byte of the loader's code
  StackSize,             \* the stack grows down from _start, which is at _ELF_START_
  DtbBlob, DtbSize,      \* the device tree in the image
  FileBase, FileEnd,     \* the kernel file in the image: its first byte, and the one after it
  BssStart, End,         \* __bss_start; __bss_end, which is also _end
  DtbStart,              \* where the device tree goes (0x8000000)
  Word, SearchWords,     \* bytes of an uint32_t; words that are searched (819200)
  WordSize, LongSize,    \* 2^32 and 2^64
  Images                 \* the headers of a file: from their word offsets to their fields

Addr == 0 .. MemSize - 1
Zero == -1
Junk == -2

\* What the running loader needs: its stack and its code.
Vital == ElfStart - StackSize .. CodeEnd

ASSUME LayoutAssumption ==
  /\ {MemSize, ElfStart, CodeEnd, StackSize, DtbBlob, DtbSize, FileBase, FileEnd, BssStart, End,
      DtbStart, Word, SearchWords, WordSize, LongSize} \subseteq Nat
  /\ StackSize <= ElfStart /\ ElfStart <= CodeEnd
  /\ CodeEnd < DtbBlob /\ DtbBlob + DtbSize <= FileBase
  /\ FileBase <= FileEnd /\ FileEnd <= BssStart /\ BssStart <= End
  /\ End < DtbStart /\ DtbStart + DtbSize <= MemSize
  /\ MemSize < WordSize \div 2 /\ WordSize <= LongSize

Fields == {"header_addr", "load_addr", "load_end_addr", "bss_end_addr"}
IsImage(f) ==
  /\ DOMAIN f \subseteq Nat
  /\ \A w \in DOMAIN f : /\ DOMAIN f[w] = Fields \cup {"direct"}
                         /\ f[w].direct \in BOOLEAN
                         /\ \A x \in Fields : f[w][x] \in 0 .. WordSize - 1
ASSUME ImagesAssumption == \A f \in Images : IsImage(f)

VARIABLES
  pc,
  mem,                    \* where the contents of each byte come from
  image,                  \* the headers of the kernel file
  hdr,                    \* the word offset of the header that multiboot_search found
  dest, src, size, i      \* move: its arguments and its index

vars == <<pc, mem, image, hdr, dest, src, size, i>>

Ends == {"jumped", "failed", "fault", "derailed"}

TypeOK ==
  /\ pc \in {"start", "search", "found", "dtb", "boot", "load", "clear"} \cup Ends
  /\ mem \in [Addr -> Addr \cup {Zero, Junk}]
  /\ IsImage(image) /\ hdr \in DOMAIN image \cup {-1}
  /\ dest \in Nat /\ src \in Nat /\ size \in Int /\ i \in Nat

Init ==
  /\ pc = "start"
  /\ mem = [a \in Addr |-> IF a \in ElfStart - StackSize .. BssStart - 1 THEN a ELSE Junk]
  /\ image \in Images /\ hdr = -1
  /\ dest = 0 /\ src = 0 /\ size = 0 /\ i = 0

-----------------------------------------------------------------------------
(* The header and the addresses computed from it. *)

H == image[hdr]
HdrAddr == FileBase + Word * hdr

\* 32 and 64 bit arithmetic on one sum or difference, and an uint32_t as an int.
U32(x) == IF x < 0 THEN x + WordSize ELSE x
U64(x) == IF x < 0 THEN x + LongSize ELSE x
AsInt(x) == IF x >= WordSize \div 2 THEN x - WordSize ELSE x

\* The place in the file of an address of the kernel.
Real(address) == U64(HdrAddr + (address - H.header_addr))

LoadSize == AsInt(U32(H.load_end_addr - H.load_addr))

\* What the loop over the bss clears.
Cleared == Real(H.load_end_addr) + 1 .. Real(H.bss_end_addr)

-----------------------------------------------------------------------------
(* move. *)

\* Mutant: the first byte of the loader is left out.
OverlapsInside(d) == d <= End /\ d > ElfStart

Overlaps(d) == d <= End /\ d >= ElfStart

\* A call refuses a target in the loader, and its result is not looked at.
CallMove(d, s, n, during, after) ==
  /\ dest' = d /\ src' = s /\ size' = n /\ i' = 0
  /\ pc' = IF Overlaps(d) THEN after ELSE during

\* Mutants: a loop that does not count; a last byte that is not copied.
MoveByteAgain(during) ==
  /\ pc = during /\ i < size
  /\ dest + i \in Addr /\ src + i \in Addr
  /\ mem' = [mem EXCEPT ![dest + i] = mem[src + i]]
  /\ UNCHANGED <<pc, image, hdr, dest, src, size, i>>

MoveDoneEarly(during, after) ==
  /\ pc = during /\ i >= size - 1
  /\ pc' = after
  /\ UNCHANGED <<mem, image, hdr, dest, src, size, i>>

MoveByte(during) ==
  /\ pc = during /\ i < size
  /\ dest + i \in Addr /\ src + i \in Addr
  /\ mem' = [mem EXCEPT ![dest + i] = mem[src + i]]
  /\ i' = i + 1
  /\ UNCHANGED <<pc, image, hdr, dest, src, size>>

MoveDone(during, after) ==
  /\ pc = during /\ i >= size
  /\ pc' = after
  /\ UNCHANGED <<mem, image, hdr, dest, src, size, i>>

\* An access outside the memory is reported by exc_handler, which stops.
MoveFault(during) ==
  /\ pc = during /\ i < size
  /\ dest + i \notin Addr \/ src + i \notin Addr
  /\ pc' = "fault"
  /\ UNCHANGED <<mem, image, hdr, dest, src, size, i>>

-----------------------------------------------------------------------------
(* main, multiboot_search, multiboot_boot. *)

Keep == UNCHANGED <<image, dest, src, size, i>>

\* The loop includes the byte at __bss_end.
ClearOwnBss ==
  /\ pc = "start"
  /\ mem' = [a \in Addr |-> IF a \in BssStart .. End THEN Zero ELSE mem[a]]
  /\ pc' = "search"
  /\ Keep /\ UNCHANGED hdr

Found == {w \in DOMAIN image : w < SearchWords}

\* Mutant: the last header is taken.
SearchLast ==
  /\ pc = "search"
  /\ IF Found = {} THEN pc' = "failed" /\ hdr' = -1
     ELSE pc' = "found" /\ hdr' \in Found /\ \A w \in Found : w <= hdr'
  /\ Keep /\ UNCHANGED mem

\* multiboot_search takes the first header.
Search ==
  /\ pc = "search"
  /\ IF Found = {} THEN pc' = "failed" /\ hdr' = -1
     ELSE pc' = "found" /\ hdr' \in Found /\ \A w \in Found : hdr' <= w
  /\ Keep /\ UNCHANGED mem

SaveDtb ==
  /\ pc = "found"
  /\ CallMove(DtbStart, DtbBlob, DtbSize, "dtb", "boot")
  /\ UNCHANGED <<mem, image, hdr>>

\* Without flags[16] multiboot_boot returns; the fields are not valid.
Boot ==
  /\ pc = "boot"
  /\ \/ H.direct /\ CallMove(H.load_addr, Real(H.load_addr), LoadSize, "load", "clear")
     \/ ~H.direct /\ pc' = "failed" /\ UNCHANGED <<dest, src, size, i>>
  /\ UNCHANGED <<mem, image, hdr>>

\* The bss of the file is cleared, not that of the kernel in its place.
ClearBss ==
  /\ pc = "clear"
  /\ IF Cleared \subseteq Addr
     THEN /\ mem' = [a \in Addr |-> IF a \in Cleared THEN Zero ELSE mem[a]]
          /\ pc' = "jumped"
     ELSE pc' = "fault" /\ UNCHANGED mem
  /\ Keep /\ UNCHANGED hdr

\* A loader that has overwritten its code or its stack may do anything.
Derail ==
  /\ pc \notin Ends
  /\ \E a \in Vital : mem[a] # a
  /\ pc' = "derailed"
  /\ UNCHANGED <<mem, image, hdr, dest, src, size, i>>

Moving(during, after) == MoveByte(during) \/ MoveDone(during, after) \/ MoveFault(during)

Next ==
  \/ ClearOwnBss \/ Search \/ SaveDtb \/ Boot \/ ClearBss
  \/ Moving("dtb", "boot") \/ Moving("load", "clear")
  \/ Derail

Spec == Init /\ [][Next]_vars

\* Nothing but the loader's core has to run.
FairSpec == Spec /\ WF_vars(Next)

-----------------------------------------------------------------------------
(* Properties. *)

Disjoint(S, T) == \A a \in S : a \notin T

Target == H.load_addr .. H.load_end_addr - 1
DtbTarget == DtbStart .. DtbStart + DtbSize - 1

\* The header describes a part of the file, as the comment over multiboot_hdr
\* asks: load_addr <= header_addr, and no segment starts before the file.
WellFormed ==
  /\ H.load_addr <= H.header_addr /\ H.header_addr < H.load_end_addr
  /\ H.load_end_addr <= H.bss_end_addr
  /\ HdrAddr - (H.header_addr - H.load_addr) >= FileBase
  /\ HdrAddr + (H.load_end_addr - H.header_addr) <= FileEnd
  /\ H.load_end_addr <= MemSize

\* The kernel has a place of its own: away from the loader, from the device
\* tree, and from the bytes after the file as long as its bss.
WellPlaced ==
  /\ WellFormed
  /\ Disjoint(Target, ElfStart - StackSize .. End)
  /\ Disjoint(Target, DtbTarget)
  /\ Disjoint(Target, Cleared) /\ Disjoint(DtbTarget, Cleared)

\* At the jump the load region holds the part of the file that the first header
\* in it names, byte by byte: nothing that move or the two loops over a bss write
\* has damaged it on the way.
LoadedIsFile ==
  pc = "jumped" /\ WellPlaced =>
    /\ \A w \in DOMAIN image : hdr <= w
    /\ \A a \in Target : mem[a] = HdrAddr + (a - H.header_addr)

\* At the jump the device tree is at DtbStart.
DtbSaved ==
  pc = "jumped" /\ WellPlaced =>
    \A a \in DtbTarget : mem[a] = DtbBlob + (a - DtbStart)

\* The overlap check of move protects the loader from every kernel that is not
\* linked below it: no step overwrites the loader's code or stack.
LoaderIntact ==
  hdr # -1 /\ WellFormed /\ H.load_addr >= ElfStart => \A a \in Vital : mem[a] = a

\* The loader ends: it jumps, gives up or is stopped.
BootEnds == <>(pc \in Ends)

Bss == H.load_end_addr .. H.bss_end_addr - 1

\* At the jump the kernel's bss is zero, as the comment over multiboot_hdr and
\* the report say.
BssIsZero ==
  pc = "jumped" /\ WellPlaced /\ Bss \subseteq Addr /\ Disjoint(Bss, ElfStart - StackSize .. End) =>
    \A a \in Bss : mem[a] = Zero
=============================================================================
