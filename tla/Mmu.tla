-------------------------------- MODULE Mmu --------------------------------
(***************************************************************************)
(* mmu_init: the translation tables are built in memory and the MMU is     *)
(* switched on over them.  The repository has two versions.  The one of    *)
(* mmu/mmu.c ("pages") maps the first gigabyte page by page from tables at *)
(* a fixed place; the one of uart_and_sd/mmu.c ("blocks") has its tables   *)
(* behind the image and maps all but the first block in blocks.            *)
(*                                                                         *)
(* Addresses are counted in pages, words of memory by page * Entries +     *)
(* index.  mem has the words that mmu_init has written; what the others    *)
(* hold is not known.  The walk is that of the hardware: three tables,     *)
(* each indexed with a field of the address, the second of which may hold  *)
(* blocks.                                                                 *)
(***************************************************************************)
EXTENDS Integers

CONSTANTS
  Entries,      \* entries of a table (512)
  PageSize,     \* bytes of a page
  MmioPage,     \* the page of MMIO_BASE
  UartPage,     \* that of the UART's registers
  Base,         \* pages: where the tables are
  ImageStart,   \* blocks: the page the image is linked to (0x80)
  Sections      \* where the linker may have put the parts of the image

Pages == 0 .. Entries * Entries - 1

ASSUME LayoutAssumption ==
  /\ Entries \in Nat /\ Entries >= 2 /\ PageSize \in Nat \ {0}
  /\ MmioPage \in Pages /\ UartPage \in Pages /\ UartPage >= MmioPage
  /\ \E r \in 1 .. Entries - 1 : MmioPage = r * Entries
  /\ ImageStart \in Nat

\* text and read-only data of "pages" in bytes, data and end of "blocks" in pages.
\* Neither of the first two is empty.
IsSections(s) ==
  /\ DOMAIN s = {"text", "exec_end", "ro", "ro_end", "data", "end"}
  /\ \A x \in DOMAIN s : s[x] \in Nat
  /\ s.text < s.exec_end /\ s.exec_end <= s.ro /\ s.ro < s.ro_end
  /\ s.ro_end <= (Base - 3) * PageSize
  /\ ImageStart <= s.data /\ s.data <= s.end /\ s.end + 6 <= MmioPage

ASSUME SectionsAssumption ==
  /\ Base \in Nat /\ Base >= 3 /\ Base + 2 + Entries <= MmioPage
  /\ \A s \in Sections : IsSections(s)

VARIABLES
  pc,
  version,       \* which mmu_init runs
  sec,           \* the symbols of the linker
  mem,           \* the words written
  i,             \* index of the loop over the second table
  ttbr0, ttbr1,  \* the tables of the lower and of the upper half
  on             \* is the MMU on?

vars == <<pc, version, sec, mem, i, ttbr0, ttbr1, on>>

Bits == {"BLOCK", "USER", "RO", "NX", "DEV"}
NoPage == -1
Unknown == [to |-> NoPage, bits |-> {}]
Descriptor == [to : Nat, bits : SUBSET Bits]

TypeOK ==
  /\ pc \in {"start", "fill", "kernel", "check", "enable", "done"}
  /\ version \in {"pages", "blocks"}
  /\ IsSections(sec)
  /\ DOMAIN mem \subseteq Nat /\ \A w \in DOMAIN mem : mem[w] \in Descriptor
  /\ i \in 0 .. Entries
  /\ ttbr0 \in Nat /\ ttbr1 \in Nat /\ on \in BOOLEAN

Init ==
  /\ pc = "start" /\ version \in {"pages", "blocks"} /\ sec \in Sections
  /\ mem = [w \in {} |-> Unknown]
  /\ i = 0 /\ ttbr0 = 0 /\ ttbr1 = 0 /\ on = FALSE

-----------------------------------------------------------------------------
(* Writing descriptors. *)

\* The word base[index] of a table array that starts at page base.
WordAt(base, index) == base * Entries + index

Table(page) == [to |-> page, bits |-> {"USER"}]
KernelTable(page) == [to |-> page, bits |-> {}]

\* f has the words a step writes.
Put(f) == mem' = [w \in DOMAIN mem \cup DOMAIN f |-> IF w \in DOMAIN f THEN f[w] ELSE mem[w]]

Go(label) == pc' = label /\ UNCHANGED <<version, sec, ttbr0, ttbr1, on>>

-----------------------------------------------------------------------------
(* mmu/mmu.c. *)

First(byte) == byte \div PageSize

\* Mutant: the end is rounded down.
BeyondDown(byte) == byte \div PageSize

\* A section that ends inside a page has all of that page.
Beyond(byte) == byte \div PageSize + (IF byte % PageSize = 0 THEN 0 ELSE 1)

IsText(p) == p >= First(sec.text) /\ p < Beyond(sec.exec_end)
IsReadOnly(p) == p >= First(sec.ro) /\ p < Beyond(sec.ro_end)

\* Mutant: the first page of the registers is memory.
PageBitsLate(p) ==
  {"USER"} \cup (IF IsText(p) THEN {"RO"}
                 ELSE IF IsReadOnly(p) THEN {"RO", "NX"}
                 ELSE IF p > MmioPage THEN {"NX", "DEV"}
                 ELSE {"NX"})

PageBits(p) ==
  {"USER"} \cup (IF IsText(p) THEN {"RO"}
                 ELSE IF IsReadOnly(p) THEN {"RO", "NX"}
                 ELSE IF p >= MmioPage THEN {"NX", "DEV"}
                 ELSE {"NX"})

StartPages ==
  /\ version = "pages" /\ pc = "start"
  /\ Put([w \in {WordAt(Base, 0)} |-> Table(Base + 1)])
  /\ i' = 0 /\ Go("fill")

\* Mutant: the last table is left out.
TablesButLast == Entries - 1

\* The turns of the outer loop: entries of the second table.
Tables == Entries

\* A turn: an entry of the second table, and its third table.
FillPages ==
  /\ version = "pages" /\ pc = "fill"
  /\ \/ /\ i < Tables
        /\ Put([w \in {WordAt(Base, Entries + i)} \cup
                      {WordAt(Base, 2 * Entries + i * Entries + j) : j \in 0 .. Entries - 1} |->
                  IF w = WordAt(Base, Entries + i) THEN Table(Base + 2 + i)
                  ELSE LET p == w - WordAt(Base, 2 * Entries)
                       IN [to |-> p, bits |-> PageBits(p)]])
        /\ i' = i + 1 /\ Go("fill")
     \/ i = Tables /\ Go("kernel") /\ UNCHANGED <<mem, i>>

-----------------------------------------------------------------------------
(* uart_and_sd/mmu.c. *)

MmioBlock == MmioPage \div Entries

BlockBits(r) == {"BLOCK", "USER", "NX"} \cup (IF r >= MmioBlock THEN {"DEV"} ELSE {})

SmallBits(r) ==
  {"USER"} \cup (IF r < ImageStart \/ r >= sec.data THEN {"NX"} ELSE {"RO"})

StartBlocks ==
  /\ version = "blocks" /\ pc = "start"
  /\ Put([w \in {WordAt(sec.end, 0), WordAt(sec.end, 2 * Entries)} |->
            IF w = WordAt(sec.end, 0) THEN Table(sec.end + 2) ELSE Table(sec.end + 3)])
  /\ i' = 1 /\ Go("fill")

\* One turn of the loop over the blocks; after it, the loop over the first block.
FillBlocks ==
  /\ version = "blocks" /\ pc = "fill"
  /\ \/ /\ i < Entries
        /\ Put([w \in {WordAt(sec.end, 2 * Entries + i)} |->
                  [to |-> i * Entries, bits |-> BlockBits(i)]])
        /\ i' = i + 1 /\ Go("fill")
     \/ /\ i = Entries
        /\ Put([w \in {WordAt(sec.end, 3 * Entries + r) : r \in 0 .. Entries - 1} |->
                  LET r == w - WordAt(sec.end, 3 * Entries)
                  IN [to |-> r, bits |-> SmallBits(r)]])
        /\ Go("kernel") /\ UNCHANGED i

-----------------------------------------------------------------------------
(* The upper half, and the registers. *)

LastEntry == Entries - 1

\* Mutant: the version of mmu.c with the tables of the other.
KernelTablesSwapped ==
  IF version = "pages" THEN <<Base - 1, Base - 2, Base - 3>>
  ELSE <<sec.end + 1, sec.end + 4, sec.end + 5>>

\* The three tables of the upper half.
KernelTables ==
  IF version = "pages" THEN <<Base - 3, Base - 2, Base - 1>>
  ELSE <<sec.end + 1, sec.end + 4, sec.end + 5>>

Kernel ==
  LET t == KernelTables IN
  /\ pc = "kernel"
  /\ Put([w \in {WordAt(t[1], LastEntry), WordAt(t[2], LastEntry), WordAt(t[3], 0)} |->
            CASE w = WordAt(t[1], LastEntry) -> KernelTable(t[2])
              [] w = WordAt(t[2], LastEntry) -> KernelTable(t[3])
              [] OTHER -> [to |-> UartPage, bits |-> {"NX", "DEV"}]])
  /\ Go("check") /\ UNCHANGED i

\* A processor without 4k pages or 36 address bits keeps the MMU off.
Check ==
  /\ pc = "check"
  /\ Go("enable") \/ Go("done")
  /\ UNCHANGED <<mem, i>>

Enable ==
  /\ pc = "enable"
  /\ ttbr0' = IF version = "pages" THEN Base ELSE sec.end
  /\ ttbr1' = IF version = "pages" THEN Base - 3 ELSE sec.end + 1
  /\ on' = TRUE /\ pc' = "done"
  /\ UNCHANGED <<version, sec, mem, i>>

Next == StartPages \/ FillPages \/ StartBlocks \/ FillBlocks \/ Kernel \/ Check \/ Enable

Spec == Init /\ [][Next]_vars

-----------------------------------------------------------------------------
(* The walk of the hardware. *)

Entry(table, index) ==
  LET w == WordAt(table, index) IN IF w \in DOMAIN mem THEN mem[w] ELSE Unknown

\* The descriptor for the address with the fields l1, l2, l3.
Walk(ttbr, l1, l2, l3) ==
  LET d1 == Entry(ttbr, l1)
      d2 == Entry(d1.to, l2)
  IN IF "BLOCK" \in d2.bits THEN [d2 EXCEPT !.to = d2.to + l3] ELSE Entry(d2.to, l3)

Index == 0 .. Entries - 1

\* The page with the fields 0, l2, l3, in the lower half; what maps it.
PageOf(l2, l3) == l2 * Entries + l3
Mapping(l2, l3) == Walk(ttbr0, 0, l2, l3)

-----------------------------------------------------------------------------
(* Properties. *)

\* With the MMU on, every page of the first gigabyte is at the address it was at
\* before: the code that has switched it on goes on, and so do the drivers.
IdentityMapped == on => \A l2, l3 \in Index : Mapping(l2, l3).to = PageOf(l2, l3)

\* The registers of the peripherals are device memory, and nothing else is.
DevicesAreDevices ==
  on => \A l2, l3 \in Index :
          "DEV" \in Mapping(l2, l3).bits <=> PageOf(l2, l3) >= MmioPage

\* The bytes of a page, and whether a part of the image is among them.
BytesOf(p) == p * PageSize .. (p + 1) * PageSize - 1
TouchesText(p) ==
  IF version = "pages" THEN \E b \in BytesOf(p) : sec.text <= b /\ b < sec.exec_end
  ELSE p \in ImageStart .. sec.data - 1
TouchesReadOnly(p) ==
  version = "pages" /\ \E b \in BytesOf(p) : sec.ro <= b /\ b < sec.ro_end

\* A page with a byte of the text can be executed and not be written; one with a
\* byte of the read-only data cannot be written; every other one can.  The
\* version with blocks protects the first block only.
Protected(p) == version = "blocks" => p < Entries

ImageProtected ==
  on => \A l2, l3 \in Index :
          LET p == PageOf(l2, l3)
              bits == Mapping(l2, l3).bits
          IN Protected(p) =>
               /\ TouchesText(p) => "RO" \in bits /\ "NX" \notin bits
               /\ "RO" \in bits <=> TouchesText(p) \/ TouchesReadOnly(p)

\* The last table of the upper half maps the registers of the UART.
KernelSeesUart ==
  on => LET d == Walk(ttbr1, LastEntry, LastEntry, 0) IN d.to = UartPage /\ "DEV" \in d.bits
=============================================================================
