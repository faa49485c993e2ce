---------------------------- MODULE LoaderProofs ----------------------------
(***************************************************************************)
(* Theorems about the loader.                                              *)
(*                                                                         *)
(* ElfBoot, for every layout of the image, every memory and every set of   *)
(* kernel files that the assumptions allow.  The copies are proved right   *)
(* with the invariant of their loops: a prefix is in place, and the source *)
(* and the bytes before it are untouched.  And ElfParser, which reads the  *)
(* same file before the loader does.                                       *)
(*                                                                         *)
(* Printf, for every format, length and value: the buffer holds the text   *)
(* of the items before k (PrintfInv), and the text of an integer, which is *)
(* put together from its end, is the one the standard asks for (Layout).   *)
(* What FlattenSeq and the powers of a base do for every number is shown   *)
(* by the least number that it would be wrong for (LeastNat).              *)
(***************************************************************************)
EXTENDS ElfParser, Printf, FiniteSetTheorems, SequenceTheorems, WellFoundedInduction, TLAPS

\* The stack and the image, up to the loader's bss, as the firmware left them.
Pristine == \A a \in ElfStart - StackSize .. BssStart - 1 : mem[a] = a

DtbCopied == \A a \in DtbTarget : mem[a] = DtbBlob + (a - DtbStart)
FileCopied == \A a \in Target : mem[a] = HdrAddr + (a - H.header_addr)

\* Nothing has been copied over the image before the kernel is.
ImageKept == pc \in {"start", "search", "found", "dtb", "boot"} => Pristine

\* The header is the first one in the file.
HeaderFirst ==
  /\ pc \in {"found", "dtb", "boot", "load", "clear", "jumped"} => hdr # -1
  /\ pc \in {"start", "search"} => hdr = -1
  /\ hdr # -1 => \A w \in DOMAIN image : hdr <= w

\* The loop that copies the device tree.
DtbLoop ==
  pc = "dtb" =>
    /\ dest = DtbStart /\ src = DtbBlob /\ size = DtbSize /\ i <= size
    /\ \A q \in 0 .. i - 1 : mem[DtbStart + q] = DtbBlob + q

DtbKept ==
  /\ pc = "boot" => DtbCopied
  /\ pc \in {"load", "clear", "jumped"} /\ WellPlaced => DtbCopied

\* The loop that copies the kernel.
LoadLoop ==
  pc = "load" =>
    /\ dest = H.load_addr /\ src = Real(H.load_addr) /\ size = LoadSize
    /\ ~Overlaps(dest)
    /\ WellPlaced => /\ i <= size /\ Pristine
                     /\ \A q \in 0 .. i - 1 : mem[dest + q] = src + q

FileKept == pc \in {"clear", "jumped"} /\ WellPlaced => FileCopied

Inv ==
  /\ TypeOK /\ ImageKept /\ HeaderFirst /\ DtbLoop /\ DtbKept /\ LoadLoop /\ FileKept
  /\ LoaderIntact

-----------------------------------------------------------------------------
(* What the formulas over the header depend on, and their arithmetic. *)

\* The image and the stack are memory; the loader's bss follows them.
LEMMA ImageRange ==
  \A a \in ElfStart - StackSize .. BssStart - 1 :
    a \in Addr /\ a \notin BssStart .. End /\ a < DtbStart
<1>1. /\ MemSize \in Nat /\ ElfStart \in Nat /\ StackSize \in Nat /\ BssStart \in Nat
      /\ End \in Nat /\ DtbStart \in Nat /\ DtbSize \in Nat
  BY LayoutAssumption
<1>2. StackSize <= ElfStart /\ BssStart <= End /\ End < DtbStart /\ DtbStart + DtbSize <= MemSize
  BY LayoutAssumption
<1> QED
  BY <1>1, <1>2 DEF Addr

\* The formulas over the header only change with the file or the header.
LEMMA HeaderSame ==
  ASSUME image' = image, hdr' = hdr
  PROVE  /\ H' = H /\ HdrAddr' = HdrAddr /\ LoadSize' = LoadSize
         /\ Real(H.load_addr)' = Real(H.load_addr) /\ Target' = Target
         /\ Cleared' = Cleared
         /\ WellFormed' = WellFormed /\ WellPlaced' = WellPlaced
BY DEF H, HdrAddr, LoadSize, Real, Target, Cleared, WellFormed, WellPlaced

\* A header that was found has its fields, and an address.
LEMMA HeaderFields ==
  ASSUME TypeOK, hdr # -1
  PROVE  /\ hdr \in Nat /\ HdrAddr \in Nat /\ H.direct \in BOOLEAN
         /\ H.header_addr \in 0 .. WordSize - 1 /\ H.load_addr \in 0 .. WordSize - 1
         /\ H.load_end_addr \in 0 .. WordSize - 1 /\ H.bss_end_addr \in 0 .. WordSize - 1
<1>1. hdr \in DOMAIN image /\ hdr \in Nat
  BY DEF TypeOK, IsImage
<1>2. Word * hdr \in Nat
  BY <1>1, LayoutAssumption
<1> QED
  BY <1>1, <1>2, LayoutAssumption DEF TypeOK, IsImage, H, HdrAddr, Fields

\* The places that Real computes are numbers.
LEMMA RealNat ==
  ASSUME TypeOK, hdr # -1, NEW a \in 0 .. WordSize - 1
  PROVE  Real(a) \in Nat
BY HeaderFields, LayoutAssumption DEF Real, U64

\* Under a well-formed header the arithmetic does not wrap.
LEMMA NoWrap ==
  ASSUME TypeOK, hdr # -1, WellFormed
  PROVE  /\ LoadSize = H.load_end_addr - H.load_addr /\ LoadSize > 0
         /\ Real(H.load_addr) = HdrAddr + (H.load_addr - H.header_addr)
         /\ Real(H.load_addr) >= FileBase
         /\ Real(H.load_addr) + LoadSize <= FileEnd
         /\ Real(H.load_end_addr) = HdrAddr + (H.load_end_addr - H.header_addr)
         /\ Real(H.load_end_addr) > FileBase
         /\ H.load_addr + LoadSize <= MemSize
<1>1. LoadSize = H.load_end_addr - H.load_addr /\ LoadSize > 0
  BY HeaderFields, LayoutAssumption DEF LoadSize, U32, AsInt, WellFormed
<1>2. /\ Real(H.load_addr) = HdrAddr + (H.load_addr - H.header_addr)
      /\ Real(H.load_addr) >= FileBase
      /\ Real(H.load_end_addr) = HdrAddr + (H.load_end_addr - H.header_addr)
      /\ Real(H.load_end_addr) > FileBase
  BY HeaderFields, LayoutAssumption DEF Real, U64, WellFormed
<1> QED
  BY <1>1, <1>2, HeaderFields, LayoutAssumption DEF WellFormed

\* In particular the loader's code and stack are never in what ClearBss clears.
LEMMA VitalPristine ==
  ASSUME Pristine
  PROVE  \A a \in Vital : mem[a] = a
BY LayoutAssumption DEF Pristine, Vital

-----------------------------------------------------------------------------
(* The invariant holds initially and is preserved by every action. *)

LEMMA InitInv == Init => Inv
<1> SUFFICES ASSUME Init PROVE Inv
  OBVIOUS
<1>1. TypeOK
  BY LayoutAssumption, ImagesAssumption DEF Init, TypeOK, Addr, Ends
<1>2. ImageKept
  BY ImageRange DEF Init, ImageKept, Pristine
<1> QED
  BY <1>1, <1>2 DEF Init, Inv, HeaderFirst, DtbLoop, DtbKept, LoadLoop, FileKept, LoaderIntact

LEMMA ClearOwnBssInv == Inv /\ ClearOwnBss => Inv'
<1> SUFFICES ASSUME Inv, ClearOwnBss PROVE Inv'
  OBVIOUS
<1>1. TypeOK'
  BY DEF Inv, TypeOK, ClearOwnBss, Keep, Addr, Ends
<1>2. Pristine'
  BY ImageRange DEF Inv, ImageKept, Pristine, ClearOwnBss
<1> QED
  BY <1>1, <1>2
  DEF Inv, ImageKept, ClearOwnBss, Keep, HeaderFirst, DtbLoop, DtbKept, LoadLoop, FileKept,
      LoaderIntact

LEMMA SearchInv == Inv /\ Search => Inv'
<1> SUFFICES ASSUME Inv, Search PROVE Inv'
  OBVIOUS
<1>1. TypeOK'
  BY DEF Inv, TypeOK, Search, Found, Keep, Ends
<1>2. Pristine'
  BY DEF Inv, ImageKept, Pristine, Search
<1>3. hdr' # -1 => \A w \in DOMAIN image : hdr' <= w
  BY LayoutAssumption DEF Inv, TypeOK, IsImage, Search, Found
<1>4. LoaderIntact'
  BY <1>2, VitalPristine, LayoutAssumption DEF LoaderIntact, Pristine, Vital
<1> QED
  BY <1>1, <1>2, <1>3, <1>4
  DEF Inv, TypeOK, IsImage, ImageKept, Search, Found, Keep, HeaderFirst, DtbLoop, DtbKept,
      LoadLoop, FileKept

\* The device tree's target and its place in the image.
LEMMA DtbRange ==
  /\ DtbStart \in Nat /\ DtbBlob \in Nat /\ DtbSize \in Nat /\ ~Overlaps(DtbStart)
  /\ \A q \in 0 .. DtbSize - 1 : /\ DtbBlob + q \in ElfStart - StackSize .. BssStart - 1
                               /\ DtbStart + q \in Addr
                               /\ DtbStart + q \notin ElfStart - StackSize .. BssStart - 1
<1>1. /\ MemSize \in Nat /\ ElfStart \in Nat /\ StackSize \in Nat /\ BssStart \in Nat
      /\ End \in Nat /\ DtbStart \in Nat /\ DtbSize \in Nat /\ DtbBlob \in Nat
      /\ FileBase \in Nat /\ FileEnd \in Nat /\ CodeEnd \in Nat
  BY LayoutAssumption
<1>2. /\ StackSize <= ElfStart /\ BssStart <= End /\ End < DtbStart /\ DtbStart + DtbSize <= MemSize
      /\ ElfStart <= CodeEnd /\ CodeEnd < DtbBlob /\ DtbBlob + DtbSize <= FileBase
      /\ FileBase <= FileEnd /\ FileEnd <= BssStart
  BY LayoutAssumption
<1> QED
  BY <1>1, <1>2 DEF Addr, Overlaps

LEMMA SaveDtbInv == Inv /\ SaveDtb => Inv'
<1> SUFFICES ASSUME Inv, SaveDtb PROVE Inv'
  OBVIOUS
<1>1. pc' = "dtb" /\ dest' = DtbStart /\ src' = DtbBlob /\ size' = DtbSize /\ i' = 0
  BY DtbRange DEF SaveDtb, CallMove
<1>2. TypeOK'
  BY <1>1, DtbRange DEF Inv, TypeOK, SaveDtb
<1>3. Pristine' /\ LoaderIntact'
  BY VitalPristine DEF Inv, ImageKept, Pristine, SaveDtb, LoaderIntact
<1>4. DtbLoop'
  BY <1>1, DtbRange DEF DtbLoop
<1>5. HeaderFirst'
  BY <1>1 DEF Inv, HeaderFirst, SaveDtb
<1> QED
  BY <1>1, <1>2, <1>3, <1>4, <1>5 DEF Inv, ImageKept, DtbKept, LoadLoop, FileKept

LEMMA DtbByteInv == Inv /\ MoveByte("dtb") => Inv'
<1> SUFFICES ASSUME Inv, MoveByte("dtb") PROVE Inv'
  OBVIOUS
<1>1. pc = "dtb" /\ pc' = pc /\ UNCHANGED <<image, hdr, dest, src, size>> /\ i' = i + 1 /\ i < size
  BY DEF MoveByte
<1>2. /\ dest = DtbStart /\ src = DtbBlob /\ size = DtbSize /\ i \in Nat
      /\ Pristine /\ mem \in [Addr -> Addr \cup {Zero, Junk}]
      /\ \A q \in 0 .. i - 1 : mem[DtbStart + q] = DtbBlob + q
  BY <1>1 DEF Inv, TypeOK, DtbLoop, ImageKept
<1>3. mem' = [mem EXCEPT ![DtbStart + i] = DtbBlob + i]
  <2>1. i \in 0 .. DtbSize - 1
    BY <1>1, <1>2, DtbRange
  <2>2. mem[DtbBlob + i] = DtbBlob + i
    BY <1>2, <2>1, DtbRange DEF Pristine
  <2> QED
    BY <1>2, <2>2 DEF MoveByte
<1>4. TypeOK'
  BY <1>1, DtbRange DEF Inv, TypeOK, MoveByte
<1>5. Pristine'
  BY <1>1, <1>2, <1>3, DtbRange, ImageRange DEF Pristine
<1>6. DtbLoop'
  BY <1>1, <1>2, <1>3, DtbRange DEF DtbLoop
<1>7. LoaderIntact'
  BY <1>5, ImageRange, LayoutAssumption DEF LoaderIntact, Pristine, Vital
<1> QED
  BY <1>1, <1>4, <1>5, <1>6, <1>7
  DEF Inv, ImageKept, HeaderFirst, DtbKept, LoadLoop, FileKept

LEMMA DtbDoneInv == Inv /\ MoveDone("dtb", "boot") => Inv'
<1> SUFFICES ASSUME Inv, MoveDone("dtb", "boot") PROVE Inv'
  OBVIOUS
<1>1. pc = "dtb" /\ pc' = "boot" /\ UNCHANGED <<mem, image, hdr, dest, src, size, i>> /\ i >= size
  BY DEF MoveDone
<1>2. TypeOK'
  BY <1>1 DEF Inv, TypeOK
<1>3. DtbCopied'
  BY <1>1, DtbRange DEF Inv, TypeOK, DtbLoop, DtbCopied, DtbTarget
<1>4. Pristine' /\ LoaderIntact'
  BY <1>1, HeaderSame DEF Inv, ImageKept, Pristine, LoaderIntact
<1> QED
  BY <1>1, <1>2, <1>3, <1>4 DEF Inv, ImageKept, HeaderFirst, DtbLoop, DtbKept, LoadLoop, FileKept

\* Steps that end the loader only change pc.
LEMMA EndInv == Inv /\ pc' \in {"failed", "fault", "derailed"}
                    /\ UNCHANGED <<mem, image, hdr, dest, src, size, i>> => Inv'
BY HeaderSame
DEF Inv, TypeOK, Ends, ImageKept, HeaderFirst, DtbLoop, DtbKept, LoadLoop, FileKept, LoaderIntact

\* Where a well-placed kernel comes from and goes to.
LEMMA TargetRange ==
  ASSUME TypeOK, hdr # -1, WellPlaced
  PROVE  /\ \A q \in 0 .. LoadSize - 1 :
              /\ H.load_addr + q \in Addr
              /\ H.load_addr + q \notin ElfStart - StackSize .. BssStart - 1
              /\ H.load_addr + q \notin DtbTarget
              /\ Real(H.load_addr) + q \in ElfStart - StackSize .. BssStart - 1
              /\ Real(H.load_addr) + q = HdrAddr + ((H.load_addr + q) - H.header_addr)
         /\ ~Overlaps(H.load_addr)
<1> WellFormed
  BY DEF WellPlaced
<1>1. /\ MemSize \in Nat /\ ElfStart \in Nat /\ StackSize \in Nat /\ BssStart \in Nat
      /\ End \in Nat /\ FileBase \in Nat /\ FileEnd \in Nat
      /\ ElfStart <= FileBase /\ FileEnd <= BssStart /\ BssStart <= End
  BY LayoutAssumption
<1>2. \A q \in 0 .. LoadSize - 1 : H.load_addr + q \in Target
  BY NoWrap, HeaderFields DEF Target
<1>3. \A q \in 0 .. LoadSize - 1 :
        /\ H.load_addr + q \notin ElfStart - StackSize .. End
        /\ H.load_addr + q \notin DtbTarget
  BY <1>2 DEF WellPlaced, Disjoint
<1>4. \A q \in 0 .. LoadSize - 1 :
        /\ H.load_addr + q \in Addr
        /\ Real(H.load_addr) + q \in ElfStart - StackSize .. BssStart - 1
        /\ Real(H.load_addr) + q = HdrAddr + ((H.load_addr + q) - H.header_addr)
  BY <1>1, NoWrap, HeaderFields DEF Addr
<1>5. ~Overlaps(H.load_addr)
  <2>1. H.load_addr \notin ElfStart - StackSize .. End
    BY <1>3, NoWrap, HeaderFields
  <2> QED
    BY <1>1, <2>1, HeaderFields DEF Overlaps
<1>6. \A q \in 0 .. LoadSize - 1 : H.load_addr + q \notin ElfStart - StackSize .. BssStart - 1
  BY <1>1, <1>3, HeaderFields
<1> QED
  BY <1>3, <1>4, <1>5, <1>6

LEMMA BootInv == Inv /\ Boot => Inv'
<1> SUFFICES ASSUME Inv, Boot PROVE Inv'
  OBVIOUS
<1>1. pc = "boot" /\ UNCHANGED <<mem, image, hdr>> /\ hdr # -1
  BY DEF Inv, Boot, HeaderFirst
<1>2. CASE ~H.direct
  BY <1>1, <1>2, EndInv DEF Boot
<1>3. CASE H.direct
  <2>1. /\ dest' = H.load_addr /\ src' = Real(H.load_addr) /\ size' = LoadSize /\ i' = 0
        /\ pc' = IF Overlaps(H.load_addr) THEN "clear" ELSE "load"
    BY <1>3 DEF Boot, CallMove
  <2>2. TypeOK'
    <3>1. LoadSize \in Int
      BY <1>1, HeaderFields, LayoutAssumption DEF Inv, LoadSize, U32, AsInt
    <3> QED
      BY <1>1, <2>1, <3>1, HeaderFields, RealNat DEF Inv, TypeOK
  <2>3. Pristine /\ Pristine' /\ DtbCopied /\ DtbCopied'
    BY <1>1, HeaderSame DEF Inv, ImageKept, DtbKept, Pristine, DtbCopied, DtbTarget
  <2>4. LoaderIntact'
    BY <1>1, HeaderSame DEF Inv, LoaderIntact
  <2>5. LoadLoop'
    <3> SUFFICES ASSUME pc' = "load" PROVE LoadLoop'
      BY DEF LoadLoop
    <3>1. ~Overlaps(H.load_addr)
      BY <2>1
    <3>2. WellPlaced => 0 <= LoadSize
      BY <1>1, NoWrap, HeaderFields DEF Inv, WellPlaced
    <3> QED
      BY <1>1, <2>1, <2>3, <3>1, <3>2, HeaderSame DEF LoadLoop, Overlaps
  <2>6. FileKept'
    BY <1>1, <2>1, HeaderSame, TargetRange DEF Inv, FileKept
  <2> QED
    BY <1>1, <2>1, <2>2, <2>3, <2>4, <2>5, <2>6
    DEF Inv, ImageKept, HeaderFirst, DtbLoop, DtbKept
<1> QED
  BY <1>2, <1>3

\* A kernel linked at or above the loader is copied above it, or not at all.
LEMMA AboveLoader ==
  ASSUME TypeOK, hdr # -1, H.load_addr >= ElfStart, ~Overlaps(H.load_addr), NEW q \in Nat
  PROVE  H.load_addr + q \notin Vital
<1>1. CodeEnd \in Nat /\ End \in Nat /\ ElfStart \in Nat /\ StackSize \in Nat /\ CodeEnd <= End
  BY LayoutAssumption
<1> QED
  BY <1>1, HeaderFields DEF Overlaps, Vital

LEMMA LoadByteInv == Inv /\ MoveByte("load") => Inv'
<1> SUFFICES ASSUME Inv, MoveByte("load") PROVE Inv'
  OBVIOUS
<1>1. pc = "load" /\ pc' = pc /\ UNCHANGED <<image, hdr, dest, src, size>> /\ i' = i + 1 /\ i < size
  BY DEF MoveByte
<1>2. /\ hdr # -1 /\ i \in Nat /\ size \in Int /\ TypeOK
      /\ dest = H.load_addr /\ src = Real(H.load_addr) /\ size = LoadSize /\ ~Overlaps(dest)
  BY <1>1 DEF Inv, TypeOK, LoadLoop, HeaderFirst
<1>3. /\ mem' = [mem EXCEPT ![dest + i] = mem[src + i]] /\ dest + i \in Addr /\ src + i \in Addr
      /\ mem \in [Addr -> Addr \cup {Zero, Junk}]
  BY DEF Inv, TypeOK, MoveByte
<1>4. TypeOK'
  BY <1>1, <1>3 DEF Inv, TypeOK
<1>5. LoaderIntact'
  <2> SUFFICES ASSUME WellFormed, H.load_addr >= ElfStart, NEW a \in Vital
               PROVE  mem'[a] = a
    BY <1>1, HeaderSame DEF LoaderIntact
  <2>1. mem[a] = a
    BY <1>2 DEF Inv, LoaderIntact
  <2>2. dest + i # a
    BY <1>2, AboveLoader
  <2> QED
    BY <1>3, <2>1, <2>2
<1>6. WellPlaced => DtbCopied'
  <2> SUFFICES ASSUME WellPlaced PROVE DtbCopied'
    OBVIOUS
  <2>1. DtbCopied /\ dest + i \notin DtbTarget
    BY <1>1, <1>2, TargetRange DEF Inv, DtbKept
  <2> QED
    BY <1>3, <2>1 DEF DtbCopied, DtbTarget
<1>7. LoadLoop'
  <2>1. WellPlaced => /\ i + 1 <= size /\ Pristine'
                      /\ \A q \in 0 .. i : mem'[dest + q] = src + q
    <3> SUFFICES ASSUME WellPlaced
                 PROVE  /\ i + 1 <= size /\ Pristine'
                        /\ \A q \in 0 .. i : mem'[dest + q] = src + q
      OBVIOUS
    <3>1. Pristine /\ \A q \in 0 .. i - 1 : mem[dest + q] = src + q
      BY <1>1 DEF Inv, LoadLoop
    <3>2. \A q \in 0 .. i : q \in 0 .. LoadSize - 1 /\ dest + q \in Addr
      BY <1>1, <1>2, TargetRange
    <3>3. mem[src + i] = src + i
      BY <1>2, <3>1, <3>2, TargetRange DEF Pristine
    <3>4. mem' = [mem EXCEPT ![dest + i] = src + i]
      BY <1>3, <3>3
    <3>5. Pristine'
      BY <1>2, <1>3, <3>1, <3>2, <3>4, TargetRange, ImageRange DEF Pristine
    <3>6. dest \in Nat
      BY <1>2, HeaderFields
    <3>7. \A q \in 0 .. i : mem'[dest + q] = src + q
      BY <1>2, <1>3, <3>1, <3>2, <3>4, <3>6
    <3> QED
      BY <1>1, <1>2, <3>5, <3>7
  <2> QED
    BY <1>1, <1>2, <2>1, HeaderSame DEF LoadLoop, Overlaps
<1> QED
  BY <1>1, <1>4, <1>5, <1>6, <1>7, HeaderSame
  DEF Inv, ImageKept, HeaderFirst, DtbLoop, DtbKept, FileKept

LEMMA LoadDoneInv == Inv /\ MoveDone("load", "clear") => Inv'
<1> SUFFICES ASSUME Inv, MoveDone("load", "clear") PROVE Inv'
  OBVIOUS
<1>1. pc = "load" /\ pc' = "clear" /\ UNCHANGED <<mem, image, hdr, dest, src, size, i>> /\ i >= size
  BY DEF MoveDone
<1>2. TypeOK'
  BY <1>1 DEF Inv, TypeOK
<1>3. WellPlaced => FileCopied
  <2> SUFFICES ASSUME WellPlaced, NEW a \in Target PROVE mem[a] = HdrAddr + (a - H.header_addr)
    BY DEF FileCopied
  <2>1. /\ hdr # -1 /\ i \in Nat /\ dest = H.load_addr /\ src = Real(H.load_addr) /\ i = LoadSize
        /\ \A q \in 0 .. i - 1 : mem[dest + q] = src + q
    BY <1>1 DEF Inv, TypeOK, LoadLoop, HeaderFirst
  <2>2. a - H.load_addr \in 0 .. LoadSize - 1 /\ H.load_addr + (a - H.load_addr) = a
    <3>1. WellFormed /\ TypeOK
      BY DEF Inv, WellPlaced
    <3> QED
      BY <2>1, <3>1, NoWrap, HeaderFields DEF Target
  <2> QED
    BY <2>1, <2>2, TargetRange DEF Inv
<1>4. WellPlaced => DtbCopied
  BY <1>1 DEF Inv, DtbKept
<1>5. FileCopied' <=> FileCopied
  BY <1>1, HeaderSame DEF FileCopied
<1>6. DtbCopied' <=> DtbCopied
  BY <1>1 DEF DtbCopied, DtbTarget
<1>7. LoaderIntact'
  BY <1>1, HeaderSame DEF Inv, LoaderIntact
<1> QED
  BY <1>1, <1>2, <1>3, <1>4, <1>5, <1>6, <1>7, HeaderSame
  DEF Inv, ImageKept, HeaderFirst, DtbLoop, LoadLoop, DtbKept, FileKept

LEMMA ClearBssInv == Inv /\ ClearBss => Inv'
<1> SUFFICES ASSUME Inv, ClearBss PROVE Inv'
  OBVIOUS
<1>1. pc = "clear" /\ UNCHANGED <<image, hdr, dest, src, size, i>> /\ hdr # -1
  BY DEF Inv, ClearBss, Keep, HeaderFirst
<1>2. CASE ~(Cleared \subseteq Addr)
  BY <1>1, <1>2, EndInv DEF ClearBss
<1>3. CASE Cleared \subseteq Addr
  <2>1. mem' = [a \in Addr |-> IF a \in Cleared THEN Zero ELSE mem[a]] /\ pc' = "jumped"
    BY <1>3 DEF ClearBss
  <2>2. TypeOK'
    BY <1>1, <2>1 DEF Inv, TypeOK, Ends
  <2>3. WellPlaced => FileCopied'
    <3> SUFFICES ASSUME WellPlaced PROVE FileCopied'
      OBVIOUS
    <3>1. FileCopied /\ Disjoint(Target, Cleared)
      BY <1>1 DEF Inv, FileKept, WellPlaced
    <3>2. Target \subseteq Addr
      <4>1. WellFormed /\ TypeOK /\ MemSize \in Nat
        BY LayoutAssumption DEF Inv, WellPlaced
      <4> QED
        BY <1>1, <4>1, HeaderFields DEF Target, Addr, WellFormed
    <3> QED
      BY <1>1, <2>1, <3>1, <3>2, HeaderSame DEF FileCopied, Disjoint
  <2>4. WellPlaced => DtbCopied'
    <3> SUFFICES ASSUME WellPlaced PROVE DtbCopied'
      OBVIOUS
    <3>1. DtbCopied /\ Disjoint(DtbTarget, Cleared)
      BY <1>1 DEF Inv, DtbKept, WellPlaced
    <3>2. DtbTarget \subseteq Addr
      BY LayoutAssumption DEF DtbTarget, Addr
    <3> QED
      BY <2>1, <3>1, <3>2 DEF DtbCopied, Disjoint, DtbTarget
  <2>5. LoaderIntact'
    <3> SUFFICES ASSUME WellFormed, H.load_addr >= ElfStart, NEW a \in Vital
                 PROVE  mem'[a] = a
      BY <1>1, HeaderSame DEF LoaderIntact
    <3>1. mem[a] = a
      BY <1>1 DEF Inv, LoaderIntact
    <3>2. a \in Addr /\ a < FileBase /\ FileBase \in Nat /\ a \in Int
      <4>1. /\ MemSize \in Nat /\ ElfStart \in Nat /\ StackSize \in Nat /\ CodeEnd \in Nat
            /\ DtbBlob \in Nat /\ DtbSize \in Nat /\ FileBase \in Nat
            /\ StackSize <= ElfStart /\ CodeEnd < DtbBlob /\ DtbBlob + DtbSize <= FileBase
        BY LayoutAssumption
      <4>2. FileBase <= MemSize
        BY LayoutAssumption
      <4> QED
        BY <4>1, <4>2 DEF Vital, Addr
    <3>3. a \notin Cleared
      BY <1>1, <3>2, NoWrap, RealNat, HeaderFields DEF Inv, Cleared
    <3> QED
      BY <2>1, <3>1, <3>2, <3>3
  <2> QED
    BY <1>1, <2>1, <2>2, <2>3, <2>4, <2>5, HeaderSame
    DEF Inv, ImageKept, HeaderFirst, DtbLoop, LoadLoop, DtbKept, FileKept
<1> QED
  BY <1>2, <1>3

LEMMA NextInv == Inv /\ [Next]_vars => Inv'
<1> SUFFICES ASSUME Inv, [Next]_vars PROVE Inv'
  OBVIOUS
<1>1. CASE ClearOwnBss
  BY <1>1, ClearOwnBssInv
<1>2. CASE Search
  BY <1>2, SearchInv
<1>3. CASE SaveDtb
  BY <1>3, SaveDtbInv
<1>4. CASE Boot
  BY <1>4, BootInv
<1>5. CASE ClearBss
  BY <1>5, ClearBssInv
<1>6. CASE Moving("dtb", "boot")
  BY <1>6, DtbByteInv, DtbDoneInv, EndInv DEF Moving, MoveFault
<1>7. CASE Moving("load", "clear")
  BY <1>7, LoadByteInv, LoadDoneInv, EndInv DEF Moving, MoveFault
<1>8. CASE Derail
  BY <1>8, EndInv DEF Derail
<1>9. CASE UNCHANGED vars
  BY <1>9, HeaderSame
  DEF vars, Inv, TypeOK, ImageKept, HeaderFirst, DtbLoop, DtbKept, LoadLoop, FileKept,
      LoaderIntact, Pristine, DtbCopied, DtbTarget, FileCopied, Overlaps
<1> QED
  BY <1>1, <1>2, <1>3, <1>4, <1>5, <1>6, <1>7, <1>8, <1>9 DEF Next

LEMMA InvAlways == Spec => []Inv
BY InitInv, NextInv, PTL DEF Spec

-----------------------------------------------------------------------------
(* The theorems. *)

\* Every variable of the loader keeps its type: memory only holds bytes of the
\* image, zeros and what was there, and the header is one of the file's.
THEOREM TypeCorrect == Spec => []TypeOK
<1>1. Inv => TypeOK
  BY DEF Inv
<1> QED
  BY <1>1, InvAlways, PTL

\* A kernel that has a place of its own is copied there byte by byte, whatever
\* the layout, its size and its header (move and the loops over a bss).
THEOREM LoadedIsFileAlways == Spec => []LoadedIsFile
<1>1. Inv => LoadedIsFile
  BY DEF Inv, LoadedIsFile, FileKept, FileCopied, HeaderFirst
<1> QED
  BY <1>1, InvAlways, PTL

\* The device tree that main copies to DtbStart is still there at the jump.
THEOREM DtbSavedAlways == Spec => []DtbSaved
<1>1. Inv => DtbSaved
  BY DEF Inv, DtbSaved, DtbKept, DtbCopied
<1> QED
  BY <1>1, InvAlways, PTL

\* The overlap check of move is enough for every kernel that is not linked below
\* the loader: the loader's code and stack are never overwritten.
THEOREM LoaderIntactAlways == Spec => []LoaderIntact
<1>1. Inv => LoaderIntact
  BY DEF Inv
<1> QED
  BY <1>1, InvAlways, PTL

-----------------------------------------------------------------------------
(* The reader: what it says of the file, and what the loader decides. *)

\* What the loader's decisions say about the file.
Decided ==
  /\ pc \in {"load", "clear", "jumped"} => H.direct
  /\ pc = "failed" => IF hdr = -1 THEN Found = {} ELSE ~H.direct

\* What the reader's reports say about it.
Reported ==
  /\ reading \in {"open", "magic", "init64", "search"} => mb_hdr_offset = -1 /\ extra = FALSE
  /\ reading = "parse" => mb_hdr_offset \in Seen
  /\ reading = "done" =>
       \/ mb_hdr_offset = -1 /\ Seen = {} /\ extra = FALSE
       \/ /\ mb_hdr_offset \in Seen
          /\ \A w \in DOMAIN image : mb_hdr_offset = Word * w => extra = image[w].direct

ReaderInv == Inv /\ ReaderTypeOK /\ Decided /\ Reported

LEMMA DecidedStep ==
  ASSUME Inv, Decided, [Next]_vars
  PROVE  Decided'
<1>t. /\ pc \in {"start", "search", "found", "dtb", "boot", "load", "clear"} \cup Ends
      /\ pc \in {"found", "dtb", "boot", "load", "clear", "jumped"} => hdr # -1
  BY DEF Inv, TypeOK, HeaderFirst
<1>s. ASSUME image' = image, hdr' = hdr PROVE H' = H /\ Found' = Found
  BY <1>s DEF H, Found
<1>1. CASE ClearOwnBss
  BY <1>1 DEF ClearOwnBss, Decided
<1>2. CASE Search
  BY <1>2 DEF Search, Decided, Keep, Found
<1>3. CASE SaveDtb
  BY <1>3 DEF SaveDtb, CallMove, Decided
<1>4. CASE Boot
  BY <1>4, <1>s, <1>t DEF Boot, CallMove, Decided
<1>5. CASE ClearBss
  BY <1>5, <1>s DEF ClearBss, Keep, Decided
<1>6. CASE Moving("dtb", "boot")
  BY <1>6, <1>s DEF Moving, MoveByte, MoveDone, MoveFault, Decided
<1>7. CASE Moving("load", "clear")
  BY <1>7, <1>s DEF Moving, MoveByte, MoveDone, MoveFault, Decided
<1>8. CASE Derail
  BY <1>8 DEF Derail, Decided
<1>9. CASE UNCHANGED vars
  BY <1>9, <1>s DEF vars, Decided
<1> QED
  BY <1>1, <1>2, <1>3, <1>4, <1>5, <1>6, <1>7, <1>8, <1>9 DEF Next

\* The loader leaves the reader and the file alone.
LEMMA FileStays == [Next]_vars => image' = image
BY DEF Next, vars, ClearOwnBss, Search, SaveDtb, Boot, ClearBss, Moving, MoveByte, MoveDone,
       MoveFault, Derail, Keep

LEMMA ReportedSame ==
  ASSUME Reported, ReaderTypeOK, image' = image, UNCHANGED readVars
  PROVE  Reported' /\ ReaderTypeOK'
<1>1. /\ reading' = reading /\ mapped' = mapped /\ odd' = odd
      /\ mb_hdr_offset' = mb_hdr_offset /\ extra' = extra
  BY DEF readVars
<1>2. Seen' = Seen
  BY <1>1 DEF Seen, Headers
<1> QED
  BY <1>1, <1>2 DEF Reported, ReaderTypeOK

LEMMA RoundUpNat == \A n \in Nat : RoundUp(n) \in Nat
<1>1. PageBytes \in Nat /\ PageBytes > 0
  BY ReaderAssumption
<1> QED
  BY <1>1 DEF RoundUp

\* Offsets of headers are numbers.
LEMMA SeenNat == IsImage(image) /\ odd \subseteq Nat => Headers \subseteq Nat /\ Seen \subseteq Nat
<1> SUFFICES ASSUME IsImage(image), odd \subseteq Nat PROVE Headers \subseteq Nat
  BY DEF Seen
<1>1. Word \in Nat
  BY ReaderAssumption
<1>2. \A w \in DOMAIN image : Word * w \in Nat
  BY <1>1 DEF IsImage
<1> QED
  BY <1>2 DEF Headers

LEMMA ReaderStep ==
  ASSUME IsImage(image), ReaderTypeOK, Reported, ReaderNext, UNCHANGED vars
  PROVE  Reported' /\ ReaderTypeOK'
<1>i. image' = image
  BY DEF vars
<1>t. /\ reading \in {"idle", "open", "magic", "init64", "search", "parse", "done", "crashed"}
      /\ mapped \in Nat /\ odd \subseteq Nat /\ mb_hdr_offset \in Nat \cup {-1} /\ extra \in BOOLEAN
  BY DEF ReaderTypeOK
<1>1. CASE Open
  <2>1. /\ reading = "open" /\ odd' = odd /\ mb_hdr_offset' = mb_hdr_offset /\ extra' = extra
        /\ reading' \in {"search", "crashed", "magic"}
    BY <1>1 DEF Open
  <2>2. mapped' \in Nat
    BY <1>1, <1>t, RoundUpNat, ReaderAssumption DEF Open
  <2>3. ReaderTypeOK'
    BY <1>t, <2>1, <2>2 DEF ReaderTypeOK
  <2>4. Reported'
    BY <2>1 DEF Reported
  <2> QED
    BY <2>3, <2>4
<1>2. CASE parser_check_magic \/ parser_init64
  <2>1. /\ reading \in {"magic", "init64"} /\ reading' \in {"search", "init64"}
        /\ UNCHANGED <<mapped, odd, mb_hdr_offset, extra>>
    BY <1>2 DEF parser_check_magic, parser_init64
  <2>2. ReaderTypeOK'
    BY <1>t, <2>1 DEF ReaderTypeOK
  <2>3. Reported'
    BY <2>1 DEF Reported
  <2> QED
    BY <2>2, <2>3
<1>3. CASE SearchFile
  <2>1. /\ reading = "search" /\ odd' = odd /\ extra' = extra
        /\ mapped' = (IF reading' = "parse" THEN mapped ELSE 0)
        /\ mb_hdr_offset = -1 /\ extra = FALSE
    BY <1>3 DEF SearchFile, Reported
  <2>2. Seen' = Seen
    BY <1>i, <2>1 DEF Seen, Headers
  <2>3. \/ reading' = "crashed" /\ mb_hdr_offset' = -1
        \/ reading' = "done" /\ mb_hdr_offset' = -1 /\ Seen = {}
        \/ reading' = "parse" /\ mb_hdr_offset' \in Seen
    BY <1>3, <2>1 DEF SearchFile, Match
  <2>4. mapped' \in Nat
    BY <1>t, <2>1
  <2>5. ReaderTypeOK'
    BY <1>t, <2>1, <2>3, <2>4, SeenNat DEF ReaderTypeOK
  <2>6. Reported'
    BY <2>1, <2>2, <2>3 DEF Reported
  <2> QED
    BY <2>5, <2>6
<1>4. CASE multiboot_parse
  <2>1. /\ reading = "parse" /\ reading' = "done" /\ mapped' = 0
        /\ odd' = odd /\ mb_hdr_offset' = mb_hdr_offset
        /\ extra' \in BOOLEAN
        /\ \A w \in DOMAIN image : mb_hdr_offset = Word * w => extra' = image[w].direct
    BY <1>4 DEF multiboot_parse
  <2>2. mb_hdr_offset' \in Seen'
    BY <1>i, <2>1 DEF Reported, Seen, Headers
  <2>3. ReaderTypeOK'
    BY <1>t, <2>1 DEF ReaderTypeOK
  <2>4. Reported'
    BY <1>i, <2>1, <2>2 DEF Reported
  <2> QED
    BY <2>3, <2>4
<1> QED
  BY <1>1, <1>2, <1>3, <1>4 DEF ReaderNext

LEMMA ReaderInvAlways == ReaderSpec => []ReaderInv
<1>1. Init /\ ReaderInit => ReaderInv
  <2> SUFFICES ASSUME Init, ReaderInit PROVE ReaderInv
    OBVIOUS
  <2>1. Inv
    BY InitInv
  <2>2. ReaderTypeOK
    BY ReaderAssumption DEF ReaderInit, ReaderTypeOK
  <2>3. Decided /\ Reported
    BY DEF Init, ReaderInit, Decided, Reported
  <2> QED
    BY <2>1, <2>2, <2>3 DEF ReaderInv
<1>2. ReaderInv /\ [ReadThenBoot]_<<vars, readVars>> => ReaderInv'
  <2> SUFFICES ASSUME ReaderInv, [ReadThenBoot]_<<vars, readVars>> PROVE ReaderInv'
    OBVIOUS
  <2>1. [Next]_vars
    BY DEF ReadThenBoot
  <2>2. Inv' /\ Decided' /\ image' = image /\ IsImage(image)
    BY <2>1, NextInv, DecidedStep, FileStays DEF ReaderInv, Inv, TypeOK
  <2>3. Reported' /\ ReaderTypeOK'
    <3>1. CASE ReaderNext /\ UNCHANGED vars
      BY <2>2, <3>1, ReaderStep DEF ReaderInv
    <3>2. CASE UNCHANGED readVars
      BY <2>2, <3>2, ReportedSame DEF ReaderInv
    <3> QED
      BY <3>1, <3>2 DEF ReadThenBoot
  <2> QED
    BY <2>2, <2>3 DEF ReaderInv
<1> QED
  BY <1>1, <1>2, PTL DEF ReaderSpec

\* A set of bounded numbers with one element at most.
LEMMA OneHeader ==
  ASSUME NEW S, NEW n \in Int, S \subseteq 0 .. n, Cardinality(S) <= 1, NEW a \in S, NEW b \in S
  PROVE  a = b
<1> SUFFICES ASSUME a # b PROVE FALSE
  OBVIOUS
<1>1. IsFiniteSet(0 .. n)
  BY FS_Interval
<1>2. IsFiniteSet(S)
  BY <1>1, FS_Subset
<1>3. IsFiniteSet({}) /\ Cardinality({}) = 0
  BY FS_EmptySet
<1>4. IsFiniteSet({a}) /\ Cardinality({a}) = 1
  <2>1. {} \cup {a} = {a} /\ a \notin {}
    OBVIOUS
  <2> QED
    BY <1>3, <2>1, FS_AddElement
<1>5. Cardinality({a, b}) = 2
  <2>1. {a} \cup {b} = {a, b} /\ b \notin {a}
    OBVIOUS
  <2> QED
    BY <1>4, <2>1, FS_AddElement
<1>6. {a, b} \subseteq S
  OBVIOUS
<1>7. Cardinality({a, b}) <= Cardinality(S) /\ Cardinality(S) \in Nat
  BY <1>2, <1>6, FS_Subset, FS_CardinalityType
<1> QED
  BY <1>5, <1>7

\* A header that the reader can see, the loader can find.
LEMMA SeenIsFound ==
  ASSUME IsImage(image), NEW w \in DOMAIN image, Word * w < SearchBytes
  PROVE  w \in Found
<1>1. w \in Nat /\ Word \in Nat /\ SearchWords \in Nat /\ SearchBytes \in Nat
  BY LayoutAssumption, ReaderAssumption DEF IsImage
<1>2. SearchBytes <= Word * SearchWords
  BY ReaderAssumption
<1>3. CASE w < SearchWords
  BY <1>3 DEF Found
<1>4. CASE w >= SearchWords
  <2>1. PICK d \in Nat : w = SearchWords + d
    <3>1. w - SearchWords \in Nat /\ w = SearchWords + (w - SearchWords)
      BY <1>1, <1>4
    <3> QED
      BY <3>1
  <2>2. Word * w = Word * SearchWords + Word * d
    BY <1>1, <2>1
  <2>3. Word * d \in Nat /\ Word * SearchWords \in Nat
    BY <1>1, <2>1
  <2> QED
    BY <1>1, <1>2, <2>2, <2>3
<1> QED
  BY <1>1, <1>3, <1>4

\* Of a file with one header at a word, or with none, the reader says what the loader
\* then does, for every file and however far either of them searches: one goes by
\* bytes and takes the last header, the other by words and takes the first.
THEOREM ReaderAgreesAlways == ReaderSpec => []ReaderAgrees
<1>1. ReaderInv => ReaderAgrees
  <2> SUFFICES ASSUME ReaderInv, reading = "done", Cardinality(Headers) <= 1, odd = {},
                      Headers \subseteq 0 .. SearchBytes - 1
               PROVE  /\ hdr # -1 => mb_hdr_offset = Word * hdr
                      /\ pc = "failed" => ~extra
                      /\ pc = "jumped" => extra
    BY DEF ReaderAgrees
  <2>1. /\ IsImage(image) /\ hdr \in DOMAIN image \cup {-1}
        /\ pc = "jumped" => hdr # -1
    BY DEF ReaderInv, Inv, TypeOK, HeaderFirst
  <2>2. SearchBytes \in Nat
    BY ReaderAssumption
  <2>3. Seen = Headers /\ Headers = {Word * w : w \in DOMAIN image}
    <3>1. Headers = {Word * w : w \in DOMAIN image} \cup odd
      BY Zenon DEF Headers
    <3>2. \A h \in Headers : h < SearchBytes
      BY <2>2
    <3>3. Seen = Headers
      BY <3>2, Zenon DEF Seen
    <3> QED
      BY <3>1, <3>3, Zenon
  <2>4. \/ mb_hdr_offset = -1 /\ Seen = {} /\ extra = FALSE
        \/ /\ mb_hdr_offset \in Seen
           /\ \A w \in DOMAIN image : mb_hdr_offset = Word * w => extra = image[w].direct
    BY DEF ReaderInv, Reported
  <2>5. ASSUME hdr # -1 PROVE mb_hdr_offset = Word * hdr /\ extra = H.direct
    <3>1. hdr \in DOMAIN image /\ Word * hdr \in Headers
      BY <2>1, <2>3, <2>5
    <3>2. mb_hdr_offset \in Headers
      BY <2>3, <2>4, <3>1
    <3>3. mb_hdr_offset = Word * hdr
      <4>1. SearchBytes - 1 \in Int
        BY <2>2
      <4> QED
        BY <3>1, <3>2, <4>1, OneHeader
    <3>4. extra = image[hdr].direct
      BY <2>3, <2>4, <3>1, <3>3
    <3> QED
      BY <3>3, <3>4 DEF H
  <2>6. ASSUME pc = "failed" PROVE ~extra
    <3>1. CASE hdr # -1
      BY <2>5, <2>6, <3>1 DEF ReaderInv, Decided
    <3>2. CASE hdr = -1
      <4>1. Found = {}
        BY <2>6, <3>2 DEF ReaderInv, Decided
      <4>2. Headers = {}
        <5> SUFFICES ASSUME NEW w \in DOMAIN image PROVE FALSE
          BY <2>3
        <5>1. Word * w < SearchBytes
          BY <2>2, <2>3
        <5> QED
          BY <2>1, <4>1, <5>1, SeenIsFound
      <4> QED
        BY <2>3, <2>4, <4>2
    <3> QED
      BY <3>1, <3>2
  <2>7. ASSUME pc = "jumped" PROVE extra
    BY <2>1, <2>5, <2>7 DEF ReaderInv, Decided
  <2> QED
    BY <2>5, <2>6, <2>7
<1> QED
  BY <1>1, ReaderInvAlways, PTL

-----------------------------------------------------------------------------
(* Printf: numbers and sequences. *)


LEMMA LeastNat == ASSUME NEW T, T \subseteq Nat, T # {} PROVE \E x \in T : \A y \in T : x <= y
<1> DEFINE R == OpToRel(<, Nat)
<1>1. PICK x \in T : \A y \in T : ~ (<<y, x>> \in R)
  <2>1. IsWellFoundedOn(R, Nat)
    BY NatLessThanWellFounded
  <2> HIDE DEF R
  <2> QED BY <2>1, WFMin
<1>2. ASSUME NEW y \in T PROVE x <= y
  <2>1. ~ (<<y, x>> \in {p \in Nat \X Nat : p[1] < p[2]})
    BY <1>1 DEF OpToRel
  <2> QED BY <2>1
<1> QED BY <1>2

LEMMA FlattenExists ==
  ASSUME NEW s, NEW n \in Nat
  PROVE \E f : f = [h \in 1 .. n |-> IF h = 1 THEN s[h] ELSE f[h - 1] \o s[h]]
<1> DEFINE Fl(m, f) == f = [h \in 1 .. m |-> IF h = 1 THEN s[h] ELSE f[h - 1] \o s[h]]
           T == {m \in Nat : ~ \E f : Fl(m, f)}
<1> SUFFICES ASSUME T # {} PROVE FALSE
  OBVIOUS
<1>1. PICK m \in T : \A y \in T : m <= y
  BY LeastNat
<1>2. m # 0
  <2>1. Fl(0, [h \in 1 .. 0 |-> 0])
    OBVIOUS
  <2> QED BY <2>1, <1>1
<1>3. m - 1 \in Nat /\ m - 1 \notin T
  <2> HIDE DEF Fl
  <2> QED BY <1>1, <1>2
<1>4. PICK g : Fl(m - 1, g)
  BY <1>3
<1> DEFINE f == [h \in 1 .. m |-> IF h = 1 THEN s[h] ELSE g[h - 1] \o s[h]]
<1>5. \A h \in 1 .. m - 1 : f[h] = g[h]
  <2>1. \A h \in 1 .. m - 1 : g[h] = IF h = 1 THEN s[h] ELSE g[h - 1] \o s[h]
    BY <1>4
  <2>2. m \in Nat /\ \A h \in 1 .. m - 1 : h \in 1 .. m
    BY <1>3
  <2> QED BY <2>1, <2>2
<1>6. Fl(m, f)
  <2>1. \A h \in 1 .. m : h # 1 => h - 1 \in 1 .. m - 1
    BY <1>3
  <2> QED BY <2>1, <1>5
<1> QED BY <1>6, <1>1

\* FlattenSeq is its recursive function.
LEMMA FlattenFcn ==
  ASSUME NEW s, Len(s) \in Nat \ {0}
  PROVE  \E f : /\ f = [h \in 1 .. Len(s) |-> IF h = 1 THEN s[h] ELSE f[h - 1] \o s[h]]
                /\ FlattenSeq(s) = f[Len(s)]
<1> DEFINE f == CHOOSE f : f = [h \in 1 .. Len(s) |-> IF h = 1 THEN s[h] ELSE f[h - 1] \o s[h]]
<1>1. f = [h \in 1 .. Len(s) |-> IF h = 1 THEN s[h] ELSE f[h - 1] \o s[h]]
  BY FlattenExists
<1>2. FlattenSeq(s) = f[Len(s)]
  BY DEF FlattenSeq
<1> QED BY <1>1, <1>2

\* The provers do not know that these are strings.
Char == STRING \cup {NUL, " ", "-", "+", "0", "x", "X", "b"}
         \cup {DigitChars[j] : j \in 1 .. 16} \cup {UpperChars[j] : j \in 1 .. 16}
Text == Seq(Char)
TextsOf(m) == [1 .. m -> Text]

\* The first n texts of s.
Cat(s, n) == FlattenSeq([j \in 1 .. n |-> s[j]])

LEMMA CatFcn ==
  ASSUME NEW m \in Nat, NEW s \in TextsOf(m), NEW n \in 1 .. m
  PROVE  \E f : /\ f = [h \in 1 .. n |-> IF h = 1 THEN s[h] ELSE f[h - 1] \o s[h]]
                /\ Cat(s, n) = f[n]
<1> DEFINE p == [j \in 1 .. n |-> s[j]]
<1>1. p \in Seq(Text) /\ Len(p) = n
  BY DEF TextsOf
<1>2. PICK f : /\ f = [h \in 1 .. Len(p) |-> IF h = 1 THEN p[h] ELSE f[h - 1] \o p[h]]
               /\ FlattenSeq(p) = f[Len(p)]
  <2>1. Len(p) \in Nat \ {0}
    BY <1>1
  <2> HIDE DEF p
  <2> QED BY <2>1, FlattenFcn
<1>3. [h \in 1 .. n |-> IF h = 1 THEN p[h] ELSE f[h - 1] \o p[h]]
        = [h \in 1 .. n |-> IF h = 1 THEN s[h] ELSE f[h - 1] \o s[h]]
  OBVIOUS
<1>4. FlattenSeq(p) = Cat(s, n)
  BY DEF Cat
<1>5. f = [h \in 1 .. n |-> IF h = 1 THEN p[h] ELSE f[h - 1] \o p[h]] /\ FlattenSeq(p) = f[n]
  <2> HIDE DEF p
  <2> QED BY <1>1, <1>2
<1>6. f = [h \in 1 .. n |-> IF h = 1 THEN s[h] ELSE f[h - 1] \o s[h]]
  BY <1>3, <1>5
<1> HIDE DEF p
<1> QED BY <1>4, <1>5, <1>6

LEMMA CatZero == ASSUME NEW s PROVE Cat(s, 0) = <<>>
<1>1. [j \in 1 .. 0 |-> s[j]] = <<>>
  OBVIOUS
<1> QED BY <1>1 DEF Cat, FlattenSeq

\* f is the function of the recursion, up to n.
Flattens(f, s, n) == f = [h \in 1 .. n |-> IF h = 1 THEN s[h] ELSE f[h - 1] \o s[h]]

LEMMA FlattensAt ==
  ASSUME NEW f, NEW s, NEW n \in Nat, Flattens(f, s, n)
  PROVE  \A h \in 1 .. n : f[h] = IF h = 1 THEN s[h] ELSE f[h - 1] \o s[h]
BY DEF Flattens

\* Two functions of the recursion agree where both are defined.
LEMMA FlattenUnique ==
  ASSUME NEW s, NEW m \in Nat, NEW n \in 0 .. m, NEW f, NEW g, Flattens(f, s, m), Flattens(g, s, n)
  PROVE  \A h \in 1 .. n : f[h] = g[h]
<1> DEFINE T == {h \in 1 .. n : f[h] # g[h]}
<1> SUFFICES ASSUME T # {} PROVE FALSE
  OBVIOUS
<1>1. PICK h \in T : \A y \in T : h <= y
  <2>1. n \in Nat /\ T \subseteq 1 .. n
    OBVIOUS
  <2> HIDE DEF T
  <2>2. T \subseteq Nat
    BY <2>1
  <2> QED BY <2>2, LeastNat
<1>2. h \in 1 .. n /\ h \in 1 .. m /\ f[h] # g[h]
  OBVIOUS
<1>3. \A y \in 1 .. n : f[y] # g[y] => h <= y
  BY <1>1
<1> HIDE DEF T
<1>4. /\ f[h] = IF h = 1 THEN s[h] ELSE f[h - 1] \o s[h]
      /\ g[h] = IF h = 1 THEN s[h] ELSE g[h - 1] \o s[h]
  BY <1>2, FlattensAt
<1>5. h # 1 => h - 1 \in 1 .. n /\ ~ h <= h - 1
  BY <1>2
<1>6. h # 1 => f[h - 1] = g[h - 1]
  BY <1>3, <1>5
<1> QED BY <1>2, <1>4, <1>6

LEMMA CatStep ==
  ASSUME NEW m \in Nat, NEW s \in TextsOf(m), NEW n \in 0 .. m - 1, Cat(s, n) \in Text
  PROVE  /\ Cat(s, n + 1) = Cat(s, n) \o s[n + 1]
         /\ Cat(s, n + 1) \in Text
<1>0. n + 1 \in 1 .. m /\ s[n + 1] \in Seq(Char) /\ n \in Nat /\ n + 1 \in Nat
  BY DEF TextsOf, Text
<1>1. PICK f : Flattens(f, s, n + 1) /\ Cat(s, n + 1) = f[n + 1]
  BY <1>0, CatFcn DEF Flattens
<1>2. Cat(s, n + 1) = IF n = 0 THEN s[n + 1] ELSE f[n] \o s[n + 1]
  <2>1. \A h \in 1 .. n + 1 : f[h] = IF h = 1 THEN s[h] ELSE f[h - 1] \o s[h]
    BY <1>0, <1>1, FlattensAt
  <2>2. n + 1 \in 1 .. n + 1 /\ (n + 1) - 1 = n /\ (n + 1 = 1 <=> n = 0)
    OBVIOUS
  <2> QED BY <1>1, <2>1, <2>2
<1>3. CASE n = 0
  <2>1. Cat(s, n) = <<>>
    BY <1>3, CatZero
  <2>2. Cat(s, n + 1) = s[n + 1]
    BY <1>2, <1>3
  <2> QED BY <1>0, <2>1, <2>2 DEF Text
<1>4. CASE n # 0
  <2>0. n \in 1 .. m /\ n \in 0 .. n + 1 /\ n \in 1 .. n
    BY <1>4
  <2>1. PICK g : Flattens(g, s, n) /\ Cat(s, n) = g[n]
    BY <2>0, CatFcn DEF Flattens
  <2>3. f[n] = g[n]
    BY <1>0, <1>1, <2>0, <2>1, FlattenUnique
  <2>5. Cat(s, n + 1) = Cat(s, n) \o s[n + 1]
    BY <1>2, <1>4, <2>1, <2>3
  <2>6. Cat(s, n) \in Seq(Char)
    BY DEF Text
  <2>7. Cat(s, n) \o s[n + 1] \in Seq(Char)
    BY <1>0, <2>6
  <2> QED BY <2>5, <2>7 DEF Text
<1> QED BY <1>3, <1>4

LEMMA CatType ==
  ASSUME NEW m \in Nat, NEW s \in TextsOf(m), NEW n \in 0 .. m
  PROVE  Cat(s, n) \in Text
<1> DEFINE T == {o \in 0 .. m : Cat(s, o) \notin Text}
<1> SUFFICES ASSUME T # {} PROVE FALSE
  OBVIOUS
<1>1. PICK h \in T : \A y \in T : h <= y
  <2>1. T \subseteq Nat
    OBVIOUS
  <2> HIDE DEF T
  <2> QED BY <2>1, LeastNat
<1>2. h \in 0 .. m /\ Cat(s, h) \notin Text
  OBVIOUS
<1>3. \A y \in 0 .. m : Cat(s, y) \notin Text => h <= y
  BY <1>1
<1> HIDE DEF T
<1>4. h # 0
  <2>1. <<>> \in Text
    BY DEF Text
  <2>2. Cat(s, 0) = <<>>
    BY CatZero
  <2> QED BY <1>2, <2>1, <2>2
<1>5. h - 1 \in 0 .. m - 1 /\ h - 1 \in 0 .. m /\ ~ h <= h - 1 /\ (h - 1) + 1 = h
  BY <1>2, <1>4
<1>6. Cat(s, h - 1) \in Text
  BY <1>3, <1>5
<1>7. Cat(s, (h - 1) + 1) \in Text
  BY <1>5, <1>6, CatStep
<1> QED BY <1>2, <1>5, <1>7

\* What a text puts out on the console.
Shown(t) == [j \in DOMAIN t |-> IF t[j] = NUL THEN <<>> ELSE <<t[j]>>]

LEMMA ShownType == ASSUME NEW t \in Text PROVE Shown(t) \in TextsOf(Len(t)) /\ Visible(t) = Cat(Shown(t), Len(t))
<1>1. DOMAIN t = 1 .. Len(t) /\ Len(t) \in Nat /\ \A j \in 1 .. Len(t) : t[j] \in Char
  BY DEF Text
<1>2. \A j \in DOMAIN t : (IF t[j] = NUL THEN <<>> ELSE <<t[j]>>) \in Seq(Char)
  <2>1. \A c \in Char : <<c>> \in Seq(Char)
    OBVIOUS
  <2>2. <<>> \in Seq(Char)
    OBVIOUS
  <2> QED BY <1>1, <2>1, <2>2
<1>3. Shown(t) = [j \in 1 .. Len(t) |-> Shown(t)[j]]
  BY <1>1 DEF Shown
<1> QED BY <1>1, <1>2, <1>3 DEF Shown, TextsOf, Text, Visible, Cat

LEMMA TextAssociative == \A x, y, z \in Seq(Char) : (x \o y) \o z = x \o (y \o z)
BY ConcatAssociative

LEMMA VisibleConcat ==
  ASSUME NEW a \in Text, NEW b \in Text
  PROVE  Visible(a \o b) = Visible(a) \o Visible(b) /\ Visible(a) \in Text
<1> DEFINE p == Len(a)
           q == Len(b)
           ab == Shown(a \o b)
           T == {n \in 0 .. q : Cat(ab, p + n) # Cat(Shown(a), p) \o Cat(Shown(b), n)}
<1>1. p \in Nat /\ q \in Nat /\ a \o b \in Text /\ Len(a \o b) = p + q
  BY DEF Text
<1>2. ab \in TextsOf(p + q) /\ Shown(a) \in TextsOf(p) /\ Shown(b) \in TextsOf(q)
  BY <1>1, ShownType
<1>3. \A j \in 1 .. p : ab[j] = Shown(a)[j]
  BY DEF Shown, Text
<1>4. \A j \in 1 .. q : ab[p + j] = Shown(b)[j]
  BY DEF Shown, Text
<1> HIDE DEF p, q, ab
<1>5. Cat(ab, p) = Cat(Shown(a), p)
  <2>1. [j \in 1 .. p |-> ab[j]] = [j \in 1 .. p |-> Shown(a)[j]]
    BY <1>3
  <2> QED BY <2>1 DEF Cat
<1>6. T = {}
  <2> SUFFICES ASSUME T # {} PROVE FALSE
    OBVIOUS
  <2>1. PICK h \in T : \A y \in T : h <= y
    <3>1. T \subseteq Nat
      BY <1>1
    <3> HIDE DEF T
    <3> QED BY <3>1, LeastNat
  <2>2. h \in 0 .. q /\ Cat(ab, p + h) # Cat(Shown(a), p) \o Cat(Shown(b), h)
    OBVIOUS
  <2>3. \A y \in 0 .. q : y < h => Cat(ab, p + y) = Cat(Shown(a), p) \o Cat(Shown(b), y)
    <3> SUFFICES ASSUME NEW y \in 0 .. q, y < h, Cat(ab, p + y) # Cat(Shown(a), p) \o Cat(Shown(b), y)
                 PROVE  FALSE
      OBVIOUS
    <3>1. y \in T
      OBVIOUS
    <3> HIDE DEF T
    <3> QED BY <1>1, <2>1, <2>2, <3>1
  <2> HIDE DEF T
  <2>4. Cat(Shown(a), p) \in Seq(Char)
    BY <1>1, <1>2, CatType DEF Text
  <2>5. CASE h = 0
    <3>1. Cat(Shown(b), h) = <<>> /\ p + h = p
      BY <1>1, <2>5, CatZero
    <3>2. Cat(Shown(a), p) \o <<>> = Cat(Shown(a), p)
      BY <2>4
    <3> QED BY <1>5, <2>2, <3>1, <3>2
  <2>6. CASE h # 0
    <3> DEFINE n == h - 1
    <3>1. /\ n \in 0 .. q - 1 /\ n \in 0 .. q /\ n < h /\ n + 1 = h /\ n + 1 \in 1 .. q
          /\ p + n \in 0 .. (p + q) - 1 /\ p + n \in 0 .. p + q
          /\ (p + n) + 1 = p + h /\ p + q \in Nat /\ p + h = p + (n + 1)
      BY <1>1, <2>2, <2>6
    <3> HIDE DEF n
    <3>2. Cat(ab, p + n) \in Text /\ Cat(Shown(b), n) \in Text
      BY <1>1, <1>2, <3>1, CatType
    <3>3. Cat(ab, (p + n) + 1) = Cat(ab, p + n) \o ab[(p + n) + 1]
      BY <1>2, <3>1, <3>2, CatStep
    <3>4. Cat(Shown(b), n + 1) = Cat(Shown(b), n) \o Shown(b)[n + 1]
      BY <1>1, <1>2, <3>1, <3>2, CatStep
    <3>5. ab[(p + n) + 1] = Shown(b)[n + 1]
      BY <1>4, <3>1
    <3>6. Cat(ab, p + n) = Cat(Shown(a), p) \o Cat(Shown(b), n)
      BY <2>3, <3>1
    <3>7. Shown(b)[n + 1] \in Seq(Char) /\ Cat(Shown(b), n) \in Seq(Char)
      BY <1>2, <3>1, <3>2 DEF TextsOf, Text
    <3>8. (Cat(Shown(a), p) \o Cat(Shown(b), n)) \o Shown(b)[n + 1]
            = Cat(Shown(a), p) \o (Cat(Shown(b), n) \o Shown(b)[n + 1])
      BY <2>4, <3>7, TextAssociative
    <3>9. Cat(ab, p + h) = Cat(Shown(a), p) \o Cat(Shown(b), h)
      BY <3>1, <3>3, <3>4, <3>5, <3>6, <3>8
    <3> QED BY <2>2, <3>9
  <2> QED BY <2>5, <2>6
<1>7. Cat(ab, p + q) = Cat(Shown(a), p) \o Cat(Shown(b), q)
  <2>1. q \in 0 .. q
    BY <1>1
  <2> QED BY <1>6, <2>1
<1>8. Visible(a) = Cat(Shown(a), p) /\ Visible(b) = Cat(Shown(b), q) /\ Visible(a \o b) = Cat(ab, p + q)
  BY <1>1, ShownType DEF p, q, ab
<1>9. Visible(a) \in Text
  BY <1>1, <1>2, <1>8, CatType
<1> QED BY <1>7, <1>8, <1>9

LEMMA VisibleEnd == Visible(<<NUL>>) = <<>>
<1> DEFINE t == <<NUL>>
<1>1. t \in Text /\ Len(t) = 1 /\ t[1] = NUL
  <2>1. NUL \in Char
    BY DEF Char
  <2> QED BY <2>1 DEF Text
<1>2. Shown(t)[1] = <<>>
  BY <1>1 DEF Shown
<1> HIDE DEF t
<1>3. Shown(t) \in TextsOf(1) /\ Visible(t) = Cat(Shown(t), 1)
  BY <1>1, ShownType
<1>4. Cat(Shown(t), 0) = <<>> /\ <<>> \in Text
  BY CatZero DEF Text
<1>5. Cat(Shown(t), 0 + 1) = <<>> \o Shown(t)[0 + 1]
  <2>1. 1 \in Nat /\ 0 \in 0 .. 1 - 1
    OBVIOUS
  <2>2. Cat(Shown(t), 0) \in Text
    BY <1>4
  <2>3. Cat(Shown(t), 0 + 1) = Cat(Shown(t), 0) \o Shown(t)[0 + 1]
    BY <1>3, <2>1, <2>2, CatStep
  <2> QED BY <1>4, <2>3
<1>6. Cat(Shown(t), 1) = <<>>
  <2>1. <<>> \o <<>> = <<>> /\ 0 + 1 = 1
    OBVIOUS
  <2> QED BY <1>2, <1>5, <2>1
<1> QED BY <1>3, <1>6 DEF t

-----------------------------------------------------------------------------
(* Digits. *)

Bases == {2, 8, 10, 16}
Unsigned == 0 .. SizeOf["long"] - 1

LEMMA SizeType == SizeOf["long"] \in Nat \ {0, 1} /\ Unsigned \subseteq Nat
BY PrintfAssumption DEF Types, Unsigned

LEMMA PowersPositive ==
  ASSUME NEW base \in Bases, NEW d \in Nat, base ^ 0 = 1, \A n \in 0 .. d - 1 : base ^ (n + 1) = base * base ^ n
  PROVE  \A n \in 0 .. d : base ^ n \in Nat \ {0}
<1> DEFINE T == {n \in 0 .. d : base ^ n \notin Nat \ {0}}
<1> SUFFICES ASSUME T # {} PROVE FALSE
  OBVIOUS
<1>1. PICK h \in T : \A y \in T : h <= y
  <2>1. T \subseteq Nat
    OBVIOUS
  <2> HIDE DEF T
  <2> QED BY <2>1, LeastNat
<1>2. h \in 0 .. d /\ base ^ h \notin Nat \ {0}
  OBVIOUS
<1>3. \A y \in 0 .. d : base ^ y \notin Nat \ {0} => h <= y
  BY <1>1
<1> HIDE DEF T
<1>4. h # 0
  BY <1>2
<1>5. h - 1 \in 0 .. d /\ h - 1 \in 0 .. d - 1 /\ ~ h <= h - 1 /\ (h - 1) + 1 = h
  BY <1>2, <1>4
<1>6. base ^ (h - 1) \in Nat \ {0}
  BY <1>3, <1>5
<1>7. base ^ h = base * base ^ (h - 1)
  BY <1>5
<1>8. \A n \in Nat \ {0} : base * n \in Nat \ {0}
  BY DEF Bases
<1> QED BY <1>2, <1>6, <1>7, <1>8

LEMMA CountIs ==
  ASSUME NEW v \in Unsigned, NEW base \in Bases
  PROVE  /\ Count(v, base) \in 1 .. SizeOf["long"]
         /\ \A n \in 0 .. Count(v, base) : base ^ n \in Nat \ {0}
         /\ base ^ 0 = 1
         /\ \A n \in 0 .. Count(v, base) - 1 : base ^ (n + 1) = base * base ^ n
         /\ v < base ^ Count(v, base)
         /\ \A m \in 1 .. Count(v, base) - 1 : v >= base ^ m
<1>1. PICK d \in 1 .. SizeOf["long"] :
        /\ base ^ d >= SizeOf["long"] /\ base ^ 0 = 1
        /\ \A n \in 0 .. d - 1 : base ^ (n + 1) = base * base ^ n
  BY PowersAssumption DEF Bases
<1>2. d \in Nat /\ v \in Nat /\ SizeOf["long"] \in Nat /\ v < SizeOf["long"]
  BY SizeType DEF Unsigned
<1>3. \A n \in 0 .. d : base ^ n \in Nat \ {0}
  BY <1>1, <1>2, PowersPositive
<1> DEFINE T == {n \in 1 .. d : v < base ^ n}
<1>4. PICK c \in T : \A y \in T : c <= y
  <2>1. T \subseteq Nat
    OBVIOUS
  <2>2. d \in 0 .. d
    BY <1>2
  <2>3. d \in T
    BY <1>1, <1>2, <1>3, <2>2
  <2> HIDE DEF T
  <2> QED BY <2>1, <2>3, LeastNat
<1>5. c \in 1 .. d /\ v < base ^ c
  OBVIOUS
<1>6. \A m \in 1 .. d : v < base ^ m => c <= m
  BY <1>4
<1> HIDE DEF T
<1>7. \A m \in 1 .. c - 1 : v >= base ^ m
  <2>1. \A m \in 1 .. c - 1 : m \in 1 .. d /\ m \in 0 .. d /\ ~ c <= m
    BY <1>5
  <2> QED BY <1>2, <1>3, <1>6, <2>1
<1>8. c \in 1 .. SizeOf["long"]
  BY <1>1, <1>2, <1>5
<1> DEFINE Good(n) == v < base ^ n /\ \A m \in 1 .. n - 1 : v >= base ^ m
<1>9. Count(v, base) \in 1 .. SizeOf["long"] /\ Good(Count(v, base))
  <2>1. \E n \in 1 .. SizeOf["long"] : Good(n)
    BY <1>5, <1>7, <1>8
  <2>2. Count(v, base) = CHOOSE n \in 1 .. SizeOf["long"] : Good(n)
    BY DEF Count
  <2> HIDE DEF Good
  <2> QED BY <2>1, <2>2
<1> DEFINE b == Count(v, base)
<1>10. b = c
  <2> SUFFICES ASSUME b # c PROVE FALSE
    OBVIOUS
  <2>0. b \in Int /\ c \in Int
    BY <1>5, <1>9
  <2>1. CASE b < c
    <3>1. b \in 1 .. c - 1 /\ b \in 0 .. d
      BY <1>5, <1>9, <2>1
    <3> QED BY <1>2, <1>3, <1>7, <1>9, <3>1
  <2>2. CASE c < b
    <3>1. c \in 1 .. b - 1 /\ c \in 0 .. d
      BY <1>5, <1>9, <2>2
    <3> QED BY <1>2, <1>3, <1>5, <1>9, <3>1
  <2> QED BY <2>0, <2>1, <2>2
<1>11. \A n \in 0 .. c : n \in 0 .. d
  BY <1>5
<1>12. \A n \in 0 .. c - 1 : n \in 0 .. d - 1
  BY <1>5
<1> QED BY <1>1, <1>3, <1>9, <1>10, <1>11, <1>12

LEMMA DigitsType ==
  ASSUME NEW v \in Unsigned, NEW base \in Bases, NEW upper \in BOOLEAN
  PROVE  DigitsOf(v, base, upper) \in Text /\ Len(DigitsOf(v, base, upper)) = Count(v, base)
<1> DEFINE n == Count(v, base)
           chars == IF upper THEN UpperChars ELSE DigitChars
<1>1. n \in Nat /\ \A j \in 1 .. n : base ^ (j - 1) \in Nat \ {0}
  BY CountIs, SizeType
<1>2. v \in Nat
  BY SizeType
<1>3. \A a \in Nat : (a % base) + 1 \in 1 .. 16
  BY DEF Bases
<1>4. \A j \in 1 .. 16 : chars[j] \in Char
  BY DEF Char
<1>5. \A j \in 1 .. n : v \div base ^ (j - 1) \in Nat
  BY <1>1, <1>2
<1> HIDE DEF n, chars
<1>6. [j \in 1 .. n |-> chars[((v \div base ^ (j - 1)) % base) + 1]] \in [1 .. n -> Char]
  BY <1>3, <1>4, <1>5
<1>7. DigitsOf(v, base, upper) = [j \in 1 .. n |-> chars[((v \div base ^ (j - 1)) % base) + 1]]
  BY DEF DigitsOf, n, chars
<1>8. \A f \in [1 .. n -> Char] : f \in Seq(Char) /\ Len(f) = n
  BY <1>1
<1> QED BY <1>6, <1>7, <1>8 DEF Text, n

-----------------------------------------------------------------------------
(* What an item puts out is a text. *)

LEMMA TimesIs ==
  ASSUME NEW c \in Char, NEW n \in Int
  PROVE  /\ Times(c, n) \in Seq(Char) /\ Len(Times(c, n)) = (IF n > 0 THEN n ELSE 0)
         /\ \A j \in 1 .. n : Times(c, n)[j] = c
BY DEF Times

LEMMA ReverseType ==
  ASSUME NEW t \in Seq(Char)
  PROVE  /\ Reverse(t) \in Seq(Char) /\ Len(Reverse(t)) = Len(t)
         /\ \A j \in 1 .. Len(t) : Reverse(t)[j] = t[Len(t) - j + 1]
BY DEF Reverse

LEMMA CharTypes ==
  /\ " " \in Char /\ "0" \in Char /\ "-" \in Char /\ "+" \in Char /\ NUL \in Char
  /\ "x" \in Char /\ "X" \in Char /\ "b" \in Char
BY DEF Char

LEMMA ConcatType == \A x, y \in Seq(Char) : x \o y \in Seq(Char) /\ Len(x \o y) = Len(x) + Len(y)
OBVIOUS

LEMMA BufferSizeType == BufferSize \in Nat \ {0}
BY PrintfAssumption

LEMMA AppendIfType ==
  ASSUME NEW cond \in BOOLEAN, NEW t \in Seq(Char), NEW c \in Char
  PROVE  AppendIf(cond, t, c) \in Seq(Char)
BY DEF AppendIf

LEMMA OutRevType ==
  ASSUME NEW t \in Seq(Char), NEW w \in Int, NEW fl
  PROVE  OutRev(t, w, fl) \in Seq(Char)
<1>1. w - Len(t) \in Int
  OBVIOUS
<1>2. Times(" ", w - Len(t)) \in Seq(Char) /\ <<>> \in Seq(Char)
  <2>1. <<>> \in Seq(Char)
    OBVIOUS
  <2>2. " " \in Char
    BY CharTypes
  <2> QED BY <1>1, <2>1, <2>2, TimesIs
<1> QED BY <1>2, ReverseType, ConcatType DEF OutRev

LEMMA FillToType ==
  ASSUME NEW t \in Seq(Char), NEW n \in Int, NEW c \in Char
  PROVE  FillTo(t, n, c) \in Seq(Char)
<1>1. (IF n < BufferSize THEN n ELSE BufferSize) - Len(t) \in Int
  BY BufferSizeType
<1> QED BY <1>1, TimesIs, ConcatType DEF FillTo

LEMMA NtoaFormatType ==
  ASSUME NEW t \in Seq(Char), NEW negative \in BOOLEAN, NEW base \in Bases, NEW prec \in Int,
         NEW width \in Int, NEW fl
  PROVE  NtoaFormat(t, negative, base, prec, width, fl) \in Seq(Char)
<1> DEFINE w == ZeroWidth(negative, width, fl)
           z == LeadingZeros(t, prec, w, fl)
           b == Prefixed(z, base, prec, w, fl)
           s == Signed(b, negative, fl)
<1>1. w \in Int
  BY DEF ZeroWidth
<1>2. z \in Seq(Char)
  <2>1. FillTo(t, prec, "0") \in Seq(Char)
    BY FillToType, CharTypes
  <2>2. FillTo(FillTo(t, prec, "0"), w, "0") \in Seq(Char)
    BY <1>1, <2>1, FillToType, CharTypes
  <2> QED BY <2>1, <2>2 DEF LeadingZeros
<1>3. b \in Seq(Char)
  <2> HIDE DEF z, w
  <2> DEFINE cut == IF "PRECISION" \notin fl /\ Len(z) > 0 /\ Len(z) \in {prec, w}
                      THEN IF base = 16 /\ Len(z) > 1 THEN 2 ELSE 1
                      ELSE 0
             y == SubSeq(z, 1, Len(z) - cut)
             letter == IF base = 2 THEN "b" ELSE IF "UPPERCASE" \in fl THEN "X" ELSE "x"
  <2>1. cut \in 0 .. Len(z)
    BY <1>2
  <2> HIDE DEF cut
  <2>2. y \in Seq(Char)
    BY <1>2, <2>1
  <2>3. letter \in Char
    BY CharTypes
  <2> HIDE DEF y, letter
  <2>4. AppendIf(base \in {2, 16}, y, letter) \in Seq(Char)
    <3>1. (base \in {2, 16}) \in BOOLEAN
      OBVIOUS
    <3> QED BY <2>2, <2>3, <3>1, AppendIfType
  <2>5. AppendIf(TRUE, AppendIf(base \in {2, 16}, y, letter), "0") \in Seq(Char)
    BY <2>4, AppendIfType, CharTypes
  <2>6. b = IF "HASH" \notin fl THEN z ELSE AppendIf(TRUE, AppendIf(base \in {2, 16}, y, letter), "0")
    BY DEF Prefixed, y, cut, letter
  <2> QED BY <1>2, <2>5, <2>6
<1>4. s \in Seq(Char)
  <2> HIDE DEF b
  <2>1. /\ AppendIf(TRUE, b, "-") \in Seq(Char) /\ AppendIf(TRUE, b, "+") \in Seq(Char)
        /\ AppendIf("SPACE" \in fl, b, " ") \in Seq(Char)
    <3>1. ("SPACE" \in fl) \in BOOLEAN /\ TRUE \in BOOLEAN
      OBVIOUS
    <3> HIDE DEF s
    <3> QED BY <1>3, <3>1, AppendIfType, CharTypes
  <2> QED BY <2>1 DEF Signed
<1>5. NtoaFormat(t, negative, base, prec, width, fl) = OutRev(s, w, fl)
  BY DEF NtoaFormat
<1> HIDE DEF s, w
<1> QED BY <1>1, <1>4, <1>5, OutRevType

LEMMA NtoaType ==
  ASSUME NEW v \in Unsigned, NEW negative \in BOOLEAN, NEW base \in Bases, NEW prec \in Int,
         NEW width \in Int, NEW fl
  PROVE  Ntoa(v, negative, base, prec, width, fl) \in Seq(Char)
<1> DEFINE digits == IF "PRECISION" \in fl /\ v = 0 THEN <<>> ELSE DigitsOf(v, base, "UPPERCASE" \in fl)
           t == SubSeq(digits, 1, IF Len(digits) > BufferSize THEN BufferSize ELSE Len(digits))
           g == IF v = 0 THEN fl \ {"HASH"} ELSE fl
<1>1. digits \in Seq(Char)
  <2>1. DigitsOf(v, base, "UPPERCASE" \in fl) \in Seq(Char)
    <3>1. ("UPPERCASE" \in fl) \in BOOLEAN
      OBVIOUS
    <3> QED BY <3>1, DigitsType DEF Text
  <2>2. <<>> \in Seq(Char)
    OBVIOUS
  <2> QED BY <2>1, <2>2
<1> HIDE DEF digits
<1>2. t \in Seq(Char)
  BY <1>1, BufferSizeType
<1>3. Ntoa(v, negative, base, prec, width, fl) = NtoaFormat(t, negative, base, prec, width, g)
  BY DEF Ntoa, digits
<1> HIDE DEF t, g
<1> QED BY <1>2, <1>3, NtoaFormatType

LEMMA PaddedType ==
  ASSUME NEW item, item.width \in Int, NEW t \in Seq(Char)
  PROVE  Padded(item, t) \in Seq(Char)
<1>1. Width(item) - Len(t) \in Int
  BY DEF Width
<1>2. Times(" ", Width(item) - Len(t)) \in Seq(Char)
  BY <1>1, TimesIs, CharTypes
<1> QED BY <1>2, ConcatType DEF Padded

\* Types of the fields of an integer.
LEMMA FieldTypes ==
  ASSUME NEW item, IsItem(item), item.conv \in {"d", "u", "x", "X", "o", "b"}
  PROVE  /\ Width(item) \in Nat /\ Precision(item) \in Nat /\ Radix(item) \in Bases
         /\ SizeOf[item.len] \in Nat \ {0, 1} /\ SizeOf[item.len] <= SizeOf["long"]
         /\ Wrapped(item.arg, item.len) \in 0 .. SizeOf[item.len] - 1
         /\ AsSigned(item.arg, item.len) \in Int /\ Magnitude(AsSigned(item.arg, item.len)) \in Unsigned
         /\ Wrapped(item.arg, item.len) \in Unsigned
         /\ Magnitude(Wrapped(item.arg, item.len)) = Wrapped(item.arg, item.len)
<1> DEFINE n == SizeOf[item.len]
           v == item.arg
<1>1. item.width \in Int /\ item.prec \in Int /\ item.len \in Types /\ v \in Int
  BY DEF IsItem, Arguments
<1>2. n \in Nat \ {0, 1} /\ n <= SizeOf["long"] /\ SizeOf["long"] \in Nat
  BY <1>1, PrintfAssumption, SizeType
<1>3. Width(item) \in Nat /\ Precision(item) \in Nat /\ Radix(item) \in Bases
  BY <1>1 DEF Width, Precision, Radix, Bases
<1> HIDE DEF n, v
<1>4. v % n \in 0 .. n - 1 /\ n \div 2 \in 1 .. n - 1 /\ n - n \div 2 <= n - 1
  BY <1>1, <1>2
<1>5. /\ Wrapped(v, item.len) = v % n
      /\ AsSigned(v, item.len) = IF v % n >= n \div 2 THEN (v % n) - n ELSE v % n
  BY DEF Wrapped, AsSigned, n
<1>6. AsSigned(v, item.len) \in Int /\ Magnitude(AsSigned(v, item.len)) \in 0 .. n - 1
  BY <1>2, <1>4, <1>5 DEF Magnitude
<1>7. 0 .. n - 1 \subseteq Unsigned
  BY <1>2 DEF Unsigned
<1>8. Wrapped(v, item.len) \in 0 .. n - 1 /\ Magnitude(Wrapped(v, item.len)) = Wrapped(v, item.len)
  BY <1>2, <1>4, <1>5 DEF Magnitude
<1> QED BY <1>2, <1>3, <1>6, <1>7, <1>8 DEF n, v

LEMMA SeqOfSubset == ASSUME NEW A, NEW B, A \subseteq B, NEW s \in Seq(A) PROVE s \in Seq(B)
OBVIOUS

LEMMA OutputType == ASSUME NEW item, IsItem(item) PROVE Output(item) \in Text
<1>0. \A c \in Char : <<c>> \in Seq(Char)
  OBVIOUS
<1>1. CASE item.conv = "plain"
  <2>1. item.arg \in Char
    BY <1>1 DEF IsItem, Arguments, Char
  <2> QED BY <1>0, <1>1, <2>1 DEF Output, Text
<1>2. CASE item.conv = "c"
  <2>1. item.arg \in Char /\ item.width \in Int
    BY <1>2 DEF IsItem, Arguments, Char
  <2> QED BY <1>0, <1>2, <2>1, PaddedType DEF Output, Text
<1>3. CASE item.conv = "s"
  <2>1. item.arg \in Seq(Char) /\ item.width \in Int /\ item.prec \in Int
    <3>1. item.arg \in Seq(STRING) /\ item.width \in Int /\ item.prec \in Int
      BY <1>3 DEF IsItem, Arguments
    <3>2. STRING \subseteq Char
      BY DEF Char
    <3> QED BY <3>1, <3>2, SeqOfSubset
  <2>2. SubSeq(item.arg, 1, IF Precision(item) < Len(item.arg) THEN Precision(item) ELSE Len(item.arg)) \in Seq(Char)
    BY <2>1 DEF Precision
  <2>3. String(item) \in Seq(Char)
    BY <2>1, <2>2, PaddedType DEF String
  <2> QED BY <1>3, <2>3 DEF Output, Text
<1>4. CASE item.conv = "p"
  <2>1. item.arg \in Unsigned /\ item.prec \in Int
    BY <1>4 DEF IsItem, Arguments, Unsigned
  <2>2. Precision(item) \in Int /\ 16 \in Bases
    BY <2>1 DEF Precision, Bases
  <2>3. Count(SizeOf["long"] - 1, 16) \in Int
    <3>1. SizeOf["long"] - 1 \in Unsigned
      BY SizeType DEF Unsigned
    <3> QED BY <2>2, <3>1, CountIs
  <2>4. Pointer(item) \in Seq(Char)
    BY <2>1, <2>2, <2>3, NtoaType DEF Pointer
  <2> QED BY <1>4, <2>4 DEF Output, Text
<1>5. CASE item.conv \in {"d", "u", "x", "X", "o", "b"}
  <2>1. Value(item) \in Int /\ Magnitude(Value(item)) \in Unsigned
    BY <1>5, FieldTypes, SizeType DEF Value
  <2>2. Integer(item) \in Seq(Char)
    <3>1. (Value(item) < 0) \in BOOLEAN
      OBVIOUS
    <3>2. Radix(item) \in Bases /\ Precision(item) \in Int /\ Width(item) \in Int
      BY <1>5, FieldTypes
    <3> QED BY <2>1, <3>1, <3>2, NtoaType DEF Integer
  <2> QED BY <1>5, <2>2 DEF Output, Text
<1> QED BY <1>1, <1>2, <1>3, <1>4, <1>5 DEF IsItem

-----------------------------------------------------------------------------
(* The steps of _vsnprintf. *)

OutsOf(f) == [j \in DOMAIN f |-> Output(f[j])]
Printed(f, n) == Cat(OutsOf(f), n)

\* Where the call is.
CallShape ==
  /\ ret \in Int /\ ret >= -2
  /\ format \in Formats \cup {<<>>} /\ k \in 1 .. Len(format) + 1
  /\ idx = Len(Printed(format, k - 1))
  /\ maxlen \in Nat /\ sink \in {"null", "buffer", "putchar"}
  /\ ret = -2 => format = <<>> /\ k = 1 /\ idx = 0 /\ sink = "null" /\ buffer = <<>> /\ console = <<>>
  /\ ret >= 0 => k = Len(format) + 1 /\ ret = idx

\* What has been put out.
OutputInv ==
  /\ sink # "buffer" => buffer = <<>>
  /\ sink = "buffer" /\ ret = -1 =>
       buffer = [j \in {m \in 0 .. idx - 1 : m < maxlen} |-> Printed(format, k - 1)[j + 1]]
  /\ sink = "putchar" => console = Visible(Printed(format, k - 1))
  /\ BufferHoldsText

PrintfInv == CallShape /\ OutputInv

LEMMA FormatIs ==
  ASSUME NEW f \in Formats \cup {<<>>}
  PROVE  /\ Len(f) \in Nat /\ DOMAIN f = 1 .. Len(f) /\ \A j \in 1 .. Len(f) : IsItem(f[j])
         /\ OutsOf(f) \in TextsOf(Len(f))
<1>1. Len(f) \in Nat /\ DOMAIN f = 1 .. Len(f) /\ \A j \in 1 .. Len(f) : IsItem(f[j])
  <2>1. CASE f \in Formats
    <3>1. f \in Seq(Range(f)) /\ \A j \in DOMAIN f : IsItem(f[j])
      BY <2>1, PrintfAssumption
    <3> QED BY <3>1
  <2>2. CASE f = <<>>
    BY <2>2
  <2> QED BY <2>1, <2>2
<1>2. OutsOf(f) \in TextsOf(Len(f))
  BY <1>1, OutputType DEF OutsOf, TextsOf
<1> QED BY <1>1, <1>2

LEMMA TextsPrinted == ASSUME format \in Formats \cup {<<>>} PROVE Texts = Printed(format, Len(format))
<1>1. OutsOf(format) = [j \in 1 .. Len(format) |-> OutsOf(format)[j]]
  BY FormatIs DEF OutsOf
<1>2. Texts = FlattenSeq(OutsOf(format))
  BY DEF Texts, OutsOf
<1> QED BY <1>1, <1>2 DEF Printed, Cat

LEMMA PrintedIs ==
  ASSUME NEW f \in Formats \cup {<<>>}
  PROVE  /\ Printed(f, 0) = <<>>
         /\ \A n \in 0 .. Len(f) : Printed(f, n) \in Text
         /\ \A n \in 1 .. Len(f) : Printed(f, n) = Printed(f, n - 1) \o Output(f[n])
<1>1. \A n \in 0 .. Len(f) : Printed(f, n) \in Text
  BY FormatIs, CatType DEF Printed
<1>2. ASSUME NEW n \in 1 .. Len(f) PROVE Printed(f, n) = Printed(f, n - 1) \o Output(f[n])
  <2>1. n - 1 \in 0 .. Len(f) - 1 /\ n - 1 \in 0 .. Len(f) /\ (n - 1) + 1 = n
    BY FormatIs
  <2>2. Cat(OutsOf(f), n - 1) \in Text
    BY <1>1, <2>1 DEF Printed
  <2>3. Cat(OutsOf(f), (n - 1) + 1) = Cat(OutsOf(f), n - 1) \o OutsOf(f)[(n - 1) + 1]
    BY <2>1, <2>2, FormatIs, CatStep
  <2>4. OutsOf(f)[n] = Output(f[n])
    BY FormatIs DEF OutsOf
  <2> QED BY <2>1, <2>3, <2>4 DEF Printed
<1>3. Printed(f, 0) = <<>>
  BY CatZero DEF Printed
<1> QED BY <1>1, <1>2, <1>3

LEMMA PrintfInitInv == PrintfInit => PrintfInv
<1> SUFFICES ASSUME PrintfInit PROVE PrintfInv
  OBVIOUS
<1> USE DEF PrintfInit
<1>1. Printed(format, k - 1) = <<>>
  BY PrintedIs
<1>2. CallShape
  BY <1>1 DEF CallShape
<1>3. OutputInv
  BY DEF OutputInv, BufferHoldsText
<1> QED BY <1>2, <1>3 DEF PrintfInv

LEMMA CallPrintfInv == PrintfInv /\ CallPrintf => PrintfInv'
<1> SUFFICES ASSUME PrintfInv, CallPrintf PROVE PrintfInv'
  OBVIOUS
<1>1. /\ ret = -2 /\ ret' = -1 /\ format' \in Formats /\ k' = 1 /\ k = 1 /\ idx' = 0
      /\ buffer' = <<>> /\ console' = <<>>
  BY DEF PrintfInv, CallShape, CallPrintf
<1>2. sink' \in {"null", "buffer", "putchar"} /\ maxlen' \in Nat
  <2>1. SizeOf["long"] - 1 \in Nat /\ Counts \subseteq Nat
    BY PrintfAssumption, SizeType
  <2>2. sink' \in {"null", "buffer", "putchar"} /\ maxlen' \in Counts \cup {SizeOf["long"] - 1}
    BY DEF CallPrintf
  <2> QED BY <2>1, <2>2
<1>3. Printed(format', 0) = <<>>
  BY <1>1, PrintedIs
<1>4. Len(format') \in Nat
  BY <1>1, FormatIs
<1>5. CallShape'
  BY <1>1, <1>2, <1>3, <1>4 DEF CallShape
<1>6. Visible(<<>>) = <<>>
  <2>1. <<>> \in Text /\ Len(<<>>) = 0
    BY DEF Text
  <2> QED BY <2>1, ShownType, CatZero
<1>7. OutputInv'
  <2>1. BufferHoldsText'
    BY <1>1 DEF BufferHoldsText
  <2> QED BY <1>1, <1>3, <1>6, <2>1 DEF OutputInv
<1> QED BY <1>5, <1>7 DEF PrintfInv

LEMMA ItemInv == PrintfInv /\ Item => PrintfInv'
<1> SUFFICES ASSUME PrintfInv, Item PROVE PrintfInv'
  OBVIOUS
<1> DEFINE t == Output(format[k])
           P == Printed(format, k - 1)
<1>1. /\ ret = -1 /\ ret' = -1 /\ k <= Len(format) /\ idx' = idx + Len(t) /\ k' = k + 1
      /\ format' = format /\ sink' = sink /\ maxlen' = maxlen /\ Out(t, idx)
  BY DEF Item
<1>2. /\ format \in Formats \cup {<<>>} /\ k \in 1 .. Len(format) + 1 /\ idx = Len(P)
      /\ maxlen \in Nat /\ sink \in {"null", "buffer", "putchar"}
  BY DEF PrintfInv, CallShape
<1>3. k \in 1 .. Len(format) /\ k - 1 \in 0 .. Len(format) /\ k' \in 1 .. Len(format) + 1 /\ k' - 1 = k
  BY <1>1, <1>2, FormatIs
<1>4. t \in Seq(Char) /\ P \in Seq(Char) /\ P \o t \in Seq(Char)
  <2>1. t \in Text
    BY <1>2, <1>3, FormatIs, OutputType
  <2>2. P \in Text
    BY <1>2, <1>3, PrintedIs
  <2> QED BY <2>1, <2>2, ConcatType DEF Text
<1>5. Printed(format', k' - 1) = P \o t
  <2>1. Printed(format, k) = P \o t
    BY <1>2, <1>3, PrintedIs
  <2> QED BY <1>1, <1>3, <2>1
<1> HIDE DEF t, P
<1>6. idx' = Len(P \o t) /\ idx \in Nat /\ Len(t) \in Nat
  BY <1>1, <1>2, <1>4
<1>7. CallShape'
  BY <1>1, <1>2, <1>3, <1>5, <1>6 DEF CallShape
<1>8. OutputInv'
  <2>1. CASE sink = "buffer"
    <3>1. buffer = [j \in {m \in 0 .. idx - 1 : m < maxlen} |-> P[j + 1]]
      BY <1>1, <2>1 DEF PrintfInv, OutputInv, P
    <3>2. buffer' = [j \in DOMAIN buffer \cup {m \in idx .. idx + Len(t) - 1 : m < maxlen} |->
                       IF j >= idx THEN t[j - idx + 1] ELSE buffer[j]]
      BY <1>1, <2>1 DEF Out
    <3>3. DOMAIN buffer = {m \in 0 .. idx - 1 : m < maxlen} /\ \A j \in DOMAIN buffer : buffer[j] = P[j + 1]
      BY <3>1
    <3>4. DOMAIN buffer \cup {m \in idx .. idx + Len(t) - 1 : m < maxlen} = {m \in 0 .. idx' - 1 : m < maxlen}
      BY <1>1, <1>6, <3>3
    <3>5. ASSUME NEW j \in {m \in 0 .. idx' - 1 : m < maxlen}
          PROVE  (IF j >= idx THEN t[j - idx + 1] ELSE buffer[j]) = (P \o t)[j + 1]
      <4>1. CASE j >= idx
        <5>1. j + 1 \in Len(P) + 1 .. Len(P) + Len(t) /\ (j + 1) - Len(P) = j - idx + 1
          BY <1>1, <1>2, <1>6, <4>1
        <5>2. (P \o t)[j + 1] = t[(j + 1) - Len(P)]
          BY <1>4, <5>1
        <5> QED BY <4>1, <5>1, <5>2
      <4>2. CASE ~ j >= idx
        <5>1. j + 1 \in 1 .. Len(P) /\ j \in DOMAIN buffer
          BY <1>2, <1>6, <3>3, <4>2
        <5>2. (P \o t)[j + 1] = P[j + 1]
          BY <1>4, <5>1
        <5> QED BY <3>3, <4>2, <5>1, <5>2
      <4> QED BY <4>1, <4>2
    <3>6. buffer' = [j \in {m \in 0 .. idx' - 1 : m < maxlen} |-> (P \o t)[j + 1]]
      BY <3>2, <3>4, <3>5
    <3>7. DOMAIN buffer' \subseteq 0 .. maxlen' - 1
      BY <1>1, <1>2, <3>6
    <3>8. BufferHoldsText'
      BY <1>1, <3>7 DEF BufferHoldsText
    <3> QED BY <1>1, <1>5, <2>1, <3>6, <3>8 DEF OutputInv
  <2>2. CASE sink = "putchar"
    <3>1. console' = console \o Visible(t) /\ buffer' = buffer
      BY <1>1, <2>2 DEF Out
    <3>2. console = Visible(P) /\ buffer = <<>>
      BY <2>2 DEF PrintfInv, OutputInv, P
    <3>3. console' = Visible(P \o t)
      BY <1>4, <3>1, <3>2, VisibleConcat DEF Text
    <3>4. BufferHoldsText'
      BY <1>1, <2>2, <3>1, <3>2 DEF BufferHoldsText
    <3> QED BY <1>1, <1>5, <2>2, <3>1, <3>2, <3>3, <3>4 DEF OutputInv
  <2>3. CASE sink = "null"
    <3>1. buffer' = buffer
      BY <1>1, <2>3 DEF Out
    <3>2. buffer = <<>>
      BY <2>3 DEF PrintfInv, OutputInv
    <3>3. BufferHoldsText'
      BY <1>1, <2>3, <3>1, <3>2 DEF BufferHoldsText
    <3> QED BY <1>1, <2>3, <3>1, <3>2, <3>3 DEF OutputInv
  <2> QED BY <1>2, <2>1, <2>2, <2>3
<1> QED BY <1>7, <1>8 DEF PrintfInv

LEMMA TerminateInv == PrintfInv /\ Terminate => PrintfInv'
<1> SUFFICES ASSUME PrintfInv, Terminate PROVE PrintfInv'
  OBVIOUS
<1> DEFINE P == Printed(format, k - 1)
           e == Terminator(idx)
<1>1. /\ ret = -1 /\ k > Len(format) /\ ret' = idx /\ format' = format /\ k' = k /\ idx' = idx
      /\ sink' = sink /\ maxlen' = maxlen /\ Out(<<NUL>>, e)
  BY DEF Terminate
<1>2. /\ format \in Formats \cup {<<>>} /\ k \in 1 .. Len(format) + 1 /\ idx = Len(P)
      /\ maxlen \in Nat /\ sink \in {"null", "buffer", "putchar"}
  BY DEF PrintfInv, CallShape
<1>3. k = Len(format) + 1 /\ k - 1 = Len(format) /\ Len(format) \in 0 .. Len(format)
  BY <1>1, <1>2, FormatIs
<1>4. P \in Seq(Char) /\ idx \in Nat /\ Texts = P
  <2>1. P \in Text
    BY <1>2, <1>3, PrintedIs
  <2>2. Texts = P
    BY <1>2, <1>3, TextsPrinted
  <2> QED BY <1>2, <2>1, <2>2 DEF Text
<1>5. Printed(format', k' - 1) = P
  BY <1>1
<1>6. Texts' = P
  BY <1>1, <1>4 DEF Texts
<1>e. e = IF idx < maxlen THEN idx ELSE IF maxlen = 0 THEN SizeOf["long"] - 1 ELSE maxlen - 1
  BY DEF Terminator
<1>l. Len(<<NUL>>) = 1 /\ <<NUL>>[1] = NUL
  OBVIOUS
<1> HIDE DEF P, e
<1>7. CallShape'
  BY <1>1, <1>2, <1>3, <1>4, <1>5 DEF CallShape
<1>8. OutputInv'
  <2>1. CASE sink = "buffer"
    <3>1. buffer = [j \in {m \in 0 .. idx - 1 : m < maxlen} |-> P[j + 1]]
      BY <1>1, <2>1 DEF PrintfInv, OutputInv, P
    <3>2. buffer' = [j \in DOMAIN buffer \cup {m \in e .. e + Len(<<NUL>>) - 1 : m < maxlen} |->
                       IF j >= e THEN <<NUL>>[j - e + 1] ELSE buffer[j]]
      BY <1>1, <2>1 DEF Out
    <3>3. DOMAIN buffer = {m \in 0 .. idx - 1 : m < maxlen} /\ \A j \in DOMAIN buffer : buffer[j] = P[j + 1]
      BY <3>1
    <3>4. e \in Nat
      BY <1>2, <1>4, <1>e, SizeType
    <3>5. DOMAIN buffer' = DOMAIN buffer \cup {m \in e .. e : m < maxlen}
      BY <1>l, <3>2, <3>4
    <3>6. DOMAIN buffer' \subseteq 0 .. maxlen' - 1
      BY <1>1, <1>2, <3>3, <3>4, <3>5
    <3>7. ASSUME maxlen > 0
          PROVE  LET n == IF ret' < maxlen THEN ret' ELSE maxlen - 1
                 IN /\ DOMAIN buffer' = 0 .. n
                    /\ \A j \in 0 .. n - 1 : buffer'[j] = P[j + 1]
                    /\ buffer'[n] = NUL
      <4>1. e = IF ret' < maxlen THEN ret' ELSE maxlen - 1
        BY <1>1, <1>2, <1>4, <1>e, <3>7
      <4>2. e < maxlen /\ e <= idx
        BY <1>1, <1>2, <1>4, <3>7, <4>1
      <4>3. DOMAIN buffer' = 0 .. e
        BY <1>2, <1>4, <1>e, <3>3, <3>4, <3>5, <3>7, <4>2
      <4>4. \A j \in 0 .. e - 1 : buffer'[j] = P[j + 1]
        <5> SUFFICES ASSUME NEW j \in 0 .. e - 1 PROVE buffer'[j] = P[j + 1]
          OBVIOUS
        <5>1. j \in DOMAIN buffer /\ ~ j >= e
          BY <1>2, <1>4, <3>3, <3>4, <4>2
        <5>2. buffer'[j] = buffer[j]
          BY <3>2, <5>1
        <5> QED BY <3>3, <5>1, <5>2
      <4>5. buffer'[e] = NUL
        <5>1. e \in DOMAIN buffer \cup {m \in e .. e + Len(<<NUL>>) - 1 : m < maxlen} /\ e - e + 1 = 1 /\ e >= e
          BY <1>l, <3>4, <4>2
        <5> QED BY <1>l, <3>2, <5>1
      <4> QED BY <4>1, <4>3, <4>4, <4>5
    <3>8. BufferHoldsText'
      BY <1>1, <1>2, <1>6, <3>6, <3>7 DEF BufferHoldsText
    <3>9. ret' # -1
      BY <1>1, <1>4
    <3> QED BY <1>1, <2>1, <3>8, <3>9 DEF OutputInv
  <2>2. CASE sink = "putchar"
    <3>1. console' = console \o Visible(<<NUL>>) /\ buffer' = buffer
      BY <1>1, <2>2 DEF Out
    <3>2. console = Visible(P) /\ buffer = <<>>
      BY <2>2 DEF PrintfInv, OutputInv, P
    <3>3. Visible(P) \in Seq(Char)
      BY <1>4, VisibleConcat DEF Text
    <3>4. console' = Visible(P)
      BY <3>1, <3>2, <3>3, VisibleEnd
    <3>5. BufferHoldsText'
      BY <1>1, <1>2, <1>6, <2>2, <3>1, <3>2 DEF BufferHoldsText
    <3> QED BY <1>1, <1>5, <2>2, <3>1, <3>2, <3>4, <3>5 DEF OutputInv
  <2>3. CASE sink = "null"
    <3>1. buffer' = buffer
      BY <1>1, <2>3 DEF Out
    <3>2. buffer = <<>>
      BY <2>3 DEF PrintfInv, OutputInv
    <3>3. BufferHoldsText'
      BY <1>1, <1>2, <1>6, <2>3, <3>1, <3>2 DEF BufferHoldsText
    <3> QED BY <1>1, <2>3, <3>1, <3>2, <3>3 DEF OutputInv
  <2> QED BY <1>2, <2>1, <2>2, <2>3
<1> QED BY <1>7, <1>8 DEF PrintfInv

LEMMA PrintfInvNext == PrintfInv /\ [PrintfNext]_printfVars => PrintfInv'
<1> SUFFICES ASSUME PrintfInv, [PrintfNext]_printfVars PROVE PrintfInv'
  OBVIOUS
<1>1. CASE CallPrintf
  BY <1>1, CallPrintfInv
<1>2. CASE Item
  BY <1>2, ItemInv
<1>3. CASE Terminate
  BY <1>3, TerminateInv
<1>4. CASE ReturnPrintf
  <2>1. PrintfInit'
    BY <1>4 DEF ReturnPrintf, PrintfInit
  <2> QED BY <2>1, PrintfInitInv, PTL
<1>5. CASE UNCHANGED printfVars
  BY <1>5 DEF PrintfInv, CallShape, OutputInv, BufferHoldsText, Texts, printfVars
<1> QED BY <1>1, <1>2, <1>3, <1>4, <1>5 DEF PrintfNext

\* Printf.BufferHoldsText: snprintf writes inside the buffer it was given, whatever the format
\* and the length; when it returns the buffer holds as much of the text as fits, with its
\* end, and the result is the length of the whole.
THEOREM BufferHoldsTextAlways == PrintfSpec => []BufferHoldsText
<1>1. PrintfInv => BufferHoldsText
  BY DEF PrintfInv, OutputInv
<1> QED BY <1>1, PrintfInitInv, PrintfInvNext, PTL DEF PrintfSpec


-----------------------------------------------------------------------------
(* The buffer of an integer, read from its end. *)

LEMMA CharSeq == ASSUME NEW c \in Char PROVE <<c>> \in Seq(Char) /\ Len(<<c>>) = 1
OBVIOUS

LEMMA NoText == <<>> \in Seq(Char) /\ Len(<<>>) = 0 /\ \A x \in Seq(Char) : x \o <<>> = x /\ <<>> \o x = x
OBVIOUS

LEMMA NoTimes == ASSUME NEW c, NEW n \in Int, n <= 0 PROVE Times(c, n) = <<>>
BY DEF Times

LEMMA TimesOne == ASSUME NEW c PROVE Times(c, 1) = <<c>>
BY DEF Times

LEMMA SameTexts ==
  ASSUME NEW x \in Seq(Char), NEW y \in Seq(Char), Len(x) = Len(y), \A j \in 1 .. Len(x) : x[j] = y[j]
  PROVE  x = y
OBVIOUS

LEMMA TimesReversed == ASSUME NEW c \in Char, NEW n \in Int PROVE Reverse(Times(c, n)) = Times(c, n)
<1> DEFINE t == Times(c, n)
<1>1. t \in Seq(Char) /\ Len(t) = (IF n > 0 THEN n ELSE 0) /\ \A j \in 1 .. n : t[j] = c
  BY TimesIs
<1> HIDE DEF t
<1>2. /\ Reverse(t) \in Seq(Char) /\ Len(Reverse(t)) = Len(t)
      /\ \A j \in 1 .. Len(t) : Reverse(t)[j] = t[Len(t) - j + 1]
  BY <1>1, ReverseType
<1>3. ASSUME NEW j \in 1 .. Len(t) PROVE Reverse(t)[j] = t[j]
  <2>1. j \in 1 .. n /\ Len(t) - j + 1 \in 1 .. n
    BY <1>1
  <2> QED BY <1>1, <1>2, <2>1
<1>4. Reverse(t) = t
  BY <1>1, <1>2, <1>3, SameTexts
<1> QED BY <1>4 DEF t

LEMMA ConcatAt ==
  ASSUME NEW x \in Seq(Char), NEW y \in Seq(Char)
  PROVE  \A j \in 1 .. Len(x) + Len(y) : (x \o y)[j] = IF j <= Len(x) THEN x[j] ELSE y[j - Len(x)]
OBVIOUS

LEMMA ConcatReversed ==
  ASSUME NEW x \in Seq(Char), NEW y \in Seq(Char)
  PROVE  Reverse(x \o y) = Reverse(y) \o Reverse(x)
<1> DEFINE z == x \o y
           u == Reverse(x)
           w == Reverse(y)
           a == Reverse(z)
           b == w \o u
           p == Len(x)
           q == Len(y)
<1>1. p \in Nat /\ q \in Nat /\ z \in Seq(Char) /\ Len(z) = p + q
  BY ConcatType
<1>2. \A j \in 1 .. p + q : z[j] = IF j <= p THEN x[j] ELSE y[j - p]
  BY ConcatAt
<1>3. u \in Seq(Char) /\ Len(u) = p /\ \A j \in 1 .. p : u[j] = x[p - j + 1]
  BY ReverseType
<1>4. w \in Seq(Char) /\ Len(w) = q /\ \A j \in 1 .. q : w[j] = y[q - j + 1]
  BY ReverseType
<1> HIDE DEF z, u, w, p, q
<1>5. a \in Seq(Char) /\ Len(a) = p + q /\ \A j \in 1 .. p + q : a[j] = z[p + q - j + 1]
  <2>1. a \in Seq(Char) /\ Len(a) = Len(z) /\ \A j \in 1 .. Len(z) : a[j] = z[Len(z) - j + 1]
    BY <1>1, ReverseType
  <2> QED BY <1>1, <2>1
<1>6. b \in Seq(Char) /\ Len(b) = q + p /\ \A j \in 1 .. q + p : b[j] = IF j <= q THEN w[j] ELSE u[j - q]
  <2>1. \A j \in 1 .. Len(w) + Len(u) : b[j] = IF j <= Len(w) THEN w[j] ELSE u[j - Len(w)]
    BY <1>3, <1>4, ConcatAt
  <2> QED BY <1>3, <1>4, <2>1, ConcatType
<1> HIDE DEF a, b
<1>7. ASSUME NEW j \in 1 .. p + q PROVE a[j] = b[j]
  <2> DEFINE r == p + q - j + 1
  <2>1. r \in 1 .. p + q /\ j \in 1 .. q + p
    BY <1>1
  <2>2. a[j] = z[r] /\ z[r] = IF r <= p THEN x[r] ELSE y[r - p]
    BY <1>2, <1>5, <2>1
  <2>3. CASE j <= q
    <3>1. ~ r <= p /\ r - p = q - j + 1 /\ j \in 1 .. q
      BY <1>1, <2>3
    <3>2. b[j] = w[j] /\ w[j] = y[q - j + 1]
      BY <1>4, <1>6, <2>1, <2>3, <3>1
    <3> HIDE DEF r
    <3> QED BY <2>2, <3>1, <3>2
  <2>4. CASE ~ j <= q
    <3>1. r <= p /\ p - (j - q) + 1 = r /\ j - q \in 1 .. p
      BY <1>1, <2>4
    <3>2. b[j] = u[j - q] /\ u[j - q] = x[p - (j - q) + 1]
      BY <1>3, <1>6, <2>1, <2>4, <3>1
    <3> HIDE DEF r
    <3> QED BY <2>2, <3>1, <3>2
  <2> QED BY <2>3, <2>4
<1>8. a = b
  <2>1. Len(a) = Len(b) /\ \A j \in 1 .. Len(a) : a[j] = b[j]
    BY <1>1, <1>5, <1>6, <1>7
  <2> QED BY <1>5, <1>6, <2>1, SameTexts
<1> QED BY <1>8 DEF a, b, z, u, w

LEMMA CharReversed == ASSUME NEW c \in Char PROVE Reverse(<<c>>) = <<c>>
BY TimesOne, TimesReversed

LEMMA AppendReversed ==
  ASSUME NEW t \in Seq(Char), NEW c \in Char
  PROVE  Reverse(Append(t, c)) = <<c>> \o Reverse(t)
<1>1. Append(t, c) = t \o <<c>>
  OBVIOUS
<1> QED BY <1>1, CharSeq, CharReversed, ConcatReversed

\* A character is added where there is room for it.
LEMMA AppendIfIs ==
  ASSUME NEW t \in Seq(Char), NEW c \in Char, Len(t) < BufferSize
  PROVE  /\ AppendIf(TRUE, t, c) \in Seq(Char) /\ Len(AppendIf(TRUE, t, c)) = Len(t) + 1
         /\ Reverse(AppendIf(TRUE, t, c)) = <<c>> \o Reverse(t)
<1>1. AppendIf(TRUE, t, c) = Append(t, c)
  BY DEF AppendIf, Room
<1>2. Append(t, c) \in Seq(Char) /\ Len(Append(t, c)) = Len(t) + 1
  OBVIOUS
<1>3. Reverse(Append(t, c)) = <<c>> \o Reverse(t)
  BY AppendReversed
<1> QED BY <1>1, <1>2, <1>3

LEMMA FillToIs ==
  ASSUME NEW t \in Seq(Char), NEW n \in Int, n <= BufferSize, NEW c \in Char
  PROVE  /\ FillTo(t, n, c) \in Seq(Char) /\ Len(FillTo(t, n, c)) = (IF n > Len(t) THEN n ELSE Len(t))
         /\ Reverse(FillTo(t, n, c)) = Times(c, n - Len(t)) \o Reverse(t)
         /\ FillTo(t, n, c) = t \o Times(c, n - Len(t))
<1>1. FillTo(t, n, c) = t \o Times(c, n - Len(t))
  BY BufferSizeType DEF FillTo
<1>2. n - Len(t) \in Int /\ Len(t) \in Nat
  OBVIOUS
<1>3. Times(c, n - Len(t)) \in Seq(Char) /\ Len(Times(c, n - Len(t))) = (IF n - Len(t) > 0 THEN n - Len(t) ELSE 0)
  BY <1>2, TimesIs
<1>4. Reverse(FillTo(t, n, c)) = Times(c, n - Len(t)) \o Reverse(t)
  BY <1>1, <1>2, <1>3, ConcatReversed, TimesReversed
<1>5. Len(t \o Times(c, n - Len(t))) = Len(t) + Len(Times(c, n - Len(t))) /\ t \o Times(c, n - Len(t)) \in Seq(Char)
  BY <1>3, ConcatType
<1>6. FillTo(t, n, c) \in Seq(Char)
  BY <1>1, <1>5
<1>7. Len(FillTo(t, n, c)) = IF n > Len(t) THEN n ELSE Len(t)
  <2> DEFINE m == Times(c, n - Len(t))
  <2>1. Len(FillTo(t, n, c)) = Len(t) + Len(m) /\ Len(m) = (IF n - Len(t) > 0 THEN n - Len(t) ELSE 0)
    BY <1>1, <1>3, <1>5
  <2> HIDE DEF m
  <2>2. n - Len(t) > 0 <=> n > Len(t)
    BY <1>2
  <2> QED BY <1>2, <2>1, <2>2
<1> QED BY <1>1, <1>4, <1>6, <1>7

LEMMA OutRevIs ==
  ASSUME NEW t \in Seq(Char), NEW w \in Int, NEW fl
  PROVE  OutRev(t, w, fl) =
           IF "LEFT" \in fl THEN Reverse(t) \o Times(" ", w - Len(t))
           ELSE IF "ZEROPAD" \in fl THEN Reverse(t)
           ELSE Times(" ", w - Len(t)) \o Reverse(t)
<1> DEFINE pad == Times(" ", w - Len(t))
           r == Reverse(t)
<1>1. w - Len(t) \in Int
  OBVIOUS
<1>2. " " \in Char
  BY CharTypes
<1>3. pad \in Seq(Char) /\ r \in Seq(Char)
  BY <1>1, <1>2, TimesIs, ReverseType
<1>4. OutRev(t, w, fl) =
        ((IF fl \cap {"LEFT", "ZEROPAD"} = {} THEN pad ELSE <<>>) \o r) \o (IF "LEFT" \in fl THEN pad ELSE <<>>)
  BY DEF OutRev
<1> HIDE DEF pad, r
<1>5. pad \o r \in Seq(Char)
  BY <1>3, ConcatType
<1>6. CASE "LEFT" \in fl
  <2>1. fl \cap {"LEFT", "ZEROPAD"} # {}
    BY <1>6
  <2>2. OutRev(t, w, fl) = (<<>> \o r) \o pad
    BY <1>4, <1>6, <2>1
  <2> QED BY <1>3, <1>6, <2>2, NoText DEF pad, r
<1>7. CASE "LEFT" \notin fl /\ "ZEROPAD" \in fl
  <2>1. fl \cap {"LEFT", "ZEROPAD"} # {}
    BY <1>7
  <2>2. OutRev(t, w, fl) = (<<>> \o r) \o <<>>
    BY <1>4, <1>7, <2>1
  <2> QED BY <1>3, <1>7, <2>2, NoText DEF pad, r
<1>8. CASE "LEFT" \notin fl /\ "ZEROPAD" \notin fl
  <2>1. fl \cap {"LEFT", "ZEROPAD"} = {}
    BY <1>8
  <2>2. OutRev(t, w, fl) = (pad \o r) \o <<>>
    BY <1>4, <1>8, <2>1
  <2> QED BY <1>5, <1>8, <2>2, NoText DEF pad, r
<1> QED BY <1>6, <1>7, <1>8

-----------------------------------------------------------------------------
(* Without a prefix: the digits t, zeros for the precision or the width, the *)
(* sign.                                                                     *)

SignOf(negative, fl) ==
  IF negative THEN <<"-">> ELSE IF "PLUS" \in fl THEN <<"+">> ELSE IF "SPACE" \in fl THEN <<" ">> ELSE <<>>

LEMMA SignIs ==
  ASSUME NEW negative \in BOOLEAN, NEW fl
  PROVE  /\ SignOf(negative, fl) \in Seq(Char)
         /\ Len(SignOf(negative, fl)) = IF negative \/ fl \cap {"PLUS", "SPACE"} # {} THEN 1 ELSE 0
<1>1. \A c \in {"-", "+", " "} : <<c>> \in Seq(Char) /\ Len(<<c>>) = 1
  BY CharTypes, CharSeq
<1>2. fl \cap {"PLUS", "SPACE"} # {} <=> "PLUS" \in fl \/ "SPACE" \in fl
  OBVIOUS
<1>3. CASE negative
  <2>1. SignOf(negative, fl) = <<"-">>
    BY <1>3 DEF SignOf
  <2> QED BY <1>1, <1>3, <2>1
<1>4. CASE ~ negative /\ "PLUS" \in fl
  <2>1. SignOf(negative, fl) = <<"+">>
    BY <1>4 DEF SignOf
  <2> QED BY <1>1, <1>2, <1>4, <2>1
<1>5. CASE ~ negative /\ "PLUS" \notin fl /\ "SPACE" \in fl
  <2>1. SignOf(negative, fl) = <<" ">>
    BY <1>5 DEF SignOf
  <2> QED BY <1>1, <1>2, <1>5, <2>1
<1>6. CASE ~ negative /\ "PLUS" \notin fl /\ "SPACE" \notin fl
  <2>1. SignOf(negative, fl) = <<>>
    BY <1>6 DEF SignOf
  <2> QED BY <1>2, <1>6, <2>1, NoText
<1> QED BY <1>3, <1>4, <1>5, <1>6

LEMMA SignedIs ==
  ASSUME NEW t \in Seq(Char), NEW negative \in BOOLEAN, NEW fl, Len(t) + Len(SignOf(negative, fl)) <= BufferSize
  PROVE  /\ Signed(t, negative, fl) \in Seq(Char)
         /\ Len(Signed(t, negative, fl)) = Len(t) + Len(SignOf(negative, fl))
         /\ Reverse(Signed(t, negative, fl)) = SignOf(negative, fl) \o Reverse(t)
<1>0. Len(t) \in Nat /\ BufferSize \in Nat /\ Reverse(t) \in Seq(Char)
  BY BufferSizeType, ReverseType
<1>c. "-" \in Char /\ "+" \in Char /\ " " \in Char
  BY CharTypes
<1>1. CASE negative
  <2>1. SignOf(negative, fl) = <<"-">> /\ Signed(t, negative, fl) = AppendIf(TRUE, t, "-")
    BY <1>1 DEF SignOf, Signed
  <2>2. Len(SignOf(negative, fl)) = 1
    BY <1>c, <2>1, CharSeq
  <2>3. Len(t) < BufferSize
    BY <1>0, <2>2
  <2> QED BY <1>c, <2>1, <2>2, <2>3, AppendIfIs
<1>2. CASE ~ negative /\ "PLUS" \in fl
  <2>1. SignOf(negative, fl) = <<"+">> /\ Signed(t, negative, fl) = AppendIf(TRUE, t, "+")
    BY <1>2 DEF SignOf, Signed
  <2>2. Len(SignOf(negative, fl)) = 1
    BY <1>c, <2>1, CharSeq
  <2>3. Len(t) < BufferSize
    BY <1>0, <2>2
  <2> QED BY <1>c, <2>1, <2>2, <2>3, AppendIfIs
<1>3. CASE ~ negative /\ "PLUS" \notin fl /\ "SPACE" \in fl
  <2>1. SignOf(negative, fl) = <<" ">> /\ Signed(t, negative, fl) = AppendIf(TRUE, t, " ")
    BY <1>3 DEF SignOf, Signed, AppendIf
  <2>2. Len(SignOf(negative, fl)) = 1
    BY <1>c, <2>1, CharSeq
  <2>3. Len(t) < BufferSize
    BY <1>0, <2>2
  <2> QED BY <1>c, <2>1, <2>2, <2>3, AppendIfIs
<1>4. CASE ~ negative /\ "PLUS" \notin fl /\ "SPACE" \notin fl
  <2>1. SignOf(negative, fl) = <<>> /\ Signed(t, negative, fl) = t
    BY <1>4 DEF SignOf, Signed, AppendIf
  <2> QED BY <1>0, <2>1, NoText
<1> QED BY <1>1, <1>2, <1>3, <1>4

\* The layout the standard asks for: the sign or prefix s, z zeros, the digits r.
Layout(s, z, r, width, fl) ==
  IF "LEFT" \in fl THEN (s \o (Times("0", z) \o r)) \o Times(" ", width - Len(s) - Len(Times("0", z) \o r))
  ELSE IF "ZEROPAD" \in fl THEN (s \o Times("0", width - Len(s) - Len(r))) \o r
  ELSE (Times(" ", width - Len(s) - Len(Times("0", z) \o r)) \o s) \o (Times("0", z) \o r)

LEMMA PlainLayout ==
  ASSUME NEW t \in Seq(Char), NEW negative \in BOOLEAN, NEW base, NEW prec \in Nat, NEW width \in Nat, NEW fl,
         "HASH" \notin fl, width <= BufferSize,
         "LEFT" \in fl \/ "ZEROPAD" \in fl => prec <= Len(t),
         Len(SignOf(negative, fl)) + (IF prec > Len(t) THEN prec ELSE Len(t)) <= BufferSize
  PROVE  NtoaFormat(t, negative, base, prec, width, fl)
           = Layout(SignOf(negative, fl), prec - Len(t), Reverse(t), width, fl)
<1> DEFINE s == SignOf(negative, fl)
           w == ZeroWidth(negative, width, fl)
           r == Reverse(t)
           n == Len(t)
           z == LeadingZeros(t, prec, w, fl)
           b == Signed(z, negative, fl)
           f == FillTo(t, prec, "0")
           y == Times("0", prec - n)
           zr == y \o r
           out == NtoaFormat(t, negative, base, prec, width, fl)
<1>c. "0" \in Char /\ " " \in Char
  <2>1. "0" \in Char
    BY CharTypes
  <2>2. " " \in Char
    BY CharTypes
  <2> QED BY <2>1, <2>2
<1>1. n = Len(t) /\ n \in Nat /\ r = Reverse(t) /\ r \in Seq(Char) /\ Len(r) = n
  BY ReverseType
<1>2. /\ s = SignOf(negative, fl) /\ s \in Seq(Char) /\ Len(s) \in {0, 1}
      /\ (Len(s) = 1 <=> negative \/ fl \cap {"PLUS", "SPACE"} # {})
  <2>1. s \in Seq(Char) /\ Len(s) = IF negative \/ fl \cap {"PLUS", "SPACE"} # {} THEN 1 ELSE 0
    BY SignIs
  <2>2. s = SignOf(negative, fl)
    OBVIOUS
  <2> HIDE DEF s
  <2> QED BY <2>1, <2>2
<1>3. w = IF "LEFT" \notin fl /\ "ZEROPAD" \in fl /\ width > 0 THEN width - Len(s) ELSE width
  <2>1. {"LEFT", "ZEROPAD"} \cap fl = {"ZEROPAD"} <=> "LEFT" \notin fl /\ "ZEROPAD" \in fl
    OBVIOUS
  <2>2. w = IF width > 0 /\ {"LEFT", "ZEROPAD"} \cap fl = {"ZEROPAD"}
                 /\ (negative \/ fl \cap {"PLUS", "SPACE"} # {})
              THEN width - 1 ELSE width
    BY DEF ZeroWidth
  <2> HIDE DEF s, w
  <2>3. CASE negative \/ fl \cap {"PLUS", "SPACE"} # {}
    BY <1>2, <2>1, <2>2, <2>3
  <2>4. CASE ~ (negative \/ fl \cap {"PLUS", "SPACE"} # {})
    <3>1. Len(s) = 0
      BY <1>2, <2>4
    <3>2. w = width /\ width - 0 = width
      BY <2>2, <2>4
    <3> QED BY <3>1, <3>2
  <2> QED BY <2>3, <2>4
<1>4. out = OutRev(b, w, fl) /\ b = Signed(z, negative, fl)
  BY DEF NtoaFormat, Prefixed
<1>5. z = IF "LEFT" \in fl THEN t ELSE IF "ZEROPAD" \in fl THEN FillTo(f, w, "0") ELSE f
  BY DEF LeadingZeros
<1>6. BufferSize \in Nat /\ (IF prec > n THEN prec ELSE n) + Len(s) <= BufferSize
  BY <1>1, <1>2, BufferSizeType
<1> HIDE DEF s, w, r, z, b, out
<1>7. prec <= BufferSize /\ w \in Int /\ w <= BufferSize
  BY <1>1, <1>2, <1>3, <1>6
<1>8. prec - n \in Int /\ y \in Seq(Char) /\ Len(y) = (IF prec > n THEN prec - n ELSE 0) /\ (prec <= n => y = <<>>)
  <2>1. prec - n \in Int
    BY <1>1
  <2>2. y \in Seq(Char) /\ Len(y) = IF prec - n > 0 THEN prec - n ELSE 0
    BY <1>c, <2>1, TimesIs
  <2>3. prec <= n => y = <<>>
    BY <1>1, <2>1, NoTimes
  <2> HIDE DEF y
  <2> QED BY <1>1, <2>1, <2>2, <2>3
<1>9. f \in Seq(Char) /\ Len(f) = (IF prec > n THEN prec ELSE n) /\ Reverse(f) = zr /\ f = t \o y
  <2>1. prec \in Int
    OBVIOUS
  <2>2. /\ f \in Seq(Char) /\ Len(f) = (IF prec > Len(t) THEN prec ELSE Len(t))
        /\ Reverse(f) = Times("0", prec - Len(t)) \o Reverse(t)
        /\ f = t \o Times("0", prec - Len(t))
    BY <1>7, <1>c, <2>1, FillToIs
  <2> HIDE DEF f
  <2> QED BY <1>1, <2>2
<1>10. Layout(SignOf(negative, fl), prec - Len(t), Reverse(t), width, fl) =
         IF "LEFT" \in fl THEN (s \o zr) \o Times(" ", width - Len(s) - Len(zr))
         ELSE IF "ZEROPAD" \in fl THEN (s \o Times("0", width - Len(s) - Len(r))) \o r
         ELSE (Times(" ", width - Len(s) - Len(zr)) \o s) \o zr
  BY <1>1, <1>2 DEF Layout
<1> HIDE DEF n, f, y
<1>11. zr \in Seq(Char) /\ Len(zr) = (IF prec > n THEN prec ELSE n) /\ (prec <= n => zr = r)
  <2>1. zr \in Seq(Char) /\ Len(zr) = Len(y) + Len(r)
    BY <1>1, <1>8, ConcatType
  <2>2. prec <= n => zr = r
    BY <1>1, <1>8, NoText
  <2> HIDE DEF zr
  <2> QED BY <1>1, <1>8, <2>1, <2>2
<1> HIDE DEF zr
<1> DEFINE pad == Times(" ", width - Len(s) - Len(zr))
<1>12. width - Len(s) - Len(zr) \in Int /\ pad \in Seq(Char)
  <2>1. width - Len(s) - Len(zr) \in Int
    BY <1>1, <1>2, <1>11
  <2> QED BY <1>c, <2>1, TimesIs
<1> HIDE DEF pad
<1>13. CASE "LEFT" \in fl
  <2>1. z = t /\ prec <= n
    BY <1>1, <1>5, <1>13
  <2>2. Len(z) + Len(SignOf(negative, fl)) <= BufferSize /\ z \in Seq(Char)
    BY <1>1, <1>2, <1>6, <2>1
  <2>3. b \in Seq(Char) /\ Len(b) = n + Len(s) /\ Reverse(b) = s \o r
    <3>1. /\ b \in Seq(Char) /\ Len(b) = Len(z) + Len(SignOf(negative, fl))
          /\ Reverse(b) = SignOf(negative, fl) \o Reverse(z)
      BY <1>4, <2>2, SignedIs
    <3> QED BY <1>1, <1>2, <2>1, <3>1
  <2>4. OutRev(b, w, fl) = Reverse(b) \o Times(" ", w - Len(b))
    BY <1>7, <1>13, <2>3, OutRevIs
  <2>5. w - Len(b) = width - Len(s) - Len(zr)
    BY <1>1, <1>2, <1>3, <1>11, <1>13, <2>1, <2>3
  <2>6. out = (s \o zr) \o Times(" ", width - Len(s) - Len(zr))
    BY <1>4, <1>11, <2>1, <2>3, <2>4, <2>5
  <2> QED BY <1>10, <1>13, <2>6 DEF out
<1>14. CASE "LEFT" \notin fl /\ "ZEROPAD" \in fl
  <2>1. prec <= n /\ f = t
    BY <1>1, <1>8, <1>9, <1>14, NoText
  <2>2. /\ z \in Seq(Char) /\ Len(z) = (IF w > n THEN w ELSE n) /\ Reverse(z) = Times("0", w - n) \o r
    <3>1. z = FillTo(t, w, "0")
      BY <1>5, <1>14, <2>1
    <3>2. /\ z \in Seq(Char) /\ Len(z) = (IF w > Len(t) THEN w ELSE Len(t))
          /\ Reverse(z) = Times("0", w - Len(t)) \o Reverse(t)
      BY <1>c, <1>7, <3>1, FillToIs
    <3> QED BY <1>1, <3>2
  <2>3. Len(z) + Len(SignOf(negative, fl)) <= BufferSize
    <3>1. w > n => width > 0 /\ w = width - Len(s)
      BY <1>1, <1>2, <1>3, <1>14
    <3> QED BY <1>1, <1>2, <1>6, <2>1, <2>2, <3>1
  <2>4. b \in Seq(Char) /\ Reverse(b) = s \o (Times("0", w - n) \o r)
    <3>1. b \in Seq(Char) /\ Reverse(b) = SignOf(negative, fl) \o Reverse(z)
      BY <1>4, <2>2, <2>3, SignedIs
    <3> QED BY <1>2, <2>2, <3>1
  <2>5. OutRev(b, w, fl) = Reverse(b)
    BY <1>7, <1>14, <2>4, OutRevIs
  <2>6. Times("0", w - n) = Times("0", width - Len(s) - n)
    <3>1. CASE width > 0
      <4>1. w - n = width - Len(s) - n
        BY <1>1, <1>2, <1>3, <1>14, <3>1
      <4> QED BY <4>1
    <3>2. CASE ~ width > 0
      <4>1. w - n \in Int /\ w - n <= 0 /\ width - Len(s) - n \in Int /\ width - Len(s) - n <= 0
        BY <1>1, <1>2, <1>3, <3>2
      <4>2. Times("0", w - n) = <<>> /\ Times("0", width - Len(s) - n) = <<>>
        BY <4>1, NoTimes
      <4> QED BY <4>2
    <3> QED BY <3>1, <3>2
  <2>7. Times("0", width - Len(s) - n) \in Seq(Char)
    <3>1. width - Len(s) - n \in Int
      BY <1>1, <1>2
    <3> QED BY <1>c, <3>1, TimesIs
  <2>8. out = (s \o Times("0", width - Len(s) - n)) \o r
    <3>1. out = s \o (Times("0", width - Len(s) - n) \o r)
      BY <1>4, <2>4, <2>5, <2>6
    <3>2. s \in Seq(Char) /\ r \in Seq(Char)
      BY <1>1, <1>2
    <3> QED BY <2>7, <3>1, <3>2, TextAssociative
  <2>9. out = (s \o Times("0", width - Len(s) - Len(r))) \o r
    BY <1>1, <2>8
  <2> QED BY <1>10, <1>14, <2>9 DEF out
<1>15. CASE "LEFT" \notin fl /\ "ZEROPAD" \notin fl
  <2>1. z = f
    BY <1>5, <1>15
  <2>2. Len(z) + Len(SignOf(negative, fl)) <= BufferSize /\ z \in Seq(Char)
    BY <1>1, <1>2, <1>6, <1>9, <2>1
  <2>3. b \in Seq(Char) /\ Len(b) = Len(zr) + Len(s) /\ Reverse(b) = s \o zr
    <3>1. /\ b \in Seq(Char) /\ Len(b) = Len(z) + Len(SignOf(negative, fl))
          /\ Reverse(b) = SignOf(negative, fl) \o Reverse(z)
      BY <1>4, <2>2, SignedIs
    <3>2. Len(z) = Len(zr) /\ Reverse(z) = zr
      BY <1>9, <1>11, <2>1
    <3> QED BY <1>2, <3>1, <3>2
  <2>4. OutRev(b, w, fl) = Times(" ", w - Len(b)) \o Reverse(b)
    BY <1>7, <1>15, <2>3, OutRevIs
  <2>5. w - Len(b) = width - Len(s) - Len(zr)
    BY <1>1, <1>2, <1>3, <1>11, <1>15, <2>3
  <2>6. out = pad \o (s \o zr)
    BY <1>4, <2>3, <2>4, <2>5 DEF pad
  <2>7. out = (pad \o s) \o zr
    BY <1>2, <1>11, <1>12, <2>6, TextAssociative
  <2> QED BY <1>10, <1>15, <2>7 DEF out, pad
<1> QED BY <1>13, <1>14, <1>15

-----------------------------------------------------------------------------
(* With a prefix: it takes the places of zeros that were filled.             *)

Letter(base, fl) == IF base = 2 THEN "b" ELSE IF "UPPERCASE" \in fl THEN "X" ELSE "x"
PrefixOf(base, fl) == IF base = 8 THEN <<"0">> ELSE <<"0", Letter(base, fl)>>

LEMMA PrefixIs ==
  ASSUME NEW base \in {2, 8, 16}, NEW fl
  PROVE  /\ PrefixOf(base, fl) \in Seq(Char) /\ Len(PrefixOf(base, fl)) = (IF base = 8 THEN 1 ELSE 2)
         /\ Letter(base, fl) \in Char
<1>1. Letter(base, fl) \in Char /\ "0" \in Char
  BY CharTypes DEF Letter
<1> QED BY <1>1 DEF PrefixOf

LEMMA PairIs == ASSUME NEW c \in Char, NEW d \in Char PROVE <<c>> \o <<d>> = <<c, d>>
<1> DEFINE x == <<c>>
           y == <<d>>
           z == <<c, d>>
<1>1. x \in Seq(Char) /\ Len(x) = 1 /\ x[1] = c
  OBVIOUS
<1>2. y \in Seq(Char) /\ Len(y) = 1 /\ y[1] = d
  OBVIOUS
<1>3. z \in Seq(Char) /\ Len(z) = 2 /\ z[1] = c /\ z[2] = d
  OBVIOUS
<1> HIDE DEF x, y, z
<1>4. x \o y \in Seq(Char) /\ Len(x \o y) = 2
  <2>1. x \o y \in Seq(Char) /\ Len(x \o y) = Len(x) + Len(y)
    BY <1>1, <1>2, ConcatType
  <2> QED BY <1>1, <1>2, <2>1
<1>5. \A j \in 1 .. 2 : (x \o y)[j] = IF j <= 1 THEN x[j] ELSE y[j - 1]
  <2>1. \A j \in 1 .. Len(x) + Len(y) : (x \o y)[j] = IF j <= Len(x) THEN x[j] ELSE y[j - Len(x)]
    BY <1>1, <1>2, ConcatAt
  <2>2. Len(x) = 1 /\ Len(x) + Len(y) = 2
    BY <1>1, <1>2
  <2> QED BY <2>1, <2>2
<1>6. \A j \in 1 .. 2 : (x \o y)[j] = z[j]
  <2>1. (x \o y)[1] = c /\ (x \o y)[2] = d
    <3>1. 1 \in 1 .. 2 /\ 1 <= 1 /\ 2 \in 1 .. 2 /\ ~ 2 <= 1 /\ 2 - 1 = 1
      OBVIOUS
    <3>2. (x \o y)[1] = x[1]
      BY <1>5, <3>1
    <3>3. (x \o y)[2] = y[2 - 1]
      BY <1>5, <3>1
    <3> QED BY <1>1, <1>2, <3>1, <3>2, <3>3
  <2>2. \A j \in 1 .. 2 : j = 1 \/ j = 2
    OBVIOUS
  <2> QED BY <1>3, <2>1, <2>2
<1>7. x \o y = z
  BY <1>3, <1>4, <1>6, SameTexts
<1> QED BY <1>7 DEF x, y, z

LEMMA PrefixAppended ==
  ASSUME NEW y \in Seq(Char), NEW base \in {2, 8, 16}, NEW fl, Len(y) + Len(PrefixOf(base, fl)) <= BufferSize
  PROVE  LET b == AppendIf(TRUE, AppendIf(base \in {2, 16}, y, Letter(base, fl)), "0")
         IN /\ b \in Seq(Char) /\ Len(b) = Len(y) + Len(PrefixOf(base, fl))
            /\ Reverse(b) = PrefixOf(base, fl) \o Reverse(y)
<1> DEFINE l == Letter(base, fl)
           p == PrefixOf(base, fl)
           a == AppendIf(base \in {2, 16}, y, l)
           b == AppendIf(TRUE, a, "0")
<1>1. p \in Seq(Char) /\ Len(p) = (IF base = 8 THEN 1 ELSE 2) /\ l \in Char /\ "0" \in Char
  BY PrefixIs, CharTypes
<1>2. Len(y) \in Nat /\ BufferSize \in Nat /\ Reverse(y) \in Seq(Char)
  BY BufferSizeType, ReverseType
<1>p. p = IF base = 8 THEN <<"0">> ELSE <<"0", l>>
  BY DEF PrefixOf
<1>3. CASE base = 8
  <2>1. a = y /\ Len(y) < BufferSize
    BY <1>1, <1>2, <1>3 DEF AppendIf
  <2>2. b \in Seq(Char) /\ Len(b) = Len(y) + 1 /\ Reverse(b) = <<"0">> \o Reverse(y)
    BY <1>1, <2>1, AppendIfIs
  <2> QED BY <1>1, <1>3, <1>p, <2>2
<1>4. CASE base # 8
  <2>1. a = AppendIf(TRUE, y, l) /\ Len(y) + 2 <= BufferSize
    BY <1>1, <1>4 DEF AppendIf
  <2> HIDE DEF l, p
  <2>2. a \in Seq(Char) /\ Len(a) = Len(y) + 1 /\ Reverse(a) = <<l>> \o Reverse(y)
    <3>1. Len(y) < BufferSize
      BY <1>2, <2>1
    <3>2. l \in Char
      BY <1>1
    <3> QED BY <2>1, <3>1, <3>2, AppendIfIs
  <2>3. Len(a) < BufferSize
    BY <1>2, <2>1, <2>2
  <2> HIDE DEF a
  <2>4. b \in Seq(Char) /\ Len(b) = Len(a) + 1 /\ Reverse(b) = <<"0">> \o Reverse(a)
    BY <1>1, <2>2, <2>3, AppendIfIs
  <2> HIDE DEF b
  <2>5. <<"0">> \in Seq(Char) /\ <<l>> \in Seq(Char) /\ <<"0">> \o <<l>> = <<"0", l>>
    BY <1>1, CharSeq, PairIs
  <2>6. Reverse(b) = <<"0", l>> \o Reverse(y)
    <3>1. Reverse(b) = <<"0">> \o (<<l>> \o Reverse(y))
      BY <2>2, <2>4
    <3>2. (<<"0">> \o <<l>>) \o Reverse(y) = <<"0">> \o (<<l>> \o Reverse(y))
      BY <1>2, <2>5, TextAssociative
    <3> QED BY <2>5, <3>1, <3>2
  <2>7. Len(b) = Len(y) + 2
    BY <1>2, <2>2, <2>4
  <2>8. Len(p) = 2 /\ p = <<"0", l>>
    BY <1>1, <1>4, <1>p
  <2>9. b \in Seq(Char) /\ Len(b) = Len(y) + Len(p) /\ Reverse(b) = p \o Reverse(y)
    BY <2>4, <2>6, <2>7, <2>8
  <2> QED BY <2>9 DEF p, l, a, b
<1> QED BY <1>3, <1>4

LEMMA FilledPrefix ==
  ASSUME NEW t \in Seq(Char), NEW m \in Nat, NEW c \in Nat, c <= m
  PROVE  SubSeq(t \o Times("0", m), 1, Len(t) + m - c) = t \o Times("0", m - c)
<1> DEFINE n == Len(t)
           u == Times("0", m)
           v == Times("0", m - c)
           x == SubSeq(t \o u, 1, n + m - c)
<1>c. "0" \in Char
  BY CharTypes
<1>0. n \in Nat /\ m - c \in Nat
  OBVIOUS
<1>1. u \in Seq(Char) /\ Len(u) = m /\ \A j \in 1 .. m : u[j] = "0"
  <2>1. m \in Int
    OBVIOUS
  <2> QED BY <1>c, <2>1, TimesIs
<1>2. v \in Seq(Char) /\ Len(v) = m - c /\ \A j \in 1 .. m - c : v[j] = "0"
  <2>1. m - c \in Int /\ (m - c > 0 \/ m - c = 0)
    BY <1>0
  <2> HIDE DEF n
  <2>2. /\ v \in Seq(Char) /\ Len(v) = (IF m - c > 0 THEN m - c ELSE 0)
        /\ \A j \in 1 .. m - c : v[j] = "0"
    BY <1>c, <2>1, TimesIs
  <2> HIDE DEF v
  <2> QED BY <2>1, <2>2
<1> HIDE DEF u, v
<1>3. /\ t \o u \in Seq(Char) /\ Len(t \o u) = n + m
      /\ \A j \in 1 .. n + m : (t \o u)[j] = IF j <= n THEN t[j] ELSE u[j - n]
  BY <1>1, ConcatType, ConcatAt
<1>4. /\ t \o v \in Seq(Char) /\ Len(t \o v) = n + (m - c)
      /\ \A j \in 1 .. n + (m - c) : (t \o v)[j] = IF j <= n THEN t[j] ELSE v[j - n]
  BY <1>2, ConcatType, ConcatAt
<1>5. x \in Seq(Char) /\ Len(x) = n + m - c /\ \A j \in 1 .. n + m - c : x[j] = (t \o u)[j]
  <2> DEFINE tu == t \o u
  <2> HIDE DEF n, tu
  <2>1. tu \in Seq(Char) /\ Len(tu) = n + m /\ n + m - c \in 0 .. Len(tu)
    BY <1>0, <1>3 DEF tu
  <2>2. /\ SubSeq(tu, 1, n + m - c) \in Seq(Char) /\ Len(SubSeq(tu, 1, n + m - c)) = n + m - c
        /\ \A j \in 1 .. n + m - c : SubSeq(tu, 1, n + m - c)[j] = tu[j]
    BY <2>1
  <2> QED BY <2>2 DEF tu
<1> HIDE DEF n, x
<1>6. ASSUME NEW j \in 1 .. n + m - c PROVE x[j] = (t \o v)[j]
  <2>1. j \in 1 .. n + m /\ j \in 1 .. n + (m - c) /\ (~ j <= n => j - n \in 1 .. m /\ j - n \in 1 .. m - c)
    BY <1>0
  <2>2. x[j] = IF j <= n THEN t[j] ELSE u[j - n]
    BY <1>3, <1>5, <2>1
  <2>3. (t \o v)[j] = IF j <= n THEN t[j] ELSE v[j - n]
    BY <1>4, <2>1
  <2> QED BY <1>1, <1>2, <2>1, <2>2, <2>3
<1>7. n + m - c = n + (m - c)
  BY <1>0
<1>8. x = t \o v
  <2>1. Len(x) = Len(t \o v) /\ \A j \in 1 .. Len(x) : x[j] = (t \o v)[j]
    BY <1>4, <1>5, <1>6, <1>7
  <2> QED BY <1>4, <1>5, <2>1, SameTexts
<1> QED BY <1>8 DEF x, n, u, v

\* There is a place for the prefix: no digit has to give way to it, and a zero only where
\* one was filled.
PrefixFits(t, base, prec, width, fl) ==
  /\ Len(t) > 0 /\ width <= BufferSize
  /\ "HASH" \in fl /\ "PLUS" \notin fl /\ "SPACE" \notin fl
  /\ "LEFT" \in fl \/ "ZEROPAD" \in fl => prec <= Len(t)
  /\ "PRECISION" \in fl => "ZEROPAD" \notin fl
  /\ "PRECISION" \notin fl => prec = 0 /\ Len(t) # width
  /\ "LEFT" \notin fl /\ "ZEROPAD" \in fl =>
       (base = 16 => Len(t) + 1 # width) /\ (base = 2 => Len(t) + 2 > width)
  /\ Len(PrefixOf(base, fl)) + (IF prec > Len(t) THEN prec ELSE Len(t)) <= BufferSize

LEMMA HashLayout ==
  ASSUME NEW t \in Seq(Char), NEW negative \in BOOLEAN, ~ negative, NEW base \in {2, 8, 16},
         NEW prec \in Nat, NEW width \in Nat, NEW fl, PrefixFits(t, base, prec, width, fl)
  PROVE  NtoaFormat(t, negative, base, prec, width, fl)
           = Layout(PrefixOf(base, fl), prec - Len(t), Reverse(t), width, fl)
<1> USE DEF PrefixFits
<1> DEFINE s == PrefixOf(base, fl)
           w == ZeroWidth(negative, width, fl)
           r == Reverse(t)
           n == Len(t)
           z == LeadingZeros(t, prec, w, fl)
           cut == IF "PRECISION" \notin fl /\ Len(z) > 0 /\ Len(z) \in {prec, w}
                    THEN IF base = 16 /\ Len(z) > 1 THEN 2 ELSE 1
                    ELSE 0
           u == SubSeq(z, 1, Len(z) - cut)
           b == AppendIf(TRUE, AppendIf(base \in {2, 16}, u, Letter(base, fl)), "0")
           f == FillTo(t, prec, "0")
           y == Times("0", prec - n)
           zr == y \o r
           out == NtoaFormat(t, negative, base, prec, width, fl)
<1>c. "0" \in Char /\ " " \in Char
  <2>1. "0" \in Char
    BY CharTypes
  <2>2. " " \in Char
    BY CharTypes
  <2> QED BY <2>1, <2>2
<1>1. n = Len(t) /\ n \in Nat \ {0} /\ r = Reverse(t) /\ r \in Seq(Char) /\ Len(r) = n
  BY ReverseType
<1>2. s = PrefixOf(base, fl) /\ s \in Seq(Char) /\ Len(s) = IF base = 8 THEN 1 ELSE 2
  BY PrefixIs
<1>3. w = width
  <2>1. fl \cap {"PLUS", "SPACE"} = {}
    OBVIOUS
  <2> QED BY <2>1 DEF ZeroWidth
<1>4. out = OutRev(b, w, fl)
  <2>1. Signed(b, negative, fl) = b
    BY DEF Signed, AppendIf
  <2>2. Prefixed(z, base, prec, w, fl) = b
    BY DEF Prefixed, Letter
  <2>3. out = OutRev(Signed(Prefixed(z, base, prec, w, fl), negative, fl), w, fl)
    BY DEF NtoaFormat
  <2> QED BY <2>1, <2>2, <2>3
<1>5. z = IF "LEFT" \in fl THEN t ELSE IF "ZEROPAD" \in fl THEN FillTo(f, w, "0") ELSE f
  BY DEF LeadingZeros
<1>6. BufferSize \in Nat /\ (IF prec > n THEN prec ELSE n) + Len(s) <= BufferSize
  <2>1. BufferSize \in Nat
    BY BufferSizeType
  <2>2. Len(s) \in Nat
    BY <1>2
  <2>3. Len(s) + (IF prec > n THEN prec ELSE n) <= BufferSize
    OBVIOUS
  <2> HIDE DEF s, n
  <2> QED BY <1>1, <2>1, <2>2, <2>3
<1> HIDE DEF s, w, r, z, b, u, out
<1>7. prec <= BufferSize /\ w \in Nat /\ w <= BufferSize /\ Len(s) \in {1, 2}
  <2>1. Len(s) \in {1, 2}
    BY <1>2
  <2>2. prec <= BufferSize
    BY <1>1, <1>6, <2>1
  <2> QED BY <1>3, <2>1, <2>2
<1>8. prec - n \in Int /\ y \in Seq(Char) /\ Len(y) = (IF prec > n THEN prec - n ELSE 0) /\ (prec <= n => y = <<>>)
  <2>1. prec - n \in Int
    BY <1>1
  <2>2. y \in Seq(Char) /\ Len(y) = IF prec - n > 0 THEN prec - n ELSE 0
    BY <1>c, <2>1, TimesIs
  <2>3. prec <= n => y = <<>>
    BY <1>1, <2>1, NoTimes
  <2> HIDE DEF y
  <2> QED BY <1>1, <2>1, <2>2, <2>3
<1>9. f \in Seq(Char) /\ Len(f) = (IF prec > n THEN prec ELSE n) /\ Reverse(f) = zr /\ f = t \o y
  <2>1. prec \in Int
    OBVIOUS
  <2>2. /\ f \in Seq(Char) /\ Len(f) = (IF prec > Len(t) THEN prec ELSE Len(t))
        /\ Reverse(f) = Times("0", prec - Len(t)) \o Reverse(t)
        /\ f = t \o Times("0", prec - Len(t))
    BY <1>7, <1>c, <2>1, FillToIs
  <2> HIDE DEF f
  <2> QED BY <1>1, <2>2
<1>10. Layout(PrefixOf(base, fl), prec - Len(t), Reverse(t), width, fl) =
         IF "LEFT" \in fl THEN (s \o zr) \o Times(" ", width - Len(s) - Len(zr))
         ELSE IF "ZEROPAD" \in fl THEN (s \o Times("0", width - Len(s) - Len(r))) \o r
         ELSE (Times(" ", width - Len(s) - Len(zr)) \o s) \o zr
  BY <1>1, <1>2 DEF Layout
<1>u. \A x \in Seq(Char) : z = x /\ cut = 0 => u = x
  BY DEF u
<1>cut. cut = IF "PRECISION" \notin fl /\ Len(z) > 0 /\ Len(z) \in {prec, w}
                THEN IF base = 16 /\ Len(z) > 1 THEN 2 ELSE 1
                ELSE 0
  OBVIOUS
<1> HIDE DEF n, f, y, cut
<1>11. zr \in Seq(Char) /\ Len(zr) = (IF prec > n THEN prec ELSE n) /\ (prec <= n => zr = r)
  <2>1. zr \in Seq(Char) /\ Len(zr) = Len(y) + Len(r)
    BY <1>1, <1>8, ConcatType
  <2>2. prec <= n => zr = r
    BY <1>1, <1>8, NoText
  <2> HIDE DEF zr
  <2> QED BY <1>1, <1>8, <2>1, <2>2
<1> HIDE DEF zr
<1>12. ASSUME u \in Seq(Char), Len(u) + Len(s) <= BufferSize
       PROVE  b \in Seq(Char) /\ Len(b) = Len(u) + Len(s) /\ Reverse(b) = s \o Reverse(u)
  BY <1>2, <1>12, PrefixAppended DEF b
<1> DEFINE pad == Times(" ", width - Len(s) - Len(zr))
<1>13. width - Len(s) - Len(zr) \in Int /\ pad \in Seq(Char)
  <2>1. width - Len(s) - Len(zr) \in Int
    BY <1>1, <1>7, <1>11
  <2> QED BY <1>c, <2>1, TimesIs
<1> HIDE DEF pad
<1>14. CASE "LEFT" \in fl
  <2>1. z = t /\ prec <= n
    BY <1>1, <1>5, <1>14
  <2>2. cut = 0
    BY <1>1, <1>3, <1>cut, <2>1
  <2>3. u = t
    BY <1>u, <2>1, <2>2
  <2>4. b \in Seq(Char) /\ Len(b) = n + Len(s) /\ Reverse(b) = s \o r
    <3>1. u \in Seq(Char) /\ Len(u) + Len(s) <= BufferSize
      BY <1>1, <1>6, <1>7, <2>1, <2>3
    <3> QED BY <1>1, <1>12, <2>3, <3>1
  <2>5. OutRev(b, w, fl) = Reverse(b) \o Times(" ", w - Len(b))
    <3>1. w \in Int
      BY <1>7
    <3> QED BY <1>14, <2>4, <3>1, OutRevIs
  <2>6. w - Len(b) = width - Len(s) - Len(zr)
    BY <1>1, <1>3, <1>7, <1>11, <2>1, <2>4
  <2>7. out = (s \o zr) \o Times(" ", width - Len(s) - Len(zr))
    BY <1>4, <1>11, <2>1, <2>4, <2>5, <2>6
  <2> QED BY <1>10, <1>14, <2>7 DEF out
<1>15. CASE "LEFT" \notin fl /\ "ZEROPAD" \in fl
  <2>1. prec <= n /\ f = t /\ "PRECISION" \notin fl /\ prec = 0 /\ n # width
    BY <1>1, <1>8, <1>9, <1>15, NoText
  <2>2. /\ z \in Seq(Char) /\ Len(z) = (IF width > n THEN width ELSE n) /\ z = t \o Times("0", width - n)
    <3>1. z = FillTo(t, w, "0")
      BY <1>5, <1>15, <2>1
    <3>2. w \in Int
      BY <1>7
    <3>3. /\ z \in Seq(Char) /\ Len(z) = (IF w > Len(t) THEN w ELSE Len(t)) /\ z = t \o Times("0", w - Len(t))
      BY <1>c, <1>7, <3>1, <3>2, FillToIs
    <3> QED BY <1>1, <1>3, <3>3
  <2> DEFINE m == width - Len(s) - n
  <2>3. m \in Int
    BY <1>1, <1>7
  <2>4. u = t \o Times("0", m)
    <3>1. CASE width < n
      <4>1. width - n \in Int /\ width - n <= 0 /\ m <= 0
        BY <1>1, <1>7, <3>1
      <4>2. Times("0", width - n) = <<>> /\ Times("0", m) = <<>>
        BY <2>3, <4>1, NoTimes
      <4>3. z = t /\ t \o Times("0", m) = t
        BY <2>2, <4>2, NoText
      <4>4. cut = 0
        BY <1>1, <1>3, <1>cut, <2>1, <4>3
      <4> QED BY <1>u, <4>3, <4>4
    <3>2. CASE width > n
      <4>1. Len(z) = width /\ width > 1
        BY <1>1, <2>2, <3>2
      <4>2. cut = IF base = 16 THEN 2 ELSE 1
        BY <1>1, <1>3, <1>cut, <2>1, <4>1
      <4>3. width - n \in Nat /\ cut \in Nat /\ cut <= width - n
        BY <1>1, <1>15, <3>2, <4>2
      <4>4. SubSeq(t \o Times("0", width - n), 1, Len(t) + (width - n) - cut) = t \o Times("0", (width - n) - cut)
        BY <4>3, FilledPrefix
      <4>5. Len(t) + (width - n) - cut = Len(z) - cut
        BY <1>1, <4>1, <4>3
      <4>6. u = t \o Times("0", (width - n) - cut)
        BY <2>2, <4>4, <4>5 DEF u
      <4>7. Times("0", (width - n) - cut) = Times("0", m)
        <5>1. CASE base # 2
          <6>1. (width - n) - cut = m
            BY <1>1, <1>2, <4>2, <5>1
          <6> QED BY <6>1
        <5>2. CASE base = 2
          <6>1. (width - n) - cut = 0 /\ m <= 0
            BY <1>1, <1>2, <1>15, <3>2, <4>2, <5>2
          <6>2. Times("0", (width - n) - cut) = <<>> /\ Times("0", m) = <<>>
            BY <2>3, <6>1, NoTimes
          <6> QED BY <6>2
        <5> QED BY <5>1, <5>2
      <4> QED BY <4>6, <4>7
    <3> QED BY <1>1, <2>1, <3>1, <3>2
  <2>5. Times("0", m) \in Seq(Char) /\ Len(Times("0", m)) = IF m > 0 THEN m ELSE 0
    BY <1>c, <2>3, TimesIs
  <2>6. Len(u) = n + (IF m > 0 THEN m ELSE 0) /\ u \in Seq(Char) /\ Reverse(u) = Times("0", m) \o r
    <3>1. Len(t \o Times("0", m)) = Len(t) + Len(Times("0", m)) /\ t \o Times("0", m) \in Seq(Char)
      BY <2>5, ConcatType
    <3>2. Reverse(t \o Times("0", m)) = Times("0", m) \o r
      BY <1>c, <1>1, <2>3, <2>5, ConcatReversed, TimesReversed
    <3> HIDE DEF m
    <3> QED BY <1>1, <2>4, <2>5, <3>1, <3>2
  <2>7. Len(u) + Len(s) <= BufferSize
    <3>1. m > 0 => Len(u) + Len(s) = width
      BY <1>1, <1>7, <2>6
    <3>2. ~ m > 0 => Len(u) + Len(s) = n + Len(s)
      BY <1>1, <2>6
    <3> HIDE DEF m
    <3> QED BY <1>1, <1>6, <1>7, <2>1, <3>1, <3>2
  <2>8. b \in Seq(Char) /\ Reverse(b) = s \o (Times("0", m) \o r)
    BY <1>12, <2>6, <2>7
  <2>9. OutRev(b, w, fl) = Reverse(b)
    <3>1. w \in Int
      BY <1>7
    <3> QED BY <1>15, <2>8, <3>1, OutRevIs
  <2>10. out = (s \o Times("0", m)) \o r
    <3>1. out = s \o (Times("0", m) \o r)
      BY <1>4, <2>8, <2>9
    <3>2. s \in Seq(Char) /\ r \in Seq(Char)
      BY <1>1, <1>2
    <3> HIDE DEF m
    <3> QED BY <2>5, <3>1, <3>2, TextAssociative
  <2>11. Len(r) = n
    BY <1>1
  <2> QED BY <1>10, <1>15, <2>10, <2>11 DEF out
<1>16. CASE "LEFT" \notin fl /\ "ZEROPAD" \notin fl
  <2>1. z = f
    BY <1>5, <1>16
  <2>2. cut = 0
    BY <1>1, <1>3, <1>9, <1>cut, <2>1
  <2>3. u = f
    BY <1>9, <1>u, <2>1, <2>2
  <2>4. b \in Seq(Char) /\ Len(b) = Len(zr) + Len(s) /\ Reverse(b) = s \o zr
    <3>1. u \in Seq(Char) /\ Len(u) + Len(s) <= BufferSize
      BY <1>1, <1>6, <1>7, <1>9, <2>3
    <3> QED BY <1>9, <1>11, <1>12, <2>3, <3>1
  <2>5. OutRev(b, w, fl) = Times(" ", w - Len(b)) \o Reverse(b)
    <3>1. w \in Int
      BY <1>7
    <3> QED BY <1>16, <2>4, <3>1, OutRevIs
  <2>6. w - Len(b) = width - Len(s) - Len(zr)
    BY <1>1, <1>3, <1>7, <1>11, <2>4
  <2>7. out = pad \o (s \o zr)
    BY <1>4, <2>4, <2>5, <2>6 DEF pad
  <2>8. out = (pad \o s) \o zr
    BY <1>2, <1>11, <1>13, <2>7, TextAssociative
  <2> QED BY <1>10, <1>16, <2>8 DEF out, pad
<1> QED BY <1>14, <1>15, <1>16


-----------------------------------------------------------------------------
(* What the standard asks of an item, in the same layout.                    *)

Conversions == {"d", "u", "x", "X", "o", "b"}

LEMMA FlagsAre ==
  ASSUME NEW item, IsItem(item), item.conv \in Conversions
  PROVE  /\ "UPPERCASE" \in Flags(item) <=> item.conv = "X"
         /\ "PRECISION" \in Flags(item) <=> HasPrecision(item)
         /\ "LEFT" \in Flags(item) <=> "LEFT" \in item.flags \/ item.width < 0
         /\ "ZEROPAD" \in Flags(item) <=> "ZEROPAD" \in item.flags /\ ~ HasPrecision(item)
         /\ "HASH" \in Flags(item) <=> "HASH" \in item.flags /\ Radix(item) # 10
         /\ "PLUS" \in Flags(item) <=> "PLUS" \in item.flags /\ IsSigned(item)
         /\ "SPACE" \in Flags(item) <=> "SPACE" \in item.flags /\ IsSigned(item)
<1>1. "UPPERCASE" \notin item.flags
  BY DEF IsItem, AllFlags, Conversions
<1> QED BY <1>1 DEF Flags, LeftOfWidth, HasPrecision

LEMMA RadixIs ==
  ASSUME NEW item, item.conv \in Conversions
  PROVE  /\ Radix(item) = 10 <=> item.conv \in {"d", "u"}
         /\ Radix(item) = 8 <=> item.conv = "o"
         /\ Radix(item) = 2 <=> item.conv = "b"
         /\ Radix(item) = 16 <=> item.conv \in {"x", "X"}
         /\ Radix(item) \in Bases
         /\ IsSigned(item) <=> item.conv = "d"
BY DEF Radix, Conversions, Bases, IsSigned

\* The value has a sign unless it is a char.
LEMMA ValueIs ==
  ASSUME NEW item, IsItem(item), item.conv \in Conversions,
         ~ (IsSigned(item) /\ item.len = "char" /\ CValue(item) < 0)
  PROVE  /\ Value(item) = CValue(item)
         /\ CValue(item) \in Int /\ Magnitude(CValue(item)) \in Unsigned
         /\ ~ IsSigned(item) => CValue(item) >= 0
         /\ Magnitude(CValue(item)) = 0 <=> CValue(item) = 0
<1> DEFINE n == SizeOf[item.len]
           v == Wrapped(item.arg, item.len)
           a == AsSigned(item.arg, item.len)
<1>1. /\ n \in Nat \ {0, 1} /\ v \in 0 .. n - 1 /\ v \in Unsigned /\ Magnitude(v) = v
      /\ a \in Int /\ Magnitude(a) \in Unsigned
  BY FieldTypes DEF Conversions
<1>2. a = IF v >= n \div 2 THEN v - n ELSE v
  BY DEF AsSigned
<1>3. CValue(item) = IF IsSigned(item) THEN a ELSE v
  BY DEF CValue
<1>4. Value(item) = IF IsSigned(item) /\ item.len # "char" THEN a ELSE v
  BY DEF Value
<1> HIDE DEF n, v, a
<1>5. a # v => a < 0
  BY <1>1, <1>2
<1>6. Value(item) = CValue(item)
  BY <1>3, <1>4, <1>5
<1>7. CValue(item) \in Int /\ Magnitude(CValue(item)) \in Unsigned /\ (~ IsSigned(item) => CValue(item) >= 0)
  BY <1>1, <1>3
<1>8. Magnitude(CValue(item)) = 0 <=> CValue(item) = 0
  BY <1>7 DEF Magnitude
<1> QED BY <1>6, <1>7, <1>8

LEMMA ZeroDigit ==
  ASSUME NEW base \in Bases, NEW upper \in BOOLEAN
  PROVE  DigitsOf(0, base, upper) = <<"0">> /\ Count(0, base) = 1
<1> DEFINE n == Count(0, base)
           chars == IF upper THEN UpperChars ELSE DigitChars
<1>1. /\ 0 \in Unsigned
      /\ n \in Nat \ {0} /\ base ^ 0 = 1 /\ \A m \in 0 .. n : base ^ m \in Nat \ {0}
      /\ \A m \in 1 .. n - 1 : 0 >= base ^ m
  <2>1. 0 \in Unsigned
    BY SizeType DEF Unsigned
  <2> QED BY <2>1, CountIs, SizeType
<1>2. chars[1] = "0"
  BY DEF UpperChars, DigitChars
<1>3. DigitsOf(0, base, upper) = [j \in 1 .. n |-> chars[((0 \div base ^ (j - 1)) % base) + 1]]
  BY DEF DigitsOf
<1> HIDE DEF n, chars
<1>4. n = 1
  <2> SUFFICES ASSUME n # 1 PROVE FALSE
    OBVIOUS
  <2>1. 1 \in 1 .. n - 1 /\ 1 \in 0 .. n
    BY <1>1
  <2> QED BY <1>1, <2>1
<1>5. \A j \in 1 .. 1 : j - 1 = 0
  OBVIOUS
<1>6. 0 \div base ^ 0 = 0 /\ (0 % base) + 1 = 1
  <2>1. 0 \div 1 = 0
    OBVIOUS
  <2>2. (0 % base) + 1 = 1
    BY DEF Bases
  <2> QED BY <1>1, <2>1, <2>2
<1>7. \A j \in 1 .. 1 : chars[((0 \div base ^ (j - 1)) % base) + 1] = "0"
  BY <1>2, <1>5, <1>6
<1>8. [j \in 1 .. 1 |-> chars[((0 \div base ^ (j - 1)) % base) + 1]] = [j \in 1 .. 1 |-> "0"]
  BY <1>7
<1>9. [j \in 1 .. 1 |-> "0"] = <<"0">>
  OBVIOUS
<1> QED BY <1>3, <1>4, <1>8, <1>9 DEF n

\* The highest digit is not a zero.
LEMMA TopDigit ==
  ASSUME NEW v \in Unsigned, v # 0
  PROVE  DigitsOf(v, 8, FALSE)[Count(v, 8)] # "0"
<1> DEFINE n == Count(v, 8)
           p == 8 ^ (n - 1)
           q == v \div p
<1>0. 8 \in Bases /\ v \in Nat
  BY SizeType DEF Bases
<1>1. /\ n \in Nat \ {0} /\ 8 ^ 0 = 1 /\ \A m \in 0 .. n : 8 ^ m \in Nat \ {0}
      /\ \A m \in 0 .. n - 1 : 8 ^ (m + 1) = 8 * 8 ^ m
      /\ v < 8 ^ n
      /\ \A m \in 1 .. n - 1 : v >= 8 ^ m
  BY <1>0, CountIs, SizeType
<1>2. DigitsOf(v, 8, FALSE)[n] = DigitChars[(q % 8) + 1]
  <2>1. n \in 1 .. n
    BY <1>1
  <2> QED BY <2>1 DEF DigitsOf
<1> HIDE DEF n
<1>3. p \in Nat \ {0} /\ v < 8 * p /\ v >= p
  <2>1. n - 1 \in 0 .. n /\ n - 1 \in 0 .. n - 1 /\ (n - 1) + 1 = n
    BY <1>1
  <2>2. p \in Nat \ {0} /\ 8 ^ n = 8 * p
    BY <1>1, <2>1
  <2>3. v >= p
    <3>1. CASE n = 1
      <4>1. p = 1
        BY <1>1, <3>1
      <4> QED BY <1>0, <4>1
    <3>2. CASE n # 1
      <4>1. n - 1 \in 1 .. n - 1
        BY <1>1, <3>2
      <4> QED BY <1>1, <4>1
    <3> QED BY <3>1, <3>2
  <2> HIDE DEF p
  <2> QED BY <1>1, <2>2, <2>3
<1> HIDE DEF p
<1>4. q \in 1 .. 7
  <2>1. q \in Nat /\ v = p * q + (v % p) /\ v % p \in 0 .. p - 1
    BY <1>0, <1>3
  <2> HIDE DEF q
  <2>2. q # 0
    <3> SUFFICES ASSUME q = 0 PROVE FALSE
      OBVIOUS
    <3>1. p * q = 0
      BY <1>3
    <3> QED BY <1>0, <1>3, <2>1, <3>1
  <2>3. ~ q >= 8
    <3> SUFFICES ASSUME q >= 8 PROVE FALSE
      OBVIOUS
    <3>1. p * q >= p * 8
      <4>1. \A a, b, c \in Nat : b <= c => a * b <= a * c
        OBVIOUS
      <4> QED BY <1>3, <2>1, <4>1
    <3> QED BY <1>0, <1>3, <2>1, <3>1
  <2> QED BY <2>1, <2>2, <2>3
<1> HIDE DEF q
<1>5. (q % 8) + 1 = q + 1
  BY <1>4
<1>6. \A d \in 1 .. 7 : DigitChars[d + 1] # "0"
  BY DEF DigitChars
<1> QED BY <1>2, <1>4, <1>5, <1>6 DEF n


LEMMA TimesSplit ==
  ASSUME NEW c \in Char, NEW n \in Nat
  PROVE  /\ Times(c, n) \o <<c>> = Times(c, n + 1)
         /\ <<c>> \o Times(c, n) = Times(c, n + 1)
<1> DEFINE u == Times(c, n)
           o == <<c>>
           v == Times(c, n + 1)
<1>1. u \in Seq(Char) /\ Len(u) = n /\ \A j \in 1 .. n : u[j] = c
  <2>1. n \in Int /\ (n > 0 \/ n = 0)
    OBVIOUS
  <2>2. u \in Seq(Char) /\ Len(u) = (IF n > 0 THEN n ELSE 0) /\ \A j \in 1 .. n : u[j] = c
    BY <2>1, TimesIs
  <2> HIDE DEF u
  <2> QED BY <2>1, <2>2
<1>2. v \in Seq(Char) /\ Len(v) = n + 1 /\ \A j \in 1 .. n + 1 : v[j] = c
  <2>1. n + 1 \in Int /\ n + 1 > 0
    OBVIOUS
  <2>2. v \in Seq(Char) /\ Len(v) = (IF n + 1 > 0 THEN n + 1 ELSE 0) /\ \A j \in 1 .. n + 1 : v[j] = c
    BY <2>1, TimesIs
  <2> HIDE DEF v
  <2> QED BY <2>1, <2>2
<1>3. o \in Seq(Char) /\ Len(o) = 1 /\ o[1] = c
  OBVIOUS
<1> HIDE DEF u, v, o
<1>4. u \o o = v
  <2>1. u \o o \in Seq(Char) /\ Len(u \o o) = Len(u) + Len(o)
    BY <1>1, <1>3, ConcatType
  <2>2. \A j \in 1 .. Len(u) + Len(o) : (u \o o)[j] = IF j <= Len(u) THEN u[j] ELSE o[j - Len(u)]
    BY <1>1, <1>3, ConcatAt
  <2>3. \A j \in 1 .. n + 1 : (j <= n => j \in 1 .. n) /\ (~ j <= n => j - n = 1)
    OBVIOUS
  <2>4. \A j \in 1 .. n + 1 : (u \o o)[j] = v[j]
    BY <1>1, <1>2, <1>3, <2>2, <2>3
  <2> QED BY <1>1, <1>2, <1>3, <2>1, <2>4, SameTexts
<1>5. o \o u = v
  <2>1. o \o u \in Seq(Char) /\ Len(o \o u) = Len(o) + Len(u)
    BY <1>1, <1>3, ConcatType
  <2>2. \A j \in 1 .. Len(o) + Len(u) : (o \o u)[j] = IF j <= Len(o) THEN o[j] ELSE u[j - Len(o)]
    BY <1>1, <1>3, ConcatAt
  <2>3. \A j \in 1 .. n + 1 : (j <= 1 => j = 1) /\ (~ j <= 1 => j - 1 \in 1 .. n)
    OBVIOUS
  <2>4. 1 + n = n + 1
    OBVIOUS
  <2>5. \A j \in 1 .. n + 1 : (o \o u)[j] = v[j]
    BY <1>1, <1>2, <1>3, <2>2, <2>3, <2>4
  <2> QED BY <1>1, <1>2, <1>3, <2>1, <2>4, <2>5, SameTexts
<1> QED BY <1>4, <1>5 DEF u, v, o

\* The digits of an item, and with the zeros of its precision.
DigitsOfItem(item) ==
  IF HasPrecision(item) /\ CValue(item) = 0 THEN <<>>
  ELSE DigitsOf(Magnitude(CValue(item)), Radix(item), item.conv = "X")
Filled(item) == Times("0", Precision(item) - Len(DigitsOfItem(item))) \o Reverse(DigitsOfItem(item))

LEMMA DigitsOfItemType ==
  ASSUME NEW item, IsItem(item), item.conv \in Conversions,
         ~ (IsSigned(item) /\ item.len = "char" /\ CValue(item) < 0)
  PROVE  /\ DigitsOfItem(item) \in Seq(Char)
         /\ Len(DigitsOfItem(item)) =
              IF HasPrecision(item) /\ Magnitude(CValue(item)) = 0 THEN 0
              ELSE Count(Magnitude(CValue(item)), Radix(item))
         /\ Filled(item) \in Seq(Char)
         /\ Len(Filled(item)) =
              IF Precision(item) > Len(DigitsOfItem(item)) THEN Precision(item) ELSE Len(DigitsOfItem(item))
<1> DEFINE t == DigitsOfItem(item)
           r == Reverse(t)
           p == Precision(item)
           z == Times("0", p - Len(t))
<1>1. Magnitude(CValue(item)) \in Unsigned /\ (Magnitude(CValue(item)) = 0 <=> CValue(item) = 0)
  BY ValueIs
<1>2. /\ DigitsOf(Magnitude(CValue(item)), Radix(item), item.conv = "X") \in Seq(Char)
      /\ Len(DigitsOf(Magnitude(CValue(item)), Radix(item), item.conv = "X"))
           = Count(Magnitude(CValue(item)), Radix(item))
  <2>1. Radix(item) \in Bases /\ (item.conv = "X") \in BOOLEAN
    BY RadixIs
  <2> QED BY <1>1, <2>1, DigitsType DEF Text
<1>3. /\ t \in Seq(Char)
      /\ Len(t) = IF HasPrecision(item) /\ Magnitude(CValue(item)) = 0 THEN 0
                  ELSE Count(Magnitude(CValue(item)), Radix(item))
  <2>1. t = IF HasPrecision(item) /\ CValue(item) = 0 THEN <<>>
            ELSE DigitsOf(Magnitude(CValue(item)), Radix(item), item.conv = "X")
    BY DEF DigitsOfItem
  <2> HIDE DEF t
  <2> QED BY <1>1, <1>2, <2>1, NoText
<1>4. p \in Nat
  BY FieldTypes DEF Conversions
<1> HIDE DEF t, p
<1>5. r \in Seq(Char) /\ Len(r) = Len(t)
  BY <1>3, ReverseType
<1>6. Len(t) \in Nat /\ p - Len(t) \in Int
  BY <1>3, <1>4
<1>7. z \in Seq(Char) /\ Len(z) = IF p - Len(t) > 0 THEN p - Len(t) ELSE 0
  BY <1>6, CharTypes, TimesIs
<1> HIDE DEF r, z
<1>8. z \o r \in Seq(Char) /\ Len(z \o r) = Len(z) + Len(r)
  BY <1>5, <1>7, ConcatType
<1>9. Filled(item) = z \o r
  BY DEF Filled, z, r, t, p
<1>10. Len(z) + Len(r) = IF p > Len(t) THEN p ELSE Len(t)
  BY <1>4, <1>5, <1>6, <1>7
<1> QED BY <1>3, <1>8, <1>9, <1>10 DEF t, p

\* What CDigits begins with.
CFull(item) ==
  LET v == Magnitude(CValue(item))
      p == CHasPrecision(item)
      digits == IF p /\ item.prec = 0 /\ v = 0 THEN <<>> ELSE Reverse(DigitsOf(v, Radix(item), item.conv = "X"))
  IN (IF p THEN Times("0", item.prec - Len(digits)) ELSE <<>>) \o digits

LEMMA CDigitsFull ==
  ASSUME NEW item
  PROVE  CDigits(item) =
           IF item.conv = "o" /\ "HASH" \in item.flags /\ (CFull(item) = <<>> \/ CFull(item)[1] # "0")
           THEN <<"0">> \o CFull(item) ELSE CFull(item)
BY DEF CDigits, CFull

\* The number of digits, as Differs has it.
Length(item) ==
  IF HasPrecision(item) /\ Magnitude(CValue(item)) = 0 THEN 0 ELSE Count(Magnitude(CValue(item)), Radix(item))
Zeros(item) == "ZEROPAD" \in item.flags /\ "LEFT" \notin Flags(item)

LEMMA SameIs ==
  ASSUME NEW item, item.conv \in Conversions, ~ Differs(item)
  PROVE  /\ ~ PrefixDiffers(item, Length(item), Zeros(item))
         /\ ~ PrecisionDiffers(item, Length(item), Zeros(item))
         /\ ~ (IsSigned(item) /\ item.len = "char" /\ CValue(item) < 0)
         /\ ~ Len(CInteger(item)) > BufferSize
<1>1. item.conv \notin {"plain", "c", "p"} /\ item.conv # "s"
  BY DEF Conversions
<1> QED BY <1>1 DEF Differs, Length, Zeros

LEMMA CFullIs ==
  ASSUME NEW item, IsItem(item), item.conv \in Conversions, ~ Differs(item)
  PROVE  CFull(item) = Filled(item)
<1> DEFINE v == Magnitude(CValue(item))
           D == DigitsOf(v, Radix(item), item.conv = "X")
           t == DigitsOfItem(item)
           digits == IF CHasPrecision(item) /\ item.prec = 0 /\ v = 0 THEN <<>> ELSE Reverse(D)
<1>1. ~ (IsSigned(item) /\ item.len = "char" /\ CValue(item) < 0) /\ ~ PrecisionDiffers(item, Length(item), Zeros(item))
  BY SameIs
<1>2. v \in Unsigned /\ (v = 0 <=> CValue(item) = 0) /\ Radix(item) \in Bases /\ item.prec \in Int
  <2>1. item.prec \in Int
    BY DEF IsItem, Conversions
  <2> QED BY <1>1, <2>1, ValueIs, RadixIs
<1>3. D \in Seq(Char) /\ Reverse(D) \in Seq(Char) /\ Len(Reverse(D)) = Len(D) /\ Len(D) \in Nat
  <2>1. (item.conv = "X") \in BOOLEAN
    OBVIOUS
  <2>2. D \in Seq(Char)
    BY <1>2, <2>1, DigitsType DEF Text
  <2> HIDE DEF D
  <2> QED BY <2>2, ReverseType
<1>4. t = IF HasPrecision(item) /\ v = 0 THEN <<>> ELSE D
  BY <1>2 DEF DigitsOfItem
<1>5. CFull(item) = (IF CHasPrecision(item) THEN Times("0", item.prec - Len(digits)) ELSE <<>>) \o digits
  BY DEF CFull
<1>6. Filled(item) = Times("0", Precision(item) - Len(t)) \o Reverse(t)
  BY DEF Filled
<1>7. Precision(item) = IF item.prec > 0 THEN item.prec ELSE 0
  BY DEF Precision
<1>8. CHasPrecision(item) <=> HasPrecision(item) /\ item.prec >= 0
  BY DEF CHasPrecision
<1>d. digits = IF CHasPrecision(item) /\ item.prec = 0 /\ v = 0 THEN <<>> ELSE Reverse(D)
  OBVIOUS
<1>9. HasPrecision(item) /\ v = 0 => item.prec >= 0
  BY <1>1, <1>2 DEF PrecisionDiffers, Length
<1>10. v = 0 => D = <<"0">>
  <2>1. (item.conv = "X") \in BOOLEAN
    OBVIOUS
  <2> QED BY <1>2, <2>1, ZeroDigit
<1>11. "0" \in Char /\ Reverse(<<"0">>) = <<"0">> /\ Len(<<"0">>) = 1
  BY CharTypes, CharReversed, CharSeq
<1>12. Reverse(<<>>) = <<>> /\ Len(<<>>) = 0
  BY DEF Reverse
<1>p. ~ HasPrecision(item) => item.prec = 0
  BY DEF IsItem, Conversions, HasPrecision
<1> HIDE DEF v, D, t, digits
<1>13. CASE ~ HasPrecision(item)
  <2>1. CFull(item) = <<>> \o Reverse(D) /\ t = D
    BY <1>4, <1>5, <1>8, <1>d, <1>13
  <2>2. Precision(item) - Len(t) \in Int /\ Precision(item) - Len(t) <= 0
    BY <1>3, <1>7, <1>p, <1>13, <2>1
  <2>3. Times("0", Precision(item) - Len(t)) = <<>>
    BY <2>2, NoTimes
  <2> QED BY <1>6, <2>1, <2>3
<1>14. CASE HasPrecision(item) /\ v # 0
  <2>1. t = D /\ digits = Reverse(D) /\ Len(digits) = Len(t)
    BY <1>3, <1>4, <1>d, <1>14
  <2>2. CASE item.prec >= 0
    <3>1. Precision(item) = item.prec
      BY <1>2, <1>7, <2>2
    <3>2. CFull(item) = Times("0", item.prec - Len(digits)) \o digits
      BY <1>5, <1>8, <1>14, <2>2
    <3> QED BY <1>6, <2>1, <3>1, <3>2
  <2>3. CASE item.prec < 0
    <3>0. ~ CHasPrecision(item)
      BY <1>2, <1>8, <2>3
    <3>1. CFull(item) = <<>> \o Reverse(D)
      BY <1>5, <2>1, <3>0
    <3>2. Precision(item) - Len(t) \in Int /\ Precision(item) - Len(t) <= 0
      BY <1>2, <1>3, <1>7, <2>1, <2>3
    <3>3. Times("0", Precision(item) - Len(t)) = <<>>
      BY <3>2, NoTimes
    <3> QED BY <1>6, <2>1, <3>1, <3>3
  <2> QED BY <1>2, <2>2, <2>3
<1>15. CASE HasPrecision(item) /\ v = 0
  <2>1. t = <<>> /\ item.prec >= 0 /\ Precision(item) = item.prec /\ CHasPrecision(item)
    BY <1>2, <1>4, <1>7, <1>8, <1>9, <1>15
  <2>2. Times("0", item.prec) \in Seq(Char) /\ item.prec - 0 = item.prec
    BY <1>2, <1>11, TimesIs
  <2>3. Filled(item) = Times("0", item.prec)
    BY <1>6, <1>12, <2>1, <2>2, NoText
  <2>4. CASE item.prec = 0
    <3>1. digits = <<>>
      BY <1>15, <1>d, <2>1, <2>4
    <3>2. CFull(item) = Times("0", item.prec) \o <<>>
      BY <1>5, <1>12, <2>1, <2>2, <3>1
    <3> QED BY <2>2, <2>3, <3>2, NoText
  <2>5. CASE item.prec # 0
    <3>1. digits = <<"0">> /\ Len(digits) = 1
      BY <1>10, <1>11, <1>15, <1>d, <2>1, <2>5
    <3>2. CFull(item) = Times("0", item.prec - 1) \o <<"0">>
      BY <1>5, <2>1, <3>1
    <3>3. item.prec - 1 \in Nat /\ (item.prec - 1) + 1 = item.prec
      BY <1>2, <2>1, <2>5
    <3>4. Times("0", item.prec - 1) \o <<"0">> = Times("0", (item.prec - 1) + 1)
      BY <1>11, <3>3, TimesSplit
    <3> QED BY <2>3, <3>2, <3>3, <3>4
  <2> QED BY <2>4, <2>5
<1> QED BY <1>13, <1>14, <1>15


LEMMA ZeroSwaps ==
  ASSUME NEW n \in Int
  PROVE  Times("0", n) \o <<"0">> = <<"0">> \o Times("0", n)
<1>1. "0" \in Char /\ <<"0">> \in Seq(Char)
  BY CharTypes, CharSeq
<1>2. CASE n <= 0
  <2>1. Times("0", n) = <<>>
    BY <1>2, NoTimes
  <2> QED BY <1>1, <2>1, NoText
<1>3. CASE n > 0
  <2>1. n \in Nat
    BY <1>3
  <2> QED BY <1>1, <2>1, TimesSplit
<1> QED BY <1>2, <1>3

LEMMA LayoutLength ==
  ASSUME NEW s \in Seq(Char), NEW z \in Int, NEW r \in Seq(Char), NEW width \in Int, NEW fl,
         "LEFT" \notin fl /\ "ZEROPAD" \in fl => z <= 0
  PROVE  /\ Len(Layout(s, z, r, width, fl)) >= width
         /\ Len(Layout(s, z, r, width, fl)) >= Len(s) + Len(Times("0", z) \o r)
<1> DEFINE zr == Times("0", z) \o r
           m == width - Len(s) - Len(zr)
           c == width - Len(s) - Len(r)
           pad == Times(" ", m)
           zeros == Times("0", c)
           out == Layout(s, z, r, width, fl)
<1>z. "0" \in Char
  BY CharTypes
<1>b. " " \in Char
  BY CharTypes
<1>1. zr \in Seq(Char)
  BY <1>z, TimesIs, ConcatType
<1>2. z <= 0 => zr = r
  BY NoTimes, NoText
<1>3. out = IF "LEFT" \in fl THEN (s \o zr) \o pad
            ELSE IF "ZEROPAD" \in fl THEN (s \o zeros) \o r
            ELSE (pad \o s) \o zr
  BY DEF Layout
<1> HIDE DEF zr, out
<1>4. m \in Int /\ c \in Int /\ Len(s) \in Nat /\ Len(zr) \in Nat /\ Len(r) \in Nat
  BY <1>1
<1>5. pad \in Seq(Char) /\ Len(pad) = IF m > 0 THEN m ELSE 0
  BY <1>b, <1>4, TimesIs
<1>6. zeros \in Seq(Char) /\ Len(zeros) = IF c > 0 THEN c ELSE 0
  BY <1>z, <1>4, TimesIs
<1> HIDE DEF pad, zeros
<1>7. CASE "LEFT" \in fl
  <2>1. s \o zr \in Seq(Char) /\ Len(s \o zr) = Len(s) + Len(zr)
    BY <1>1, ConcatType
  <2>2. Len((s \o zr) \o pad) = Len(s \o zr) + Len(pad)
    BY <1>5, <2>1, ConcatType
  <2>3. Len(out) = Len(s) + Len(zr) + Len(pad)
    BY <1>3, <1>7, <2>1, <2>2
  <2>4. Len(out) >= width /\ Len(out) >= Len(s) + Len(zr)
    <3>1. Len(pad) \in Nat /\ Len(pad) >= width - Len(s) - Len(zr)
      BY <1>4, <1>5
    <3> QED BY <1>4, <2>3, <3>1
  <2> QED BY <2>4 DEF out, zr
<1>8. CASE "LEFT" \notin fl /\ "ZEROPAD" \in fl
  <2>1. s \o zeros \in Seq(Char) /\ Len(s \o zeros) = Len(s) + Len(zeros)
    BY <1>6, ConcatType
  <2>2. Len((s \o zeros) \o r) = Len(s \o zeros) + Len(r)
    BY <2>1, ConcatType
  <2>3. Len(out) = Len(s) + Len(zeros) + Len(r) /\ zr = r
    BY <1>2, <1>3, <1>8, <2>1, <2>2
  <2>4. Len(out) >= width /\ Len(out) >= Len(s) + Len(zr)
    <3>1. Len(zeros) \in Nat /\ Len(zeros) >= width - Len(s) - Len(r)
      BY <1>4, <1>6
    <3> QED BY <1>4, <2>3, <3>1
  <2> QED BY <2>4 DEF out, zr
<1>9. CASE "LEFT" \notin fl /\ "ZEROPAD" \notin fl
  <2>1. pad \o s \in Seq(Char) /\ Len(pad \o s) = Len(pad) + Len(s)
    BY <1>5, ConcatType
  <2>2. Len((pad \o s) \o zr) = Len(pad \o s) + Len(zr)
    BY <1>1, <2>1, ConcatType
  <2>3. Len(out) = Len(pad) + Len(s) + Len(zr)
    BY <1>3, <1>9, <2>1, <2>2
  <2>4. Len(out) >= width /\ Len(out) >= Len(s) + Len(zr)
    <3>1. Len(pad) \in Nat /\ Len(pad) >= width - Len(s) - Len(zr)
      BY <1>4, <1>5
    <3> QED BY <1>4, <2>3, <3>1
  <2> QED BY <2>4 DEF out, zr
<1> QED BY <1>7, <1>8, <1>9

\* The sign or the prefix; of an alternative octal number its zero.
PrefixSign(item) ==
  IF "HASH" \in Flags(item) /\ CValue(item) # 0 THEN PrefixOf(Radix(item), Flags(item))
  ELSE SignOf(CValue(item) < 0, Flags(item))

LEMMA PrefixSignIs ==
  ASSUME NEW item, IsItem(item), item.conv \in Conversions, ~ Differs(item)
  PROVE  /\ PrefixSign(item) \in Seq(Char)
         /\ item.conv = "o" => PrefixSign(item) = IF "HASH" \in item.flags /\ CValue(item) # 0 THEN <<"0">> ELSE <<>>
         /\ CSign(item) = IF item.conv = "o" THEN <<>> ELSE PrefixSign(item)
<1> DEFINE base == Radix(item)
           fl == Flags(item)
           v == CValue(item)
<1>1. v \in Int /\ (~ IsSigned(item) => v >= 0)
  BY SameIs, ValueIs
<1>2. /\ base = 10 <=> item.conv \in {"d", "u"}
      /\ base = 8 <=> item.conv = "o"
      /\ base = 2 <=> item.conv = "b"
      /\ base = 16 <=> item.conv \in {"x", "X"}
      /\ base \in Bases
      /\ IsSigned(item) <=> item.conv = "d"
  BY RadixIs
<1>3. /\ "UPPERCASE" \in fl <=> item.conv = "X"
      /\ "HASH" \in fl <=> "HASH" \in item.flags /\ base # 10
      /\ "PLUS" \in fl <=> "PLUS" \in item.flags /\ IsSigned(item)
      /\ "SPACE" \in fl <=> "SPACE" \in item.flags /\ IsSigned(item)
  BY FlagsAre
<1>4. PrefixSign(item) = IF "HASH" \in fl /\ v # 0 THEN PrefixOf(base, fl) ELSE SignOf(v < 0, fl)
  BY DEF PrefixSign
<1>5. CSign(item) =
        IF v < 0 THEN <<"-">>
        ELSE IF IsSigned(item) /\ "PLUS" \in item.flags THEN <<"+">>
        ELSE IF IsSigned(item) /\ "SPACE" \in item.flags THEN <<" ">>
        ELSE IF item.conv \in {"x", "X", "b"} /\ "HASH" \in item.flags /\ v # 0 THEN <<"0", item.conv>>
        ELSE <<>>
  BY DEF CSign
<1> HIDE DEF base, fl, v
<1>6. SignOf(v < 0, fl) \in Seq(Char)
  <2>1. (v < 0) \in BOOLEAN
    OBVIOUS
  <2> QED BY <2>1, SignIs
<1>7. SignOf(v < 0, fl) = IF v < 0 THEN <<"-">> ELSE IF "PLUS" \in fl THEN <<"+">> ELSE IF "SPACE" \in fl THEN <<" ">> ELSE <<>>
  BY DEF SignOf
<1>8. CASE "HASH" \in fl /\ v # 0
  <2>1. base \in {2, 8, 16} /\ ~ IsSigned(item) /\ v >= 0 /\ ~ v < 0 /\ "HASH" \in item.flags
    BY <1>1, <1>2, <1>3, <1>8 DEF Bases
  <2>2. PrefixSign(item) = PrefixOf(base, fl) /\ PrefixOf(base, fl) \in Seq(Char)
    BY <1>4, <1>8, <2>1, PrefixIs
  <2>3. PrefixOf(base, fl) = IF base = 8 THEN <<"0">> ELSE <<"0", Letter(base, fl)>>
    BY DEF PrefixOf
  <2>4. item.conv # "o" => Letter(base, fl) = item.conv /\ item.conv \in {"x", "X", "b"}
    BY <1>2, <1>3, <2>1 DEF Letter, Conversions
  <2>5. CSign(item) = IF item.conv = "o" THEN <<>> ELSE PrefixSign(item)
    <3>1. CASE item.conv = "o"
      <4>1. CSign(item) = <<>>
        BY <1>5, <2>1, <3>1
      <4> QED BY <3>1, <4>1
    <3>2. CASE item.conv # "o"
      <4>1. CSign(item) = <<"0", item.conv>>
        BY <1>5, <1>8, <2>1, <2>4, <3>2
      <4>2. PrefixSign(item) = <<"0", item.conv>>
        BY <1>2, <2>2, <2>3, <2>4, <3>2
      <4> QED BY <3>2, <4>1, <4>2
    <3> QED BY <3>1, <3>2
  <2>6. item.conv = "o" => PrefixSign(item) = <<"0">>
    BY <1>2, <2>2, <2>3
  <2> QED BY <1>8, <2>1, <2>2, <2>5, <2>6 DEF v
<1>9. CASE ~ ("HASH" \in fl /\ v # 0)
  <2>1. PrefixSign(item) = SignOf(v < 0, fl)
    BY <1>4, <1>9
  <2>2. ~ (item.conv \in {"x", "X", "b"} /\ "HASH" \in item.flags /\ v # 0)
    BY <1>2, <1>3, <1>9
  <2>3. CSign(item) = SignOf(v < 0, fl)
    <3>1. CASE v < 0
      BY <1>5, <1>7, <3>1
    <3>2. CASE ~ v < 0 /\ "PLUS" \in fl
      BY <1>3, <1>5, <1>7, <3>2
    <3>3. CASE ~ v < 0 /\ "PLUS" \notin fl /\ "SPACE" \in fl
      BY <1>3, <1>5, <1>7, <3>3
    <3>4. CASE ~ v < 0 /\ "PLUS" \notin fl /\ "SPACE" \notin fl
      <4>1. CSign(item) = <<>>
        BY <1>3, <1>5, <2>2, <3>4
      <4>2. SignOf(v < 0, fl) = <<>>
        BY <1>7, <3>4
      <4> QED BY <4>1, <4>2
    <3> QED BY <3>1, <3>2, <3>3, <3>4
  <2>4. item.conv = "o" => SignOf(v < 0, fl) = <<>> /\ ~ ("HASH" \in item.flags /\ v # 0)
    <3> SUFFICES ASSUME item.conv = "o" PROVE SignOf(v < 0, fl) = <<>> /\ ~ ("HASH" \in item.flags /\ v # 0)
      OBVIOUS
    <3>1. ~ IsSigned(item) /\ base = 8
      BY <1>2
    <3>2. ~ v < 0 /\ "PLUS" \notin fl /\ "SPACE" \notin fl
      BY <1>1, <1>3, <3>1
    <3>3. ~ ("HASH" \in item.flags /\ v # 0)
      BY <1>3, <1>9, <3>1
    <3>4. SignOf(v < 0, fl) = <<>>
      BY <1>7, <3>2
    <3> QED BY <3>3, <3>4
  <2> QED BY <1>6, <2>1, <2>3, <2>4 DEF v
<1> QED BY <1>8, <1>9

LEMMA CDigitsIs ==
  ASSUME NEW item, IsItem(item), item.conv \in Conversions, ~ Differs(item)
  PROVE  CDigits(item) = IF item.conv = "o" THEN PrefixSign(item) \o Filled(item) ELSE Filled(item)
<1> DEFINE F == Filled(item)
           t == DigitsOfItem(item)
           v == Magnitude(CValue(item))
           hash == item.conv = "o" /\ "HASH" \in item.flags
<1>1. CFull(item) = F
  BY CFullIs
<1>2. CDigits(item) = IF hash /\ (F = <<>> \/ F[1] # "0") THEN <<"0">> \o F ELSE F
  BY <1>1, CDigitsFull
<1>3. item.conv = "o" => PrefixSign(item) = IF "HASH" \in item.flags /\ CValue(item) # 0 THEN <<"0">> ELSE <<>>
  BY PrefixSignIs
<1>4. /\ ~ (IsSigned(item) /\ item.len = "char" /\ CValue(item) < 0)
      /\ ~ PrecisionDiffers(item, Length(item), Zeros(item))
  BY SameIs
<1>5. t \in Seq(Char) /\ Len(t) = Length(item) /\ F \in Seq(Char)
  BY <1>4, DigitsOfItemType DEF Length
<1>6. v \in Unsigned /\ (v = 0 <=> CValue(item) = 0) /\ item.prec \in Int
  <2>1. item.prec \in Int
    BY DEF IsItem, Conversions
  <2> QED BY <1>4, <2>1, ValueIs
<1>7. F = Times("0", Precision(item) - Len(t)) \o Reverse(t)
  BY DEF Filled
<1>8. t = IF HasPrecision(item) /\ v = 0 THEN <<>> ELSE DigitsOf(v, Radix(item), item.conv = "X")
  BY <1>6 DEF DigitsOfItem
<1>9. Precision(item) = IF item.prec > 0 THEN item.prec ELSE 0
  BY DEF Precision
<1>p. ~ HasPrecision(item) => item.prec = 0
  BY DEF IsItem, Conversions, HasPrecision
<1>o. item.conv = "o" => Radix(item) = 8 /\ (item.conv = "X") = FALSE
  BY DEF Radix
<1>n. Length(item) = IF HasPrecision(item) /\ v = 0 THEN 0 ELSE Count(v, Radix(item))
  BY DEF Length
<1>r. Reverse(t) \in Seq(Char) /\ Len(Reverse(t)) = Len(t) /\ \A j \in 1 .. Len(t) : Reverse(t)[j] = t[Len(t) - j + 1]
  BY <1>5, ReverseType
<1> HIDE DEF F, t, v
<1>10. CASE ~ hash
  <2>1. item.conv = "o" => PrefixSign(item) = <<>>
    BY <1>3, <1>10
  <2> QED BY <1>2, <1>5, <1>10, <2>1, NoText DEF F
<1>11. CASE hash /\ v # 0
  <2>1. Length(item) = Count(v, 8) /\ t = DigitsOf(v, 8, FALSE)
    BY <1>8, <1>11, <1>n, <1>o
  <2>2. Length(item) \in Nat \ {0}
    <3>1. 8 \in Bases
      BY DEF Bases
    <3> QED BY <1>6, <2>1, <3>1, CountIs, SizeType
  <2>3. HasPrecision(item) => ~ item.prec > Length(item)
    BY <1>4, <1>11, <2>2 DEF PrecisionDiffers
  <2>4. Precision(item) - Len(t) \in Int /\ Precision(item) - Len(t) <= 0
    BY <1>5, <1>6, <1>9, <1>p, <2>2, <2>3
  <2>5. F = Reverse(t)
    <3>1. Times("0", Precision(item) - Len(t)) = <<>>
      BY <2>4, NoTimes
    <3> QED BY <1>7, <1>r, <3>1, NoText
  <2>6. F[1] = t[Len(t)]
    <3>1. 1 \in 1 .. Len(t) /\ Len(t) - 1 + 1 = Len(t)
      BY <1>5, <2>2
    <3> QED BY <1>r, <2>5, <3>1
  <2>7. F[1] # "0"
    BY <1>5, <1>6, <1>11, <2>1, <2>6, TopDigit
  <2>8. CDigits(item) = <<"0">> \o F
    BY <1>2, <1>11, <2>7
  <2>9. PrefixSign(item) = <<"0">>
    BY <1>3, <1>6, <1>11
  <2> QED BY <1>11, <2>8, <2>9 DEF F
<1>12. CASE hash /\ v = 0
  <2>1. F # <<>> /\ F[1] = "0"
    <3>1. CASE HasPrecision(item)
      <4>1. item.prec > 0 /\ t = <<>> /\ Len(t) = 0
        BY <1>4, <1>5, <1>6, <1>8, <1>12, <1>n, <3>1 DEF PrecisionDiffers
      <4>2. Precision(item) - Len(t) = item.prec /\ "0" \in Char
        <5>1. "0" \in Char
          BY CharTypes
        <5>2. Precision(item) - Len(t) = item.prec
          BY <1>6, <1>9, <4>1
        <5> QED BY <5>1, <5>2
      <4>3. /\ Times("0", item.prec) \in Seq(Char) /\ Len(Times("0", item.prec)) = item.prec
            /\ \A j \in 1 .. item.prec : Times("0", item.prec)[j] = "0"
        BY <1>6, <4>1, <4>2, TimesIs
      <4>4. Reverse(t) = <<>>
        BY <4>1 DEF Reverse
      <4>5. F = Times("0", item.prec)
        BY <1>7, <4>2, <4>3, <4>4, NoText
      <4>6. 1 \in 1 .. item.prec /\ item.prec # 0
        BY <1>6, <4>1
      <4>7. F[1] = "0" /\ Len(F) # 0
        BY <4>3, <4>5, <4>6
      <4> QED BY <4>7, NoText
    <3>2. CASE ~ HasPrecision(item)
      <4>1. t = <<"0">>
        <5>1. 8 \in Bases /\ FALSE \in BOOLEAN
          BY DEF Bases
        <5>2. DigitsOf(0, 8, FALSE) = <<"0">>
          BY <5>1, ZeroDigit
        <5> QED BY <1>8, <1>12, <1>o, <3>2, <5>2
      <4>2. Precision(item) - Len(t) \in Int /\ Precision(item) - Len(t) <= 0
        BY <1>6, <1>9, <1>p, <3>2, <4>1
      <4>3. Reverse(t) = <<"0">>
        BY <4>1, CharTypes, CharReversed
      <4>4. Times("0", Precision(item) - Len(t)) = <<>>
        BY <4>2, NoTimes
      <4>5. F = <<"0">>
        BY <1>7, <1>r, <4>3, <4>4, NoText
      <4> QED BY <4>5
    <3> QED BY <3>1, <3>2
  <2>2. CDigits(item) = F
    BY <1>2, <2>1
  <2>3. PrefixSign(item) = <<>>
    BY <1>3, <1>6, <1>12
  <2> QED BY <1>5, <1>12, <2>2, <2>3, NoText DEF F
<1> QED BY <1>10, <1>11, <1>12


LEMMA CIntegerLayout ==
  ASSUME NEW item, IsItem(item), item.conv \in Conversions, ~ Differs(item)
  PROVE  CInteger(item) = Layout(PrefixSign(item), Precision(item) - Len(DigitsOfItem(item)),
                                 Reverse(DigitsOfItem(item)), Width(item), Flags(item))
<1> DEFINE P == PrefixSign(item)
           F == Filled(item)
           t == DigitsOfItem(item)
           r == Reverse(t)
           w == Width(item)
           fl == Flags(item)
           a == CSign(item)
           d == CDigits(item)
           z == Precision(item) - Len(t)
           pad == Times(" ", w - Len(P) - Len(F))
           zeros == Times("0", w - Len(P) - Len(F))
           zr == Times("0", w - Len(P) - Len(r))
           lay == Layout(P, z, r, w, fl)
<1>1. /\ P \in Seq(Char)
      /\ item.conv = "o" => P = IF "HASH" \in item.flags /\ CValue(item) # 0 THEN <<"0">> ELSE <<>>
      /\ a = IF item.conv = "o" THEN <<>> ELSE P
  BY PrefixSignIs
<1>2. d = IF item.conv = "o" THEN P \o F ELSE F
  BY CDigitsIs
<1>3. /\ ~ (IsSigned(item) /\ item.len = "char" /\ CValue(item) < 0)
      /\ ~ PrecisionDiffers(item, Length(item), Zeros(item))
  BY SameIs
<1>4. t \in Seq(Char) /\ Len(t) \in Nat /\ F \in Seq(Char) /\ Len(F) \in Nat
  <2>1. t \in Seq(Char) /\ F \in Seq(Char)
    BY <1>3, DigitsOfItemType
  <2> HIDE DEF t, F
  <2> QED BY <2>1
<1>5. r \in Seq(Char)
  BY <1>4, ReverseType
<1>6. F = Times("0", z) \o r
  BY DEF Filled
<1>7. w \in Nat /\ Precision(item) \in Nat /\ item.prec \in Int
  <2>1. item.prec \in Int
    BY DEF IsItem, Conversions
  <2> QED BY <2>1, FieldTypes DEF Conversions
<1>8. /\ "LEFT" \in fl <=> "LEFT" \in item.flags \/ item.width < 0
      /\ "ZEROPAD" \in fl <=> "ZEROPAD" \in item.flags /\ ~ HasPrecision(item)
  BY FlagsAre
<1>9. lay = IF "LEFT" \in fl THEN (P \o F) \o pad
            ELSE IF "ZEROPAD" \in fl THEN (P \o zr) \o r
            ELSE (pad \o P) \o F
  BY <1>6 DEF Layout
<1>10. CInteger(item) =
         IF "LEFT" \in item.flags \/ item.width < 0 THEN (a \o d) \o Times(" ", w - Len(a) - Len(d))
         ELSE IF "ZEROPAD" \in item.flags /\ ~ CHasPrecision(item) THEN (a \o Times("0", w - Len(a) - Len(d))) \o d
         ELSE (Times(" ", w - Len(a) - Len(d)) \o a) \o d
  BY DEF CInteger
<1>11. "LEFT" \notin fl => ("ZEROPAD" \in item.flags /\ ~ CHasPrecision(item) <=> "ZEROPAD" \in fl)
  <2> SUFFICES ASSUME "LEFT" \notin fl
               PROVE  "ZEROPAD" \in item.flags /\ ~ CHasPrecision(item) <=> "ZEROPAD" \in fl
    OBVIOUS
  <2>1. HasPrecision(item) /\ "ZEROPAD" \in item.flags => ~ item.prec < 0
    BY <1>3 DEF PrecisionDiffers, Zeros
  <2>2. CHasPrecision(item) <=> HasPrecision(item) /\ item.prec >= 0
    BY DEF CHasPrecision
  <2> HIDE DEF fl
  <2> QED BY <1>7, <1>8, <2>1, <2>2
<1>12. "ZEROPAD" \in fl => F = r
  <2> SUFFICES ASSUME "ZEROPAD" \in fl PROVE F = r
    OBVIOUS
  <2>1. Precision(item) = 0
    <3>1. item.prec = 0
      BY <1>8 DEF IsItem, Conversions, HasPrecision
    <3> QED BY <3>1 DEF Precision
  <2>2. z \in Int /\ z <= 0
    BY <1>4, <2>1
  <2> HIDE DEF z
  <2>3. Times("0", z) = <<>>
    BY <2>2, NoTimes
  <2> QED BY <1>5, <1>6, <2>3, NoText
<1>q. pad = Times(" ", w - Len(P) - Len(F)) /\ zeros = Times("0", w - Len(P) - Len(F)) /\ zr = Times("0", w - Len(P) - Len(r))
  OBVIOUS
<1> HIDE DEF P, F, t, r, w, fl, a, d, z, lay
<1>13. w - Len(P) - Len(F) \in Int
  BY <1>1, <1>4, <1>7
<1>14. pad \in Seq(Char) /\ zeros \in Seq(Char)
  <2>1. " " \in Char
    BY CharTypes
  <2>2. "0" \in Char
    BY CharTypes
  <2> QED BY <1>13, <2>1, <2>2, TimesIs
<1> HIDE DEF pad, zeros, zr
<1>15. CASE item.conv # "o"
  <2>1. a = P /\ d = F
    BY <1>1, <1>2, <1>15
  <2>2. CInteger(item) =
          IF "LEFT" \in fl THEN (P \o F) \o pad
          ELSE IF "ZEROPAD" \in fl THEN (P \o zeros) \o F
          ELSE (pad \o P) \o F
    BY <1>8, <1>10, <1>11, <1>q, <2>1
  <2>3. "ZEROPAD" \in fl => F = r /\ zeros = zr
    BY <1>12, <1>q
  <2>4. CInteger(item) = lay
    BY <1>9, <2>2, <2>3
  <2> QED BY <2>4 DEF lay, P, z, t, r, w, fl
<1>16. CASE item.conv = "o"
  <2>1. a = <<>> /\ d = P \o F /\ P \o F \in Seq(Char) /\ Len(P \o F) = Len(P) + Len(F)
    BY <1>1, <1>2, <1>4, <1>16, ConcatType
  <2>2. w - Len(a) - Len(d) = w - Len(P) - Len(F)
    <3>1. Len(a) = 0 /\ Len(d) = Len(P) + Len(F) /\ Len(P) \in Nat /\ Len(F) \in Nat
      BY <1>1, <1>4, <2>1, NoText
    <3> QED BY <1>7, <3>1
  <2>3. <<>> \o (P \o F) = P \o F /\ <<>> \o zeros = zeros /\ pad \o <<>> = pad
    BY <1>14, <2>1, NoText
  <2>4. CInteger(item) =
          IF "LEFT" \in fl THEN (P \o F) \o pad
          ELSE IF "ZEROPAD" \in fl THEN zeros \o (P \o F)
          ELSE pad \o (P \o F)
    BY <1>8, <1>10, <1>11, <1>q, <2>1, <2>2, <2>3
  <2>5. pad \o (P \o F) = (pad \o P) \o F /\ zeros \o (P \o F) = (zeros \o P) \o F
    BY <1>1, <1>4, <1>14, TextAssociative
  <2>6. zeros \o P = P \o zeros
    <3>1. CASE P = <<>>
      BY <1>14, <3>1, NoText
    <3>2. CASE P = <<"0">>
      BY <1>13, <1>q, <3>2, ZeroSwaps
    <3> QED BY <1>1, <1>16, <3>1, <3>2
  <2>7. "ZEROPAD" \in fl => F = r /\ zeros = zr
    BY <1>12, <1>q
  <2>8. CInteger(item) = lay
    BY <1>9, <2>4, <2>5, <2>6, <2>7
  <2> QED BY <2>8 DEF lay, P, z, t, r, w, fl
<1> QED BY <1>15, <1>16

\* The code puts out the same, where the two are not known to differ.
LEMMA IntegerIs ==
  ASSUME NEW item, IsItem(item), item.conv \in Conversions, ~ Differs(item)
  PROVE  Integer(item) = CInteger(item)
<1> DEFINE P == PrefixSign(item)
           F == Filled(item)
           t == DigitsOfItem(item)
           r == Reverse(t)
           p == Precision(item)
           w == Width(item)
           fl == Flags(item)
           base == Radix(item)
           v == CValue(item)
           m == Magnitude(v)
           g == IF m = 0 THEN fl \ {"HASH"} ELSE fl
           n == Length(item)
           lay == Layout(P, p - Len(t), r, w, fl)
<1>1. /\ ~ PrefixDiffers(item, n, Zeros(item))
      /\ ~ PrecisionDiffers(item, n, Zeros(item))
      /\ ~ (IsSigned(item) /\ item.len = "char" /\ v < 0)
      /\ ~ Len(CInteger(item)) > BufferSize
  BY SameIs
<1>2. Value(item) = v /\ v \in Int /\ m \in Unsigned /\ (~ IsSigned(item) => v >= 0) /\ (m = 0 <=> v = 0)
  BY <1>1, ValueIs
<1>3. t \in Seq(Char) /\ Len(t) = n /\ F \in Seq(Char) /\ Len(F) = IF p > Len(t) THEN p ELSE Len(t)
  BY <1>1, DigitsOfItemType DEF Length
<1>4. w \in Nat /\ p \in Nat /\ item.prec \in Int /\ p = IF item.prec > 0 THEN item.prec ELSE 0
  <2>1. item.prec \in Int
    BY DEF IsItem, Conversions
  <2> QED BY <2>1, FieldTypes DEF Conversions, Precision
<1>5. /\ base = 10 <=> item.conv \in {"d", "u"}
      /\ base \in Bases
      /\ IsSigned(item) <=> item.conv = "d"
  BY RadixIs
<1>6. /\ "UPPERCASE" \in fl <=> item.conv = "X"
      /\ "PRECISION" \in fl <=> HasPrecision(item)
      /\ "LEFT" \in fl <=> "LEFT" \in item.flags \/ item.width < 0
      /\ "ZEROPAD" \in fl <=> "ZEROPAD" \in item.flags /\ ~ HasPrecision(item)
      /\ "HASH" \in fl <=> "HASH" \in item.flags /\ base # 10
      /\ "PLUS" \in fl <=> "PLUS" \in item.flags /\ IsSigned(item)
      /\ "SPACE" \in fl <=> "SPACE" \in item.flags /\ IsSigned(item)
  BY FlagsAre
<1>7. P \in Seq(Char) /\ P = IF "HASH" \in fl /\ v # 0 THEN PrefixOf(base, fl) ELSE SignOf(v < 0, fl)
  BY PrefixSignIs DEF PrefixSign
<1>8. CInteger(item) = lay
  BY CIntegerLayout
<1>9. F = Times("0", p - Len(t)) \o r
  BY DEF Filled
<1>10. t = IF "PRECISION" \in fl /\ m = 0 THEN <<>> ELSE DigitsOf(m, base, "UPPERCASE" \in fl)
  <2>1. ("UPPERCASE" \in fl) = (item.conv = "X")
    BY <1>6
  <2>2. t = IF HasPrecision(item) /\ v = 0 THEN <<>> ELSE DigitsOf(m, base, item.conv = "X")
    BY DEF DigitsOfItem
  <2> HIDE DEF t, fl, m, v, base
  <2> QED BY <1>2, <1>6, <2>1, <2>2
<1>11. Integer(item) =
         NtoaFormat(SubSeq(t, 1, IF Len(t) > BufferSize THEN BufferSize ELSE Len(t)), v < 0, base, p, w, g)
  <2> DEFINE digits == IF "PRECISION" \in fl /\ m = 0 THEN <<>> ELSE DigitsOf(m, base, "UPPERCASE" \in fl)
  <2>1. Integer(item) = Ntoa(m, v < 0, base, p, w, fl)
    BY <1>2 DEF Integer
  <2>2. Ntoa(m, v < 0, base, p, w, fl) =
          NtoaFormat(SubSeq(digits, 1, IF Len(digits) > BufferSize THEN BufferSize ELSE Len(digits)), v < 0, base, p, w, g)
    BY DEF Ntoa
  <2>3. digits = t
    BY <1>10
  <2> HIDE DEF digits, t, fl, m, v, base, p, w, g
  <2> QED BY <2>1, <2>2, <2>3
<1>12. ~ HasPrecision(item) => item.prec = 0
  BY DEF IsItem, Conversions, HasPrecision
<1>13. "LEFT" \in fl \/ "ZEROPAD" \in fl => p <= Len(t)
  <2>1. CASE ~ HasPrecision(item)
    <3>1. p = 0
      BY <1>4, <1>12, <2>1
    <3> QED BY <1>3, <3>1
  <2>2. CASE HasPrecision(item)
    <3>1. "ZEROPAD" \notin fl
      BY <1>6, <2>2
    <3>2. "LEFT" \in fl => ~ item.prec > n
      BY <1>1, <2>2 DEF PrecisionDiffers
    <3>3. "LEFT" \in fl => p <= Len(t)
      <4>1. Len(t) \in Nat
        BY <1>3
      <4> HIDE DEF t, n, fl, p
      <4> QED BY <1>3, <1>4, <3>2, <4>1
    <3> QED BY <3>1, <3>3
  <2> QED BY <2>1, <2>2
<1>m. m = Magnitude(v)
  OBVIOUS
<1>v. (v < 0) \in BOOLEAN
  OBVIOUS
<1> DEFINE negative == v < 0
<1> HIDE DEF negative
<1>neg. negative = (v < 0) /\ negative \in BOOLEAN
  BY <1>v DEF negative
<1>g. g = IF m = 0 THEN fl \ {"HASH"} ELSE fl
  OBVIOUS
<1>pd. /\ "HASH" \in fl /\ ~ HasPrecision(item) /\ v # 0 => n # w
       /\ "HASH" \in fl /\ ~ HasPrecision(item) /\ v # 0 /\ Zeros(item) =>
            (base = 16 => n + 1 # w) /\ (base = 2 => ~ n + 2 <= w)
  BY <1>1 DEF PrefixDiffers
<1>z. "ZEROPAD" \in fl /\ "LEFT" \notin fl => Zeros(item)
  BY <1>6 DEF Zeros
<1> HIDE DEF P, F, t, p, w, fl, base, v, m, g, n
<1>14. r \in Seq(Char) /\ Len(t) \in Nat /\ Len(P) \in Nat /\ Len(F) \in Nat /\ p - Len(t) \in Int /\ w \in Int
  <2>1. Len(t) \in Nat /\ Len(P) \in Nat /\ Len(F) \in Nat
    BY <1>3, <1>7
  <2> QED BY <1>3, <1>4, <2>1, ReverseType
<1>15. w <= BufferSize /\ Len(P) + Len(F) <= BufferSize
  <2>1. "LEFT" \notin fl /\ "ZEROPAD" \in fl => p - Len(t) <= 0
    BY <1>4, <1>13, <1>14
  <2>2. Len(lay) >= w /\ Len(lay) >= Len(P) + Len(F)
    <3> HIDE DEF r
    <3> QED BY <1>7, <1>9, <1>14, <2>1, LayoutLength
  <2>3. lay \in Seq(Char)
    <3>1. Times("0", p - Len(t)) \in Seq(Char) /\ Times(" ", w - Len(P) - Len(Times("0", p - Len(t)) \o r)) \in Seq(Char)
          /\ Times("0", w - Len(P) - Len(r)) \in Seq(Char)
      <4>1. "0" \in Char
        BY CharTypes
      <4>2. " " \in Char
        BY CharTypes
      <4>3. w - Len(P) - Len(Times("0", p - Len(t)) \o r) \in Int
        BY <1>9, <1>14
      <4>4. w - Len(P) - Len(r) \in Int
        BY <1>14
      <4> QED BY <1>14, <4>1, <4>2, <4>3, <4>4, TimesIs
    <3> HIDE DEF r
    <3> QED BY <1>3, <1>7, <1>9, <1>14, <3>1, ConcatType DEF Layout
  <2>4. Len(lay) \in Nat /\ ~ Len(lay) > BufferSize
    BY <1>1, <1>8, <2>3
  <2> HIDE DEF lay
  <2> QED BY <1>14, <2>2, <2>4, BufferSizeType
<1>16. Integer(item) = NtoaFormat(t, v < 0, base, p, w, g)
  <2>1. ~ Len(t) > BufferSize
    BY <1>3, <1>4, <1>14, <1>15, BufferSizeType
  <2>2. SubSeq(t, 1, Len(t)) = t
    BY <1>3
  <2> QED BY <1>11, <2>1, <2>2
<1>17. CASE "HASH" \in fl /\ v # 0
  <2>1. g = fl /\ base \in {2, 8, 16} /\ ~ IsSigned(item) /\ ~ v < 0
    <3>1. base # 10 /\ ~ IsSigned(item)
      BY <1>5, <1>6, <1>17
    <3>2. ~ v < 0
      BY <1>2, <3>1
    <3> QED BY <1>2, <1>5, <1>17, <1>g, <3>1, <3>2 DEF Bases
  <2>2. P = PrefixOf(base, fl) /\ ~ negative
    BY <1>7, <1>17, <1>neg, <2>1
  <2>3. Len(t) > 0
    <3>1. m # 0 /\ t = DigitsOf(m, base, "UPPERCASE" \in fl) /\ ("UPPERCASE" \in fl) \in BOOLEAN
      BY <1>2, <1>10, <1>17
    <3>2. Len(t) = Count(m, base)
      BY <1>2, <1>5, <3>1, DigitsType
    <3> QED BY <1>2, <1>5, <3>2, CountIs, SizeType
  <2>4. "PLUS" \notin fl /\ "SPACE" \notin fl /\ ("PRECISION" \in fl => "ZEROPAD" \notin fl)
    BY <1>6, <2>1
  <2>5. "PRECISION" \notin fl => p = 0 /\ Len(t) # w
    BY <1>3, <1>4, <1>6, <1>12, <1>17, <1>pd
  <2>6. "LEFT" \notin fl /\ "ZEROPAD" \in fl => (base = 16 => Len(t) + 1 # w) /\ (base = 2 => Len(t) + 2 > w)
    <3> SUFFICES ASSUME "LEFT" \notin fl, "ZEROPAD" \in fl
                 PROVE  (base = 16 => Len(t) + 1 # w) /\ (base = 2 => Len(t) + 2 > w)
      OBVIOUS
    <3>1. ~ HasPrecision(item) /\ Zeros(item)
      BY <1>6, <1>z
    <3>2. (base = 16 => n + 1 # w) /\ (base = 2 => ~ n + 2 <= w)
      BY <1>17, <1>pd, <3>1
    <3> QED BY <1>3, <1>14, <3>2
  <2>7. Len(PrefixOf(base, fl)) + (IF p > Len(t) THEN p ELSE Len(t)) <= BufferSize
    BY <1>3, <1>15, <2>2
  <2>8. NtoaFormat(t, negative, base, p, w, fl) = Layout(PrefixOf(base, fl), p - Len(t), Reverse(t), w, fl)
    <3>1. t \in Seq(Char) /\ base \in {2, 8, 16} /\ p \in Nat /\ w \in Nat /\ negative \in BOOLEAN
      BY <1>3, <1>4, <1>neg, <2>1
    <3>2. PrefixFits(t, base, p, w, fl)
      BY <1>13, <1>15, <1>17, <2>3, <2>4, <2>5, <2>6, <2>7 DEF PrefixFits
    <3> HIDE DEF r, lay
    <3> QED BY <2>2, <3>1, <3>2, HashLayout
  <2>9. Integer(item) = NtoaFormat(t, negative, base, p, w, fl)
    BY <1>16, <1>neg, <2>1
  <2>10. lay = Layout(PrefixOf(base, fl), p - Len(t), Reverse(t), w, fl)
    BY <2>2
  <2> QED BY <1>8, <2>8, <2>9, <2>10
<1>18. CASE ~ ("HASH" \in fl /\ v # 0)
  <2>1. /\ "HASH" \notin g
        /\ "LEFT" \in g <=> "LEFT" \in fl
        /\ "ZEROPAD" \in g <=> "ZEROPAD" \in fl
        /\ "PLUS" \in g <=> "PLUS" \in fl
        /\ "SPACE" \in g <=> "SPACE" \in fl
    BY <1>2, <1>18, <1>g
  <2>2. SignOf(negative, g) = SignOf(negative, fl) /\ P = SignOf(negative, fl)
    BY <1>7, <1>18, <1>neg, <2>1 DEF SignOf
  <2>3. negative \in BOOLEAN
    BY <1>neg
  <2>4. Len(SignOf(negative, g)) + (IF p > Len(t) THEN p ELSE Len(t)) <= BufferSize
    BY <1>3, <1>15, <2>2
  <2>5. NtoaFormat(t, negative, base, p, w, g) = Layout(SignOf(negative, g), p - Len(t), Reverse(t), w, g)
    <3>1. t \in Seq(Char) /\ p \in Nat /\ w \in Nat /\ w <= BufferSize
      BY <1>3, <1>4, <1>15
    <3>2. "LEFT" \in g \/ "ZEROPAD" \in g => p <= Len(t)
      BY <1>13, <2>1
    <3>3. "HASH" \notin g
      BY <2>1
    <3> HIDE DEF r, lay
    <3> QED BY <2>3, <2>4, <3>1, <3>2, <3>3, PlainLayout
  <2>6. Layout(SignOf(negative, g), p - Len(t), Reverse(t), w, g) = lay
    BY <2>1, <2>2 DEF Layout
  <2>7. Integer(item) = NtoaFormat(t, negative, base, p, w, g)
    BY <1>16, <1>neg
  <2> QED BY <1>8, <2>5, <2>6, <2>7
<1> QED BY <1>17, <1>18

LEMMA OutputIs == ASSUME NEW item, IsItem(item), ~ Differs(item) PROVE Output(item) = CText(item)
<1>1. CASE item.conv \in {"plain", "c", "s", "p"}
  BY <1>1 DEF CText
<1>2. CASE item.conv \notin {"plain", "c", "s", "p"}
  <2>1. item.conv \in Conversions
    BY <1>2 DEF IsItem, Conversions
  <2>2. Output(item) = Integer(item)
    BY <1>2 DEF Output
  <2>3. CText(item) = CInteger(item)
    BY <1>2 DEF CText
  <2> QED BY <2>1, <2>2, <2>3, IntegerIs
<1> QED BY <1>1, <1>2

\* Printf.FormatsLikeC: up to the listed differences an integer is printed as the standard
\* asks, for all flags, widths, precisions and values: padding, precision, sign and prefix,
\* which meet in a buffer that is filled from its end, come out in their places.
THEOREM FormatsLikeCAlways == PrintfSpec => []FormatsLikeC
<1>1. PrintfInv => FormatsLikeC
  <2> SUFFICES ASSUME PrintfInv, sink = "putchar", ret >= 0, \A j \in DOMAIN format : ~ Differs(format[j])
               PROVE  console = Visible(FlattenSeq([j \in DOMAIN format |-> CText(format[j])]))
    BY DEF FormatsLikeC
  <2>1. /\ format \in Formats \cup {<<>>} /\ k = Len(format) + 1
        /\ console = Visible(Printed(format, k - 1))
    BY DEF PrintfInv, CallShape, OutputInv
  <2>2. k - 1 = Len(format)
    BY <2>1, FormatIs
  <2>3. \A j \in DOMAIN format : Output(format[j]) = CText(format[j])
    BY <2>1, FormatIs, OutputIs
  <2>4. Printed(format, Len(format)) = Texts
    BY <2>1, TextsPrinted
  <2>5. Texts = FlattenSeq([j \in DOMAIN format |-> CText(format[j])])
    BY <2>3 DEF Texts
  <2> QED BY <2>1, <2>2, <2>4, <2>5
<1> QED BY <1>1, PrintfInitInv, PrintfInvNext, PTL DEF PrintfSpec
=============================================================================
