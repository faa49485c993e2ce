----------------------------- MODULE MmuProofs -----------------------------
(***************************************************************************)
(* Theorems about Mmu, for tables of any size, every place of the tables   *)
(* and every image: what the loops over the tables have written is still   *)
(* there when the MMU is switched on, because no two of their descriptors  *)
(* share a word.  And about Startup, which runs mmu_init: what _start has  *)
(* set up when main begins, and what a fault in main then finds.           *)
(***************************************************************************)
EXTENDS Startup, TLAPS

\* Word w holds the descriptor d.
Has(w, d) == w \in DOMAIN mem /\ mem[w] = d

\* The first n turns of the loop of mmu.c are done.
PagesBuilt(n) ==
  /\ Has(WordAt(Base, 0), Table(Base + 1))
  /\ \A k \in 0 .. n - 1 :
       /\ Has(WordAt(Base, Entries + k), Table(Base + 2 + k))
       /\ \A j \in Index : Has(WordAt(Base, 2 * Entries + k * Entries + j),
                               [to |-> k * Entries + j, bits |-> PageBits(k * Entries + j)])

\* The first n turns of the loop over the blocks are done.
BlocksBuilt(n) ==
  /\ Has(WordAt(sec.end, 0), Table(sec.end + 2))
  /\ Has(WordAt(sec.end, 2 * Entries), Table(sec.end + 3))
  /\ \A k \in 1 .. n - 1 :
       Has(WordAt(sec.end, 2 * Entries + k), [to |-> k * Entries, bits |-> BlockBits(k)])

\* The table of the first block.
SmallBuilt ==
  \A r \in Index : Has(WordAt(sec.end, 3 * Entries + r), [to |-> r, bits |-> SmallBits(r)])

KernelBuilt ==
  LET t == KernelTables IN
  /\ Has(WordAt(t[1], LastEntry), KernelTable(t[2]))
  /\ Has(WordAt(t[2], LastEntry), KernelTable(t[3]))
  /\ Has(WordAt(t[3], 0), [to |-> UartPage, bits |-> {"NX", "DEV"}])

Filling ==
  /\ version = "pages" /\ pc = "fill" => PagesBuilt(i)
  /\ version = "blocks" /\ pc = "fill" => BlocksBuilt(i) /\ i >= 1

Filled ==
  pc \in {"kernel", "check", "enable", "done"} =>
    /\ version = "pages" => PagesBuilt(Entries)
    /\ version = "blocks" => BlocksBuilt(Entries) /\ SmallBuilt

Finished == pc \in {"check", "enable", "done"} => KernelBuilt

Switched ==
  /\ on => /\ pc = "done"
           /\ ttbr0 = (IF version = "pages" THEN Base ELSE sec.end)
           /\ ttbr1 = (IF version = "pages" THEN Base - 3 ELSE sec.end + 1)

Inv == TypeOK /\ Filling /\ Filled /\ Finished /\ Switched

-----------------------------------------------------------------------------
(* Arithmetic of words. *)

LEMMA Constants ==
  /\ Entries \in Nat /\ Entries >= 2 /\ Base \in Nat /\ Base >= 3
  /\ MmioPage \in Nat /\ UartPage \in Nat /\ ImageStart \in Nat
BY LayoutAssumption, SectionsAssumption DEF Pages

\* The rows of a table array follow each other.
LEMMA Rows ==
  \A a, b \in Nat : a < b => a * Entries + Entries <= b * Entries
<1> SUFFICES ASSUME NEW a \in Nat, NEW b \in Nat, a < b
             PROVE  a * Entries + Entries <= b * Entries
  OBVIOUS
<1>1. PICK d \in Nat : b = a + 1 + d
  <2>1. b - a - 1 \in Nat /\ b = a + 1 + (b - a - 1)
    OBVIOUS
  <2> QED BY <2>1
<1>2. b * Entries = a * Entries + Entries + d * Entries
  BY <1>1, Constants
<1>3. d * Entries \in Nat /\ a * Entries \in Nat
  BY Constants
<1> QED BY <1>2, <1>3, Constants

LEMMA Products == \A a \in Int : a * Entries \in Int
BY Constants

LEMMA NatProducts == \A a \in Nat : a * Entries \in Nat
BY Constants

\* A page of a table array, relative to its first.
LEMMA Relative ==
  \A a \in Int, n \in 0 .. 5 : (a + n) * Entries = a * Entries + n * Entries
BY Constants

LEMMA RelativeRow ==
  \A a, k \in Int : (a + 2 + k) * Entries = a * Entries + 2 * Entries + k * Entries
BY Constants

-----------------------------------------------------------------------------
(* Types. *)

\* Descriptors have an address and bits.
LEMMA BitsTyped ==
  ASSUME NEW p \in Nat
  PROVE  /\ [to |-> p, bits |-> PageBits(p)] \in Descriptor
         /\ [to |-> p, bits |-> BlockBits(p)] \in Descriptor
         /\ [to |-> p, bits |-> SmallBits(p)] \in Descriptor
         /\ \A q : BlockBits(q) \subseteq Bits
         /\ Table(p) \in Descriptor /\ KernelTable(p) \in Descriptor
BY DEF PageBits, BlockBits, SmallBits, Table, KernelTable, Descriptor, Bits

\* Writing descriptors to words leaves words of descriptors.
LEMMA PutTyped ==
  ASSUME DOMAIN mem \subseteq Nat, \A w \in DOMAIN mem : mem[w] \in Descriptor,
         NEW f, DOMAIN f \subseteq Nat, \A w \in DOMAIN f : f[w] \in Descriptor,
         Put(f)
  PROVE  DOMAIN mem' \subseteq Nat /\ \A w \in DOMAIN mem' : mem'[w] \in Descriptor
BY DEF Put

LEMMA WordNumbers == \A b, n \in Nat : WordAt(b, n) \in Nat
BY NatProducts DEF WordAt

LEMMA SectionNumbers ==
  ASSUME TypeOK
  PROVE  /\ sec.data \in Nat /\ sec.end \in Nat /\ ImageStart <= sec.data
         /\ sec.data <= sec.end /\ sec.end + 6 <= MmioPage
BY DEF TypeOK, IsSections

LEMMA InitType == Init => TypeOK
<1> SUFFICES ASSUME Init PROVE TypeOK
  OBVIOUS
<1>1. DOMAIN mem = {}
  BY DEF Init
<1>2. IsSections(sec)
  BY SectionsAssumption DEF Init
<1>3. 0 \in 0 .. Entries /\ 0 \in Nat
  BY Constants
<1> QED BY <1>1, <1>2, <1>3, Zenon DEF Init, TypeOK

LEMMA StepType == TypeOK /\ [Next]_vars => TypeOK'
<1> SUFFICES ASSUME TypeOK, [Next]_vars PROVE TypeOK'
  OBVIOUS
<1> USE Constants, SectionNumbers
<1>m. DOMAIN mem \subseteq Nat /\ \A w \in DOMAIN mem : mem[w] \in Descriptor
  BY DEF TypeOK
<1>s. sec' = sec => IsSections(sec)'
  BY DEF TypeOK, IsSections
<1>1. CASE StartPages
  <2> DEFINE f == [w \in {WordAt(Base, 0)} |-> Table(Base + 1)]
  <2>0. Base + 1 \in Nat /\ 0 \in Nat
    OBVIOUS
  <2>1. DOMAIN f \subseteq Nat /\ \A w \in DOMAIN f : f[w] \in Descriptor
    BY <2>0, WordNumbers, BitsTyped, Zenon
  <2>2. Put(f)
    BY <1>1 DEF StartPages
  <2>3. DOMAIN mem' \subseteq Nat /\ \A w \in DOMAIN mem' : mem'[w] \in Descriptor
    BY <1>m, <2>1, <2>2, PutTyped
  <2> QED BY <1>1, <1>s, <2>3 DEF StartPages, Go, TypeOK
<1>2. CASE FillPages
  <2>1. CASE i < Tables
    <3> DEFINE S == {WordAt(Base, 2 * Entries + i * Entries + j) : j \in 0 .. Entries - 1}
               f == [w \in {WordAt(Base, Entries + i)} \cup S |->
                       IF w = WordAt(Base, Entries + i) THEN Table(Base + 2 + i)
                       ELSE LET p == w - WordAt(Base, 2 * Entries)
                            IN [to |-> p, bits |-> PageBits(p)]]
    <3>1. i \in Nat /\ i * Entries \in Nat
      BY NatProducts DEF TypeOK
    <3>2. \A w \in S : w \in Nat /\ w - WordAt(Base, 2 * Entries) \in Nat
      <4> SUFFICES ASSUME NEW j \in 0 .. Entries - 1
                   PROVE  LET w == WordAt(Base, 2 * Entries + i * Entries + j)
                          IN w \in Nat /\ w - WordAt(Base, 2 * Entries) \in Nat
        OBVIOUS
      <4> QED BY <3>1, NatProducts DEF WordAt
    <3>3. WordAt(Base, Entries + i) \in Nat
      <4>1. Entries + i \in Nat
        BY <3>1
      <4> QED BY <4>1, WordNumbers
    <3>4. \A w \in DOMAIN f : f[w] \in Descriptor
      <4> SUFFICES ASSUME NEW w \in {WordAt(Base, Entries + i)} \cup S
                   PROVE  f[w] \in Descriptor
        OBVIOUS
      <4>1. CASE w = WordAt(Base, Entries + i)
        <5>1. Base + 2 + i \in Nat /\ f[w] = Table(Base + 2 + i)
          BY <4>1, <3>1
        <5> QED BY <5>1, BitsTyped
      <4>2. CASE w # WordAt(Base, Entries + i)
        <5> DEFINE p == w - WordAt(Base, 2 * Entries)
        <5>1. p \in Nat
          BY <4>2, <3>2
        <5>2. f[w] = [to |-> p, bits |-> PageBits(p)]
          BY <4>2
        <5> QED BY <5>1, <5>2, BitsTyped
      <4> QED BY <4>1, <4>2
    <3>5. Put(f)
      BY <1>2, <2>1 DEF FillPages, Tables
    <3>6. DOMAIN f \subseteq Nat
      BY <3>2, <3>3
    <3> HIDE DEF f
    <3>7. DOMAIN mem' \subseteq Nat /\ \A w \in DOMAIN mem' : mem'[w] \in Descriptor
      BY <1>m, <3>4, <3>5, <3>6, PutTyped
    <3> QED BY <1>2, <1>s, <2>1, <3>7 DEF FillPages, Go, TypeOK, Tables
  <2>2. CASE i = Tables
    BY <1>2, <1>s, <2>2 DEF FillPages, Go, TypeOK, Tables
  <2> QED BY <1>2, <2>1, <2>2 DEF FillPages
<1>3. CASE StartBlocks
  <2> DEFINE f == [w \in {WordAt(sec.end, 0), WordAt(sec.end, 2 * Entries)} |->
                     IF w = WordAt(sec.end, 0) THEN Table(sec.end + 2) ELSE Table(sec.end + 3)]
  <2>0. /\ sec.end \in Nat /\ sec.end + 2 \in Nat /\ sec.end + 3 \in Nat
        /\ 0 \in Nat /\ 2 * Entries \in Nat
    OBVIOUS
  <2>1. DOMAIN f \subseteq Nat /\ \A w \in DOMAIN f : f[w] \in Descriptor
    <3>1. DOMAIN f \subseteq Nat
      <4>1. WordAt(sec.end, 0) \in Nat /\ WordAt(sec.end, 2 * Entries) \in Nat
        BY <2>0, WordNumbers, Zenon
      <4> QED BY <4>1
    <3>2. Table(sec.end + 2) \in Descriptor /\ Table(sec.end + 3) \in Descriptor
      BY <2>0, BitsTyped, Zenon
    <3> QED BY <3>1, <3>2, Zenon
  <2>2. Put(f)
    BY <1>3 DEF StartBlocks
  <2>3. DOMAIN mem' \subseteq Nat /\ \A w \in DOMAIN mem' : mem'[w] \in Descriptor
    BY <1>m, <2>1, <2>2, PutTyped
  <2> QED BY <1>3, <1>s, <2>3 DEF StartBlocks, Go, TypeOK
<1>4. CASE FillBlocks
  <2>1. CASE i < Entries
    <3> DEFINE f == [w \in {WordAt(sec.end, 2 * Entries + i)} |->
                       [to |-> i * Entries, bits |-> BlockBits(i)]]
    <3>1. i \in Nat /\ i * Entries \in Nat
      BY NatProducts DEF TypeOK
    <3>2. DOMAIN f \subseteq Nat
      <4>1. 2 * Entries + i \in Nat
        BY <3>1
      <4> QED BY <4>1, WordNumbers
    <3>3. [to |-> i * Entries, bits |-> BlockBits(i)] \in Descriptor
      BY <3>1, BitsTyped DEF Descriptor
    <3>4. Put(f)
      BY <1>4, <2>1 DEF FillBlocks
    <3>5. DOMAIN mem' \subseteq Nat /\ \A w \in DOMAIN mem' : mem'[w] \in Descriptor
      BY <1>m, <3>2, <3>3, <3>4, PutTyped
    <3> QED BY <1>4, <1>s, <2>1, <3>5 DEF FillBlocks, Go, TypeOK
  <2>2. CASE i = Entries
    <3> DEFINE S == {WordAt(sec.end, 3 * Entries + r) : r \in 0 .. Entries - 1}
               f == [w \in S |-> LET r == w - WordAt(sec.end, 3 * Entries)
                                 IN [to |-> r, bits |-> SmallBits(r)]]
    <3>1. \A w \in S : w \in Nat /\ w - WordAt(sec.end, 3 * Entries) \in Nat
      <4> SUFFICES ASSUME NEW r \in 0 .. Entries - 1
                   PROVE  LET w == WordAt(sec.end, 3 * Entries + r)
                          IN w \in Nat /\ w - WordAt(sec.end, 3 * Entries) \in Nat
        OBVIOUS
      <4> QED BY NatProducts DEF WordAt
    <3>2. \A w \in DOMAIN f : f[w] \in Descriptor
      <4> SUFFICES ASSUME NEW w \in S PROVE f[w] \in Descriptor
        OBVIOUS
      <4> DEFINE r == w - WordAt(sec.end, 3 * Entries)
      <4>1. f[w] = [to |-> r, bits |-> SmallBits(r)]
        OBVIOUS
      <4>2. r \in Nat
        BY <3>1
      <4> QED BY <4>1, <4>2, BitsTyped
    <3>3. Put(f)
      BY <1>4, <2>2 DEF FillBlocks
    <3>4. DOMAIN f \subseteq Nat
      BY <3>1
    <3> HIDE DEF f
    <3>5. DOMAIN mem' \subseteq Nat /\ \A w \in DOMAIN mem' : mem'[w] \in Descriptor
      BY <1>m, <3>2, <3>3, <3>4, PutTyped
    <3> QED BY <1>4, <1>s, <2>2, <3>5 DEF FillBlocks, Go, TypeOK
  <2> QED BY <1>4, <2>1, <2>2 DEF FillBlocks
<1>5. CASE Kernel
  <2> DEFINE t == KernelTables
             f == [w \in {WordAt(t[1], LastEntry), WordAt(t[2], LastEntry), WordAt(t[3], 0)} |->
                     CASE w = WordAt(t[1], LastEntry) -> KernelTable(t[2])
                       [] w = WordAt(t[2], LastEntry) -> KernelTable(t[3])
                       [] OTHER -> [to |-> UartPage, bits |-> {"NX", "DEV"}]]
  <2>1. t[1] \in Nat /\ t[2] \in Nat /\ t[3] \in Nat /\ LastEntry \in Nat
    BY DEF KernelTables, LastEntry
  <2>2. Put(f)
    BY <1>5 DEF Kernel
  <2> HIDE DEF t
  <2>3. DOMAIN f \subseteq Nat
    <3>1. 0 \in Nat
      OBVIOUS
    <3> QED BY <2>1, <3>1, WordNumbers, Zenon
  <2>4. [to |-> UartPage, bits |-> {"NX", "DEV"}] \in Descriptor
    BY DEF Descriptor, Bits
  <2>5. \A w \in DOMAIN f : f[w] \in Descriptor
    BY <2>1, <2>4, BitsTyped
  <2>6. DOMAIN mem' \subseteq Nat /\ \A w \in DOMAIN mem' : mem'[w] \in Descriptor
    BY <1>m, <2>2, <2>3, <2>5, PutTyped
  <2> QED BY <1>5, <1>s, <2>6 DEF Kernel, Go, TypeOK
<1>6. CASE Check
  BY <1>6, <1>s DEF Check, Go, TypeOK
<1>7. CASE Enable
  BY <1>7, <1>s DEF Enable, TypeOK
<1>8. CASE UNCHANGED vars
  BY <1>8, <1>s DEF vars, TypeOK
<1> QED BY <1>1, <1>2, <1>3, <1>4, <1>5, <1>6, <1>7, <1>8 DEF Next

\* The words of memory are descriptors, the index of the loops stays within a table.
THEOREM TypeCorrect == Spec => []TypeOK
<1>1. Init => TypeOK
  BY InitType
<1>2. TypeOK /\ [Next]_vars => TypeOK'
  BY StepType
<1> QED BY <1>1, <1>2, PTL DEF Spec

-----------------------------------------------------------------------------
(* What has been written stays. *)

\* A write changes the words it is to, and no other.
LEMMA PutHas ==
  ASSUME NEW f, Put(f)
  PROVE  /\ \A w, d : Has(w, d) /\ w \notin DOMAIN f => w \in DOMAIN mem' /\ mem'[w] = d
         /\ \A w \in DOMAIN f : w \in DOMAIN mem' /\ mem'[w] = f[w]
BY DEF Put, Has

\* The bits depend on where the image is, which does not change.
LEMMA SameBits ==
  ASSUME sec' = sec, version' = version
  PROVE  /\ \A p : PageBits(p)' = PageBits(p)
         /\ \A p : SmallBits(p)' = SmallBits(p)
         /\ KernelTables' = KernelTables
BY DEF PageBits, IsText, IsReadOnly, SmallBits, KernelTables

LEMMA PagesTurn ==
  ASSUME Inv, FillPages, i < Tables
  PROVE  PagesBuilt(i)'
<1> USE Constants
<1> DEFINE S == {WordAt(Base, 2 * Entries + i * Entries + j) : j \in 0 .. Entries - 1}
           f == [w \in {WordAt(Base, Entries + i)} \cup S |->
                   IF w = WordAt(Base, Entries + i) THEN Table(Base + 2 + i)
                   ELSE LET p == w - WordAt(Base, 2 * Entries)
                        IN [to |-> p, bits |-> PageBits(p)]]
<1>1. /\ i \in Nat /\ i < Entries /\ i' = i + 1 /\ sec' = sec /\ version' = version
      /\ PagesBuilt(i) /\ Put(f)
  BY DEF Inv, Filling, TypeOK, FillPages, Go, Tables
<1>2. i * Entries \in Nat /\ Base * Entries \in Nat
  BY <1>1, NatProducts
<1>3. DOMAIN f = {WordAt(Base, Entries + i)} \cup S
  OBVIOUS
<1>4. WordAt(Base, Entries + i) \notin S /\ f[WordAt(Base, Entries + i)] = Table(Base + 2 + i)
  BY <1>1, <1>2 DEF WordAt
<1>5. ASSUME NEW j \in Index
      PROVE  LET w == WordAt(Base, 2 * Entries + i * Entries + j)
             IN /\ w \in DOMAIN f
                /\ f[w] = [to |-> i * Entries + j, bits |-> PageBits(i * Entries + j)]
  <2> DEFINE w == WordAt(Base, 2 * Entries + i * Entries + j)
  <2>1. w \in S /\ w \in DOMAIN f
    BY DEF Index
  <2>2. w - WordAt(Base, 2 * Entries) = i * Entries + j
    BY <1>2 DEF WordAt, Index
  <2>3. w # WordAt(Base, Entries + i)
    BY <1>4, <2>1
  <2> QED BY <2>1, <2>2, <2>3
<1> HIDE DEF f
<1>6. Has(WordAt(Base, 0), Table(Base + 1))'
  <2>1. WordAt(Base, 0) \notin DOMAIN f
    BY <1>1, <1>2, <1>3 DEF WordAt
  <2>2. Has(WordAt(Base, 0), Table(Base + 1))
    BY <1>1 DEF PagesBuilt
  <2>3. WordAt(Base, 0) \in DOMAIN mem' /\ mem'[WordAt(Base, 0)] = Table(Base + 1)
    BY <1>1, <2>1, <2>2, PutHas
  <2> QED BY <2>3 DEF Has, WordAt, Table
<1>7. ASSUME NEW k \in 0 .. i
      PROVE  /\ Has(WordAt(Base, Entries + k), Table(Base + 2 + k))'
             /\ \A j \in Index : Has(WordAt(Base, 2 * Entries + k * Entries + j),
                     [to |-> k * Entries + j, bits |-> PageBits(k * Entries + j)])'
  <2>1. CASE k = i
    <3>1. /\ WordAt(Base, Entries + k) \in DOMAIN mem'
          /\ mem'[WordAt(Base, Entries + k)] = Table(Base + 2 + k)
      BY <1>1, <1>3, <1>4, <2>1, PutHas
    <3>2. ASSUME NEW j \in Index
          PROVE  LET w == WordAt(Base, 2 * Entries + k * Entries + j)
                 IN /\ w \in DOMAIN mem'
                    /\ mem'[w] = [to |-> k * Entries + j, bits |-> PageBits(k * Entries + j)]
      BY <1>1, <1>5, <2>1, PutHas
    <3> QED BY <3>1, <3>2, <1>1, SameBits DEF Has, WordAt, Table
  <2>2. CASE k < i
    <3>1. k \in Nat /\ k * Entries \in Nat /\ k * Entries + Entries <= i * Entries
      BY <1>1, <2>2, NatProducts, Rows
    <3>2. k \in 0 .. i - 1
      BY <1>1, <2>2
    <3>3. WordAt(Base, Entries + k) \notin DOMAIN f
      BY <1>1, <1>2, <1>3, <2>2, <3>1 DEF WordAt
    <3>4. /\ WordAt(Base, Entries + k) \in DOMAIN mem'
          /\ mem'[WordAt(Base, Entries + k)] = Table(Base + 2 + k)
      BY <1>1, <3>2, <3>3, PutHas DEF PagesBuilt
    <3>5. ASSUME NEW j \in Index
          PROVE  LET w == WordAt(Base, 2 * Entries + k * Entries + j)
                 IN /\ w \in DOMAIN mem'
                    /\ mem'[w] = [to |-> k * Entries + j, bits |-> PageBits(k * Entries + j)]
      <4>1. WordAt(Base, 2 * Entries + k * Entries + j) \notin DOMAIN f
        BY <1>1, <1>2, <1>3, <3>1 DEF WordAt, Index
      <4> QED BY <1>1, <3>2, <4>1, PutHas DEF PagesBuilt
    <3> QED BY <3>4, <3>5, <1>1, SameBits DEF Has, WordAt, Table
  <2> QED BY <1>1, <2>1, <2>2
<1>8. (i - 1)' = i
  BY <1>1
<1>9. \A k \in 0 .. (i - 1)' :
             /\ Has(WordAt(Base, Entries + k), Table(Base + 2 + k))'
             /\ \A j \in Index : Has(WordAt(Base, 2 * Entries + k * Entries + j),
                     [to |-> k * Entries + j, bits |-> PageBits(k * Entries + j)])'
  BY <1>7, <1>8
<1> QED BY <1>6, <1>9 DEF PagesBuilt

LEMMA BlocksTurn ==
  ASSUME Inv, FillBlocks, i < Entries
  PROVE  BlocksBuilt(i)'
<1> USE Constants, SectionNumbers
<1> DEFINE v == WordAt(sec.end, 2 * Entries + i)
           f == [w \in {v} |-> [to |-> i * Entries, bits |-> BlockBits(i)]]
<1>0. TypeOK
  BY DEF Inv
<1>1. /\ i \in Nat /\ i >= 1 /\ i < Entries /\ i' = i + 1 /\ sec' = sec
      /\ BlocksBuilt(i) /\ Put(f) /\ sec.end * Entries \in Nat
  BY <1>0, NatProducts DEF Inv, Filling, TypeOK, FillBlocks, Go
<1>2. DOMAIN f = {v} /\ f[v] = [to |-> i * Entries, bits |-> BlockBits(i)]
  OBVIOUS
<1> HIDE DEF f
<1>3. WordAt(sec.end, 0) \notin DOMAIN f /\ WordAt(sec.end, 2 * Entries) \notin DOMAIN f
  BY <1>0, <1>1, <1>2 DEF WordAt
<1>4. /\ Has(WordAt(sec.end, 0), Table(sec.end + 2))'
      /\ Has(WordAt(sec.end, 2 * Entries), Table(sec.end + 3))'
  <2>1. /\ Has(WordAt(sec.end, 0), Table(sec.end + 2))
        /\ Has(WordAt(sec.end, 2 * Entries), Table(sec.end + 3))
    BY <1>1 DEF BlocksBuilt
  <2> QED BY <1>1, <1>3, <2>1, PutHas DEF Has, WordAt, Table
<1>5. ASSUME NEW k \in 1 .. i
      PROVE  Has(WordAt(sec.end, 2 * Entries + k), [to |-> k * Entries, bits |-> BlockBits(k)])'
  <2>1. CASE k = i
    BY <1>1, <1>2, <2>1, PutHas DEF Has, WordAt, BlockBits
  <2>2. CASE k < i
    <3>1. Has(WordAt(sec.end, 2 * Entries + k), [to |-> k * Entries, bits |-> BlockBits(k)])
      BY <1>1, <2>2 DEF BlocksBuilt
    <3>2. WordAt(sec.end, 2 * Entries + k) \notin DOMAIN f
      BY <1>0, <1>1, <1>2, <2>2 DEF WordAt
    <3> QED BY <1>1, <3>1, <3>2, PutHas DEF Has, WordAt, BlockBits
  <2> QED BY <1>1, <2>1, <2>2
<1>6. (i - 1)' = i
  BY <1>1
<1> QED BY <1>4, <1>5, <1>6 DEF BlocksBuilt

LEMMA SmallTurn ==
  ASSUME Inv, FillBlocks, i = Entries
  PROVE  BlocksBuilt(Entries)' /\ SmallBuilt'
<1> USE Constants, SectionNumbers
<1> DEFINE S == {WordAt(sec.end, 3 * Entries + r) : r \in 0 .. Entries - 1}
           f == [w \in S |-> LET r == w - WordAt(sec.end, 3 * Entries)
                             IN [to |-> r, bits |-> SmallBits(r)]]
<1>0. TypeOK
  BY DEF Inv
<1>1. /\ sec' = sec /\ version' = version
      /\ BlocksBuilt(Entries) /\ Put(f) /\ sec.end * Entries \in Nat
  BY <1>0, NatProducts DEF Inv, Filling, TypeOK, FillBlocks, Go
<1>2. DOMAIN f = S
  OBVIOUS
<1>3. ASSUME NEW r \in Index
      PROVE  LET w == WordAt(sec.end, 3 * Entries + r)
             IN w \in DOMAIN f /\ f[w] = [to |-> r, bits |-> SmallBits(r)]
  <2> DEFINE w == WordAt(sec.end, 3 * Entries + r)
  <2>1. w \in S
    BY DEF Index
  <2>2. w - WordAt(sec.end, 3 * Entries) = r
    BY <1>0, <1>1 DEF WordAt, Index
  <2> QED BY <2>1, <2>2
<1> HIDE DEF f
<1>4. /\ WordAt(sec.end, 0) \notin S /\ WordAt(sec.end, 2 * Entries) \notin S
      /\ \A k \in 1 .. Entries - 1 : WordAt(sec.end, 2 * Entries + k) \notin S
  BY <1>0, <1>1 DEF WordAt
<1>5. BlocksBuilt(Entries)'
  <2>1. /\ Has(WordAt(sec.end, 0), Table(sec.end + 2))'
        /\ Has(WordAt(sec.end, 2 * Entries), Table(sec.end + 3))'
    <3>1. /\ Has(WordAt(sec.end, 0), Table(sec.end + 2))
          /\ Has(WordAt(sec.end, 2 * Entries), Table(sec.end + 3))
      BY <1>1 DEF BlocksBuilt
    <3> QED BY <1>1, <1>2, <1>4, <3>1, PutHas DEF Has, WordAt, Table
  <2>2. ASSUME NEW k \in 1 .. Entries - 1
        PROVE  Has(WordAt(sec.end, 2 * Entries + k), [to |-> k * Entries, bits |-> BlockBits(k)])'
    <3>1. Has(WordAt(sec.end, 2 * Entries + k), [to |-> k * Entries, bits |-> BlockBits(k)])
      BY <1>1 DEF BlocksBuilt
    <3> QED BY <1>1, <1>2, <1>4, <3>1, PutHas DEF Has, WordAt, BlockBits
  <2> QED BY <2>1, <2>2 DEF BlocksBuilt
<1>6. SmallBuilt'
  BY <1>1, <1>3, PutHas, SameBits DEF SmallBuilt, Has, WordAt
<1> QED BY <1>5, <1>6

\* The three descriptors of the upper half are in words of their own.
LEMMA KernelStep ==
  ASSUME Inv, Kernel
  PROVE  /\ KernelBuilt'
         /\ version = "pages" => PagesBuilt(Entries)'
         /\ version = "blocks" => BlocksBuilt(Entries)' /\ SmallBuilt'
<1> USE Constants, SectionNumbers
<1> DEFINE t == KernelTables
           u1 == WordAt(t[1], LastEntry)
           u2 == WordAt(t[2], LastEntry)
           u3 == WordAt(t[3], 0)
           f == [w \in {u1, u2, u3} |->
                   CASE w = u1 -> KernelTable(t[2])
                     [] w = u2 -> KernelTable(t[3])
                     [] OTHER -> [to |-> UartPage, bits |-> {"NX", "DEV"}]]
<1>0. TypeOK
  BY DEF Inv
<1>1. /\ sec' = sec /\ version' = version /\ Put(f)
      /\ version = "pages" => PagesBuilt(Entries)
      /\ version = "blocks" => BlocksBuilt(Entries) /\ SmallBuilt
      /\ version \in {"pages", "blocks"}
  BY <1>0 DEF Inv, TypeOK, Filled, Kernel, Go
<1>2. /\ DOMAIN f = {u1, u2, u3}
      /\ u2 # u1 => f[u1] = KernelTable(t[2]) /\ f[u2] = KernelTable(t[3])
      /\ u3 # u1 /\ u3 # u2 => f[u3] = [to |-> UartPage, bits |-> {"NX", "DEV"}]
  <2> HIDE DEF t, u1, u2, u3
  <2> QED OBVIOUS
<1> HIDE DEF f
<1>3. sec.end * Entries \in Nat /\ Base * Entries \in Nat
  BY <1>0, NatProducts
<1>4. CASE version = "pages"
  <2>1. /\ u1 = Base * Entries - 2 * Entries - 1
        /\ u2 = Base * Entries - Entries - 1
        /\ u3 = Base * Entries - Entries
    <3>1. /\ (Base - 3) * Entries = Base * Entries - 3 * Entries
          /\ (Base - 2) * Entries = Base * Entries - 2 * Entries
          /\ (Base - 1) * Entries = Base * Entries - Entries
      BY <1>3
    <3> QED BY <1>3, <1>4, <3>1 DEF KernelTables, WordAt, LastEntry
  <2>2. \A n \in Nat : WordAt(Base, n) \notin {u1, u2, u3}
    BY <1>3, <2>1 DEF WordAt
  <2>3. u2 # u1 /\ u3 # u1 /\ u3 # u2
    BY <1>3, <2>1
  <2>4. KernelBuilt'
    <3>1. /\ u1 \in DOMAIN mem' /\ mem'[u1] = KernelTable(t[2])
          /\ u2 \in DOMAIN mem' /\ mem'[u2] = KernelTable(t[3])
          /\ u3 \in DOMAIN mem' /\ mem'[u3] = [to |-> UartPage, bits |-> {"NX", "DEV"}]
      BY <1>1, <1>2, <2>3, PutHas
    <3> QED BY <1>1, <3>1, SameBits DEF KernelBuilt, Has, WordAt, KernelTable
  <2>5. PagesBuilt(Entries)'
    <3>1. WordAt(Base, 0) \in DOMAIN mem' /\ mem'[WordAt(Base, 0)] = Table(Base + 1)
      BY <1>1, <1>2, <1>4, <2>2, PutHas DEF PagesBuilt
    <3>2. ASSUME NEW k \in 0 .. Entries - 1
          PROVE  /\ WordAt(Base, Entries + k) \in DOMAIN mem'
                 /\ mem'[WordAt(Base, Entries + k)] = Table(Base + 2 + k)
                 /\ \A j \in Index :
                      LET w == WordAt(Base, 2 * Entries + k * Entries + j)
                      IN /\ w \in DOMAIN mem'
                         /\ mem'[w] = [to |-> k * Entries + j,
                                       bits |-> PageBits(k * Entries + j)]
      <4>1. Entries + k \in Nat
        OBVIOUS
      <4>2. \A j \in Index : 2 * Entries + k * Entries + j \in Nat
        BY NatProducts DEF Index
      <4>3. /\ Has(WordAt(Base, Entries + k), Table(Base + 2 + k))
            /\ WordAt(Base, Entries + k) \notin DOMAIN f
        BY <1>1, <1>2, <1>4, <2>2, <4>1 DEF PagesBuilt
      <4>4. ASSUME NEW j \in Index
            PROVE  /\ Has(WordAt(Base, 2 * Entries + k * Entries + j),
                           [to |-> k * Entries + j, bits |-> PageBits(k * Entries + j)])
                   /\ WordAt(Base, 2 * Entries + k * Entries + j) \notin DOMAIN f
        BY <1>1, <1>2, <1>4, <2>2, <4>2 DEF PagesBuilt
      <4> QED BY <1>1, <4>3, <4>4, PutHas
    <3>3. Has(WordAt(Base, 0), Table(Base + 1))'
      BY <3>1 DEF Has, WordAt, Table
    <3>4. ASSUME NEW k \in 0 .. Entries - 1
          PROVE  Has(WordAt(Base, Entries + k), Table(Base + 2 + k))'
      BY <3>2 DEF Has, WordAt, Table
    <3>5. ASSUME NEW k \in 0 .. Entries - 1, NEW j \in Index
          PROVE  Has(WordAt(Base, 2 * Entries + k * Entries + j),
                     [to |-> k * Entries + j, bits |-> PageBits(k * Entries + j)])'
      BY <1>1, <3>2, SameBits DEF Has, WordAt
    <3> QED BY <3>3, <3>4, <3>5 DEF PagesBuilt
  <2> QED BY <1>4, <2>4, <2>5
<1>5. CASE version = "blocks"
  <2>1. /\ u1 = sec.end * Entries + 2 * Entries - 1
        /\ u2 = sec.end * Entries + 5 * Entries - 1
        /\ u3 = sec.end * Entries + 5 * Entries
    <3>1. /\ (sec.end + 1) * Entries = sec.end * Entries + Entries
          /\ (sec.end + 4) * Entries = sec.end * Entries + 4 * Entries
          /\ (sec.end + 5) * Entries = sec.end * Entries + 5 * Entries
      BY <1>0, <1>3
    <3> QED BY <1>3, <1>5, <3>1 DEF KernelTables, WordAt, LastEntry
  <2>2. /\ WordAt(sec.end, 0) \notin {u1, u2, u3}
        /\ \A n \in 2 * Entries .. 4 * Entries - 1 : WordAt(sec.end, n) \notin {u1, u2, u3}
    BY <1>3, <2>1 DEF WordAt
  <2>3. u2 # u1 /\ u3 # u1 /\ u3 # u2
    BY <1>3, <2>1
  <2>4. KernelBuilt'
    <3>1. /\ u1 \in DOMAIN mem' /\ mem'[u1] = KernelTable(t[2])
          /\ u2 \in DOMAIN mem' /\ mem'[u2] = KernelTable(t[3])
          /\ u3 \in DOMAIN mem' /\ mem'[u3] = [to |-> UartPage, bits |-> {"NX", "DEV"}]
      BY <1>1, <1>2, <2>3, PutHas
    <3> QED BY <1>1, <3>1, SameBits DEF KernelBuilt, Has, WordAt, KernelTable
  <2>5. BlocksBuilt(Entries)'
    <3>1. /\ WordAt(sec.end, 0) \in DOMAIN mem'
          /\ mem'[WordAt(sec.end, 0)] = Table(sec.end + 2)
          /\ WordAt(sec.end, 2 * Entries) \in DOMAIN mem'
          /\ mem'[WordAt(sec.end, 2 * Entries)] = Table(sec.end + 3)
      BY <1>1, <1>2, <1>5, <2>2, PutHas DEF BlocksBuilt
    <3>2. ASSUME NEW k \in 1 .. Entries - 1
          PROVE  LET w == WordAt(sec.end, 2 * Entries + k)
                 IN w \in DOMAIN mem' /\ mem'[w] = [to |-> k * Entries, bits |-> BlockBits(k)]
      <4>1. 2 * Entries + k \in 2 * Entries .. 4 * Entries - 1
        OBVIOUS
      <4>2. /\ Has(WordAt(sec.end, 2 * Entries + k), [to |-> k * Entries, bits |-> BlockBits(k)])
            /\ WordAt(sec.end, 2 * Entries + k) \notin DOMAIN f
        BY <1>1, <1>2, <1>5, <2>2, <4>1 DEF BlocksBuilt
      <4> QED BY <1>1, <4>2, PutHas
    <3> QED BY <1>1, <3>1, <3>2 DEF BlocksBuilt, Has, WordAt, Table, BlockBits
  <2>6. SmallBuilt'
    <3>1. ASSUME NEW r \in Index
          PROVE  LET w == WordAt(sec.end, 3 * Entries + r)
                 IN w \in DOMAIN mem' /\ mem'[w] = [to |-> r, bits |-> SmallBits(r)]
      BY <1>1, <1>2, <1>5, <2>2, PutHas DEF SmallBuilt, Index
    <3> QED BY <1>1, <3>1, SameBits DEF SmallBuilt, Has, WordAt
  <2> QED BY <1>5, <2>4, <2>5, <2>6
<1> QED BY <1>1, <1>4, <1>5

-----------------------------------------------------------------------------
(* The invariant. *)

LEMMA InitInv == Init => Inv
BY InitType DEF Init, Inv, Filling, Filled, Finished, Switched

LEMMA StepInv == Inv /\ [Next]_vars => Inv'
<1> SUFFICES ASSUME Inv, [Next]_vars PROVE Inv'
  OBVIOUS
<1> USE Constants DEF Inv
<1>t. TypeOK'
  BY StepType
<1>1. CASE StartPages
  <2>1. PagesBuilt(i)'
    <3> DEFINE f == [w \in {WordAt(Base, 0)} |-> Table(Base + 1)]
    <3>1. Put(f) /\ WordAt(Base, 0) \in DOMAIN f /\ f[WordAt(Base, 0)] = Table(Base + 1)
      BY <1>1 DEF StartPages
    <3>2. WordAt(Base, 0) \in DOMAIN mem' /\ mem'[WordAt(Base, 0)] = Table(Base + 1)
      BY <3>1, PutHas
    <3>3. (i - 1)' = -1
      BY <1>1 DEF StartPages
    <3> QED BY <3>2, <3>3 DEF PagesBuilt, Has, WordAt, Table
  <2> QED BY <1>1, <1>t, <2>1 DEF StartPages, Go, Filling, Filled, Finished, Switched
<1>2. CASE FillPages
  <2>1. CASE i < Tables
    <3>1. PagesBuilt(i)'
      BY <1>2, <2>1, PagesTurn
    <3> QED BY <1>2, <2>1, <1>t, <3>1 DEF FillPages, Go, Filling, Filled, Finished, Switched, Tables
  <2>2. CASE i = Tables
    <3>1. PagesBuilt(Entries)
      BY <1>2, <2>2 DEF FillPages, Filling, Tables
    <3>2. sec' = sec /\ version' = version /\ mem' = mem
      BY <1>2, <2>2 DEF FillPages, Go, Tables
    <3>3. PagesBuilt(Entries)'
      BY <3>1, <3>2, SameBits DEF PagesBuilt, Has, WordAt, Table
    <3> QED BY <1>2, <2>2, <1>t, <3>3 DEF FillPages, Go, Filling, Filled, Finished, Switched, Tables
  <2> QED BY <1>2, <2>1, <2>2 DEF FillPages
<1>3. CASE StartBlocks
  <2>1. BlocksBuilt(i)' /\ i' = 1
    <3> DEFINE f == [w \in {WordAt(sec.end, 0), WordAt(sec.end, 2 * Entries)} |->
                       IF w = WordAt(sec.end, 0) THEN Table(sec.end + 2) ELSE Table(sec.end + 3)]
    <3>1. Put(f) /\ i' = 1 /\ sec' = sec
      BY <1>3 DEF StartBlocks, Go
    <3>2. WordAt(sec.end, 0) # WordAt(sec.end, 2 * Entries)
      BY SectionNumbers, NatProducts DEF WordAt
    <3>3. /\ WordAt(sec.end, 0) \in DOMAIN f /\ WordAt(sec.end, 2 * Entries) \in DOMAIN f
          /\ f[WordAt(sec.end, 0)] = Table(sec.end + 2)
          /\ f[WordAt(sec.end, 2 * Entries)] = Table(sec.end + 3)
      BY <3>2
    <3> HIDE DEF f
    <3>4. /\ WordAt(sec.end, 0) \in DOMAIN mem'
          /\ mem'[WordAt(sec.end, 0)] = Table(sec.end + 2)
          /\ WordAt(sec.end, 2 * Entries) \in DOMAIN mem'
          /\ mem'[WordAt(sec.end, 2 * Entries)] = Table(sec.end + 3)
      BY <3>1, <3>3, PutHas
    <3> QED BY <3>1, <3>4 DEF BlocksBuilt, Has, WordAt, Table
  <2> QED BY <1>3, <1>t, <2>1 DEF StartBlocks, Go, Filling, Filled, Finished, Switched
<1>4. CASE FillBlocks
  <2>1. CASE i < Entries
    <3>1. BlocksBuilt(i)'
      BY <1>4, <2>1, BlocksTurn
    <3> QED BY <1>4, <2>1, <1>t, <3>1
            DEF FillBlocks, Go, Filling, Filled, Finished, Switched, TypeOK
  <2>2. CASE i = Entries
    <3>1. BlocksBuilt(Entries)' /\ SmallBuilt'
      BY <1>4, <2>2, SmallTurn
    <3> QED BY <1>4, <2>2, <1>t, <3>1 DEF FillBlocks, Go, Filling, Filled, Finished, Switched
  <2> QED BY <1>4, <2>1, <2>2 DEF FillBlocks
<1>5. CASE Kernel
  <2>1. /\ KernelBuilt'
        /\ version = "pages" => PagesBuilt(Entries)'
        /\ version = "blocks" => BlocksBuilt(Entries)' /\ SmallBuilt'
    BY <1>5, KernelStep
  <2> QED BY <1>5, <1>t, <2>1 DEF Kernel, Go, Filling, Filled, Finished, Switched
<1>6. ASSUME sec' = sec, version' = version, mem' = mem, i' = i
      PROVE  /\ \A n \in Int : PagesBuilt(n) => PagesBuilt(n)'
             /\ \A n \in Int : BlocksBuilt(n) => BlocksBuilt(n)'
             /\ SmallBuilt => SmallBuilt'
             /\ KernelBuilt => KernelBuilt'
  <2>1. ASSUME NEW n \in Int, PagesBuilt(n) PROVE PagesBuilt(n)'
    <3>1. Has(WordAt(Base, 0), Table(Base + 1))'
      BY <1>6, <2>1 DEF PagesBuilt, Has, WordAt, Table
    <3>2. ASSUME NEW k \in 0 .. n - 1
          PROVE  Has(WordAt(Base, Entries + k), Table(Base + 2 + k))'
      BY <1>6, <2>1 DEF PagesBuilt, Has, WordAt, Table
    <3>3. ASSUME NEW k \in 0 .. n - 1, NEW j \in Index
          PROVE  Has(WordAt(Base, 2 * Entries + k * Entries + j),
                     [to |-> k * Entries + j, bits |-> PageBits(k * Entries + j)])'
      <4>1. Has(WordAt(Base, 2 * Entries + k * Entries + j),
                [to |-> k * Entries + j, bits |-> PageBits(k * Entries + j)])
        BY <2>1 DEF PagesBuilt
      <4> QED BY <1>6, <4>1, SameBits DEF Has, WordAt
    <3> QED BY <3>1, <3>2, <3>3 DEF PagesBuilt
  <2>2. \A n \in Int : BlocksBuilt(n) => BlocksBuilt(n)'
    BY <1>6 DEF BlocksBuilt, Has, WordAt, Table, BlockBits
  <2>3. KernelBuilt => KernelBuilt'
    BY <1>6, SameBits DEF KernelBuilt, Has, WordAt, KernelTable
  <2>4. SmallBuilt => SmallBuilt'
    <3> SUFFICES ASSUME SmallBuilt, NEW r \in Index
                 PROVE  Has(WordAt(sec.end, 3 * Entries + r), [to |-> r, bits |-> SmallBits(r)])'
      BY DEF SmallBuilt
    <3>1. Has(WordAt(sec.end, 3 * Entries + r), [to |-> r, bits |-> SmallBits(r)])
      BY DEF SmallBuilt
    <3> QED BY <1>6, <3>1, SameBits DEF Has, WordAt
  <2> QED BY <2>1, <2>2, <2>3, <2>4
<1>a. ASSUME sec' = sec, version' = version, mem' = mem, i' = i,
             pc' \in {"kernel", "check", "enable", "done"} =>
               pc \in {"kernel", "check", "enable", "done"},
             pc' \in {"check", "enable", "done"} => pc \in {"check", "enable", "done"},
             pc' = "fill" => pc = "fill"
      PROVE  Filling' /\ Filled' /\ Finished'
  <2>1. Filling'
    <3>1. i \in Int
      BY DEF TypeOK
    <3> QED BY <1>6, <1>a, <3>1 DEF Filling
  <2>4. /\ PagesBuilt(Entries) => PagesBuilt(Entries)'
        /\ BlocksBuilt(Entries) => BlocksBuilt(Entries)'
        /\ SmallBuilt => SmallBuilt'
        /\ KernelBuilt => KernelBuilt'
    <3>1. Entries \in Int
      OBVIOUS
    <3> QED BY <1>6, <1>a, <3>1
  <2>2. Filled'
    <3>1. SUFFICES ASSUME pc' \in {"kernel", "check", "enable", "done"}
                   PROVE  /\ version' = "pages" => PagesBuilt(Entries)'
                          /\ version' = "blocks" => BlocksBuilt(Entries)' /\ SmallBuilt'
      BY Zenon DEF Filled
    <3>2. /\ version = "pages" => PagesBuilt(Entries)
          /\ version = "blocks" => BlocksBuilt(Entries) /\ SmallBuilt
      BY <1>a, <3>1 DEF Filled
    <3> QED BY <1>a, <2>4, <3>2
  <2>3. Finished'
    <3>1. pc' \in {"check", "enable", "done"} => KernelBuilt
      BY <1>a, Zenon DEF Finished
    <3> QED BY <2>4, <3>1 DEF Finished
  <2> QED BY <2>1, <2>2, <2>3
<1>7. CASE Check
  <2>1. Filling' /\ Filled' /\ Finished'
    BY <1>a, <1>7 DEF Check, Go
  <2> QED BY <1>7, <1>t, <2>1 DEF Check, Go, Switched
<1>8. CASE Enable
  <2>1. Filling' /\ Filled' /\ Finished'
    BY <1>a, <1>8 DEF Enable
  <2> QED BY <1>8, <1>t, <2>1 DEF Enable, Switched
<1>9. CASE UNCHANGED vars
  <2>1. Filling' /\ Filled' /\ Finished'
    BY <1>a, <1>9 DEF vars
  <2> QED BY <1>9, <1>t, <2>1 DEF vars, Switched
<1> QED BY <1>1, <1>2, <1>3, <1>4, <1>5, <1>7, <1>8, <1>9 DEF Next

\* What the tables hold at every step, and what of it the MMU is switched on over.
THEOREM Inductive == Spec => []Inv
<1> QED BY InitInv, StepInv, PTL DEF Spec

-----------------------------------------------------------------------------
(* What the hardware finds. *)

\* The walk of the lower half, when the tables are complete.
LEMMA LowerWalk ==
  ASSUME Inv, on, NEW l2 \in Index, NEW l3 \in Index
  PROVE  /\ version = "pages" =>
              Mapping(l2, l3) = [to |-> PageOf(l2, l3), bits |-> PageBits(PageOf(l2, l3))]
         /\ version = "blocks" =>
              Mapping(l2, l3) = [to |-> PageOf(l2, l3),
                                 bits |-> IF l2 = 0 THEN SmallBits(l3) ELSE BlockBits(l2)]
<1> USE Constants, SectionNumbers DEF Inv
<1>0. sec.end * Entries \in Nat /\ Base * Entries \in Nat /\ l2 * Entries \in Nat
  BY NatProducts DEF Index
<1>1. CASE version = "pages"
  <2>1. ttbr0 = Base /\ PagesBuilt(Entries)
    BY <1>1 DEF Switched, Filled
  <2>2. Entry(ttbr0, 0) = Table(Base + 1)
    BY <2>1 DEF Entry, PagesBuilt, Has
  <2>3. Entry(Base + 1, l2) = Table(Base + 2 + l2)
    <3>1. WordAt(Base + 1, l2) = WordAt(Base, Entries + l2)
      BY <1>0 DEF WordAt, Index
    <3>2. l2 \in 0 .. Entries - 1
      BY DEF Index
    <3> QED BY <2>1, <3>1, <3>2 DEF Entry, PagesBuilt, Has
  <2>4. Entry(Base + 2 + l2, l3) = [to |-> PageOf(l2, l3), bits |-> PageBits(PageOf(l2, l3))]
    <3>1. WordAt(Base + 2 + l2, l3) = WordAt(Base, 2 * Entries + l2 * Entries + l3)
      <4>1. (Base + 2 + l2) * Entries = Base * Entries + 2 * Entries + l2 * Entries
        BY RelativeRow DEF Index
      <4> QED BY <1>0, <4>1 DEF WordAt, Index
    <3>2. l2 \in 0 .. Entries - 1
      BY DEF Index
    <3> QED BY <2>1, <3>1, <3>2 DEF Entry, PagesBuilt, Has, PageOf
  <2> QED BY <1>1, <2>2, <2>3, <2>4 DEF Mapping, Walk, Table
<1>2. CASE version = "blocks"
  <2>1. ttbr0 = sec.end /\ BlocksBuilt(Entries) /\ SmallBuilt
    BY <1>2 DEF Switched, Filled
  <2>2. Entry(ttbr0, 0) = Table(sec.end + 2)
    BY <2>1 DEF Entry, BlocksBuilt, Has
  <2>3. WordAt(sec.end + 2, l2) = WordAt(sec.end, 2 * Entries + l2)
    BY <1>0 DEF WordAt, Index
  <2>4. CASE l2 = 0
    <3>0. WordAt(sec.end + 2, l2) = WordAt(sec.end, 2 * Entries)
      BY <1>0, <2>4 DEF WordAt
    <3>1. Entry(sec.end + 2, l2) = Table(sec.end + 3)
      BY <2>1, <2>4, <3>0 DEF Entry, BlocksBuilt, Has
    <3>2. WordAt(sec.end + 3, l3) = WordAt(sec.end, 3 * Entries + l3)
      BY <1>0 DEF WordAt, Index
    <3>3. Entry(sec.end + 3, l3) = [to |-> l3, bits |-> SmallBits(l3)]
      BY <2>1, <3>2 DEF Entry, SmallBuilt, Has
    <3>4. PageOf(l2, l3) = l3
      BY <2>4 DEF PageOf, Index
    <3> QED BY <1>2, <2>2, <2>4, <3>1, <3>3, <3>4 DEF Mapping, Walk, Table
  <2>5. CASE l2 # 0
    <3>1. l2 \in 1 .. Entries - 1
      BY <2>5 DEF Index
    <3>2. Entry(sec.end + 2, l2) = [to |-> l2 * Entries, bits |-> BlockBits(l2)]
      BY <2>1, <2>3, <3>1 DEF Entry, BlocksBuilt, Has
    <3>3. "BLOCK" \in BlockBits(l2)
      BY DEF BlockBits
    <3> QED BY <1>2, <2>2, <2>5, <3>2, <3>3 DEF Mapping, Walk, Table, PageOf
  <2> QED BY <2>4, <2>5
<1> QED BY <1>1, <1>2

\* Every page of the first gigabyte is mapped to itself, however many entries a
\* table has and wherever the tables and the image are.
THEOREM IdentityMappedAlways == Spec => []IdentityMapped
<1>1. Inv => IdentityMapped
  <2> SUFFICES ASSUME Inv, on, NEW l2 \in Index, NEW l3 \in Index
               PROVE  Mapping(l2, l3).to = PageOf(l2, l3)
    BY DEF IdentityMapped
  <2>1. version \in {"pages", "blocks"}
    BY DEF Inv, TypeOK
  <2> QED BY <2>1, LowerWalk
<1> QED BY <1>1, Inductive, PTL

\* The upper half leads to the registers of the UART: the tables of mmu.c lie just
\* below the others, and none of these three descriptors is lost.
THEOREM KernelSeesUartAlways == Spec => []KernelSeesUart
<1>1. Inv => KernelSeesUart
  <2> SUFFICES ASSUME Inv, on
               PROVE  Walk(ttbr1, LastEntry, LastEntry, 0) = [to |-> UartPage, bits |-> {"NX", "DEV"}]
    BY DEF KernelSeesUart
  <2> DEFINE t == KernelTables
  <2>1. version \in {"pages", "blocks"} /\ KernelBuilt /\ ttbr1 = t[1]
    BY DEF Inv, TypeOK, Finished, Switched, KernelTables
  <2> HIDE DEF t
  <2>2. /\ Entry(t[1], LastEntry) = KernelTable(t[2])
        /\ Entry(t[2], LastEntry) = KernelTable(t[3])
        /\ Entry(t[3], 0) = [to |-> UartPage, bits |-> {"NX", "DEV"}]
    BY <2>1 DEF KernelBuilt, Entry, Has, t
  <2> QED BY <2>1, <2>2 DEF Walk, KernelTable
<1> QED BY <1>1, Inductive, PTL

\* A section that ends at or before the end of page m - 1 has no page from m on.
LEMMA BeyondBound ==
  ASSUME NEW n \in Nat, NEW m \in Nat, n <= m * PageSize
  PROVE  Beyond(n) \in Nat /\ Beyond(n) <= m
<1>0. PageSize \in Nat \ {0}
  BY LayoutAssumption
<1>1. n \div PageSize \in Nat /\ n \div PageSize <= m
  BY <1>0
<1>2. CASE n % PageSize = 0
  BY <1>1, <1>2 DEF Beyond
<1>3. CASE n % PageSize # 0
  <2>1. n \div PageSize < m
    BY <1>0, <1>3
  <2> QED BY <1>1, <1>3, <2>1 DEF Beyond
<1> QED BY <1>2, <1>3

\* The peripherals' registers are device memory and no page of memory is: the parts
\* of the image, which are looked at first, end below them.
THEOREM DevicesAreDevicesAlways == Spec => []DevicesAreDevices
<1> USE Constants
<1>1. Inv => DevicesAreDevices
  <2> SUFFICES ASSUME Inv, on, NEW l2 \in Index, NEW l3 \in Index
               PROVE  "DEV" \in Mapping(l2, l3).bits <=> PageOf(l2, l3) >= MmioPage
    BY DEF DevicesAreDevices
  <2>1. TypeOK
    BY DEF Inv
  <2>2. PageOf(l2, l3) \in Nat /\ l2 \in Nat /\ l3 \in Nat /\ l2 * Entries \in Nat
    BY NatProducts DEF PageOf, Index
  <2>3. CASE version = "pages"
    <3> DEFINE p == PageOf(l2, l3)
    <3>1. Mapping(l2, l3).bits = PageBits(p)
      BY <2>3, LowerWalk
    <3>2. /\ sec.exec_end \in Nat /\ sec.exec_end <= (Base - 3) * PageSize
          /\ sec.ro_end \in Nat /\ sec.ro_end <= (Base - 3) * PageSize
      <4>1. /\ IsSections(sec) /\ sec.exec_end \in Nat /\ sec.ro \in Nat /\ sec.ro_end \in Nat
        BY <2>1 DEF TypeOK, IsSections
      <4>2. sec.exec_end <= sec.ro /\ sec.ro < sec.ro_end /\ sec.ro_end <= (Base - 3) * PageSize
        BY <4>1 DEF IsSections
      <4>3. (Base - 3) * PageSize \in Int
        BY LayoutAssumption
      <4> QED BY <4>1, <4>2, <4>3
    <3>3. Base - 3 \in Nat /\ Base - 3 < MmioPage
      BY SectionsAssumption
    <3>4. /\ Beyond(sec.exec_end) \in Nat /\ Beyond(sec.exec_end) < MmioPage
          /\ Beyond(sec.ro_end) \in Nat /\ Beyond(sec.ro_end) < MmioPage
      BY <3>2, <3>3, BeyondBound
    <3>5. p >= MmioPage => ~IsText(p) /\ ~IsReadOnly(p)
      BY <2>2, <3>4 DEF IsText, IsReadOnly
    <3> HIDE DEF p
    <3>6. "DEV" \in PageBits(p) <=> p >= MmioPage
      BY <3>5 DEF PageBits
    <3> QED BY <3>1, <3>6 DEF p
  <2>4. CASE version = "blocks"
    <3>1. PICK r \in 1 .. Entries - 1 : MmioPage = r * Entries
      BY LayoutAssumption
    <3>2. MmioBlock = r
      BY <3>1 DEF MmioBlock
    <3>3. l2 >= r <=> PageOf(l2, l3) >= MmioPage
      <4>1. CASE l2 >= r
        <5>1. l2 * Entries >= r * Entries
          <6>1. CASE l2 = r
            BY <2>2, <6>1
          <6>2. CASE l2 > r
            BY <2>2, <3>1, <6>2, Rows
          <6> QED BY <2>2, <3>1, <4>1, <6>1, <6>2
        <5> QED BY <2>2, <3>1, <4>1, <5>1 DEF PageOf
      <4>2. CASE l2 < r
        <5>1. l2 * Entries + Entries <= r * Entries
          BY <2>2, <3>1, <4>2, Rows
        <5> QED BY <2>2, <3>1, <4>2, <5>1 DEF PageOf, Index
      <4> QED BY <2>2, <3>1, <4>1, <4>2
    <3>4. CASE l2 = 0
      <4>1. Mapping(l2, l3).bits = SmallBits(l3)
        BY <2>4, <3>4, LowerWalk
      <4>2. "DEV" \notin SmallBits(l3)
        BY DEF SmallBits
      <4> QED BY <3>1, <3>3, <3>4, <4>1, <4>2
    <3>5. CASE l2 # 0
      <4>1. Mapping(l2, l3).bits = BlockBits(l2)
        BY <2>4, <3>5, LowerWalk
      <4>2. "DEV" \in BlockBits(l2) <=> l2 >= r
        BY <3>2 DEF BlockBits
      <4> QED BY <3>3, <4>1, <4>2
    <3> QED BY <3>4, <3>5
  <2> QED BY <2>1, <2>3, <2>4 DEF TypeOK
<1> QED BY <1>1, Inductive, PTL

-----------------------------------------------------------------------------
(* The protection of the image. *)

\* The bytes of a page follow those of the page before.
LEMMA Bytes ==
  /\ PageSize \in Nat \ {0}
  /\ \A a \in Nat : a * PageSize \in Nat /\ (a + 1) * PageSize = a * PageSize + PageSize
  /\ \A a, b \in Nat : a < b => a * PageSize + PageSize <= b * PageSize
<1>1. PageSize \in Nat \ {0}
  BY LayoutAssumption
<1>2. \A a \in Nat : a * PageSize \in Nat /\ (a + 1) * PageSize = a * PageSize + PageSize
  BY <1>1
<1>3. ASSUME NEW a \in Nat, NEW b \in Nat, a < b
      PROVE  a * PageSize + PageSize <= b * PageSize
  <2>1. PICK d \in Nat : b = a + 1 + d
    <3>1. b - a - 1 \in Nat /\ b = a + 1 + (b - a - 1)
      BY <1>3
    <3> QED BY <3>1
  <2>2. b * PageSize = a * PageSize + PageSize + d * PageSize
    BY <1>1, <2>1
  <2> QED BY <1>1, <1>2, <2>2
<1> QED BY <1>1, <1>2, <1>3

\* The first page of a part, and the one behind it, in bytes.
LEMMA FirstBeyond ==
  ASSUME NEW p \in Nat, NEW b \in Nat
  PROVE  /\ p >= First(b) <=> b < (p + 1) * PageSize
         /\ p < Beyond(b) <=> p * PageSize < b
<1> DEFINE q == b \div PageSize
           r == b % PageSize
<1> USE Bytes
<1>1. q \in Nat /\ r \in 0 .. PageSize - 1 /\ b = q * PageSize + r
  OBVIOUS
<1> HIDE DEF q, r
<1>2. p < q => p * PageSize + PageSize <= q * PageSize
  BY <1>1
<1>3. q < p => q * PageSize + PageSize <= p * PageSize
  BY <1>1
<1>4. p * PageSize \in Nat /\ q * PageSize \in Nat /\ (p + 1) * PageSize = p * PageSize + PageSize
  BY <1>1
<1>5. p < q \/ q < p \/ p = q
  BY <1>1
<1>6. p >= First(b) <=> b < (p + 1) * PageSize
  BY <1>1, <1>2, <1>3, <1>4, <1>5 DEF First, q
<1>7. Beyond(b) = q + (IF r = 0 THEN 0 ELSE 1)
  BY DEF Beyond, q, r
<1>8. p < Beyond(b) <=> p * PageSize < b
  BY <1>1, <1>2, <1>3, <1>4, <1>5, <1>7
<1> QED BY <1>6, <1>8

\* The pages that mmu.c takes for those of a part are the ones with a byte of it.
LEMMA Touching ==
  ASSUME NEW from \in Nat, NEW to \in Nat, from < to, NEW p \in Nat
  PROVE  p >= First(from) /\ p < Beyond(to) <=> \E b \in BytesOf(p) : from <= b /\ b < to
<1> USE Bytes
<1> DEFINE low == p * PageSize
           high == (p + 1) * PageSize
<1>1. low \in Nat /\ high = low + PageSize
  OBVIOUS
<1> HIDE DEF low, high
<1>2. BytesOf(p) = low .. high - 1
  BY DEF BytesOf, low, high
<1>3. p >= First(from) <=> from < high
  BY FirstBeyond DEF high
<1>4. p < Beyond(to) <=> low < to
  BY FirstBeyond DEF low
<1>5. ASSUME from < high, low < to PROVE \E b \in BytesOf(p) : from <= b /\ b < to
  <2>1. CASE from < low
    <3>1. low \in BytesOf(p) /\ from <= low
      BY <1>1, <1>2, <2>1
    <3> QED BY <1>5, <3>1
  <2>2. CASE from >= low
    <3>1. from \in BytesOf(p) /\ from <= from
      BY <1>1, <1>2, <1>5, <2>2
    <3> QED BY <3>1
  <2> QED BY <1>1, <2>1, <2>2
<1>6. ASSUME NEW b \in BytesOf(p), from <= b, b < to PROVE from < high /\ low < to
  BY <1>1, <1>2, <1>6
<1> QED BY <1>3, <1>4, <1>5, <1>6

\* The pages of the text can be executed and not written, those of the read-only
\* data not be written, and all others be written: no page with a byte of either
\* part is missed at its ends, wherever in a page the parts begin and end.
THEOREM ImageProtectedAlways == Spec => []ImageProtected
<1> USE Constants
<1>1. Inv => ImageProtected
  <2> SUFFICES ASSUME Inv, on, NEW l2 \in Index, NEW l3 \in Index, Protected(PageOf(l2, l3))
               PROVE  LET p == PageOf(l2, l3)
                          bits == Mapping(l2, l3).bits
                      IN /\ TouchesText(p) => "RO" \in bits /\ "NX" \notin bits
                         /\ "RO" \in bits <=> TouchesText(p) \/ TouchesReadOnly(p)
    BY DEF ImageProtected
  <2> DEFINE p == PageOf(l2, l3)
  <2>1. TypeOK
    BY DEF Inv
  <2>2. p \in Nat /\ l2 \in Nat /\ l3 \in Nat /\ l2 * Entries \in Nat
    BY NatProducts DEF PageOf, Index
  <2>3. CASE version = "pages"
    <3>1. Mapping(l2, l3).bits = PageBits(p)
      BY <2>3, LowerWalk
    <3>2. /\ sec.text \in Nat /\ sec.exec_end \in Nat /\ sec.text < sec.exec_end
          /\ sec.ro \in Nat /\ sec.ro_end \in Nat /\ sec.ro < sec.ro_end
      BY <2>1 DEF TypeOK, IsSections
    <3> HIDE DEF p
    <3>3. IsText(p) <=> TouchesText(p)
      BY <2>2, <2>3, <3>2, Touching DEF IsText, TouchesText
    <3>4. IsReadOnly(p) <=> TouchesReadOnly(p)
      BY <2>2, <2>3, <3>2, Touching DEF IsReadOnly, TouchesReadOnly
    <3>5. /\ IsText(p) => "RO" \in PageBits(p) /\ "NX" \notin PageBits(p)
          /\ "RO" \in PageBits(p) <=> IsText(p) \/ IsReadOnly(p)
      BY DEF PageBits
    <3> QED BY <3>1, <3>3, <3>4, <3>5 DEF p
  <2>4. CASE version = "blocks"
    <3>1. p < Entries
      BY <2>4 DEF Protected
    <3>2. l2 = 0
      <4>1. CASE l2 # 0
        <5>1. 0 * Entries + Entries <= l2 * Entries
          BY <2>2, <4>1, Rows
        <5> QED BY <2>2, <3>1, <5>1 DEF PageOf
      <4> QED BY <4>1
    <3>3. p = l3 /\ Mapping(l2, l3).bits = SmallBits(l3)
      BY <2>2, <2>4, <3>2, LowerWalk DEF PageOf
    <3>4. /\ TouchesText(p) <=> l3 >= ImageStart /\ l3 < sec.data
          /\ ~TouchesReadOnly(p)
      BY <2>1, <2>2, <2>4, <3>3, SectionNumbers DEF TouchesText, TouchesReadOnly
    <3>5. /\ "RO" \in SmallBits(l3) <=> l3 >= ImageStart /\ l3 < sec.data
          /\ "RO" \in SmallBits(l3) => "NX" \notin SmallBits(l3)
      BY <2>1, <2>2, SectionNumbers DEF SmallBits
    <3> QED BY <3>3, <3>4, <3>5
  <2> QED BY <2>1, <2>3, <2>4 DEF TypeOK
<1> QED BY <1>1, Inductive, PTL

-----------------------------------------------------------------------------
(* Startup: what a core has done when it is at a label. *)

\* What _start has set up, of core 0, at each of its labels; cores are numbers.
Ready ==
  /\ x0 = started
  /\ At("start") \/ At("level") \/ At("el2") => (started = 1 => level = 1)
  /\ At("el1") \/ At("bss") \/ At("main") =>
       /\ level = 1
       /\ started # 1 => vbar /\ sel = 0 /\ 1 \in sp
  /\ At("bss") \/ At("main") => sel \in sp
  /\ At("main") /\ image = "uart_and_sd" => cleared = 8 * Words

OthersWait == \A c \in Cores \ {0} : place[c] \in {"start", "parked"}

\* The bss is cleared word by word.
WordsCleared == \E n \in 0 .. Words : cleared = 8 * n

\* _start runs with the image that has its tables behind it.
Image == version = "blocks" /\ sec.data > ImageStart

StartupInv ==
  /\ Inv /\ StartupTypeOK /\ Ready /\ OthersWait /\ WordsCleared /\ Image /\ FaultsAreReported

LEMMA BssNumbers ==
  /\ BssBytes \in Nat /\ Words \in Nat /\ 8 * Words <= BssBytes /\ BssBytes - 8 * Words < 8
  /\ 0 \in Cores
BY StartupAssumption DEF Words

LEMMA StartupInitInv == StartupInit => StartupInv
<1> SUFFICES ASSUME StartupInit PROVE StartupInv
  OBVIOUS
<1> USE BssNumbers
<1>1. Inv
  BY InitInv DEF StartupInit
<1>2. \A c \in Cores : place[c] = "start"
  BY DEF StartupInit
<1>3. StartupTypeOK
  <2>1. place \in [Cores -> {"start", "level", "el2", "el1", "bss", "main",
                           "parked", "handler", "lost"}]
    BY DEF StartupInit
  <2>2. 0 \in 0 .. BssBytes
    OBVIOUS
  <2>3. vbar \in BOOLEAN /\ sp \subseteq {0, 1}
    BY Zenon DEF StartupInit
  <2> QED BY <2>1, <2>2, <2>3 DEF StartupInit, StartupTypeOK
<1>4. Ready
  BY <1>2 DEF StartupInit, Ready, At
<1>5. WordsCleared
  <2>1. cleared = 8 * 0 /\ 0 \in 0 .. Words
    BY DEF StartupInit
  <2> QED BY <2>1 DEF WordsCleared
<1>6. OthersWait /\ Image /\ FaultsAreReported
  BY <1>2 DEF StartupInit, OthersWait, Image, FaultsAreReported
<1> QED BY <1>1, <1>3, <1>4, <1>5, <1>6 DEF StartupInv

\* A step of mmu_init leaves the image where it is.
LEMMA ImageStays == Next => sec' = sec /\ version' = version
BY DEF Next, StartPages, FillPages, StartBlocks, FillBlocks, Kernel, Check, Enable, Go

\* A step of _start changes the place of one core.
LEMMA Moves ==
  ASSUME place \in [Cores -> {"start", "level", "el2", "el1", "bss", "main",
                              "parked", "handler", "lost"}],
         NEW c \in Cores,
         NEW label \in {"start", "level", "el2", "el1", "bss", "main",
                        "parked", "handler", "lost"},
         place' = [place EXCEPT ![c] = label]
  PROVE  /\ place' \in [Cores -> {"start", "level", "el2", "el1", "bss", "main",
                                  "parked", "handler", "lost"}]
         /\ place'[c] = label
         /\ \A o \in Cores : o # c => place'[o] = place[o]
OBVIOUS

\* A page of the text in the first block can be executed, with the MMU on or off.
LEMMA TextExecutes ==
  ASSUME Inv, version = "blocks", sec.data <= Entries, NEW p \in ImageStart .. sec.data - 1
  PROVE  Executes(p)
<1> USE Constants
<1> SUFFICES ASSUME on PROVE LET d == Walk(ttbr0, 0, p \div Entries, p % Entries)
                             IN d.to = p /\ "NX" \notin d.bits
  BY DEF Executes
<1>1. sec.data \in Nat
  BY SectionNumbers DEF Inv
<1>2. p \in Nat /\ p < Entries
  BY <1>1
<1>3. p \div Entries = 0 /\ p % Entries = p
  BY <1>2
<1>4. 0 \in Index /\ p \in Index
  BY <1>2 DEF Index
<1>5. Mapping(0, p) = [to |-> PageOf(0, p), bits |-> SmallBits(p)]
  BY <1>4, LowerWalk
<1>6. PageOf(0, p) = p
  BY <1>2 DEF PageOf
<1>7. "NX" \notin SmallBits(p)
  BY <1>1, <1>2 DEF SmallBits
<1> QED BY <1>3, <1>5, <1>6, <1>7 DEF Mapping

LEMMA StartupStepInv == StartupInv /\ [Start]_bootVars => StartupInv'
<1> SUFFICES ASSUME StartupInv, [Start]_bootVars PROVE StartupInv'
  OBVIOUS
<1> USE BssNumbers
<1>a. Inv /\ StartupTypeOK /\ Ready /\ OthersWait /\ WordsCleared /\ Image /\ FaultsAreReported
  BY DEF StartupInv
\* A step of _start leaves mmu_init, and what the image is, alone.
<1>k. ASSUME KeepMmu PROVE Inv' /\ Image' /\ image' = image /\ started' = started /\ sec' = sec
  <2>1. UNCHANGED vars /\ image' = image /\ started' = started
    BY <1>k DEF KeepMmu
  <2>2. Inv'
    BY <1>a, <2>1, StepInv
  <2> QED BY <1>a, <2>1, <2>2 DEF vars, Image
<1>w. cleared' = cleared => WordsCleared'
  BY <1>a DEF WordsCleared, Words
\* What is left to show of a step of core 0 that is not one of main's.
<1>g. ASSUME NEW label \in {"start", "level", "el2", "el1", "bss", "main",
                            "parked", "handler", "lost"},
             Goto(label), KeepMmu,
             level' \in Levels, sel' \in {0, 1}, sp' \subseteq {0, 1}, vbar' \in BOOLEAN,
             cleared' \in 0 .. BssBytes, x0' = x0, WordsCleared', Ready',
             label = "lost" => ~(started # 1 /\ sec.data <= Entries)
      PROVE  StartupInv'
  <2>1. /\ place' \in [Cores -> {"start", "level", "el2", "el1", "bss", "main",
                                 "parked", "handler", "lost"}]
        /\ place'[0] = label /\ \A o \in Cores : o # 0 => place'[o] = place[o]
    BY <1>a, <1>g, Moves DEF StartupTypeOK, Goto
  <2>2. Inv' /\ Image' /\ image' = image /\ started' = started /\ sec' = sec
    BY <1>g, <1>k
  <2>3. StartupTypeOK'
    BY <1>a, <1>g, <2>1, <2>2 DEF StartupTypeOK
  <2>4. OthersWait'
    BY <1>a, <2>1 DEF OthersWait
  <2>5. FaultsAreReported'
    BY <1>g, <2>1, <2>2 DEF FaultsAreReported
  <2> QED BY <1>g, <2>2, <2>3, <2>4, <2>5 DEF StartupInv
<1>t. /\ level \in Levels /\ x0 \in Levels /\ sel \in {0, 1} /\ sp \subseteq {0, 1}
      /\ vbar \in BOOLEAN /\ cleared \in 0 .. BssBytes /\ x0 = started
      /\ place \in [Cores -> {"start", "level", "el2", "el1", "bss", "main",
                              "parked", "handler", "lost"}]
  BY <1>a DEF StartupTypeOK, Ready
<1>p. \A label : Goto(label) => place'[0] = label
  BY <1>t DEF Goto
<1>1. CASE \E c \in Cores : Begin(c)
  <2>1. PICK c \in Cores : Begin(c)
    BY <1>1
  <2>2. CASE c = 0
    <3>1. /\ Goto("level") /\ KeepMmu /\ UNCHANGED <<level, sel, x0, sp, vbar, cleared>>
          /\ At("start")
      BY <2>1, <2>2 DEF Begin, Goto, At
    <3>2. image' = image /\ started' = started /\ place'[0] = "level"
      BY <1>k, <1>p, <3>1
    <3>3. Ready'
      BY <1>a, <3>1, <3>2 DEF Ready, At
    <3> QED BY <1>g, <1>t, <1>w, <3>1, <3>3
  <2>3. CASE c # 0
    <3>1. /\ place' = [place EXCEPT ![c] = "parked"] /\ KeepMmu
          /\ UNCHANGED <<level, sel, x0, sp, vbar, cleared>>
      BY <2>1, <2>3 DEF Begin
    <3>2. /\ place' \in [Cores -> {"start", "level", "el2", "el1", "bss", "main",
                                   "parked", "handler", "lost"}]
          /\ place'[c] = "parked" /\ \A o \in Cores : o # c => place'[o] = place[o]
      BY <1>t, <3>1, Moves
    <3>3. place'[0] = place[0]
      BY <2>3, <3>2
    <3>4. Inv' /\ Image' /\ image' = image /\ started' = started /\ sec' = sec
      BY <1>k, <3>1
    <3>5. StartupTypeOK'
      BY <1>a, <3>1, <3>2, <3>4 DEF StartupTypeOK
    <3>6. Ready'
      BY <1>a, <3>1, <3>3, <3>4 DEF Ready, At, Words
    <3>7. OthersWait' /\ FaultsAreReported'
      BY <1>a, <3>2, <3>3, <3>4 DEF OthersWait, FaultsAreReported
    <3> QED BY <1>w, <3>1, <3>4, <3>5, <3>6, <3>7 DEF StartupInv
  <2> QED BY <2>2, <2>3
<1>2. CASE FromEl3
  <2>1. /\ At("level") /\ Goto("el2") /\ KeepMmu /\ UNCHANGED <<x0, sp, vbar, cleared>>
        /\ x0 = 3 => level' = 2 /\ sel' = 1
        /\ x0 # 3 => level' = level /\ sel' = sel
    BY <1>2 DEF FromEl3
  <2>2. image' = image /\ started' = started /\ place'[0] = "el2"
    BY <1>k, <1>p, <2>1
  <2>3. Ready'
    BY <1>a, <2>1, <2>2 DEF Ready, At
  <2>4. level' \in Levels /\ sel' \in {0, 1}
    BY <1>t, <2>1 DEF Levels
  <2> QED BY <1>g, <1>t, <1>w, <2>1, <2>3, <2>4
<1>3. CASE FromEl2
  <2>1. /\ At("el2") /\ Goto("el1") /\ KeepMmu /\ UNCHANGED <<x0, cleared>>
        /\ x0 = 1 => UNCHANGED <<level, sel, sp, vbar>>
        /\ x0 # 1 => sp' = sp \cup {1} /\ vbar' = TRUE /\ level' = 1 /\ sel' = 0
    BY <1>3 DEF FromEl2, Drop
  <2>2. image' = image /\ started' = started /\ place'[0] = "el1"
    BY <1>k, <1>p, <2>1
  <2>3. Ready'
    BY <1>a, <2>1, <2>2 DEF Ready, At
  <2>4. level' \in Levels /\ sel' \in {0, 1} /\ sp' \subseteq {0, 1} /\ vbar' \in BOOLEAN
    <3>1. CASE x0 = 1
      <4>1. level' = level /\ sel' = sel /\ sp' = sp /\ vbar' = vbar
        BY <2>1, <3>1
      <4> QED BY <1>t, <4>1, Zenon
    <3>2. CASE x0 # 1
      <4>1. vbar' \in BOOLEAN
        BY <2>1, <3>2, Zenon
      <4>2. sp' = sp \cup {1} /\ level' = 1 /\ sel' = 0
        BY <2>1, <3>2, Zenon
      <4>3. level' \in Levels /\ sel' \in {0, 1} /\ sp' \subseteq {0, 1}
        BY <1>t, <4>2 DEF Levels
      <4> QED BY <4>1, <4>3, Zenon
    <3> QED BY <3>1, <3>2
  <2> QED BY <1>g, <1>t, <1>w, <2>1, <2>3, <2>4
<1>4. CASE SetStack
  <2>1. /\ At("el1") /\ KeepMmu /\ UNCHANGED <<level, sel, x0, vbar, cleared>>
        /\ sp' = sp \cup {sel}
        /\ Goto(IF image = "elf-boot" THEN "main" ELSE "bss")
    BY <1>4 DEF SetStack
  <2> DEFINE label == IF image = "elf-boot" THEN "main" ELSE "bss"
  <2>2. image' = image /\ started' = started /\ place'[0] = label
    BY <1>k, <1>p, <2>1
  <2>3. Ready'
    <3>1. image = "elf-boot" => place'[0] = "main"
      BY <2>2
    <3>2. image # "elf-boot" => place'[0] = "bss"
      BY <2>2
    <3> QED BY <1>a, <2>1, <2>2, <3>1, <3>2 DEF Ready, At
  <2>4. sp' \subseteq {0, 1}
    BY <1>t, <2>1
  <2> QED BY <1>g, <1>t, <1>w, <2>1, <2>3, <2>4
<1>5. CASE ClearBss
  <2>1. At("bss") /\ KeepMmu /\ UNCHANGED <<level, sel, x0, sp, vbar>>
    BY <1>5 DEF ClearBss
  <2>2. CASE cleared = 8 * Words
    <3>1. Goto("main") /\ cleared' = cleared
      BY <1>5, <2>2 DEF ClearBss
    <3>2. image' = image /\ started' = started /\ place'[0] = "main"
      BY <1>k, <1>p, <2>1, <3>1
    <3>3. Ready'
      BY <1>a, <2>1, <2>2, <3>1, <3>2 DEF Ready, At, Words
    <3> QED BY <1>g, <1>t, <1>w, <2>1, <3>1, <3>3
  <2>3. CASE cleared # 8 * Words
    <3>1. place' = place /\ cleared' = cleared + 8
      BY <1>5, <2>3 DEF ClearBss
    <3>2. PICK n \in 0 .. Words : cleared = 8 * n
      BY <1>a DEF WordsCleared
    <3>3. n + 1 \in 0 .. Words /\ cleared' = 8 * (n + 1)
      BY <2>3, <3>1, <3>2
    <3>4. WordsCleared'
      BY <3>3 DEF WordsCleared, Words
    <3>5. cleared' \in 0 .. BssBytes
      BY <3>3
    <3>6. place[0] = "bss" /\ place'[0] = "bss"
      BY <2>1, <3>1 DEF At
    <3>7. Goto("bss")
      BY <1>t, <3>1, <3>6 DEF Goto
    <3>8. image' = image /\ started' = started
      BY <1>k, <2>1
    <3>9. Ready'
      BY <1>a, <2>1, <3>6, <3>8 DEF Ready, At
    <3> QED BY <1>g, <1>t, <2>1, <3>4, <3>5, <3>7, <3>9
  <2> QED BY <2>2, <2>3
<1>6. CASE MainStep
  <2>1. Next /\ UNCHANGED startVars
    BY <1>6 DEF MainStep
  <2>2. Inv'
    BY <1>a, <2>1, StepInv
  <2>3. sec' = sec /\ version' = version
    BY <2>1, ImageStays
  <2>4. /\ image' = image /\ place' = place /\ started' = started /\ level' = level
        /\ sel' = sel /\ x0' = x0 /\ sp' = sp /\ vbar' = vbar /\ cleared' = cleared
    BY <2>1 DEF startVars
  <2>5. StartupTypeOK' /\ OthersWait' /\ Image' /\ FaultsAreReported'
    BY <1>a, <2>3, <2>4 DEF StartupTypeOK, OthersWait, Image, FaultsAreReported
  <2>6. Ready'
    BY <1>a, <2>4 DEF Ready, At, Words
  <2> QED BY <1>w, <2>2, <2>4, <2>5, <2>6 DEF StartupInv
<1>7. CASE MainReturns
  <2>1. Goto("parked") /\ KeepMmu /\ UNCHANGED <<level, sel, x0, sp, vbar, cleared>>
    BY <1>7 DEF MainReturns
  <2>2. started' = started /\ place'[0] = "parked"
    BY <1>k, <1>p, <2>1
  <2>3. Ready'
    BY <1>a, <2>1, <2>2 DEF Ready, At
  <2> QED BY <1>g, <1>t, <1>w, <2>1, <2>3
<1>8. CASE Fault
  <2>1. PICK p \in ImageStart .. sec.data - 1 :
          Goto(IF vbar /\ sel = 0 /\ 1 \in sp /\ Executes(ImageStart) /\ Executes(p)
               THEN "handler" ELSE "lost")
    BY <1>8 DEF Fault
  <2>2. At("main") /\ KeepMmu /\ UNCHANGED <<level, sel, x0, sp, vbar, cleared>>
    BY <1>8 DEF Fault
  <2> DEFINE caught == vbar /\ sel = 0 /\ 1 \in sp /\ Executes(ImageStart) /\ Executes(p)
             label == IF caught THEN "handler" ELSE "lost"
  <2>3. Goto(label)
    BY <2>1
  <2>4. ASSUME started # 1, sec.data <= Entries PROVE caught
    <3>1. vbar /\ sel = 0 /\ 1 \in sp
      BY <1>a, <2>2, <2>4 DEF Ready
    <3>2. ImageStart \in ImageStart .. sec.data - 1
      BY <1>a, Constants, SectionNumbers DEF Image, Inv
    <3>3. Executes(p)
      BY <1>a, <2>4, TextExecutes DEF Image
    <3>4. Executes(ImageStart)
      BY <1>a, <2>4, <3>2, TextExecutes DEF Image
    <3> QED BY <3>1, <3>3, <3>4
  <2>5. label = "lost" => ~(started # 1 /\ sec.data <= Entries)
    BY <2>4
  <2>6. label = "handler" \/ label = "lost"
    OBVIOUS
  <2> HIDE DEF label
  <2>7. started' = started /\ place'[0] = label
    BY <1>k, <1>p, <2>2, <2>3
  <2>8. Ready'
    BY <1>a, <2>2, <2>6, <2>7 DEF Ready, At
  <2>9. label \in {"start", "level", "el2", "el1", "bss", "main", "parked", "handler", "lost"}
    BY <2>6
  <2> QED BY <1>g, <1>t, <1>w, <2>2, <2>3, <2>5, <2>8, <2>9
<1>9. CASE UNCHANGED bootVars
  <2>1. UNCHANGED vars /\ UNCHANGED startVars
    BY <1>9 DEF bootVars
  <2>2. Inv'
    BY <1>a, <2>1, StepInv
  <2>4. /\ image' = image /\ place' = place /\ started' = started /\ level' = level
        /\ sel' = sel /\ x0' = x0 /\ sp' = sp /\ vbar' = vbar /\ cleared' = cleared
        /\ sec' = sec /\ version' = version
    BY <2>1 DEF startVars, vars
  <2>5. StartupTypeOK' /\ OthersWait' /\ Image' /\ FaultsAreReported'
    BY <1>a, <2>4 DEF StartupTypeOK, OthersWait, Image, FaultsAreReported
  <2>6. Ready'
    BY <1>a, <2>4 DEF Ready, At, Words
  <2> QED BY <1>w, <2>2, <2>4, <2>5, <2>6 DEF StartupInv
<1> QED BY <1>1, <1>2, <1>3, <1>4, <1>5, <1>6, <1>7, <1>8, <1>9 DEF Start

LEMMA StartupInductive == StartupSpec => []StartupInv
<1> QED BY StartupInitInv, StartupStepInv, PTL DEF StartupSpec

\* Started at any level, with any stack pointer chosen and any number of other cores,
\* main runs on core 0 alone, at EL1, with a stack, over a cleared bss.
THEOREM MainStartsReadyAlways == StartupSpec => []MainStartsReady
<1>1. StartupInv => MainStartsReady
  BY BssNumbers DEF StartupInv, Ready, OthersWait, MainStartsReady
<1> QED BY <1>1, StartupInductive, PTL

\* A fault at any step of main reaches exc_handler, whatever mmu_init has written
\* by then, if the core was not started at EL1 and the text ends in the first block.
THEOREM FaultsAreReportedAlways == StartupSpec => []FaultsAreReported
<1>1. StartupInv => FaultsAreReported
  BY DEF StartupInv
<1> QED BY <1>1, StartupInductive, PTL
=============================================================================
