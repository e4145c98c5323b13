----------------------------- MODULE ExecProofs -----------------------------
(***************************************************************************)
(* Proofs about Exec for every page size, heap, memory size, link address  *)
(* and stack, and for any number of allocations, segments and programs.    *)
(***************************************************************************)
EXTENDS Exec, FiniteSetTheorems, TLAPS

-----------------------------------------------------------------------------
(***************************************************************************)
(* Addresses and pages.                                                    *)
(***************************************************************************)

\* The assumptions on single constants.
LEMMA Constants ==
    /\ PageSz \in Nat \ {0} /\ RamEnd \in Nat /\ HeapStart \in Nat
    /\ MaxSize \in Nat /\ UserPages \subseteq Nat
    /\ StackPages \in Nat /\ StackTop \in Nat
BY ExecAssumption

\* The first address of a page.
Addr(p) == p * PageSz

\* Dividing what has been put together.
LEMMA Division ==
    ASSUME NEW q \in Nat, NEW r \in 0 .. PageSz - 1
    PROVE  (q * PageSz + r) % PageSz = r
BY Constants

\* The page of an address and the place in it.
LEMMA PageOf ==
    ASSUME NEW a \in Nat
    PROVE  /\ a \div PageSz \in Nat /\ a % PageSz \in 0 .. PageSz - 1
           /\ a = Addr(a \div PageSz) + (a % PageSz)
<1>1. PICK q \in Nat : q = a \div PageSz
  BY Constants
<1>2. Addr(q) <= a /\ a < Addr(q) + PageSz /\ Addr(q) \in Nat
  BY <1>1, Constants DEF Addr
<1>3. PICK r \in 0 .. PageSz - 1 : a = Addr(q) + r
  <2>1. a - Addr(q) \in 0 .. PageSz - 1 /\ a = Addr(q) + (a - Addr(q))
    BY <1>2, Constants
  <2>2. QED
    BY <2>1
<1>4. a % PageSz = r
  BY <1>3, Division DEF Addr
<1>5. QED
  BY <1>1, <1>3, <1>4

\* Pages follow each other.
LEMMA PagesInOrder ==
    ASSUME NEW p \in Int, NEW q \in Int
    PROVE  /\ Addr(p) \in Int
           /\ p < q => Addr(p) + PageSz <= Addr(q)
           /\ p \in Nat => Addr(p) \in Nat
BY Constants DEF Addr

\* Counting pages.
LEMMA PageSums ==
    ASSUME NEW p \in Int, NEW q \in Int
    PROVE  /\ Addr(q - p) = Addr(q) - Addr(p)
           /\ Addr(p + q) = Addr(p) + Addr(q)
BY Constants DEF Addr

\* kmalloc_aligned loses less than a page.
LEMMA Aligned ==
    ASSUME NEW a \in Nat
    PROVE  AlignUp(a) \in Nat /\ a <= AlignUp(a) /\ AlignUp(a) < a + PageSz
<1>1. PageSz \in Nat \ {0} /\ a + PageSz - 1 \in Nat
  BY Constants
<1> DEFINE x == a + PageSz - 1
<1>2. (x \div PageSz) * PageSz \in Int
  BY <1>1
<1>3. (x \div PageSz) * PageSz <= x /\ x < (x \div PageSz) * PageSz + PageSz
  BY <1>1
<1>4. QED
  BY <1>1, <1>2, <1>3 DEF AlignUp

\* The numbers of a segment and of its pages.
LEMMA SegmentPages ==
    ASSUME NEW seg \in Segment
    PROVE  /\ PageCount(seg) \in Nat
           /\ seg.page \in Nat /\ seg.off \in 0 .. PageSz - 1 /\ seg.memsz \in Nat
<1>1. /\ seg.page \in Nat /\ seg.off \in 0 .. PageSz - 1 /\ seg.memsz \in Nat
      /\ PageSz \in Nat \ {0}
  <2>1. seg.page \in UserPages /\ seg.off \in 0 .. PageSz - 1 /\ seg.memsz \in 0 .. MaxSize
    BY DEF Segment
  <2>2. seg.page \in Nat
    BY <2>1, Constants, Zenon
  <2>3. seg.memsz \in Nat
    BY <2>1, Constants
  <2>4. QED
    BY <2>1, <2>2, <2>3, Constants, Zenon
<1>2. PICK a \in Nat : a = seg.memsz + PageSz - 1
  BY <1>1
<1>3. PageCount(seg) \in Nat
  BY <1>2, PageOf DEF PageCount
<1>4. QED
  BY <1>1, <1>3

\* What loading a segment leaves in memory.
LEMMA SegmentWrites ==
    ASSUME NEW seg, NEW got, NEW base, NEW c \in Cell
    PROVE  SegmentMem(seg, got, base)[c] =
              IF c \in Cells(base + seg.off, got) THEN Byte(c - (base + seg.off), got)
              ELSE IF c \in Cells(base, PageCount(seg) * PageSz) THEN 0 ELSE mem[c]
BY DEF SegmentMem, Written, Zero

-----------------------------------------------------------------------------
(***************************************************************************)
(* The heap: everything handed out lies below heap_ptr, and apart.         *)
(***************************************************************************)

Layout ==
    /\ heap_ptr \in Nat
    /\ \A c \in kernel : c \in Nat /\ c < heap_ptr
    /\ \A p \in DOMAIN pages :
          /\ p \in Nat /\ pages[p] \in Nat /\ pages[p] + PageSz <= heap_ptr
          /\ \A c \in kernel : c < pages[p] \/ pages[p] + PageSz <= c
          /\ \A q \in DOMAIN pages \ {p} :
                pages[p] + PageSz <= pages[q] \/ pages[q] + PageSz <= pages[p]

\* The kernel finds what it has put into its memory, and the program its image.
Content ==
    InRam =>
        /\ \A c \in kernel : mem[c] = Kernel
        /\ \A a \in DOMAIN image :
              /\ a \div PageSz \in DOMAIN pages
              /\ mem[pages[a \div PageSz] + (a % PageSz)] = image[a]

MemInv == Layout /\ Content /\ DOMAIN image \subseteq Nat

\* Pages of new memory lie apart from all that was handed out before.
LEMMA MappedApart ==
    ASSUME Layout, NEW v \in Nat, NEW n \in Nat, NEW base \in Nat, NEW top \in Nat,
           heap_ptr <= base, base + Addr(n) <= top,
           pages' = Mapped(v, n, base)
    PROVE  /\ \A p \in DOMAIN pages' :
                 /\ p \in Nat /\ pages'[p] \in Nat /\ pages'[p] + PageSz <= top
                 /\ \/ p \notin v .. v + n - 1 /\ p \in DOMAIN pages /\ pages'[p] = pages[p]
                    \/ p \in v .. v + n - 1 /\ base <= pages'[p]
                 /\ \A q \in DOMAIN pages' \ {p} :
                       pages'[p] + PageSz <= pages'[q] \/ pages'[q] + PageSz <= pages'[p]
           /\ \A p \in v .. v + n - 1 :
                 p \in DOMAIN pages' /\ pages'[p] = base + (Addr(p) - Addr(v))
           /\ \A p \in DOMAIN pages \ (v .. v + n - 1) :
                 p \in DOMAIN pages' /\ pages'[p] = pages[p]
<1> DEFINE new == v .. v + n - 1
<1>1. /\ PageSz \in Nat \ {0} /\ heap_ptr \in Nat
      /\ Addr(n) \in Nat /\ Addr(v) \in Nat
  BY Constants, PagesInOrder DEF Layout
<1>2. DOMAIN pages' = DOMAIN pages \cup new
  BY DEF Mapped
<1>3. ASSUME NEW p \in new
      PROVE  /\ p \in Nat /\ pages'[p] = base + (Addr(p) - Addr(v))
             /\ Addr(p) \in Nat /\ Addr(v) <= Addr(p)
             /\ Addr(p) + PageSz <= Addr(v) + Addr(n)
  <2>1. p \in Nat /\ v <= p /\ p < v + n /\ v + n \in Int
    OBVIOUS
  <2>2. pages'[p] = base + Addr(p - v)
    BY <1>2 DEF Mapped, Addr
  <2>3. /\ Addr(p - v) = Addr(p) - Addr(v)
        /\ Addr(v + n) = Addr(v) + Addr(n)
        /\ Addr(p) \in Nat
        /\ Addr(p) + PageSz <= Addr(v + n)
        /\ v < p => Addr(v) + PageSz <= Addr(p)
    <3>1. Addr(p - v) = Addr(p) - Addr(v) /\ Addr(v + n) = Addr(v) + Addr(n)
      BY <2>1, PageSums
    <3>2. /\ Addr(p) \in Nat /\ Addr(p) + PageSz <= Addr(v + n)
          /\ v < p => Addr(v) + PageSz <= Addr(p)
      BY <2>1, PagesInOrder
    <3>3. QED
      BY <3>1, <3>2
  <2>4. Addr(v) <= Addr(p)
    <3>1. CASE v = p
      BY <1>1, <3>1
    <3>2. CASE v < p
      BY <1>1, <2>3, <3>2
    <3>3. QED
      BY <2>1, <3>1, <3>2
  <2>5. QED
    BY <2>1, <2>2, <2>3, <2>4
<1>4. ASSUME NEW p \in DOMAIN pages \ new
      PROVE  /\ p \in DOMAIN pages' /\ pages'[p] = pages[p] /\ p \in Nat
             /\ pages[p] \in Nat /\ pages[p] + PageSz <= heap_ptr
  <2>1. p \in DOMAIN pages' /\ pages'[p] = pages[p]
    BY <1>2 DEF Mapped
  <2>2. QED
    BY <2>1 DEF Layout
<1>5. ASSUME NEW p \in new
      PROVE  pages'[p] \in Nat /\ base <= pages'[p] /\ pages'[p] + PageSz <= top
  BY <1>1, <1>3
<1> HIDE DEF new
<1>6. ASSUME NEW p \in DOMAIN pages', NEW q \in DOMAIN pages', p # q
      PROVE  pages'[p] + PageSz <= pages'[q] \/ pages'[q] + PageSz <= pages'[p]
  <2>1. CASE p \in new /\ q \in new
    <3>1. /\ p \in Nat /\ q \in Nat /\ Addr(p) \in Nat /\ Addr(q) \in Nat
          /\ pages'[p] = base + (Addr(p) - Addr(v))
          /\ pages'[q] = base + (Addr(q) - Addr(v))
      BY <1>3, <2>1
    <3>2. p < q => Addr(p) + PageSz <= Addr(q)
      BY <3>1, PagesInOrder
    <3>3. q < p => Addr(q) + PageSz <= Addr(p)
      BY <3>1, PagesInOrder
    <3>4. QED
      BY <1>1, <1>6, <3>1, <3>2, <3>3
  <2>2. CASE p \in new /\ q \notin new
    BY <1>1, <1>2, <1>4, <1>5, <2>2
  <2>3. CASE p \notin new /\ q \in new
    BY <1>1, <1>2, <1>4, <1>5, <2>3
  <2>4. CASE p \notin new /\ q \notin new
    BY <1>2, <1>4, <1>6, <2>4 DEF Layout
  <2>5. QED
    BY <2>1, <2>2, <2>3, <2>4
<1>7. ASSUME NEW p \in DOMAIN pages'
      PROVE  /\ p \in Nat /\ pages'[p] \in Nat /\ pages'[p] + PageSz <= top
             /\ \/ p \notin new /\ p \in DOMAIN pages /\ pages'[p] = pages[p]
                \/ p \in new /\ base <= pages'[p]
  <2>1. heap_ptr <= top
    BY <1>1
  <2>2. QED
    BY <1>1, <1>2, <1>3, <1>4, <1>5, <2>1
<1>8. QED
  BY <1>2, <1>3, <1>4, <1>6, <1>7 DEF new

\* An address between two pages lies in a page between them.
LEMMA PageBetween ==
    ASSUME NEW v \in Nat, NEW n \in Nat, NEW a \in Nat, Addr(v) <= a, a < Addr(v + n)
    PROVE  a \div PageSz \in v .. v + n - 1
<1>1. PICK q \in Nat : q = a \div PageSz
  BY PageOf
<1>2. Addr(q) <= a /\ a < Addr(q) + PageSz
  <2>1. a = Addr(q) + (a % PageSz) /\ a % PageSz \in 0 .. PageSz - 1 /\ Addr(q) \in Nat
    BY <1>1, PageOf, PagesInOrder
  <2>2. QED
    BY <2>1, Constants
<1>3. /\ Addr(q) \in Nat /\ Addr(v) \in Nat /\ Addr(v + n) \in Nat
      /\ q < v => Addr(q) + PageSz <= Addr(v)
      /\ v + n < q => Addr(v + n) + PageSz <= Addr(q)
  <2>1. v + n \in Nat
    OBVIOUS
  <2>2. QED
    BY <2>1, PagesInOrder
<1>4. ~ (q < v) /\ ~ (v + n < q) /\ q # v + n
  BY <1>2, <1>3, Constants
<1>5. QED
  BY <1>1, <1>4

\* What is written above heap_ptr spoils nothing.
LEMMA OldContent ==
    ASSUME MemInv, InRam, \A c \in Cell : c < heap_ptr => mem'[c] = mem[c]
    PROVE  /\ \A c \in kernel : mem'[c] = Kernel
           /\ \A a \in DOMAIN image :
                 /\ a \div PageSz \in DOMAIN pages
                 /\ mem'[pages[a \div PageSz] + (a % PageSz)] = image[a]
<1>1. ASSUME NEW c \in Nat, c < heap_ptr PROVE mem'[c] = mem[c]
  <2>1. c \in Cell
    BY <1>1, Constants DEF MemInv, Layout, InRam, Cell
  <2>2. QED
    BY <1>1, <2>1
<1>2. \A c \in kernel : mem'[c] = Kernel
  BY <1>1 DEF MemInv, Layout, Content
<1>3. ASSUME NEW a \in DOMAIN image
      PROVE  /\ a \div PageSz \in DOMAIN pages
             /\ mem'[pages[a \div PageSz] + (a % PageSz)] = image[a]
  <2>1. a \in Nat /\ a % PageSz \in 0 .. PageSz - 1
    BY PageOf DEF MemInv
  <2>2. PICK q : q = a \div PageSz
    OBVIOUS
  <2>3. q \in DOMAIN pages /\ mem[pages[q] + (a % PageSz)] = image[a]
    BY <2>2 DEF MemInv, Content
  <2>4. PICK c \in Nat : c = pages[q] + (a % PageSz) /\ c < heap_ptr
    <3>1. pages[q] \in Nat /\ pages[q] + PageSz <= heap_ptr /\ heap_ptr \in Nat
      BY <2>3 DEF MemInv, Layout
    <3>2. QED
      BY <2>1, <3>1, Constants
  <2>5. QED
    BY <1>1, <2>2, <2>3, <2>4
<1>4. QED
  BY <1>2, <1>3

\* kmalloc and kmalloc_a at boot keep the memory in order.
LEMMA AllocKeeps ==
    ASSUME MemInv, NEW size \in 1 .. MaxSize, NEW aligned \in BOOLEAN,
           KernelAlloc(size, aligned)
    PROVE  MemInv'
<1>1. PICK at \in Nat :
         /\ heap_ptr <= at
         /\ heap_ptr' = at + size
         /\ mem' = Written(mem, Cells(at, size), OfKernel)
         /\ kernel' = kernel \cup Cells(at, size)
  <2>1. heap_ptr \in Nat
    BY DEF MemInv, Layout
  <2>2. CASE aligned
    <3>1. AlignUp(heap_ptr) \in Nat /\ heap_ptr <= AlignUp(heap_ptr)
      BY <2>1, Aligned
    <3>2. QED
      BY <2>2, <3>1 DEF KernelAlloc
  <2>3. CASE ~ aligned
    BY <2>1, <2>3 DEF KernelAlloc
  <2>4. QED
    BY <2>2, <2>3
<1>2. UNCHANGED <<pages, image>> /\ size \in Nat /\ size >= 1 /\ heap_ptr \in Nat
  BY Constants DEF KernelAlloc, MemInv, Layout
<1>3. \A c \in Cells(at, size) : c \in Nat /\ at <= c /\ c < at + size
  BY <1>2 DEF Cells
<1>4. Layout'
  <2>1. heap_ptr' \in Nat /\ heap_ptr <= heap_ptr'
    BY <1>1, <1>2
  <2>2. \A c \in kernel' : c \in Nat /\ c < heap_ptr'
    BY <1>1, <1>2, <1>3 DEF MemInv, Layout
  <2>3. ASSUME NEW p \in DOMAIN pages, NEW c \in kernel'
        PROVE  c < pages[p] \/ pages[p] + PageSz <= c
    <3>1. /\ pages[p] \in Nat /\ pages[p] + PageSz <= heap_ptr
          /\ c \in kernel => c < pages[p] \/ pages[p] + PageSz <= c
      BY DEF MemInv, Layout
    <3>2. QED
      BY <1>1, <1>2, <1>3, <3>1, Constants
  <2>4. ASSUME NEW p \in DOMAIN pages PROVE pages[p] + PageSz <= heap_ptr'
    <3>1. pages[p] \in Nat /\ pages[p] + PageSz <= heap_ptr
      BY DEF MemInv, Layout
    <3>2. QED
      BY <1>2, <2>1, <3>1, Constants
  <2>5. QED
    BY <1>2, <2>1, <2>2, <2>3, <2>4 DEF MemInv, Layout
<1>5. Content'
  <2> SUFFICES ASSUME InRam'
               PROVE  /\ \A c \in kernel' : mem'[c] = Kernel
                      /\ \A a \in DOMAIN image :
                            /\ a \div PageSz \in DOMAIN pages
                            /\ mem'[pages[a \div PageSz] + (a % PageSz)] = image[a]
    BY <1>2 DEF Content
  <2>1. InRam /\ at + size <= RamEnd
    BY <1>1, <1>2, Constants DEF InRam
  <2>2. \A c \in Cell : mem'[c] = IF c \in Cells(at, size) THEN Kernel ELSE mem[c]
    BY <1>1 DEF Written, OfKernel
  <2>3. \A c \in Cell : c < heap_ptr => mem'[c] = mem[c]
    BY <1>1, <1>2, <1>3, <2>2, Constants DEF Cell
  <2>4. \A c \in Cells(at, size) : c \in Cell
    BY <1>1, <1>2, <1>3, <2>1, Constants DEF Cell
  <2>5. QED
    BY <1>1, <2>1, <2>2, <2>3, <2>4, OldContent
<1>6. QED
  BY <1>2, <1>4, <1>5 DEF MemInv

\* Mapping new memory, and taking what lies above it for the kernel, keeps all apart.
LEMMA MapKeepsLayout ==
    ASSUME Layout, NEW v \in Nat, NEW n \in Nat, NEW base \in Nat, NEW top \in Nat,
           heap_ptr <= base, base + Addr(n) <= top,
           heap_ptr' \in Nat, top <= heap_ptr',
           pages' = Mapped(v, n, base),
           \A c \in kernel' : c \in kernel \/ (c \in Nat /\ top <= c /\ c < heap_ptr')
    PROVE  Layout'
<1>1. heap_ptr \in Nat /\ Addr(n) \in Nat /\ PageSz \in Nat \ {0}
  BY PagesInOrder, Constants DEF Layout
<1>2. \A c \in kernel' : c \in Nat /\ c < heap_ptr'
  <2>1. heap_ptr <= heap_ptr'
    BY <1>1
  <2>2. QED
    BY <1>1, <2>1 DEF Layout
<1>3. ASSUME NEW p \in DOMAIN pages'
      PROVE  /\ p \in Nat /\ pages'[p] \in Nat /\ pages'[p] + PageSz <= heap_ptr'
             /\ \A c \in kernel' : c < pages'[p] \/ pages'[p] + PageSz <= c
             /\ \A q \in DOMAIN pages' \ {p} :
                   pages'[p] + PageSz <= pages'[q] \/ pages'[q] + PageSz <= pages'[p]
  <2>1. /\ p \in Nat /\ pages'[p] \in Nat /\ pages'[p] + PageSz <= top
        /\ \/ p \in DOMAIN pages /\ pages'[p] = pages[p]
           \/ base <= pages'[p]
        /\ \A q \in DOMAIN pages' \ {p} :
              pages'[p] + PageSz <= pages'[q] \/ pages'[q] + PageSz <= pages'[p]
    BY MappedApart
  <2>2. pages'[p] + PageSz <= heap_ptr'
    BY <1>1, <2>1
  <2>3. ASSUME NEW c \in kernel' PROVE c < pages'[p] \/ pages'[p] + PageSz <= c
    <3>1. CASE c \in kernel
      <4>1. c \in Nat /\ c < heap_ptr
        BY <3>1 DEF Layout
      <4>2. p \in DOMAIN pages /\ pages'[p] = pages[p] =>
               c < pages'[p] \/ pages'[p] + PageSz <= c
        BY <3>1 DEF Layout
      <4>3. QED
        BY <1>1, <2>1, <4>1, <4>2
    <3>2. CASE c \in Nat /\ top <= c
      BY <1>1, <2>1, <3>2
    <3>3. QED
      BY <3>1, <3>2
  <2>4. QED
    BY <2>1, <2>2, <2>3
<1>4. QED
  BY <1>2, <1>3 DEF Layout

\* What the program keeps of its memory when n pages from v on are mapped anew is
\* where it was.
LEMMA KeptContent ==
    ASSUME MemInv, InRam, \A c \in Cell : c < heap_ptr => mem'[c] = mem[c],
           NEW v \in Nat, NEW n \in Nat, NEW base, pages' = Mapped(v, n, base),
           NEW a \in Kept(v, n)
    PROVE  /\ a \div PageSz \in DOMAIN pages'
           /\ mem'[pages'[a \div PageSz] + (a % PageSz)] = image[a]
<1>1. a \in DOMAIN image /\ a \div PageSz \notin v .. v + n - 1
  BY DEF Kept
<1>2. PICK q : q = a \div PageSz
  OBVIOUS
<1>3. q \in DOMAIN pages /\ mem'[pages[q] + (a % PageSz)] = image[a]
  BY <1>1, <1>2, OldContent
<1>4. q \in DOMAIN pages' /\ pages'[q] = pages[q]
  BY <1>1, <1>2, <1>3 DEF Mapped
<1>5. QED
  BY <1>2, <1>3, <1>4

\* Where the address a of a page mapped anew is in memory.
LEMMA NewCell ==
    ASSUME Layout, NEW v \in Nat, NEW n \in Nat, NEW base \in Nat, heap_ptr <= base,
           pages' = Mapped(v, n, base),
           NEW a \in Nat, Addr(v) <= a, a < Addr(v + n)
    PROVE  /\ a \div PageSz \in DOMAIN pages'
           /\ pages'[a \div PageSz] + (a % PageSz) = base + (a - Addr(v))
           /\ a - Addr(v) \in Nat /\ a - Addr(v) < Addr(n)
<1>1. PICK q \in Nat : q = a \div PageSz /\ q \in v .. v + n - 1
  BY PageBetween, PageOf
<1>2. /\ a = Addr(q) + (a % PageSz) /\ a % PageSz \in 0 .. PageSz - 1
      /\ Addr(q) \in Nat /\ Addr(v) \in Nat /\ Addr(n) \in Nat
      /\ PageSz \in Nat
  <2>1. a = Addr(q) + (a % PageSz) /\ a % PageSz \in 0 .. PageSz - 1
    BY <1>1, PageOf
  <2>2. Addr(q) \in Nat /\ Addr(v) \in Nat /\ Addr(n) \in Nat
    BY PagesInOrder
  <2>3. QED
    BY <2>1, <2>2, Constants
<1>3. Addr(v + n) = Addr(v) + Addr(n)
  BY PageSums
<1>4. q \in DOMAIN pages' /\ pages'[q] = base + (Addr(q) - Addr(v))
  <2>1. PICK top \in Nat : base + Addr(n) <= top
    BY <1>2
  <2>2. QED
    BY <1>1, <2>1, MappedApart
<1>5. QED
  BY <1>1, <1>2, <1>3, <1>4

\* Loading a segment puts it where the program is linked to find it, whatever was
\* loaded before and however many bytes the file has.
LEMMA LoadKeeps ==
    ASSUME MemInv, NEW seg \in Segment, NEW got \in 0 .. MaxSize, LoadSegment(seg, got)
    PROVE  MemInv'
<1> DEFINE n == PageCount(seg)
           v == seg.page
           base == AlignUp(heap_ptr)
           at == base + seg.off
           first == Addr(v) + seg.off
           own == {a \in Cells(first, seg.memsz) : a < Addr(v + n)}
           kept == Kept(v, n)
<1>1. /\ mem' = SegmentMem(seg, got, base)
      /\ pages' = Mapped(v, n, base)
      /\ heap_ptr' = heap_ptr + Addr(n) + PageSz
      /\ kernel' = kernel
      /\ image' = [a \in own \cup kept |->
                      IF a \in own THEN Byte(a - first, got) ELSE image[a]]
  BY DEF LoadSegment, Reserve, Addr
<1>2. /\ n \in Nat /\ v \in Nat /\ seg.off \in 0 .. PageSz - 1 /\ seg.memsz \in Nat
      /\ heap_ptr \in Nat /\ base \in Nat /\ heap_ptr <= base /\ base < heap_ptr + PageSz
      /\ PageSz \in Nat \ {0} /\ Addr(n) \in Nat /\ Addr(v) \in Nat /\ got \in Nat
      /\ Layout
  <2>1. heap_ptr \in Nat /\ Layout
    BY DEF MemInv, Layout
  <2>2. n \in Nat /\ v \in Nat /\ seg.off \in 0 .. PageSz - 1 /\ seg.memsz \in Nat
    BY SegmentPages
  <2>3. base \in Nat /\ heap_ptr <= base /\ base < heap_ptr + PageSz
    BY <2>1, Aligned
  <2>4. Addr(n) \in Nat /\ Addr(v) \in Nat
    BY <2>2, PagesInOrder
  <2>5. got \in Nat
    BY Constants
  <2>6. QED
    BY <2>1, <2>2, <2>3, <2>4, <2>5, Constants
<1>3. \A c \in Cell : mem'[c] =
         IF c \in Cells(at, got) THEN Byte(c - at, got)
         ELSE IF c \in Cells(base, Addr(n)) THEN 0 ELSE mem[c]
  BY <1>1, SegmentWrites DEF Addr
<1> HIDE DEF n, v, base, at, first, own, kept
<1>4. at = base + seg.off /\ first = Addr(v) + seg.off /\ at \in Nat /\ first \in Nat
  BY <1>2 DEF at, first
<1>5. \A a : a \in own <=> /\ a \in Nat /\ first <= a /\ a < first + seg.memsz
                          /\ a < Addr(v + n)
  BY <1>2, <1>4 DEF own, Cells
<1>6. /\ \A c \in Cell : c \in Cells(at, got) <=> at <= c /\ c < at + got
      /\ \A c \in Cell : c \in Cells(base, Addr(n)) <=> base <= c /\ c < base + Addr(n)
  BY <1>2, <1>4, Constants DEF Cells, Cell
<1>7. \A c \in Cell : c < heap_ptr => mem'[c] = mem[c]
  BY <1>2, <1>3, <1>4, <1>6, Constants DEF Cell
<1>8. Layout'
  <2>1. PICK top \in Nat : top = heap_ptr' /\ base + Addr(n) <= top
    BY <1>1, <1>2
  <2>2. QED
    BY <1>1, <1>2, <2>1, MapKeepsLayout
<1>9. ASSUME InRam', NEW a \in own
      PROVE  /\ a \div PageSz \in DOMAIN pages'
             /\ mem'[pages'[a \div PageSz] + (a % PageSz)] = Byte(a - first, got)
  <2>1. a \in Nat /\ Addr(v) <= a /\ a < Addr(v + n)
    BY <1>2, <1>4, <1>5
  <2>2. /\ a \div PageSz \in DOMAIN pages'
        /\ pages'[a \div PageSz] + (a % PageSz) = base + (a - Addr(v))
        /\ a - Addr(v) \in Nat /\ a - Addr(v) < Addr(n)
    BY <1>1, <1>2, <2>1, NewCell
  <2>3. PICK c \in Nat : c = base + (a - Addr(v))
    BY <1>2, <2>2
  <2>4. /\ c \in Cell /\ c - at = a - first /\ base <= c /\ c < base + Addr(n)
        /\ at <= c
    <3>1. c - at = a - first /\ base <= c /\ c < base + Addr(n) /\ at <= c
      BY <1>2, <1>4, <1>5, <2>1, <2>2, <2>3
    <3>2. c < RamEnd
      BY <1>1, <1>2, <1>9, <3>1, Constants DEF InRam
    <3>3. QED
      BY <3>1, <3>2, Constants DEF Cell
  <2>5. mem'[c] = IF c < at + got THEN Byte(a - first, got) ELSE 0
    BY <1>3, <1>6, <2>4
  <2>6. ~ (c < at + got) => Byte(a - first, got) = 0
    <3>1. c < at + got <=> a - first < got
      BY <1>2, <1>4, <2>1, <2>4
    <3>2. QED
      BY <3>1 DEF Byte
  <2>7. QED
    BY <2>2, <2>3, <2>5, <2>6
<1>10. Content'
  <2> SUFFICES ASSUME InRam'
               PROVE  /\ \A c \in kernel' : mem'[c] = Kernel
                      /\ \A a \in DOMAIN image' :
                            /\ a \div PageSz \in DOMAIN pages'
                            /\ mem'[pages'[a \div PageSz] + (a % PageSz)] = image'[a]
    BY DEF Content
  <2>1. InRam
    BY <1>1, <1>2, Constants DEF InRam
  <2>2. \A c \in kernel' : mem'[c] = Kernel
    BY <1>1, <1>7, <2>1, OldContent
  <2>3. ASSUME NEW a \in DOMAIN image'
        PROVE  /\ a \div PageSz \in DOMAIN pages'
               /\ mem'[pages'[a \div PageSz] + (a % PageSz)] = image'[a]
    <3>1. CASE a \in own
      BY <1>1, <1>9, <3>1
    <3>2. CASE a \notin own
      <4>1. a \in kept /\ image'[a] = image[a]
        BY <1>1, <3>2
      <4>2. QED
        BY <1>1, <1>2, <1>7, <2>1, <4>1, KeptContent DEF kept
    <3>3. QED
      BY <3>1, <3>2
  <2>4. QED
    BY <2>2, <2>3
<1>11. DOMAIN image' \subseteq Nat
  <2>1. kept \subseteq Nat
    BY DEF MemInv, kept, Kept
  <2>2. QED
    BY <1>1, <1>5, <2>1
<1>12. QED
  BY <1>8, <1>10, <1>11 DEF MemInv

\* The place of the stack, and the number of tables that it may need.
LEMMA StackPlace ==
    ASSUME NEW v, v = StackTop - StackPages
    PROVE  v \in Nat /\ Cardinality(Missing(v, StackPages)) \in Nat
<1>1. v \in Nat
  <2>1. v \in Int
    BY Constants
  <2>2. v * PageSz >= 0
    BY <2>1, ExecAssumption
  <2>3. QED
    BY <2>1, <2>2, Constants
<1>2. IsFiniteSet({p \div Span : p \in v .. v + StackPages - 1})
  <2>1. IsFiniteSet(v .. v + StackPages - 1)
    BY <1>1, Constants, FS_Interval
  <2> DEFINE S == v .. v + StackPages - 1
             T == {p \div Span : p \in S}
             f == [p \in S |-> p \div Span]
  <2>2. f \in Surjection(S, T)
    <3> HIDE DEF S
    <3>1. f \in [S -> T] /\ \A t \in T : \E p \in S : f[p] = t
      OBVIOUS
    <3>2. QED
      BY <3>1 DEF Surjection
  <2>3. QED
    BY <2>1, <2>2, FS_Surjection
<1>3. IsFiniteSet(Missing(v, StackPages))
  BY <1>2, FS_Difference DEF Missing
<1>4. QED
  BY <1>1, <1>3, FS_CardinalityType

\* Where the page tables are: in the memory that paging_map_page takes for them.
LEMMA TablesInHeap ==
    ASSUME NEW h \in Nat, NEW v, NEW n, NEW m \in Nat,
           m = Cardinality(Missing(v, n)),
           NEW c \in TableCells(h, v, n)
    PROVE  c \in Nat /\ h <= c /\ c < h + Addr(m + m)
<1>1. PICK k \in 0 .. m - 1 : c \in Cells(AlignUp(h + k * 2 * PageSz), PageSz)
  BY DEF TableCells
<1>2. PICK x \in Nat : x = Addr(k + k)
  BY PagesInOrder
<1>3. k * 2 * PageSz = x
  BY <1>2, Constants DEF Addr
<1>4. PICK b \in Nat : b = AlignUp(h + x) /\ h + x <= b /\ b < h + x + PageSz
  BY Aligned
<1>5. c \in Nat /\ b <= c /\ c < b + PageSz
  BY <1>1, <1>3, <1>4, Constants DEF Cells
<1>6. x + PageSz + PageSz <= Addr(m + m)
  <2>1. x + PageSz <= Addr(k + k + 1)
    BY <1>2, PagesInOrder
  <2>2. Addr(k + k + 1) + PageSz <= Addr(m + m)
    BY PagesInOrder
  <2>3. Addr(k + k + 1) \in Int /\ Addr(m + m) \in Int
    BY PagesInOrder
  <2>4. QED
    BY <2>1, <2>2, <2>3, Constants
<1>7. Addr(m + m) \in Int
  BY PagesInOrder
<1>8. QED
  BY <1>4, <1>5, <1>6, <1>7, Constants

\* The stack is a stack of zeros, apart from all else, and so are its page tables.
LEMMA EnterKeeps ==
    ASSUME MemInv, Enter
    PROVE  MemInv'
<1> DEFINE v == StackTop - StackPages
           n == StackPages
           base == AlignUp(heap_ptr)
           h == heap_ptr + Addr(n) + PageSz
           m == Cardinality(Missing(v, n))
           own == Cells(Addr(v), Addr(n))
           table == TableCells(h, v, n)
           kept == Kept(v, n)
<1>1. /\ mem' = Written(Written(mem, Cells(base, Addr(n)), Zero), table, OfKernel)
      /\ heap_ptr' = h + m * Reserve(0, PageSz)
      /\ pages' = Mapped(v, n, base)
      /\ kernel' = kernel \cup table
      /\ image' = [a \in own \cup kept |-> IF a \in own THEN 0 ELSE image[a]]
  BY DEF Enter, Reserve, Addr
<1>2. v \in Nat /\ m \in Nat
  BY StackPlace
<1>3. /\ n \in Nat /\ heap_ptr \in Nat /\ base \in Nat
      /\ heap_ptr <= base /\ base < heap_ptr + PageSz
      /\ PageSz \in Nat \ {0} /\ Addr(n) \in Nat /\ Addr(v) \in Nat /\ Layout
  <2>1. heap_ptr \in Nat /\ Layout
    BY DEF MemInv, Layout
  <2>2. n \in Nat /\ PageSz \in Nat \ {0}
    BY Constants
  <2>3. base \in Nat /\ heap_ptr <= base /\ base < heap_ptr + PageSz
    BY <2>1, Aligned
  <2>4. Addr(n) \in Nat /\ Addr(v) \in Nat
    BY <1>2, <2>2, PagesInOrder
  <2>5. QED
    BY <2>1, <2>2, <2>3, <2>4
<1>4. h \in Nat /\ base + Addr(n) <= h /\ heap_ptr <= h
  BY <1>3
<1>5. Addr(m + m) \in Nat /\ m * Reserve(0, PageSz) = Addr(m + m)
  <2>1. Addr(m + m) \in Nat
    BY <1>2, PagesInOrder
  <2>2. Reserve(0, PageSz) = 2 * PageSz
    BY <1>3 DEF Reserve
  <2>3. m * (2 * PageSz) = (m + m) * PageSz
    <3> HIDE DEF m
    <3>1. QED
      BY <1>2, <1>3
  <2>4. QED
    BY <2>1, <2>2, <2>3 DEF Addr
<1>6. \A c \in table : c \in Nat /\ h <= c /\ c < h + Addr(m + m)
  BY <1>2, <1>4, TablesInHeap
<1>7. \A c \in Cell : mem'[c] = IF c \in table THEN Kernel
                               ELSE IF c \in Cells(base, Addr(n)) THEN 0 ELSE mem[c]
  BY <1>1 DEF Written, Zero, OfKernel
<1> HIDE DEF v, n, base, h, m, own, table, kept
<1>8. heap_ptr' = h + Addr(m + m)
  BY <1>1, <1>5
<1>9. \A a : a \in own <=> a \in Nat /\ Addr(v) <= a /\ a < Addr(v + n)
  <2>1. Addr(v + n) = Addr(v) + Addr(n)
    BY <1>2, <1>3, PageSums
  <2>2. QED
    BY <1>3, <2>1 DEF own, Cells
<1>10. \A c \in Cell : c \in Cells(base, Addr(n)) <=> base <= c /\ c < base + Addr(n)
  BY <1>3, Constants DEF Cells, Cell
<1>11. \A c \in Cell : c < heap_ptr => mem'[c] = mem[c]
  BY <1>3, <1>4, <1>6, <1>7, <1>10, Constants DEF Cell
<1>12. Layout'
  <2>1. heap_ptr' \in Nat /\ h <= heap_ptr'
    BY <1>4, <1>5, <1>8
  <2>2. \A c \in kernel' : c \in kernel \/ (c \in Nat /\ h <= c /\ c < heap_ptr')
    BY <1>1, <1>6, <1>8
  <2>3. QED
    BY <1>1, <1>2, <1>3, <1>4, <2>1, <2>2, MapKeepsLayout
<1>13. ASSUME InRam' PROVE InRam /\ h + Addr(m + m) <= RamEnd
  BY <1>3, <1>4, <1>5, <1>8, <1>13, Constants DEF InRam
<1>14. ASSUME InRam', NEW a \in own
       PROVE  /\ a \div PageSz \in DOMAIN pages'
              /\ mem'[pages'[a \div PageSz] + (a % PageSz)] = 0
  <2>1. /\ a \div PageSz \in DOMAIN pages'
        /\ pages'[a \div PageSz] + (a % PageSz) = base + (a - Addr(v))
        /\ a - Addr(v) \in Nat /\ a - Addr(v) < Addr(n)
    <3>1. a \in Nat /\ Addr(v) <= a /\ a < Addr(v + n)
      BY <1>9
    <3>2. QED
      BY <1>1, <1>2, <1>3, <3>1, NewCell
  <2>2. PICK c \in Nat : c = base + (a - Addr(v)) /\ base <= c /\ c < base + Addr(n)
    BY <1>3, <2>1
  <2>3. c < h /\ c < RamEnd
    BY <1>3, <1>4, <1>5, <1>13, <1>14, <2>2, Constants
  <2>4. c \in Cell /\ c \notin table
    BY <1>4, <1>6, <2>3, Constants DEF Cell
  <2>5. mem'[c] = 0
    BY <1>7, <1>10, <2>2, <2>4
  <2>6. QED
    BY <2>1, <2>2, <2>5
<1>15. Content'
  <2> SUFFICES ASSUME InRam'
               PROVE  /\ \A c \in kernel' : mem'[c] = Kernel
                      /\ \A a \in DOMAIN image' :
                            /\ a \div PageSz \in DOMAIN pages'
                            /\ mem'[pages'[a \div PageSz] + (a % PageSz)] = image'[a]
    BY DEF Content
  <2>1. InRam
    BY <1>13
  <2>2. ASSUME NEW c \in kernel' PROVE mem'[c] = Kernel
    <3>1. CASE c \in table
      <4>1. c \in Cell
        BY <1>4, <1>5, <1>6, <1>13, <3>1, Constants DEF Cell
      <4>2. QED
        BY <1>7, <3>1, <4>1
    <3>2. CASE c \notin table
      <4>1. c \in kernel
        BY <1>1, <3>2
      <4>2. QED
        BY <1>11, <2>1, <4>1, OldContent
    <3>3. QED
      BY <3>1, <3>2
  <2>3. ASSUME NEW a \in DOMAIN image'
        PROVE  /\ a \div PageSz \in DOMAIN pages'
               /\ mem'[pages'[a \div PageSz] + (a % PageSz)] = image'[a]
    <3>1. CASE a \in own
      BY <1>1, <1>14, <3>1
    <3>2. CASE a \notin own
      <4>1. a \in kept /\ image'[a] = image[a]
        BY <1>1, <3>2
      <4>2. QED
        BY <1>1, <1>2, <1>3, <1>11, <2>1, <4>1, KeptContent DEF kept
    <3>3. QED
      BY <3>1, <3>2
  <2>4. QED
    BY <2>2, <2>3
<1>16. DOMAIN image' \subseteq Nat
  <2>1. kept \subseteq Nat
    BY DEF MemInv, kept, Kept
  <2>2. QED
    BY <1>1, <1>9, <2>1
<1>17. QED
  BY <1>12, <1>15, <1>16 DEF MemInv

\* The memory is in order at the start and stays so.
LEMMA MemAlways == Spec => []MemInv
<1>1. Init => MemInv
  <2> SUFFICES ASSUME Init PROVE MemInv
    OBVIOUS
  <2>1. DOMAIN pages = {} /\ DOMAIN image = {} /\ kernel = {} /\ heap_ptr \in Nat
    BY Constants DEF Init
  <2>2. QED
    BY <2>1 DEF MemInv, Layout, Content
<1>2. MemInv /\ [Next]_vars => MemInv'
  <2> SUFFICES ASSUME MemInv, [Next]_vars PROVE MemInv'
    OBVIOUS
  <2>1. ASSUME NEW size \in 1 .. MaxSize, NEW aligned \in BOOLEAN,
               KernelAlloc(size, aligned)
        PROVE  MemInv'
    BY <2>1, AllocKeeps
  <2>2. ASSUME NEW seg \in Segment, NEW got \in 0 .. MaxSize, LoadSegment(seg, got)
        PROVE  MemInv'
    BY <2>2, LoadKeeps
  <2>3. CASE Enter
    BY <2>3, EnterKeeps
  <2>4. ASSUME UNCHANGED <<mem, pages, heap_ptr, kernel, image>> PROVE MemInv'
    BY <2>4 DEF MemInv, Layout, Content, InRam
  <2>5. CASE StartInit \/ ExecStart \/ ExecFails \/ UNCHANGED vars
    BY <2>4, <2>5 DEF StartInit, ExecStart, ExecFails, vars
  <2>6. QED
    BY <2>1, <2>2, <2>3, <2>5 DEF Next
<1>3. QED
  BY <1>1, <1>2, PTL DEF Spec

\* As long as the memory lasts, a program finds its segments and its stack where it
\* is linked to find them: exec loads what follows in new memory, whatever the
\* programs before it left behind (LoadSegment and Enter are src/kernel/exec.c).
THEOREM ProgramsAreInPlace == Spec => []ImageInPlace
<1>1. MemInv => ImageInPlace
  BY DEF MemInv, Content, ImageInPlace
<1>2. QED
  BY <1>1, MemAlways, PTL

\* As long as the memory lasts, no page of a program is a page of another address
\* or holds memory of the kernel, and nobody has written over the kernel's own.
THEOREM MemoryHasOneOwner == Spec => []OneOwner
<1>1. ASSUME MemInv, InRam, NEW p \in DOMAIN pages
      PROVE  /\ Cells(pages[p], PageSz) \cap kernel = {}
             /\ \A q \in DOMAIN pages \ {p} : pages[p] # pages[q]
  <2>1. /\ pages[p] \in Nat
        /\ \A c \in kernel : c \in Nat /\ (c < pages[p] \/ pages[p] + PageSz <= c)
        /\ \A q \in DOMAIN pages \ {p} :
              /\ pages[q] \in Nat
              /\ pages[p] + PageSz <= pages[q] \/ pages[q] + PageSz <= pages[p]
    BY <1>1 DEF MemInv, Layout
  <2>2. Cells(pages[p], PageSz) \cap kernel = {}
    BY <2>1, Constants DEF Cells
  <2>3. QED
    BY <2>1, <2>2, Constants
<1>2. MemInv => OneOwner
  BY <1>1 DEF MemInv, Content, OneOwner
<1>3. QED
  BY <1>2, MemAlways, PTL
=============================================================================
