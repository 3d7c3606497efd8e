---------------------------- MODULE FlashProofs -----------------------------
(***************************************************************************)
(* Proofs about the sector cache of the serial flash, for any sizes of     *)
(* flash, sector and page, any writes and power failures anywhere.         *)
(***************************************************************************)
EXTENDS Flash, WellFoundedInduction, TLAPS

------------------------------------------------------------------------------
(* Pages and sectors *)

\* Every non-empty set of naturals has a least element: induction, in the form that the
\* provers can use.
LEMMA Least ==
  ASSUME NEW T, T \subseteq Nat, T # {}
  PROVE  \E x \in T : \A y \in T : x <= y
  <1>1. PICK R : IsWellFoundedOn(R, Nat) /\ \A x, y \in Nat : y < x => <<y, x>> \in R
    <2>1. IsWellFoundedOn(OpToRel(<, Nat), Nat)
      BY NatLessThanWellFounded
    <2>2. \A x, y \in Nat : y < x => <<y, x>> \in OpToRel(<, Nat)
      BY Zenon DEF OpToRel
    <2>. QED
      BY <2>1, <2>2, Zenon
  <1>2. PICK x \in T : \A y \in T : ~ (<<y, x>> \in R)
    BY <1>1, WFMin
  <1>3. \A y \in T : ~ (y < x)
    BY <1>1, <1>2
  <1>. QED
    BY <1>3

Multiple(d, n) == \E q \in Int : n = d * q

\* Multiples of d are at least d apart.
LEMMA Apart ==
  ASSUME NEW d \in Nat \ {0}, NEW m \in Int, NEW n \in Int, Multiple(d, m), Multiple(d, n), m < n
  PROVE  m + d <= n
  <1>1. PICK p \in Int : m = d * p
    BY DEF Multiple
  <1>2. PICK q \in Int : n = d * q
    BY DEF Multiple
  <1>3. q - p >= 1
    <2>1. ASSUME p - q >= 0 PROVE d * (p - q) >= 0
      BY <2>1
    <2>2. d * (p - q) = m - n
      BY <1>1, <1>2
    <2>. QED
      BY <2>1, <2>2
  <1>4. d * (q - p) >= d
    BY <1>3
  <1>5. d * (q - p) = n - m
    BY <1>1, <1>2
  <1>. QED
    BY <1>4, <1>5

\* What is left of a without its remainder is the multiple of d at or below a, and the
\* only one so near.
LEMMA Floor ==
  ASSUME NEW d \in Nat \ {0}, NEW a \in Nat
  PROVE  /\ a % d \in 0 .. d - 1 /\ a - (a % d) \in 0 .. a /\ a < a - (a % d) + d
         /\ Multiple(d, a - (a % d))
         /\ \A m \in Int : Multiple(d, m) /\ m <= a /\ a < m + d => a - (a % d) = m
  <1>1. PICK r \in 0 .. d - 1 : r = a % d
    OBVIOUS
  <1>2. PICK q \in Nat : q = a \div d
    OBVIOUS
  <1>3. a = d * q + r
    <2>1. a = d * (a \div d) + (a % d)
      OBVIOUS
    <2>. QED
      BY <1>1, <1>2, <2>1
  <1>4. PICK f \in Int : f = d * q
    OBVIOUS
  <1>5. f >= 0
    BY <1>4
  <1>6. f <= a /\ a < f + d /\ f = a - r
    BY <1>3, <1>4
  <1>7. Multiple(d, f)
    BY <1>4 DEF Multiple
  <1>8. ASSUME NEW m \in Int, Multiple(d, m), m <= a, a < m + d PROVE f = m
    <2>1. ~ (f < m)
      BY <1>6, <1>7, <1>8, Apart
    <2>2. ~ (m < f)
      BY <1>6, <1>7, <1>8, Apart
    <2>. QED
      BY <2>1, <2>2
  <1>. QED
    BY <1>1, <1>5, <1>6, <1>7, <1>8

LEMMA MultipleOfZero ==
  ASSUME NEW d \in Nat \ {0}, NEW a \in Nat
  PROVE  a % d = 0 <=> Multiple(d, a)
  <1>1. ASSUME a % d = 0 PROVE Multiple(d, a)
    <2>1. Multiple(d, a - (a % d))
      BY Floor
    <2>2. a - (a % d) = a
      BY <1>1
    <2>. QED
      BY <2>1, <2>2, Zenon
  <1>2. ASSUME Multiple(d, a) PROVE a % d = 0
    <2>1. a - (a % d) = a
      BY <1>2, Floor
    <2>2. a % d \in Int
      BY Floor
    <2>. QED
      BY <2>1, <2>2
  <1>. QED
    BY <1>1, <1>2

LEMMA MultipleSum ==
  ASSUME NEW d \in Nat \ {0}, NEW m \in Int, NEW n \in Int, Multiple(d, m), Multiple(d, n)
  PROVE  Multiple(d, m + n)
  <1>1. PICK p \in Int : m = d * p
    BY DEF Multiple
  <1>2. PICK q \in Int : n = d * q
    BY DEF Multiple
  <1>3. m + n = d * (p + q) /\ p + q \in Int
    BY <1>1, <1>2
  <1>. QED
    BY <1>3, Zenon DEF Multiple

LEMMA MultipleOfMultiple ==
  ASSUME NEW d \in Nat \ {0}, NEW e \in Nat, NEW m \in Int, Multiple(d, e), Multiple(e, m)
  PROVE  Multiple(d, m)
  <1>1. PICK p \in Int : e = d * p
    BY DEF Multiple
  <1>2. PICK q \in Int : m = e * q
    BY DEF Multiple
  <1>3. m = d * (p * q) /\ p * q \in Int
    <2>1. (d * p) * q = d * (p * q) /\ p * q \in Int
      OBVIOUS
    <2>2. m = (d * p) * q
      BY <1>1, <1>2, Zenon
    <2>. QED
      BY <2>1, <2>2, Zenon
  <1>. QED
    BY <1>3 DEF Multiple

\* The sector of an address: aligned, inside the flash, and the same for all its bytes.
LEMMA Sectors ==
  ASSUME NEW a \in Addr
  PROVE  /\ Block(a) \in Nat /\ Block(a) <= a /\ a < Block(a) + ERASE_SEC
         /\ Block(a) + ERASE_SEC <= g_uTotalSize
         /\ Multiple(ERASE_SEC, Block(a))
         /\ InSector(a) = a - Block(a) /\ InSector(a) \in 0 .. ERASE_SEC - 1
         /\ \A b \in Int : Block(a) <= b /\ b < Block(a) + ERASE_SEC => b \in Addr /\ Block(b) = Block(a)
  <1>. USE SizeAssumption
  <1>1. a \in Nat /\ a < g_uTotalSize
    BY DEF Addr
  <1>2. /\ a % ERASE_SEC \in 0 .. ERASE_SEC - 1 /\ a - (a % ERASE_SEC) \in 0 .. a
        /\ a < a - (a % ERASE_SEC) + ERASE_SEC /\ Multiple(ERASE_SEC, a - (a % ERASE_SEC))
    BY <1>1, Floor
  <1>3. PICK f : f = a - (a % ERASE_SEC) /\ f = Block(a)
    BY DEF Block, InSector
  <1>4. f \in 0 .. a /\ a < f + ERASE_SEC /\ Multiple(ERASE_SEC, f)
    BY <1>2, <1>3, Zenon
  <1>5. f + ERASE_SEC <= g_uTotalSize
    <2>1. Multiple(ERASE_SEC, g_uTotalSize)
      BY MultipleOfZero
    <2>2. f < g_uTotalSize
      BY <1>1, <1>4
    <2>. QED
      BY <1>4, <2>1, <2>2, Apart
  <1>6. PICK r \in 0 .. ERASE_SEC - 1 : r = InSector(a)
    BY <1>2 DEF InSector
  <1>7. r = a - f
    <2>1. f = a - r
      BY <1>3, <1>6, Zenon DEF Block
    <2>. QED
      BY <1>1, <2>1
  <1>8. ASSUME NEW b \in Int, f <= b, b < f + ERASE_SEC PROVE b \in Addr /\ Block(b) = f
    <2>1. b \in Nat /\ b \in Addr
      BY <1>4, <1>5, <1>8 DEF Addr
    <2>. QED
      BY <1>4, <1>8, <2>1, Floor DEF Block, InSector
  <1>. QED
    BY <1>3, <1>4, <1>5, <1>6, <1>7, <1>8

\* A page lies in one sector.
LEMMA Pages ==
  ASSUME NEW a \in Addr
  PROVE  /\ InPage(a) \in 0 .. PAGE - 1 /\ a - InPage(a) \in Addr
         /\ \A b \in Int : a - InPage(a) <= b /\ b < a - InPage(a) + PAGE => b \in Addr /\ Block(b) = Block(a)
  <1>. USE SizeAssumption
  <1>1. a \in Nat
    BY DEF Addr
  <1>2. PICK r \in 0 .. PAGE - 1 : r = InPage(a)
    BY <1>1, Floor DEF InPage
  <1>3. PICK p \in 0 .. a : p = a - r
    BY <1>1, <1>2, Floor DEF InPage
  <1>4. Multiple(PAGE, p)
    BY <1>1, <1>2, <1>3, Floor DEF InPage
  <1>5. PICK f \in Nat : f = Block(a)
    BY Sectors
  <1>6. f <= a /\ a < f + ERASE_SEC /\ Multiple(ERASE_SEC, f)
    BY <1>5, Sectors
  <1>7. Multiple(PAGE, ERASE_SEC)
    BY MultipleOfZero
  <1>8. Multiple(PAGE, f)
    BY <1>6, <1>7, MultipleOfMultiple
  <1>9. Multiple(PAGE, f + ERASE_SEC)
    BY <1>7, <1>8, MultipleSum
  <1>10. f <= p
    <2>1. ASSUME p < f PROVE FALSE
      <3>1. p + PAGE <= f
        BY <1>4, <1>8, <2>1, Apart
      <3>. QED
        BY <1>1, <1>2, <1>3, <1>6, <3>1
    <2>. QED
      BY <2>1
  <1>11. p + PAGE <= f + ERASE_SEC
    <2>1. p < f + ERASE_SEC
      BY <1>1, <1>2, <1>3, <1>6
    <2>. QED
      BY <1>4, <1>9, <2>1, Apart
  <1>12. ASSUME NEW b \in Int, p <= b, b < p + PAGE PROVE b \in Addr /\ Block(b) = f
    <2>1. f <= b /\ b < f + ERASE_SEC
      BY <1>10, <1>11, <1>12
    <2>. QED
      BY <1>5, <2>1, Sectors
  <1>13. p \in Addr
    BY <1>12
  <1>. QED
    BY <1>2, <1>3, <1>5, <1>12, <1>13

------------------------------------------------------------------------------
(* The invariant *)

\* A cached sector and its addresses.
LEMMA Cached ==
  ASSUME FlashTypeOK, g_uUSICacheAddr # None
  PROVE  /\ g_uUSICacheAddr \in Nat /\ ERASE_SEC \in Nat \ {0}
         /\ \A a \in Int : g_uUSICacheAddr <= a /\ a < g_uUSICacheAddr + ERASE_SEC
                           => a \in Addr /\ Block(a) = g_uUSICacheAddr
         /\ \A a \in Addr : Block(a) = g_uUSICacheAddr
                           => a \in Nat /\ a - g_uUSICacheAddr \in 0 .. ERASE_SEC - 1
  <1>1. PICK c \in Addr : g_uUSICacheAddr = Block(c)
    BY DEF FlashTypeOK
  <1>2. PICK g \in Nat : g = g_uUSICacheAddr
    BY <1>1, Sectors
  <1>3. \A a \in Int : g <= a /\ a < g + ERASE_SEC => a \in Addr /\ Block(a) = g
    BY <1>1, <1>2, Sectors
  <1>4. ASSUME NEW a \in Addr, Block(a) = g PROVE a \in Nat /\ a - g \in 0 .. ERASE_SEC - 1
    <2>1. g <= a /\ a < g + ERASE_SEC /\ a \in Nat
      BY <1>4, Sectors DEF Addr
    <2>. QED
      BY <2>1, SizeAssumption
  <1>. QED
    BY <1>2, <1>3, <1>4, SizeAssumption

\* No sector has the address None.
LEMMA NoneIsNone == \A a \in Addr : Block(a) # None
  <1>. SUFFICES ASSUME NEW a \in Addr PROVE Block(a) # None
    OBVIOUS
  <1>1. Block(a) \in Nat
    BY Sectors
  <1>. QED
    BY <1>1 DEF None

\* The place a write has come to, and the bytes it copies in one go.
LEMMA PosIs ==
  ASSUME FlashInv, pc = "write"
  PROVE  /\ Pos \in Addr /\ Pos = w.addr + i /\ w.addr \in Nat /\ i \in Nat /\ w.len \in Nat
         /\ w.addr + w.len <= g_uTotalSize
         /\ w.buf \in [0..w.len - 1 -> Val]
         /\ copy_len \in Nat \ {0} /\ i + copy_len <= w.len
         /\ InSector(Pos) + copy_len <= ERASE_SEC
  <1>1. w \in Writes /\ i \in 0 .. w.len - 1
    BY DEF FlashInv, CallInv
  <1>2. w.addr \in Nat /\ w.len \in Nat /\ w.addr + w.len <= g_uTotalSize /\ w.buf \in [0..w.len - 1 -> Val]
    BY <1>1, WritesAssumption
  <1>3. i \in Nat /\ i < w.len /\ Pos \in Addr /\ Pos = w.addr + i
    BY <1>1, <1>2, SizeAssumption DEF Pos, Addr
  <1>4. InSector(Pos) \in 0 .. ERASE_SEC - 1
    BY <1>3, Sectors
  <1>5. copy_len \in Nat \ {0} /\ i + copy_len <= w.len /\ InSector(Pos) + copy_len <= ERASE_SEC
    <2>1. PICK l \in Nat : l = w.len
      BY <1>2
    <2>2. PICK s \in 0 .. ERASE_SEC - 1 : s = InSector(Pos)
      BY <1>4
    <2>3. copy_len = IF l - i < ERASE_SEC - s THEN l - i ELSE ERASE_SEC - s
      BY <2>1, <2>2, Zenon DEF copy_len, Min2
    <2>. QED
      BY <1>3, <2>1, <2>2, <2>3, SizeAssumption
  <1>. QED
    BY <1>2, <1>3, <1>5

\* With nothing cached the chip is what the caller sees.
LEMMA UncachedContent ==
  ASSUME flash \in [Addr -> Byte], g_uUSICacheAddr = None
  PROVE  Content = flash
  BY NoneIsNone DEF Content

\* The invariant holds at the start.
LEMMA FlashInit == Init => FlashInv
  <1>. SUFFICES ASSUME Init PROVE FlashInv
    OBVIOUS
  <1>1. FlashTypeOK
    BY DEF Init, FlashTypeOK, Byte
  <1>2. ContentInv
    BY <1>1, UncachedContent DEF Init, FlashTypeOK, ContentInv
  <1>3. CallInv /\ FlushInv
    BY DEF Init, CallInv, FlushInv
  <1>. QED
    BY <1>1, <1>2, <1>3 DEF FlashInv

\* A call begins with no write-back under way.
LEMMA CallKeeps ==
  ASSUME FlashInv, (\E c \in Writes : usiMyWrite(c)) \/ usiMyFlash
  PROVE  FlashInv' /\ UNCHANGED <<written, g_uUSICacheAddr>>
  <1>1. /\ pc = "idle" /\ pc' \in {"write", "flash"}
        /\ UNCHANGED <<flash, g_uUSI_BUF, g_uUSICacheAddr, j, written>>
    BY DEF usiMyWrite, usiMyFlash, Call
  <1>2. j = None
    BY <1>1 DEF FlashInv, FlushInv, MustFlush
  <1>3. FlashTypeOK' /\ FlushInv'
    BY <1>1, <1>2 DEF FlashInv, FlashTypeOK, FlushInv
  <1>4. ContentInv'
    BY <1>1 DEF FlashInv, ContentInv, Content
  <1>5. CallInv'
    <2>1. CASE usiMyFlash
      BY <2>1 DEF usiMyFlash, Call, CallInv
    <2>2. ASSUME NEW c \in Writes, usiMyWrite(c) PROVE CallInv'
      <3>1. w' = c /\ i' = 0 /\ c.len > 0 /\ c.len \in Nat
        BY <2>2, WritesAssumption DEF usiMyWrite
      <3>. QED
        BY <3>1 DEF CallInv
    <2>. QED
      BY <2>1, <2>2
  <1>. QED
    BY <1>1, <1>3, <1>4, <1>5 DEF FlashInv

\* Erasing a sector harms only what the cache hides.
LEMMA EraseKeeps ==
  ASSUME FlashInv, FlashErase
  PROVE  FlashInv' /\ UNCHANGED <<written, g_uUSICacheAddr>>
  <1>1. /\ MustFlush /\ g_uUSICacheAddr # None /\ j' = 0
        /\ flash' = [a \in Addr |-> IF Block(a) = g_uUSICacheAddr THEN Blank ELSE flash[a]]
        /\ UNCHANGED <<g_uUSI_BUF, g_uUSICacheAddr, pc, w, i, written>>
    BY DEF FlashErase
  <1>2. FlashTypeOK'
    <2>1. flash' \in [Addr -> Byte]
      BY <1>1 DEF FlashInv, FlashTypeOK, Byte
    <2>. QED
      BY <1>1, <2>1 DEF FlashInv, FlashTypeOK
  <1>3. CallInv'
    BY <1>1 DEF FlashInv, CallInv
  <1>4. ContentInv'
    <2>1. Content' = Content
      BY <1>1 DEF Content
    <2>. QED
      BY <1>1, <2>1 DEF FlashInv, ContentInv
  <1>5. FlushInv'
    <2>1. MustFlush'
      BY <1>1 DEF MustFlush, Pos
    <2>2. j' \in 0 .. ERASE_SEC /\ j' % PAGE = 0
      BY <1>1, SizeAssumption
    <2>3. \A a \in Addr : Block(a) = g_uUSICacheAddr => ~ (a - g_uUSICacheAddr < j')
      BY <1>1, Cached DEF FlashInv
    <2>. QED
      BY <1>1, <2>1, <2>2, <2>3 DEF FlushInv
  <1>. QED
    BY <1>1, <1>2, <1>3, <1>4, <1>5 DEF FlashInv

\* A page written back is a page of the cached sector.
LEMMA PageKeeps ==
  ASSUME FlashInv, FlashPage
  PROVE  FlashInv' /\ UNCHANGED <<written, g_uUSICacheAddr>>
  <1>0. j # None /\ j < ERASE_SEC /\ j' = j + PAGE
    BY DEF FlashPage
  <1>1. /\ MustFlush /\ g_uUSICacheAddr # None /\ j \in 0 .. ERASE_SEC /\ j % PAGE = 0
        /\ \A a \in Addr : Block(a) = g_uUSICacheAddr /\ a - g_uUSICacheAddr < j
                            => flash[a] = g_uUSI_BUF[a - g_uUSICacheAddr]
    BY <1>0 DEF FlashInv, FlushInv
  <1>2. PICK g \in Nat : g = g_uUSICacheAddr
    BY <1>1, Cached DEF FlashInv
  <1>3. /\ \A a \in Int : g <= a /\ a < g + ERASE_SEC => a \in Addr /\ Block(a) = g
        /\ \A a \in Addr : Block(a) = g => a \in Nat /\ a - g \in 0 .. ERASE_SEC - 1
    BY <1>1, <1>2, Cached DEF FlashInv
  <1>4. /\ flash' = [a \in Addr |-> IF a \in g + j..g + j + PAGE - 1 THEN g_uUSI_BUF[a - g] ELSE flash[a]]
        /\ UNCHANGED <<g_uUSI_BUF, g_uUSICacheAddr, pc, w, i, written>>
    BY <1>2 DEF FlashPage
  <1>5. j + PAGE <= ERASE_SEC /\ (j + PAGE) % PAGE = 0
    <2>1. Multiple(PAGE, j) /\ Multiple(PAGE, ERASE_SEC) /\ Multiple(PAGE, PAGE)
      <3>1. PAGE = PAGE * 1
        BY SizeAssumption
      <3>2. Multiple(PAGE, PAGE)
        BY <3>1 DEF Multiple
      <3>. QED
        BY <1>1, <3>2, MultipleOfZero, SizeAssumption
    <2>2. j + PAGE <= ERASE_SEC
      BY <1>0, <1>1, <2>1, Apart, SizeAssumption
    <2>3. Multiple(PAGE, j + PAGE)
      BY <1>1, <2>1, MultipleSum, SizeAssumption
    <2>4. j + PAGE \in Nat
      BY <1>1, SizeAssumption
    <2>. QED
      BY <2>2, <2>3, <2>4, MultipleOfZero, SizeAssumption
  <1>6. ASSUME NEW a \in Addr, a \in g + j..g + j + PAGE - 1
        PROVE  Block(a) = g /\ a - g \in 0 .. ERASE_SEC - 1
    <2>1. a \in Int /\ g <= a /\ a < g + ERASE_SEC
      BY <1>1, <1>5, <1>6, SizeAssumption
    <2>. QED
      BY <1>3, <2>1
  <1>7. FlashTypeOK'
    <2>1. flash' \in [Addr -> Byte]
      <3>1. ASSUME NEW a \in Addr
            PROVE  (IF a \in g + j..g + j + PAGE - 1 THEN g_uUSI_BUF[a - g] ELSE flash[a]) \in Byte
        <4>1. CASE a \in g + j..g + j + PAGE - 1
          BY <1>6, <4>1 DEF FlashInv, FlashTypeOK
        <4>2. CASE a \notin g + j..g + j + PAGE - 1
          BY <4>2 DEF FlashInv, FlashTypeOK
        <4>. QED
          BY <4>1, <4>2
      <3>. QED
        BY <1>4, <3>1
    <2>. QED
      BY <1>4, <2>1 DEF FlashInv, FlashTypeOK
  <1>8. CallInv'
    BY <1>4 DEF FlashInv, CallInv
  <1>9. ContentInv'
    <2>1. ASSUME NEW a \in Addr, Block(a) # g PROVE flash'[a] = flash[a]
      BY <1>4, <1>6, <2>1
    <2>2. Content' = Content
      BY <1>2, <1>4, <2>1 DEF Content
    <2>. QED
      BY <1>4, <2>2 DEF FlashInv, ContentInv
  <1>10. FlushInv'
    <2>1. MustFlush'
      BY <1>1, <1>4 DEF MustFlush, Pos
    <2>2. j' \in 0 .. ERASE_SEC /\ j' % PAGE = 0
      BY <1>0, <1>1, <1>5, SizeAssumption
    <2>3. ASSUME NEW a \in Addr, Block(a) = g, a - g < j' PROVE flash'[a] = g_uUSI_BUF[a - g]
      <3>1. a \in Nat /\ a - g \in 0 .. ERASE_SEC - 1
        BY <1>3, <2>3
      <3>2. CASE a - g < j
        BY <1>1, <1>2, <1>4, <2>3, <3>2
      <3>3. CASE ~ (a - g < j)
        <4>1. a \in g + j..g + j + PAGE - 1
          BY <1>0, <1>1, <2>3, <3>1, <3>3, SizeAssumption
        <4>. QED
          BY <1>4, <4>1
      <3>. QED
        BY <3>2, <3>3
    <2>. QED
      BY <1>1, <1>2, <1>4, <2>1, <2>2, <2>3 DEF FlushInv
  <1>. QED
    BY <1>4, <1>7, <1>8, <1>9, <1>10 DEF FlashInv

\* When all pages are written back the chip holds the sector.
LEMMA EndKeeps ==
  ASSUME FlashInv, FlashEnd
  PROVE  FlashInv' /\ written' = written /\ g_uUSICacheAddr' = None
  <1>1. /\ g_uUSICacheAddr' = None /\ j' = None /\ pc' = (IF pc = "flash" THEN "idle" ELSE pc)
        /\ UNCHANGED <<flash, g_uUSI_BUF, w, i, written>>
        /\ j = ERASE_SEC \/ g_uUSICacheAddr = None
    BY DEF FlashEnd
  <1>2. FlashTypeOK'
    BY <1>1 DEF FlashInv, FlashTypeOK
  <1>3. CallInv' /\ FlushInv'
    BY <1>1 DEF FlashInv, CallInv, FlushInv
  <1>4. Content = flash
    <2>1. CASE g_uUSICacheAddr = None
      BY <2>1, UncachedContent DEF FlashInv, FlashTypeOK
    <2>2. CASE g_uUSICacheAddr # None
      <3>1. j = ERASE_SEC /\ j # None
        BY <1>1, <2>2, SizeAssumption DEF None
      <3>2. ASSUME NEW a \in Addr, Block(a) = g_uUSICacheAddr PROVE flash[a] = g_uUSI_BUF[a - g_uUSICacheAddr]
        <4>1. a - g_uUSICacheAddr \in 0 .. ERASE_SEC - 1
          BY <2>2, <3>2, Cached DEF FlashInv
        <4>2. a - g_uUSICacheAddr < j
          BY <3>1, <4>1, SizeAssumption
        <4>. QED
          BY <3>1, <3>2, <4>2 DEF FlashInv, FlushInv
      <3>. QED
        BY <3>2 DEF Content, FlashInv, FlashTypeOK
    <2>. QED
      BY <2>1, <2>2
  <1>5. Content' = flash'
    BY <1>1, <1>2, NoneIsNone DEF Content, FlashTypeOK
  <1>6. ContentInv'
    BY <1>1, <1>4, <1>5 DEF FlashInv, ContentInv
  <1>. QED
    BY <1>1, <1>2, <1>3, <1>6 DEF FlashInv

\* A sector read into an empty cache is what the chip holds.
LEMMA LoadKeeps ==
  ASSUME FlashInv, WriteLoad
  PROVE  FlashInv' /\ written' = written /\ \E a \in Addr : g_uUSICacheAddr' = Block(a)
  <1>1. /\ pc = "write" /\ g_uUSICacheAddr = None /\ g_uUSICacheAddr' = Block(Pos)
        /\ g_uUSI_BUF' = [k \in 0..ERASE_SEC - 1 |-> flash[Block(Pos) + k]]
        /\ UNCHANGED <<flash, pc, w, i, j, written>>
    BY DEF WriteLoad
  <1>2. Pos \in Addr
    BY <1>1, PosIs
  <1>3. PICK g \in Nat : g = Block(Pos)
    BY <1>2, Sectors
  <1>4. \A b \in Int : g <= b /\ b < g + ERASE_SEC => b \in Addr /\ Block(b) = g
    BY <1>2, <1>3, Sectors
  <1>5. FlashTypeOK'
    <2>1. ASSUME NEW k \in 0 .. ERASE_SEC - 1 PROVE flash[g + k] \in Byte
      <3>1. g + k \in Addr
        BY <1>4, SizeAssumption
      <3>. QED
        BY <3>1 DEF FlashInv, FlashTypeOK
    <2>2. g_uUSI_BUF' \in [0..ERASE_SEC - 1 -> Byte]
      BY <1>1, <1>3, <2>1
    <2>3. g_uUSICacheAddr' \in {Block(a) : a \in Addr}
      BY <1>1, <1>2
    <2>. QED
      BY <1>1, <2>2, <2>3 DEF FlashInv, FlashTypeOK
  <1>6. j = None
    BY <1>1 DEF FlashInv, FlushInv
  <1>7. CallInv' /\ FlushInv'
    BY <1>1, <1>6 DEF FlashInv, CallInv, FlushInv
  <1>8. Content = flash
    BY <1>1, UncachedContent DEF FlashInv, FlashTypeOK
  <1>9. Content' = flash
    <2>1. ASSUME NEW a \in Addr, Block(a) = g PROVE g_uUSI_BUF'[a - g] = flash[a]
      <3>1. g <= a /\ a < g + ERASE_SEC /\ a \in Nat
        BY <2>1, Sectors DEF Addr
      <3>2. a - g \in 0 .. ERASE_SEC - 1 /\ g + (a - g) = a
        BY <3>1, SizeAssumption
      <3>. QED
        BY <1>1, <1>3, <3>2
    <2>. QED
      BY <1>1, <1>3, <2>1 DEF Content, FlashInv, FlashTypeOK
  <1>10. ContentInv'
    BY <1>1, <1>8, <1>9 DEF FlashInv, ContentInv
  <1>. QED
    BY <1>1, <1>2, <1>5, <1>7, <1>10 DEF FlashInv

\* The bytes of a write go into the cached sector at their addresses, and nowhere else.
LEMMA CopyKeeps ==
  ASSUME FlashInv, WriteCopy
  PROVE  /\ FlashInv' /\ g_uUSICacheAddr' = g_uUSICacheAddr /\ g_uUSICacheAddr = Block(Pos) /\ Pos \in Addr
         /\ \A a \in Addr : Block(a) # Block(Pos) => written'[a] = written[a]
  <1>1. /\ pc = "write" /\ Block(Pos) = g_uUSICacheAddr
        /\ i' = i + copy_len
        /\ pc' = (IF i' < w.len THEN "write" ELSE "idle")
        /\ w' = (IF i' < w.len THEN w ELSE NoCall)
        /\ UNCHANGED <<flash, g_uUSICacheAddr, j>>
    BY DEF WriteCopy
  <1>2. /\ Pos \in Addr /\ Pos = w.addr + i /\ w.addr \in Nat /\ i \in Nat /\ w.len \in Nat
        /\ w.buf \in [0..w.len - 1 -> Val]
        /\ copy_len \in Nat \ {0} /\ i + copy_len <= w.len
        /\ InSector(Pos) + copy_len <= ERASE_SEC
    BY <1>1, PosIs
  <1>3. PICK g \in Nat : g = g_uUSICacheAddr
    BY <1>1, <1>2, Sectors
  <1>4. PICK s \in 0 .. ERASE_SEC - 1 : s = InSector(Pos)
    BY <1>2, Sectors
  <1>5. PICK c \in Nat \ {0} : c = copy_len
    BY <1>2
  <1>6. s = Pos - g /\ Pos \in Nat /\ s + c <= ERASE_SEC
    BY <1>1, <1>2, <1>3, <1>4, <1>5, Sectors DEF Addr
  <1>7. /\ g_uUSI_BUF' = [k \in 0..ERASE_SEC - 1 |-> IF k \in s..s + c - 1 THEN w.buf[i + k - s] ELSE g_uUSI_BUF[k]]
        /\ written' = [a \in Addr |-> IF a \in Pos..Pos + c - 1 THEN w.buf[a - w.addr] ELSE written[a]]
    BY <1>4, <1>5 DEF WriteCopy
  <1>8. ASSUME NEW a \in Addr, a \in Pos..Pos + c - 1
        PROVE  Block(a) = g /\ w.buf[a - w.addr] \in Byte
    <2>1. a \in Int /\ g <= a /\ a < g + ERASE_SEC
      BY <1>6, <1>8, SizeAssumption
    <2>2. Block(a) = g
      BY <1>1, <1>2, <1>3, <2>1, Sectors
    <2>3. a - w.addr \in 0 .. w.len - 1
      <3>1. PICK l \in Nat, x \in Nat, p \in Nat, n \in Nat : l = w.len /\ x = w.addr /\ p = Pos /\ n = i
        BY <1>2, <1>6
      <3>2. p = x + n /\ n + c <= l /\ a \in p..p + c - 1
        BY <1>2, <1>5, <1>8, <3>1
      <3>3. a - x \in 0 .. l - 1
        BY <3>2
      <3>. QED
        BY <3>1, <3>3
    <2>. QED
      BY <1>2, <2>2, <2>3 DEF Byte
  <1>9. FlashTypeOK'
    <2>1. written' \in [Addr -> Byte]
      BY <1>7, <1>8 DEF FlashInv, FlashTypeOK
    <2>2. ASSUME NEW k \in 0 .. ERASE_SEC - 1
          PROVE  (IF k \in s..s + c - 1 THEN w.buf[i + k - s] ELSE g_uUSI_BUF[k]) \in Byte
      <3>1. CASE k \in s..s + c - 1
        <4>1. i + k - s \in 0 .. w.len - 1
          BY <1>2, <1>5, <3>1
        <4>. QED
          BY <1>2, <3>1, <4>1 DEF Byte
      <3>2. CASE k \notin s..s + c - 1
        BY <3>2 DEF FlashInv, FlashTypeOK
      <3>. QED
        BY <3>1, <3>2
    <2>3. g_uUSI_BUF' \in [0..ERASE_SEC - 1 -> Byte]
      BY <1>7, <2>2
    <2>. QED
      BY <1>1, <2>1, <2>3 DEF FlashInv, FlashTypeOK
  <1>10. CallInv'
    <2>1. i' \in Nat
      BY <1>1, <1>2
    <2>. QED
      BY <1>1, <1>2, <2>1 DEF FlashInv, CallInv
  <1>11. FlushInv'
    <2>1. j = None
      BY <1>1 DEF FlashInv, FlushInv, MustFlush
    <2>. QED
      BY <1>1, <2>1 DEF FlushInv
  <1>12. ContentInv'
    <2>1. ASSUME NEW a \in Addr PROVE written'[a] = Content'[a]
      <3>0. a \in Nat
        BY DEF Addr
      <3>1. written[a] = IF Block(a) = g THEN g_uUSI_BUF[a - g] ELSE flash[a]
        BY <1>3 DEF FlashInv, ContentInv, Content
      <3>2. Content'[a] = IF Block(a) = g THEN g_uUSI_BUF'[a - g] ELSE flash[a]
        BY <1>1, <1>3 DEF Content
      <3>3. CASE Block(a) # g
        BY <1>7, <1>8, <3>1, <3>2, <3>3
      <3>4. CASE Block(a) = g
        <4>1. a - g \in 0 .. ERASE_SEC - 1
          BY <1>3, <3>4, Cached, NoneIsNone DEF FlashInv
        <4>2. a \in Pos..Pos + c - 1 <=> a - g \in s..s + c - 1
          BY <1>6, <3>0
        <4>3. i + (a - g) - s = a - w.addr
          <5>1. PICK x \in Nat, p \in Nat, n \in Nat : x = w.addr /\ p = Pos /\ n = i
            BY <1>2, <1>6
          <5>2. p = x + n /\ s = p - g
            BY <1>2, <1>6, <5>1
          <5>3. n + (a - g) - s = a - x
            BY <3>0, <5>2
          <5>. QED
            BY <5>1, <5>3
        <4>4. written'[a] = IF a \in Pos..Pos + c - 1 THEN w.buf[a - w.addr] ELSE written[a]
          BY <1>7
        <4>5. g_uUSI_BUF'[a - g] = IF a - g \in s..s + c - 1 THEN w.buf[i + (a - g) - s] ELSE g_uUSI_BUF[a - g]
          BY <1>7, <4>1
        <4>. QED
          BY <3>1, <3>2, <3>4, <4>2, <4>3, <4>4, <4>5
      <3>. QED
        BY <3>3, <3>4
    <2>2. written' = [a \in Addr |-> written'[a]] /\ Content' = [a \in Addr |-> Content'[a]]
      BY <1>7 DEF Content
    <2>. QED
      BY <2>1, <2>2 DEF ContentInv
  <1>13. \A a \in Addr : Block(a) # Block(Pos) => written'[a] = written[a]
    BY <1>1, <1>3, <1>7, <1>8
  <1>. QED
    BY <1>1, <1>2, <1>9, <1>10, <1>11, <1>12, <1>13 DEF FlashInv

\* A power failure leaves the chip.
LEMMA PowerFailKeeps ==
  ASSUME FlashInv, PowerFail
  PROVE  /\ FlashInv' /\ g_uUSICacheAddr' = None
         /\ \A a \in Addr : Block(a) # g_uUSICacheAddr => written'[a] = written[a]
  <1>1. /\ g_uUSICacheAddr' = None /\ g_uUSI_BUF' = [k \in 0..ERASE_SEC - 1 |-> Blank]
        /\ pc' = "idle" /\ j' = None /\ written' = flash /\ flash' = flash
    BY DEF PowerFail
  <1>2. FlashTypeOK'
    BY <1>1 DEF FlashInv, FlashTypeOK, Byte
  <1>3. CallInv' /\ FlushInv'
    BY <1>1 DEF CallInv, FlushInv
  <1>4. ContentInv'
    BY <1>1, <1>2, NoneIsNone DEF ContentInv, Content, FlashTypeOK
  <1>5. \A a \in Addr : Block(a) # g_uUSICacheAddr => written'[a] = written[a]
    BY <1>1 DEF FlashInv, ContentInv, Content
  <1>. QED
    BY <1>1, <1>2, <1>3, <1>4, <1>5 DEF FlashInv

LEMMA StutterKeeps ==
  ASSUME FlashInv, UNCHANGED vars
  PROVE  FlashInv' /\ UNCHANGED <<written, g_uUSICacheAddr>>
  BY DEF vars, FlashInv, FlashTypeOK, CallInv, ContentInv, Content, FlushInv, MustFlush, Pos

------------------------------------------------------------------------------
(* Reading *)

\* A round of usiMyRead stays inside one page, takes at least a byte and not more than
\* asked for, and takes what was written last.
LEMMA RoundIs ==
  ASSUME FlashInv, NEW pos \in Addr, NEW left \in Nat \ {0}
  PROVE  /\ ReadLen(pos, left) \in 1 .. left
         /\ \A x \in 0 .. ReadLen(pos, left) - 1 :
                usiRead(pos - InPage(pos), InPage(pos) + ReadLen(pos, left))[InPage(pos) + x] = written[pos + x]
  <1>1. PICK r \in 0 .. PAGE - 1 : r = InPage(pos)
    BY Pages
  <1>2. PICK q \in Addr : q = pos - r
    BY <1>1, Pages
  <1>3. PICK n \in 1 .. left : n = ReadLen(pos, left) /\ r + n <= PAGE
    <2>1. ReadLen(pos, left) = (IF left + r < PAGE THEN left + r ELSE PAGE) - r
      BY <1>1 DEF ReadLen, Min2
    <2>. QED
      BY <1>1, <2>1, SizeAssumption
  <1>4. pos \in Nat /\ q \in Nat
    BY DEF Addr
  <1>5. ASSUME NEW x \in 0 .. n - 1
        PROVE  usiRead(q, r + n)[r + x] = written[pos + x]
    <2>1. r + x \in 0 .. r + n - 1 /\ q + (r + x) = pos + x
      BY <1>1, <1>2, <1>3, <1>4, SizeAssumption
    <2>2. PICK b \in Nat : b = pos + x /\ b = q + (r + x)
      BY <1>4, <2>1
    <2>3. q <= b /\ b < q + PAGE /\ q < q + PAGE
      BY <1>1, <1>2, <1>3, <1>4, <2>2, SizeAssumption
    <2>4. b \in Addr /\ Block(b) = Block(pos) /\ Block(q) = Block(pos)
      BY <1>1, <1>2, <1>4, <2>3, Pages
    <2>5. usiRead(q, r + n)[r + x] = IF Block(q) # g_uUSICacheAddr THEN flash[q + (r + x)]
                                     ELSE g_uUSI_BUF[q - Block(q) + (r + x)]
      BY <2>1 DEF usiRead
    <2>6. q - Block(q) + (r + x) = b - Block(b)
      <3>1. PICK f \in Nat : f = Block(q) /\ f = Block(b)
        BY <2>4, Sectors
      <3>2. PICK y \in Int : y = r + x /\ b = q + y
        BY <2>2, SizeAssumption
      <3>3. q - f + y = b - f
        BY <1>4, <3>2
      <3>. QED
        BY <3>1, <3>2, <3>3
    <2>7. written[b] = IF Block(b) = g_uUSICacheAddr THEN g_uUSI_BUF[b - g_uUSICacheAddr] ELSE flash[b]
      BY <2>4 DEF FlashInv, ContentInv, Content
    <2>. QED
      BY <2>2, <2>4, <2>5, <2>6, <2>7
  <1>. QED
    BY <1>1, <1>2, <1>3, <1>5

\* The loop of usiMyRead, round by round, puts what was written last into the buffer.
LEMMA ReadIs ==
  ASSUME FlashInv, NEW addr \in Addr, NEW len \in 1..g_uTotalSize - addr
  PROVE  usiMyRead(addr, len) = [k \in 0..len - 1 |-> written[addr + k]]
  <1> DEFINE Body(g, k) ==
               IF k = len THEN <<>>
               ELSE LET pos == addr + k
                        n == ReadLen(pos, len - k)
                        page == usiRead(pos - InPage(pos), InPage(pos) + n)
                    IN  [m \in k..len - 1 |-> IF m < k + n THEN page[InPage(pos) + m - k] ELSE g[k + n][m]]
             N(k) == ReadLen(addr + k, len - k)
             V(k) == [m \in k..len - 1 |-> written[addr + m]]
             buf == CHOOSE g : g = [k \in 0..len |-> Body(g, k)]
  <1>1. addr \in Nat /\ len \in Nat /\ addr + len <= g_uTotalSize /\ g_uTotalSize \in Nat
    BY SizeAssumption DEF Addr
  <1>2. ASSUME NEW k \in 0 .. len - 1 PROVE N(k) \in 1 .. len - k
    <2>1. addr + k \in Addr /\ len - k \in Nat \ {0}
      BY <1>1 DEF Addr
    <2>. QED
      BY <2>1, RoundIs
  <1>3. ASSUME NEW g PROVE Body(g, len) = V(len)
    <2>1. len..len - 1 = {}
      BY <1>1
    <2>2. V(len) = <<>>
      BY <2>1
    <2>. QED
      BY <2>2
  <1>4. ASSUME NEW k \in 0 .. len - 1, NEW g, g[k + N(k)] = V(k + N(k)) PROVE Body(g, k) = V(k)
    <2>1. PICK pos \in Addr : pos = addr + k
      BY <1>1 DEF Addr
    <2>2. PICK left \in Nat \ {0} : left = len - k
      BY <1>1
    <2>3. PICK n \in 1 .. left : n = ReadLen(pos, left)
      BY RoundIs
    <2>4. n = N(k)
      BY <2>1, <2>2, <2>3
    <2>5. PICK r \in Nat : r = InPage(pos)
      BY Pages, SizeAssumption
    <2> DEFINE page == usiRead(pos - r, r + n)
    <2>6. \A x \in 0 .. n - 1 : page[r + x] = written[pos + x]
      BY <2>3, <2>5, RoundIs
    <2>7. Body(g, k) = [m \in k..len - 1 |-> IF m < k + n THEN page[r + m - k] ELSE g[k + n][m]]
      <3>1. k # len
        BY <1>1
      <3>. QED
        BY <2>1, <2>2, <2>3, <2>5, <3>1
    <2>. HIDE DEF page
    <2>8. ASSUME NEW m \in k..len - 1
          PROVE  (IF m < k + n THEN page[r + m - k] ELSE g[k + n][m]) = written[addr + m]
      <3>1. CASE m < k + n
        <4>1. m - k \in 0 .. n - 1 /\ r + (m - k) = r + m - k /\ pos + (m - k) = addr + m
          BY <1>1, <2>1, <3>1
        <4>. QED
          BY <2>6, <3>1, <4>1
      <3>2. CASE ~ (m < k + n)
        <4>1. m \in k + n .. len - 1
          BY <1>1, <3>2
        <4>2. g[k + n] = V(k + n)
          BY <1>4, <2>4
        <4>. QED
          BY <3>2, <4>1, <4>2
      <3>. QED
        BY <3>1, <3>2
    <2>. QED
      BY <2>7, <2>8
  <1>5. \E g : g = [k \in 0..len |-> Body(g, k)]
    <2> DEFINE e == [k \in 0..len |-> V(k)]
    <2>1. ASSUME NEW k \in 0..len PROVE V(k) = Body(e, k)
      <3>. HIDE DEF V, Body, N
      <3>1. CASE k = len
        BY <1>3, <3>1
      <3>2. CASE k # len
        <4>1. k \in 0 .. len - 1
          BY <1>1, <3>2
        <4>2. k + N(k) \in 0 .. len
          BY <1>1, <1>2, <4>1
        <4>3. e[k + N(k)] = V(k + N(k))
          BY <4>2
        <4>. HIDE DEF e
        <4>. QED
          BY <1>4, <4>1, <4>3
      <3>. QED
        BY <3>1, <3>2
    <2>2. e = [k \in 0..len |-> Body(e, k)]
      <3>1. \A k \in 0..len : V(k) = Body(e, k)
        <4>. HIDE DEF V, Body, e
        <4>. QED
          BY <2>1
      <3>2. [k \in 0..len |-> V(k)] = [k \in 0..len |-> Body(e, k)]
        <4>. HIDE DEF V, Body, e
        <4>. QED
          BY <3>1
      <3>. HIDE DEF V, Body
      <3>. QED
        BY <3>2, Zenon
    <2>. HIDE DEF e, Body
    <2>. QED
      BY <2>2
  <1>6. buf = [k \in 0..len |-> Body(buf, k)]
    BY <1>5, Zenon
  <1>7. usiMyRead(addr, len) = buf[0]
    BY Zenon DEF usiMyRead
  <1>. HIDE DEF buf
  <1>8. ASSUME NEW k \in 0..len PROVE buf[k] = Body(buf, k)
    <2>. HIDE DEF Body
    <2>. QED
      BY <1>6
  <1> DEFINE T == {d \in 0..len : buf[len - d] # V(len - d)}
  <1>9. T = {}
    <2>. SUFFICES ASSUME T # {} PROVE FALSE
      OBVIOUS
    <2>. HIDE DEF V, Body, N
    <2>1. PICK d \in T : \A y \in T : d <= y
      <3>1. T \subseteq Nat
        BY <1>1
      <3>. HIDE DEF T
      <3>. QED
        BY <3>1, Least
    <2>2. PICK k \in 0..len : k = len - d
      BY <1>1
    <2>3. buf[k] # V(k)
      BY <2>2
    <2>4. k \in 0 .. len - 1
      <3>1. k # len
        BY <1>1, <1>3, <1>8, <2>3
      <3>. QED
        BY <1>1, <3>1
    <2>5. PICK n \in 1 .. len - k : n = N(k)
      BY <1>2, <2>4
    <2>6. d - n \in 0 .. len /\ d - n < d /\ len - (d - n) = k + n
      BY <1>1, <2>2, <2>5
    <2>7. d - n \notin T
      <3>. HIDE DEF T
      <3>1. d \in Nat
        BY <1>1 DEF T
      <3>. QED
        BY <2>1, <2>6, <3>1
    <2>8. buf[k + n] = V(k + n)
      BY <2>6, <2>7
    <2>9. Body(buf, k) = V(k)
      BY <1>4, <2>4, <2>5, <2>8
    <2>. QED
      BY <1>8, <2>3, <2>9
  <1>10. buf[0] = V(0)
    <2>. HIDE DEF V
    <2>1. len \in 0..len /\ len - len = 0
      BY <1>1
    <2>. QED
      BY <1>9, <2>1
  <1>. QED
    BY <1>7, <1>10

------------------------------------------------------------------------------
(* The theorems *)

\* What was written is in the chip or in the cached sector, and a write-back in progress
\* has put the pages done into the chip: for any sizes, writes and power failures
\* (usiMyWrite, usiMyFlash of myspi.c).
THEOREM FlashInvariant == Spec => []FlashInv
  <1>1. FlashInv /\ [Next]_vars => FlashInv'
    BY CallKeeps, EraseKeeps, PageKeeps, EndKeeps, LoadKeeps, CopyKeeps, PowerFailKeeps, StutterKeeps
    DEF Next, Rest
  <1>. QED
    BY <1>1, FlashInit, PTL DEF Spec

\* The cached flash implements the plain memory: a read gives what was stored last, and a
\* power failure, even in the middle of a write-back, harms no sector but the one stored
\* to and not flushed.
THEOREM FlashRefinement == Spec => ImplementsMemory
  <1>1. Init => Memory!Init
    <2>. SUFFICES ASSUME Init PROVE Memory!Init
      OBVIOUS
    <2>1. FlashInv /\ g_uUSICacheAddr = None
      BY FlashInit DEF Init
    <2>2. Content \in [Addr -> Byte]
      BY <2>1 DEF FlashInv, ContentInv, FlashTypeOK
    <2>. QED
      BY <2>1, <2>2 DEF Memory!Init
  <1>2. FlashInv /\ [Next]_vars => [Memory!Next]_Memory!vars
    <2>. SUFFICES ASSUME FlashInv, [Next]_vars PROVE Memory!Next \/ UNCHANGED <<Content, g_uUSICacheAddr>>
      BY DEF Memory!vars
    <2>1. FlashInv'
      BY CallKeeps, EraseKeeps, PageKeeps, EndKeeps, LoadKeeps, CopyKeeps, PowerFailKeeps, StutterKeeps
      DEF Next, Rest
    <2>2. Content = written /\ Content' = written' /\ written' \in [Addr -> Byte]
      BY <2>1 DEF FlashInv, ContentInv, FlashTypeOK
    <2>3. ASSUME NEW a \in Addr, g_uUSICacheAddr' = Block(a),
                 \A b \in Addr : Block(b) # Block(a) => written'[b] = written[b]
          PROVE  Memory!Next
      BY <2>2, <2>3 DEF Memory!Next, Memory!Store
    <2>4. CASE FlashEnd
      BY <2>2, <2>4, EndKeeps DEF Memory!Next, Memory!Flush
    <2>5. CASE PowerFail
      BY <2>2, <2>5, PowerFailKeeps DEF Memory!Next, Memory!PowerFail
    <2>6. CASE WriteLoad
      BY <2>3, <2>6, LoadKeeps
    <2>7. CASE WriteCopy
      BY <2>3, <2>7, CopyKeeps
    <2>8. CASE (\E c \in Writes : usiMyWrite(c)) \/ usiMyFlash \/ FlashErase \/ FlashPage \/ UNCHANGED vars
      BY <2>2, <2>8, CallKeeps, EraseKeeps, PageKeeps, StutterKeeps
    <2>. QED
      BY <2>4, <2>5, <2>6, <2>7, <2>8 DEF Next, Rest
  <1>. QED
    BY <1>1, <1>2, FlashInvariant, PTL DEF Spec, ImplementsMemory, Memory!Spec

\* Between calls a read of any length at any address, over page and sector boundaries,
\* returns what was last written there (usiMyRead of myspi.c).
THEOREM FlashReads == Spec => []ReadsWhatWasWritten
  <1>1. FlashInv => ReadsWhatWasWritten
    BY ReadIs DEF ReadsWhatWasWritten
  <1>. QED
    BY <1>1, FlashInvariant, PTL
=============================================================================
