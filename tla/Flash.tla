------------------------------- MODULE Flash -------------------------------
(***************************************************************************)
(* Byte access to the serial flash: Host/SPI/Src/myspi.c.  The flash is    *)
(* erased by sectors of 64 KB (ERASE_SEC) and read and written by pages of *)
(* 256 bytes; usiMyWrite works on a copy of one sector, g_uUSI_BUF, which  *)
(* is erased and written back when another sector is needed or usiMyFlash  *)
(* is called.  Every call holds g_tUSILock from beginning to end, so calls *)
(* do not overlap; the power can fail at any step of one.                  *)
(***************************************************************************)
EXTENDS Integers

CONSTANTS g_uTotalSize, ERASE_SEC, PAGE,
          Val,          \* bytes a caller writes
          Blank,        \* an erased byte
          Writes,       \* bound: the calls of usiMyWrite, [addr, len, buf] records
          MaxOps        \* bound: calls and power failures of a behaviour

ASSUME SizeAssumption ==
    /\ PAGE \in Nat \ {0} /\ ERASE_SEC \in Nat \ {0} /\ g_uTotalSize \in Nat \ {0}
    /\ ERASE_SEC % PAGE = 0 /\ g_uTotalSize % ERASE_SEC = 0
ASSUME WritesAssumption ==
    \A w \in Writes : /\ w.addr \in Nat /\ w.len \in Nat
                      /\ w.addr + w.len <= g_uTotalSize
                      /\ w.buf \in [0..w.len - 1 -> Val]

None == -1      \* (UINT32)-1
Addr == 0..g_uTotalSize - 1
Byte == Val \cup {Blank}

VARIABLES
    flash,              \* the chip
    g_uUSI_BUF, g_uUSICacheAddr,
    pc,                 \* "idle", "write" in usiMyWrite, "flash" in usiMyFlash
    w, i,               \* the call in progress and its loop index
    j,                  \* usiMyFlash: pages written back so far, or None before
                        \* the sector is erased
    ops,
    written             \* history: what was last written to each address, as far
                        \* as no power failure came between

vars == <<flash, g_uUSI_BUF, g_uUSICacheAddr, pc, w, i, j, ops, written>>

Min2(a, b) == IF a < b THEN a ELSE b

InSector(pos) == pos % ERASE_SEC
InPage(pos)   == pos % PAGE
Block(pos)    == pos - InSector(pos)

NoCall == [addr |-> 0, len |-> 0, buf |-> <<>>]

Init ==
    /\ flash = [a \in Addr |-> Blank]
    /\ g_uUSI_BUF = [k \in 0..ERASE_SEC - 1 |-> Blank]
    /\ g_uUSICacheAddr = None
    /\ pc = "idle" /\ w = NoCall /\ i = 0 /\ j = None
    /\ ops = 0
    /\ written = flash

------------------------------------------------------------------------------
(* usiMyRead *)

\* The first n bytes of the page at pos, from the chip or the cached sector
usiRead(pos, n) ==
    [k \in 0..n - 1 |-> IF Block(pos) # g_uUSICacheAddr THEN flash[pos + k]
                        ELSE g_uUSI_BUF[pos - Block(pos) + k]]

\* The bytes a round of the loop at pos reads, with left bytes to go
ReadLen(pos, left) == Min2(left + InPage(pos), PAGE) - InPage(pos)

usiMyRead(addr, len) ==
    LET buf[k \in 0..len] ==        \* the bytes from k on
          IF k = len THEN <<>>
          ELSE LET pos == addr + k
                   n == ReadLen(pos, len - k)
                   page == usiRead(pos - InPage(pos), InPage(pos) + n)
               IN  [m \in k..len - 1 |-> IF m < k + n THEN page[InPage(pos) + m - k]
                                         ELSE buf[k + n][m]]
    IN  buf[0]

------------------------------------------------------------------------------
(* usiMyWrite and usiMyFlash *)

Call(place) ==
    /\ pc = "idle"
    /\ ops < MaxOps
    /\ ops' = ops + 1
    /\ pc' = place
    /\ UNCHANGED <<flash, g_uUSI_BUF, g_uUSICacheAddr, j, written>>

usiMyWrite(c) == c.len > 0 /\ Call("write") /\ w' = c /\ i' = 0

usiMyFlash == Call("flash") /\ UNCHANGED <<w, i>>

Pos == w.addr + i

\* The cached sector has to be written back: the caller asked for it, or needs
\* another sector.
MustFlush == \/ pc = "flash"
             \/ pc = "write" /\ Block(Pos) # g_uUSICacheAddr

FlashErase ==
    /\ MustFlush
    /\ g_uUSICacheAddr # None /\ j = None
    /\ flash' = [a \in Addr |-> IF Block(a) = g_uUSICacheAddr THEN Blank ELSE flash[a]]
    /\ j' = 0
    /\ UNCHANGED <<g_uUSI_BUF, g_uUSICacheAddr, pc, w, i, ops, written>>

\* mutated: one page too few
FlashPageStopsEarly ==
    /\ j # None /\ j < ERASE_SEC
    /\ flash' = [a \in Addr |->
                    IF a \in g_uUSICacheAddr + j..g_uUSICacheAddr + j + PAGE - 1
                    THEN g_uUSI_BUF[a - g_uUSICacheAddr] ELSE flash[a]]
    /\ j' = IF j + 2 * PAGE < ERASE_SEC THEN j + PAGE ELSE ERASE_SEC
    /\ UNCHANGED <<g_uUSI_BUF, g_uUSICacheAddr, pc, w, i, ops, written>>

FlashPage ==
    /\ j # None /\ j < ERASE_SEC
    /\ flash' = [a \in Addr |->
                    IF a \in g_uUSICacheAddr + j..g_uUSICacheAddr + j + PAGE - 1
                    THEN g_uUSI_BUF[a - g_uUSICacheAddr] ELSE flash[a]]
    /\ j' = j + PAGE
    /\ UNCHANGED <<g_uUSI_BUF, g_uUSICacheAddr, pc, w, i, ops, written>>

\* The sector is written back, or there was none: nothing is cached any more.
FlashEnd ==
    /\ \/ j = ERASE_SEC
       \/ pc = "flash" /\ g_uUSICacheAddr = None
    /\ g_uUSICacheAddr' = None
    /\ j' = None
    /\ pc' = IF pc = "flash" THEN "idle" ELSE pc
    /\ UNCHANGED <<flash, g_uUSI_BUF, w, i, ops, written>>

\* mutated: the sector cached before is dropped without being written back
WriteLoadUnflushed ==
    /\ pc = "write" /\ Block(Pos) # g_uUSICacheAddr
    /\ g_uUSI_BUF' = [k \in 0..ERASE_SEC - 1 |-> flash[Block(Pos) + k]]
    /\ g_uUSICacheAddr' = Block(Pos)
    /\ UNCHANGED <<flash, pc, w, i, j, ops, written>>

WriteLoad ==
    /\ pc = "write" /\ g_uUSICacheAddr = None
    /\ g_uUSI_BUF' = [k \in 0..ERASE_SEC - 1 |-> flash[Block(Pos) + k]]
    /\ g_uUSICacheAddr' = Block(Pos)
    /\ UNCHANGED <<flash, pc, w, i, j, ops, written>>

copy_len == Min2(w.len - i, ERASE_SEC - InSector(Pos))

WriteCopy ==
    /\ pc = "write" /\ Block(Pos) = g_uUSICacheAddr
    /\ g_uUSI_BUF' = [k \in 0..ERASE_SEC - 1 |->
                        IF k \in InSector(Pos)..InSector(Pos) + copy_len - 1
                        THEN w.buf[i + k - InSector(Pos)] ELSE g_uUSI_BUF[k]]
    /\ written' = [a \in Addr |-> IF a \in Pos..Pos + copy_len - 1
                                  THEN w.buf[a - w.addr] ELSE written[a]]
    /\ i' = i + copy_len
    /\ pc' = IF i' < w.len THEN "write" ELSE "idle"
    /\ w' = IF i' < w.len THEN w ELSE NoCall
    /\ UNCHANGED <<flash, g_uUSICacheAddr, j, ops>>

\* The power fails and comes back: usiMyInitDevice
PowerFail ==
    /\ ops < MaxOps
    /\ ops' = ops + 1
    /\ g_uUSICacheAddr' = None
    /\ g_uUSI_BUF' = [k \in 0..ERASE_SEC - 1 |-> Blank]
    /\ pc' = "idle" /\ w' = NoCall /\ i' = 0 /\ j' = None
    /\ written' = flash
    /\ UNCHANGED flash

\* The bound is reached between two calls.
Rest == pc = "idle" /\ ops = MaxOps /\ UNCHANGED vars

Next == \/ \E c \in Writes : usiMyWrite(c)
        \/ usiMyFlash \/ FlashErase \/ FlashPage \/ FlashEnd
        \/ WriteLoad \/ WriteCopy \/ PowerFail \/ Rest

Spec == Init /\ [][Next]_vars

------------------------------------------------------------------------------
(* Properties *)

\* Between calls a read of any length at any address, over page and sector
\* boundaries, returns what was last written there, cached or not; with an empty cache
\* that is what the chip itself holds, so that a power failure harms nothing.
ReadsWhatWasWritten ==
    pc = "idle" => \A a \in Addr : \A len \in 1..g_uTotalSize - a :
                      usiMyRead(a, len) = [k \in 0..len - 1 |-> written[a + k]]

\* What the caller sees: the cached sector hides the chip.
Content == [a \in Addr |-> IF Block(a) = g_uUSICacheAddr
                           THEN g_uUSI_BUF[a - g_uUSICacheAddr] ELSE flash[a]]

Memory == INSTANCE FlashMemory WITH
    NoSector <- None, SectorOf <- Block, mem <- Content, dirty <- g_uUSICacheAddr

\* The cached flash is a plain memory in which a power failure, even in the middle
\* of a write-back, harms no sector but the one being changed.
ImplementsMemory == Memory!Spec

------------------------------------------------------------------------------
(* The inductive invariant *)

FlashTypeOK ==
    /\ flash \in [Addr -> Byte] /\ written \in [Addr -> Byte]
    /\ g_uUSI_BUF \in [0..ERASE_SEC - 1 -> Byte]
    /\ g_uUSICacheAddr \in {Block(a) : a \in Addr} \cup {None}
    /\ pc \in {"idle", "write", "flash"}

\* A write is inside its buffer.
CallInv == pc = "write" => w \in Writes /\ i \in 0..w.len - 1

\* What was written is there, in the chip or in the cached sector.
ContentInv == written = Content

\* While the cached sector is written back nothing is put into it, and the pages done are
\* in the chip.
FlushInv ==
    j # None => /\ MustFlush /\ g_uUSICacheAddr # None
                /\ j \in 0..ERASE_SEC /\ j % PAGE = 0
                /\ \A a \in Addr : Block(a) = g_uUSICacheAddr /\ a - g_uUSICacheAddr < j
                                     => flash[a] = g_uUSI_BUF[a - g_uUSICacheAddr]

FlashInv == FlashTypeOK /\ CallInv /\ ContentInv /\ FlushInv
=============================================================================
