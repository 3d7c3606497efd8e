---------------------------- MODULE FlashMemory ----------------------------
(***************************************************************************)
(* What the serial flash promises its users: a memory of bytes.  Bytes are *)
(* stored piece by piece, a piece within one sector; the sector stored to  *)
(* last may be lost when the power fails, until it is flushed, and no      *)
(* other sector ever is.                                                   *)
(***************************************************************************)
EXTENDS Integers

CONSTANTS Addr, Byte, NoSector, SectorOf(_)

VARIABLES mem,          \* what a read returns
          dirty         \* the sector a power failure may harm, or NoSector

vars == <<mem, dirty>>

Init == mem \in [Addr -> Byte] /\ dirty = NoSector

\* Bytes of sector s change; the sector stored to before is safe from now on.
Store(s) ==
    /\ dirty' = s
    /\ mem' \in [Addr -> Byte]
    /\ \A a \in Addr : SectorOf(a) # s => mem'[a] = mem[a]

Flush == dirty' = NoSector /\ UNCHANGED mem

PowerFail ==
    /\ dirty' = NoSector
    /\ mem' \in [Addr -> Byte]
    /\ \A a \in Addr : SectorOf(a) # dirty => mem'[a] = mem[a]

Next == (\E a \in Addr : Store(SectorOf(a))) \/ Flush \/ PowerFail

Spec == Init /\ [][Next]_vars
=============================================================================
