------------------------------- MODULE Upload -------------------------------
(***************************************************************************)
(* Firmware upload (Http_Post_FMUpload) and read-back (bin/ipcam.bin):     *)
(* Host/LibCamera/Src/Upload/Upload.c, as built without FILESYSTEM.        *)
(*                                                                         *)
(* A multipart request arrives in pieces of any size and is parsed byte by *)
(* byte in a ring of 32K: the file is written to flash whenever the ring is *)
(* full, except for the bytes at the end that may turn out to be the        *)
(* delimiter.  The flash header, with the length, is written last.          *)
(*                                                                         *)
(* Bytes are numbers: a file has its own, the others are the negative ones *)
(* below; the line of a part's header that names it is one byte.  The flash *)
(* is what module FlashMemory says.  An abandoned request leaves no trace   *)
(* but the flash and the state of the update.  USI_IS_READY holds: without *)
(* a flash chip both functions return at once.                              *)
(***************************************************************************)
EXTENDS Integers, Sequences, FiniteSets, SequencesExt

CONSTANTS Req,          \* requests
          Scenarios,    \* what the requests send: functions from Req to Post
          Size,         \* of acBuf
          Base,         \* address of the image: 16
          Block,        \* of FillFirmwareData: 128
          MaxAddr       \* end of the flash

CR     == -1
LF     == -2
DASH   == -3
HFile  == -4            \* header line: name="SourceFile"
HParam == -5            \* header line of another field
Value  == -6            \* a field's value

NULL   == -1

\* kind: "file", a request with a file; "nobound", one without a boundary; "refused",
\* one with too little privilege or of a size out of bounds; "none", no request.
\* more: fields come after the file, as on the upload page.
Delimiter(p) == <<DASH, DASH>> \o p.boundary

Stream(p) ==
    IF p.kind # "file" THEN <<>> ELSE
    Delimiter(p) \o <<CR, LF, HFile, CR, LF, CR, LF>> \o p.file \o <<CR, LF>> \o Delimiter(p)
    \o (IF p.more THEN <<CR, LF, HParam, CR, LF, CR, LF, Value, CR, LF>> \o Delimiter(p) ELSE <<>>)
    \o <<DASH, DASH, CR, LF>>

\* A boundary is part of a line; the delimiter is not in the file (RFC 2046); a request that
\* is not refused fits in the flash (FIRMWARE_UPDATE_LIMIT_SIZE).
PostOK(p) ==
    /\ p.file \in Seq(Int) /\ p.boundary \in Seq(Int) /\ p.more \in BOOLEAN
    /\ \A i \in 1 .. Len(p.boundary) : p.boundary[i] \notin {CR, LF}
    /\ \A i \in 0 .. Len(p.file) - Len(p.boundary) - 2 :
          \E k \in 1 .. Len(p.boundary) + 2 : p.file[i + k] # Delimiter(p)[k]
    /\ Len(p.boundary) + 8 < Size
    /\ Base + Len(Stream(p)) <= MaxAddr + 1

ASSUME UploadAssumption ==
    /\ Base \in Nat \ {0} /\ Block \in Nat \ {0} /\ MaxAddr \in Nat /\ Size \in Nat
    /\ \A s \in Scenarios : \A r \in Req : PostOK(s[r])

VARIABLES
    post,               \* the scenario
    pos,                \* bytes of the request processed
    piPostState,        \* of each request; "NONE" before, "OVER" after it
    part,               \* PROCESS_MULTIPART_T of each request
    iFlashUpdateState,
    flash,              \* contents, by address
    length,             \* the length in the header, 0 without one
    reader,             \* bin/ipcam.bin: the next address (0: no request), and what was sent
    spoilt,             \* a failed request ended while another was uploading
    dirty,              \* the image has changed since the header was written
    mixed,              \* image or header have changed since the reader began
    image               \* the file of the last upload answered with OK

vars == <<post, pos, piPostState, part, iFlashUpdateState, flash, length, reader, spoilt, dirty, mixed,
          image>>

NewPart(b) == [iState |-> "IGNORE", pfFlashTmpFile |-> Base, acBoundary |-> b,
               acBuf |-> [i \in 0 .. Size - 1 |-> 0], header |-> 0, end |-> 0]

NoReader == [addr |-> 0, sent |-> <<>>]

Init ==
    /\ post \in Scenarios
    /\ pos = [r \in Req |-> 0]
    /\ piPostState = [r \in Req |-> IF post[r].kind = "none" THEN "OVER" ELSE "NONE"]
    /\ part = [r \in Req |-> NewPart(post[r].boundary)]
    /\ iFlashUpdateState = "STOP"
    /\ flash = [a \in Base .. MaxAddr |-> 0] /\ length = 0
    /\ reader = NoReader
    /\ spoilt = FALSE /\ dirty = FALSE /\ mixed = FALSE /\ image = <<>>

------------------------------------------------------------------------------
(* The ring *)

Step(i) == IF i + 1 = Size THEN 0 ELSE i + 1

\* The oldest byte goes when the ring is full.
MPAddChar(p, ch) ==
    [p EXCEPT !.acBuf[p.end] = ch,
              !.end = Step(@),
              !.header = IF Step(p.end) = @ THEN Step(@) ELSE @]

gcd[p \in (0 .. Size) \X (0 .. Size)] ==
    LET x == p[1]   y == p[2]
    IN  IF x = 0 THEN y ELSE IF y = 0 THEN x
        ELSE IF x > y THEN gcd[<<x % y, y>>] ELSE gcd[<<x, y % x>>]

\* The place a byte comes from.
Further(k, iMove) == IF k + iMove >= Size THEN k + iMove - Size ELSE k + iMove

\* One cycle of the rotation, starting at i: each byte comes from iMove further on, the
\* last one from where the cycle began.
Moved(s, iMove) ==
    LET pre == Further(s.at, iMove)
    IN  [buf |-> [s.buf EXCEPT ![s.at] = s.buf[pre]], pos |-> s.at, at |-> pre]

Cycle(buf, i, iMove, iEachMove) ==
    LET s[j \in 0 .. iEachMove] == IF j = 0 THEN [buf |-> buf, pos |-> i, at |-> i]
                                   ELSE Moved(s[j - 1], iMove)
        over == s[iEachMove]
    IN  [over.buf EXCEPT ![over.pos] = buf[i]]

Rotate(buf, iMove) ==
    LET iComDiv == gcd[<<Size - iMove, Size>>]
        b[i \in 0 .. iComDiv] == IF i = 0 THEN buf
                                 ELSE Cycle(b[i - 1], i - 1, iMove, Size \div iComDiv)
    IN  b[iComDiv]

\* The data is rotated to the start of the buffer.
MPClean(p) ==
    LET n   == p.end + Size - p.header
        len == IF n > Size THEN n - Size ELSE n
    IN  IF p.header % Size = 0 THEN p
        ELSE [p EXCEPT !.acBuf = Rotate(p.acBuf, p.header), !.header = 0, !.end = len]

MPClear(p) == [p EXCEPT !.header = 0, !.end = 0]

\* Where the delimiter begins that the data ends with: two dashes, the boundary, perhaps
\* CR, and LF or a dash.
MPTestBoundary(p) ==
    LET L     == Len(p.acBoundary)
        one   == p.end - 2
        stop  == IF one >= 0 /\ p.acBuf[one] = CR THEN one - 1 ELSE one
        start == stop + 1 - L
    IN  IF /\ start >= 2 /\ p.acBuf[p.end - 1] \in {LF, DASH}
           /\ \A i \in 1 .. L : p.acBuf[start + i - 1] = p.acBoundary[i]
           /\ p.acBuf[start - 1] = DASH /\ p.acBuf[start - 2] = DASH
        THEN start - 2 ELSE NULL

\* The end of the line before the delimiter is not part of the file.
CutLine(p, pc) ==
    IF pc > 0 /\ p.acBuf[pc - 1] = LF
    THEN IF pc > 1 /\ p.acBuf[pc - 2] = CR THEN pc - 2 ELSE pc - 1
    ELSE pc

------------------------------------------------------------------------------
(* ProcessUpdate: one byte of a request *)

\* usiMyWrite of the first n bytes of the buffer; it does not fail.
usiMyWrite(p, n) ==
    [a \in DOMAIN flash |-> IF a \in p.pfFlashTmpFile .. p.pfFlashTmpFile + n - 1
                            THEN p.acBuf[a - p.pfFlashTmpFile] ELSE flash[a]]

\* mutated: the dashes of the delimiter are forgotten
FlushedDashes(p) == ((p.end - p.header - Len(p.acBoundary)) \div 4) * 4

\* The bytes MPTestWriteFlash writes: all but what may be the delimiter, in words.
Flushed(p) == ((p.end - p.header - Len(p.acBoundary) - 2) \div 4) * 4

Parsed(r, p) == part' = [part EXCEPT ![r] = p]

\* The first n bytes of the buffer p go to flash; the parser goes on as q.
Written(r, n, p, q) ==
    /\ flash' = usiMyWrite(p, n)
    /\ dirty' = TRUE
    /\ mixed' = (mixed \/ reader.addr # 0)
    /\ Parsed(r, [q EXCEPT !.pfFlashTmpFile = @ + n])

\* The header of a part is complete (httpParseSinglePart, GetInnerPartName).
PartNamed(p) ==
    LET held == {p.acBuf[i] : i \in p.header .. p.end - 1}
    IN  [MPClear(p) EXCEPT !.iState = IF HFile \in held THEN "BODYFILE"
                                      ELSE IF HParam \in held THEN "BODYPARAM" ELSE "IGNORE"]

To(p, st) == [p EXCEPT !.iState = st]

\* The parser outside the file, after ch was added.
Line(p, ch) ==
    CASE p.iState = "IGNORE" ->
            IF ch # LF THEN p
            ELSE LET q == MPClean(p) IN IF MPTestBoundary(q) # NULL THEN To(MPClear(q), "HEADER") ELSE q
      [] p.iState = "HEADER" ->
            IF ch # LF THEN p
            ELSE LET q == MPClean(p) IN IF MPTestBoundary(q) = NULL THEN To(q, "ONE_CR") ELSE q
      [] p.iState = "ONE_CR" /\ ch = CR -> To(p, "TWO_LF")
      [] p.iState \in {"ONE_CR", "TWO_LF"} /\ ch = LF -> PartNamed(MPClean(p))
      [] p.iState = "BODYPARAM" ->
            LET q == MPClean(p) IN IF MPTestBoundary(q) # NULL THEN To(MPClear(q), "HEADER") ELSE q
      [] OTHER -> To(p, "HEADER")

ProcessUpdate(r) ==
    LET ch == Stream(post[r])[pos[r] + 1]
        p  == MPAddChar(part[r], ch)
        pc == MPTestBoundary(p)
    IN  IF p.iState # "BODYFILE" THEN Parsed(r, Line(p, ch)) /\ UNCHANGED <<flash, dirty, mixed>>
        ELSE IF pc # NULL THEN Written(r, CutLine(p, pc), p, To(MPClear(p), "HEADER"))
        ELSE IF p.end + 1 = Size
             THEN LET n == Flushed(p)
                  IN Written(r, n, p, MPClean([p EXCEPT !.header = n]))
        ELSE Parsed(r, p) /\ UNCHANGED <<flash, dirty, mixed>>

------------------------------------------------------------------------------
(* Http_Post_FMUpload *)

Uploading == {r \in Req : piPostState[r] = "OK"}

State(r, st) == piPostState' = [piPostState EXCEPT ![r] = st]

Shared == iFlashUpdateState = "UPLOADING"

\* The first piece of a request.
PostInit(r) ==
    /\ piPostState[r] = "NONE"
    /\ \/ /\ post[r].kind = "refused" \/ Shared
          /\ State(r, "REFUSED") /\ UNCHANGED iFlashUpdateState
       \/ /\ post[r].kind = "nobound" /\ ~Shared
          /\ State(r, "ERROR") /\ UNCHANGED iFlashUpdateState
       \/ /\ post[r].kind = "file" /\ ~Shared
          /\ \/ State(r, "NO_MEM") /\ UNCHANGED iFlashUpdateState
             \/ State(r, "OK") /\ iFlashUpdateState' = "UPLOADING"
    /\ UNCHANGED <<post, pos, part, flash, length, reader, spoilt, dirty, mixed, image>>

PostData(r) ==
    /\ piPostState[r] = "OK" /\ pos[r] < Len(Stream(post[r]))
    /\ ProcessUpdate(r)
    /\ pos' = [pos EXCEPT ![r] = @ + 1]
    /\ UNCHANGED <<post, piPostState, iFlashUpdateState, length, reader, spoilt, image>>

\* The request has ended and is answered.  Nothing is written for a refused one.
PostOver(r) ==
    /\ piPostState[r] \in {"OK", "ERROR", "NO_MEM", "REFUSED"}
    /\ piPostState[r] = "OK" => pos[r] = Len(Stream(post[r]))
    /\ iFlashUpdateState' = IF piPostState[r] = "REFUSED" THEN iFlashUpdateState ELSE "STOP"
    /\ IF piPostState[r] = "OK"
       THEN /\ length' = part[r].pfFlashTmpFile
            /\ dirty' = FALSE
            /\ mixed' = (mixed \/ reader.addr # 0)
            /\ image' = post[r].file
       ELSE UNCHANGED <<length, dirty, mixed, image>>
    /\ spoilt' = (spoilt \/ (piPostState[r] # "REFUSED" /\ Uploading \ {r} # {}))
    /\ State(r, "OVER")
    /\ UNCHANGED <<post, pos, part, flash, reader>>

\* The connection breaks: nobody is told.
PostLost(r) ==
    /\ piPostState[r] \notin {"NONE", "OVER"}
    /\ State(r, "OVER")
    /\ UNCHANGED <<post, pos, part, iFlashUpdateState, flash, length, reader, spoilt, dirty, mixed, image>>

------------------------------------------------------------------------------
(* Http_GetFirmware, registered as bin/ipcam.bin *)

Http_GetFirmware ==
    /\ reader.addr = 0 /\ length # 0
    /\ reader' = [addr |-> Base, sent |-> <<>>]
    /\ UNCHANGED <<post, pos, piPostState, part, iFlashUpdateState, flash, length, spoilt, dirty,
                   mixed, image>>

\* mutated: a block is never shortened to the end
BlockWhole(addr) == Block - (addr % Block)

\* Up to the end of a block, or of the image.
ThisLength(addr) ==
    LET left == length - addr   uBlock == Block - (addr % Block)
    IN  IF left >= uBlock THEN uBlock ELSE left

FillFirmwareData ==
    /\ reader.addr # 0 /\ reader.addr < length
    /\ LET n == ThisLength(reader.addr)
       IN reader' = [addr |-> reader.addr + n,
                     sent |-> reader.sent \o [i \in 1 .. n |-> flash[reader.addr + i - 1]]]
    /\ UNCHANGED <<post, pos, piPostState, part, iFlashUpdateState, flash, length, spoilt, dirty, mixed, image>>

ReadOver ==
    /\ reader.addr # 0 /\ reader.addr >= length
    /\ reader' = NoReader /\ mixed' = FALSE
    /\ UNCHANGED <<post, pos, piPostState, part, iFlashUpdateState, flash, length, spoilt, dirty,
                   image>>

------------------------------------------------------------------------------
Next == \/ \E r \in Req : PostInit(r) \/ PostData(r) \/ PostOver(r) \/ PostLost(r)
        \/ Http_GetFirmware \/ FillFirmwareData \/ ReadOver

Spec == Init /\ [][Next]_vars

------------------------------------------------------------------------------
(* Properties *)

Flashed(to) == [i \in 1 .. to - Base |-> flash[Base + i - 1]]

\* The bytes MPTestWriteFlash keeps beyond the delimiter's own.
Spare(r) == (Size - 1 - Len(post[r].boundary) - 2) % 4

\* The answer OK means that the image is the file, wherever the writes have cut it, but for
\* one or two bytes of the line end after it.  Only when no byte is spare and fields follow
\* the file may a write split the delimiter so that it is not seen; the fields are then
\* part of the image, still after the whole file.
UploadIsWhole ==
    \A r \in Uploading :
        LET got == Flashed(part[r].pfFlashTmpFile)
        IN  ~spoilt /\ pos[r] = Len(Stream(post[r])) =>
                /\ IsPrefix(post[r].file, got)
                /\ Len(got) <= Len(post[r].file) + 2 \/ (Spare(r) = 0 /\ post[r].more)

\* bin/ipcam.bin, answered block by block with the length read again each time, gives back
\* the file of the last upload that was answered with OK, unless image or header change
\* meanwhile, or an upload that broke off has left its own bytes under the old header.
ReadsBack ==
    ~spoilt /\ ~dirty /\ ~mixed /\ reader.addr # 0 /\ reader.addr >= length
        => /\ Len(reader.sent) = length - Base
           /\ IsPrefix(image, reader.sent)

------------------------------------------------------------------------------
(* The inductive invariant *)

Indices == 0 .. Size - 1
Ring    == [Indices -> Int]

PartStates == {"IGNORE", "HEADER", "ONE_CR", "TWO_LF", "BODYFILE", "BODYPARAM"}

Parts == [iState : PartStates, pfFlashTmpFile : Nat, acBoundary : Seq(Int), acBuf : Ring,
          header : Indices, end : Indices]

\* In a file the data is at the start of the buffer, and the buffer is not full; what is
\* written and what is held has come with the request.
PartOK(q, n) ==
    /\ q.header # 0 => q.header # q.end
    /\ q.pfFlashTmpFile >= Base /\ q.pfFlashTmpFile - Base <= n
    /\ q.iState = "BODYFILE" =>
          q.header = 0 /\ q.end <= Size - 2 /\ q.pfFlashTmpFile - Base + q.end <= n

UploadTypeOK ==
    /\ post \in Scenarios
    /\ pos \in [Req -> Nat]
    /\ \A r \in Req : pos[r] <= Len(Stream(post[r]))
    /\ piPostState \in [Req -> {"NONE", "OK", "ERROR", "NO_MEM", "REFUSED", "OVER"}]
    /\ part \in [Req -> Parts]
    /\ \A r \in Req : part[r].acBoundary = post[r].boundary /\ PartOK(part[r], pos[r])
    /\ iFlashUpdateState \in {"STOP", "UPLOADING"}
    /\ flash \in [Base .. MaxAddr -> Int]
    /\ length \in {0} \cup (Base .. MaxAddr + 1)
    /\ reader \in [addr : Nat, sent : Seq(Int)]
    /\ spoilt \in BOOLEAN /\ dirty \in BOOLEAN /\ mixed \in BOOLEAN
    /\ image \in Seq(Int)

\* Without the end of a failed request in between there is one upload at a time.
OneUpload ==
    /\ \A r \in Req : piPostState[r] = "NONE" => pos[r] = 0 /\ part[r] = NewPart(post[r].boundary)
    /\ \A r \in Uploading : post[r].kind = "file"
    /\ ~spoilt => \A r \in Uploading : Shared /\ \A o \in Uploading : o = r

\* Where the file begins, where the delimiter after it ends, and where it is recognised.
FileAt(p) == Len(p.boundary) + 9
Until(p)  == FileAt(p) + Len(p.file) + Len(p.boundary) + 4
Sought(p) == IF p.more THEN Until(p) + 2 ELSE Until(p) + 1

\* The buffer holds the bytes of the request s after the first "from", up to the n-th.
Holds(q, s, from, n) ==
    /\ q.header = 0 /\ q.end = n - from
    /\ \A k \in 1 .. n - from : q.acBuf[k - 1] = s[from + k]

BeforeFile(q, p, n) ==
    LET hl == Len(p.boundary) + 4
    IN  /\ q.pfFlashTmpFile = Base
        /\ \/ n < hl /\ q.iState = "IGNORE" /\ Holds(q, Stream(p), 0, n)
           \/ n \in hl .. hl + 2 /\ q.iState = "HEADER" /\ Holds(q, Stream(p), hl, n)
           \/ n = hl + 3 /\ q.iState = "ONE_CR" /\ Holds(q, Stream(p), hl, n)
           \/ n = hl + 4 /\ q.iState = "TWO_LF" /\ Holds(q, Stream(p), hl, n)

\* The flash has the first w bytes after the part's header.
Copied(fl, p, w) == \A i \in 1 .. w : fl[Base + i - 1] = Stream(p)[FileAt(p) + i]

InFile(fl, q, p, n) ==
    LET w == q.pfFlashTmpFile - Base
    IN  /\ n >= FileAt(p) /\ n < Sought(p) /\ q.iState = "BODYFILE"
        /\ w <= Len(p.file) + 2 /\ Copied(fl, p, w) /\ Holds(q, Stream(p), FileAt(p) + w, n)

Whole(fl, q, p) ==
    q.pfFlashTmpFile >= Base + Len(p.file) /\ \A i \in 1 .. Len(p.file) : fl[Base + i - 1] = p.file[i]

\* After the delimiter: the header of the next part, and that part, if there is one.
AfterFile(fl, q, p, n) ==
    LET m == n - Sought(p)
    IN  /\ Whole(fl, q, p) /\ q.pfFlashTmpFile <= Base + Len(p.file) + 2
        /\ \/ m \in 0 .. 2 /\ q.iState = "HEADER" /\ Holds(q, Stream(p), Sought(p), n)
           \/ m = 3 /\ q.iState = "ONE_CR" /\ Holds(q, Stream(p), Sought(p), n)
           \/ m = 4 /\ q.iState = "TWO_LF" /\ Holds(q, Stream(p), Sought(p), n)
           \/ m \in 5 .. 7 /\ q.iState = "BODYPARAM" /\ q.header = 0 /\ q.end = m - 5
           \/ m >= 8 /\ q.iState \in {"BODYPARAM", "HEADER"}
           \/ m >= 8 /\ q.iState = "ONE_CR" /\ n = Len(Stream(p))

\* A write has split the delimiter.
Unseen(fl, q, p, n) ==
    p.more /\ n > Until(p) /\ Whole(fl, q, p) /\ (Size - 1 - Len(p.boundary) - 2) % 4 = 0

Progress(fl, q, p, n) ==
    BeforeFile(q, p, n) \/ InFile(fl, q, p, n) \/ AfterFile(fl, q, p, n) \/ Unseen(fl, q, p, n)

ParseInv == ~spoilt => \A r \in Uploading : Progress(flash, part[r], post[r], pos[r])

\* The flash has the file of the last upload, until the next write.
ImageInv ==
    ~spoilt /\ ~dirty /\ length # 0
        => /\ Base + Len(image) <= length
           /\ \A i \in 1 .. Len(image) : flash[Base + i - 1] = image[i]

\* What the reader has sent is what the flash has, unless it has changed.
ReaderInv ==
    reader.addr # 0 => /\ reader.addr >= Base /\ Len(reader.sent) = reader.addr - Base
                       /\ ~mixed => /\ reader.addr <= length
                                    /\ \A i \in 1 .. Len(reader.sent) : reader.sent[i] = flash[Base + i - 1]

UploadInv == UploadTypeOK /\ OneUpload /\ ParseInv /\ ImageInv /\ ReaderInv
=============================================================================
