----------------------------- MODULE Mp4Stream ------------------------------
(***************************************************************************)
(* The encoded video on its way from the sensor to the RTSP server:        *)
(* Host/VideoPhone/Src/vp_mp4.c (encoder), vp_thread_capture.c             *)
(* (OnEncodeMP4), vp_interfaces.c (iothread_EventRead,                     *)
(* wb702EnableMP4Encoder), Host/libMemPool/Inc/memory_pool.h, and          *)
(* Host/LibCamera/Src/RtspServer/rtspserver.c.                             *)
(*                                                                         *)
(* The capture thread gets the sensor's frames and calls the MP4 thread,   *)
(* which takes a block from a pool and starts the encoder.  The encoder's  *)
(* interrupt puts the frame before it into a list and keeps the new one,   *)
(* the RTSP server takes frames from the list and gives the blocks back.   *)
(* Meanwhile other threads turn the encoder on and off and change its      *)
(* settings, which restarts it: the new header needs a block too.          *)
(*                                                                         *)
(* Sections with interrupts disabled are single steps.  The lists are      *)
(* those of module List: a sequence for the frames, a set for the pool,    *)
(* whose order makes no difference.  vcptLock is held while cpt = "frame". *)
(***************************************************************************)
EXTENDS Integers, Sequences, FiniteSets, SequencesExt

CONSTANTS Block,        \* of the pool bufMP4Bitstream
          Caller,       \* threads that control the encoder
          None

ASSUME BlockAssumption == /\ IsFiniteSet(Block) /\ None \notin Block \cup Caller \cup {"capture"}
                          /\ "capture" \notin Caller

VARIABLES
    pool,               \* free blocks
    ref_count,
    listBitstream,      \* frames to be read
    ap,                 \* apMP4EnocderBitstream: 0 being encoded, 1 encoded last
    held,               \* blocks the RTSP server has
    hung,               \* what stopped the system: "twice", a block freed twice,
                        \* or "header", a header without a block
    nRefCount_Encoder,
    callback,           \* the encoder's callbacks are installed
    busy,               \* the encoder is running
    producer,           \* pcEncFlag: a frame may be started
    eEncState,
    bIsEnableLocalMP4, bPrevousStatus,
    capturing,          \* vcptIrqHandler is installed
    vmp4, vd, mtEnable, \* holders of vmp4Lock, vdLock, cygMtMP4Enable
    cpt,                \* where the capture thread is
    cap,                \* where the MP4 thread is
    pc,                 \* where a caller is
    reader              \* the RTSP server in iothread_EventRead

blocks  == <<pool, ref_count, listBitstream, ap, held, hung>>
encoder == <<nRefCount_Encoder, callback, busy, producer, eEncState>>
switch  == <<bIsEnableLocalMP4, bPrevousStatus, capturing>>
locks   == <<vmp4, vd, mtEnable>>
vars    == <<blocks, encoder, switch, locks, cpt, cap, pc, reader>>

Capture == "capture"

Init ==
    /\ pool = Block /\ ref_count = [b \in Block |-> 0]
    /\ listBitstream = <<>> /\ ap = [i \in {0, 1} |-> None]
    /\ held = {} /\ hung = "no"
    /\ nRefCount_Encoder = 0 /\ callback = FALSE /\ busy = FALSE
    /\ producer = TRUE /\ eEncState = "OK"
    /\ bIsEnableLocalMP4 = FALSE /\ bPrevousStatus = FALSE
    /\ capturing \in BOOLEAN                        \* the JPEG encoder's user may have started it
    /\ vmp4 = None /\ vd = None /\ mtEnable = None
    /\ cpt = "recv" /\ cap = "idle" /\ pc = [c \in Caller |-> "idle"] /\ reader = "check"

------------------------------------------------------------------------------
(* The pool *)

\* bufMP4BitstreamDecRef of every block of S: a block whose count is 0 stops the system.
DecRef(S) ==
    /\ ref_count' = [b \in Block |-> IF b \in S THEN ref_count[b] - 1 ELSE ref_count[b]]
    /\ pool' = pool \cup {b \in S : ref_count[b] = 1}
    /\ hung' = IF \E b \in S : ref_count[b] <= 0 THEN "twice" ELSE hung

\* bufMP4BitstreamNew has returned b.
Taken(b) == pool' = pool \ {b} /\ ref_count' = [ref_count EXCEPT ![b] = 1]

Broadcast == reader' = IF reader = "asleep" THEN "check" ELSE reader

------------------------------------------------------------------------------
(* The capture thread: vcptThread_OnCapture *)

\* The interrupt takes vcptLock and sends the frame to the thread.
CaptureFrame ==
    /\ cpt = "recv" /\ capturing
    /\ cpt' = "frame"
    /\ UNCHANGED <<blocks, encoder, switch, locks, cap, pc, reader>>

\* The MP4 thread is done with the frame before; vmp4encGetQuality takes vmp4Lock.  Then
\* vcptLock is released.
vcptThread_WaitEncode ==
    /\ cpt = "frame" /\ cap = "idle" /\ vmp4 = None
    /\ cpt' = "start"
    /\ UNCHANGED <<blocks, encoder, switch, locks, cap, pc, reader>>

\* mutated: without a free block the frame is dropped and nobody is told
NotifyNot == UNCHANGED reader

\* Without a free block the RTSP server is woken to make room.
iothread_EventNotify == Broadcast

vcptThread_StartEncode ==
    /\ cpt = "start" /\ cpt' = "recv"
    /\ \/ bIsEnableLocalMP4 /\ pool # {} /\ cap' = "called" /\ UNCHANGED reader
       \/ bIsEnableLocalMP4 /\ pool = {} /\ iothread_EventNotify /\ UNCHANGED cap
       \/ ~bIsEnableLocalMP4 /\ UNCHANGED <<cap, reader>>
    /\ UNCHANGED <<blocks, encoder, switch, locks, pc>>

------------------------------------------------------------------------------
(* The MP4 thread: vcptThread_OnEncodeMP4 *)

CaptureLock ==
    /\ cap = "called" /\ vmp4 = None
    /\ cap' = "locked" /\ vmp4' = Capture
    /\ UNCHANGED <<blocks, encoder, switch, vd, mtEnable, cpt, pc, reader>>

\* Switched off meanwhile, or the free block is gone: the frame is dropped.
CaptureDrop ==
    /\ cap = "locked" /\ (~bIsEnableLocalMP4 \/ pool = {})
    /\ cap' = "idle" /\ vmp4' = None
    /\ UNCHANGED <<blocks, encoder, switch, vd, mtEnable, cpt, pc, reader>>

\* A block whose frame cannot be started is given back.
vmp4encStart ==
    /\ cap = "locked" /\ bIsEnableLocalMP4
    /\ \E b \in pool :
        IF producer
        THEN /\ Taken(b) /\ ap' = [ap EXCEPT ![0] = b]
             /\ producer' = FALSE /\ busy' = TRUE
             /\ cap' = "wait"
             /\ UNCHANGED <<vmp4, hung>>
        ELSE /\ cap' = "idle" /\ vmp4' = None
             /\ UNCHANGED <<pool, ref_count, ap, hung, producer, busy>>
    /\ UNCHANGED <<listBitstream, held, nRefCount_Encoder, callback, eEncState, switch, vd, mtEnable,
                   cpt, pc, reader>>

Notify == IF eEncState = "OK" THEN Broadcast ELSE UNCHANGED reader

vmp4encWaitOK ==
    /\ cap = "wait" /\ producer
    /\ Notify
    /\ cap' = "idle" /\ vmp4' = None
    /\ UNCHANGED <<blocks, encoder, switch, vd, mtEnable, cpt, pc>>

------------------------------------------------------------------------------
(* The encoder's interrupt *)

\* The length is never 0: VP_BUF_APPEND_SIZE is part of it.
Pushed == listBitstream' = IF ap[1] = None THEN listBitstream ELSE Append(listBitstream, ap[1])

vmp4encDoneCallback ==
    /\ busy /\ busy' = FALSE
    /\ IF callback
       THEN /\ eEncState' = "OK" /\ producer' = TRUE
            /\ Pushed
            /\ ap' = [i \in {0, 1} |-> IF i = 1 THEN ap[0] ELSE None]
       ELSE UNCHANGED <<eEncState, producer, listBitstream, ap>>
    /\ UNCHANGED <<pool, ref_count, held, hung, nRefCount_Encoder, callback, switch, locks, cpt, cap, pc,
                   reader>>

\* mutated: the place of the block keeps its pointer
ForgottenNot == UNCHANGED ap

Forgotten == ap' = [ap EXCEPT ![0] = None]

vmp4encErrorCallback ==
    /\ busy /\ busy' = FALSE
    /\ IF callback
       THEN /\ eEncState' = "ERROR" /\ producer' = TRUE
            /\ DecRef({ap[0]}) /\ Forgotten
       ELSE UNCHANGED <<eEncState, producer, pool, ref_count, hung, ap>>
    /\ UNCHANGED <<listBitstream, held, nRefCount_Encoder, callback, switch, locks, cpt, cap, pc, reader>>

------------------------------------------------------------------------------
(* The RTSP server *)

\* iothread_EventRead finds a frame.
EventRead ==
    /\ reader = "check" /\ listBitstream # <<>>
    /\ held' = held \cup {Head(listBitstream)}
    /\ listBitstream' = Tail(listBitstream)
    /\ UNCHANGED <<pool, ref_count, ap, hung, encoder, switch, locks, cpt, cap, pc, reader>>

\* It finds none and is about to wait; a broadcast is not held back by its mutex.
EventNone ==
    /\ reader = "check" /\ listBitstream = <<>>
    /\ reader' = "wait"
    /\ UNCHANGED <<blocks, encoder, switch, locks, cpt, cap, pc>>

EventWait ==
    /\ reader = "wait" /\ reader' = "asleep"
    /\ UNCHANGED <<blocks, encoder, switch, locks, cpt, cap, pc>>

rtspFreeVideoBuf ==
    /\ \E b \in held : held' = held \ {b} /\ DecRef({b})
    /\ UNCHANGED <<listBitstream, ap, encoder, switch, locks, cpt, cap, pc, reader>>

------------------------------------------------------------------------------
(* Callers: wb702EnableMP4Encoder, vmp4encSetQuality, vmp4encSetFormat *)

At(c, from, to) == pc[c] = from /\ pc' = [pc EXCEPT ![c] = to]

\* The block for the header: a free one, or the newest frame's, freed and allocated again.
HeaderBlocks == IF pool # {} THEN pool
                ELSE IF listBitstream # <<>> THEN {Last(listBitstream)} ELSE {}

\* The header may be empty (H.263): its block is then given back.
Header(b, empty) ==
    LET frames == IF b \in pool THEN listBitstream ELSE Front(listBitstream)
    IN  /\ listBitstream' = IF empty THEN frames ELSE Append(frames, b)
        /\ pool' = IF empty THEN pool \cup {b} ELSE pool \ {b}
        /\ ref_count' = [ref_count EXCEPT ![b] = IF empty THEN 0 ELSE 1]

\* vmp4encAddRef for the first time, with both locks held.  ASSERT stops the system when
\* there is no block.
vmp4encAddRef ==
    /\ nRefCount_Encoder' = 1 /\ callback' = TRUE
    /\ IF HeaderBlocks = {}
       THEN /\ hung' = "header"
            /\ UNCHANGED <<pool, ref_count, listBitstream>>
       ELSE /\ \E b \in HeaderBlocks, empty \in BOOLEAN : Header(b, empty)
            /\ UNCHANGED hung
    /\ Broadcast
    /\ UNCHANGED <<ap, held>>

Enable(c, on) ==
    /\ mtEnable = None /\ bPrevousStatus # on
    /\ At(c, "idle", IF on THEN "on" ELSE "stop")
    /\ mtEnable' = c /\ bPrevousStatus' = on
    /\ UNCHANGED <<blocks, encoder, bIsEnableLocalMP4, capturing, vmp4, vd, cpt, cap, reader>>

EnableVd(c) ==
    /\ At(c, "on", "onvd") /\ vd = None /\ vd' = c
    /\ UNCHANGED <<blocks, encoder, switch, vmp4, mtEnable, cpt, cap, reader>>

\* vmp4Lock to vdUnlock.
EnableOn(c) ==
    /\ At(c, "onvd", "start") /\ vmp4 = None
    /\ bIsEnableLocalMP4' = TRUE
    /\ vmp4encAddRef
    /\ vd' = None
    /\ UNCHANGED <<busy, producer, eEncState, bPrevousStatus, capturing, vmp4, mtEnable, cpt, cap>>

\* The first user waits, with vcptLock, until the capture thread has nothing to do.
vcptStart(c) ==
    /\ At(c, "start", "msg") /\ cpt # "frame"
    /\ ~capturing => cpt = "recv"
    /\ capturing' = TRUE
    /\ UNCHANGED <<blocks, encoder, bIsEnableLocalMP4, bPrevousStatus, locks, cpt, cap, reader>>

\* Another user, the JPEG encoder's, may keep the capture running; the last one waits too.
vcptStop(c) ==
    /\ At(c, "stop", "off") /\ cpt # "frame"
    /\ capturing' \in {capturing, FALSE}
    /\ ~capturing' => cpt = "recv"
    /\ UNCHANGED <<blocks, encoder, bIsEnableLocalMP4, bPrevousStatus, locks, cpt, cap, reader>>

Filled == {ap[i] : i \in {0, 1}} \ {None}

\* mutated: the frame encoded last keeps its block
ClearedList ==
    /\ DecRef(Range(listBitstream))
    /\ listBitstream' = <<>> /\ UNCHANGED ap

vmp4ClearBuffer ==
    /\ DecRef(Range(listBitstream) \cup Filled)
    /\ listBitstream' = <<>> /\ ap' = [i \in {0, 1} |-> None]

EnableOff(c) ==
    /\ At(c, "off", "msg") /\ vmp4 = None
    /\ bIsEnableLocalMP4' = FALSE
    /\ nRefCount_Encoder' = 0 /\ callback' = FALSE
    /\ vmp4ClearBuffer
    /\ UNCHANGED <<held, busy, producer, eEncState, bPrevousStatus, capturing, locks, cpt, cap, reader>>

\* The capture thread has answered the message sent to it.
vcptWaitPrevMsg(c) ==
    /\ At(c, "msg", "idle") /\ cpt = "recv"
    /\ mtEnable' = None
    /\ UNCHANGED <<blocks, encoder, switch, vmp4, vd, cpt, cap, reader>>

\* mutated: vdLock is taken whether or not the encoder is on
RestartsAlways == TRUE

Restarts == nRefCount_Encoder # 0

\* With the encoder off only the settings change.
vmp4encSet(c) ==
    /\ vmp4 = None /\ Restarts
    /\ At(c, "idle", "set") /\ vmp4' = c
    /\ UNCHANGED <<blocks, encoder, switch, vd, mtEnable, cpt, cap, reader>>

\* vmp4encDecRef and vmp4encAddRef.
SetRestart(c) ==
    /\ At(c, "set", "idle") /\ vd = None
    /\ vmp4encAddRef
    /\ vmp4' = None
    /\ UNCHANGED <<busy, producer, eEncState, switch, vd, mtEnable, cpt, cap>>

------------------------------------------------------------------------------
CaptureStep == CaptureFrame \/ vcptThread_WaitEncode \/ vcptThread_StartEncode
Mp4Step     == CaptureLock \/ CaptureDrop \/ vmp4encStart \/ vmp4encWaitOK
Interrupt   == vmp4encDoneCallback \/ vmp4encErrorCallback
ReaderStep  == EventRead \/ EventNone \/ EventWait

CallReturns(c) == \/ EnableVd(c) \/ EnableOn(c) \/ vcptStart(c)
                  \/ vcptStop(c) \/ EnableOff(c)
                  \/ vcptWaitPrevMsg(c) \/ SetRestart(c)
Call(c)        == vmp4encSet(c) \/ \E on \in BOOLEAN : Enable(c, on)

Next == /\ hung = "no"
        /\ \/ CaptureStep \/ Mp4Step \/ Interrupt \/ ReaderStep \/ rtspFreeVideoBuf
           \/ \E c \in Caller : Call(c) \/ CallReturns(c)

\* Every thread runs, the sensor gives frames and the encoder finishes, often enough without
\* an error.  A lock that is free again and again, and the capture thread's attention, are
\* got: its messages are answered in their order.
Live(A) == hung = "no" /\ A

Fairness ==
    /\ WF_vars(Live(CaptureFrame \/ vcptThread_StartEncode)) /\ SF_vars(Live(vcptThread_WaitEncode))
    /\ WF_vars(Live(CaptureDrop \/ vmp4encStart \/ vmp4encWaitOK)) /\ SF_vars(Live(CaptureLock))
    /\ WF_vars(Live(Interrupt)) /\ SF_vars(Live(vmp4encDoneCallback))
    /\ WF_vars(Live(ReaderStep)) /\ WF_vars(Live(rtspFreeVideoBuf))
    /\ \A c \in Caller : SF_vars(Live(CallReturns(c)))

Spec == Init /\ [][Next]_vars /\ Fairness

------------------------------------------------------------------------------
(* Properties *)

Place == {"pool", "list", "encoding", "encoded", "rtsp"}

Places(b) == {p \in Place :
                CASE p = "pool" -> b \in pool
                  [] p = "list" -> b \in Range(listBitstream)
                  [] p = "encoding" -> b = ap[0]
                  [] p = "encoded" -> b = ap[1]
                  [] p = "rtsp" -> b \in held}

\* No block is lost, shared or freed twice, whatever threads and interrupts do to the pool:
\* each block is in one place, and counted once unless it is free.  So a header fails to
\* find a block only when the RTSP server has all of them but at most one.
Accounted ==
    /\ hung # "twice"
    /\ hung = "header" => Cardinality(Block) <= Cardinality(held) + 1
    /\ IsInjective(listBitstream)
    /\ \A b \in Block : /\ \E p \in Place : Places(b) = {p}
                        /\ ref_count[b] = IF b \in pool THEN 0 ELSE 1

\* After the encoder was switched off nothing is encoded any more and no frame is left
\* over for the next viewer: the capture thread, though called before, looks again.
NothingAfterStop ==
    ~bIsEnableLocalMP4 => ~busy /\ listBitstream = <<>> /\ \A i \in {0, 1} : ap[i] = None

\* Switching the encoder and changing its settings return, unless the system stops at a
\* header without a block: vdLock and vmp4Lock are taken in both orders, but never both ways
\* at a time, the MP4 thread, which keeps vmp4Lock until its frame is encoded, comes back
\* from frames the encoder fails on too, and the capture thread, which waits for the MP4
\* thread, answers the messages that vcptStart, vcptStop and the switch wait for.
CallsReturn == \A c \in Caller : pc[c] # "idle" ~> pc[c] = "idle" \/ hung = "header"

\* A broadcast lost between the RTSP server's look and its wait is made good by the next
\* frame, whether it finds a block, and is encoded, or finds none: a frame does not stay in
\* the list while the server sleeps.
FrameIsRead == (reader = "asleep" /\ listBitstream # <<>>)
                    ~> (reader # "asleep" \/ listBitstream = <<>>)

------------------------------------------------------------------------------
(* The inductive invariant *)

\* The one type invariant of the module.
TypeOK ==
    /\ pool \subseteq Block /\ held \subseteq Block
    /\ ref_count \in [Block -> Int]
    /\ listBitstream \in Seq(Block)
    /\ ap \in [{0, 1} -> Block \cup {None}]
    /\ nRefCount_Encoder \in {0, 1}
    /\ vmp4 \in Caller \cup {Capture, None}
    /\ cpt \in {"recv", "frame", "start"}
    /\ cap \in {"idle", "called", "locked", "wait"}
    /\ pc \in [Caller -> {"idle", "on", "onvd", "start", "stop", "off", "msg", "set"}]

\* Nothing is in two places, or twice in the list.
Disjoint ==
    /\ pool \cap held = {}
    /\ \A i \in DOMAIN listBitstream :
            /\ listBitstream[i] \notin pool \cup held
            /\ \A k \in {0, 1} : listBitstream[i] # ap[k]
    /\ \A i, k \in DOMAIN listBitstream : listBitstream[i] = listBitstream[k] => i = k
    /\ \A k \in {0, 1} : ap[k] \notin pool \cup held
    /\ ap[0] = ap[1] => ap[0] = None

\* No block is lost.
Everywhere ==
    \A b \in Block : \/ b \in pool \cup held
                     \/ \E k \in {0, 1} : ap[k] = b
                     \/ \E i \in DOMAIN listBitstream : listBitstream[i] = b

\* Blocks outside the pool are counted once, and only blocks of the server leave a header
\* without one.
Counted ==
    /\ \A b \in Block : ref_count[b] = IF b \in pool THEN 0 ELSE 1
    /\ hung # "twice"
    /\ hung = "header" => Cardinality(Block) <= Cardinality(held) + 1

BlockInv == Disjoint /\ Everywhere /\ Counted

\* Who has vmp4Lock: the MP4 thread until its frame is encoded, and a caller that
\* restarts the encoder.  A frame is encoded only under it, with the callbacks installed.
EncoderInv ==
    /\ cpt = "start" => cap = "idle"
    /\ vmp4 = Capture <=> cap \in {"locked", "wait"}
    /\ \A c \in Caller : vmp4 = c <=> pc[c] = "set"
    /\ producer <=> ~busy
    /\ ap[0] # None <=> busy
    /\ busy => cap = "wait" /\ bIsEnableLocalMP4
    /\ callback <=> bIsEnableLocalMP4
    /\ nRefCount_Encoder # 0 <=> bIsEnableLocalMP4
    /\ \A c \in Caller : pc[c] = "set" => bIsEnableLocalMP4
    /\ ~bIsEnableLocalMP4 => listBitstream = <<>> /\ ap[1] = None

\* Inductive.
StreamInv == TypeOK /\ BlockInv /\ EncoderInv
=============================================================================
