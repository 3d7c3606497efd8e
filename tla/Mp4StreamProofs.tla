--------------------------- MODULE Mp4StreamProofs ---------------------------
(***************************************************************************)
(* The blocks of the video stream: none is lost, shared or freed twice,    *)
(* only the server's own blocks can leave a header without one, and        *)
(* nothing is left over when the encoder is switched off, for any pool and *)
(* any number of threads that control the encoder.                         *)
(***************************************************************************)
EXTENDS Mp4Stream, FiniteSetTheorems, TLAPS

\* With everything in the pool and nothing running the invariant holds.
LEMMA InitStream == Init => StreamInv
<1> SUFFICES ASSUME Init PROVE StreamInv
  OBVIOUS
<1>1. TypeOK
  BY BlockAssumption DEF Init, TypeOK, Capture
<1>3. BlockInv
  BY BlockAssumption DEF Init, BlockInv, Disjoint, Everywhere, Counted
<1>4. EncoderInv
  BY BlockAssumption DEF Init, EncoderInv, Capture
<1> QED
  BY <1>1, <1>3, <1>4 DEF StreamInv

\* Steps that touch no block keep what is said of blocks.
LEMMA BlocksKept ==
    ASSUME BlockInv, UNCHANGED blocks
    PROVE  BlockInv'
BY DEF BlockInv, Disjoint, Everywhere, Counted, blocks

\* Giving back blocks that are out makes them free, once each.
LEMMA DecRefFrees ==
    ASSUME StreamInv, NEW S \in SUBSET Block, S \cap pool = {}, DecRef(S)
    PROVE  /\ pool' = pool \cup S /\ hung' = hung
           /\ ref_count' \in [Block -> Int]
           /\ \A b \in Block : ref_count'[b] = IF b \in pool' THEN 0 ELSE 1
<1>1. \A b \in S : ref_count[b] = 1
  BY DEF StreamInv, BlockInv, Counted
<1>2. ref_count' \in [Block -> Int] /\ pool' = pool \cup S
  BY <1>1 DEF StreamInv, TypeOK, DecRef
<1>3. hung' = hung
  <2>1. ~\E b \in S : ref_count[b] <= 0
    BY <1>1
  <2> QED
    BY <2>1, Zenon DEF DecRef
<1>4. \A b \in Block : ref_count'[b] = IF b \in S THEN 0 ELSE ref_count[b]
  BY <1>1 DEF DecRef
<1> QED
  BY <1>2, <1>3, <1>4 DEF StreamInv, BlockInv, Counted

\* The capture thread: it calls the MP4 thread only when that is idle.
LEMMA CaptureKeeps ==
    ASSUME StreamInv, CaptureStep
    PROVE  StreamInv'
<1> USE DEF CaptureStep, CaptureFrame, vcptThread_WaitEncode, vcptThread_StartEncode,
            blocks, encoder, switch, locks, Capture
<1>1. TypeOK'
  BY DEF StreamInv, TypeOK
<1>2. BlockInv'
  BY BlocksKept DEF StreamInv
<1>3. EncoderInv'
  BY DEF StreamInv, TypeOK, EncoderInv
<1> QED
  BY <1>1, <1>2, <1>3 DEF StreamInv

\* The MP4 thread.
LEMMA Mp4Keeps ==
    ASSUME StreamInv, Mp4Step
    PROVE  StreamInv'
<1> USE BlockAssumption
<1>1. CASE CaptureLock \/ CaptureDrop \/ vmp4encWaitOK
  <2> USE DEF CaptureLock, CaptureDrop, vmp4encWaitOK, blocks, encoder, switch, locks, Capture
  <2>1. TypeOK'
    BY <1>1 DEF StreamInv, TypeOK
  <2>2. BlockInv'
    BY <1>1, BlocksKept DEF StreamInv
  <2>3. EncoderInv'
    BY <1>1 DEF StreamInv, TypeOK, EncoderInv
  <2> QED
    BY <2>1, <2>2, <2>3 DEF StreamInv
<1>2. CASE vmp4encStart
  <2> USE DEF vmp4encStart, Taken, switch, Capture
  <2>1. TypeOK'
    BY <1>2 DEF StreamInv, TypeOK
  <2>2. BlockInv'
    BY <1>2 DEF StreamInv, TypeOK, BlockInv, Disjoint, Everywhere, Counted, EncoderInv
  <2>3. EncoderInv'
    BY <1>2 DEF StreamInv, TypeOK, EncoderInv
  <2> QED
    BY <2>1, <2>2, <2>3 DEF StreamInv
<1> QED
  BY <1>1, <1>2 DEF Mp4Step

\* The encoder's interrupt: a frame moves on, or its block is given back.
LEMMA InterruptKeeps ==
    ASSUME StreamInv, hung = "no", Interrupt
    PROVE  StreamInv'
<1> USE BlockAssumption
<1>0. busy /\ callback /\ ap[0] \in Block
  BY DEF Interrupt, vmp4encDoneCallback, vmp4encErrorCallback, StreamInv, TypeOK, EncoderInv
<1>1. CASE vmp4encDoneCallback
  <2> USE DEF StreamInv, TypeOK
  <2>1. /\ busy' = FALSE /\ producer' = TRUE /\ Pushed
        /\ ap' = [i \in {0, 1} |-> IF i = 1 THEN ap[0] ELSE None]
    BY <1>0, <1>1 DEF vmp4encDoneCallback
  <2>2. /\ ap'[0] = None /\ ap'[1] = ap[0]
        /\ UNCHANGED <<pool, held, ref_count, hung>>
    BY <1>1, <2>1 DEF vmp4encDoneCallback
  <2>3. /\ listBitstream' \in Seq(Block)
        /\ \A i \in DOMAIN listBitstream :
              i \in DOMAIN listBitstream' /\ listBitstream'[i] = listBitstream[i]
        /\ \A i \in DOMAIN listBitstream' :
              \/ i \in DOMAIN listBitstream /\ listBitstream'[i] = listBitstream[i]
              \/ i = Len(listBitstream) + 1 /\ listBitstream'[i] = ap[1] /\ ap[1] # None
        /\ ap[1] # None => \E i \in DOMAIN listBitstream' : listBitstream'[i] = ap[1]
    <3>1. CASE ap[1] = None
      BY <2>1, <3>1 DEF Pushed
    <3>2. CASE ap[1] # None
      <4>1. ap[1] \in Block /\ listBitstream' = Append(listBitstream, ap[1])
        BY <2>1, <3>2 DEF Pushed
      <4>2. /\ listBitstream' \in Seq(Block)
            /\ DOMAIN listBitstream' = 1 .. Len(listBitstream) + 1
            /\ DOMAIN listBitstream = 1 .. Len(listBitstream) /\ Len(listBitstream) \in Nat
            /\ \A i \in DOMAIN listBitstream : listBitstream'[i] = listBitstream[i]
            /\ listBitstream'[Len(listBitstream) + 1] = ap[1]
        BY <4>1
      <4>3. Len(listBitstream) + 1 \in DOMAIN listBitstream'
        BY <4>2
      <4>4. \A i \in DOMAIN listBitstream' : i \in DOMAIN listBitstream \/ i = Len(listBitstream) + 1
        BY <4>2
      <4>5. \A i \in DOMAIN listBitstream : i \in DOMAIN listBitstream'
        BY <4>2
      <4> QED
        BY <3>2, <4>2, <4>3, <4>4, <4>5, Zenon
    <3> QED
      BY <3>1, <3>2
  <2>4. TypeOK'
    BY <1>1, <2>1, <2>3 DEF vmp4encDoneCallback, switch, locks
  <2>5. Disjoint'
    <3>1. Disjoint /\ ap[0] # None
      BY <1>0 DEF BlockInv
    <3>2. \A i, k \in DOMAIN listBitstream' : listBitstream'[i] = listBitstream'[k] => i = k
      BY <2>3, <3>1 DEF Disjoint
    <3>3. \A i \in DOMAIN listBitstream' : /\ listBitstream'[i] \notin pool \cup held
                                           /\ listBitstream'[i] # ap[0] /\ listBitstream'[i] # None
      BY <2>3, <3>1 DEF Disjoint
    <3>4. ap[0] \notin pool \cup held /\ None \notin pool \cup held
      BY <3>1 DEF Disjoint
    <3> QED
      BY <2>2, <3>1, <3>2, <3>3, <3>4 DEF Disjoint
  <2>6. Everywhere'
    BY <1>0, <2>2, <2>3 DEF BlockInv, Everywhere
  <2>7. Counted'
    BY <2>2 DEF BlockInv, Counted
  <2>8. EncoderInv'
    BY <1>0, <1>1, <2>1 DEF EncoderInv, vmp4encDoneCallback, switch, locks
  <2> QED
    BY <2>4, <2>5, <2>6, <2>7, <2>8 DEF BlockInv
<1>2. CASE vmp4encErrorCallback
  <2>1. /\ busy' = FALSE /\ producer' = TRUE
        /\ DecRef({ap[0]}) /\ ap' = [ap EXCEPT ![0] = None]
    BY <1>0, <1>2 DEF vmp4encErrorCallback, Forgotten
  <2>2. {ap[0]} \in SUBSET Block /\ {ap[0]} \cap pool = {}
    BY <1>0 DEF StreamInv, BlockInv, Disjoint
  <2>3. /\ pool' = pool \cup {ap[0]} /\ hung' = hung
        /\ ref_count' \in [Block -> Int]
        /\ \A b \in Block : ref_count'[b] = IF b \in pool' THEN 0 ELSE 1
    BY <2>1, <2>2, DecRefFrees
  <2>4. TypeOK'
    BY <1>0, <1>2, <2>1, <2>3 DEF StreamInv, TypeOK, vmp4encErrorCallback, switch, locks
  <2>5. BlockInv'
    BY <1>0, <1>2, <2>1, <2>3 DEF StreamInv, TypeOK, BlockInv, Disjoint, Everywhere, Counted,
                                  vmp4encErrorCallback
  <2>6. EncoderInv'
    BY <1>0, <1>2, <2>1 DEF StreamInv, TypeOK, EncoderInv, vmp4encErrorCallback, switch, locks
  <2> QED
    BY <2>4, <2>5, <2>6 DEF StreamInv
<1> QED
  BY <1>1, <1>2 DEF Interrupt

\* The RTSP server takes a frame from the list, and gives its block back.
LEMMA ServerKeeps ==
    ASSUME StreamInv, hung = "no", ReaderStep \/ rtspFreeVideoBuf
    PROVE  StreamInv'
<1> USE BlockAssumption
<1>2. CASE EventRead
  <2> DEFINE b == Head(listBitstream)
  <2>1. /\ listBitstream # <<>> /\ held' = held \cup {b} /\ listBitstream' = Tail(listBitstream)
        /\ UNCHANGED <<pool, ref_count, ap, hung>>
    BY <1>2 DEF EventRead
  <2>2. b \in Block /\ b = listBitstream[1] /\ 1 \in DOMAIN listBitstream
    BY <2>1 DEF StreamInv, TypeOK
  <2>3. /\ listBitstream' \in Seq(Block)
        /\ \A i \in DOMAIN listBitstream' :
              i + 1 \in DOMAIN listBitstream /\ listBitstream'[i] = listBitstream[i + 1]
        /\ \A i \in DOMAIN listBitstream : i # 1 =>
              i - 1 \in DOMAIN listBitstream' /\ listBitstream'[i - 1] = listBitstream[i]
        /\ DOMAIN listBitstream' \subseteq Nat \ {0}
    BY <2>1 DEF StreamInv, TypeOK
  <2>4. b \notin held /\ b \notin pool /\ b # ap[0] /\ b # ap[1]
    BY <2>2 DEF StreamInv, BlockInv, Disjoint
  <2> HIDE DEF b
  <2>6. TypeOK'
    BY <1>2, <2>1, <2>2, <2>3 DEF StreamInv, TypeOK, EventRead, encoder, switch, locks
  <2>7. Disjoint'
    <3>1. \A i \in DOMAIN listBitstream' : listBitstream'[i] # b
      BY <2>2, <2>3 DEF StreamInv, BlockInv, Disjoint
    <3>2. \A i, k \in DOMAIN listBitstream' : listBitstream'[i] = listBitstream'[k] => i = k
      BY <2>3 DEF StreamInv, BlockInv, Disjoint
    <3> QED
      BY <2>1, <2>3, <2>4, <3>1, <3>2 DEF StreamInv, BlockInv, Disjoint
  <2>8. Everywhere'
    <3>1. ASSUME NEW f \in Block, NEW i \in DOMAIN listBitstream, listBitstream[i] = f
          PROVE  f \in held' \/ \E k \in DOMAIN listBitstream' : listBitstream'[k] = f
      BY <2>1, <2>2, <2>3, <3>1
    <3> QED
      BY <2>1, <3>1 DEF StreamInv, BlockInv, Everywhere
  <2>9. Counted'
    BY <2>1 DEF StreamInv, BlockInv, Counted
  <2>10. EncoderInv'
    BY <1>2 DEF StreamInv, TypeOK, EncoderInv, EventRead, encoder, switch, locks
  <2> QED
    BY <2>6, <2>7, <2>8, <2>9, <2>10 DEF StreamInv, BlockInv
<1>3. CASE EventNone \/ EventWait
  <2>1. BlockInv'
    BY <1>3, BlocksKept DEF StreamInv, EventNone, EventWait
  <2> QED
    BY <1>3, <2>1 DEF StreamInv, TypeOK, EncoderInv, EventNone, EventWait, blocks, encoder, switch, locks
<1>4. CASE rtspFreeVideoBuf
  <2>1. PICK b \in held : held' = held \ {b} /\ DecRef({b})
    BY <1>4 DEF rtspFreeVideoBuf
  <2>2. {b} \in SUBSET Block /\ {b} \cap pool = {}
    BY DEF StreamInv, TypeOK, BlockInv, Disjoint
  <2>3. /\ pool' = pool \cup {b} /\ hung' = hung
        /\ ref_count' \in [Block -> Int]
        /\ \A f \in Block : ref_count'[f] = IF f \in pool' THEN 0 ELSE 1
    BY <2>1, <2>2, DecRefFrees
  <2>5. TypeOK'
    BY <1>4, <2>1, <2>2, <2>3 DEF StreamInv, TypeOK, rtspFreeVideoBuf, encoder, switch, locks
  <2>6. BlockInv'
    BY <1>4, <2>1, <2>3 DEF StreamInv, TypeOK, BlockInv, Disjoint, Everywhere, Counted,
                                  rtspFreeVideoBuf
  <2>7. EncoderInv'
    BY <1>4 DEF StreamInv, TypeOK, EncoderInv, rtspFreeVideoBuf, encoder, switch, locks
  <2> QED
    BY <2>5, <2>6, <2>7 DEF StreamInv
<1> QED
  BY <1>2, <1>3, <1>4 DEF ReaderStep

\* A header finds no block only if the server has all but the one of the frame encoded last.
LEMMA HeaderFinds ==
    ASSUME StreamInv, ap[0] = None, HeaderBlocks = {}
    PROVE  Cardinality(Block) <= Cardinality(held) + 1
<1> USE BlockAssumption
<1>1. pool = {} /\ listBitstream = <<>>
  BY DEF HeaderBlocks, Last
<1>2. Block \subseteq held \cup {ap[1]}
  BY <1>1 DEF StreamInv, TypeOK, BlockInv, Everywhere
<1>3. IsFiniteSet(held) /\ Cardinality(held) \in Nat
  BY FS_Subset, FS_CardinalityType DEF StreamInv, TypeOK
<1>4. /\ IsFiniteSet(held \cup {ap[1]})
      /\ Cardinality(held \cup {ap[1]}) <= Cardinality(held) + 1
  <2>1. Cardinality(held \cup {ap[1]}) \in {Cardinality(held), Cardinality(held) + 1}
    BY <1>3, FS_AddElement, Zenon
  <2> QED
    BY <1>3, <2>1, FS_AddElement
<1>5. Cardinality(Block) <= Cardinality(held \cup {ap[1]})
  BY <1>2, <1>4, FS_Subset
<1>6. Cardinality(Block) \in Nat /\ Cardinality(held \cup {ap[1]}) \in Nat
  BY <1>4, FS_CardinalityType
<1> QED
  BY <1>3, <1>4, <1>5, <1>6

\* The header's block leaves the pool, or the end of the list, and goes to the end of the
\* list, or to the pool if the header is empty.
LEMMA AddRefKeeps ==
    ASSUME StreamInv, hung = "no", ap[0] = None, vmp4encAddRef
    PROVE  /\ listBitstream' \in Seq(Block) /\ pool' \subseteq Block
           /\ ref_count' \in [Block -> Int]
           /\ BlockInv'
<1> USE BlockAssumption DEF StreamInv, TypeOK
<1>0. CASE HeaderBlocks = {}
  <2>1. /\ hung' = "header" /\ UNCHANGED <<pool, ref_count, listBitstream, ap, held>>
    BY <1>0 DEF vmp4encAddRef
  <2>2. Cardinality(Block) <= Cardinality(held) + 1
    BY <1>0, HeaderFinds
  <2> QED
    BY <2>1, <2>2 DEF BlockInv, Disjoint, Everywhere, Counted
<1> SUFFICES ASSUME HeaderBlocks # {}
             PROVE  /\ listBitstream' \in Seq(Block) /\ pool' \subseteq Block
                    /\ ref_count' \in [Block -> Int]
                    /\ BlockInv'
  BY <1>0
<1>2. PICK b \in HeaderBlocks, empty \in BOOLEAN : Header(b, empty)
  BY DEF vmp4encAddRef
<1>3. UNCHANGED <<ap, held, hung>>
  BY DEF vmp4encAddRef
<1> DEFINE frames == IF b \in pool THEN listBitstream ELSE Front(listBitstream)
<1>4. /\ listBitstream' = IF empty THEN frames ELSE Append(frames, b)
      /\ pool' = IF empty THEN pool \cup {b} ELSE pool \ {b}
      /\ ref_count' = [ref_count EXCEPT ![b] = IF empty THEN 0 ELSE 1]
  BY <1>2 DEF Header
<1>5. \/ b \in pool
      \/ pool = {} /\ listBitstream # <<>> /\ b = listBitstream[Len(listBitstream)]
  BY DEF HeaderBlocks, Last
<1>6. b \in Block /\ b \notin held /\ b # ap[1]
  BY <1>5 DEF BlockInv, Disjoint
<1>7. /\ frames \in Seq(Block)
      /\ \A i \in DOMAIN frames : /\ i \in DOMAIN listBitstream
                                  /\ frames[i] = listBitstream[i] /\ frames[i] # b
      /\ \A i \in DOMAIN listBitstream :
            listBitstream[i] = b \/ (i \in DOMAIN frames /\ frames[i] = listBitstream[i])
  <2>1. CASE b \in pool
    BY <2>1 DEF BlockInv, Disjoint
  <2>2. CASE b \notin pool
    <3>1. /\ frames \in Seq(Block) /\ Len(listBitstream) \in Nat \ {0}
          /\ DOMAIN listBitstream = 1 .. Len(listBitstream)
          /\ DOMAIN frames = 1 .. Len(listBitstream) - 1
          /\ \A i \in DOMAIN frames : frames[i] = listBitstream[i]
      BY <1>5, <2>2 DEF Front
    <3> HIDE DEF frames
    <3>2. \A i \in DOMAIN frames : frames[i] # b
      <4>1. Len(listBitstream) \in DOMAIN listBitstream
        BY <3>1
      <4>2. \A i \in DOMAIN frames : i \in DOMAIN listBitstream /\ i # Len(listBitstream)
        BY <3>1
      <4> QED
        BY <1>5, <2>2, <3>1, <4>1, <4>2 DEF BlockInv, Disjoint
    <3> QED
      BY <1>5, <2>2, <3>1, <3>2
  <2> QED
    BY <2>1, <2>2
<1> HIDE DEF frames
<1>8. CASE empty
  <2>1. Disjoint'
    BY <1>3, <1>4, <1>6, <1>7, <1>8 DEF BlockInv, Disjoint
  <2>2. Everywhere'
    BY <1>3, <1>4, <1>6, <1>7, <1>8 DEF BlockInv, Everywhere
  <2>3. Counted'
    BY <1>3, <1>4, <1>6, <1>8 DEF BlockInv, Counted
  <2> QED
    BY <1>4, <1>6, <1>7, <1>8, <2>1, <2>2, <2>3 DEF BlockInv
<1>9. CASE ~empty
  <2>1. /\ listBitstream' \in Seq(Block)
        /\ DOMAIN listBitstream' = 1 .. Len(frames) + 1
        /\ DOMAIN frames = 1 .. Len(frames) /\ Len(frames) \in Nat
        /\ \A i \in DOMAIN frames : listBitstream'[i] = frames[i]
        /\ listBitstream'[Len(frames) + 1] = b
    BY <1>4, <1>6, <1>7, <1>9
  <2>2. \A i \in DOMAIN listBitstream' :
            \/ i \in DOMAIN frames /\ listBitstream'[i] = frames[i]
            \/ i = Len(frames) + 1 /\ listBitstream'[i] = b
    BY <2>1
  <2>3. pool' = pool \ {b} /\ ref_count' = [ref_count EXCEPT ![b] = 1]
    BY <1>4, <1>9
  <2>4. Disjoint'
    <3>1. Disjoint
      BY DEF BlockInv
    <3>2. \A i, k \in DOMAIN listBitstream' : listBitstream'[i] = listBitstream'[k] => i = k
      BY <1>7, <2>2, <3>1 DEF Disjoint
    <3>3. \A i \in DOMAIN listBitstream' : /\ listBitstream'[i] \notin pool' \cup held
                                           /\ \A k \in {0, 1} : listBitstream'[i] # ap[k]
      BY <1>6, <1>7, <2>2, <2>3, <3>1 DEF Disjoint
    <3> QED
      BY <1>3, <2>3, <3>1, <3>2, <3>3 DEF Disjoint
  <2>5. Everywhere'
    <3>1. Len(frames) + 1 \in DOMAIN listBitstream' /\ listBitstream'[Len(frames) + 1] = b
      BY <2>1
    <3>2. \A i \in DOMAIN frames : i \in DOMAIN listBitstream' /\ listBitstream'[i] = frames[i]
      BY <2>1
    <3> QED
      BY <1>3, <1>6, <1>7, <2>3, <3>1, <3>2 DEF BlockInv, Everywhere
  <2>6. Counted'
    BY <1>3, <1>6, <2>3 DEF BlockInv, Counted
  <2> QED
    BY <1>6, <2>1, <2>3, <2>4, <2>5, <2>6 DEF BlockInv
<1> QED
  BY <1>8, <1>9

\* Callers that only take a lock, or wait for the capture thread.
LEMMA CallKeeps ==
    ASSUME StreamInv, NEW c \in Caller,
           Call(c) \/ EnableVd(c) \/ vcptStart(c) \/ vcptStop(c) \/ vcptWaitPrevMsg(c)
    PROVE  StreamInv'
<1> USE BlockAssumption DEF At, Restarts, Capture
<1>1. CASE vmp4encSet(c)
  <2>1. TypeOK' /\ BlockInv'
    BY <1>1, BlocksKept DEF StreamInv, TypeOK, vmp4encSet, blocks, encoder, switch
  <2>2. EncoderInv'
    BY <1>1 DEF StreamInv, TypeOK, EncoderInv, vmp4encSet, blocks, encoder, switch
  <2> QED
    BY <2>1, <2>2 DEF StreamInv
<1>2. CASE ~vmp4encSet(c)
  <2>1. /\ UNCHANGED <<blocks, encoder, bIsEnableLocalMP4, vmp4, cpt, cap>>
        /\ pc[c] # "set"
        /\ \E place \in {"on", "stop", "onvd", "msg", "off", "idle"} :
                pc' = [pc EXCEPT ![c] = place]
    BY <1>2 DEF Call, Enable, EnableVd, vcptStart, vcptStop, vcptWaitPrevMsg, switch, locks
  <2>2. BlockInv'
    BY <2>1, BlocksKept DEF StreamInv
  <2>3. TypeOK'
    BY <2>1 DEF StreamInv, TypeOK, blocks, encoder
  <2>4. EncoderInv'
    BY <2>1 DEF StreamInv, TypeOK, EncoderInv, blocks, encoder
  <2> QED
    BY <2>2, <2>3, <2>4 DEF StreamInv
<1> QED
  BY <1>1, <1>2

\* Callers that restart the encoder or switch it on: no frame is being encoded.
LEMMA RestartKeeps ==
    ASSUME StreamInv, hung = "no", NEW c \in Caller, EnableOn(c) \/ SetRestart(c)
    PROVE  StreamInv'
<1> USE BlockAssumption DEF At, Capture
<1>1. vmp4 # Capture /\ vmp4encAddRef
  BY DEF EnableOn, SetRestart, StreamInv, EncoderInv
<1>2. ~busy /\ ap[0] = None
  BY <1>1 DEF StreamInv, EncoderInv
<1>3. /\ listBitstream' \in Seq(Block) /\ pool' \subseteq Block
      /\ ref_count' \in [Block -> Int]
      /\ BlockInv'
  BY <1>1, <1>2, AddRefKeeps
<1>4. nRefCount_Encoder' = 1 /\ callback' = TRUE /\ UNCHANGED <<ap, held, busy, producer>>
  BY <1>1 DEF vmp4encAddRef, EnableOn, SetRestart
<1>5. TypeOK'
  BY <1>3, <1>4 DEF StreamInv, TypeOK, EnableOn, SetRestart
<1>6. CASE EnableOn(c)
  <2>1. EncoderInv'
    BY <1>2, <1>4, <1>6 DEF StreamInv, TypeOK, EncoderInv, EnableOn
  <2> QED
    BY <1>3, <1>5, <2>1 DEF StreamInv
<1>7. CASE SetRestart(c)
  <2>1. bIsEnableLocalMP4 /\ UNCHANGED <<bIsEnableLocalMP4, cap>>
    BY <1>7 DEF SetRestart, switch, StreamInv, EncoderInv
  <2>2. EncoderInv'
    BY <1>2, <1>4, <1>7, <2>1 DEF StreamInv, TypeOK, EncoderInv, SetRestart
  <2> QED
    BY <1>3, <1>5, <2>2 DEF StreamInv
<1> QED
  BY <1>6, <1>7

\* Switching off gives every block back that the server does not have.
LEMMA StopKeeps ==
    ASSUME StreamInv, hung = "no", NEW c \in Caller, EnableOff(c)
    PROVE  StreamInv'
<1> USE BlockAssumption DEF At, Capture
<1> DEFINE S == Range(listBitstream) \cup Filled
<1>1. ~busy
  BY DEF EnableOff, StreamInv, EncoderInv
<1>2. /\ DecRef(S) /\ listBitstream' = <<>>
      /\ ap' = [i \in {0, 1} |-> None] /\ held' = held
  BY DEF EnableOff, vmp4ClearBuffer
<1>3. S \in SUBSET Block /\ S \cap pool = {}
  BY DEF StreamInv, TypeOK, BlockInv, Disjoint, Filled, Range
<1>4. \A b \in Block : b \in pool \cup held \cup S
  BY DEF StreamInv, TypeOK, BlockInv, Everywhere, Filled, Range
<1>5. S \cap held = {}
  BY DEF StreamInv, TypeOK, BlockInv, Disjoint, Filled, Range
<1> HIDE DEF S
<1>6. /\ pool' = pool \cup S /\ hung' = hung
      /\ ref_count' \in [Block -> Int]
      /\ \A b \in Block : ref_count'[b] = IF b \in pool' THEN 0 ELSE 1
  BY <1>2, <1>3, DecRefFrees
<1>7. TypeOK'
  BY <1>2, <1>3, <1>6 DEF StreamInv, TypeOK, EnableOff, locks
<1>8. BlockInv'
  BY <1>2, <1>3, <1>4, <1>5, <1>6 DEF StreamInv, TypeOK, BlockInv, Disjoint, Everywhere, Counted
<1>9. EncoderInv'
  BY <1>1, <1>2 DEF StreamInv, TypeOK, EncoderInv, EnableOff, locks
<1> QED
  BY <1>7, <1>8, <1>9 DEF StreamInv

\* The inductive invariant of the video stream.
THEOREM StreamInvariant == Spec => []StreamInv
<1>1. ASSUME StreamInv, [Next]_vars PROVE StreamInv'
  <2>1. CASE UNCHANGED vars
    <3>1. BlockInv'
      BY <1>1, <2>1, BlocksKept DEF StreamInv, vars
    <3> QED
      BY <1>1, <2>1, <3>1 DEF StreamInv, TypeOK, EncoderInv, vars, blocks, encoder, switch, locks
  <2>2. CASE CaptureStep \/ Mp4Step
    BY <1>1, <2>2, CaptureKeeps, Mp4Keeps
  <2>3. CASE hung = "no" /\ Interrupt
    BY <1>1, <2>3, InterruptKeeps
  <2>4. CASE hung = "no" /\ (ReaderStep \/ rtspFreeVideoBuf)
    BY <1>1, <2>4, ServerKeeps
  <2>5. ASSUME hung = "no", NEW c \in Caller, Call(c) \/ CallReturns(c) PROVE StreamInv'
    BY <1>1, <2>5, CallKeeps, RestartKeeps, StopKeeps DEF CallReturns
  <2> QED
    BY <1>1, <2>1, <2>2, <2>3, <2>4, <2>5 DEF Next
<1> QED
  BY <1>1, InitStream, PTL DEF Spec

\* No block is lost, shared or freed twice, and a header finds none only while the RTSP
\* server has all of them but at most one.
THEOREM StreamAccounted == Spec => []Accounted
<1>1. StreamInv => Accounted
  <2> SUFFICES ASSUME StreamInv PROVE Accounted
    OBVIOUS
  <2> USE BlockAssumption
  <2>1. IsInjective(listBitstream)
    BY DEF StreamInv, BlockInv, Disjoint, IsInjective
  <2>2. ASSUME NEW b \in Block PROVE \E p \in Place : Places(b) = {p}
    <3>1. /\ b \in Range(listBitstream) <=> \E i \in DOMAIN listBitstream : listBitstream[i] = b
      BY DEF Range
    <3>2. CASE b \in pool
      <4>1. Places(b) = {"pool"}
        BY <3>1, <3>2 DEF StreamInv, BlockInv, Disjoint, Places, Place
      <4> QED
        BY <4>1 DEF Place
    <3>3. CASE b \in held
      <4>1. Places(b) = {"rtsp"}
        BY <3>1, <3>3 DEF StreamInv, BlockInv, Disjoint, Places, Place
      <4> QED
        BY <4>1 DEF Place
    <3>4. CASE \E i \in DOMAIN listBitstream : listBitstream[i] = b
      <4>1. Places(b) = {"list"}
        BY <3>1, <3>4 DEF StreamInv, BlockInv, Disjoint, Places, Place
      <4> QED
        BY <4>1 DEF Place
    <3>5. CASE ap[0] = b
      <4>1. Places(b) = {"encoding"}
        BY <3>1, <3>5 DEF StreamInv, BlockInv, Disjoint, Places, Place
      <4> QED
        BY <4>1 DEF Place
    <3>6. CASE ap[1] = b
      <4>1. Places(b) = {"encoded"}
        BY <3>1, <3>6 DEF StreamInv, BlockInv, Disjoint, Places, Place
      <4> QED
        BY <4>1 DEF Place
    <3> QED
      BY <3>2, <3>3, <3>4, <3>5, <3>6 DEF StreamInv, BlockInv, Everywhere
  <2> QED
    BY <2>1, <2>2 DEF Accounted, StreamInv, BlockInv, Counted
<1> QED
  BY <1>1, StreamInvariant, PTL

\* After switching off nothing is encoded and no frame is left.
THEOREM StreamNothingAfterStop == Spec => []NothingAfterStop
<1>1. StreamInv => NothingAfterStop
  BY DEF StreamInv, TypeOK, EncoderInv, NothingAfterStop
<1> QED
  BY <1>1, StreamInvariant, PTL
=============================================================================
