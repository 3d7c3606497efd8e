# Rovio firmware: a TLA+ verification project

Rovio is a mobile web camera. Its firmware runs on eCos on a W99802/W99702 chip:
`Host/LibCamera` is the application, the other directories of `Host` are its
libraries. This project models the application's concurrent core in TLA+, checks
it with TLC on small instances and proves its main invariants with TLAPS for all
instances.

Paths in this document are relative to the root of the repository.

## 1. Inventory

Threads. The period thread ("period", priority 9) runs short jobs. Below it, at
priority 10, run the HTTP server's threads, the select thread (network clients),
the USB configuration thread, the camera thread and the RTSP server. The WiFi
supplicant has a thread of its own. eCos schedules by priority and shares time
among equals.

| component | state | operations | talks to | hard part | correct when |
|---|---|---|---|---|---|
| recursive lock, `PeriodTask.c` 49-89 | mutex, owner, count | `prdLock`, `prdUnlock`, condition wait | everyone who uses period tasks | owner is read without the mutex; the wait overwrites owner and count | it excludes, its fatal branch is dead |
| ring list, `libList/Inc/list.h` | two pointers per node | init, attach, detach, walk | period service, memory pool | one symmetric exchange does everything, unchecked | rings stay rings, order of arrival is kept |
| period service, `PeriodTask.c` 92-237 | three lists, times, exit flag | add, delete, run, uninit | LED, MCU, network check, settings | lists change under the walker; signals get lost | no task lost, doubled, resurrected or slept over, none early by more than a pass |
| flash cache, `SPI/Src/myspi.c` | one cached 64 KB sector | read, write, flush, init | settings, uploads | page and sector boundaries; power failure in a write-back | a memory, and only the sector in hand can be lost |
| settings, `CameraConfig.c`, `LibIPCamera.c` | parameters in memory, two copies in flash, checksum, count of short power-ons | read at boot, save, reset, update default | HTTP and USB requests, period task, reboot | checksum outside the mutex; power cuts | saved settings survive, resets take |
| controller link, `MCU.c` | lock, outstanding answer, counters | send and wait, send and leave, collect | motors, battery, LED error | lost and late answers; two collectors | each caller gets its own answer |
| message queue, `Msg.c` | list, two semaphores, mutex, pipe | send, get, try | select and camera threads | three things that count messages | FIFO, no place lost, pipe tells the truth |
| select thread, `SSelect.c` | client list, descriptor sets | a round; add, delete clients | HTTP clients, NTP, relay | sets are kept between rounds; objects end in three ways | nothing waited for is missed, nothing freed is used |
| LED, `PeriodTask_LED.c` | status bits, pattern, position | seven setters, player task | everyone | player reads without the lock | shows the pattern of the status |
| network display, `PeriodTask_CheckNetwork.c`, `wlan0.c` 1312-1320 | stage of the follower | four stages, two callbacks | LED, supplicant, bit-rate control | several writers of one status | the colours mean what the LED table says |
| users and rights, `User.c`, `configinterface.c` | user list | add, delete, check | HTTP, USB | concurrent requests | an administrator remains |
| uploads, `Upload.c`, `vp_com.c` | parser and ring of each request, one update state, flash image | post in pieces, end, abandon, read back | flash, reboot | a delimiter cut by a full ring; requests that overlap | OK means the whole file is in flash |
| HTTP clients, `HttpClient.c`; relay, `BypassClient.c`; `Ntp.c` | connection state, buffers | connect, write, read, end | select thread, HTTP thread | hand-over of data between threads; the browser leaves | the answer arrives in order, each request ends |
| encoded video, `vp_mp4.c`, `vp_thread_capture.c`, `vp_interfaces.c`, `memory_pool.h` | a pool of three blocks, frame list, encoder state, three locks | capture, interrupt, read, free, switch, restart | RTSP server, bit-rate control | interrupts and threads share the pool; locks in two orders | no block lost or shared, calls return |
| camera, recorder, audio | image and stream buffers | capture, view, record | baseband chip | buffers shared by viewers | no buffer reused in use |
| host interface, memory pools, USB | registers, pools | request, allocate | codec firmware | interrupts | requests answered once |

Third-party and binary code (eCos, openssl, wpa_supplicant, UPnP, codecs, libNS)
is not modelled; what the application sees of it (mutexes, semaphores, `select`)
is. `PROJECT.json` lists every component with its status, and 40 hazards, each
at its line, with the properties that would catch it.

## 2. Modules and how they correspond to the code

Definitions keep the code's names. `PROJECT.json` maps each of them to its lines.

* **RecursiveLock**, **PrdLock**. PrdLock has one action per
  access to a shared word: the test of the owner (51), the mutex (53), the
  assignment (54), the increment (56), the same backwards, and the five steps of
  the condition wait. `depth` is a history variable, the refinement mapping to
  RecursiveLock.
* **List**, **ListMachine**. `List` defines the
  operations of `list.h` as functions from a memory (two functions Node -> Node) to
  a memory. ListMachine is the most general user; `listOf` and `seq` are the
  reference it is compared with. It attaches in both argument orders, as
  `PeriodTask.c` and `memory_pool.h` do. It has no run: its theorems say all of it for
  any number of lists and nodes, and PeriodTask, which extends List, is run.
* **PeriodTask**, **PeriodTaskProofs**. Extends List: the three rings are real
  pointers. What a caller does between `prdLock` and `prdUnlock` is one action
  (justified by PrdLock); `prdRun` is cut where it gives the lock up. The clock is
  the number of ticks since `tLastCheck`, because only differences are used.
  `ResetTask` is the delete-and-add under one lock that five users of the service
  have. A caller's signal comes after its unlock, as a step of its own. Three histories
  measure time: `age` is what `prdRun` has charged a task, `waited` what has really gone by
  since it was added or called back, `ahead` how long the pass had run by then.
* **FlashMemory**, **Flash**, **FlashProofs**. FlashMemory promises a memory of bytes in which at most
  the sector changed last is lost by a power failure. Flash has the sector cache
  byte by byte; erase, each page of the write-back and each copied piece are steps,
  and the power may fail between any two. `usiMyRead` is the code's loop as a
  recursive function and is compared, for every address and length, with what was
  written.
* **ConfigStore**, **ConfigStoreProofs**. A setting is one field per thread that changes settings (HTTP and USB: their requests
  overlap freely); a
  checksum is the settings it was computed from, or `Spoilt`. `__WriteFlashMemory`
  is cut into check, sum, assign, lock, copy, erase, two writes and unlock. Threads
  of priority 10 do not run while the period thread can (`MayRun`). Both copies are
  in one sector and are erased together, as `FLASH_CONFIG_SIZE` and `ERASE_SEC`
  imply. Handlers that change a setting and end in `WriteFlashMemory` (some forty of
  them) are the one action `SetConfig`; the map names one. The history `raced` records that a
  thread changed a setting between another's checksum and its copy, until a save made by
  itself, or a boot, has repaired it; `overlap` that a save stored its checksum over the one a reset had
  spoilt, or was about to.
* **Mcu**, **McuProofs**. A command is a number, its answer a head and a body. The
  controller answers in order, drops commands or bodies; a reader may give up before the
  answer comes, which the history variable `gaveUp` records.
* **MsgFifo**, **MsgQueue**, **MsgLedProofs**. A queue with or without a limit (`iMaxMsgLimit`) and
  with or without a pipe (`bFDEvent`), as `CreateMsgQueue` is asked for; only one
  receiver selects on a pipe, as in the program. Either of the two
  allocations of a push may fail. In this program the queues have no limit; the code
  has one and so does the model.
* **SelectThread**, **SelectThreadProofs**. A round is prepare, select, one step per client, one message.
  A client is any sequence of what callbacks do: ask for other events, close and open
  its socket, end. Descriptor numbers are reused and other threads open and close
  theirs. Fields of an object nobody uses any more are set back, so that the model does
  not tell apart contents of freed memory. The queue is a sequence, which is what MsgQueue implements, and a report
  without a message is excluded by its `SelectFindsMessage`.
* **Led**, **MsgLedProofs**. `ledShowState` is cut into its four assignments, the player task into
  three steps; they interleave freely because the player does not take `g_rmLED`.
  Times are reduced to "at once", "soon" and "ten minutes".
* **CheckNetwork**, **MsgLedProofs**. CheckNetwork composes the display with all writers of its status: the stream
  follower, the supplicant's callbacks, the battery task, and other threads that report
  errors, reset the settings or suspend the system. The follower looks at the stream and
  then waits for `g_rmLED`; the period thread calls no other task meanwhile.
* **UrlCgi**, **HttpProofs**. `SendHttp.cgi` from both sides: the HTTP thread's request,
  `FillURLCGIData` and end, and the states of `HTTPC_Process` in the rounds of the
  select thread. Data are counted in units of `acBody`, which a read of half of
  `acBuffer` overfills, so that the select thread waits inside the callback
  `URLCGI_HTTPCResponse`, and with it all other clients. Servers refuse, stop
  anywhere, or stay silent; a browser leaves at any time; messages and nodes may find no
  memory. Descriptors are in SelectThread, not here.
* **Upload**, **HttpProofs**. `Http_Post_FMUpload` with its multipart parser, as built without
  `FILESYSTEM`: the states of the parser are run to the next need for data, in a real
  ring whose indices wrap, over bytes that are the file's own or one of six
  others (the text of a header line is one byte). Pieces end anywhere. `Http_GetFirmware` (`bin/ipcam.bin`) reads in
  blocks while requests go on; its test of `USI_IS_READY` succeeds, since the flash was read at boot. The flash is what FlashMemory promises. The history
  variables `spoilt`, `dirty` and `mixed` record the cases of section 4.
* **Mp4Stream**, **Mp4StreamProofs**. A frame's interrupt wakes the capture thread, which
  waits for the MP4 thread to be done with the frame before and hands the new one over if a
  block is free, or else tells the RTSP server to make room (`vcptThread_StartEncode`). A
  block goes from the pool to the MP4 thread, to the encoder, to the frame list, to the server,
  which keeps as many as it likes, and back; other threads switch the encoder or restart it, and
  wait for the capture thread to answer (`vcptWaitPrevMsg`). Another user of the capture, the
  JPEG encoder, may keep it running when this one stops it. Sections with interrupts disabled are
  single steps; `vmp4Lock`, `vdLock` and `cygMtMP4Enable` are taken where the code
  takes them, the first two in both orders.

MC modules add nothing to a specification except, for ConfigStore, a stuttering
step when the bound on power-ons is reached. Definitions whose name is another's
with a suffix, commented "mutated", are faulty variants of that definition: each
property is known to fail when its variant is put in.

## 3. Runs

| run | instance | distinct states | what it shows |
|---|---|---|---|
| `prd_lock` | period thread, two callers, nesting 2 | 944 | the fatal branch is dead, every call returns, the lock implements RecursiveLock |
| `period_task` | 2 tasks, timeouts 0 and 2, longest sleep 1 | 665 000 | no task lost, picked while deleted, twice in a pass, slept over or starved, none early by more than its pass had run |
| `flash` | 3 sectors of 2 pages of 2 bytes, 5 calls | 32 000 | refinement of FlashMemory, read = written |
| `config_store` | 2 request threads, 2 requests, 2 values, 4 power-offs | 802 000 | settings survive, three short power-ons reset, resets take; but for the races of section 4 |
| `config_reset` | the same with 1 power-off | violation | a save that overlaps a factory reset undoes it |
| `mcu` | 2 callers, 4 commands, lost and late answers | 60 000 | alternation, task and debt agree, answers are collected and belong to their commands |
| `msg_queue` | 2 senders, 2 receivers, 3 messages; limits 0, 1, 2; with and without pipe | 80 000 | implements MsgFifo, no place is lost, a byte in the pipe means a message, delivery |
| `select_thread` | 1 SendHttp and 1 DDNS client, 3 descriptors | 187 000 | watching, closing, freeing, and every message is handled |
| `check_network` | 1 error code, reset, suspend, 3 networks, battery, stream | 240 000 | never blank, settles, the end of a stream is shown |
| `url_cgi` | 2 clients, `acBody` of 1 unit, reads of 2, answers up to 3 | 56 000 | every unit arrives once and in order; requests end |
| `upload` | 3 requests, ring of 14, boundaries of 2 to 5, files up to 17 and two bytes of a false delimiter | 360 000 | OK means the whole file is in flash; it can be read back |
| `mp4_stream` | 3 blocks, 2 controlling threads, the server holds up to all | 67 000 | each block in one place, nothing left after switching off, calls return, frames are read |

**Bounds.** Two tasks are enough for "the task itself and another one": each
property of the period service is about one task and the disturbance by the others,
and the proofs, where there are some, have no bound. `TickMax` stands for
`(cyg_tick_count_t)-1` and is above all timeouts; `MaxWait` for 10000. Three flash
sectors are the sector in hand, the one before and an untouched one. Four power-offs are the three
that reset the camera and one that interrupts a boot before or after them; two requests, with
the clearing task, are the two saves of a race, and a save and a reset. Four commands let an exchange be
preceded by an ignored one and followed by another, for both callers. Three messages
overfill queues of one and two places. In SelectThread two numbers besides the queue's make both
"reused by the same client" and "reused by another" possible. The error pattern
of code 1 with one flick has four steps and `MaxDes` is 5: it fits with one entry to
spare, as the longest of the program (code 6, 79 steps) does in 128. One timeout is zero
(called in every pass) and one is longer than the longest sleep. In UrlCgi a read of two
units overfills the buffer by one, so the callback waits; an answer of three units takes
two reads; the second client is the one that is kept waiting. In Upload the boundaries
have every length modulo four, which decides how many bytes a write keeps back; files are longer
than the ring and end in everything that looks like the start of a delimiter; the flash
(`MaxAddr`) takes the longest request, as `FIRMWARE_UPDATE_LIMIT_SIZE` sees to. Three
requests are one that uploads, one that fails and one that gets in because of it. Three
blocks are the program's number; how many the server keeps is not bounded. Two controlling threads
are one that switches and one that restarts, which is what the locks in two orders need.
Only the two settings runs use symmetry, in the request threads: no definition tells one from the
other, and the properties are invariants and action properties.

**Fairness.** Period service: the thread runs when it can and callbacks return; a
caller that unlocked goes on to signal; the clock ticks. Lock: a thread inside the
lock's code goes on, and the mutex is granted to a thread that keeps waiting (eCos
queues waiters). MCU: threads run, the period service calls its tasks (its own
`NoStarvation`), the controller answers or loses each command. Queue: semaphores and
mutexes go to waiting threads in turn; no one has to send. Select thread: weak
fairness of the thread; `select` returns when a message is there. LED: setters and
the player go on, nothing is assumed of the ten-minute step. Network display: the
follower is called in turn with the other period tasks and is not overtaken for ever by
other threads at `g_rmLED`, hence strong fairness; a suspended system wakes up.
SendHttp.cgi: both threads run, the HTTP server calls the function that fills a connection
until it returns 0, and a client does not stay in a state for ever, because its time
limit is looked at in every round (strong fairness, as another client's callback may hold the
thread in between); no browser has to stay. Video: threads run, the sensor
gives frames while the capture is on, an encoder that was started interrupts and does not fail
on every frame for ever, the server gives back what it has sent; locks go to waiting threads and
the capture thread answers its messages in their order (strong fairness). Nobody has to switch
anything.

## 4. Where documents and code disagree, and limits of the code

One run, `config_reset`, checks what a page of the repository says, and TLC finds it violated.
`testpage.htm:338` says "Factory settings restored.". The reset spoils the checksum
(`CameraConfig.c:671`) before `__WriteFlashMemory` forbids further saves (`:109`). A save by the
task that clears the count five seconds after boot, or by another request thread, repairs the
checksum in between (`:106`), the reset then writes a valid copy, and the camera comes up with the
old settings. `FactoryResetTakes`, which excepts just that overlap, holds.

Other limits of the code are exceptions in properties that hold, or follow from the model.

* Two threads that save at once may leave a copy the next boot rejects: the checksum is
  computed and stored before the mutex is taken (`CameraConfig.c:106`), and `IPCamera.h:438` calls
  that mutex "mutex for g_ConfigParam". `SettledSaveIsValid` and `BootKeeps` except the race
  (`raced`: a setting changed between another thread's checksum and its copy, no save by itself
  since) and only it. Even then the copy has every setting in memory (`SettledSaveIsValid`); its checksum
  is wrong. `ThreePowerOffs` counts anew after it, since such a copy loses its count too.
* `prdRun` charges a task the whole pass in which it was added or called back (`PeriodTask.c:163`
  to 179, 200), so a task added late in a long callback comes early. `EarlyByPassAtMost` says by how much
  at most: what the pass had run when the task was added or called back.
* `prdRun` unlocks (`PeriodTask.c:215`) before it calls (216). A task deleted between the two
  is still called back; `PicksOnlyArmed` is about the choice, made under the lock.
* `BootKeeps` excepts a power cut while the sector of the settings is erased: both
  copies are in that sector.
* `AnswersOwnCommand` holds until a reader gives up before its answer comes (`gaveUp`):
  a late answer is then taken for the next command's.
* `StreamEndIsShown` says that the end of a stream is shown, not in which colour: it is
  green also while the supplicant is reconnecting. `LEDStatus.txt:13` gives the colour of a stream; a
  rekeying during one (`wlan0.c:1319`) turns the LED green, and nothing turns it red again
  until the next stream.
* `RequestEnds` excepts `Stuck`: a browser that leaves while the select thread waits for
  it (`HttpClient.c:1359`) wakes nobody, and the thread, with all its clients, waits for ever.
  Answers are finite in the model (`MaxAnswer`): a server that never stops sending renews
  `tLastOp` (`HttpClient.c:559`) with every read, and its request goes on.
* A server that accepts a request and closes or stays silent is not reported as
  `<!--no response-->`, for which `rovio.js` looks (2679, 2688, 2749): the callback made at
  the end of the read sets `bHasResponse` also when it has nothing to pass on
  (`HttpClient.c:1351`, `:1406`). The text is sent only when no connection was made or the
  request could not be written.
* `UploadIsWhole` allows one or two bytes of the line end after the file in flash. When
  the ring's size leaves no spare byte for the boundary's length and fields follow the file, a
  write may split the delimiter so that it is not recognised, and the fields follow in the
  image.
* A request that fails while another uploads sets `iFlashUpdateState` to stopped
  (`Upload.c:526`), so that a third may start and mix its bytes with the second's
  (`spoilt`). A connection that breaks leaves the state at uploading until the
  next boot, and its bytes under the old header (`dirty`). `bin/ipcam.bin` announces
  sixteen bytes more than it sends.
* A broadcast lost between the RTSP server's look and its wait is made good by the next
  frame: by the broadcast after its encoding, or, without a free block, by the one of
  `vcptThread_StartEncode`.
* A restart needs a block for its header, and its ASSERT stops the system when there is none.
  `Accounted` says that this happens only while the server has all blocks but at most one;
  nothing in the repository bounds what it keeps (`rtspserver.c:20` speaks of a heap of
  four frames, the pool has three). `CallsReturn` excepts the stopped system. The
  last frame of the old stream may follow the new header.

## 5. Proofs

All theorems hold for every value of the constants that satisfies the named
assumptions next to their declarations. Eight modules hold them. Each invariant below
was checked by TLC on the instance of section 3 before it was proved.

* **PeriodTaskProofs** has three parts.
  * Lists. The pointer exchange keeps the two pointers each other's inverse
    (`ConnectLinked`), keeps rings apart when they are to be kept apart (`AttachClosed`,
    `DetachClosed`) and isolates a detached node (`DetachAlone`). A ring is then described
    by a sequence (`RingOf`): attaching appends to it and detaching drops one place
    (`AttachRing`, `DetachRing`), and what the recursively defined walk computes is that
    sequence (`WalkIsRing`). `ListsStayIntact`, `DetachedStaysAlone` and
    `WalksStaySequences` follow from `ListInv`.
  * Period service. `PrdInv` is the type invariant together with `RingInv`: every pointer
    stays in its ring, loose nodes point to themselves, and the pass's own list is empty
    between passes. The ring part is needed for the type part (the first node of a non-empty
    ring is a task) and gives `PrdPicksOnlyArmed` and `PrdListsComplete`. `TimingInv` adds,
    for each task and each place in a pass, what it is owed: remaining time and time gone by
    make up its timeout before the pass has come to it, the time of the pass is added
    after, and a signal is on its way while an added task is not taken up. Neither
    `OncePerPass` nor `NoOversleep` is inductive without it. `WaitingInv` compares what a task was
    charged with what has really gone by since it was added or called back: the difference is at
    most what the pass had run by then, and stays so because from then on both grow with the clock.
    From both invariants `PrdEarlyByPassAtMost`.
  * Lock. `LockInv` says for each place of the code who holds the mutex, what owner and
    count are, and that only the period thread waits. Mutual exclusion alone is not
    inductive: a thread that skips the mutex because the owner is itself is safe only because
    nobody else can have written that owner (`OwnerInv`), and the count is right only because
    `depth` and the place determine it (`CountInv`). From it: `LockMutualExclusion`,
    `LockOwnerAgrees`, `LockNeverHangs`, and `LockRefinement` to RecursiveLock.
* **FlashProofs**. Sectors and pages are intervals between multiples (`Floor`, `Sectors`,
  `Pages`, from division with remainder). `FlashInv` says that what was written last is what
  the cached sector, or elsewhere the chip, holds (`ContentInv`), and that during a write-back
  nothing is put into the cache and the pages done are in the chip (`FlushInv`); that is what
  makes dropping the cache at the end of it harmless. From it `FlashRefinement`, the
  refinement of FlashMemory with `Content` for the memory, and `FlashReads`: the loop of
  `usiMyRead`, by induction on the bytes left, returns what was written for any address and
  length.
* **ConfigStoreProofs**, for any number of threads that serve requests beside the period
  thread. `SumInv` says that a checksum computed and not yet copied is that of the settings in memory
  as long as there was no race: the saves of two threads may overlap at every step, but
  without a change in between they compute the same sum. `FreshInv` says that no change is
  forgotten, race or not: the main copy, as it is or is about to be in flash, has the settings in
  memory, or a save that has not copied them yet is under way; and a save with nobody else on the way has copied what
  is in memory, which is why the race is over when it ends with a valid copy. `CacheInv` says how far the
  sector has been written, `KeptInv` that the main copy and the one on its way are valid and
  hold settings the history allows (valid but for a race), `FailInv` and `CutsInv` bound the count of short power-ons
  in flash from above by the boots since it was cleared and from below by the short power-ons in a
  row, `ResetInv` that after a reset that no save overlapped nothing repairs the checksum. From these
  `ConfigSettledSave`, `ConfigBootKeeps`, `ConfigThreePowerOffs` and `ConfigResetTakes`.
* **McuProofs**. `McuInv` gives, for each place, the value of the counter and of the
  outstanding answer; with the lock free the counter equals the outstanding answers.
  From it `McuNoCrashedLock` and `McuTaskMatchesDebt`. `AnswerInv` says which command's
  answer, or which half of it, can be on the line at each place while no reader has given up:
  none before a send, only that of the outstanding command after it. From it
  `McuAnswersOwnCommand`.
* **MsgLedProofs**, the message queue. `QueueInv` says who has the queue's mutex (`MutexInv`) and how many
  bytes are in the pipe: one per message, but one less while the holder of the mutex has
  linked its message and not yet written its byte, and one more while it has unlinked a
  message and not yet read the byte (`PipeInv`). That a byte means a message is not
  inductive alone: it needs that these differences exist only inside the mutex and that only
  the selector takes bytes, so that the one it saw is there until it does. `QueuePlacesKept`
  counts the places over the threads that have taken one, by a sum over a finite set that
  changes at one thread in each step (`StepCounts`). `QueueRefinement` is the refinement of
  MsgFifo.
* **SelectThreadProofs**. `SelectInv` follows an object through a round. What is still to be
  processed is part of the list, nothing is in the list twice, and listed objects are live
  (`ListInv`); every open descriptor has one owner: an object of the list, another thread, or
  nobody any more (`SocketInv`); the kept sets hold open descriptors only, at `select`
  exactly those that listed objects wait for, after it exactly those reported to them
  (`SetInv`); a message brings an object that is live and not listed, or takes one away that
  no later message brings, with at most one of each kind for an object (`MessageInv`).
  `SelectNoDangling`, `SelectNeverBad` and `SelectWantedIsWatched` follow. What taking
  objects out of a list leaves is proved once (`WithoutIs`, by induction on the list).
* **Mp4StreamProofs**. The invariant gives each block its place and its count, says
  what the capture thread has at each of its steps, and which lock a caller has at each of
  its own. A caller that starts or restarts the encoder has
  `vmp4Lock` free or its own, and nothing is being encoded then (`ap[0] = None`): the server's blocks
  and the frame encoded last are all that are out of reach of a header. From it `StreamAccounted` and `StreamNothingAfterStop`.
* **MsgLedProofs**, the display. `PatternInv` says that the entries below the number of steps in use
  are set, those of the pattern `ledShowState` is about to announce too, and that the
  player's position, which may be past the end of a new, shorter pattern, is that of an
  entry set before: what was set once stays set. So the player may combine an old
  position with a new number, or the other way round, and still find something. It gives
  `LedNeverBlank` for any set of error codes and any array that takes the longest
  pattern.
* **HttpProofs** has three parts.
  * SendHttp.cgi. `UrlInv` says that what the browser was sent, joined with what `acBody`, the
    waiting callback and `acBuffer` hold for it, is what was read from the server
    (`StreamInv`). By itself that is not inductive. The callback may be
    entered only with nothing else held for that client, the text for a request without an answer
    is sent only when nothing was read, and `acBody` is empty when the connection is done
    (`PlaceInv`). A client is deleted once and after its request, so that no message names
    one whose buffers are in use again (`DelInv`). From it `UrlRelayed`.
  * The rotation of the upload's ring, a permutation in place. `GcdIs`: the loop returns a
    common divisor that is a combination of its arguments, by induction on their sum. With it
    a cycle comes back to its start after exactly `Size \div gcd` moves, two starts below
    the gcd never meet, and every index is met (`TurnsIs`). Each cycle moves its own bytes
    only (`CycleIs`), and so `RotateIs`: every byte is taken from the same distance, for every size
    and shift.
  * The upload. `UploadInv`: one request uploads at a time unless a failed one ended meanwhile
    (`OneUpload`); the bytes in flash and the bytes in the ring, joined, are the request from the
    start of the file's part to the byte processed last (`InFile`), and before and after
    it the parser is in the state the position in the request says (`BeforeFile`, `AfterFile`),
    or a write has split the delimiter, which needs a boundary that leaves no spare byte
    (`Unseen`). The proof goes byte by byte: `MPTestBoundary` finds nothing before the
    delimiter after the file is complete, because the file does not contain it
    and what follows the file ends in a line end; a write of a full ring leaves what may be a
    delimiter in it; at most the line end is written beyond the file. `ImageInv` and
    `ReaderInv` carry this over the header, the next writes and the blocks of a read-back.
    From it `UploadWhole` and `UploadReadsBack`, for any files, boundaries, ring and
    block. The assumption `PostOK` is what a browser and the server's limit give: the delimiter is
    not in the file, a boundary is part of a line and shorter than the ring, and an accepted
    request fits in the flash.

Induction. The library's induction theorems take a predicate as a parameter, which the
provers cannot instantiate. The proofs about recursively defined functions (a walk, a filtered
list, a read, a gcd, a rotation) use the least element of the set of counterexamples instead (lemma
`Least`, from the well-foundedness of `<`), first to show that the function exists and then for
what it computes.

Every safety property and every refinement that a passing run checks is thus the statement of a
theorem. Only model-checked: the liveness properties, which need fairness and ENABLED and so are
outside the prover's reach: `LockReturns`, `NoStarvation`, `AnswerIsRead`, `Delivered`,
`Handled`, `Settles`, `StreamEndIsShown`, `RequestEnds`, `CallsReturn` and `FrameIsRead`.

## 6. Not modelled

Register programming, formatting, logging and wording; codecs; third-party and
binary code; code under `#if 0` or for other hardware (`FILESYSTEM`, boards
without `WLAN`); the empty-list branch of the select loop, which is unreachable while
the queue's own descriptor stays in the list (`SelectFindsMessage`). The power-saving
code is called only under `#if 0`. The upload of a page (`Http_Post_Upload`) only buffers,
and mail and FTP block on their own sockets: neither shares state with another thread.

## 7. Plan

Done: lock, list, period service, flash, settings, controller link, message queue,
select thread, LED, network display, SendHttp.cgi, firmware upload, encoded video; proofs
of the safety properties of all of them.

Left, in this order:

1. **Users**: `User.c` and the user functions of `configinterface.c`, on top of
   ConfigStore; an administrator remains, rights are checked against the current list.
2. **Lock order**: LED, MCU, period, flash and settings locks in one composition.
3. **DDNS, CheckIP, Ntp, BypassClient**: what they do with an answer, as refinements of
   SelectThread's client; the arithmetic of time stamps.
4. **Camera and recorder buffers**, **JPEG and audio**, **SetIP and reconnection** in
   `wlan0.c`, **upload over USB** (`vp_com.c`), host interface.
