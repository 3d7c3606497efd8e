---------------------------- MODULE ConfigStore ----------------------------
(***************************************************************************)
(* The camera's settings: g_ConfigParam in memory and its two copies in the *)
(* serial flash (Host/LibCamera/Src/CameraConfig.c), the boot that reads   *)
(* them and counts short power-ons (LibIPCamera.c), the requests that      *)
(* reset them (CameraConfig.c, configinterface.c), and power cuts.         *)
(*                                                                         *)
(* FLASH_CONFIG_SIZE is the size of the structure rounded up to 256 bytes, *)
(* some 7 KB, and an erase sector is 64 KB: both copies lie in the last    *)
(* sector of the flash and are erased together.                            *)
(*                                                                         *)
(* A setting is a field of g_ConfigParam, one for each thread that changes *)
(* settings.  A checksum is represented by the settings it was computed    *)
(* from, or by Spoilt for "checksum + 1".  Byte 0, ucFailTime, enters      *)
(* GetConfigCheckSum with the factor 0, so it is not part of the sum.      *)
(***************************************************************************)
EXTENDS Naturals, FiniteSets

CONSTANTS Thread,       \* threads that serve settings requests: HTTP, USB
          Value,        \* values of a setting
          builtin,      \* the value InitDefaultParam gives each setting
          Prd, Main,    \* the period thread; the thread that boots
          NoThread, Spoilt, Erased,
          MaxCuts,      \* bound: power cuts and reboots of a behaviour
          MaxRequests   \* bound: settings requests of a behaviour

ASSUME ThreadAssumption == Prd \notin Thread /\ Main \notin Thread /\ Prd # Main
ASSUME ValueAssumption  == builtin \in Value

VARIABLES
    power,          \* "off", "boot" (inside ReadCameraParam) or "up"
    g_ConfigParam,  \* the settings in memory
    flash,          \* the two copies in the last sector
    cache,          \* g_uUSI_BUF: the sector as it is to be written, or Erased
    mutex,          \* holder of g_ptmConfigParam
    s_bNotResetCheckSum,
    pc, call,       \* where each thread is, and the __WriteFlashMemory it does
    sum,            \* the checksum a thread has computed and not yet assigned
    ResetFlag,      \* the task that clears ucFailTime: "armed", "ran"
    ends, requests, \* how often the power-on ended; how many requests there were
    cuts,           \* history: short power-ons in a row, each of them counted
    boots,          \* history: boots since ucFailTime was last cleared in flash
    saved,          \* history: settings the next boot may come up with
    raced,          \* history: a setting changed between a checksum and its save
    asked,          \* history: a factory reset is asked for: "no", "begun", "done"
    overlap         \* history: while a save was past its check

hist == <<ends, requests, cuts, boots, saved, raced, asked, overlap>>
vars == <<power, g_ConfigParam, flash, cache, mutex, s_bNotResetCheckSum,
          pc, call, sum, ResetFlag, hist>>

Actor    == Thread \cup {Prd, Main}
Settings == [Thread -> Value]
Builtin  == [t \in Thread |-> builtin]
Area     == {"main", "default"}

\* A copy of CAMERA_CONFIG_PARAM_T
Param == [data : Settings, ucFailTime : 0..3, ulCheckSum : Settings \cup {Spoilt}]
Copies == [Area -> Param \cup {Erased}]

\* The values that stand for "nothing" are none of the others.
ASSUME NothingAssumption ==
    NoThread \notin Actor /\ Spoilt \notin Settings /\ Erased \notin Param \cup Copies

GetConfigCheckSum(p) == p.data

Valid(p) == p # Erased /\ GetConfigCheckSum(p) = p.ulCheckSum

InitDefaultParam == [data |-> Builtin, ucFailTime |-> 0, ulCheckSum |-> Spoilt]

\* The parameters of __WriteFlashMemory, and whether ictlSetDefaultMac goes on to
\* spoil the main copy afterwards
Call(reset, area, more) == [bResetCheckSum |-> reset, area |-> area, more |-> more]

SaveMain == Call(TRUE, "main", FALSE)

\* A camera on its first power-on: nothing in flash yet.
Init ==
    /\ power = "off"
    /\ g_ConfigParam = InitDefaultParam
    /\ flash = [a \in Area |-> Erased]
    /\ cache = Erased
    /\ mutex = NoThread
    /\ s_bNotResetCheckSum = FALSE
    /\ pc = [t \in Actor |-> "idle"]
    /\ call = [t \in Actor |-> SaveMain]
    /\ sum = [t \in Actor |-> Spoilt]
    /\ ResetFlag = "ran"
    /\ ends = 0 /\ requests = 0 /\ cuts = 0 /\ boots = 0
    /\ saved = Settings /\ raced = FALSE /\ asked = "no" /\ overlap = FALSE

------------------------------------------------------------------------------
(* Threads.  The period thread has priority 9, the others 10: when it can   *)
(* run, they do not.  eCos shares the time among threads of priority 10.    *)

Blocked(t) == pc[t] = "idle" \/ (pc[t] = "lock" /\ mutex # NoThread)

MayRun(t) == power # "off" /\ (t = Prd \/ Blocked(Prd))

Go(t, place) == pc' = [pc EXCEPT ![t] = place]

ReadFlashMemory ==
    IF Valid(flash["main"]) THEN flash["main"] ELSE flash["default"]

\* mutated: the count is one too high
LoadOffByOne(p) ==
    IF ~Valid(p) \/ p.ucFailTime > 3 THEN InitDefaultParam
    ELSE [p EXCEPT !.ucFailTime = @ + 1]

\* What ReadCameraParam makes of the copy it read
Load(p) ==
    IF ~Valid(p) \/ p.ucFailTime >= 3 THEN InitDefaultParam
    ELSE [p EXCEPT !.ucFailTime = @ + 1]

\* ReadCameraParam up to its WriteFlashMemory
ReadCameraParam ==
    /\ power = "off"
    /\ power' = "boot"
    /\ g_ConfigParam' = Load(ReadFlashMemory)
    /\ Go(Main, "check")
    /\ call' = [call EXCEPT ![Main] = SaveMain]
    /\ saved' = {g_ConfigParam'.data}
    /\ raced' = FALSE /\ asked' = "no" /\ overlap' = FALSE
    /\ boots' = IF Valid(flash["main"]) /\ boots < 3 THEN boots + 1 ELSE 3
    /\ UNCHANGED <<flash, cache, mutex, s_bNotResetCheckSum, sum, ResetFlag,
                   ends, requests, cuts>>

\* ReadCameraParam returns: the task is added, the other threads are started.
BootDone ==
    /\ power = "boot"
    /\ pc[Main] = "idle"
    /\ power' = "up"
    /\ ResetFlag' = "armed"
    /\ UNCHANGED <<g_ConfigParam, flash, cache, mutex, s_bNotResetCheckSum, pc,
                   call, sum, hist>>

\* 5 seconds after the boot
prdTask_ResetFlag_FactoryDefault ==
    /\ ResetFlag = "armed" /\ MayRun(Prd)
    /\ ResetFlag' = "ran"
    /\ g_ConfigParam' = [g_ConfigParam EXCEPT !.ucFailTime = 0]
    /\ Go(Prd, "check")
    /\ call' = [call EXCEPT ![Prd] = SaveMain]
    /\ UNCHANGED <<power, flash, cache, mutex, s_bNotResetCheckSum, sum, hist>>

------------------------------------------------------------------------------
(* Requests.  An ictl function holds g_rmutex, an HTTP handler does not:   *)
(* the requests of two threads overlap.                                    *)

Request(t, place, c) ==
    /\ power = "up" /\ MayRun(t) /\ pc[t] = "idle"
    /\ requests < MaxRequests
    /\ requests' = requests + 1
    /\ Go(t, place)
    /\ call' = [call EXCEPT ![t] = c]
    /\ UNCHANGED <<power, flash, cache, mutex, s_bNotResetCheckSum, sum, ResetFlag,
                   ends, cuts, boots, asked, overlap>>

\* The settings in memory are changed, perhaps between another thread's
\* checksum, computed outside the mutex, and its copy.
Change(t, param) ==
    /\ g_ConfigParam' = param
    /\ saved' = saved \cup {param.data}
    /\ raced' = (raced \/ \E u \in Actor \ {t} : pc[u] \in {"assign", "lock", "copy"})

\* Any handler that changes a setting and ends in WriteFlashMemory
SetConfig(t, v) ==
    /\ Request(t, "check", SaveMain)
    /\ Change(t, [g_ConfigParam EXCEPT !.data[t] = v])

\* Http_SetFactoryDefault, ictlSetFactoryDefault
SetFactoryDefault(t) ==
    /\ Request(t, "spoil", Call(FALSE, "main", FALSE))
    /\ UNCHANGED <<g_ConfigParam, saved, raced>>

\* Http_UpdateFactoryDefault, ictlUpdateFactoryDefault
UpdateFactoryDefault(t) ==
    /\ Request(t, "check", Call(TRUE, "default", FALSE))
    /\ UNCHANGED <<g_ConfigParam, saved, raced>>

\* ictlSetDefaultMac
SetDefaultMac(t) ==
    /\ Request(t, "check", Call(TRUE, "default", TRUE))
    /\ Change(t, InitDefaultParam)

\* ulCheckSum = GetConfigCheckSum() + 1, before __WriteFlashMemory(.., FALSE, FALSE)
Spoil(t) ==
    /\ pc[t] = "spoil" /\ MayRun(t)
    /\ g_ConfigParam' = [g_ConfigParam EXCEPT !.ulCheckSum = Spoilt]
    /\ Go(t, "check")
    /\ call' = [call EXCEPT ![t] = Call(FALSE, "main", FALSE)]
    /\ asked' = IF asked = "no" THEN "begun" ELSE asked
    /\ overlap' = (overlap \/ \E u \in Actor : pc[u] \in {"sum", "assign"})
    /\ UNCHANGED <<power, flash, cache, mutex, s_bNotResetCheckSum, sum, ResetFlag,
                   ends, requests, cuts, boots, saved, raced>>

------------------------------------------------------------------------------
(* __WriteFlashMemory *)

\* __WriteFlashMemory returns, and the request ends or goes on to spoil the main copy.
Return(t) == \/ call[t].more /\ Go(t, "spoil") /\ UNCHANGED call
             \/ ~call[t].more /\ Go(t, "idle") /\ call' = [call EXCEPT ![t] = SaveMain]

\* mutated: saves after a factory reset are not refused
CheckAlways(t) ==
    /\ pc[t] = "check" /\ MayRun(t)
    /\ Go(t, IF call[t].bResetCheckSum THEN "sum" ELSE "lock")
    /\ UNCHANGED <<power, g_ConfigParam, flash, cache, mutex, s_bNotResetCheckSum,
                   call, sum, ResetFlag, hist>>

Check(t) ==
    /\ pc[t] = "check" /\ MayRun(t)
    /\ \/ ~call[t].bResetCheckSum /\ s_bNotResetCheckSum' = TRUE /\ Go(t, "lock")
          /\ UNCHANGED <<call, overlap>>
       \/ call[t].bResetCheckSum /\ ~s_bNotResetCheckSum /\ Go(t, "sum")
          /\ overlap' = (overlap \/ asked = "begun")
          /\ UNCHANGED <<call, s_bNotResetCheckSum>>
       \/ call[t].bResetCheckSum /\ s_bNotResetCheckSum /\ Return(t)
          /\ UNCHANGED <<s_bNotResetCheckSum, overlap>>
    /\ UNCHANGED <<power, g_ConfigParam, flash, cache, mutex, sum, ResetFlag,
                   ends, requests, cuts, boots, saved, raced, asked>>

ComputeSum(t) ==
    /\ pc[t] = "sum" /\ MayRun(t)
    /\ sum' = [sum EXCEPT ![t] = GetConfigCheckSum(g_ConfigParam)]
    /\ Go(t, "assign")
    /\ UNCHANGED <<power, g_ConfigParam, flash, cache, mutex, s_bNotResetCheckSum,
                   call, ResetFlag, hist>>

\* mutated: the checksum is computed and not stored
AssignSumNot(t) ==
    /\ pc[t] = "assign" /\ MayRun(t)
    /\ Go(t, "lock")
    /\ UNCHANGED <<power, g_ConfigParam, flash, cache, mutex, s_bNotResetCheckSum,
                   call, sum, ResetFlag, hist>>

AssignSum(t) ==
    /\ pc[t] = "assign" /\ MayRun(t)
    /\ g_ConfigParam' = [g_ConfigParam EXCEPT !.ulCheckSum = sum[t]]
    /\ sum' = [sum EXCEPT ![t] = Spoilt]
    /\ Go(t, "lock")
    /\ UNCHANGED <<power, flash, cache, mutex, s_bNotResetCheckSum,
                   call, ResetFlag, hist>>

Lock(t) ==
    /\ pc[t] = "lock" /\ MayRun(t) /\ mutex = NoThread
    /\ mutex' = t
    /\ Go(t, "copy")
    /\ UNCHANGED <<power, g_ConfigParam, flash, cache, s_bNotResetCheckSum,
                   call, sum, ResetFlag, hist>>

\* usiMyWrite: the sector is read and the settings are put into it
Copy(t) ==
    /\ pc[t] = "copy" /\ MayRun(t)
    /\ cache' = [flash EXCEPT ![call[t].area] = g_ConfigParam]
    /\ Go(t, "erase")
    /\ UNCHANGED <<power, g_ConfigParam, flash, mutex, s_bNotResetCheckSum,
                   call, sum, ResetFlag, hist>>

\* usiMyFlash: the sector is erased and its pages are written in order; the
\* main copy comes before the default copy
Erase(t) ==
    /\ pc[t] = "erase" /\ MayRun(t)
    /\ flash' = [a \in Area |-> Erased]
    /\ Go(t, "main")
    /\ UNCHANGED <<power, g_ConfigParam, cache, mutex, s_bNotResetCheckSum,
                   call, sum, ResetFlag, hist>>

WritePages(t) ==
    /\ pc[t] \in Area /\ MayRun(t)
    /\ flash' = [flash EXCEPT ![pc[t]] = cache[pc[t]]]
    /\ Go(t, IF pc[t] = "main" THEN "default" ELSE "unlock")
    /\ UNCHANGED <<power, g_ConfigParam, cache, mutex, s_bNotResetCheckSum,
                   call, sum, ResetFlag, hist>>

\* A save of the settings, with nobody else on the way to one
LastSave(t) == call[t] = SaveMain /\ \A u \in Actor \ {t} : pc[u] = "idle"

\* The mutex is given up and __WriteFlashMemory returns TRUE.
Unlock(t) ==
    /\ pc[t] = "unlock" /\ MayRun(t)
    /\ cache' = Erased
    /\ mutex' = NoThread
    /\ Return(t)
    /\ saved' = IF LastSave(t) THEN {g_ConfigParam.data} ELSE saved
    /\ raced' = (raced /\ ~(LastSave(t) /\ Valid(g_ConfigParam)))
    /\ asked' = IF call[t].bResetCheckSum THEN asked ELSE "done"
    /\ boots' = IF t = Prd THEN 0 ELSE boots
    /\ UNCHANGED <<power, g_ConfigParam, flash, s_bNotResetCheckSum,
                   sum, ResetFlag, ends, requests, cuts, overlap>>

WriteFlashMemory(t) == \/ Check(t) \/ ComputeSum(t) \/ AssignSum(t) \/ Lock(t)
                       \/ Copy(t) \/ Erase(t) \/ WritePages(t) \/ Unlock(t)

------------------------------------------------------------------------------
(* The end of a power-on *)

\* usiMyFlash is running: g_tUSILock is held
Flashing == \E t \in Actor : pc[t] \in {"main", "default"}

Off ==
    /\ ends < MaxCuts
    /\ ends' = ends + 1
    /\ power' = "off"
    /\ cache' = Erased
    /\ mutex' = NoThread
    /\ s_bNotResetCheckSum' = FALSE
    /\ pc' = [t \in Actor |-> "idle"]
    /\ call' = [t \in Actor |-> SaveMain]
    /\ sum' = [t \in Actor |-> Spoilt]
    /\ ResetFlag' = "ran"
    /\ cuts' = IF asked # "no" \/ raced \/ flash["main"] = Erased THEN 0
               ELSE IF power = "boot" THEN IF flash["main"].ucFailTime = 0 THEN 0 ELSE cuts
               ELSE IF ResetFlag = "armed" /\ g_ConfigParam.ucFailTime > 0 THEN cuts + 1
               ELSE 0
    /\ g_ConfigParam' = InitDefaultParam
    /\ UNCHANGED <<requests, boots, raced, asked, overlap>>

PowerCut ==
    /\ power # "off"
    /\ Off
    /\ saved' = IF flash["main"] = Erased THEN Settings ELSE saved
    /\ UNCHANGED flash

\* mutated: the flash lock is not taken
W99802RebootUnlocked ==
    /\ power = "up" /\ \E t \in Thread : MayRun(t)
    /\ Off
    /\ UNCHANGED <<flash, saved>>

\* W99802Reboot: takes the flash lock and flushes the cached sector first
W99802Reboot ==
    /\ power = "up" /\ \E t \in Thread : MayRun(t)
    /\ ~Flashing
    /\ Off
    /\ flash' = IF cache = Erased THEN flash ELSE cache
    /\ UNCHANGED saved

------------------------------------------------------------------------------
Step(t) == WriteFlashMemory(t) \/ Spoil(t)

Next ==
    \/ ReadCameraParam \/ BootDone \/ prdTask_ResetFlag_FactoryDefault
    \/ \E t \in Thread : \/ SetFactoryDefault(t) \/ UpdateFactoryDefault(t)
                         \/ SetDefaultMac(t) \/ \E v \in Value : SetConfig(t, v)
    \/ \E t \in Actor : Step(t)
    \/ PowerCut \/ W99802Reboot

Spec == Init /\ [][Next]_vars

------------------------------------------------------------------------------
(* Properties *)

Boots == power = "off" /\ power' = "boot"

\* What WriteFlashMemory saved survives: unless the power is cut while the sector
\* is erased, a factory reset is asked for, three boots were cut short, or a thread
\* changed a setting between another's checksum and its copy, the next boot comes
\* up with the settings last saved, or with those being saved when the power-on
\* ended.  A reboot by software never loses any.
BootKeeps ==
    [][Boots /\ boots < 3 /\ asked = "no" /\ ~raced => g_ConfigParam'.data \in saved]_vars

\* "Turn Rovio on, wait for the LED power indicator to light up, and then turn it
\* off. Repeat this step two more times. Turn Rovio on": the factory settings are
\* back.  A power-on that came up with them already is not counted, and one that
\* ended with a raced save (which loses the count as well) starts the count anew.
ThreePowerOffs == [][Boots /\ cuts >= 3 => g_ConfigParam'.data = Builtin]_vars

\* The boot comes up with the settings saved as factory default.
ResetLoadsDefault ==
    LET d == flash["default"]
        wanted == IF Valid(d) /\ d.ucFailTime < 3 THEN d.data ELSE Builtin
    IN  g_ConfigParam'.data = wanted

\* A factory reset that was carried out takes effect, whatever the other threads save
\* between the request and the reboot; unless one of them was about to store its
\* checksum when the request spoilt it, or passed its check before the request set
\* s_bNotResetCheckSum.
FactoryResetTakes == [][Boots /\ asked = "done" /\ ~overlap => ResetLoadsDefault]_vars

\* "Factory settings restored." (testpage.htm): the request takes effect, whatever
\* else is being saved at the time.
FactoryResetAlwaysTakes == [][Boots /\ asked = "done" => ResetLoadsDefault]_vars

\* When nobody is saving, the main copy in flash has every setting that any thread
\* changed, and the right checksum, so the next boot will accept it; unless a thread
\* changed a setting between another's checksum and its copy, and no save has been
\* made by itself since.
SettledSaveIsValid ==
    power = "up" /\ asked = "no" /\ (\A t \in Actor : pc[t] = "idle") =>
        /\ flash["main"] # Erased /\ flash["main"].data = g_ConfigParam.data
        /\ Valid(flash["main"]) \/ raced
------------------------------------------------------------------------------
(* The inductive invariant *)

Saving == {"copy", "erase", "main", "default", "unlock"}     \* g_ptmConfigParam is held
Cached == Saving \ {"copy"}                                  \* g_uUSI_BUF is in use
Place  == {"idle", "spoil", "check", "sum", "assign", "lock"} \cup Saving

ConfigTypeOK ==
    /\ power \in {"off", "boot", "up"}
    /\ g_ConfigParam \in Param /\ flash \in Copies /\ cache \in Copies \cup {Erased}
    /\ mutex \in Actor \cup {NoThread}
    /\ s_bNotResetCheckSum \in BOOLEAN
    /\ pc \in [Actor -> Place]
    /\ call \in [Actor -> [bResetCheckSum : BOOLEAN, area : Area, more : BOOLEAN]]
    /\ sum \in [Actor -> Settings \cup {Spoilt}]
    /\ ResetFlag \in {"armed", "ran"}
    /\ cuts \in Nat /\ boots \in 0..3
    /\ saved \subseteq Settings /\ raced \in BOOLEAN
    /\ asked \in {"no", "begun", "done"} /\ overlap \in BOOLEAN

\* Who may be doing something, and which call.
PhaseInv ==
    /\ power = "off" => ~s_bNotResetCheckSum /\ \A t \in Actor : pc[t] = "idle"
    /\ power = "boot" => \A t \in Actor \ {Main} : pc[t] = "idle"
    /\ power = "up" => pc[Main] = "idle"
    /\ power = "boot" => asked = "no" /\ ~raced /\ ~s_bNotResetCheckSum /\ ResetFlag = "ran"
    /\ ResetFlag = "armed" => power = "up" /\ pc[Prd] = "idle"
    /\ \A t \in {Prd, Main} : call[t] = SaveMain /\ pc[t] # "spoil"
    /\ \A t \in Actor : ~call[t].bResetCheckSum => call[t].area = "main"

MutexInv == \A t \in Actor : mutex = t <=> pc[t] \in Saving

\* A checksum computed is that of the settings in memory, until they are copied.
SumInv ==
    asked = "no" /\ ~raced =>
      \A t \in Actor :
        /\ pc[t] = "assign" => sum[t] = g_ConfigParam.data
        /\ pc[t] \in {"lock", "copy"} => g_ConfigParam.ulCheckSum = g_ConfigParam.data

\* The sector in memory and how far it has been written.
CacheInv ==
    /\ (\A t \in Actor : pc[t] \notin Cached) => cache = Erased
    /\ \A t \in Actor : pc[t] \in Cached =>
          LET area == call[t].area
          IN  /\ cache # Erased
              /\ cache[area] # Erased
              /\ pc[t] = "erase" => \A a \in Area \ {area} : cache[a] = flash[a]
              /\ pc[t] = "main" => \A a \in Area : flash[a] = Erased
              /\ pc[t] = "default" => flash["main"] = cache["main"]
              /\ pc[t] = "unlock" => flash = cache

\* The main copy as it is, or as it is about to be, in flash
Newest == IF cache = Erased THEN flash["main"] ELSE cache["main"]

\* A save that has not yet copied the settings, or that a reset follows
Pending(t) == \/ pc[t] \in {"check", "sum", "assign", "lock", "copy"} /\ call[t].area = "main"
              \/ pc[t] # "idle" /\ call[t].more

Good(p) == p.data \in saved /\ (Valid(p) \/ raced)

\* As long as no reset is asked for, what is in the main copy is among the settings the
\* next boot may come up with, and is valid if there was no race.
KeptInv ==
    /\ power # "off" => g_ConfigParam.data \in saved
    /\ power = "boot" => saved = {g_ConfigParam.data}
    /\ asked = "no" =>
         /\ ~s_bNotResetCheckSum
         /\ \A t \in Actor : pc[t] \notin {"idle", "spoil"} => call[t].bResetCheckSum
         /\ cache # Erased => cache["main"] # Erased /\ Good(cache["main"])
         /\ \/ power = "up"
            \/ power = "boot" /\ (boots < 3 \/ pc[Main] \in {"default", "unlock", "idle"})
            \/ power = "off" /\ boots < 3
            => (flash["main"] # Erased => Good(flash["main"]))
         /\ power = "off" /\ boots < 3 /\ flash["main"] = Erased => saved = Settings
         /\ \/ power = "up" /\ \A t \in Actor : pc[t] # "main"
            \/ power = "boot" /\ pc[Main] \in {"default", "unlock", "idle"}
            => flash["main"] # Erased

\* No change is forgotten, and what the last of several saves copied is what is in memory.
FreshInv ==
    power = "up" /\ asked = "no" =>
        /\ Newest.data = g_ConfigParam.data \/ \E t \in Thread : Pending(t)
        /\ \A t \in Actor : pc[t] \in Cached /\ LastSave(t) => cache["main"] = g_ConfigParam

\* The count of short power-ons in flash is at most the number of boots since it was cleared.
FailInv ==
    /\ g_ConfigParam.ucFailTime <= boots
    /\ flash["main"] # Erased => flash["main"].ucFailTime <= boots
    /\ cache # Erased /\ cache["main"] # Erased => cache["main"].ucFailTime <= boots
    /\ power = "up" /\ ResetFlag = "ran" => g_ConfigParam.ucFailTime = 0
    /\ pc[Prd] \in Cached => cache["main"].ucFailTime = 0

\* It is at least the number of short power-ons in a row, or at its limit.
CutsInv ==
    /\ (power = "off" \/ pc[Main] \in {"check", "sum", "assign", "lock", "copy", "erase"}) /\ cuts > 0
         =>          /\ Valid(flash["main"])
                     /\ cuts <= flash["main"].ucFailTime \/ flash["main"].ucFailTime = 3
    /\ (power = "boot" \/ ResetFlag = "armed") /\ g_ConfigParam.ucFailTime > 0 =>
            /\ cuts < g_ConfigParam.ucFailTime
            /\ cache # Erased /\ cache["main"] # Erased
                 => cache["main"].ucFailTime = g_ConfigParam.ucFailTime
            /\ /\ ResetFlag = "armed" \/ pc[Main] \in {"default", "unlock", "idle"}
               /\ flash["main"] # Erased
               => flash["main"].ucFailTime = g_ConfigParam.ucFailTime
    /\ power = "boot" /\ g_ConfigParam.ucFailTime = 0 /\ pc[Main] \in Cached
         => cache["main"].ucFailTime = 0
    /\ power = "boot" /\ g_ConfigParam.ucFailTime = 0 /\ pc[Main] \in {"default", "unlock", "idle"}
         => flash["main"].ucFailTime = 0

IsSpoilt(p) == p # Erased => p.ulCheckSum = Spoilt

\* A reset that nothing overlapped: every later copy has the wrong checksum, and the saves
\* that would repair it are refused.
ResetInv ==
    asked # "no" /\ ~overlap =>
        /\ power = "up" =>
             /\ g_ConfigParam.ulCheckSum = Spoilt
             /\ \A t \in Actor : pc[t] \notin {"sum", "assign"}
             /\ asked = "done" => s_bNotResetCheckSum
             /\ \A t \in Actor : pc[t] \in {"lock"} \cup Saving /\ ~call[t].bResetCheckSum
                                => s_bNotResetCheckSum
             /\ \A t \in Actor : pc[t] \in Cached /\ (asked = "done" \/ ~call[t].bResetCheckSum)
                                => IsSpoilt(cache["main"])
        /\ asked = "done" => IsSpoilt(flash["main"])

ConfigInv == /\ ConfigTypeOK /\ PhaseInv /\ MutexInv /\ SumInv /\ CacheInv
             /\ KeptInv /\ FreshInv /\ FailInv /\ CutsInv /\ ResetInv
=============================================================================
