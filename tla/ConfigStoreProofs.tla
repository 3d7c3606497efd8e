------------------------- MODULE ConfigStoreProofs --------------------------
(***************************************************************************)
(* Proofs about the settings in flash, for any settings, any number of     *)
(* threads that serve settings requests and of power-ons, and a power cut  *)
(* at any step.                                                            *)
(***************************************************************************)
EXTENDS ConfigStore, TLAPS

------------------------------------------------------------------------------
(* Actors and where they are *)

LEMMA Cast ==
  /\ Prd \in Actor /\ Main \in Actor /\ Prd # Main /\ NoThread \notin Actor
  /\ \A t \in Thread : t \in Actor /\ t # Prd /\ t # Main
  /\ \A t \in Actor : t \in Thread \/ t = Prd \/ t = Main
  BY ThreadAssumption, NothingAssumption DEF Actor

LEMMA SaveMainIs ==
  /\ SaveMain \in [bResetCheckSum : BOOLEAN, area : Area, more : BOOLEAN]
  /\ SaveMain.bResetCheckSum /\ SaveMain.area = "main" /\ ~SaveMain.more
  BY DEF SaveMain, Call, Area

\* A thread that serves requests is busy only when the camera is up, and so is the period
\* thread; the main thread only before.
LEMMA Busy ==
  ASSUME PhaseInv, ConfigTypeOK, NEW t \in Actor, pc[t] # "idle"
  PROVE  /\ t = Main => power = "boot" /\ \A u \in Actor \ {t} : pc[u] = "idle"
         /\ t # Main => power = "up" /\ pc[Main] = "idle"
  BY Cast DEF PhaseInv, ConfigTypeOK

\* Only one actor has the mutex.
LEMMA OneSaves ==
  ASSUME MutexInv, NEW t \in Actor, NEW u \in Actor, pc[t] \in Saving, pc[u] \in Saving
  PROVE  t = u
  BY DEF MutexInv

------------------------------------------------------------------------------
(* __WriteFlashMemory *)

LEMMA CheckKeeps ==
  ASSUME ConfigInv, NEW t \in Actor, Check(t)
  PROVE  ConfigInv'
  <1>1. /\ pc[t] = "check" /\ MayRun(t)
        /\ UNCHANGED <<power, g_ConfigParam, flash, cache, mutex, sum, ResetFlag>>
        /\ UNCHANGED <<cuts, boots, saved, raced, asked>>
    BY DEF Check
  <1>2. PICK q \in {"lock", "sum", "idle", "spoil"} :
          /\ pc' = [pc EXCEPT ![t] = q]
          /\ q = "lock" => ~call[t].bResetCheckSum /\ s_bNotResetCheckSum' = TRUE
          /\ q # "lock" => call[t].bResetCheckSum /\ s_bNotResetCheckSum' = s_bNotResetCheckSum
          /\ q = "sum" => ~s_bNotResetCheckSum
          /\ q \in {"idle", "spoil"} => s_bNotResetCheckSum
          /\ q = "spoil" => call[t].more
          /\ q = "idle" => call' = [call EXCEPT ![t] = SaveMain]
          /\ q # "idle" => call' = call
    BY DEF Check, Go, Return
  <1>a. overlap' = overlap \/ overlap' = (overlap \/ asked = "begun")
    BY DEF Check
  <1>b. overlap' \in BOOLEAN /\ (~overlap' => ~overlap)
    BY <1>a, Zenon DEF ConfigInv, ConfigTypeOK
  <1>e. q = "sum" /\ ~overlap' => asked # "begun"
    <2>1. q = "sum" => call[t].bResetCheckSum /\ ~s_bNotResetCheckSum
      BY <1>2
    <2>2. call[t].bResetCheckSum /\ ~s_bNotResetCheckSum => overlap' = (overlap \/ asked = "begun")
      BY Zenon DEF Check
    <2>. QED
      BY <2>1, <2>2, Zenon
  <1>d. call' \in [Actor -> [bResetCheckSum : BOOLEAN, area : Area, more : BOOLEAN]]
    BY <1>2, SaveMainIs DEF ConfigInv, ConfigTypeOK
  <1>3. ConfigTypeOK'
    BY <1>1, <1>2, <1>b, <1>d DEF ConfigInv, ConfigTypeOK, Place, Saving
  <1>4. \A u \in Actor : pc'[u] = IF u = t THEN q ELSE pc[u]
    BY <1>2 DEF ConfigInv, ConfigTypeOK
  <1>c. \A u \in Actor : call'[u] = call[u] \/ (pc'[u] = "idle" /\ call'[u] = SaveMain)
    <2>1. CASE q = "idle"
      BY <1>2, <1>4, <2>1 DEF ConfigInv, ConfigTypeOK
    <2>. QED
      BY <1>2, <2>1
  <1>5. power # "off" /\ (t = Main => power = "boot") /\ (t # Main => power = "up")
    BY <1>1, Busy DEF ConfigInv
  <1>6. PhaseInv'
    BY <1>1, <1>2, <1>b, <1>c, <1>e, <1>4, <1>5, Cast DEF ConfigInv, PhaseInv, SaveMain, Call
  <1>7. MutexInv'
    BY <1>1, <1>2, <1>b, <1>c, <1>e, <1>4 DEF ConfigInv, MutexInv, Saving
  <1>8. SumInv'
    <2>1. asked = "no" => q = "sum"
      BY <1>1, <1>2 DEF ConfigInv, KeptInv
    <2>. QED
      BY <1>1, <1>4, <2>1 DEF ConfigInv, SumInv
  <1>9. CacheInv'
    BY <1>1, <1>2, <1>b, <1>c, <1>e, <1>4 DEF ConfigInv, CacheInv, Cached, Saving
  <1>10. KeptInv'
    BY <1>1, <1>2, <1>b, <1>c, <1>e, <1>4, <1>5, Cast DEF ConfigInv, KeptInv, Good, PhaseInv
  <1>11. FailInv'
    BY <1>1, <1>2, <1>b, <1>c, <1>e, <1>4, <1>5, Cast DEF ConfigInv, FailInv, Cached, Saving
  <1>12. CutsInv'
    BY <1>1, <1>2, <1>b, <1>c, <1>e, <1>4, <1>5, Cast DEF ConfigInv, CutsInv, KeptInv, PhaseInv, Cached, Saving
  <1>13. ResetInv'
    <2>. SUFFICES ASSUME asked # "no", ~overlap' PROVE ResetInv'
      BY <1>1 DEF ResetInv
    <2>1. power = "up"
      BY <1>5 DEF ConfigInv, ConfigTypeOK, PhaseInv
    <2>2. q # "sum"
      BY <1>2, <1>b, <1>e, <2>1 DEF ConfigInv, ConfigTypeOK, ResetInv
    <2>3. s_bNotResetCheckSum => s_bNotResetCheckSum'
      BY <1>2, <2>2
    <2>4. \A u \in Actor : /\ pc'[u] \in Cached => pc[u] \in Cached /\ call'[u] = call[u]
                           /\ pc'[u] \in {"lock"} \cup Saving =>
                                s_bNotResetCheckSum' \/ (pc[u] \in {"lock"} \cup Saving /\ call'[u] = call[u])
                           /\ pc'[u] \notin {"sum", "assign"} \/ pc'[u] = pc[u]
      BY <1>1, <1>2, <1>c, <1>4, <2>2 DEF Cached, Saving
    <2>. QED
      BY <1>1, <1>b, <2>1, <2>3, <2>4 DEF ConfigInv, ResetInv, IsSpoilt
  <1>14. FreshInv'
    <2>1. asked = "no" => q = "sum" /\ call' = call
      BY <1>1, <1>2 DEF ConfigInv, KeptInv
    <2>. QED
      BY <1>1, <1>4, <2>1, Cast DEF ConfigInv, FreshInv, Newest, Pending, LastSave, Cached, Saving
  <1>. QED
    BY <1>3, <1>6, <1>7, <1>8, <1>9, <1>10, <1>11, <1>12, <1>13, <1>14 DEF ConfigInv

\* GetConfigCheckSum: the sum is that of the settings now in memory.
LEMMA ComputeSumKeeps ==
  ASSUME ConfigInv, NEW t \in Actor, ComputeSum(t)
  PROVE  ConfigInv'
  <1>1. /\ pc[t] = "sum" /\ MayRun(t) /\ pc' = [pc EXCEPT ![t] = "assign"]
        /\ UNCHANGED <<power, g_ConfigParam, flash, cache, mutex, s_bNotResetCheckSum, call, ResetFlag>>
        /\ UNCHANGED <<cuts, boots, saved, raced, asked, overlap>>
    BY DEF ComputeSum, Go, hist
  <1>2. /\ sum' = [sum EXCEPT ![t] = g_ConfigParam.data] /\ g_ConfigParam.data \in Settings
        /\ \A u \in Actor : sum'[u] = IF u = t THEN g_ConfigParam.data ELSE sum[u]
    BY DEF ComputeSum, GetConfigCheckSum, ConfigInv, ConfigTypeOK, Param
  <1>3. ConfigTypeOK'
    BY <1>1, <1>2 DEF ConfigInv, ConfigTypeOK, Place, Saving
  <1>4. \A u \in Actor : pc'[u] = IF u = t THEN "assign" ELSE pc[u]
    BY <1>1 DEF ConfigInv, ConfigTypeOK
  <1>5. power # "off" /\ (t = Main => power = "boot") /\ (t # Main => power = "up")
    BY <1>1, Busy DEF ConfigInv
  <1>6. PhaseInv'
    BY <1>1, <1>2, <1>4, <1>5, Cast DEF ConfigInv, PhaseInv, SaveMain, Call
  <1>7. MutexInv'
    BY <1>1, <1>2, <1>4 DEF ConfigInv, MutexInv, Saving
  <1>8. SumInv'
    BY <1>1, <1>2, <1>4 DEF ConfigInv, SumInv
  <1>9. CacheInv'
    BY <1>1, <1>2, <1>4 DEF ConfigInv, CacheInv, Cached, Saving
  <1>10. KeptInv'
    BY <1>1, <1>2, <1>4, <1>5, Cast DEF ConfigInv, KeptInv, Good, PhaseInv
  <1>11. FailInv'
    BY <1>1, <1>2, <1>4, <1>5, Cast DEF ConfigInv, FailInv, Cached, Saving
  <1>12. CutsInv'
    BY <1>1, <1>2, <1>4, <1>5, Cast DEF ConfigInv, CutsInv, KeptInv, PhaseInv, Cached, Saving
  <1>13. ResetInv'
    BY <1>1, <1>2, <1>4, <1>5, Cast DEF ConfigInv, ResetInv, PhaseInv, IsSpoilt, Cached, Saving
  <1>14. FreshInv'
    BY <1>1, <1>2, <1>4, <1>5, Cast DEF ConfigInv, FreshInv, Newest, Pending, LastSave, Cached, Saving
  <1>. QED
    BY <1>3, <1>6, <1>7, <1>8, <1>9, <1>10, <1>11, <1>12, <1>13, <1>14 DEF ConfigInv

\* The sum that is stored is still that of the settings, if there was no race.
LEMMA AssignSumKeeps ==
  ASSUME ConfigInv, NEW t \in Actor, AssignSum(t)
  PROVE  ConfigInv'
  <1>1. /\ pc[t] = "assign" /\ MayRun(t) /\ pc' = [pc EXCEPT ![t] = "lock"]
        /\ UNCHANGED <<power, flash, cache, mutex, s_bNotResetCheckSum, call, ResetFlag>>
        /\ UNCHANGED <<cuts, boots, saved, raced, asked, overlap>>
    BY DEF AssignSum, Go, hist
  <1>2. /\ sum' = [sum EXCEPT ![t] = Spoilt] /\ \A u \in Actor \ {t} : sum'[u] = sum[u]
        /\ g_ConfigParam' \in Param /\ g_ConfigParam'.data = g_ConfigParam.data
        /\ g_ConfigParam'.ucFailTime = g_ConfigParam.ucFailTime
        /\ g_ConfigParam'.ulCheckSum = sum[t]
    BY DEF AssignSum, ConfigInv, ConfigTypeOK, Param
  <1>3. ConfigTypeOK'
    BY <1>1, <1>2 DEF ConfigInv, ConfigTypeOK, Place, Saving
  <1>4. \A u \in Actor : pc'[u] = IF u = t THEN "lock" ELSE pc[u]
    BY <1>1 DEF ConfigInv, ConfigTypeOK
  <1>5. power # "off" /\ (t = Main => power = "boot") /\ (t # Main => power = "up")
    BY <1>1, Busy DEF ConfigInv
  <1>6. PhaseInv'
    BY <1>1, <1>2, <1>4, <1>5, Cast DEF ConfigInv, PhaseInv, SaveMain, Call
  <1>7. MutexInv'
    BY <1>1, <1>2, <1>4 DEF ConfigInv, MutexInv, Saving
  <1>8. SumInv'
    BY <1>1, <1>2, <1>4 DEF ConfigInv, SumInv
  <1>9. CacheInv'
    BY <1>1, <1>2, <1>4 DEF ConfigInv, CacheInv, Cached, Saving
  <1>10. KeptInv'
    BY <1>1, <1>2, <1>4, <1>5, Cast DEF ConfigInv, KeptInv, Good, PhaseInv
  <1>11. FailInv'
    BY <1>1, <1>2, <1>4, <1>5, Cast DEF ConfigInv, FailInv, Cached, Saving
  <1>12. CutsInv'
    BY <1>1, <1>2, <1>4, <1>5, Cast DEF ConfigInv, CutsInv, KeptInv, PhaseInv, Cached, Saving
  <1>13. ResetInv'
    BY <1>1, <1>2, <1>4, <1>5, Cast DEF ConfigInv, ResetInv, PhaseInv, IsSpoilt, Cached, Saving
  <1>14. FreshInv'
    BY <1>1, <1>2, <1>4, <1>5, Cast DEF ConfigInv, FreshInv, Newest, Pending, LastSave, Cached, Saving
  <1>. QED
    BY <1>3, <1>6, <1>7, <1>8, <1>9, <1>10, <1>11, <1>12, <1>13, <1>14 DEF ConfigInv

\* g_ptmConfigParam is taken.
LEMMA LockKeeps ==
  ASSUME ConfigInv, NEW t \in Actor, Lock(t)
  PROVE  ConfigInv'
  <1>1. /\ pc[t] = "lock" /\ MayRun(t) /\ pc' = [pc EXCEPT ![t] = "copy"]
        /\ UNCHANGED <<power, g_ConfigParam, flash, cache, s_bNotResetCheckSum, call, sum, ResetFlag>>
        /\ UNCHANGED <<cuts, boots, saved, raced, asked, overlap>>
    BY DEF Lock, Go, hist
  <1>2. mutex = NoThread /\ mutex' = t
    BY DEF Lock
  <1>3. ConfigTypeOK'
    BY <1>1, <1>2 DEF ConfigInv, ConfigTypeOK, Place, Saving
  <1>4. \A u \in Actor : pc'[u] = IF u = t THEN "copy" ELSE pc[u]
    BY <1>1 DEF ConfigInv, ConfigTypeOK
  <1>5. power # "off" /\ (t = Main => power = "boot") /\ (t # Main => power = "up")
    BY <1>1, Busy DEF ConfigInv
  <1>6. PhaseInv'
    BY <1>1, <1>2, <1>4, <1>5, Cast DEF ConfigInv, PhaseInv, SaveMain, Call
  <1>7. MutexInv'
    BY <1>1, <1>2, <1>4, Cast DEF ConfigInv, MutexInv, Saving
  <1>8. SumInv'
    BY <1>1, <1>2, <1>4 DEF ConfigInv, SumInv
  <1>9. CacheInv'
    BY <1>1, <1>2, <1>4 DEF ConfigInv, CacheInv, Cached, Saving
  <1>10. KeptInv'
    BY <1>1, <1>2, <1>4, <1>5, Cast DEF ConfigInv, KeptInv, Good, PhaseInv
  <1>11. FailInv'
    BY <1>1, <1>2, <1>4, <1>5, Cast DEF ConfigInv, FailInv, Cached, Saving
  <1>12. CutsInv'
    BY <1>1, <1>2, <1>4, <1>5, Cast DEF ConfigInv, CutsInv, KeptInv, PhaseInv, Cached, Saving
  <1>13. ResetInv'
    BY <1>1, <1>2, <1>4, <1>5, Cast DEF ConfigInv, ResetInv, PhaseInv, IsSpoilt, Cached, Saving
  <1>14. FreshInv'
    BY <1>1, <1>2, <1>4, <1>5, Cast DEF ConfigInv, FreshInv, Newest, Pending, LastSave, Cached, Saving
  <1>. QED
    BY <1>3, <1>6, <1>7, <1>8, <1>9, <1>10, <1>11, <1>12, <1>13, <1>14 DEF ConfigInv

\* usiMyWrite: the settings go into the copy of the sector in memory.
LEMMA CopyKeeps ==
  ASSUME ConfigInv, NEW t \in Actor, Copy(t)
  PROVE  ConfigInv'
  <1>1. /\ pc[t] = "copy" /\ MayRun(t) /\ pc' = [pc EXCEPT ![t] = "erase"]
        /\ UNCHANGED <<power, g_ConfigParam, flash, mutex, s_bNotResetCheckSum, call, sum, ResetFlag>>
        /\ UNCHANGED <<cuts, boots, saved, raced, asked, overlap>>
    BY DEF Copy, Go, hist
  <1>2. /\ cache' \in Copies /\ cache' # Erased /\ g_ConfigParam # Erased
        /\ call[t].area \in Area
        /\ \A a \in Area : cache'[a] = IF a = call[t].area THEN g_ConfigParam ELSE flash[a]
    BY NothingAssumption DEF Copy, ConfigInv, ConfigTypeOK, Copies
  <1>0. \A u \in Actor \ {t} : pc[u] \notin Saving
    BY <1>1, OneSaves DEF ConfigInv, Saving
  <1>3. ConfigTypeOK'
    BY <1>1, <1>2 DEF ConfigInv, ConfigTypeOK, Place, Saving
  <1>4. \A u \in Actor : pc'[u] = IF u = t THEN "erase" ELSE pc[u]
    BY <1>1 DEF ConfigInv, ConfigTypeOK
  <1>5. power # "off" /\ (t = Main => power = "boot") /\ (t # Main => power = "up")
    BY <1>1, Busy DEF ConfigInv
  <1>6. PhaseInv'
    BY <1>1, <1>2, <1>4, <1>5, Cast DEF ConfigInv, PhaseInv, SaveMain, Call
  <1>7. MutexInv'
    BY <1>1, <1>2, <1>4 DEF ConfigInv, MutexInv, Saving
  <1>8. SumInv'
    BY <1>1, <1>2, <1>4 DEF ConfigInv, SumInv
  <1>9. CacheInv'
    BY <1>0, <1>1, <1>2, <1>4 DEF ConfigInv, CacheInv, Cached, Saving
  <1>10. KeptInv'
    BY <1>0, <1>1, <1>2, <1>4, <1>5, Cast DEF ConfigInv, KeptInv, SumInv, Good, Valid, GetConfigCheckSum, PhaseInv, SaveMain, Call, Area, Saving
  <1>11. FailInv'
    <2>1. t = Prd => ResetFlag = "ran" /\ call[t].area = "main"
      BY <1>1 DEF ConfigInv, ConfigTypeOK, PhaseInv, SaveMain, Call
    <2>. QED
      BY <1>0, <1>1, <1>2, <1>4, <1>5, <2>1, Cast DEF ConfigInv, FailInv, Area, Cached, Saving
  <1>12. CutsInv'
    BY <1>0, <1>1, <1>2, <1>4, <1>5, Cast DEF ConfigInv, CutsInv, PhaseInv, SaveMain, Call, Area, Cached, Saving
  <1>13. ResetInv'
    BY <1>0, <1>1, <1>2, <1>4, <1>5, Cast DEF ConfigInv, ResetInv, PhaseInv, IsSpoilt, Area, Cached, Saving
  <1>14. FreshInv'
    BY <1>0, <1>1, <1>2, <1>4, <1>5, SaveMainIs, Cast DEF ConfigInv, CacheInv, FreshInv, Newest, Pending, LastSave, Cached, Saving, Area
  <1>. QED
    BY <1>3, <1>6, <1>7, <1>8, <1>9, <1>10, <1>11, <1>12, <1>13, <1>14 DEF ConfigInv

\* The sector is erased; both copies are in memory only.
LEMMA EraseKeeps ==
  ASSUME ConfigInv, NEW t \in Actor, Erase(t)
  PROVE  ConfigInv'
  <1>1. /\ pc[t] = "erase" /\ MayRun(t) /\ pc' = [pc EXCEPT ![t] = "main"]
        /\ UNCHANGED <<power, g_ConfigParam, cache, mutex, s_bNotResetCheckSum, call, sum, ResetFlag>>
        /\ UNCHANGED <<cuts, boots, saved, raced, asked, overlap>>
    BY DEF Erase, Go, hist
  <1>2. /\ flash' \in Copies /\ \A a \in Area : flash'[a] = Erased
        /\ "main" \in Area
    BY DEF Erase, Copies, Area
  <1>0. \A u \in Actor \ {t} : pc[u] \notin Saving
    BY <1>1, OneSaves DEF ConfigInv, Saving
  <1>3. ConfigTypeOK'
    BY <1>1, <1>2 DEF ConfigInv, ConfigTypeOK, Place, Saving
  <1>4. \A u \in Actor : pc'[u] = IF u = t THEN "main" ELSE pc[u]
    BY <1>1 DEF ConfigInv, ConfigTypeOK
  <1>5. power # "off" /\ (t = Main => power = "boot") /\ (t # Main => power = "up")
    BY <1>1, Busy DEF ConfigInv
  <1>6. PhaseInv'
    BY <1>1, <1>2, <1>4, <1>5, Cast DEF ConfigInv, PhaseInv, SaveMain, Call
  <1>7. MutexInv'
    BY <1>1, <1>2, <1>4 DEF ConfigInv, MutexInv, Saving
  <1>8. SumInv'
    BY <1>1, <1>2, <1>4 DEF ConfigInv, SumInv
  <1>9. CacheInv'
    BY <1>0, <1>1, <1>2, <1>4 DEF ConfigInv, CacheInv, Cached, Saving
  <1>10. KeptInv'
    BY <1>1, <1>2, <1>4, <1>5, Cast DEF ConfigInv, KeptInv, Good, PhaseInv
  <1>11. FailInv'
    BY <1>1, <1>2, <1>4, <1>5, Cast DEF ConfigInv, FailInv, Cached, Saving
  <1>12. CutsInv'
    BY <1>1, <1>2, <1>4, <1>5, Cast DEF ConfigInv, CutsInv, KeptInv, PhaseInv, Cached, Saving
  <1>13. ResetInv'
    BY <1>1, <1>2, <1>4, <1>5, Cast DEF ConfigInv, ResetInv, PhaseInv, IsSpoilt, Cached, Saving
  <1>14. FreshInv'
    BY <1>0, <1>1, <1>2, <1>4, <1>5, Cast DEF ConfigInv, CacheInv, FreshInv, Newest, Pending, LastSave, Cached, Saving
  <1>. QED
    BY <1>3, <1>6, <1>7, <1>8, <1>9, <1>10, <1>11, <1>12, <1>13, <1>14 DEF ConfigInv

\* The pages of a copy are written, the main copy first.
LEMMA WritePagesKeeps ==
  ASSUME ConfigInv, NEW t \in Actor, WritePages(t)
  PROVE  ConfigInv'
  <1>1. /\ pc[t] \in Area /\ MayRun(t) /\ pc[t] \in Saving
        /\ pc' = [pc EXCEPT ![t] = IF pc[t] = "main" THEN "default" ELSE "unlock"]
        /\ UNCHANGED <<power, g_ConfigParam, cache, mutex, s_bNotResetCheckSum, call, sum, ResetFlag>>
        /\ UNCHANGED <<cuts, boots, saved, raced, asked, overlap>>
    BY DEF WritePages, Go, hist, Area, Saving
  <1>0. \A u \in Actor \ {t} : pc[u] \notin Saving
    BY <1>1, OneSaves DEF ConfigInv, Saving
  <1>2. /\ flash' \in Copies /\ \A a \in Area : flash'[a] = IF a = pc[t] THEN cache[a] ELSE flash[a]
        /\ cache \in Copies
    <2>1. cache \in Copies
      BY <1>1 DEF ConfigInv, ConfigTypeOK, CacheInv, Cached, Area
    <2>. QED
      BY <1>1, <2>1 DEF WritePages, ConfigInv, ConfigTypeOK, Copies
  <1>3. ConfigTypeOK'
    BY <1>1, <1>2 DEF ConfigInv, ConfigTypeOK, Place, Saving
  <1>4. \A u \in Actor : pc'[u] = IF u = t THEN (IF pc[t] = "main" THEN "default" ELSE "unlock") ELSE pc[u]
    BY <1>1 DEF ConfigInv, ConfigTypeOK
  <1>5. power # "off" /\ (t = Main => power = "boot") /\ (t # Main => power = "up")
    BY <1>1, Busy DEF ConfigInv, Area
  <1>6. PhaseInv'
    BY <1>1, <1>2, <1>4, <1>5, Cast DEF ConfigInv, PhaseInv, SaveMain, Call, Area
  <1>7. MutexInv'
    BY <1>1, <1>2, <1>4 DEF ConfigInv, MutexInv, Saving, Area
  <1>8. SumInv'
    BY <1>1, <1>2, <1>4 DEF ConfigInv, SumInv, Area
  <1>9. CacheInv'
    BY <1>0, <1>1, <1>2, <1>4 DEF ConfigInv, CacheInv, Cached, Saving, Area, Copies
  <1>10. KeptInv'
    BY <1>0, <1>1, <1>2, <1>4, <1>5, Cast DEF ConfigInv, KeptInv, CacheInv, Good, Valid, PhaseInv, Cached, Saving, Area
  <1>11. FailInv'
    BY <1>0, <1>1, <1>2, <1>4, <1>5, Cast DEF ConfigInv, FailInv, CacheInv, Cached, Saving, Area
  <1>12. CutsInv'
    BY <1>0, <1>1, <1>2, <1>4, <1>5, Cast DEF ConfigInv, CutsInv, CacheInv, KeptInv, PhaseInv, Cached, Saving, Area
  <1>13. ResetInv'
    BY <1>0, <1>1, <1>2, <1>4, <1>5, Cast DEF ConfigInv, ResetInv, CacheInv, PhaseInv, IsSpoilt, Cached, Saving, Area
  <1>14. FreshInv'
    BY <1>0, <1>1, <1>2, <1>4, <1>5, Cast DEF ConfigInv, CacheInv, FreshInv, Newest, Pending, LastSave, Cached, Saving, Area
  <1>. QED
    BY <1>3, <1>6, <1>7, <1>8, <1>9, <1>10, <1>11, <1>12, <1>13, <1>14 DEF ConfigInv

\* The mutex is given up: the sector is in flash as it was in memory.
LEMMA UnlockKeeps ==
  ASSUME ConfigInv, NEW t \in Actor, Unlock(t)
  PROVE  ConfigInv'
  <1>1. /\ pc[t] = "unlock" /\ MayRun(t)
        /\ UNCHANGED <<power, g_ConfigParam, flash, s_bNotResetCheckSum, sum, ResetFlag>>
        /\ UNCHANGED <<cuts, overlap>>
        /\ cache' = Erased /\ mutex' = NoThread
        /\ asked' = (IF call[t].bResetCheckSum THEN asked ELSE "done")
        /\ boots' = (IF t = Prd THEN 0 ELSE boots)
    BY DEF Unlock, Go, hist
  <1>2. PICK q \in {"idle", "spoil"} :
          /\ pc' = [pc EXCEPT ![t] = q]
          /\ q = "spoil" => call[t].more /\ call' = call
          /\ q = "idle" => ~call[t].more /\ call' = [call EXCEPT ![t] = SaveMain]
    BY DEF Unlock, Return, Go
  <1>4. \A u \in Actor : pc'[u] = IF u = t THEN q ELSE pc[u]
    BY <1>2 DEF ConfigInv, ConfigTypeOK
  <1>5. power # "off" /\ (t = Main => power = "boot") /\ (t # Main => power = "up")
    BY <1>1, Busy DEF ConfigInv
  <1>0. \A u \in Actor \ {t} : pc[u] \notin Saving
    BY <1>1, OneSaves DEF ConfigInv, Saving
  <1>a. /\ cache # Erased /\ flash = cache /\ call[t].area \in Area
        /\ flash[call[t].area] # Erased
    BY <1>1 DEF ConfigInv, ConfigTypeOK, CacheInv, Cached, Saving
  <1>b. saved' \subseteq Settings /\ g_ConfigParam.data \in saved'
        /\ (saved' = saved \/ (saved' = {g_ConfigParam.data} /\ LastSave(t)))
    BY <1>5 DEF Unlock, ConfigInv, ConfigTypeOK, KeptInv, Param
  <1>c. /\ \A u \in Actor : call'[u] = call[u] \/ (pc'[u] = "idle" /\ call'[u] = SaveMain)
        /\ call' \in [Actor -> [bResetCheckSum : BOOLEAN, area : Area, more : BOOLEAN]]
    <2>1. CASE q = "idle"
      BY <1>2, <1>4, <2>1, SaveMainIs DEF ConfigInv, ConfigTypeOK
    <2>2. CASE q = "spoil"
      BY <1>2, <2>2 DEF ConfigInv, ConfigTypeOK
    <2>. QED
      BY <2>1, <2>2
  <1>d. raced' \in BOOLEAN
    BY Zenon DEF Unlock, ConfigInv, ConfigTypeOK
  <1>e. ~raced' => ~raced \/ (LastSave(t) /\ Valid(g_ConfigParam))
    BY Zenon DEF Unlock
  <1>h. raced' => raced
    BY Zenon DEF Unlock
  <1>g. asked' \in {asked, "done"} /\ boots' \in 0..3
    BY <1>1 DEF ConfigInv, ConfigTypeOK
  <1>f. power = "up" /\ asked = "no" /\ LastSave(t) => flash["main"] = g_ConfigParam
    BY <1>1, <1>a DEF ConfigInv, FreshInv, Cached, Saving
  <1>3. ConfigTypeOK'
    BY <1>1, <1>2, <1>b, <1>c, <1>d, <1>g DEF ConfigInv, ConfigTypeOK, Place
  <1>6. PhaseInv'
    BY <1>h, <1>1, <1>2, <1>c, <1>4, <1>5, Cast DEF ConfigInv, PhaseInv, SaveMain, Call
  <1>7. MutexInv'
    BY <1>0, <1>1, <1>2, <1>4, Cast DEF ConfigInv, MutexInv, Saving
  <1>8. SumInv'
    <2>1. CASE \A u \in Actor : pc'[u] \notin {"assign", "lock", "copy"}
      BY <2>1 DEF SumInv
    <2>2. CASE ~raced /\ asked = "no"
      BY <1>1, <1>2, <1>4, <2>2 DEF ConfigInv, SumInv
    <2>3. LastSave(t) => \A u \in Actor : pc'[u] \notin {"assign", "lock", "copy"}
      BY <1>2, <1>4 DEF LastSave
    <2>. QED
      BY <1>1, <1>e, <2>1, <2>2, <2>3 DEF SumInv
  <1>9. CacheInv'
    BY <1>0, <1>1, <1>2, <1>4 DEF ConfigInv, CacheInv, Cached, Saving
  <1>10. KeptInv'
    <2>1. asked = "no" => call[t].bResetCheckSum
      BY <1>1 DEF ConfigInv, KeptInv
    <2>2. asked = "no" => flash["main"] # Erased /\ Good(flash["main"])
      BY <1>a DEF ConfigInv, KeptInv
    <2>3. asked = "no" => flash["main"].data \in saved'
      <3>1. CASE LastSave(t) /\ power = "up"
        BY <1>b, <1>f, <3>1
      <3>2. CASE saved' = saved
        BY <2>2, <3>2 DEF Good
      <3>3. CASE power = "boot"
        BY <1>1, <1>b, <2>2, <3>3 DEF ConfigInv, KeptInv, Good
      <3>. QED
        BY <1>5, <1>b, <3>1, <3>2, <3>3
    <2>4. asked = "no" => Valid(flash["main"]) \/ raced'
      <3>1. CASE ~raced
        BY <2>2, <3>1 DEF Good
      <3>2. CASE power = "up" /\ LastSave(t) /\ Valid(g_ConfigParam)
        BY <1>f, <3>2
      <3>3. power = "boot" => ~raced
        BY DEF ConfigInv, PhaseInv
      <3>. QED
        BY <1>5, <1>e, <3>1, <3>2, <3>3
    <2>5. asked' = "no" => asked = "no"
      BY <1>1
    <2>6. power = "boot" => saved' = {g_ConfigParam.data}
      BY <1>b DEF ConfigInv, KeptInv
    <2>. QED
      BY <1>0, <1>1, <1>2, <1>4, <1>5, <1>b, <1>c, <2>1, <2>2, <2>3, <2>4, <2>5, <2>6, Cast
      DEF ConfigInv, KeptInv, Good, Valid, GetConfigCheckSum, Saving, SaveMain, Call
  <1>11. FailInv'
    <2>1. t = Prd => ResetFlag = "ran" /\ flash["main"].ucFailTime = 0
      BY <1>1, <1>a DEF ConfigInv, ConfigTypeOK, PhaseInv, FailInv, Cached, Saving
    <2>. QED
      BY <1>0, <1>1, <1>2, <1>c, <1>4, <1>5, <1>a, <2>1, Cast DEF ConfigInv, FailInv, Cached, Saving
  <1>12. CutsInv'
    BY <1>1, <1>2, <1>c, <1>4, <1>5, Cast DEF ConfigInv, CutsInv, PhaseInv, SaveMain, Call, Cached, Saving
  <1>13. ResetInv'
    BY <1>0, <1>1, <1>2, <1>c, <1>4, <1>5, <1>a, Cast
    DEF ConfigInv, ResetInv, KeptInv, PhaseInv, IsSpoilt, Cached, Saving
  <1>14. FreshInv'
    BY <1>0, <1>1, <1>2, <1>a, <1>c, <1>4, <1>5, Cast DEF KeptInv, ConfigInv, FreshInv, Newest, Pending, LastSave, Cached, Saving
  <1>. QED
    BY <1>3, <1>6, <1>7, <1>8, <1>9, <1>10, <1>11, <1>12, <1>13, <1>14 DEF ConfigInv

------------------------------------------------------------------------------
(* Requests *)

\* The checksum is spoilt; a save that may still repair it is an overlap.
LEMMA SpoilKeeps ==
  ASSUME ConfigInv, NEW t \in Actor, Spoil(t)
  PROVE  ConfigInv'
  <1>1. /\ pc[t] = "spoil" /\ MayRun(t) /\ pc' = [pc EXCEPT ![t] = "check"]
        /\ call' = [call EXCEPT ![t] = Call(FALSE, "main", FALSE)]
        /\ UNCHANGED <<power, flash, cache, mutex, s_bNotResetCheckSum, sum, ResetFlag>>
        /\ UNCHANGED <<cuts, boots, saved, raced>>
        /\ overlap' = (overlap \/ \E u \in Actor : pc[u] \in {"sum", "assign"})
        /\ asked' = (IF asked = "no" THEN "begun" ELSE asked)
    BY DEF Spoil, Go, hist
  <1>2. /\ g_ConfigParam' \in Param /\ g_ConfigParam'.data = g_ConfigParam.data
        /\ g_ConfigParam'.ucFailTime = g_ConfigParam.ucFailTime
        /\ g_ConfigParam'.ulCheckSum = Spoilt
    BY DEF Spoil, ConfigInv, ConfigTypeOK, Param
  <1>4. /\ \A u \in Actor : pc'[u] = IF u = t THEN "check" ELSE pc[u]
        /\ \A u \in Actor : call'[u] = IF u = t THEN Call(FALSE, "main", FALSE) ELSE call[u]
    BY <1>1 DEF ConfigInv, ConfigTypeOK
  <1>5. t \in Thread /\ power = "up"
    BY <1>1, Busy, Cast DEF ConfigInv, PhaseInv
  <1>b. overlap' \in BOOLEAN
    BY <1>1, Zenon DEF ConfigInv, ConfigTypeOK
  <1>c. ~overlap' => ~overlap /\ \A u \in Actor : pc[u] \notin {"sum", "assign"}
    BY <1>1, Zenon
  <1>3. ConfigTypeOK'
    BY <1>1, <1>2, <1>b DEF ConfigInv, ConfigTypeOK, Place, Call, Area
  <1>6. PhaseInv'
    BY <1>1, <1>2, <1>4, <1>5, Cast DEF ConfigInv, PhaseInv, SaveMain, Call
  <1>7. MutexInv'
    BY <1>1, <1>2, <1>4 DEF ConfigInv, MutexInv, Saving
  <1>a. asked' # "no"
    BY <1>1 DEF ConfigInv, ConfigTypeOK
  <1>8. SumInv'
    BY <1>a DEF SumInv
  <1>9. CacheInv'
    <2>1. /\ \A u \in Actor : u # t => pc'[u] = pc[u] /\ call'[u] = call[u]
          /\ pc[t] \notin Cached /\ pc'[t] \notin Cached
      BY <1>1, <1>4 DEF Cached, Saving
    <2>2. \A u \in Actor : pc'[u] \in Cached => pc[u] \in Cached /\ pc'[u] = pc[u] /\ call'[u] = call[u]
      BY <2>1
    <2>3. \A u \in Actor : pc[u] \in Cached => pc'[u] \in Cached
      BY <2>1
    <2>4. cache' = cache /\ flash' = flash
      BY <1>1
    <2>. QED
      BY <2>2, <2>3, <2>4 DEF ConfigInv, CacheInv
  <1>10. KeptInv'
    BY <1>1, <1>2, <1>5, <1>a DEF ConfigInv, KeptInv
  <1>11. FailInv'
    BY <1>1, <1>2, <1>4, <1>5, Cast DEF ConfigInv, FailInv, Cached, Saving
  <1>12. CutsInv'
    BY <1>1, <1>2, <1>4, <1>5, Cast DEF ConfigInv, CutsInv, PhaseInv, Cached, Saving
  <1>13. ResetInv'
    <2>. SUFFICES ASSUME ~overlap' PROVE ResetInv'
      BY DEF ResetInv
    <2>1. \A u \in Actor : pc'[u] \notin {"sum", "assign"}
      BY <1>4, <1>c
    <2>2. asked = "no" => \A u \in Actor : pc[u] \in Cached => call[u].bResetCheckSum
      BY DEF ConfigInv, KeptInv, Cached, Saving
    <2>3. \A u \in Actor : pc'[u] \in Cached => pc[u] \in Cached /\ call'[u] = call[u]
      BY <1>4 DEF Cached, Saving
    <2>4. \A u \in Actor : pc'[u] \in {"lock"} \cup Saving =>
            pc[u] \in {"lock"} \cup Saving /\ call'[u] = call[u] /\ (asked = "no" => call[u].bResetCheckSum)
      BY <1>4 DEF ConfigInv, KeptInv, Saving
    <2>. QED
      BY <1>1, <1>2, <1>5, <1>c, <2>1, <2>2, <2>3, <2>4 DEF ConfigInv, ConfigTypeOK, ResetInv, IsSpoilt
  <1>14. FreshInv'
    BY <1>a DEF FreshInv
  <1>. QED
    BY <1>3, <1>6, <1>7, <1>8, <1>9, <1>10, <1>11, <1>12, <1>13, <1>14 DEF ConfigInv

\* A request may begin at any step of another.  It changes settings, if at all, in memory only.
LEMMA RequestKeeps ==
  ASSUME ConfigInv, NEW t \in Thread, NEW q \in {"check", "spoil"}, NEW c, Request(t, q, c),
         c \in [bResetCheckSum : BOOLEAN, area : Area, more : BOOLEAN],
         c.bResetCheckSum <=> q = "check", ~c.bResetCheckSum => c.area = "main",
         g_ConfigParam' \in Param, g_ConfigParam'.data \in saved',
         g_ConfigParam'.ucFailTime \in {g_ConfigParam.ucFailTime, 0},
         g_ConfigParam'.ulCheckSum \in {g_ConfigParam.ulCheckSum, Spoilt},
         saved \subseteq saved', saved' \subseteq Settings,
         raced' \in BOOLEAN, raced => raced',
         \/ g_ConfigParam' = g_ConfigParam
         \/ /\ (c.area = "main" /\ c.bResetCheckSum) \/ c.more
            /\ \A u \in Actor \ {t} : pc[u] \in {"assign", "lock", "copy"} => raced'
  PROVE  ConfigInv'
  <1>1. /\ power = "up" /\ pc[t] = "idle" /\ MayRun(t)
        /\ pc' = [pc EXCEPT ![t] = q] /\ call' = [call EXCEPT ![t] = c]
        /\ UNCHANGED <<power, flash, cache, mutex, s_bNotResetCheckSum, sum, ResetFlag>>
        /\ UNCHANGED <<cuts, boots, asked, overlap>>
    BY DEF Request, Go, hist
  <1>2. t \in Actor /\ t # Prd /\ t # Main
    BY Cast
  <1>3. /\ \A u \in Actor : pc'[u] = IF u = t THEN q ELSE pc[u]
        /\ \A u \in Actor : call'[u] = IF u = t THEN c ELSE call[u]
    BY <1>1, <1>2 DEF ConfigInv, ConfigTypeOK
  <1>4. ConfigTypeOK'
    BY <1>1, <1>3, Cast DEF ConfigInv, ConfigTypeOK, Place
  <1>6. PhaseInv'
    BY <1>1, <1>2, <1>3, Cast DEF ConfigInv, PhaseInv
  <1>7. MutexInv'
    BY <1>1, <1>2, <1>3 DEF ConfigInv, MutexInv, Saving
  <1>8. SumInv'
    BY <1>1, <1>2, <1>3 DEF ConfigInv, SumInv
  <1>9. CacheInv'
    BY <1>1, <1>2, <1>3 DEF ConfigInv, CacheInv, Cached, Saving
  <1>10. KeptInv'
    BY <1>1, <1>2, <1>3, Cast DEF ConfigInv, KeptInv, Good, Valid, GetConfigCheckSum
  <1>11. FailInv'
    BY <1>1, <1>2, <1>3, Cast DEF ConfigInv, ConfigTypeOK, Param, FailInv, Cached, Saving
  <1>12. CutsInv'
    BY <1>1, <1>2, <1>3, Cast DEF ConfigInv, CutsInv, PhaseInv, Cached, Saving
  <1>13. ResetInv'
    BY <1>1, <1>2, <1>3, Cast DEF ConfigInv, ResetInv, IsSpoilt, Cached, Saving
  <1>14. FreshInv'
    <2>1. power = "up" /\ asked = "no" => Newest'.data = g_ConfigParam'.data \/ \E u \in Thread : Pending(u)'
      <3>1. CASE g_ConfigParam' = g_ConfigParam
        BY <1>1, <1>2, <1>3, <3>1, Cast DEF ConfigInv, FreshInv, Newest, Pending
      <3>2. CASE (c.area = "main" /\ c.bResetCheckSum) \/ c.more
        BY <1>1, <1>2, <1>3, <3>2 DEF Pending
      <3>. QED
        BY <3>1, <3>2
    <2>2. ASSUME NEW u \in Actor, pc'[u] \in Cached, LastSave(u)'
          PROVE  FALSE
      <3>1. u # t
        BY <1>2, <1>3, <2>2 DEF Cached, Saving
      <3>. QED
        BY <1>2, <1>3, <2>2, <3>1 DEF LastSave
    <2>. QED
      BY <1>1, <2>1, <2>2 DEF FreshInv
  <1>. QED
    BY <1>4, <1>6, <1>7, <1>8, <1>9, <1>10, <1>11, <1>12, <1>13, <1>14 DEF ConfigInv

LEMMA DefaultParam ==
  /\ InitDefaultParam \in Param /\ InitDefaultParam.data = Builtin /\ Builtin \in Settings
  /\ InitDefaultParam.ucFailTime = 0 /\ InitDefaultParam.ulCheckSum = Spoilt
  BY ValueAssumption DEF InitDefaultParam, Param, Builtin, Settings

LEMMA SetConfigKeeps ==
  ASSUME ConfigInv, NEW t \in Thread, NEW v \in Value, SetConfig(t, v)
  PROVE  ConfigInv'
  <1>1. /\ Request(t, "check", SaveMain)
        /\ g_ConfigParam' = [g_ConfigParam EXCEPT !.data[t] = v]
        /\ saved' = saved \cup {g_ConfigParam'.data}
        /\ raced' = (raced \/ \E u \in Actor \ {t} : pc[u] \in {"assign", "lock", "copy"})
    BY DEF SetConfig, Change
  <1>2. g_ConfigParam \in Param /\ saved \subseteq Settings
    BY DEF ConfigInv, ConfigTypeOK
  <1>3. /\ g_ConfigParam' \in Param /\ g_ConfigParam'.data \in Settings
        /\ g_ConfigParam'.ucFailTime = g_ConfigParam.ucFailTime
        /\ g_ConfigParam'.ulCheckSum = g_ConfigParam.ulCheckSum
    BY <1>1, <1>2 DEF Param, Settings
  <1>4. /\ SaveMain \in [bResetCheckSum : BOOLEAN, area : Area, more : BOOLEAN]
        /\ SaveMain.bResetCheckSum /\ SaveMain.area = "main"
    BY DEF SaveMain, Call, Area
  <1>5. /\ raced' \in BOOLEAN /\ (raced => raced')
        /\ \A u \in Actor \ {t} : pc[u] \in {"assign", "lock", "copy"} => raced'
    BY <1>1, Zenon
  <1>. QED
    BY <1>1, <1>2, <1>3, <1>4, <1>5, RequestKeeps

LEMMA SetFactoryDefaultKeeps ==
  ASSUME ConfigInv, NEW t \in Thread, SetFactoryDefault(t)
  PROVE  ConfigInv'
  <1>1. /\ Request(t, "spoil", Call(FALSE, "main", FALSE)) /\ UNCHANGED <<g_ConfigParam, saved, raced>>
    BY DEF SetFactoryDefault
  <1>2. g_ConfigParam \in Param /\ saved \subseteq Settings /\ g_ConfigParam.data \in saved /\ raced \in BOOLEAN
    BY <1>1 DEF ConfigInv, ConfigTypeOK, KeptInv, Request
  <1>3. /\ Call(FALSE, "main", FALSE) \in [bResetCheckSum : BOOLEAN, area : Area, more : BOOLEAN]
        /\ ~Call(FALSE, "main", FALSE).bResetCheckSum /\ Call(FALSE, "main", FALSE).area = "main"
    BY DEF Call, Area
  <1>. QED
    BY <1>1, <1>2, <1>3, RequestKeeps

LEMMA UpdateFactoryDefaultKeeps ==
  ASSUME ConfigInv, NEW t \in Thread, UpdateFactoryDefault(t)
  PROVE  ConfigInv'
  <1>1. /\ Request(t, "check", Call(TRUE, "default", FALSE)) /\ UNCHANGED <<g_ConfigParam, saved, raced>>
    BY DEF UpdateFactoryDefault
  <1>2. g_ConfigParam \in Param /\ saved \subseteq Settings /\ g_ConfigParam.data \in saved /\ raced \in BOOLEAN
    BY <1>1 DEF ConfigInv, ConfigTypeOK, KeptInv, Request
  <1>3. /\ Call(TRUE, "default", FALSE) \in [bResetCheckSum : BOOLEAN, area : Area, more : BOOLEAN]
        /\ Call(TRUE, "default", FALSE).bResetCheckSum
    BY DEF Call, Area
  <1>. QED
    BY <1>1, <1>2, <1>3, RequestKeeps

LEMMA SetDefaultMacKeeps ==
  ASSUME ConfigInv, NEW t \in Thread, SetDefaultMac(t)
  PROVE  ConfigInv'
  <1>1. /\ Request(t, "check", Call(TRUE, "default", TRUE)) /\ g_ConfigParam' = InitDefaultParam
        /\ saved' = saved \cup {InitDefaultParam.data}
        /\ raced' = (raced \/ \E u \in Actor \ {t} : pc[u] \in {"assign", "lock", "copy"})
    BY DEF SetDefaultMac, Change
  <1>2. saved \subseteq Settings
    BY DEF ConfigInv, ConfigTypeOK
  <1>3. /\ Call(TRUE, "default", TRUE) \in [bResetCheckSum : BOOLEAN, area : Area, more : BOOLEAN]
        /\ Call(TRUE, "default", TRUE).bResetCheckSum /\ Call(TRUE, "default", TRUE).more
    BY DEF Call, Area
  <1>5. /\ raced' \in BOOLEAN /\ (raced => raced')
        /\ \A u \in Actor \ {t} : pc[u] \in {"assign", "lock", "copy"} => raced'
    BY <1>1, Zenon
  <1>. QED
    BY <1>1, <1>2, <1>3, <1>5, DefaultParam, RequestKeeps

------------------------------------------------------------------------------
(* The clearing task, the boot and the end of a power-on *)

\* The task may come at any step of a request; it changes no setting.
LEMMA ResetFlagKeeps ==
  ASSUME ConfigInv, prdTask_ResetFlag_FactoryDefault
  PROVE  ConfigInv'
  <1>1. /\ ResetFlag = "armed" /\ ResetFlag' = "ran"
        /\ pc' = [pc EXCEPT ![Prd] = "check"] /\ call' = [call EXCEPT ![Prd] = SaveMain]
        /\ UNCHANGED <<power, flash, cache, mutex, s_bNotResetCheckSum, sum>>
        /\ UNCHANGED <<cuts, boots, saved, raced, asked, overlap>>
    BY DEF prdTask_ResetFlag_FactoryDefault, Go, hist
  <1>2. /\ g_ConfigParam' \in Param /\ g_ConfigParam'.data = g_ConfigParam.data
        /\ g_ConfigParam'.ucFailTime = 0
        /\ g_ConfigParam'.ulCheckSum = g_ConfigParam.ulCheckSum
    BY DEF prdTask_ResetFlag_FactoryDefault, ConfigInv, ConfigTypeOK, Param
  <1>3. power = "up" /\ pc[Prd] = "idle"
    BY <1>1 DEF ConfigInv, PhaseInv
  <1>4. \A u \in Actor : pc'[u] = IF u = Prd THEN "check" ELSE pc[u]
    BY <1>1 DEF ConfigInv, ConfigTypeOK
  <1>5. call' = call
    BY <1>1, Cast DEF ConfigInv, ConfigTypeOK, PhaseInv
  <1>. QED
    <2>1. ConfigTypeOK'
      BY <1>1, <1>2, <1>5 DEF ConfigInv, ConfigTypeOK, Place
    <2>2. PhaseInv'
      BY <1>1, <1>3, <1>4, <1>5, Cast DEF ConfigInv, PhaseInv
    <2>3. MutexInv'
      BY <1>1, <1>3, <1>4 DEF ConfigInv, MutexInv, Saving
    <2>4. SumInv'
      BY <1>1, <1>2, <1>4, <1>5 DEF ConfigInv, SumInv
    <2>5. CacheInv'
      BY <1>1, <1>2, <1>3, <1>4, <1>5 DEF ConfigInv, CacheInv, Cached, Saving
    <2>6. KeptInv'
      BY <1>1, <1>2, <1>3, <1>4, <1>5, Cast DEF ConfigInv, KeptInv, Good, PhaseInv, SaveMain, Call
    <2>7. FailInv'
      BY <1>1, <1>2, <1>4, Cast DEF ConfigInv, ConfigTypeOK, FailInv, Cached, Saving
    <2>8. CutsInv'
      BY <1>1, <1>3, <1>4, Cast DEF ConfigInv, PhaseInv, CutsInv
    <2>9. ResetInv'
      BY <1>1, <1>2, <1>3, <1>4, <1>5, Cast DEF ConfigInv, ResetInv, IsSpoilt, Cached, Saving
    <2>10. FreshInv'
      BY <1>1, <1>2, <1>3, <1>4, <1>5, Cast DEF ConfigInv, FreshInv, Newest, Pending, LastSave, Cached, Saving
    <2>. QED
      BY <2>1, <2>2, <2>3, <2>4, <2>5, <2>6, <2>7, <2>8, <2>9, <2>10 DEF ConfigInv

\* What ReadCameraParam makes of what is in flash.
LEMMA LoadIs ==
  ASSUME NEW p \in Param \cup {Erased}
  PROVE  /\ Load(p) \in Param
         /\ Valid(p) /\ p.ucFailTime < 3 =>
              Load(p).data = p.data /\ Load(p).ucFailTime = p.ucFailTime + 1
         /\ ~(Valid(p) /\ p.ucFailTime < 3) => Load(p) = InitDefaultParam
  <1>1. CASE Valid(p) /\ p.ucFailTime < 3
    <2>1. p \in Param /\ ~(p.ucFailTime >= 3) /\ p.ucFailTime + 1 \in 0..3
      BY <1>1 DEF Valid, Param
    <2>2. Load(p) = [p EXCEPT !.ucFailTime = @ + 1]
      BY <1>1, <2>1 DEF Load
    <2>. QED
      BY <1>1, <2>1, <2>2 DEF Param
  <1>2. CASE ~(Valid(p) /\ p.ucFailTime < 3)
    <2>1. ~Valid(p) \/ p.ucFailTime >= 3
      BY <1>2 DEF Valid, Param
    <2>. QED
      BY <1>2, <2>1, DefaultParam DEF Load
  <1>. QED
    BY <1>1, <1>2

\* The boot up to its save.
LEMMA ReadKeeps ==
  ASSUME ConfigInv, ReadCameraParam
  PROVE  ConfigInv'
  <1>1. /\ power = "off" /\ power' = "boot" /\ g_ConfigParam' = Load(ReadFlashMemory)
        /\ pc' = [pc EXCEPT ![Main] = "check"] /\ call' = [call EXCEPT ![Main] = SaveMain]
        /\ saved' = {g_ConfigParam'.data} /\ raced' = FALSE /\ asked' = "no" /\ overlap' = FALSE
        /\ boots' = (IF Valid(flash["main"]) /\ boots < 3 THEN boots + 1 ELSE 3)
        /\ UNCHANGED <<flash, cache, mutex, s_bNotResetCheckSum, sum, ResetFlag, cuts>>
    BY DEF ReadCameraParam, Go
  <1>2. /\ \A t \in Actor : pc[t] = "idle"
        /\ \A t \in Actor : pc'[t] = IF t = Main THEN "check" ELSE "idle"
        /\ call' = call
    BY <1>1, Cast DEF ConfigInv, PhaseInv, ConfigTypeOK
  <1>3. /\ flash["main"] \in Param \cup {Erased} /\ flash["default"] \in Param \cup {Erased}
        /\ ReadFlashMemory = (IF Valid(flash["main"]) THEN flash["main"] ELSE flash["default"])
    BY DEF ReadFlashMemory, ConfigInv, ConfigTypeOK, Copies, Area
  <1>4. g_ConfigParam' \in Param /\ g_ConfigParam'.data \in Settings /\ g_ConfigParam'.ucFailTime \in 0..3
    <2>1. g_ConfigParam' \in Param
      BY <1>1, <1>3, LoadIs
    <2>. QED
      BY <2>1 DEF Param
  <1>5. cache = Erased /\ ~s_bNotResetCheckSum /\ ResetFlag = "ran"
    BY <1>1, <1>2 DEF ConfigInv, ConfigTypeOK, CacheInv, PhaseInv, Cached, Saving
  <1>6. Valid(flash["main"]) => flash["main"] # Erased /\ flash["main"].ucFailTime \in 0..3
    BY <1>3 DEF Valid, Param
  <1>7. boots \in 0..3 /\ boots' \in 0..3 /\ boots <= boots' /\ cuts \in Nat
    BY <1>1 DEF ConfigInv, ConfigTypeOK
  <1>8. boots' < 3 => /\ Valid(flash["main"]) /\ flash["main"].data = g_ConfigParam'.data
                      /\ g_ConfigParam'.ucFailTime <= boots'
    <2>. SUFFICES ASSUME boots' < 3
                  PROVE  /\ Valid(flash["main"]) /\ flash["main"].data = g_ConfigParam'.data
                         /\ g_ConfigParam'.ucFailTime <= boots'
      OBVIOUS
    <2>1. Valid(flash["main"]) /\ boots' = boots + 1
      BY <1>1, <1>7
    <2>2. flash["main"].ucFailTime <= boots
      BY <1>6, <2>1 DEF ConfigInv, FailInv
    <2>3. /\ flash["main"].data = g_ConfigParam'.data
          /\ g_ConfigParam'.ucFailTime = flash["main"].ucFailTime + 1
      BY <1>1, <1>3, <1>6, <1>7, <2>1, <2>2, LoadIs
    <2>. QED
      BY <1>6, <1>7, <2>1, <2>2, <2>3
  <1>9. cuts > 0 => /\ Valid(flash["main"])
                    /\ cuts <= flash["main"].ucFailTime \/ flash["main"].ucFailTime = 3
    BY <1>1 DEF ConfigInv, CutsInv
  <1>10. g_ConfigParam'.ucFailTime > 0 => cuts < g_ConfigParam'.ucFailTime
    <2>1. CASE cuts > 0
      <3>1. ReadFlashMemory = flash["main"] /\ Valid(flash["main"])
        BY <1>3, <1>9, <2>1
      <3>2. CASE flash["main"].ucFailTime = 3
        <4>1. g_ConfigParam'.ucFailTime = 0
          BY <1>1, <1>3, <3>1, <3>2, LoadIs, DefaultParam
        <4>. QED
          BY <4>1
      <3>3. CASE flash["main"].ucFailTime < 3
        <4>1. g_ConfigParam'.ucFailTime = flash["main"].ucFailTime + 1
          BY <1>1, <1>3, <3>1, <3>3, LoadIs
        <4>. QED
          BY <1>6, <1>7, <1>9, <2>1, <3>1, <3>3, <4>1
      <3>. QED
        BY <1>6, <3>1, <3>2, <3>3
    <2>. QED
      BY <1>4, <1>7, <2>1
  <1>. QED
    <2>1. ConfigTypeOK'
      BY <1>1, <1>2, <1>4, <1>7 DEF ConfigInv, ConfigTypeOK, Place
    <2>2. PhaseInv'
      BY <1>1, <1>2, <1>5, Cast DEF ConfigInv, PhaseInv
    <2>3. MutexInv'
      BY <1>1, <1>2 DEF ConfigInv, MutexInv, Saving
    <2>4. SumInv'
      BY <1>2 DEF SumInv
    <2>5. CacheInv'
      BY <1>1, <1>2, <1>5 DEF CacheInv, Cached, Saving
    <2>6. KeptInv'
      BY <1>1, <1>2, <1>5, <1>8, Cast DEF ConfigInv, PhaseInv, KeptInv, Good, Valid, GetConfigCheckSum, SaveMain, Call
    <2>7. FailInv'
      <3>1. g_ConfigParam'.ucFailTime <= boots'
        BY <1>4, <1>7, <1>8
      <3>2. flash["main"] # Erased => flash["main"].ucFailTime <= boots'
        BY <1>3, <1>7 DEF ConfigInv, FailInv, Param
      <3>. QED
        BY <1>1, <1>2, <1>5, <3>1, <3>2, Cast DEF FailInv, Cached, Saving
    <2>8. CutsInv'
      BY <1>1, <1>2, <1>5, <1>9, <1>10, Cast DEF CutsInv, Valid, GetConfigCheckSum, Cached, Saving
    <2>9. ResetInv' /\ FreshInv'
      BY <1>1 DEF ResetInv, FreshInv
    <2>. QED
      BY <2>1, <2>2, <2>3, <2>4, <2>5, <2>6, <2>7, <2>8, <2>9 DEF ConfigInv

\* The boot has saved what it read: the camera is up.
LEMMA BootDoneKeeps ==
  ASSUME ConfigInv, BootDone
  PROVE  ConfigInv'
  <1>1. /\ power = "boot" /\ pc[Main] = "idle" /\ power' = "up" /\ ResetFlag' = "armed"
        /\ UNCHANGED <<g_ConfigParam, flash, cache, mutex, s_bNotResetCheckSum, pc, call, sum>>
        /\ UNCHANGED <<cuts, boots, saved, raced, asked, overlap>>
    BY DEF BootDone, hist
  <1>2. \A t \in Actor : pc[t] = "idle"
    BY <1>1 DEF ConfigInv, PhaseInv
  <1>3. cache = Erased /\ asked = "no"
    BY <1>1, <1>2 DEF ConfigInv, CacheInv, PhaseInv, Cached, Saving
  <1>. QED
    <2>1. ConfigTypeOK'
      BY <1>1 DEF ConfigInv, ConfigTypeOK
    <2>2. PhaseInv'
      BY <1>1, <1>2, Cast DEF ConfigInv, PhaseInv
    <2>3. MutexInv' /\ SumInv' /\ CacheInv'
      BY <1>1, <1>2, <1>3 DEF ConfigInv, MutexInv, SumInv, CacheInv, Cached, Saving
    <2>4. KeptInv'
      BY <1>1, <1>2 DEF ConfigInv, PhaseInv, KeptInv, Good
    <2>5. FailInv'
      BY <1>1, <1>2, Cast DEF ConfigInv, FailInv, Cached, Saving
    <2>6. CutsInv'
      BY <1>1, <1>2, <1>3, Cast DEF ConfigInv, CutsInv, Cached, Saving
    <2>7. ResetInv'
      BY <1>1, <1>3 DEF ResetInv
    <2>8. FreshInv'
      <3>1. flash["main"].data = g_ConfigParam.data
        BY <1>1, <1>3 DEF ConfigInv, KeptInv, Good
      <3>. QED
        BY <1>1, <1>2, <1>3, <3>1 DEF FreshInv, Newest, Cached, Saving
    <2>. QED
      BY <2>1, <2>2, <2>3, <2>4, <2>5, <2>6, <2>7, <2>8 DEF ConfigInv

\* How many short power-ons in a row there were, once the power is off.
CutsNow == IF asked # "no" \/ raced \/ flash["main"] = Erased THEN 0
           ELSE IF power = "boot" THEN IF flash["main"].ucFailTime = 0 THEN 0 ELSE cuts
           ELSE IF ResetFlag = "armed" /\ g_ConfigParam.ucFailTime > 0 THEN cuts + 1
           ELSE 0

LEMMA OffKeeps ==
  ASSUME ConfigInv, Off, flash' \in Copies, saved' \subseteq Settings,
         asked = "no" /\ boots < 3 =>
            /\ flash'["main"] # Erased => (Valid(flash'["main"]) \/ raced) /\ flash'["main"].data \in saved'
            /\ flash'["main"] = Erased => saved' = Settings,
         flash'["main"] # Erased => flash'["main"].ucFailTime <= boots,
         CutsNow > 0 => /\ Valid(flash'["main"])
                        /\ CutsNow <= flash'["main"].ucFailTime \/ flash'["main"].ucFailTime = 3,
         asked = "done" /\ ~overlap => IsSpoilt(flash'["main"])
  PROVE  ConfigInv'
  <1>1. /\ power' = "off" /\ cache' = Erased /\ mutex' = NoThread /\ s_bNotResetCheckSum' = FALSE
        /\ pc' = [t \in Actor |-> "idle"] /\ call' = [t \in Actor |-> SaveMain]
        /\ sum' = [t \in Actor |-> Spoilt] /\ ResetFlag' = "ran"
        /\ g_ConfigParam' = InitDefaultParam /\ cuts' = CutsNow
        /\ UNCHANGED <<boots, raced, asked, overlap>>
    BY DEF Off, CutsNow
  <1>2. \A t \in Actor : pc'[t] = "idle" /\ call'[t] = SaveMain
    BY <1>1
  <1>3. CutsNow \in Nat
    BY DEF CutsNow, ConfigInv, ConfigTypeOK
  <1>4. SaveMain \in [bResetCheckSum : BOOLEAN, area : Area, more : BOOLEAN] /\ SaveMain.bResetCheckSum
    BY DEF SaveMain, Call, Area
  <1>5. ConfigTypeOK'
    BY <1>1, <1>3, <1>4, DefaultParam DEF ConfigInv, ConfigTypeOK, Place
  <1>6. PhaseInv'
    BY <1>1, <1>2, <1>4, Cast DEF PhaseInv
  <1>7. MutexInv' /\ SumInv' /\ CacheInv'
    BY <1>1, <1>2, Cast DEF MutexInv, SumInv, CacheInv, Cached, Saving
  <1>8. KeptInv'
    BY <1>1, <1>2 DEF KeptInv, Good, Valid, GetConfigCheckSum
  <1>9. FailInv'
    <2>1. boots \in 0..3 /\ g_ConfigParam'.ucFailTime = 0
      BY <1>1, DefaultParam DEF ConfigInv, ConfigTypeOK
    <2>. QED
      BY <1>1, <1>2, <2>1, Cast DEF FailInv, Cached, Saving
  <1>10. CutsInv'
    BY <1>1, <1>2, Cast DEF CutsInv, Valid, GetConfigCheckSum
  <1>11. ResetInv' /\ FreshInv'
    BY <1>1 DEF ResetInv, IsSpoilt, FreshInv
  <1>. QED
    BY <1>5, <1>6, <1>7, <1>8, <1>9, <1>10, <1>11 DEF ConfigInv

\* Up, with no reset asked for and nobody writing pages, the copy in flash and the one on its way
\* there are among the settings the next boot may come up with, and valid if there was no race.
LEMMA UpIsGood ==
  ASSUME ConfigInv, power = "up", asked = "no"
  PROVE  /\ flash["main"] # Erased => (Valid(flash["main"]) \/ raced) /\ flash["main"].data \in saved
         /\ cache # Erased => /\ cache["main"] # Erased
                             /\ (Valid(cache["main"]) \/ raced) /\ cache["main"].data \in saved
         /\ (\A t \in Actor : pc[t] # "main") => flash["main"] # Erased
  BY DEF ConfigInv, KeptInv, Good

LEMMA ArmedCount ==
  ASSUME ConfigInv, CutsNow > 0, power # "boot"
  PROVE  /\ asked = "no" /\ ~raced /\ flash["main"] # Erased /\ power = "up"
         /\ CutsNow <= flash["main"].ucFailTime
         /\ cache # Erased /\ cache["main"] # Erased => CutsNow <= cache["main"].ucFailTime
  <1>1. /\ asked = "no" /\ ~raced /\ flash["main"] # Erased /\ ResetFlag = "armed"
        /\ g_ConfigParam.ucFailTime > 0 /\ CutsNow = cuts + 1
    BY DEF CutsNow
  <1>2. cuts \in Nat /\ g_ConfigParam.ucFailTime \in 0..3
    BY DEF ConfigInv, ConfigTypeOK, Param
  <1>3. /\ cuts < g_ConfigParam.ucFailTime /\ flash["main"].ucFailTime = g_ConfigParam.ucFailTime
        /\ cache # Erased /\ cache["main"] # Erased => cache["main"].ucFailTime = g_ConfigParam.ucFailTime
    BY <1>1 DEF ConfigInv, CutsInv
  <1>4. power = "up"
    BY <1>1 DEF ConfigInv, PhaseInv
  <1>. QED
    BY <1>1, <1>2, <1>3, <1>4

\* The power may fail at any step.
LEMMA PowerCutKeeps ==
  ASSUME ConfigInv, PowerCut
  PROVE  ConfigInv'
  <1>1. /\ power # "off" /\ Off /\ flash' = flash
        /\ saved' = (IF flash["main"] = Erased THEN Settings ELSE saved)
    BY DEF PowerCut
  <1>2. flash' \in Copies /\ saved' \subseteq Settings
    BY <1>1 DEF ConfigInv, ConfigTypeOK
  <1>3. power \in {"boot", "up"}
    BY <1>1 DEF ConfigInv, ConfigTypeOK
  <1>4. asked = "no" /\ boots < 3 /\ flash["main"] # Erased
          => (Valid(flash["main"]) \/ raced) /\ flash["main"].data \in saved
    BY <1>3 DEF ConfigInv, KeptInv, Good
  <1>5. flash["main"] # Erased => flash["main"].ucFailTime <= boots
    BY DEF ConfigInv, FailInv
  <1>6. CutsNow > 0 => /\ Valid(flash["main"])
                       /\ CutsNow <= flash["main"].ucFailTime \/ flash["main"].ucFailTime = 3
    <2>. SUFFICES ASSUME CutsNow > 0
                  PROVE  /\ Valid(flash["main"])
                         /\ CutsNow <= flash["main"].ucFailTime \/ flash["main"].ucFailTime = 3
      OBVIOUS
    <2>1. CASE power = "up"
      BY <2>1, ArmedCount, UpIsGood
    <2>2. CASE power = "boot"
      <3>1. /\ asked = "no" /\ ~raced /\ flash["main"] # Erased /\ flash["main"].ucFailTime # 0
            /\ CutsNow = cuts
        BY <2>2 DEF CutsNow
      <3>2. CASE pc[Main] \in {"check", "sum", "assign", "lock", "copy", "erase"}
        BY <3>1, <3>2 DEF ConfigInv, CutsInv
      <3>3. CASE pc[Main] \in {"default", "unlock", "idle"}
        <4>1. Valid(flash["main"])
          BY <2>2, <3>1, <3>3 DEF ConfigInv, KeptInv, Good
        <4>2. g_ConfigParam.ucFailTime \in 0..3 /\ cuts \in Nat
          BY DEF ConfigInv, ConfigTypeOK, Param
        <4>3. g_ConfigParam.ucFailTime > 0
          BY <2>2, <3>1, <3>3, <4>2 DEF ConfigInv, CutsInv
        <4>4. cuts < g_ConfigParam.ucFailTime /\ flash["main"].ucFailTime = g_ConfigParam.ucFailTime
          BY <2>2, <3>1, <3>3, <4>3 DEF ConfigInv, CutsInv
        <4>. QED
          BY <3>1, <4>1, <4>2, <4>4
      <3>4. pc[Main] # "main" /\ pc[Main] # "spoil"
        BY <3>1, Cast DEF ConfigInv, PhaseInv, CacheInv, Cached, Saving, Area
      <3>. QED
        BY <3>2, <3>3, <3>4, Cast DEF ConfigInv, ConfigTypeOK, Place, Saving
    <2>. QED
      BY <1>3, <2>1, <2>2
  <1>7. asked = "done" /\ ~overlap => IsSpoilt(flash["main"])
    BY DEF ConfigInv, ResetInv
  <1>. QED
    BY <1>1, <1>2, <1>4, <1>5, <1>6, <1>7, OffKeeps

\* A reboot by software writes back the sector in memory first.
LEMMA RebootKeeps ==
  ASSUME ConfigInv, W99802Reboot
  PROVE  ConfigInv'
  <1>1. /\ power = "up" /\ Off /\ flash' = (IF cache = Erased THEN flash ELSE cache)
        /\ saved' = saved /\ \A t \in Actor : pc[t] # "main"
    BY DEF W99802Reboot, Flashing
  <1>2. flash' \in Copies /\ saved' \subseteq Settings
    BY <1>1 DEF ConfigInv, ConfigTypeOK
  <1>3. asked = "no" => /\ flash'["main"] # Erased /\ flash'["main"].data \in saved
                        /\ Valid(flash'["main"]) \/ raced
    BY <1>1, UpIsGood
  <1>4. flash'["main"] # Erased => flash'["main"].ucFailTime <= boots
    BY <1>1 DEF ConfigInv, FailInv
  <1>5. CutsNow > 0 => CutsNow <= flash'["main"].ucFailTime
    BY <1>1, <1>3, ArmedCount
  <1>6. asked = "done" /\ ~overlap => IsSpoilt(flash'["main"])
    <2>1. cache # Erased => \E t \in Actor : pc[t] \in Cached
      BY DEF ConfigInv, CacheInv
    <2>. QED
      BY <1>1, <2>1 DEF ConfigInv, ResetInv
  <1>7. CutsNow > 0 => asked = "no" /\ ~raced
    BY DEF CutsNow
  <1>. QED
    BY <1>1, <1>2, <1>3, <1>4, <1>5, <1>6, <1>7, OffKeeps

LEMMA ConfigInit == Init => ConfigInv
  <1>. SUFFICES ASSUME Init PROVE ConfigInv
    OBVIOUS
  <1>1. SaveMain \in [bResetCheckSum : BOOLEAN, area : Area, more : BOOLEAN] /\ SaveMain.bResetCheckSum
    BY DEF SaveMain, Call, Area
  <1>2. \A t \in Actor : pc[t] = "idle" /\ call[t] = SaveMain
    BY DEF Init
  <1>3. flash \in Copies /\ flash["main"] = Erased
    BY DEF Init, Copies, Area
  <1>4. ConfigTypeOK
    <2>1. g_ConfigParam \in Param /\ cache = Erased /\ mutex = NoThread /\ saved = Settings
      BY DefaultParam DEF Init
    <2>2. pc \in [Actor -> Place] /\ sum \in [Actor -> Settings \cup {Spoilt}]
      BY DEF Init, Place
    <2>3. call \in [Actor -> [bResetCheckSum : BOOLEAN, area : Area, more : BOOLEAN]]
      BY <1>1 DEF Init
    <2>4. s_bNotResetCheckSum \in BOOLEAN /\ overlap \in BOOLEAN /\ raced \in BOOLEAN
      BY Zenon DEF Init
    <2>5. power = "off" /\ ResetFlag = "ran" /\ cuts = 0 /\ boots = 0 /\ asked = "no"
      BY DEF Init
    <2>. QED
      BY <1>3, <2>1, <2>2, <2>3, <2>4, <2>5 DEF ConfigTypeOK
  <1>5. PhaseInv
    BY <1>1, <1>2, Cast DEF Init, PhaseInv
  <1>6. MutexInv /\ SumInv /\ CacheInv
    BY <1>2, Cast DEF Init, MutexInv, SumInv, CacheInv, Cached, Saving
  <1>7. KeptInv
    BY <1>2, <1>3 DEF Init, KeptInv
  <1>8. FailInv
    BY <1>2, <1>3, DefaultParam, Cast DEF Init, FailInv, Cached, Saving
  <1>9. CutsInv /\ ResetInv /\ FreshInv
    BY <1>2, <1>3, DefaultParam, Cast DEF Init, CutsInv, ResetInv, FreshInv
  <1>. QED
    BY <1>4, <1>5, <1>6, <1>7, <1>8, <1>9 DEF ConfigInv

LEMMA ConfigStutter ==
  ASSUME ConfigInv, UNCHANGED vars
  PROVE  ConfigInv'
  BY DEF vars, hist, ConfigInv, ConfigTypeOK, PhaseInv, MutexInv, SumInv, CacheInv, KeptInv, Good, FailInv,
         FreshInv, Newest, Pending, LastSave, CutsInv, ResetInv, IsSpoilt

LEMMA ConfigStep ==
  ASSUME ConfigInv, [Next]_vars
  PROVE  ConfigInv'
  <1>1. ASSUME NEW t \in Actor, Step(t) PROVE ConfigInv'
    BY <1>1, CheckKeeps, ComputeSumKeeps, AssignSumKeeps, LockKeeps, CopyKeeps, EraseKeeps, WritePagesKeeps,
       UnlockKeeps, SpoilKeeps DEF Step, WriteFlashMemory
  <1>. QED
    BY <1>1, ReadKeeps, BootDoneKeeps, ResetFlagKeeps, SetFactoryDefaultKeeps, UpdateFactoryDefaultKeeps,
       SetDefaultMacKeeps, SetConfigKeeps, PowerCutKeeps, RebootKeeps, ConfigStutter DEF Next

------------------------------------------------------------------------------
(* The theorems *)

\* However many threads serve settings requests, the parts of ConfigInv hold at every step of a
\* boot, of saves that overlap each other and the clearing task, and of power cuts
\* (CameraConfig.c, LibIPCamera.c).
THEOREM ConfigInvariant == Spec => []ConfigInv
  <1>1. ConfigInv /\ [Next]_vars => ConfigInv'
    BY ConfigStep
  <1>. QED
    BY <1>1, ConfigInit, PTL DEF Spec

\* Whenever nobody is saving, the main copy has every setting that any thread changed, and the
\* right checksum unless SettledSaveIsValid's race took place (__WriteFlashMemory).
THEOREM ConfigSettledSave == Spec => []SettledSaveIsValid
  <1>1. ConfigInv => SettledSaveIsValid
    <2>. SUFFICES ASSUME ConfigInv, power = "up", asked = "no", \A t \in Actor : pc[t] = "idle"
                  PROVE  /\ flash["main"] # Erased /\ flash["main"].data = g_ConfigParam.data
                         /\ Valid(flash["main"]) \/ raced
      BY DEF SettledSaveIsValid
    <2>1. cache = Erased
      BY DEF ConfigInv, CacheInv, Cached, Saving
    <2>2. flash["main"].data = g_ConfigParam.data
      BY <2>1, Cast DEF ConfigInv, FreshInv, Newest, Pending
    <2>. QED
      BY <2>2, UpIsGood
  <1>. QED
    BY <1>1, ConfigInvariant, PTL

\* What a boot reads, as the three action properties need it.
LEMMA BootReads ==
  ASSUME ConfigInv, ReadCameraParam
  PROVE  /\ power = "off" /\ g_ConfigParam' = Load(ReadFlashMemory)
         /\ flash["main"] \in Param \cup {Erased} /\ flash["default"] \in Param \cup {Erased}
         /\ ReadFlashMemory = (IF Valid(flash["main"]) THEN flash["main"] ELSE flash["default"])
         /\ Load(ReadFlashMemory) \in Param /\ Load(ReadFlashMemory).data \in Settings
         /\ boots \in 0..3
  <1>1. /\ power = "off" /\ g_ConfigParam' = Load(ReadFlashMemory)
        /\ flash["main"] \in Param \cup {Erased} /\ flash["default"] \in Param \cup {Erased}
        /\ ReadFlashMemory = (IF Valid(flash["main"]) THEN flash["main"] ELSE flash["default"])
        /\ boots \in 0..3
    BY DEF ReadCameraParam, ReadFlashMemory, ConfigInv, ConfigTypeOK, Copies, Area
  <1>2. Load(ReadFlashMemory) \in Param
    BY <1>1, LoadIs
  <1>. QED
    BY <1>1, <1>2 DEF Param

\* A boot is ReadCameraParam.
LEMMA BootIsRead == [Next]_vars /\ Boots => ReadCameraParam
  BY DEF Next, Boots, vars, Change, BootDone, prdTask_ResetFlag_FactoryDefault, SetFactoryDefault, UpdateFactoryDefault,
         SetDefaultMac, SetConfig, Request, Step, WriteFlashMemory, Check, ComputeSum, AssignSum, Lock, Copy,
         Erase, WritePages, Unlock, Spoil, PowerCut, W99802Reboot, Off

\* Saved settings survive reboots and power cuts, as BootKeeps says.
THEOREM ConfigBootKeeps == Spec => BootKeeps
  <1>1. ConfigInv /\ [Next]_vars => [Boots /\ boots < 3 /\ asked = "no" /\ ~raced => g_ConfigParam'.data \in saved]_vars
    <2>. SUFFICES ASSUME ConfigInv, ReadCameraParam, boots < 3, asked = "no", ~raced
                  PROVE  g_ConfigParam'.data \in saved
      BY BootIsRead
    <2>1. CASE flash["main"] = Erased
      BY <2>1, BootReads DEF ConfigInv, KeptInv
    <2>2. CASE flash["main"] # Erased
      <3>1. Valid(flash["main"]) /\ flash["main"].data \in saved
        BY <2>2, BootReads DEF ConfigInv, KeptInv, Good
      <3>2. flash["main"].ucFailTime <= boots /\ flash["main"].ucFailTime \in 0..3
        BY <2>2, BootReads DEF ConfigInv, FailInv, Param
      <3>3. flash["main"].ucFailTime < 3
        BY <3>2, BootReads
      <3>. QED
        BY <3>1, <3>3, BootReads, LoadIs
    <2>. QED
      BY <2>1, <2>2
  <1>. QED
    BY <1>1, ConfigInvariant, PTL DEF Spec, BootKeeps

\* Three short power-ons in a row bring the factory settings back
\* (ReadCameraParam, prdTask_ResetFlag_FactoryDefault).
THEOREM ConfigThreePowerOffs == Spec => ThreePowerOffs
  <1>1. ConfigInv /\ [Next]_vars => [Boots /\ cuts >= 3 => g_ConfigParam'.data = Builtin]_vars
    <2>. SUFFICES ASSUME ConfigInv, ReadCameraParam, cuts >= 3 PROVE g_ConfigParam'.data = Builtin
      BY BootIsRead
    <2>1. cuts \in Nat
      BY DEF ConfigInv, ConfigTypeOK
    <2>2. /\ Valid(flash["main"]) /\ flash["main"] \in Param
          /\ cuts <= flash["main"].ucFailTime \/ flash["main"].ucFailTime = 3
      BY <2>1, BootReads DEF ConfigInv, CutsInv, Valid
    <2>3. ~(flash["main"].ucFailTime < 3)
      BY <2>1, <2>2 DEF Param
    <2>. QED
      BY <2>2, <2>3, BootReads, LoadIs, DefaultParam
  <1>. QED
    BY <1>1, ConfigInvariant, PTL DEF Spec, ThreePowerOffs

\* A factory reset that no save of another thread or of the clearing task overlapped brings up
\* the default copy, whatever is asked for afterwards (ictlSetFactoryDefault, __WriteFlashMemory).
THEOREM ConfigResetTakes == Spec => FactoryResetTakes
  <1>1. ConfigInv /\ [Next]_vars => [Boots /\ asked = "done" /\ ~overlap => ResetLoadsDefault]_vars
    <2>. SUFFICES ASSUME ConfigInv, ReadCameraParam, asked = "done", ~overlap PROVE ResetLoadsDefault
      BY BootIsRead
    <2>1. ~Valid(flash["main"])
      <3>1. flash["main"] # Erased => flash["main"].ulCheckSum = Spoilt /\ flash["main"].data \in Settings
        BY BootReads DEF ConfigInv, ResetInv, IsSpoilt, Param
      <3>. QED
        BY <3>1, NothingAssumption DEF Valid, GetConfigCheckSum
    <2>2. g_ConfigParam' = Load(flash["default"]) /\ flash["default"] \in Param \cup {Erased}
      BY <2>1, BootReads
    <2>. QED
      BY <2>2, LoadIs, DefaultParam DEF ResetLoadsDefault
  <1>. QED
    BY <1>1, ConfigInvariant, PTL DEF Spec, FactoryResetTakes
=============================================================================
