------------------------------ MODULE PrdLock ------------------------------
(***************************************************************************)
(* The recursive lock of the period-task module, built in                  *)
(* Host/LibCamera/Src/PeriodTask.c from a plain eCos mutex (g_mPrdLock), an *)
(* owner (g_hPrdLockThread) and a nesting count (g_nPrdLockCount), because *)
(* a condition variable cannot wait on a recursive mutex.  The owner is    *)
(* read outside the mutex, so each access to the shared words is a step of *)
(* its own here and all threads interleave between them.                   *)
(*                                                                         *)
(* PrdThread is the period thread, the only one that waits on g_cPrdWait.  *)
(***************************************************************************)
EXTENDS Integers, FiniteSets

CONSTANTS Thread,       \* the threads that call prdLock / prdUnlock
          PrdThread,    \* the thread running prdRun
          NoThread,     \* NULL in g_hPrdLockThread, and a free mutex
          MaxDepth      \* bound: how deep callers nest prdLock

ASSUME PrdThreadAssumption == PrdThread \in Thread
ASSUME NoThreadAssumption  == NoThread \notin Thread
ASSUME MaxDepthAssumption  == MaxDepth \in Nat \ {0}

VARIABLES
    g_mPrdLock,         \* holder of the eCos mutex
    g_hPrdLockThread,   \* thread recorded as the owner
    g_nPrdLockCount,    \* nesting count
    waiters,            \* threads asleep on g_cPrdWait
    lockPc,             \* where each thread is in the lock's code
    depth               \* prdLock calls of each thread not undone yet

lockVars == <<g_mPrdLock, g_hPrdLockThread, g_nPrdLockCount, waiters, lockPc, depth>>

LockPC == {"run",                                     \* in the caller's code
           "lockTest", "lockMutex", "lockOwn", "lockInc", \* prdLock
           "unlockDec", "unlockTest", "unlockOwn", "unlockMutex", "signal",
           "beforeCnt", "beforeOwn", "wait",              \* prdBeforeCondWait
           "asleep", "wake", "afterCnt", "afterOwn",      \* ... prdAfterCondWait
           "hang"}                                        \* sysDisableIRQ(); while(1)

Goto(t, from, to) == lockPc[t] = from /\ lockPc' = [lockPc EXCEPT ![t] = to]

\* prdInit
LockInit ==
    /\ g_mPrdLock = NoThread
    /\ g_hPrdLockThread = NoThread
    /\ g_nPrdLockCount = 0
    /\ waiters = {}
    /\ lockPc = [t \in Thread |-> "run"]
    /\ depth = [t \in Thread |-> 0]

------------------------------------------------------------------------------
(* prdLock *)

CallLock(t) ==
    /\ depth[t] < MaxDepth
    /\ Goto(t, "run", "lockTest")
    /\ UNCHANGED <<g_mPrdLock, g_hPrdLockThread, g_nPrdLockCount, waiters, depth>>

\* if (g_hPrdLockThread != cyg_thread_self ()): read without the mutex
LockTest(t) ==
    /\ Goto(t, "lockTest", IF g_hPrdLockThread # t THEN "lockMutex" ELSE "lockInc")
    /\ UNCHANGED <<g_mPrdLock, g_hPrdLockThread, g_nPrdLockCount, waiters, depth>>

LockMutex(t) ==
    /\ g_mPrdLock = NoThread
    /\ Goto(t, "lockMutex", "lockOwn")
    /\ g_mPrdLock' = t
    /\ UNCHANGED <<g_hPrdLockThread, g_nPrdLockCount, waiters, depth>>

LockOwn(t) ==
    /\ Goto(t, "lockOwn", "lockInc")
    /\ g_hPrdLockThread' = t
    /\ UNCHANGED <<g_mPrdLock, g_nPrdLockCount, waiters, depth>>

LockInc(t) ==
    /\ Goto(t, "lockInc", "run")
    /\ g_nPrdLockCount' = g_nPrdLockCount + 1
    /\ depth' = [depth EXCEPT ![t] = @ + 1]
    /\ UNCHANGED <<g_mPrdLock, g_hPrdLockThread, waiters>>

------------------------------------------------------------------------------
(* prdUnlock; callers pair it with a prdLock of their own *)

CallUnlock(t) ==
    /\ depth[t] > 0
    /\ Goto(t, "run", "unlockDec")
    /\ UNCHANGED <<g_mPrdLock, g_hPrdLockThread, g_nPrdLockCount, waiters, depth>>

\* A count of zero means "lock != UNLONK": interrupts off, spin for ever.
UnlockDec(t) ==
    LET paired == g_nPrdLockCount > 0 IN
    /\ Goto(t, "unlockDec", IF paired THEN "unlockTest" ELSE "hang")
    /\ g_nPrdLockCount' = IF paired THEN g_nPrdLockCount - 1 ELSE g_nPrdLockCount
    /\ depth' = [depth EXCEPT ![t] = @ - 1]
    /\ UNCHANGED <<g_mPrdLock, g_hPrdLockThread, waiters>>

\* mutated: gives the mutex back one level too early
UnlockTestEarly(t) ==
    /\ Goto(t, "unlockTest", IF g_nPrdLockCount <= 1 THEN "unlockOwn" ELSE "run")
    /\ UNCHANGED <<g_mPrdLock, g_hPrdLockThread, g_nPrdLockCount, waiters, depth>>

\* mutated: never gives the mutex back
UnlockTestNever(t) ==
    /\ Goto(t, "unlockTest", "run")
    /\ UNCHANGED <<g_mPrdLock, g_hPrdLockThread, g_nPrdLockCount, waiters, depth>>

UnlockTest(t) ==
    /\ Goto(t, "unlockTest", IF g_nPrdLockCount = 0 THEN "unlockOwn" ELSE "run")
    /\ UNCHANGED <<g_mPrdLock, g_hPrdLockThread, g_nPrdLockCount, waiters, depth>>

UnlockOwn(t) ==
    /\ Goto(t, "unlockOwn", "unlockMutex")
    /\ g_hPrdLockThread' = NoThread
    /\ UNCHANGED <<g_mPrdLock, g_nPrdLockCount, waiters, depth>>

UnlockMutex(t) ==
    /\ Goto(t, "unlockMutex", "signal")
    /\ g_mPrdLock' = NoThread
    /\ UNCHANGED <<g_hPrdLockThread, g_nPrdLockCount, waiters, depth>>

\* cyg_cond_signal: after the mutex was given back
LockSignal(t) ==
    /\ lockPc[t] = "signal"
    /\ \/ /\ waiters = {}
          /\ lockPc' = [lockPc EXCEPT ![t] = "run"]
          /\ UNCHANGED waiters
       \/ \E u \in waiters :
             /\ lockPc' = [lockPc EXCEPT ![t] = "run", ![u] = "wake"]
             /\ waiters' = waiters \ {u}
    /\ UNCHANGED <<g_mPrdLock, g_hPrdLockThread, g_nPrdLockCount, depth>>

------------------------------------------------------------------------------
(* prdBeforeCondWait; cyg_cond_timed_wait; prdAfterCondWait.  prdRun waits  *)
(* at a nesting of one only.                                               *)

CallWait(t) ==
    /\ t = PrdThread
    /\ depth[t] = 1
    /\ Goto(t, "run", "beforeCnt")
    /\ UNCHANGED <<g_mPrdLock, g_hPrdLockThread, g_nPrdLockCount, waiters, depth>>

BeforeCnt(t) ==
    /\ Goto(t, "beforeCnt", "beforeOwn")
    /\ g_nPrdLockCount' = 0
    /\ depth' = [depth EXCEPT ![t] = 0]
    /\ UNCHANGED <<g_mPrdLock, g_hPrdLockThread, waiters>>

BeforeOwn(t) ==
    /\ Goto(t, "beforeOwn", "wait")
    /\ g_hPrdLockThread' = NoThread
    /\ UNCHANGED <<g_mPrdLock, g_nPrdLockCount, waiters, depth>>

\* gives the mutex back and goes to sleep in one step of the kernel
Sleep(t) ==
    /\ Goto(t, "wait", "asleep")
    /\ g_mPrdLock' = NoThread
    /\ waiters' = waiters \cup {t}
    /\ UNCHANGED <<g_hPrdLockThread, g_nPrdLockCount, depth>>

\* tMinRemain + tLastCheck is reached before a signal comes
TimeOut(t) ==
    /\ Goto(t, "asleep", "wake")
    /\ waiters' = waiters \ {t}
    /\ UNCHANGED <<g_mPrdLock, g_hPrdLockThread, g_nPrdLockCount, depth>>

Wake(t) ==
    /\ g_mPrdLock = NoThread
    /\ Goto(t, "wake", "afterCnt")
    /\ g_mPrdLock' = t
    /\ UNCHANGED <<g_hPrdLockThread, g_nPrdLockCount, waiters, depth>>

\* mutated: the count is not restored after the wait
AfterCntForgotten(t) ==
    /\ Goto(t, "afterCnt", "afterOwn")
    /\ depth' = [depth EXCEPT ![t] = 1]
    /\ UNCHANGED <<g_mPrdLock, g_hPrdLockThread, g_nPrdLockCount, waiters>>

AfterCnt(t) ==
    /\ Goto(t, "afterCnt", "afterOwn")
    /\ g_nPrdLockCount' = 1
    /\ depth' = [depth EXCEPT ![t] = 1]
    /\ UNCHANGED <<g_mPrdLock, g_hPrdLockThread, waiters>>

AfterOwn(t) ==
    /\ Goto(t, "afterOwn", "run")
    /\ g_hPrdLockThread' = t
    /\ UNCHANGED <<g_mPrdLock, g_nPrdLockCount, waiters, depth>>

------------------------------------------------------------------------------
\* steps inside the lock's own code; the calls are the callers' choice
Inside(t) ==
    \/ LockTest(t) \/ LockMutex(t) \/ LockOwn(t) \/ LockInc(t)
    \/ UnlockDec(t) \/ UnlockTest(t) \/ UnlockOwn(t)
    \/ UnlockMutex(t) \/ LockSignal(t)
    \/ BeforeCnt(t) \/ BeforeOwn(t) \/ Sleep(t) \/ TimeOut(t) \/ Wake(t)
    \/ AfterCnt(t) \/ AfterOwn(t)

Call(t) == CallLock(t) \/ CallUnlock(t) \/ CallWait(t)

LockNext == \E t \in Thread : Call(t) \/ Inside(t)

LockSpec == LockInit /\ [][LockNext]_lockVars

(***************************************************************************)
(* Fairness.  The scheduler runs every thread, an eCos mutex is handed to   *)
(* a waiting thread in priority/FIFO order, and a caller that holds the    *)
(* lock leaves it.                                                         *)
(***************************************************************************)
Fairness ==
    \A t \in Thread :
        /\ WF_lockVars(Inside(t))
        /\ SF_lockVars(LockMutex(t)) /\ SF_lockVars(Wake(t))
        /\ WF_lockVars(CallUnlock(t)) /\ SF_lockVars(depth[t] = 1 /\ CallUnlock(t))

LockFairSpec == LockSpec /\ Fairness

------------------------------------------------------------------------------
(* Properties *)

\* The shared words and the threads' places hold values of their types.
LockTypeOK ==
    /\ g_mPrdLock \in Thread \cup {NoThread}
    /\ g_hPrdLockThread \in Thread \cup {NoThread}
    /\ g_nPrdLockCount \in Nat
    /\ waiters \subseteq Thread
    /\ lockPc \in [Thread -> LockPC]
    /\ depth \in [Thread -> Nat]

\* Two threads are never both between prdLock and prdUnlock, although
\* prdLock reads the owner without holding the mutex.
MutualExclusion ==
    \A t, u \in Thread : depth[t] > 0 /\ depth[u] > 0 => t = u

\* While a thread runs inside the lock, the mutex, the recorded owner and the
\* count are its own: the nested prdLock and the prdUnlock it may call next
\* decide on these three.
OwnerAgrees ==
    \A t \in Thread :
        lockPc[t] \in {"run", "lockTest", "unlockDec"} /\ depth[t] > 0 =>
            /\ g_mPrdLock = t
            /\ g_hPrdLockThread = t
            /\ g_nPrdLockCount = depth[t]

\* The branch of prdUnlock that disables interrupts and spins is never
\* reached by callers that pair their calls, the condition wait of prdRun
\* (which overwrites count and owner) included.
NeverHangs == \A t \in Thread : lockPc[t] # "hang"

\* Every prdLock returns, if the holder leaves: no thread is left waiting for
\* a mutex nobody will give back.
LockReturns == \A t \in Thread : lockPc[t] \in {"lockTest", "wake"} ~> depth[t] > 0

\* The lock implements what its callers rely on.
Abstract == INSTANCE RecursiveLock
ImplementsRecursiveLock == Abstract!Spec

------------------------------------------------------------------------------
(* The inductive invariant *)

\* t has the eCos mutex.
Holding(t) ==
    \/ lockPc[t] \in {"lockOwn", "lockInc", "unlockDec", "unlockTest", "unlockOwn",
                  "unlockMutex", "beforeCnt", "beforeOwn", "wait", "afterCnt",
                  "afterOwn"}
    \/ lockPc[t] \in {"run", "lockTest"} /\ depth[t] > 0

\* t is recorded as the owner.
Owning(t) ==
    \/ lockPc[t] \in {"lockInc", "unlockDec", "unlockTest", "unlockOwn", "beforeCnt",
                  "beforeOwn"}
    \/ lockPc[t] \in {"run", "lockTest"} /\ depth[t] > 0

MutexInv == \A t \in Thread : Holding(t) <=> g_mPrdLock = t
OwnerInv == \A t \in Thread : Owning(t) <=> g_hPrdLockThread = t
CountInv == /\ \A t \in Thread : g_mPrdLock = t => g_nPrdLockCount = depth[t]
            /\ g_mPrdLock = NoThread => g_nPrdLockCount = 0
DepthInv ==
    \A t \in Thread :
        /\ lockPc[t] \in {"lockMutex", "lockOwn", "unlockOwn", "unlockMutex", "signal",
                     "beforeOwn", "wait", "asleep", "wake", "afterCnt"}
              => depth[t] = 0
        /\ lockPc[t] = "unlockDec" => depth[t] > 0
        /\ lockPc[t] \in {"beforeCnt", "afterOwn"} => depth[t] = 1
WaitersInv == waiters = {t \in Thread : lockPc[t] = "asleep"}

\* Inductive: what the mutex, the owner and the count are at every place of
\* the lock's code, from which the safety properties follow.
LockInv == /\ LockTypeOK /\ MutexInv /\ OwnerInv /\ CountInv /\ DepthInv
           /\ WaitersInv /\ NeverHangs
=============================================================================
