----------------------------- MODULE PeriodTask -----------------------------
(***************************************************************************)
(* The period-task service of Host/LibCamera/Src/PeriodTask.c: one thread   *)
(* (prdRun) that calls back registered tasks when their time has come.     *)
(*                                                                         *)
(* A task node is in one of three ring lists: g_lPrdTaskHeader (waiting for *)
(* its time), list (already looked at in this pass, a local of prdRun) or  *)
(* g_lPrdTaskAdd (added since the pass began).  All three, and the tasks'  *)
(* fields, are protected by the recursive lock that module PrdLock models; *)
(* here the lock is its abstraction, and what a caller does between        *)
(* prdLock and prdUnlock is one action.  prdRun gives the lock up in two   *)
(* places only: while it sleeps on g_cPrdWait and while a callback runs.   *)
(* A callback uses the same operations as any other caller.                *)
(*                                                                         *)
(* Only differences of the clock enter the code, so the clock is the number *)
(* of ticks since tLastCheck.                                              *)
(***************************************************************************)
EXTENDS List

CONSTANTS Task,                 \* the PRD_TASK_T of the program
          g_lPrdTaskHeader, g_lPrdTaskAdd, list,        \* the list heads
          NoTask,
          Timeouts,             \* values callers pass for tTimeout
          MaxWait,              \* 10000 in the code: the longest sleep
          TickMax,              \* (cyg_tick_count_t)-1
          MaxElapsed,           \* bound: ticks the clock runs on unread
          MaxSignals            \* bound: callers between unlock and signal

Heads == {g_lPrdTaskHeader, g_lPrdTaskAdd, list}

ASSUME TaskAssumption    == /\ Node = Task \cup Heads
                            /\ Task \cap Heads = {}
                            /\ NoTask \notin Node
ASSUME HeadsAssumption   == /\ g_lPrdTaskHeader # g_lPrdTaskAdd
                            /\ g_lPrdTaskHeader # list
                            /\ g_lPrdTaskAdd # list
ASSUME TimeAssumption    == /\ TickMax \in Nat
                            /\ Timeouts \subseteq 0..TickMax - 1
                            /\ MaxWait \in 0..TickMax - 1
                            /\ MaxElapsed \in Nat
                            /\ MaxSignals \in Nat

VARIABLES
    mem,            \* pPrev and pNext of every node
    known,          \* tasks whose node has been initialised by a prdAddTask
    tTimeout, tRemain,
    pc,             \* where prdRun is
    cur,            \* the task whose callback runs
    elapsed,        \* ticks since tLastCheck
    tPeriod,        \* ticks between the last two looks at the clock
    tMinRemain,     \* how long prdRun means to sleep
    signals,        \* callers that unlocked and have not signalled yet
    g_bPrdExit,
    where,          \* history: list each node was last put into, or itself
    age,            \* history: ticks since the look at the clock that began the
                    \* pass in which the task was taken up or last called back
                    \* (up to TickMax): what the code has charged it
    waited,         \* history: ticks since the task was added or its callback
                    \* returned (up to TickMax)
    ahead,          \* history: ticks the pass had already run then
    ran             \* history: tasks called back in this pass

vars == <<mem, known, tTimeout, tRemain, pc, cur, elapsed, tPeriod, tMinRemain,
          signals, g_bPrdExit, where, age, waited, ahead, ran>>

waits == <<waited, ahead>>
tasks == <<mem, known, tTimeout, tRemain, where, age, waits>>
clock == <<elapsed, tPeriod, tMinRemain>>

\* Nobody is between prdLock and prdUnlock.  prdRun has a higher priority (9)
\* than the threads that use it (10), the main thread included: when prdInit
\* returns it is already in its first sleep.
LockFree == pc \in {"asleep", "woken", "callback"}

Init ==
    /\ mem = [prev |-> [n \in Node |-> n], next |-> [n \in Node |-> n]]
    /\ known = {}
    /\ tTimeout = [t \in Task |-> 0]
    /\ tRemain = [t \in Task |-> 0]
    /\ pc = "start"
    /\ cur = NoTask
    /\ elapsed = 0 /\ tPeriod = 0 /\ tMinRemain = 0
    /\ signals = 0
    /\ g_bPrdExit = FALSE
    /\ where = [n \in Node |-> n]
    /\ age = [t \in Task |-> 0]
    /\ waited = [t \in Task |-> 0] /\ ahead = [t \in Task |-> 0]
    /\ ran = {}

------------------------------------------------------------------------------
(* The callers, callbacks included.  The node of a task is static memory,  *)
(* all zero until its first prdAddTask; callers delete only what they added *)
(* before, and add only what is in no list.                                *)

\* mutated: straight into the list a pass works on
EnlistHeader(m, t) == ListAttach(ListInit(m, t), t, g_lPrdTaskHeader)

\* The list work of prdAddTask, on memory m.
Enlist(m, t) == ListAttach(ListInit(m, t), t, g_lPrdTaskAdd)

\* mutated: the condition is not signalled
UnlockSilent == UNCHANGED signals

Unlock == signals < MaxSignals /\ signals' = signals + 1

\* A task's time begins, n ticks into the pass.
Restart(t, n) == waited' = [waited EXCEPT ![t] = 0] /\ ahead' = [ahead EXCEPT ![t] = n]

AddTask(t, m, timeout) ==
    /\ mem' = Enlist(m, t)
    /\ known' = known \cup {t}
    /\ tTimeout' = [tTimeout EXCEPT ![t] = timeout]
    /\ tRemain' = [tRemain EXCEPT ![t] = TickMax]
    /\ where' = [where EXCEPT ![t] = g_lPrdTaskAdd]
    /\ Restart(t, IF pc = "callback" THEN elapsed ELSE 0)
    /\ Unlock
    /\ UNCHANGED <<age, pc, cur, clock, g_bPrdExit, ran>>

prdAddTask(t, timeout) ==
    /\ LockFree
    /\ where[t] = t
    /\ AddTask(t, mem, timeout)

\* mutated: the node stays where it is
prdDelTaskDeferred(t) ==
    /\ LockFree
    /\ t \in known
    /\ where' = [where EXCEPT ![t] = t]
    /\ Unlock
    /\ UNCHANGED <<mem, known, tTimeout, tRemain, age, waits, pc, cur, clock, g_bPrdExit, ran>>

prdDelTask(t) ==
    /\ LockFree
    /\ t \in known
    /\ mem' = ListDetach(mem, t)
    /\ where' = [where EXCEPT ![t] = t]
    /\ Restart(t, 0)
    /\ Unlock
    /\ UNCHANGED <<known, tTimeout, tRemain, age, pc, cur, clock, g_bPrdExit, ran>>

\* mutated: a task is added again without being deleted before
ResetTaskLinked(t, timeout) ==
    /\ LockFree
    /\ t \in known
    /\ AddTask(t, mem, timeout)

\* prdLock(); prdDelTask(t); prdAddTask(t, ...); prdUnlock(): the idiom of
\* prdReset_CheckSuspend, the network check and the LED task
ResetTask(t, timeout) ==
    /\ LockFree
    /\ t \in known
    /\ AddTask(t, ListDetach(mem, t), timeout)

prdUninit ==
    /\ LockFree
    /\ ~g_bPrdExit
    /\ g_bPrdExit' = TRUE
    /\ Unlock
    /\ UNCHANGED <<tasks, pc, cur, clock, ran>>

\* cyg_cond_signal, after the unlock; lost when prdRun is not asleep
Signal ==
    /\ signals > 0
    /\ signals' = signals - 1
    /\ pc' = IF pc = "asleep" THEN "woken" ELSE pc
    /\ UNCHANGED <<tasks, cur, clock, g_bPrdExit, ran>>

Later(n) == IF n < TickMax THEN n + 1 ELSE TickMax

Tick ==
    /\ elapsed < MaxElapsed
    /\ elapsed' = elapsed + 1
    /\ age' = [t \in Task |-> IF where[t] \in {g_lPrdTaskHeader, list} THEN Later(age[t]) ELSE 0]
    /\ waited' = [t \in Task |-> IF where[t] # t THEN Later(waited[t]) ELSE 0]
    /\ UNCHANGED <<ahead, mem, known, tTimeout, tRemain, where, pc, cur, tPeriod,
                   tMinRemain, signals, g_bPrdExit, ran>>

------------------------------------------------------------------------------
(* prdRun *)

prdStart ==
    /\ pc = "start"
    /\ pc' = "loop"
    /\ elapsed' = 0
    /\ UNCHANGED <<tasks, cur, tPeriod, tMinRemain, signals, g_bPrdExit, ran>>

Clamped(t) == IF tRemain[t] > tTimeout[t] THEN tTimeout[t] ELSE tRemain[t]

CountOff(t) == IF Clamped(t) <= elapsed THEN 0 ELSE Clamped(t) - elapsed

\* Counts the time since the last look off every waiting task, and sleeps until
\* the first of them is due.
prdSleep ==
    LET waiting == {t \in Task : t \in ListMembers(mem, g_lPrdTaskHeader)}
        left == [t \in Task |->
                    IF t \in waiting THEN CountOff(t) ELSE tRemain[t]]
    IN  /\ pc = "loop"
        /\ ~g_bPrdExit
        /\ tRemain' = left
        /\ tMinRemain' \in {left[t] : t \in waiting} \cup {MaxWait}
        /\ \A t \in waiting : tMinRemain' <= left[t]
        /\ tMinRemain' <= MaxWait
        /\ tPeriod' = elapsed
        /\ elapsed' = 0
        /\ pc' = "asleep"
        /\ UNCHANGED <<mem, known, tTimeout, where, age, waits, cur, signals, g_bPrdExit, ran>>

prdExit ==
    /\ pc = "loop"
    /\ g_bPrdExit
    /\ pc' = "done"
    /\ UNCHANGED <<tasks, cur, clock, signals, g_bPrdExit, ran>>

\* cyg_cond_timed_wait returns at tMinRemain + tLastCheck at the latest
prdTimeOut ==
    /\ pc = "asleep"
    /\ elapsed >= tMinRemain
    /\ pc' = "woken"
    /\ UNCHANGED <<tasks, cur, clock, signals, g_bPrdExit, ran>>

\* mutated: tLastCheck is not moved on after the sleep
prdBeginPassKeepsClock ==
    /\ pc = "woken"
    /\ tPeriod' = elapsed
    /\ mem' = ListInit(mem, list)
    /\ ran' = {}
    /\ pc' = "pass"
    /\ UNCHANGED <<known, tTimeout, tRemain, where, age, waits, cur, elapsed, tMinRemain,
                   signals, g_bPrdExit>>

\* The lock is back: look at the clock and begin a pass.
prdBeginPass ==
    /\ pc = "woken"
    /\ tPeriod' = elapsed
    /\ elapsed' = 0
    /\ mem' = ListInit(mem, list)
    /\ ran' = {}
    /\ pc' = "pass"
    /\ UNCHANGED <<known, tTimeout, tRemain, where, age, waits, cur, tMinRemain, signals, g_bPrdExit>>

Move(t, h) ==
    /\ mem' = ListAttach(ListDetach(mem, t), t, h)
    /\ where' = [where EXCEPT ![t] = h]

Due(t) == Clamped(t) <= tPeriod

\* mutated: the time slept is not counted off
LeftUncounted(t) == Clamped(t)

Left(t) == IF Due(t) THEN Clamped(t) ELSE Clamped(t) - tPeriod

\* The next waiting task: put aside, and called back if its time has come.
prdTake ==
    LET t == mem.next[g_lPrdTaskHeader]
    IN  /\ pc = "pass"
        /\ ~ListIsEmpty(mem, g_lPrdTaskHeader)
        /\ Move(t, list)
        /\ tRemain' = [tRemain EXCEPT ![t] = Left(t)]
        /\ IF Due(t) THEN pc' = "callback" /\ cur' = t /\ ran' = ran \cup {t}
                     ELSE UNCHANGED <<pc, cur, ran>>
        /\ UNCHANGED <<known, tTimeout, age, waits, clock, signals, g_bPrdExit>>

\* The callback returned and the lock is back; its task may have been deleted or
\* added anew meanwhile, its fields are written all the same.
prdReturn ==
    /\ pc = "callback"
    /\ tRemain' = [tRemain EXCEPT ![cur] = tTimeout[cur]]
    /\ age' = [age EXCEPT ![cur] = elapsed]
    /\ IF where[cur] = list THEN Restart(cur, elapsed) ELSE UNCHANGED waits
    /\ cur' = NoTask
    /\ pc' = "pass"
    /\ UNCHANGED <<mem, known, tTimeout, where, clock, signals, g_bPrdExit, ran>>

\* The pass is over: first its own tasks, then the added ones go back to the
\* waiting list, one after the other.
prdMerge ==
    /\ pc = "pass"
    /\ ListIsEmpty(mem, g_lPrdTaskHeader)
    /\ pc' = "merge"
    /\ UNCHANGED <<tasks, cur, clock, signals, g_bPrdExit, ran>>

prdPutBack(h) ==
    /\ pc = "merge"
    /\ ~ListIsEmpty(mem, h)
    /\ h = g_lPrdTaskAdd => ListIsEmpty(mem, list)
    /\ Move(mem.next[h], g_lPrdTaskHeader)
    /\ age' = IF h = list THEN age ELSE [age EXCEPT ![mem.next[h]] = elapsed]
    /\ UNCHANGED <<known, tTimeout, tRemain, waits, pc, cur, clock, signals, g_bPrdExit, ran>>

prdLoop ==
    /\ pc = "merge"
    /\ ListIsEmpty(mem, list)
    /\ ListIsEmpty(mem, g_lPrdTaskAdd)
    /\ pc' = "loop"
    /\ UNCHANGED <<tasks, cur, clock, signals, g_bPrdExit, ran>>

------------------------------------------------------------------------------
prdRun == \/ prdStart \/ prdSleep \/ prdExit \/ prdTimeOut \/ prdBeginPass
          \/ prdTake \/ prdReturn \/ prdMerge \/ prdLoop
          \/ \E h \in {list, g_lPrdTaskAdd} : prdPutBack(h)

Caller == \/ prdUninit
          \/ \E t \in Task : \/ prdDelTask(t)
                             \/ \E d \in Timeouts : prdAddTask(t, d) \/ ResetTask(t, d)

\* After prdUninit has joined the thread the mutex is gone: nobody calls.
Done == pc = "done" /\ UNCHANGED vars

Next == prdRun \/ (pc # "done" /\ Caller) \/ Signal \/ Tick \/ Done

Spec == Init /\ [][Next]_vars

\* The thread runs when it can (a callback returns), callers that unlocked go on
\* to signal, and the clock ticks.
FairSpec == Spec /\ WF_vars(prdRun) /\ WF_vars(Signal) /\ WF_vars(Tick)

------------------------------------------------------------------------------
(* Properties *)

PC == {"start", "loop", "asleep", "woken", "pass", "callback", "merge", "done"}

\* The service's state is of its types; a callback runs exactly when prdRun is
\* in its callback.
TypeOK ==
    /\ mem \in Memory
    /\ known \subseteq Task
    /\ tTimeout \in [Task -> Timeouts \cup {0}]
    /\ tRemain \in [Task -> 0..TickMax]
    /\ pc \in PC
    /\ cur \in Task \cup {NoTask}
    /\ cur # NoTask <=> pc = "callback"
    /\ elapsed \in 0..MaxElapsed
    /\ tPeriod \in 0..MaxElapsed
    /\ tMinRemain \in 0..MaxWait
    /\ signals \in 0..MaxSignals
    /\ g_bPrdExit \in BOOLEAN
    /\ where \in [Node -> Node]
    /\ age \in [Task -> Nat] /\ waited \in [Task -> Nat] /\ ahead \in [Task -> Nat]
    /\ ran \subseteq Task

\* However the callers, the callbacks and prdRun interleave, a walk of each of
\* the three lists meets exactly the tasks that belong there: no task is lost,
\* none is in two lists, a deleted task is in none.
ListsComplete ==
    /\ Linked(mem)
    /\ \A h \in Heads : ListMembers(mem, h) = {t \in Task : where[t] = h}

\* prdRun picks t, with the lock held; it calls it back after the unlock.
Picks(t) == cur # t /\ cur' = t

\* A task that is deleted, or was never added, when prdRun looks for the next one is
\* not picked: prdDelTask takes effect even in the middle of a pass.  (One deleted
\* after it was picked, between the unlock and the call, is still called back.)
PicksOnlyArmed == [][\A t \in Task : Picks(t) => where[t] # t]_vars

\* A pass calls each task at most once, although a task with timeout 0 may add
\* itself again in its callback: g_lPrdTaskAdd keeps it for the next pass, so
\* that every pass ends.
OncePerPass == [][\A t \in Task : Picks(t) => t \notin ran]_vars

\* How early a task may be called back: prdRun charges it the whole pass in which it was
\* added or called back, so that it comes up to as many ticks before its tTimeout as that
\* pass had run by then, and never earlier, whatever sleeps, early wake-ups and other
\* callbacks lie between.
EarlyByPassAtMost == [][\A t \in Task : Picks(t) => waited[t] + ahead[t] >= tTimeout[t]]_vars

\* No lost wake-up: when prdRun is asleep and no caller is about to signal,
\* there is no added task it has not seen, and it wakes no later than the first
\* waiting task is due.
NoOversleep ==
    pc = "asleep" /\ signals = 0 =>
        \A t \in Task : where[t] # t =>
            /\ where[t] = g_lPrdTaskHeader
            /\ tMinRemain <= elapsed \/ tMinRemain - elapsed + age[t] <= tTimeout[t]

\* A task that stays registered and is not touched again is called back again
\* and again, whatever callers do to the other tasks.
NoStarvation ==
    \A t \in Task :
        \/ []<>(where[t] = t \/ g_bPrdExit)
        \/ []<><<Picks(t) \/ (where'[t] = g_lPrdTaskAdd /\ signals' > signals)>>_vars

------------------------------------------------------------------------------
(* The inductive invariant *)

\* Every pointer stays inside its list, heads and lone nodes are where they
\* should be, a walk from a head meets the nodes that belong there, and the pass's own
\* list is empty between passes.
RingInv ==
    /\ Linked(mem)
    /\ Closed(mem, where)
    /\ \A h \in Heads : where[h] = h
    /\ \A t \in Task : where[t] \in Heads \cup {t}
    /\ \A t \in Task : where[t] = t => mem.next[t] = t
    /\ \A h \in Heads : RingOf(mem, where, h, ListWalk(mem, h))
    /\ pc \in {"start", "loop", "asleep", "woken", "done"} => mem.next[list] = list

PrdInv == TypeOK /\ RingInv

------------------------------------------------------------------------------
(* Inductive together with PrdInv: where a task may be, and when it is due *)

\* Tasks called back in this pass have left the waiting list; what was added since the
\* pass began has been taken up before prdRun sleeps, or a signal is still to come.
StageInv ==
    /\ pc = "callback" => cur \in ran
    /\ pc \in {"pass", "callback"} => \A t \in ran : where[t] # g_lPrdTaskHeader
    /\ pc = "start" => \A t \in Task : where[t] = t
    /\ pc = "loop" \/ (pc = "asleep" /\ signals = 0) => \A t \in Task : where[t] # g_lPrdTaskAdd

\* Ticks before the last look at the clock that are not counted off yet
Owed(t) == IF pc \in {"pass", "callback"} /\ where[t] = g_lPrdTaskHeader THEN tPeriod ELSE 0

\* What is left of a task's time and what has gone by since it was taken up or called
\* back make up its timeout: no less, or the callback comes too early, and no more
\* unless it is overdue, or it comes too late.
TimeInv(t) ==
    /\ where[t] = g_lPrdTaskAdd => tRemain[t] >= tTimeout[t]
    /\ where[t] \in {g_lPrdTaskHeader, list} /\ t # cur =>
        /\ age[t] >= TickMax \/ Clamped(t) + age[t] >= tTimeout[t] + elapsed + Owed(t)
        /\ Clamped(t) = 0 \/ Clamped(t) + age[t] <= tTimeout[t] + elapsed + Owed(t)
    /\ where[t] = g_lPrdTaskHeader /\ pc = "asleep" => tMinRemain <= Clamped(t)

\* What the code has charged a task has gone by, or is what it is ahead.
WaitInv(t) ==
    /\ where[t] \in {g_lPrdTaskHeader, list} /\ t # cur =>
        waited[t] >= TickMax \/ age[t] <= waited[t] + ahead[t]
    /\ where[t] = g_lPrdTaskAdd /\ pc \in {"pass", "callback", "merge"} =>
        waited[t] >= TickMax \/ elapsed <= waited[t] + ahead[t]

TimingInv == StageInv /\ \A t \in Task : TimeInv(t)

WaitingInv == \A t \in Task : WaitInv(t)
=============================================================================
