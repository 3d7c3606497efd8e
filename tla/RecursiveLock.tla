--------------------------- MODULE RecursiveLock ---------------------------
(***************************************************************************)
(* What the recursive lock of Host/LibCamera/Src/PeriodTask.c promises its *)
(* callers: at any moment at most one thread is inside, a thread that is   *)
(* inside may enter again, and it is out when it has left as often as it   *)
(* entered.  Waiting on the condition variable leaves the lock from a      *)
(* nesting of one and comes back to a nesting of one, which to the other   *)
(* threads is a leave and an enter.                                        *)
(***************************************************************************)
EXTENDS Naturals

CONSTANT Thread

VARIABLE depth          \* depth[t]: prdLock calls t has not yet undone

rlvars == depth

Init == depth = [t \in Thread |-> 0]

\* Entered by nobody but (possibly) t itself.
Enter(t) ==
    /\ \A u \in Thread \ {t} : depth[u] = 0
    /\ depth' = [depth EXCEPT ![t] = @ + 1]

Leave(t) ==
    /\ depth[t] > 0
    /\ depth' = [depth EXCEPT ![t] = @ - 1]

Next == \E t \in Thread : Enter(t) \/ Leave(t)

Spec == Init /\ [][Next]_rlvars
=============================================================================
