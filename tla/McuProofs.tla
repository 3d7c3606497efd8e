----------------------------- MODULE McuProofs -----------------------------
(***************************************************************************)
(* Sends and receives alternate on the line to the controller, for any set *)
(* of callers and any number of commands, late answers included.           *)
(***************************************************************************)
EXTENDS Mcu, TLAPS

\* At the end of a receive the count is back to zero and the lock, the answer left
\* over and the period task agree again.
LEMMA RecvDoneKeepsInv ==
    ASSUME McuInv, NEW t \in Thread, NEW c,
           pc[t] \in {"recv", "recv2", "drain", "drain2"},
           RecvDone(t, c)
    PROVE  McuInv'
<1> USE CallerAssumption DEF Thread, Inside, None
<1>1. owner = t /\ g_nMCU_Debug_Count = 1
  BY DEF McuInv, PlaceInv
<1>2. \A u \in Thread : u # t => pc[u] \in {"idle", "called"}
  BY <1>1 DEF McuInv, PlaceInv
<1>3. g_nMCU_Debug_Count' = 0 /\ g_bCrashedLock' = FALSE
  BY <1>1 DEF RecvDone, CountRecv, McuInv
<1>4. CASE pc[t] \in {"recv", "recv2"}
  <2>1. /\ owner' = NoThread /\ pc' = [pc EXCEPT ![t] = "idle"]
        /\ g_bSendMCU' = g_bSendMCU /\ linked' = linked
    BY <1>4 DEF RecvDone, Go
  <2>2. ~g_bSendMCU
    BY <1>4 DEF McuInv, PlaceInv
  <2>3. \A u \in Thread : PlaceInv(u)'
    BY <1>2, <1>3, <2>1, <2>2 DEF PlaceInv, McuInv
  <2> QED
    BY <1>3, <2>1, <2>2, <2>3 DEF McuInv, Due
<1>5. CASE pc[t] \in {"drain", "drain2"}
  <2>1. ~g_bSendMCU' /\ ~linked' /\ g_bSendMCU' \in BOOLEAN /\ linked' = g_bSendMCU'
    BY <1>5 DEF RecvDone, Drained
  <2>2. CASE t = Prd
    <3>1. owner' = NoThread /\ pc' = [pc EXCEPT ![t] = "idle"]
      BY <1>5, <2>2 DEF RecvDone, Go
    <3>2. \A u \in Thread : PlaceInv(u)'
      BY <1>2, <1>3, <2>1, <3>1 DEF PlaceInv, McuInv
    <3> QED
      BY <1>3, <2>1, <3>1, <3>2 DEF McuInv, Due
  <2>3. CASE t # Prd
    <3>1. owner' = t /\ pc' = [pc EXCEPT ![t] = "send"]
      BY <1>1, <1>5, <2>3 DEF RecvDone, Go
    <3>2. \A u \in Thread : PlaceInv(u)'
      BY <1>2, <1>3, <2>1, <2>3, <3>1 DEF PlaceInv, McuInv
    <3> QED
      BY <1>3, <2>1, <3>1, <3>2 DEF McuInv, Due
  <2> QED
    BY <2>2, <2>3
<1> QED
  BY <1>4, <1>5

\* The invariant holds for every set of callers: the lock, the flag g_bSendMCU, the
\* period task and the count of commands agree at every place of MCU.c.
THEOREM McuInvariant == Spec => []McuInv
<1>1. Init => McuInv
  <2> SUFFICES ASSUME Init PROVE McuInv
    OBVIOUS
  <2>1. \A t \in Thread : pc[t] = "idle" /\ owner # t
    BY CallerAssumption DEF Init, Thread
  <2>2. g_bSendMCU = FALSE /\ linked = FALSE /\ g_nMCU_Debug_Count = 0
    BY DEF Init
  <2>3. \A t \in Thread : PlaceInv(t)
    BY <2>1, <2>2 DEF PlaceInv, Inside
  <2>4. pc \in [Thread -> Inside \cup {"idle", "called"}]
    BY DEF Init
  <2>5. owner = NoThread /\ g_bCrashedLock = FALSE
    BY DEF Init
  <2>6. g_nMCU_Debug_Count = Due /\ g_nMCU_Debug_Count \in Int
    BY <2>2 DEF Due
  <2>7. g_bSendMCU \in BOOLEAN /\ linked = g_bSendMCU
    BY <2>2, Zenon
  <2> QED
    BY <2>3, <2>4, <2>5, <2>6, <2>7 DEF McuInv
<1>2. McuInv /\ [Next]_vars => McuInv'
  <2> SUFFICES ASSUME McuInv, [Next]_vars PROVE McuInv'
    OBVIOUS
  <2> USE CallerAssumption DEF Thread, Inside
  <2>1. ASSUME NEW t \in Caller, NEW b \in BOOLEAN, mcuSendCommand(t, b)
        PROVE  McuInv'
    BY <2>1 DEF mcuSendCommand, mcuLock, Start, Go, McuInv, PlaceInv, Due
  <2>2. ASSUME NEW t \in Thread, _mcuSend(t)
        PROVE  McuInv'
    BY <2>2 DEF _mcuSend, Go, McuInv, PlaceInv, Due
  <2>3. ASSUME NEW t \in Thread, Leave(t)
        PROVE  McuInv'
    BY <2>3 DEF Leave, Go, McuInv, PlaceInv, Due
  <2>4. ASSUME NEW t \in Thread, RecvHead(t)
        PROVE  McuInv'
    BY <2>4 DEF RecvHead, Reading, Go, McuInv, PlaceInv, Due
  <2>5. ASSUME NEW t \in Thread, RecvGarbage(t) \/ RecvBody(t) \/ RecvTimeOut(t)
        PROVE  McuInv'
    BY <2>5, RecvDoneKeepsInv DEF RecvGarbage, RecvBody, RecvTimeOut, Reading
  <2>6. CASE prdTask_ReadMCU
    BY <2>6 DEF prdTask_ReadMCU, Go, McuInv, PlaceInv, Due
  <2>7. CASE ReadMCU
    BY <2>7 DEF ReadMCU, mcuLock, Go, McuInv, PlaceInv, Due
  <2>8. CASE Answer \/ Drop
    BY <2>8 DEF Answer, Drop, McuInv, PlaceInv, Due
  <2>9. CASE UNCHANGED vars
    BY <2>9 DEF vars, McuInv, PlaceInv, Due
  <2> QED
    BY <2>1, <2>2, <2>3, <2>4, <2>5, <2>6, <2>7, <2>8, <2>9 DEF Next, Step, Rest
<1> QED
  BY <1>1, <1>2, PTL DEF Spec

\* MCU.c's own check of g_nMCU_Debug_Count never fails.
THEOREM McuNoCrashedLock == Spec => []NoCrashedLock
<1>1. McuInv => NoCrashedLock
  BY DEF McuInv, NoCrashedLock
<1> QED
  BY <1>1, McuInvariant, PTL

\* g_prdtskReadMCU is registered exactly while an answer is outstanding, and is
\* never added while it is registered.
THEOREM McuTaskMatchesDebt == Spec => []TaskMatchesDebt
<1>1. McuInv => TaskMatchesDebt
  BY DEF McuInv, PlaceInv, TaskMatchesDebt, Thread
<1> QED
  BY <1>1, McuInvariant, PTL

\* At the end of a receive the line is silent again, when what was read is the answer to
\* the command sent last, or nothing is left to come.
LEMMA RecvDoneKeepsLine ==
    ASSUME McuInv, LineInv, NEW t \in Thread, NEW c \in {None, sent},
           pc[t] \in {"recv", "recv2", "drain", "drain2"},
           RecvDone(t, c), inbox' = <<>>, uart' = <<>>,
           UNCHANGED <<cmd, sent>>
    PROVE  LineInv'
<1> USE CallerAssumption DEF Thread, Inside, None
<1>1. Silent'
  BY DEF Silent
<1>2. owner = t /\ \A u \in Thread : u # t => pc[u] \in {"idle", "called"}
  BY DEF McuInv, PlaceInv
<1>3. CASE pc[t] \in {"recv", "recv2"}
  <2>1. /\ result' = [result EXCEPT ![t] = c] /\ owner' = NoThread
        /\ pc' = [pc EXCEPT ![t] = "idle"] /\ g_bSendMCU' = g_bSendMCU
    BY <1>3 DEF RecvDone, Go
  <2>2. ~g_bSendMCU /\ cmd[t] = sent
    BY <1>3 DEF McuInv, PlaceInv, LineInv
  <2>3. result' \in [Thread -> Nat]
    BY <2>1 DEF LineInv
  <2> QED
    BY <1>1, <1>2, <2>1, <2>2, <2>3 DEF LineInv, McuInv
<1>4. CASE pc[t] \in {"drain", "drain2"}
  <2>1. /\ ~g_bSendMCU' /\ result' = result
        /\ pc' = [pc EXCEPT ![t] = IF t = Prd THEN "idle" ELSE "send"]
    BY <1>4 DEF RecvDone, Drained, Go
  <2>2. CASE t = Prd
    BY <1>1, <1>2, <2>1, <2>2 DEF LineInv, McuInv
  <2>3. CASE t # Prd
    BY <1>1, <1>2, <2>1, <2>3 DEF LineInv, McuInv
  <2> QED
    BY <2>2, <2>3
<1> QED
  BY <1>3, <1>4

\* Every step keeps what is on the line, until a reader gives up too early.
LEMMA LineStep == McuInv /\ AnswerInv /\ [Next]_vars => AnswerInv'
<1> SUFFICES ASSUME McuInv, AnswerInv, [Next]_vars PROVE AnswerInv'
  OBVIOUS
<1>1. gaveUp' \in BOOLEAN /\ (gaveUp => gaveUp')
  BY DEF AnswerInv, Next, Step, mcuSendCommand, _mcuSend, Leave, RecvHead, RecvGarbage, RecvBody,
         RecvTimeOut, prdTask_ReadMCU, ReadMCU, Answer, Drop, Rest, vars
<1> SUFFICES ASSUME LineInv, ~gaveUp' PROVE LineInv'
  BY <1>1 DEF AnswerInv
<1> USE CallerAssumption DEF Thread, Inside, None
<1>3. ASSUME NEW t \in Caller, NEW b \in BOOLEAN, mcuSendCommand(t, b) PROVE LineInv'
  BY <1>3 DEF mcuSendCommand, mcuLock, Start, Go, LineInv, McuInv, PlaceInv, Silent, Coming, HalfRead
<1>4. ASSUME NEW t \in Thread, _mcuSend(t) PROVE LineInv'
  <2>1. t \in Caller /\ owner = t /\ \A u \in Thread : u # t => pc[u] \in {"idle", "called"}
    BY <1>4 DEF _mcuSend, McuInv, PlaceInv
  <2>0. inbox = <<>> /\ uart = <<>> /\ sent' \in Nat
    BY <1>4 DEF _mcuSend, LineInv, Silent
  <2>2. inbox' = <<sent'>> /\ uart' = <<>>
    <3>1. inbox' = Append(<<>>, sent') /\ uart' = uart
      BY <1>4, <2>0 DEF _mcuSend
    <3> QED
      BY <2>0, <3>1
  <2>3. Coming'
    BY <2>2 DEF Coming
  <2>4. sent' \in Nat /\ cmd' \in [Thread -> Nat] /\ cmd'[t] = sent'
    BY <1>4 DEF _mcuSend, LineInv
  <2>5. pc' = [pc EXCEPT ![t] = IF ignore[t] THEN "leave" ELSE "recv"]
    BY <1>4 DEF _mcuSend, Go
  <2>6. UNCHANGED <<owner, result>> /\ \A u \in Thread : u # t => cmd'[u] = cmd[u]
    BY <1>4 DEF _mcuSend, LineInv
  <2>7. pc[t] # "idle" /\ pc'[t] # "idle" /\ (IF ignore[t] THEN pc'[t] = "leave" ELSE pc'[t] = "recv")
    BY <1>4, <2>5 DEF _mcuSend, McuInv
  <2>8. \A u \in Caller : result'[u] \in (IF pc'[u] = "idle" THEN {None, cmd'[u]} ELSE {None})
    BY <2>1, <2>5, <2>6, <2>7 DEF LineInv, McuInv
  <2> QED
    BY <2>1, <2>3, <2>4, <2>5, <2>6, <2>7, <2>8 DEF LineInv, McuInv
<1>5. ASSUME NEW t \in Thread, Leave(t) PROVE LineInv'
  <2>1. \A u \in Thread : u # t => pc[u] \in {"idle", "called"}
    BY <1>5 DEF Leave, McuInv, PlaceInv
  <2>2. /\ pc[t] = "leave" /\ pc' = [pc EXCEPT ![t] = "idle"] /\ g_bSendMCU' = TRUE
        /\ UNCHANGED <<cmd, result, sent, inbox, uart>>
    BY <1>5 DEF Leave, Go
  <2>3. Coming /\ Coming'
    BY <2>2 DEF LineInv, Coming
  <2>4. t \in Caller => result[t] = None
    BY <2>2 DEF LineInv
  <2> QED
    BY <2>1, <2>2, <2>3, <2>4 DEF LineInv, McuInv
<1>6. ASSUME NEW t \in Thread, RecvHead(t) PROVE LineInv'
  <2>1. owner = t /\ \A u \in Thread : u # t => pc[u] \in {"idle", "called"}
    BY <1>6 DEF RecvHead, Reading, McuInv, PlaceInv
  <2>2. Coming /\ uart # <<>> /\ uart' = Tail(uart) /\ inbox' = inbox /\ sent' = sent
    BY <1>6 DEF RecvHead, Reading, LineInv
  <2>3. uart \in {<<Head_(sent)>>, <<Head_(sent), Body(sent)>>} /\ inbox = <<>>
    BY <2>2 DEF Coming
  <2>4. HalfRead'
    <3>1. uart = <<Head_(sent)>> => uart' = <<>>
      BY <2>2
    <3>2. uart = <<Head_(sent), Body(sent)>> => uart' = <<Body(sent)>>
      BY <2>2
    <3>3. uart' \in {<<>>, <<Body(sent)>>}
      BY <2>3, <3>1, <3>2
    <3> QED
      BY <2>2, <2>3, <3>3 DEF HalfRead, Body
  <2>5. pc' = [pc EXCEPT ![t] = IF pc[t] = "recv" THEN "recv2" ELSE "drain2"]
    BY <1>6 DEF RecvHead, Go
  <2>6. UNCHANGED <<owner, cmd, result, g_bSendMCU>>
    BY <1>6 DEF RecvHead
  <2>7. pc[t] \in {"recv", "drain"}
    BY <1>6 DEF RecvHead, Reading
  <2> QED
    BY <2>1, <2>2, <2>4, <2>5, <2>6, <2>7 DEF LineInv, McuInv
<1>7. ASSUME NEW t \in Thread, RecvGarbage(t) PROVE LineInv'
  <2>1. Coming /\ uart # <<>> /\ Head(uart).part = "body"
    BY <1>7 DEF RecvGarbage, Reading, LineInv
  <2> QED
    BY <2>1 DEF Coming, Head_, Body
<1>8. ASSUME NEW t \in Thread, RecvBody(t) PROVE LineInv'
  <2>1. HalfRead /\ uart # <<>>
    BY <1>8 DEF RecvBody, LineInv
  <2>2. uart = <<Body(sent)>> /\ inbox = <<>>
    BY <2>1 DEF HalfRead
  <2>3. Head(uart).of = sent /\ uart' = <<>> /\ inbox' = <<>>
    BY <1>8, <2>2 DEF RecvBody, Body
  <2>4. RecvDone(t, sent) /\ pc[t] \in {"recv", "recv2", "drain", "drain2"} /\ UNCHANGED <<cmd, sent>>
    BY <1>8, <2>3 DEF RecvBody
  <2> QED
    BY <2>3, <2>4, RecvDoneKeepsLine
<1>9. ASSUME NEW t \in Thread, RecvTimeOut(t) PROVE LineInv'
  <2>1. inbox = <<>> /\ uart = <<>>
    BY <1>1, <1>9 DEF RecvTimeOut, AnswerInv
  <2>2. /\ RecvDone(t, None) /\ pc[t] \in {"recv", "recv2", "drain", "drain2"}
        /\ UNCHANGED <<cmd, sent>> /\ inbox' = <<>> /\ uart' = <<>>
    BY <1>9, <2>1 DEF RecvTimeOut
  <2> QED
    BY <2>2, RecvDoneKeepsLine
<1>10. CASE prdTask_ReadMCU
  BY <1>10 DEF prdTask_ReadMCU, Go, LineInv, McuInv, PlaceInv, Silent, Coming, HalfRead
<1>11. CASE ReadMCU
  BY <1>11 DEF ReadMCU, mcuLock, Go, LineInv, McuInv, PlaceInv, Silent, Coming, HalfRead
<1>12. CASE Answer \/ Drop
  <2>1. inbox # <<>> /\ UNCHANGED <<owner, pc, cmd, result, sent, g_bSendMCU>>
    BY <1>12 DEF Answer, Drop
  <2>2. ~Silent /\ ~HalfRead
    BY <2>1 DEF Silent, HalfRead
  <2>3. Coming => Coming'
    <3> HAVE Coming
    <3>1. inbox = <<sent>> /\ uart = <<>>
      BY <2>1 DEF Coming
    <3>2. inbox' = <<>> /\ uart' \in {<<>>, <<Head_(sent)>>, <<Head_(sent), Body(sent)>>}
      BY <1>12, <3>1 DEF Answer, Drop
    <3> QED
      BY <2>1, <3>2 DEF Coming, Head_, Body
  <2> QED
    BY <2>1, <2>2, <2>3 DEF LineInv
<1>13. CASE UNCHANGED vars
  BY <1>13 DEF vars, LineInv, Silent, Coming, HalfRead
<1> QED
  BY <1>3, <1>4, <1>5, <1>6, <1>7, <1>8, <1>9, <1>10, <1>11, <1>12, <1>13 DEF Next, Step, Rest

\* Until a reader gives up on an answer that is still to come, every caller of
\* mcuSendCommand gets the answer to its own command or an error, for any number of callers
\* and commands, answers left to others and answers lost included.
THEOREM McuAnswersOwnCommand == Spec => []AnswersOwnCommand
<1>1. Init => AnswerInv
  <2> SUFFICES ASSUME Init PROVE AnswerInv
    OBVIOUS
  <2>1. Silent /\ ~g_bSendMCU
    BY DEF Init, Silent
  <2>2. /\ cmd \in [Thread -> Nat] /\ result \in [Thread -> Nat] /\ sent \in Nat
        /\ \A t \in Thread : pc[t] = "idle" /\ result[t] = None
    BY DEF Init, None
  <2>3. LineInv
    BY <2>1, <2>2 DEF LineInv, Thread
  <2> QED
    BY <2>3 DEF Init, AnswerInv
<1>2. AnswerInv => AnswersOwnCommand
  BY DEF AnswerInv, LineInv, AnswersOwnCommand
<1> QED
  BY <1>1, <1>2, McuInvariant, LineStep, PTL DEF Spec
=============================================================================
