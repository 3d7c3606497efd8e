-------------------------------- MODULE Mcu --------------------------------
(***************************************************************************)
(* The link to the motor and battery controller: Host/LibCamera/Src/MCU.c. *)
(* A caller sends a command over the serial line and reads the answer, or  *)
(* leaves the answer (mcuSendCommand_NoResponse) to the next caller or to a *)
(* period task, whichever comes first.  mcuLock is held throughout.  The   *)
(* controller answers commands in order; it may drop one, and an answer may *)
(* come after the reader has given up (1 second without a byte).           *)
(*                                                                         *)
(* A command is a number; its answer is a head (leading byte and length)   *)
(* and a body (data, checksum, suffix).                                    *)
(***************************************************************************)
EXTENDS Integers, Sequences

CONSTANTS Caller,       \* threads that send commands
          Prd,          \* the period thread
          NoThread,
          MaxCmd        \* bound: commands sent

ASSUME CallerAssumption == Prd \notin Caller /\ NoThread \notin Caller \cup {Prd}
ASSUME CmdAssumption    == MaxCmd \in Nat

Thread == Caller \cup {Prd}
None   == 0             \* no command; a failed receive

VARIABLES
    owner,              \* holder of g_rmutex_MCU
    g_bSendMCU,         \* an answer is outstanding that nobody waits for
    linked,             \* g_prdtskReadMCU is in a list of the period service
    g_nMCU_Debug_Count, \* commands sent minus answers received
    g_bCrashedLock,     \* the code's own check of that count has failed
    ledError,           \* LED_ERROR_MCU is shown
    pc,
    cmd,                \* the command a caller sent
    ignore,             \* the caller came through mcuSendCommand_NoResponse
    result,             \* the command whose answer it got, or None
    sent,               \* number of commands sent
    inbox,              \* the controller: commands not answered yet
    uart,               \* received and unread: heads and bodies
    gaveUp              \* history: a reader gave up before the answer came

vars == <<owner, g_bSendMCU, linked, g_nMCU_Debug_Count, g_bCrashedLock, ledError,
          pc, cmd, ignore, result, sent, inbox, uart, gaveUp>>

Head_(c) == [part |-> "head", of |-> c]
Body(c)  == [part |-> "body", of |-> c]

Init ==
    /\ owner = NoThread
    /\ g_bSendMCU = FALSE
    /\ linked = FALSE
    /\ g_nMCU_Debug_Count = 0
    /\ g_bCrashedLock = FALSE
    /\ ledError = FALSE
    /\ pc = [t \in Thread |-> "idle"]
    /\ cmd = [t \in Thread |-> None]
    /\ ignore = [t \in Thread |-> FALSE]
    /\ result = [t \in Thread |-> None]
    /\ sent = 0
    /\ inbox = <<>>
    /\ uart = <<>>
    /\ gaveUp = FALSE

Go(t, place) == pc' = [pc EXCEPT ![t] = place]

------------------------------------------------------------------------------
(* mcuSendCommand and mcuSendCommand_NoResponse *)

\* mutated: an answer nobody waits for is not read first
StartUndrained == "send"

\* An answer nobody waits for is read first.
Start == IF g_bSendMCU THEN "drain" ELSE "send"

mcuLock == owner = NoThread

mcuSendCommand(t, noresponse) ==
    /\ t \in Caller /\ pc[t] = "idle" /\ mcuLock
    /\ sent < MaxCmd
    /\ owner' = t
    /\ ignore' = [ignore EXCEPT ![t] = noresponse]
    /\ cmd' = [cmd EXCEPT ![t] = None]
    /\ result' = [result EXCEPT ![t] = None]
    /\ Go(t, Start)
    /\ UNCHANGED <<g_bSendMCU, linked, g_nMCU_Debug_Count, g_bCrashedLock, ledError,
                   sent, inbox, uart, gaveUp>>

_mcuSend(t) ==
    /\ pc[t] = "send"
    /\ sent' = sent + 1
    /\ cmd' = [cmd EXCEPT ![t] = sent']
    /\ g_nMCU_Debug_Count' = g_nMCU_Debug_Count + 1
    /\ g_bCrashedLock' = IF g_nMCU_Debug_Count' # 1 THEN TRUE ELSE g_bCrashedLock
    /\ inbox' = Append(inbox, sent')
    /\ Go(t, IF ignore[t] THEN "leave" ELSE "recv")
    /\ UNCHANGED <<owner, g_bSendMCU, linked, ledError, ignore, result, uart, gaveUp>>

\* mutated: the task is not added when an answer is left unread
LeaveUnwatched(t) ==
    /\ pc[t] = "leave"
    /\ g_bSendMCU' = TRUE
    /\ owner' = NoThread
    /\ Go(t, "idle")
    /\ UNCHANGED <<linked, g_nMCU_Debug_Count, g_bCrashedLock, ledError, cmd, ignore,
                   result, sent, inbox, uart, gaveUp>>

\* The answer is left to the period task.
Leave(t) ==
    /\ pc[t] = "leave"
    /\ g_bSendMCU' = TRUE
    /\ linked' = TRUE
    /\ owner' = NoThread
    /\ Go(t, "idle")
    /\ UNCHANGED <<g_nMCU_Debug_Count, g_bCrashedLock, ledError, cmd, ignore, result,
                   sent, inbox, uart, gaveUp>>

------------------------------------------------------------------------------
(* prdTask_ReadMCU *)

\* The period service picks the task: its node may be deleted and added again
\* before the callback has the lock.
prdTask_ReadMCU ==
    /\ linked /\ pc[Prd] = "idle"
    /\ Go(Prd, "called")
    /\ UNCHANGED <<owner, g_bSendMCU, linked, g_nMCU_Debug_Count, g_bCrashedLock,
                   ledError, cmd, ignore, result, sent, inbox, uart, gaveUp>>

ReadMCU ==
    /\ pc[Prd] = "called" /\ mcuLock
    /\ IF g_bSendMCU THEN owner' = Prd /\ Go(Prd, "drain")
                     ELSE owner' = owner /\ Go(Prd, "idle")
    /\ UNCHANGED <<g_bSendMCU, linked, g_nMCU_Debug_Count, g_bCrashedLock, ledError,
                   cmd, ignore, result, sent, inbox, uart, gaveUp>>

------------------------------------------------------------------------------
(* _mcuRecv.  Every caller passes a buffer larger than an answer, so that   *)
(* the return for a buffer too small is not taken.                         *)

Reading(t) == pc[t] \in {"recv", "drain"}

\* mutated: a failed receive does not count as one
CountRecvFailing(c) ==
    /\ g_nMCU_Debug_Count' = g_nMCU_Debug_Count - (IF c = None THEN 0 ELSE 1)
    /\ g_bCrashedLock' = IF g_nMCU_Debug_Count' # 0 THEN TRUE ELSE g_bCrashedLock

CountRecv(c) ==
    /\ g_nMCU_Debug_Count' = g_nMCU_Debug_Count - 1
    /\ g_bCrashedLock' = IF g_nMCU_Debug_Count' # 0 THEN TRUE ELSE g_bCrashedLock

\* mutated: the task is not deleted
DrainedStillLinked == g_bSendMCU' = FALSE /\ UNCHANGED linked

\* An answer nobody waited for is read: the period task is deleted.
Drained == g_bSendMCU' = FALSE /\ linked' = FALSE

\* The receive ends with the answer to c, or with an error, and so does the
\* caller; a caller that has read an answer nobody waited for goes on to send.
RecvDone(t, c) ==
    /\ CountRecv(c)
    /\ ledError' = (c = None)
    /\ \/ /\ pc[t] \in {"recv", "recv2"}
          /\ result' = [result EXCEPT ![t] = c]
          /\ owner' = NoThread
          /\ Go(t, "idle")
          /\ UNCHANGED <<g_bSendMCU, linked>>
       \/ /\ pc[t] \in {"drain", "drain2"}
          /\ Drained
          /\ owner' = IF t = Prd THEN NoThread ELSE owner
          /\ Go(t, IF t = Prd THEN "idle" ELSE "send")
          /\ UNCHANGED result

RecvHead(t) ==
    /\ Reading(t)
    /\ uart # <<>> /\ Head(uart).part = "head"
    /\ uart' = Tail(uart)
    /\ Go(t, IF pc[t] = "recv" THEN "recv2" ELSE "drain2")
    /\ UNCHANGED <<owner, g_bSendMCU, linked, g_nMCU_Debug_Count, g_bCrashedLock,
                   ledError, cmd, ignore, result, sent, inbox, gaveUp>>

\* Two bytes that are no head: the rest of an answer whose reader gave up.  What is
\* left of it stays in the line, or nothing is.
RecvGarbage(t) ==
    /\ Reading(t)
    /\ uart # <<>> /\ Head(uart).part = "body"
    /\ uart' \in {uart, Tail(uart)}
    /\ RecvDone(t, None)
    /\ UNCHANGED <<cmd, ignore, sent, inbox, gaveUp>>

\* As many bytes as the head says, whatever they are: the checksum is not looked at.
RecvBody(t) ==
    /\ pc[t] \in {"recv2", "drain2"}
    /\ uart # <<>>
    /\ uart' = Tail(uart)
    /\ RecvDone(t, Head(uart).of)
    /\ UNCHANGED <<cmd, ignore, sent, inbox, gaveUp>>

\* 1 second without a byte: the controller has dropped the command, or is late.
RecvTimeOut(t) ==
    /\ pc[t] \in {"recv", "drain", "recv2", "drain2"}
    /\ uart = <<>>
    /\ gaveUp' = (gaveUp \/ inbox # <<>>)
    /\ RecvDone(t, None)
    /\ UNCHANGED <<cmd, ignore, sent, inbox, uart>>

------------------------------------------------------------------------------
(* The controller *)

Answer ==
    /\ inbox # <<>>
    /\ uart' = uart \o <<Head_(Head(inbox)), Body(Head(inbox))>>
    /\ inbox' = Tail(inbox)
    /\ UNCHANGED <<owner, g_bSendMCU, linked, g_nMCU_Debug_Count, g_bCrashedLock,
                   ledError, pc, cmd, ignore, result, sent, gaveUp>>

\* The command, or the body of its answer, gets lost.
Drop ==
    /\ inbox # <<>>
    /\ inbox' = Tail(inbox)
    /\ uart' \in {uart, Append(uart, Head_(Head(inbox)))}
    /\ UNCHANGED <<owner, g_bSendMCU, linked, g_nMCU_Debug_Count, g_bCrashedLock,
                   ledError, pc, cmd, ignore, result, sent, gaveUp>>

------------------------------------------------------------------------------
Step(t) == \/ _mcuSend(t) \/ Leave(t)
           \/ RecvHead(t) \/ RecvGarbage(t) \/ RecvBody(t) \/ RecvTimeOut(t)

\* All commands are sent and answered.
Rest == sent = MaxCmd /\ owner = NoThread /\ ~linked /\ pc[Prd] = "idle"
        /\ inbox = <<>> /\ UNCHANGED vars

Next == \/ \E t \in Caller, b \in BOOLEAN : mcuSendCommand(t, b)
        \/ \E t \in Thread : Step(t)
        \/ prdTask_ReadMCU \/ ReadMCU
        \/ Answer \/ Drop \/ Rest

Spec == Init /\ [][Next]_vars

\* Threads run, the period service calls its tasks, the controller answers or not.
FairSpec == /\ Spec
            /\ \A t \in Thread : WF_vars(Step(t))
            /\ WF_vars(prdTask_ReadMCU) /\ WF_vars(ReadMCU)
            /\ WF_vars(Answer \/ Drop)

------------------------------------------------------------------------------
(* Properties *)

Inside == {"send", "leave", "recv", "recv2", "drain", "drain2"}

\* The code's own check (g_nMCU_Debug_Count is 1 after a send and 0 after a
\* receive) never fails: sends and receives alternate, whoever does them and
\* whether or not the controller answers.
NoCrashedLock == ~g_bCrashedLock

\* The period task is in a list exactly while an answer is outstanding, and is
\* never added while it is in one: prdAddTask on a linked node would destroy the
\* lists of the period service.
TaskMatchesDebt ==
    /\ owner = NoThread => linked = g_bSendMCU
    /\ \A t \in Caller : pc[t] = "leave" => ~linked

\* What a caller gets is the answer to its own command, or an error, as long as answers
\* come in time or not at all: also after commands whose answer nobody waited for, and
\* after answers cut short.  (Answers carry no number, so one late answer shifts all
\* that follow until the line falls silent.)
AnswersOwnCommand ==
    gaveUp \/ \A t \in Caller : pc[t] = "idle" => result[t] \in {None, cmd[t]}

\* An answer nobody waits for is read off the line some time, also when no other
\* command follows.
AnswerIsRead == g_bSendMCU ~> ~g_bSendMCU

------------------------------------------------------------------------------
(* The inductive invariant *)

\* How many answers are due when nobody is inside an exchange
Due == IF g_bSendMCU THEN 1 ELSE 0

\* What each place of an exchange says of the count and of the answer left over
PlaceInv(t) ==
    /\ owner = t <=> pc[t] \in Inside
    /\ pc[t] \in {"send", "leave", "recv", "recv2"} => ~g_bSendMCU /\ t # Prd
    /\ pc[t] = "send" => g_nMCU_Debug_Count = 0
    /\ pc[t] \in Inside \ {"send"} => g_nMCU_Debug_Count = 1
    /\ pc[t] \in {"drain", "drain2"} => g_bSendMCU

McuInv ==
    /\ owner \in Thread \cup {NoThread}
    /\ pc \in [Thread -> Inside \cup {"idle", "called"}]
    /\ g_bSendMCU \in BOOLEAN
    /\ g_nMCU_Debug_Count \in Int
    /\ g_bCrashedLock = FALSE
    /\ linked = g_bSendMCU
    /\ owner = NoThread => g_nMCU_Debug_Count = Due
    /\ \A t \in Thread : PlaceInv(t)

\* What is on its way between the controller and the reader, as long as no reader has
\* given up too early: nothing; the answer to the command sent last, or what is left of
\* it; its body, after the head was read.
Silent   == inbox = <<>> /\ uart = <<>>
Coming   == \/ inbox = <<sent>> /\ uart = <<>>
            \/ inbox = <<>> /\ uart \in {<<>>, <<Head_(sent)>>, <<Head_(sent), Body(sent)>>}
HalfRead == inbox = <<>> /\ uart \in {<<>>, <<Body(sent)>>}

\* The line holds no answer but the one that is due, wherever the threads are.
LineInv ==
    /\ cmd \in [Thread -> Nat] /\ result \in [Thread -> Nat] /\ sent \in Nat
    /\ owner = NoThread => IF g_bSendMCU THEN Coming ELSE Silent
    /\ \A t \in Thread :
        /\ pc[t] = "send" => Silent
        /\ pc[t] \in {"leave", "recv", "drain"} => Coming
        /\ pc[t] \in {"recv2", "drain2"} => HalfRead
        /\ pc[t] \in {"recv", "recv2"} => cmd[t] = sent
    /\ \A t \in Caller : result[t] \in (IF pc[t] = "idle" THEN {None, cmd[t]} ELSE {None})

\* Inductive, together with McuInv.
AnswerInv ==
    /\ gaveUp \in BOOLEAN
    /\ gaveUp \/ LineInv
=============================================================================
