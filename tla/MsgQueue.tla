------------------------------ MODULE MsgQueue -----------------------------
(***************************************************************************)
(* A message queue between threads: Host/LibCamera/Src/Msg.c.              *)
(* A list under a mutex, a semaphore that counts messages for receivers,   *)
(* one that counts free places for senders (when the queue has a limit),   *)
(* and, when the queue is to be watched by select, a pipe that holds one   *)
(* byte per message.                                                       *)
(***************************************************************************)
EXTENDS Integers, Sequences, FiniteSets

CONSTANTS Sender, Receiver,     \* threads
          NoThread,
          Selector,             \* the receiver of a queue with a pipe
          Limits,               \* limits of queues; 0: no limit
          PipeSize,             \* bytes the pipe holds
          MaxMsg                \* bound: calls of SendMsg and TrySendMsg

ASSUME ThreadAssumption == /\ Sender \cap Receiver = {} /\ IsFiniteSet(Sender \cup Receiver)
                           /\ NoThread \notin Sender \cup Receiver
                           /\ Selector \in Receiver
ASSUME LimitAssumption  == Limits \subseteq Nat /\ PipeSize \in Nat /\ MaxMsg \in Nat

Thread    == Sender \cup Receiver
Message   == 1 .. MaxMsg
NoMessage == 0

VARIABLES
    iMaxMsgLimit,       \* places, or 0: no limit
    bFDEvent,           \* the queue has a pipe, and its receiver selects on it
    plMsgList,          \* the messages, oldest first
    sMsgSemConsumer,
    sMsgSemProducer,
    ptmMsg,             \* holder of the mutex
    pipe,               \* bytes in the pipe
    pc,
    msg,                \* the message a thread sends, or was given
    bOk,                \* PushMsgNode or PopMsgNode has succeeded
    calls               \* messages handed to SendMsg or TrySendMsg so far

kind == <<iMaxMsgLimit, bFDEvent>>
vars == <<kind, plMsgList, sMsgSemConsumer, sMsgSemProducer, ptmMsg, pipe, pc, msg, bOk, calls>>

\* CreateMsgQueue
Init ==
    /\ iMaxMsgLimit \in Limits
    /\ bFDEvent \in BOOLEAN
    /\ plMsgList = <<>>
    /\ sMsgSemConsumer = 0
    /\ sMsgSemProducer = iMaxMsgLimit
    /\ ptmMsg = NoThread
    /\ pipe = 0
    /\ pc = [t \in Thread |-> "idle"]
    /\ msg = [t \in Thread |-> NoMessage]
    /\ bOk = [t \in Thread |-> FALSE]
    /\ calls = 0

\* A step of a call; what CreateMsgQueue set stays.
Go(t, from, to) == pc[t] = from /\ pc' = [pc EXCEPT ![t] = to] /\ UNCHANGED kind

------------------------------------------------------------------------------
(* Sending *)

\* A semaphore that is not used when the queue has no limit.
TakePlace == IF iMaxMsgLimit > 0
             THEN sMsgSemProducer > 0 /\ sMsgSemProducer' = sMsgSemProducer - 1
             ELSE UNCHANGED sMsgSemProducer

NewMsg(t) == /\ calls < MaxMsg
             /\ calls' = calls + 1
             /\ msg' = [msg EXCEPT ![t] = calls']

\* SendMsg waits for a place; TrySendMsg goes on when there is one.
SendMsg(t) ==
    /\ Go(t, "idle", "push")
    /\ NewMsg(t)
    /\ TakePlace
    /\ UNCHANGED <<plMsgList, sMsgSemConsumer, ptmMsg, pipe, bOk>>

\* TrySendMsg gives up when there is no place.
TrySendMsg(t) ==
    /\ pc[t] = "idle"
    /\ NewMsg(t)
    /\ iMaxMsgLimit > 0 /\ sMsgSemProducer = 0
    /\ bOk' = [bOk EXCEPT ![t] = FALSE]
    /\ UNCHANGED <<kind, plMsgList, sMsgSemConsumer, sMsgSemProducer, ptmMsg, pipe, pc>>

\* PushMsgNode: no memory for the copy.
PushNoMemory(t) ==
    /\ Go(t, "push", "post")
    /\ bOk' = [bOk EXCEPT ![t] = FALSE]
    /\ UNCHANGED <<plMsgList, sMsgSemConsumer, sMsgSemProducer, ptmMsg, pipe, msg, calls>>

PushLock(t) ==
    /\ Go(t, "push", "append")
    /\ ptmMsg = NoThread /\ ptmMsg' = t
    /\ UNCHANGED <<plMsgList, sMsgSemConsumer, sMsgSemProducer, pipe, msg, bOk, calls>>

\* mutated: the byte is written before the node is asked for
PushNoNodeWritten(t) ==
    /\ Go(t, "append", "post")
    /\ bOk' = [bOk EXCEPT ![t] = FALSE]
    /\ ptmMsg' = NoThread
    /\ pipe' = IF bFDEvent THEN pipe + 1 ELSE pipe
    /\ UNCHANGED <<plMsgList, sMsgSemConsumer, sMsgSemProducer, msg, calls>>

\* httpAppendNode may fail; the mutex is given back.
PushNoNode(t) ==
    /\ Go(t, "append", "post")
    /\ bOk' = [bOk EXCEPT ![t] = FALSE]
    /\ ptmMsg' = NoThread
    /\ UNCHANGED <<plMsgList, sMsgSemConsumer, sMsgSemProducer, pipe, msg, calls>>

\* mutated: the new node goes in front
PutNodeFront(m) == <<m>> \o plMsgList

PutNode(m) == Append(plMsgList, m)

PushMsgNode(t) ==
    /\ Go(t, "append", "write")
    /\ plMsgList' = PutNode(msg[t])
    /\ bOk' = [bOk EXCEPT ![t] = TRUE]
    /\ UNCHANGED <<sMsgSemConsumer, sMsgSemProducer, ptmMsg, pipe, msg, calls>>

\* The byte for select: the write waits while the pipe is full, mutex in hand.
PushWrite(t) ==
    /\ Go(t, "write", "post")
    /\ IF bFDEvent THEN pipe < PipeSize /\ pipe' = pipe + 1 ELSE UNCHANGED pipe
    /\ ptmMsg' = NoThread
    /\ UNCHANGED <<plMsgList, sMsgSemConsumer, sMsgSemProducer, msg, bOk, calls>>

\* mutated: only the first message of an empty list wakes a receiver
PostedWhenFirst(t) == IF Len(plMsgList) <= 1 THEN 1 ELSE 0

\* Receivers are woken whether or not the push went well.
Posted(t) == 1

Post(t) ==
    /\ Go(t, "post", "idle")
    /\ sMsgSemConsumer' = sMsgSemConsumer + Posted(t)
    /\ UNCHANGED <<plMsgList, sMsgSemProducer, ptmMsg, pipe, msg, bOk, calls>>

------------------------------------------------------------------------------
(* Receiving *)

\* select reports the pipe: SELECT_MSG_Process then calls GetMsg.
Select(t) ==
    /\ t = Selector /\ bFDEvent /\ pipe > 0
    /\ Go(t, "idle", "get")
    /\ UNCHANGED <<plMsgList, sMsgSemConsumer, sMsgSemProducer, ptmMsg, pipe, msg, bOk, calls>>

\* Receivers of a queue without a pipe call at any time.
Call(t) ==
    /\ ~bFDEvent
    /\ Go(t, "idle", "get")
    /\ UNCHANGED <<plMsgList, sMsgSemConsumer, sMsgSemProducer, ptmMsg, pipe, msg, bOk, calls>>

\* GetMsg waits for the semaphore, TryGetMsg goes on when it can be had.
GetMsg(t) ==
    /\ Go(t, "get", "pop")
    /\ sMsgSemConsumer > 0
    /\ sMsgSemConsumer' = sMsgSemConsumer - 1
    /\ msg' = [msg EXCEPT ![t] = NoMessage]
    /\ UNCHANGED <<plMsgList, sMsgSemProducer, ptmMsg, pipe, bOk, calls>>

\* TryGetMsg gives up when the semaphore cannot be had.
TryGetMsg(t) ==
    /\ ~bFDEvent
    /\ Go(t, "get", "idle")
    /\ sMsgSemConsumer = 0
    /\ bOk' = [bOk EXCEPT ![t] = FALSE]
    /\ msg' = [msg EXCEPT ![t] = NoMessage]
    /\ UNCHANGED <<plMsgList, sMsgSemConsumer, sMsgSemProducer, ptmMsg, pipe, calls>>

PopLock(t) ==
    /\ Go(t, "pop", "take")
    /\ ptmMsg = NoThread /\ ptmMsg' = t
    /\ UNCHANGED <<plMsgList, sMsgSemConsumer, sMsgSemProducer, pipe, msg, bOk, calls>>

\* PopMsgNode finds the list empty: a push failed and was counted.
PopEmpty(t) ==
    /\ Go(t, "take", "give")
    /\ plMsgList = <<>>
    /\ bOk' = [bOk EXCEPT ![t] = FALSE]
    /\ ptmMsg' = NoThread
    /\ UNCHANGED <<plMsgList, sMsgSemConsumer, sMsgSemProducer, pipe, msg, calls>>

PopMsgNode(t) ==
    /\ Go(t, "take", "read")
    /\ plMsgList # <<>>
    /\ msg' = [msg EXCEPT ![t] = Head(plMsgList)]
    /\ plMsgList' = Tail(plMsgList)
    /\ bOk' = [bOk EXCEPT ![t] = TRUE]
    /\ UNCHANGED <<sMsgSemConsumer, sMsgSemProducer, ptmMsg, pipe, calls>>

\* The byte is read without waiting: an empty pipe is reported and left so.
PopRead(t) ==
    /\ Go(t, "read", "give")
    /\ pipe' = IF bFDEvent /\ pipe > 0 THEN pipe - 1 ELSE pipe
    /\ ptmMsg' = NoThread
    /\ UNCHANGED <<plMsgList, sMsgSemConsumer, sMsgSemProducer, msg, bOk, calls>>

\* mutated: the place is given back only with a message
GivenWhenPopped(t) == IF bOk[t] THEN 1 ELSE 0

\* The place comes back even when the list was empty.
Given(t) == 1

Give(t) ==
    /\ Go(t, "give", "idle")
    /\ sMsgSemProducer' = IF iMaxMsgLimit > 0 THEN sMsgSemProducer + Given(t)
                          ELSE sMsgSemProducer
    /\ UNCHANGED <<plMsgList, sMsgSemConsumer, ptmMsg, pipe, msg, bOk, calls>>

------------------------------------------------------------------------------
Send(t) == \/ PushNoMemory(t) \/ PushLock(t) \/ PushNoNode(t)
           \/ PushMsgNode(t) \/ PushWrite(t) \/ Post(t)
Receive(t) == \/ GetMsg(t) \/ TryGetMsg(t) \/ PopLock(t) \/ PopEmpty(t)
              \/ PopMsgNode(t) \/ PopRead(t) \/ Give(t)

Next == \/ \E t \in Sender : SendMsg(t) \/ TrySendMsg(t) \/ Send(t)
        \/ \E t \in Receiver : Select(t) \/ Call(t) \/ Receive(t)

\* Threads go on once they have called, semaphore and mutex are handed to waiting
\* threads in turn, and receivers keep calling; nobody has to send.
SendFair == \A t \in Sender : WF_vars(Send(t))
ReceiveFair == \A t \in Receiver : /\ WF_vars(Select(t) \/ Call(t))
                                   /\ WF_vars(Receive(t))
                                   /\ SF_vars(GetMsg(t)) /\ SF_vars(PopLock(t))

Spec == Init /\ [][Next]_vars /\ SendFair /\ ReceiveFair

------------------------------------------------------------------------------
(* Properties *)

At(places) == {t \in Thread : pc[t] \in places}

\* Places of a thread that stands for a place of the queue.
Counting == {"push", "append", "write", "post", "pop", "take", "read", "give"}

\* Every place of a queue with a limit is free, or stands for a message or a
\* failed push that a receiver will collect, or is in the hands of a thread:
\* failures of PushMsgNode (no memory) use up none.
PlacesKept ==
    iMaxMsgLimit > 0 =>
        sMsgSemProducer + sMsgSemConsumer + Cardinality(At(Counting)) = iMaxMsgLimit

\* The thread that selects on the queue is never sent away without a message.  (It
\* would take the queue out of its list of descriptors and never look at it again.)
SelectFindsMessage == bFDEvent => \A t \in Receiver : pc[t] = "take" => plMsgList # <<>>

\* Sent messages come out once each and in order.
Fifo == INSTANCE MsgFifo WITH queue <- plMsgList, got <- [r \in Receiver |-> msg[r]]
ImplementsFifo == Fifo!Spec

\* A message in the list is received some day, whatever pushes fail around it.
Delivered == \A m \in Message :
    (\E i \in DOMAIN plMsgList : plMsgList[i] = m) ~> (\E r \in Receiver : msg[r] = m)

------------------------------------------------------------------------------
(* The inductive invariant *)

\* The one type invariant of the module; a sender at work has a message.
TypeOK ==
    /\ iMaxMsgLimit \in Nat /\ bFDEvent \in BOOLEAN
    /\ plMsgList \in Seq(Message)
    /\ sMsgSemConsumer \in Nat /\ sMsgSemProducer \in Nat
    /\ ptmMsg \in Thread \cup {NoThread}
    /\ pipe \in Nat
    /\ pc \in [Thread -> Counting \cup {"idle", "get"}]
    /\ \A t \in Sender : pc[t] \in {"idle", "push", "append", "write", "post"}
    /\ \A t \in Receiver : pc[t] \in {"idle", "get", "pop", "take", "read", "give"}
    /\ msg \in [Thread -> Message \cup {NoMessage}]
    /\ \A t \in Sender : pc[t] # "idle" => msg[t] \in Message
    /\ bOk \in [Thread -> BOOLEAN]
    /\ calls \in 0 .. MaxMsg

\* The mutex is held between PushLock or PopLock and the end of the push or pop.
MutexInv == \A t \in Thread : ptmMsg = t <=> pc[t] \in {"append", "write", "take", "read"}

\* One byte per message, but for the holder of the mutex that has done one of the two.
Bytes == Len(plMsgList) + (IF ptmMsg = NoThread THEN 0
                           ELSE IF pc[ptmMsg] = "write" THEN -1
                           ELSE IF pc[ptmMsg] = "read" THEN 1 ELSE 0)

\* Only the thread that selects takes bytes: the one it saw is there until it does.
PipeInv == bFDEvent => /\ pipe = Bytes
                       /\ \A t \in Receiver \ {Selector} : pc[t] = "idle"
                       /\ pc[Selector] \in {"get", "pop", "take", "read"} => pipe > 0

\* Inductive.
QueueInv == TypeOK /\ MutexInv /\ PipeInv /\ PlacesKept
=============================================================================
