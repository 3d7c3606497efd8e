---------------------------- MODULE MsgLedProofs -----------------------------
(***************************************************************************)
(* The message queue, for any number of senders, receivers and messages,   *)
(* any limit and any size of the pipe: it is a FIFO, it keeps its places,  *)
(* and the thread that selects on its pipe finds a message.                *)
(*                                                                         *)
(* The LED task, which reads index, length and pattern without a lock,     *)
(* never shows a step nobody has set, whoever changes the status: for any  *)
(* error codes, any length of their patterns and any size of aDescriptor.  *)
(***************************************************************************)
EXTENDS MsgQueue, CheckNetwork, FiniteSetTheorems, SequenceTheorems, TLAPS

------------------------------------------------------------------------------
(* The message queue *)

\* What the step of thread t to the place "to" does to the number of threads that
\* stand for a place of the queue.
LEMMA StepCounts ==
    ASSUME TypeOK, NEW t \in Thread, NEW to \in Counting \cup {"idle", "get"},
           pc' = [pc EXCEPT ![t] = to]
    PROVE  /\ Cardinality(At(Counting)) \in Nat
           /\ Cardinality(At(Counting))' = Cardinality(At(Counting))
                 + (IF to \in Counting THEN 1 ELSE 0) - (IF pc[t] \in Counting THEN 1 ELSE 0)
<1> DEFINE S == At(Counting)
<1>1. IsFiniteSet(S)
  <2>1. S \in SUBSET Thread
    BY DEF At
  <2>2. IsFiniteSet(Thread)
    BY ThreadAssumption DEF Thread
  <2> QED
    BY <2>1, <2>2, FS_Subset
<1>2. Cardinality(S) \in Nat
  BY <1>1, FS_CardinalityType
<1>3. S' = IF to \in Counting THEN S \cup {t} ELSE S \ {t}
  BY DEF At, TypeOK
<1>4. t \in S <=> pc[t] \in Counting
  BY DEF At
<1>5. Cardinality(S \cup {t}) = IF t \in S THEN Cardinality(S) ELSE Cardinality(S) + 1
  BY <1>1, FS_AddElement
<1>6. Cardinality(S \ {t}) = IF t \in S THEN Cardinality(S) - 1 ELSE Cardinality(S)
  BY <1>1, FS_RemoveElement
<1>7. CASE to \in Counting
  BY <1>2, <1>3, <1>4, <1>5, <1>7
<1>8. CASE to \notin Counting
  BY <1>2, <1>3, <1>4, <1>6, <1>8
<1> QED
  BY <1>7, <1>8

\* There are finitely many threads.
LEMMA CountNat == Cardinality(At(Counting)) \in Nat
<1>1. At(Counting) \in SUBSET Thread
  BY DEF At
<1>2. IsFiniteSet(Thread)
  BY ThreadAssumption DEF Thread
<1> QED
  BY <1>1, <1>2, FS_Subset, FS_CardinalityType

\* A new queue.
LEMMA InitQueue == Init => QueueInv
<1> SUFFICES ASSUME Init PROVE QueueInv
  OBVIOUS
<1> USE ThreadAssumption, LimitAssumption DEF Init
<1>1. TypeOK
  BY DEF TypeOK, Thread, Counting
<1>2. MutexInv
  BY DEF MutexInv, Thread
<1>3. PipeInv
  BY DEF PipeInv, Bytes, Thread
<1>4. PlacesKept
  <2>1. At(Counting) = {}
    BY DEF At, Counting
  <2>2. Cardinality(At(Counting)) = 0
    BY <2>1, FS_EmptySet
  <2> QED
    BY <2>2 DEF PlacesKept
<1> QED
  BY <1>1, <1>2, <1>3, <1>4 DEF QueueInv

\* A step of a sender.
LEMMA SenderKeeps ==
    ASSUME QueueInv, NEW t \in Sender, SendMsg(t) \/ TrySendMsg(t) \/ Send(t)
    PROVE  QueueInv'
<1> USE ThreadAssumption, LimitAssumption
<1> USE DEF QueueInv, Go, kind
<1>t. t \in Thread /\ t # NoThread
  BY DEF Thread
<1>1. TypeOK'
  <2>1. CASE SendMsg(t) \/ TrySendMsg(t)
    <3> USE DEF SendMsg, TrySendMsg, NewMsg
    <3>1. calls' \in 0 .. MaxMsg /\ calls' \in Message /\ msg' = [msg EXCEPT ![t] = calls']
      BY <2>1 DEF TypeOK, Message
    <3>2. msg' \in [Thread -> Message \cup {NoMessage}] /\ msg'[t] \in Message
      BY <1>t, <3>1 DEF TypeOK
    <3>3. \A u \in Sender : pc'[u] # "idle" => msg'[u] \in Message
      BY <1>t, <2>1, <3>1, <3>2 DEF TypeOK, Thread
    <3>4. sMsgSemProducer' \in Nat
      BY <2>1 DEF TakePlace, TypeOK
    <3> QED
      BY <1>t, <2>1, <3>1, <3>2, <3>3, <3>4 DEF TypeOK, Counting, Thread
  <2>2. CASE PushMsgNode(t)
    BY <1>t, <2>2 DEF PushMsgNode, PutNode, TypeOK, Counting, Thread
  <2>3. CASE PushNoMemory(t) \/ PushLock(t) \/ PushNoNode(t)
    BY <1>t, <2>3 DEF PushNoMemory, PushLock, PushNoNode, TypeOK, Counting, Thread
  <2>4. CASE PushWrite(t)
    BY <1>t, <2>4 DEF PushWrite, TypeOK, Counting, Thread
  <2>5. CASE Post(t)
    BY <1>t, <2>5 DEF Post, Posted, TypeOK, Counting, Thread
  <2> QED
    BY <2>1, <2>2, <2>3, <2>4, <2>5 DEF Send
<1>0. \A u \in Thread \ {t} : pc'[u] = pc[u]
  <2>1. pc' = pc \/ \E to : pc' = [pc EXCEPT ![t] = to]
    BY Zenon DEF SendMsg, TrySendMsg, Send, PushNoMemory, PushLock, PushNoNode, PushMsgNode, PushWrite, Post
  <2> QED
    BY <2>1 DEF TypeOK
<1>2. MutexInv'
  <2>1. CASE SendMsg(t) \/ TrySendMsg(t) \/ PushNoMemory(t) \/ Post(t) \/ PushMsgNode(t)
    BY <1>t, <2>1 DEF SendMsg, TrySendMsg, PushNoMemory, Post, PushMsgNode, TypeOK, MutexInv
  <2>2. CASE PushLock(t)
    BY <1>t, <2>2 DEF PushLock, TypeOK, MutexInv, Thread
  <2>3. CASE PushNoNode(t) \/ PushWrite(t)
    BY <1>t, <2>3 DEF PushNoNode, PushWrite, TypeOK, MutexInv, Thread
  <2> QED
    BY <2>1, <2>2, <2>3 DEF Send
<1>3. PipeInv'
  <2>s. Selector \in Thread /\ Selector # t
    BY DEF Thread
  <2> SUFFICES ASSUME bFDEvent
               PROVE  /\ pipe' = Bytes'
                      /\ \A r \in Receiver \ {Selector} : pc'[r] = "idle"
                      /\ pc'[Selector] \in {"get", "pop", "take", "read"} => pipe' > 0
    BY DEF PipeInv, SendMsg, TrySendMsg, Send, PushNoMemory, PushLock, PushNoNode, PushMsgNode,
           PushWrite, Post
  <2>1. \A r \in Receiver : pc'[r] = pc[r]
    BY <1>0 DEF Thread
  <2>2. pipe' = Bytes'
    <3>1. CASE SendMsg(t) \/ TrySendMsg(t) \/ PushNoMemory(t) \/ Post(t)
      <4>1. ptmMsg' = ptmMsg /\ pipe' = pipe /\ plMsgList' = plMsgList
        BY <3>1 DEF SendMsg, TrySendMsg, PushNoMemory, Post
      <4>2. ptmMsg # t
        BY <1>t, <3>1 DEF SendMsg, TrySendMsg, PushNoMemory, Post, MutexInv
      <4>3. ptmMsg # NoThread => pc'[ptmMsg] = pc[ptmMsg]
        BY <1>t, <3>1, <4>2 DEF SendMsg, TrySendMsg, PushNoMemory, Post, TypeOK
      <4> QED
        BY <4>1, <4>3 DEF PipeInv, Bytes
    <3>2. CASE PushLock(t)
      BY <1>t, <3>2 DEF PushLock, PipeInv, Bytes, TypeOK
    <3>3. CASE PushNoNode(t)
      BY <1>t, <3>3 DEF PushNoNode, PipeInv, Bytes, TypeOK, MutexInv
    <3>4. CASE PushMsgNode(t)
      <4>1. Len(plMsgList') = Len(plMsgList) + 1
        BY <1>t, <3>4 DEF PushMsgNode, PutNode, TypeOK
      <4> QED
        BY <1>t, <3>4, <4>1 DEF PushMsgNode, PipeInv, Bytes, TypeOK, MutexInv
    <3>5. CASE PushWrite(t)
      BY <1>t, <3>5 DEF PushWrite, PipeInv, Bytes, TypeOK, MutexInv
    <3> QED
      BY <3>1, <3>2, <3>3, <3>4, <3>5 DEF Send
  <2>3. pipe' >= pipe
    <3>1. pipe' = pipe \/ pipe' = pipe + 1
      BY Zenon DEF SendMsg, TrySendMsg, Send, PushNoMemory, PushLock, PushNoNode, PushMsgNode,
                   PushWrite, Post
    <3> QED
      BY <3>1 DEF TypeOK
  <2> QED
    BY <2>1, <2>2, <2>3, <1>1 DEF PipeInv, TypeOK
<1>4. PlacesKept'
  <2> DEFINE n == Cardinality(At(Counting))
  <2>0. n \in Nat /\ \A to \in Counting \cup {"idle", "get"} : pc' = [pc EXCEPT ![t] = to] =>
            n' = n + (IF to \in Counting THEN 1 ELSE 0) - (IF pc[t] \in Counting THEN 1 ELSE 0)
    BY <1>t, StepCounts, CountNat
  <2> HIDE DEF n
  <2>1. CASE SendMsg(t)
    <3>1. n' = n + 1
      BY <2>0, <2>1 DEF SendMsg, Counting
    <3> QED
      BY <2>0, <2>1, <3>1 DEF SendMsg, TakePlace, PlacesKept, TypeOK, n
  <2>2. CASE TrySendMsg(t)
    BY <2>2 DEF TrySendMsg, At, PlacesKept
  <2>3. CASE PushNoMemory(t) \/ PushLock(t) \/ PushNoNode(t) \/ PushMsgNode(t) \/ PushWrite(t)
    <3>1. n' = n
      BY <2>0, <2>3 DEF PushNoMemory, PushLock, PushNoNode, PushMsgNode, PushWrite, Counting
    <3>2. UNCHANGED <<iMaxMsgLimit, sMsgSemProducer, sMsgSemConsumer>>
      BY <2>3 DEF PushNoMemory, PushLock, PushNoNode, PushMsgNode, PushWrite
    <3> QED
      BY <3>1, <3>2 DEF PlacesKept, n
  <2>4. CASE Post(t)
    <3>1. n' = n - 1
      BY <2>0, <2>4 DEF Post, Counting
    <3> QED
      BY <2>0, <2>4, <3>1 DEF Post, Posted, PlacesKept, TypeOK, n
  <2> QED
    BY <2>1, <2>2, <2>3, <2>4 DEF Send
<1> QED
  BY <1>1, <1>2, <1>3, <1>4

\* A step of a receiver.
LEMMA ReceiverKeeps ==
    ASSUME QueueInv, NEW t \in Receiver, Select(t) \/ Call(t) \/ Receive(t)
    PROVE  QueueInv'
<1> USE ThreadAssumption, LimitAssumption
<1> USE DEF QueueInv, Go, kind
<1>t. t \in Thread /\ t # NoThread
  BY DEF Thread
<1>0. \A u \in Thread \ {t} : pc'[u] = pc[u]
  <2>1. \E to : pc' = [pc EXCEPT ![t] = to]
    BY Zenon DEF Select, Call, Receive, GetMsg, TryGetMsg, PopLock, PopEmpty, PopMsgNode, PopRead, Give
  <2> QED
    BY <2>1 DEF TypeOK
<1>1. TypeOK'
  <2>1. CASE Select(t) \/ Call(t) \/ PopLock(t) \/ PopEmpty(t)
    <3>1. CASE Select(t)
      BY <1>t, <3>1 DEF Select, TypeOK, Counting, Thread
    <3>2. CASE Call(t)
      BY <1>t, <3>2 DEF Call, TypeOK, Counting, Thread
    <3>3. CASE PopLock(t)
      BY <1>t, <3>3 DEF PopLock, TypeOK, Counting, Thread
    <3>4. CASE PopEmpty(t)
      BY <1>t, <3>4 DEF PopEmpty, TypeOK, Counting, Thread
    <3> QED
      BY <2>1, <3>1, <3>2, <3>3, <3>4
  <2>2. CASE GetMsg(t) \/ TryGetMsg(t)
    <3>1. msg' = [msg EXCEPT ![t] = NoMessage] /\ sMsgSemConsumer' \in Nat
      BY <2>2 DEF GetMsg, TryGetMsg, TypeOK
    <3>2. msg' \in [Thread -> Message \cup {NoMessage}] /\ \A u \in Sender : msg'[u] = msg[u]
      BY <1>t, <3>1 DEF TypeOK, Thread
    <3> QED
      BY <1>t, <2>2, <3>1, <3>2 DEF GetMsg, TryGetMsg, TypeOK, Counting, Thread
  <2>3. CASE PopMsgNode(t)
    <3>1. Head(plMsgList) \in Message /\ plMsgList' \in Seq(Message)
      BY <2>3 DEF PopMsgNode, TypeOK
    <3> QED
      BY <1>t, <2>3, <3>1 DEF PopMsgNode, TypeOK, Counting, Thread
  <2>4. CASE PopRead(t)
    BY <1>t, <2>4 DEF PopRead, TypeOK, Counting, Thread
  <2>5. CASE Give(t)
    BY <1>t, <2>5 DEF Give, Given, TypeOK, Counting, Thread
  <2> QED
    BY <2>1, <2>2, <2>3, <2>4, <2>5 DEF Receive
<1>2. MutexInv'
  <2>1. CASE Select(t) \/ Call(t) \/ GetMsg(t) \/ TryGetMsg(t) \/ PopMsgNode(t) \/ Give(t)
    <3>1. ptmMsg' = ptmMsg
      BY <2>1 DEF Select, Call, GetMsg, TryGetMsg, PopMsgNode, Give
    <3>2. pc[t] \in {"take", "read"} <=> pc'[t] \in {"take", "read"}
      BY <1>t, <2>1 DEF Select, Call, GetMsg, TryGetMsg, PopMsgNode, Give, TypeOK
    <3> QED
      BY <1>0, <1>1, <1>t, <3>1, <3>2 DEF TypeOK, MutexInv
  <2>2. CASE PopLock(t)
    BY <1>t, <2>2 DEF PopLock, TypeOK, MutexInv, Thread
  <2>3. CASE PopEmpty(t) \/ PopRead(t)
    BY <1>t, <2>3 DEF PopEmpty, PopRead, TypeOK, MutexInv, Thread
  <2> QED
    BY <2>1, <2>2, <2>3 DEF Receive
<1>3. PipeInv'
  <2> SUFFICES ASSUME bFDEvent
               PROVE  /\ pipe' = Bytes'
                      /\ \A r \in Receiver \ {Selector} : pc'[r] = "idle"
                      /\ pc'[Selector] \in {"get", "pop", "take", "read"} => pipe' > 0
    BY DEF PipeInv, Select, Call, Receive, GetMsg, TryGetMsg, PopLock, PopEmpty, PopMsgNode, PopRead,
           Give
  <2>t. t = Selector
    <3>1. pc[t] # "idle" \/ t = Selector
      BY DEF Select, Call, Receive, GetMsg, TryGetMsg, PopLock, PopEmpty, PopMsgNode, PopRead, Give
    <3> QED
      BY <3>1 DEF PipeInv
  <2>1. \A r \in Receiver \ {Selector} : pc'[r] = "idle"
    BY <1>0, <2>t DEF PipeInv, Thread
  <2>2. CASE Select(t) \/ GetMsg(t) \/ Give(t)
    <3>1. ptmMsg' = ptmMsg /\ pipe' = pipe /\ plMsgList' = plMsgList
      BY <2>2 DEF Select, GetMsg, Give
    <3>2. ptmMsg # t
      BY <1>t, <2>2 DEF Select, GetMsg, Give, MutexInv
    <3>3. ptmMsg # NoThread => pc'[ptmMsg] = pc[ptmMsg]
      BY <1>0, <3>2 DEF TypeOK
    <3>4. pipe' = Bytes'
      BY <3>1, <3>3 DEF PipeInv, Bytes
    <3> QED
      BY <1>t, <2>t, <2>1, <2>2, <3>4 DEF Select, GetMsg, Give, PipeInv, TypeOK
  <2>3. CASE PopLock(t)
    BY <1>t, <2>t, <2>1, <2>3 DEF PopLock, PipeInv, Bytes, TypeOK
  <2>4. CASE PopEmpty(t)
    BY <1>t, <2>t, <2>1, <2>4 DEF PopEmpty, PipeInv, Bytes, TypeOK, MutexInv
  <2>5. CASE PopMsgNode(t)
    <3>1. Len(plMsgList') = Len(plMsgList) - 1
      BY <2>5 DEF PopMsgNode, TypeOK
    <3> QED
      <4>1. ptmMsg = t /\ ptmMsg' = t /\ pc[t] = "take" /\ pc'[t] = "read" /\ pipe' = pipe
        BY <1>t, <2>5 DEF PopMsgNode, TypeOK, MutexInv
      <4>2. pipe = Len(plMsgList) /\ pipe > 0
        BY <1>t, <2>t, <4>1 DEF PipeInv, Bytes
      <4>3. Bytes' = Len(plMsgList') + 1
        BY <1>t, <4>1 DEF Bytes
      <4>4. Len(plMsgList) \in Nat
        BY DEF TypeOK
      <4> QED
        BY <2>1, <3>1, <4>1, <4>2, <4>3, <4>4
  <2>6. CASE PopRead(t)
    BY <1>t, <2>t, <2>1, <2>6 DEF PopRead, PipeInv, Bytes, TypeOK, MutexInv
  <2> QED
    BY <2>2, <2>3, <2>4, <2>5, <2>6 DEF Receive, Call, TryGetMsg
<1>4. PlacesKept'
  <2> DEFINE n == Cardinality(At(Counting))
  <2>0. n \in Nat /\ \A to \in Counting \cup {"idle", "get"} : pc' = [pc EXCEPT ![t] = to] =>
            n' = n + (IF to \in Counting THEN 1 ELSE 0) - (IF pc[t] \in Counting THEN 1 ELSE 0)
    BY <1>t, StepCounts, CountNat
  <2> HIDE DEF n
  <2>1. CASE GetMsg(t)
    <3>1. n' = n + 1
      BY <2>0, <2>1 DEF GetMsg, Counting
    <3> QED
      BY <2>0, <2>1, <3>1 DEF GetMsg, PlacesKept, TypeOK, n
  <2>2. CASE Select(t) \/ Call(t) \/ TryGetMsg(t) \/ PopLock(t) \/ PopEmpty(t) \/ PopMsgNode(t) \/ PopRead(t)
    <3>1. n' = n
      <4>1. CASE Select(t) \/ Call(t) \/ TryGetMsg(t)
        BY <2>0, <4>1 DEF Select, Call, TryGetMsg, Counting
      <4>2. CASE PopLock(t) \/ PopEmpty(t) \/ PopMsgNode(t) \/ PopRead(t)
        BY <2>0, <4>2 DEF PopLock, PopEmpty, PopMsgNode, PopRead, Counting
      <4> QED
        BY <2>2, <4>1, <4>2
    <3>2. UNCHANGED <<iMaxMsgLimit, sMsgSemProducer, sMsgSemConsumer>>
      BY <2>2 DEF Select, Call, TryGetMsg, PopLock, PopEmpty, PopMsgNode, PopRead
    <3> QED
      BY <3>1, <3>2 DEF PlacesKept, n
  <2>3. CASE Give(t)
    <3>1. n' = n - 1
      BY <2>0, <2>3 DEF Give, Counting
    <3> QED
      BY <2>0, <2>3, <3>1 DEF Give, Given, PlacesKept, TypeOK, n
  <2> QED
    BY <2>1, <2>2, <2>3 DEF Receive
<1> QED
  BY <1>1, <1>2, <1>3, <1>4

\* The invariant of the queue: types, who holds the mutex, how many bytes are in the pipe
\* for select at each place of a push or a pop, and where the places are.
THEOREM QueueInvariant == Spec => []QueueInv
<1>1. Init => QueueInv
  BY InitQueue
<1>2. QueueInv /\ [Next]_vars => QueueInv'
  <2> SUFFICES ASSUME QueueInv, [Next]_vars PROVE QueueInv'
    OBVIOUS
  <2>1. CASE UNCHANGED vars
    BY <2>1 DEF vars, kind, QueueInv, TypeOK, MutexInv, PipeInv, Bytes, PlacesKept, At
  <2>2. CASE Next
    BY <2>2, SenderKeeps, ReceiverKeeps DEF Next
  <2> QED
    BY <2>1, <2>2
<1> QED
  BY <1>1, <1>2, PTL DEF Spec

\* However many pushes fail for lack of memory (PushMsgNode), a queue with a limit loses
\* none of its places.
THEOREM QueuePlacesKept == Spec => []PlacesKept
<1>1. QueueInv => PlacesKept
  BY DEF QueueInv
<1> QED
  BY <1>1, QueueInvariant, PTL

\* SELECT_MSG_Process, called because select saw the pipe, finds a message in the list,
\* however many senders push, fail and overtake each other meanwhile.
THEOREM QueueSelectFindsMessage == Spec => []SelectFindsMessage
<1>1. QueueInv => SelectFindsMessage
  <2> SUFFICES ASSUME QueueInv, bFDEvent, NEW t \in Receiver, pc[t] = "take"
               PROVE  plMsgList # <<>>
    BY DEF SelectFindsMessage
  <2>1. t = Selector /\ pipe > 0 /\ pipe = Bytes
    BY DEF QueueInv, PipeInv
  <2>2. ptmMsg = t /\ t # NoThread
    BY ThreadAssumption DEF QueueInv, MutexInv, Thread
  <2>3. Bytes = Len(plMsgList)
    BY <2>2 DEF QueueInv, TypeOK, Bytes
  <2> QED
    BY <2>1, <2>3
<1> QED
  BY <1>1, QueueInvariant, PTL

\* The list, the mutex and the two semaphores together implement the abstract FIFO of
\* MsgFifo: what SendMsg has put in comes out of GetMsg once and in order.
THEOREM QueueRefinement == Spec => ImplementsFifo
<1> DEFINE got == [r \in Receiver |-> msg[r]]
<1>1. Init => Fifo!Init
  BY DEF Init, Fifo!Init, Thread
<1>2. QueueInv /\ [Next]_vars => [Fifo!Next]_<<plMsgList, got>>
  <2> SUFFICES ASSUME QueueInv, [Next]_vars PROVE [Fifo!Next]_<<plMsgList, got>>
    OBVIOUS
  <2> USE DEF QueueInv, Go, kind
  <2>1. CASE UNCHANGED vars
    BY <2>1 DEF vars
  <2>2. ASSUME NEW t \in Sender, SendMsg(t) \/ TrySendMsg(t) \/ Send(t)
        PROVE  [Fifo!Next]_<<plMsgList, got>>
    <3>1. got' = got
      <4>1. \A r \in Receiver : msg'[r] = msg[r]
        BY <2>2, ThreadAssumption DEF SendMsg, TrySendMsg, NewMsg, Send, PushNoMemory, PushLock,
                PushNoNode, PushMsgNode, PushWrite, Post, TypeOK, Thread
      <4> QED
        BY <4>1, Zenon
    <3>2. CASE PushMsgNode(t)
      <4>1. msg[t] \in Message /\ plMsgList' = Append(plMsgList, msg[t])
        BY <3>2 DEF PushMsgNode, PutNode, TypeOK
      <4> QED
        BY <3>1, <4>1 DEF Fifo!Next, Fifo!Put
    <3>3. CASE ~PushMsgNode(t)
      BY <2>2, <3>1, <3>3 DEF SendMsg, TrySendMsg, Send, PushNoMemory, PushLock, PushNoNode, PushWrite,
                              Post
    <3> QED
      BY <3>2, <3>3
  <2>3. ASSUME NEW t \in Receiver, Select(t) \/ Call(t) \/ Receive(t)
        PROVE  [Fifo!Next]_<<plMsgList, got>>
    <3>t. t \in Thread
      BY DEF Thread
    <3>1. CASE PopMsgNode(t)
      <4>1. got' = [got EXCEPT ![t] = Head(plMsgList)]
        BY <3>t, <3>1 DEF PopMsgNode, TypeOK, Thread
      <4> QED
        BY <3>1, <4>1 DEF PopMsgNode, Fifo!Next, Fifo!Take
    <3>2. CASE GetMsg(t) \/ TryGetMsg(t)
      <4>1. got' = [got EXCEPT ![t] = NoMessage] /\ plMsgList' = plMsgList
        BY <3>t, <3>2 DEF GetMsg, TryGetMsg, TypeOK, Thread
      <4> QED
        BY <4>1 DEF Fifo!Next, Fifo!Forget
    <3>3. CASE Select(t) \/ Call(t) \/ PopLock(t) \/ PopEmpty(t) \/ PopRead(t) \/ Give(t)
      BY <3>3 DEF Select, Call, PopLock, PopEmpty, PopRead, Give
    <3> QED
      BY <2>3, <3>1, <3>2, <3>3 DEF Receive
  <2> QED
    BY <2>1, <2>2, <2>3 DEF Next
<1> QED
  BY <1>1, <1>2, QueueInvariant, PTL DEF Spec, ImplementsFifo, Fifo!Spec

------------------------------------------------------------------------------
(* The LED *)

Status == [error : Nat, reset : BOOLEAN, low : BOOLEAN,
           network : {"none", "try_connect", "ready", "streaming"}]

\* Every pattern has a first step, and none of its steps is Blank.
LEMMA PatternShows ==
    ASSUME NEW st \in Status
    PROVE  /\ Len(Pattern(st)) \in Nat \ {0}
           /\ \A i \in 1 .. Len(Pattern(st)) : Pattern(st)[i] \in Step_T \ {Blank}
<1> USE DEF Des, Blank, Step_T
<1>1. CASE st.error # 0
  <2> DEFINE last == st.error * (2 * Flicks + 1) + 1
             n == IF last < MaxDes THEN last ELSE MaxDes
  <2>1. n \in Nat \ {0}
    <3>1. st.error * (2 * Flicks + 1) \in Nat
      BY LedAssumption DEF Status
    <3> QED
      BY <3>1, LedAssumption
  <2> HIDE DEF n
  <2>2. Pattern(st) = ErrorPattern(st.error)
    BY <1>1 DEF Pattern
  <2>3. \A i \in 1 .. n : ErrorPattern(st.error)[i] \in Step_T \ {Blank}
    BY DEF ErrorPattern, n
  <2>4. Len(ErrorPattern(st.error)) = n
    <3>1. \E f : ErrorPattern(st.error) = [i \in 1 .. n |-> f[i]]
      <4>1. ErrorPattern(st.error) = [i \in 1 .. n |-> ErrorPattern(st.error)[i]]
        BY DEF ErrorPattern, n
      <4> QED
        BY <4>1
    <3> QED
      BY <2>1, <3>1
  <2> QED
    BY <2>1, <2>2, <2>3, <2>4
<1>2. CASE st.error = 0
  <2> DEFINE c == NetworkColour(st.network)
  <2>1. c \in {"red", "green", "orange"}
    BY DEF NetworkColour
  <2> HIDE DEF c
  <2>2. CASE st.reset
    <3>1. Pattern(st) = <<Des("red", FALSE), Des("green", FALSE), Des("orange", FALSE)>>
      BY <1>2, <2>2 DEF Pattern
    <3>2. Len(Pattern(st)) = 3 /\ \A i \in 1 .. 3 : Pattern(st)[i] \in Step_T \ {Blank}
      BY <3>1
    <3> QED
      BY <3>2
  <2>3. CASE ~st.reset /\ st.low
    <3>1. Pattern(st) = <<Des(c, FALSE), Des("black", FALSE)>>
      BY <1>2, <2>3 DEF Pattern, c
    <3>2. Len(Pattern(st)) = 2 /\ \A i \in 1 .. 2 : Pattern(st)[i] \in Step_T \ {Blank}
      BY <2>1, <3>1
    <3> QED
      BY <3>2
  <2>4. CASE ~st.reset /\ ~st.low
    <3>1. Pattern(st) = <<Des(c, TRUE)>>
      BY <1>2, <2>4 DEF Pattern, c
    <3>2. Len(Pattern(st)) = 1 /\ \A i \in 1 .. 1 : Pattern(st)[i] \in Step_T \ {Blank}
      BY <2>1, <3>1
    <3> QED
      BY <3>2
  <2> QED
    BY <2>2, <2>3, <2>4
<1> QED
  BY <1>1, <1>2 DEF Status

\* With nothing set and the task not added.
LEMMA InitLed == LedInit => LedInv
BY LedAssumption DEF LedInit, LedInv, LedTypeOK, PatternInv, Filled, Blank, Des, Step_T

\* A change of the status, by any of the setters.
LEMMA SetKeeps ==
    ASSUME LedInv, NEW st \in Status, NEW by \in {"prd", "other"}, Set(st, by)
    PROVE  LedInv'
<1>1. LedTypeOK'
  BY DEF Set, LedInv, LedTypeOK, Status
<1>2. /\ g_uLED_STATUS' = st
      /\ UNCHANGED <<aDescriptor, ucDesNum, ucDesCurrent, delay, run, pDescriptor>>
      /\ show = "idle" /\ owner = "none"
      /\ \/ show' = "idle" /\ owner' = "none"
         \/ show' = "copy" /\ owner' = by /\ ~(Len(Pattern(st)) >= MaxDes)
  BY DEF Set, LedInv, PatternInv
<1>3. Len(Pattern(st)) \in Nat
  BY PatternShows
<1>4. show' \in {"copy", "num", "current", "arm"} => Len(Pattern(g_uLED_STATUS')) < MaxDes
  BY <1>2, <1>3, LedAssumption
<1>5. Filled(ucDesNum)'
  BY <1>2 DEF LedInv, PatternInv, Filled
<1> QED
  BY <1>1, <1>2, <1>4, <1>5 DEF LedInv, PatternInv

\* The assignments of ledShowState.
LEMMA SetterKeeps ==
    ASSUME LedInv, Setter
    PROVE  LedInv'
<1> DEFINE p == Pattern(g_uLED_STATUS)
<1>0. /\ Len(p) \in Nat \ {0}
      /\ \A i \in 1 .. Len(p) : p[i] \in Step_T \ {Blank}
  BY PatternShows DEF LedInv, LedTypeOK, Status
<1>p. Setter => UNCHANGED g_uLED_STATUS
  BY DEF Setter, Copy, SetNum, SetCurrent, Arm
<1> HIDE DEF p
<1>1. CASE Copy
  <2>1. /\ aDescriptor' = [i \in 0 .. MaxDes - 1 |-> IF i < Len(p) THEN p[i + 1] ELSE aDescriptor[i]]
        /\ show = "copy" /\ show' = "num"
        /\ UNCHANGED <<g_uLED_STATUS, ucDesNum, ucDesCurrent, delay, owner, run, pDescriptor>>
    BY <1>1 DEF Copy, p
  <2>2. aDescriptor' \in [0 .. MaxDes - 1 -> Step_T]
    BY <1>0, <2>1 DEF LedInv, LedTypeOK
  <2>3. \A i \in 0 .. MaxDes - 1 : aDescriptor[i] # Blank => aDescriptor'[i] # Blank
    BY <1>0, <2>1
  <2>4. Len(p) < MaxDes /\ \A i \in 0 .. Len(p) - 1 : aDescriptor'[i] # Blank
    BY <1>0, <2>1, LedAssumption DEF LedInv, PatternInv, p
  <2>5. Filled(ucDesNum)'
    BY <2>1, <2>3, LedAssumption DEF LedInv, LedTypeOK, PatternInv, Filled
  <2>6. p' = p
    BY <2>1 DEF p
  <2>7. LedTypeOK'
    BY <2>1, <2>2 DEF LedInv, LedTypeOK
  <2>8. Filled(Len(p))'
    BY <2>4, <2>6 DEF Filled
  <2>9. /\ ucDesCurrent # 0 => aDescriptor'[ucDesCurrent] # Blank
        /\ delay # "off" => aDescriptor'[0] # Blank
        /\ run # "idle" => aDescriptor'[pDescriptor] # Blank
    BY <2>3, LedAssumption DEF LedInv, LedTypeOK, PatternInv
  <2> QED
    BY <2>1, <2>4, <2>5, <2>6, <2>7, <2>8, <2>9 DEF LedInv, PatternInv, p
<1>2. CASE SetNum
  <2>1. /\ ucDesNum' = Len(p) /\ show = "num" /\ show' = "current" /\ p' = p
        /\ UNCHANGED <<g_uLED_STATUS, aDescriptor, ucDesCurrent, delay, owner, run, pDescriptor>>
    BY <1>2 DEF SetNum, p
  <2>2. Len(p) < MaxDes /\ Filled(Len(p))
    BY <2>1 DEF LedInv, PatternInv, p
  <2>3. LedTypeOK'
    BY <1>0, <2>1, <2>2, LedAssumption DEF LedInv, LedTypeOK
  <2>4. Filled(Len(p))' /\ Filled(ucDesNum)'
    BY <2>1, <2>2 DEF Filled
  <2> QED
    BY <2>1, <2>2, <2>3, <2>4 DEF LedInv, PatternInv, p
<1>3. CASE SetCurrent \/ Arm
  <2>1. /\ UNCHANGED <<g_uLED_STATUS, aDescriptor, ucDesNum, run, pDescriptor>> /\ p' = p
        /\ ucDesCurrent' \in {0, ucDesCurrent}
        /\ \/ show = "current" /\ show' = "arm" /\ owner' = owner /\ delay' = delay
           \/ show = "arm" /\ show' = "idle" /\ owner' = "none" /\ delay' = "now"
    BY <1>3 DEF SetCurrent, Arm, Armed, p
  <2>2. Filled(Len(p)) /\ Filled(ucDesNum) /\ Len(p) < MaxDes
    BY <2>1 DEF LedInv, PatternInv, p
  <2>3. aDescriptor[0] # Blank
    BY <1>0, <2>2 DEF Filled
  <2>4. Filled(Len(p))' /\ Filled(ucDesNum)'
    BY <2>1, <2>2 DEF Filled
  <2>5. LedTypeOK'
    BY <2>1, LedAssumption DEF LedInv, LedTypeOK
  <2> QED
    BY <2>1, <2>2, <2>3, <2>4, <2>5 DEF LedInv, PatternInv, p
<1> QED
  BY <1>1, <1>2, <1>3 DEF Setter

\* The LED task: an index past the end of the pattern is still one that was set.
LEMMA TaskKeeps ==
    ASSUME LedInv, Task \/ prdTask_LED_Late
    PROVE  LedInv'
<1>1. CASE prdTask_LED \/ prdTask_LED_Late
  <2>1. /\ pDescriptor' = ucDesCurrent /\ ucDesCurrent' = Wrapped(ucDesCurrent + 1)
        /\ run' = "add" /\ delay # "off"
        /\ UNCHANGED <<g_uLED_STATUS, aDescriptor, ucDesNum, delay, show, owner>>
    BY <1>1 DEF prdTask_LED, prdTask_LED_Late, Called, Step
  <2>2. aDescriptor[ucDesCurrent] # Blank
    BY <2>1 DEF LedInv, PatternInv
  <2>3. /\ ucDesCurrent' \in 0 .. MaxDes - 1
        /\ ucDesCurrent' # 0 => aDescriptor[ucDesCurrent'] # Blank
    BY <2>1, LedAssumption DEF Wrapped, LedInv, LedTypeOK, PatternInv, Filled
  <2>4. LedTypeOK'
    BY <2>1, <2>3 DEF LedInv, LedTypeOK
  <2>5. Filled(ucDesNum)' /\ (show \in {"num", "current", "arm"} => Filled(Len(Pattern(g_uLED_STATUS)))')
    BY <2>1 DEF LedInv, PatternInv, Filled
  <2> QED
    BY <2>1, <2>2, <2>3, <2>4, <2>5 DEF LedInv, PatternInv
<1>2. CASE ReAdd \/ Light
  <2>1. /\ UNCHANGED <<g_uLED_STATUS, aDescriptor, ucDesNum, ucDesCurrent, show, owner, pDescriptor>>
        /\ run # "idle"
    BY <1>2 DEF ReAdd, Light
  <2>2. LedTypeOK'
    BY <2>1 DEF LedInv, LedTypeOK
  <2>3. Filled(ucDesNum)' /\ (show \in {"num", "current", "arm"} => Filled(Len(Pattern(g_uLED_STATUS)))')
    BY <2>1 DEF LedInv, PatternInv, Filled
  <2>4. aDescriptor[pDescriptor] # Blank
    BY <2>1 DEF LedInv, PatternInv
  <2>5. delay # "off" /\ delay' # "off"
    BY <1>2 DEF ReAdd, Light, LedInv, PatternInv
  <2> QED
    BY <2>1, <2>2, <2>3, <2>4, <2>5 DEF LedInv, PatternInv
<1> QED
  BY <1>1, <1>2 DEF Task

\* Everything that changes the status of the LED, and everything that does not.
LEMMA NetKeeps ==
    ASSUME LedInv, NetNext
    PROVE  LedInv'
<1>s. g_uLED_STATUS \in Status
  BY DEF LedInv, LedTypeOK, Status
<1>u. ASSUME UNCHANGED ledVars PROVE LedInv'
  BY <1>u DEF ledVars, LedInv, LedTypeOK, PatternInv, Filled
<1>1. CASE CheckNetwork \/ TryConnect \/ StreamBegins \/ StreamEnds
  BY <1>1, <1>u DEF CheckNetwork, TryConnect, StreamBegins, StreamEnds
<1>2. ASSUME NEW n \in {"try_connect", "ready", "streaming"}, NEW by \in {"prd", "other"},
             ledSetNetwork(n, by)
      PROVE  LedInv'
  <2>1. [g_uLED_STATUS EXCEPT !.network = n] \in Status
    BY <1>s DEF Status
  <2> QED
    BY <1>2, <2>1, SetKeeps DEF ledSetNetwork
<1>3. CASE prdTask_CheckNetwork \/ wsp_connecting_callback \/ wsp_connected_callback
  BY <1>2, <1>3 DEF prdTask_CheckNetwork, NoActive, TryConnectOver, Active, wsp_connecting_callback,
                    wsp_connected_callback
<1>4. CASE prdTask_CheckBattery
  <2>1. PICK low \in BOOLEAN : ledSetLowBattery(low, "prd")
    BY <1>4 DEF prdTask_CheckBattery
  <2>2. [g_uLED_STATUS EXCEPT !.low = low] \in Status
    BY <1>s DEF Status
  <2> QED
    BY <2>1, <2>2, SetKeeps DEF ledSetLowBattery
<1>5. CASE Report
  <2>1. CASE ledSuspend \/ ledWakeup
    <3>1. UNCHANGED <<g_uLED_STATUS, aDescriptor, ucDesNum, ucDesCurrent, delay, run, pDescriptor>>
          /\ show' \in {"idle", "suspended"} /\ (owner' = "none" <=> show' = "idle")
      BY <2>1 DEF ledSuspend, ledWakeup
    <3> QED
      BY <3>1 DEF LedInv, LedTypeOK, PatternInv, Filled
  <2>2. ASSUME NEW code \in Nat, Set([g_uLED_STATUS EXCEPT !.error = code], "other")
        PROVE  LedInv'
    <3>1. [g_uLED_STATUS EXCEPT !.error = code] \in Status
      BY <1>s DEF Status
    <3> QED
      BY <2>2, <3>1, SetKeeps
  <2>3. ASSUME NEW on \in BOOLEAN, Set([g_uLED_STATUS EXCEPT !.reset = on], "other")
        PROVE  LedInv'
    <3>1. [g_uLED_STATUS EXCEPT !.reset = on] \in Status
      BY <1>s DEF Status
    <3> QED
      BY <2>3, <3>1, SetKeeps
  <2>4. CASE \E c \in Codes : ledError(c, "other") \/ ledClearError(c, "other")
    BY <2>2, <2>4, LedAssumption DEF ledError, ledClearError
  <2>5. CASE ledSetFactoryDefault("other") \/ ledClearFactoryDefault("other")
    BY <2>3, <2>5 DEF ledSetFactoryDefault, ledClearFactoryDefault
  <2> QED
    BY <1>5, <2>1, <2>4, <2>5 DEF Report
<1>6. CASE Display
  BY <1>5, <1>6, SetterKeeps, TaskKeeps DEF Display
<1> QED
  BY <1>1, <1>3, <1>4, <1>6 DEF NetNext

\* The invariant of the display: whatever prdTask_LED may come to index has been set by
\* ledShowState, also between its assignments.
THEOREM LedInvariant == NetSpec => []LedInv
<1>1. NetInit => LedInv
  BY InitLed DEF NetInit
<1>2. LedInv /\ [NetNext]_netVars => LedInv'
  <2> SUFFICES ASSUME LedInv, [NetNext]_netVars PROVE LedInv'
    OBVIOUS
  <2>1. CASE UNCHANGED netVars
    BY <2>1 DEF netVars, ledVars, LedInv, LedTypeOK, PatternInv, Filled
  <2> QED
    BY <2>1, NetKeeps
<1> QED
  BY <1>1, <1>2, PTL DEF NetSpec

\* prdTask_LED shows no step that no pattern has set, and its index stays inside
\* aDescriptor, though it reads both without g_rmLED.
THEOREM LedNeverBlank == NetSpec => []NeverBlank
<1>1. LedInv => NeverBlank
  BY LedAssumption DEF LedInv, LedTypeOK, PatternInv, NeverBlank
<1> QED
  BY <1>1, LedInvariant, PTL
==============================================================================
