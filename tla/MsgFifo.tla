------------------------------ MODULE MsgFifo ------------------------------
(***************************************************************************)
(* What a message queue of Host/LibCamera/Src/Msg.c promises: messages come *)
(* out once each, in the order they went in, and a receiver holds the      *)
(* message it was last given.                                              *)
(***************************************************************************)
EXTENDS Integers, Sequences

CONSTANTS Receiver, Message, NoMessage

VARIABLES queue, got

Init == queue = <<>> /\ got = [r \in Receiver |-> NoMessage]

Put(m) == queue' = Append(queue, m) /\ UNCHANGED got

Take(r) ==
    /\ queue # <<>>
    /\ got' = [got EXCEPT ![r] = Head(queue)]
    /\ queue' = Tail(queue)

\* A receiver that starts over has nothing.
Forget(r) == got' = [got EXCEPT ![r] = NoMessage] /\ UNCHANGED queue

Next == \/ \E m \in Message : Put(m)
        \/ \E r \in Receiver : Take(r) \/ Forget(r)

Spec == Init /\ [][Next]_<<queue, got>>
=============================================================================
