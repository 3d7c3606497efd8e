---------------------------- MODULE SelectThread ---------------------------
(***************************************************************************)
(* The thread that runs the network clients: Host/LibCamera/Src/SSelect.c, *)
(* with the operations other threads ask of it (AddSelectFD, and custom    *)
(* processes of HttpClient.c and Ntp.c that delete clients).               *)
(*                                                                         *)
(* The thread keeps a list of FD_T objects and two sets of descriptor      *)
(* numbers.  Each round adds to the sets what is wanted and not there yet, *)
(* calls select, tells every object what it may do, lets it run, and then  *)
(* handles at most one message.  The sets are kept between rounds: a number *)
(* select has just reported is not added again.                            *)
(*                                                                         *)
(* An object's callback is any of the callbacks of the clients: it asks for *)
(* other events, closes its socket, opens one, changes what its peer wants, *)
(* or ends.  The queue is what MsgFifo says; that it is never reported     *)
(* without a message is SelectFindsMessage of MsgQueue.                     *)
(***************************************************************************)
EXTENDS Integers, Sequences, FiniteSets, SequencesExt, FiniteSetsExt

CONSTANTS MsgFD,        \* the object that stands for the message queue
          Url,          \* clients of SendHttp.cgi: added, later deleted, by the HTTP thread
          Ddns,         \* DDNS and NTP clients: a new one takes the place of older ones
          MaxFD,        \* descriptor numbers 0 .. MaxFD; the queue has 0
          MaxPending    \* bound: messages in the queue when a user sends one

ASSUME FDAssumption == /\ MaxFD \in Nat /\ MaxPending \in Nat
                       /\ MsgFD \notin Url \cup Ddns /\ Url \cap Ddns = {}

Client == Url \cup Ddns
FD     == Client \cup {MsgFD}
Num    == 0 .. MaxFD
NoFD   == -1
Mode   == {"read", "write"}
None   == [do |-> "none", fd |-> MsgFD]

VARIABLES
    pFDList,            \* the objects in the list
    iFD,                \* an object's descriptor, or NoFD
    want,               \* bWantRead, bWantWrite
    able,               \* bReadable, bWritable
    fdset,              \* fdReadSet, fdWriteSet
    nfds,               \* first argument of select
    todo,               \* objects still to be processed in this round
    pMsg,               \* the message of this round
    msgs,               \* g_pMsgSelect
    pc,
    obj,                \* "new": no such object; "live"; "final": finalised, not freed
    asked,              \* clients whose deletion the HTTP thread has asked for
    open,               \* open descriptors of the system
    other               \* those of other threads

sockets == <<iFD, open, other>>

vars == <<pFDList, iFD, want, able, fdset, nfds, todo, pMsg, msgs, pc, obj,
          asked, open, other>>

Init ==
    /\ pFDList = <<MsgFD>>
    /\ iFD  = [f \in FD |-> IF f = MsgFD THEN 0 ELSE NoFD]
    /\ want = [f \in FD |-> IF f = MsgFD THEN {"read"} ELSE {}]
    /\ able = [f \in FD |-> {}]
    /\ fdset = [m \in Mode |-> {}]
    /\ nfds = 0
    /\ todo = <<>>
    /\ pMsg = None
    /\ msgs = <<>>
    /\ pc = "prepare"
    /\ obj = [f \in FD |-> IF f = MsgFD THEN "live" ELSE "new"]
    /\ asked = {}
    /\ open = {0}
    /\ other = {}

\* The sequence s without the members of S.
Without(s, S) ==
    LET kept[i \in 0 .. Len(s)] ==
            IF i = 0 THEN <<>>
            ELSE IF s[i] \in S THEN kept[i - 1] ELSE Append(kept[i - 1], s[i])
    IN  kept[Len(s)]

Listed == {f \in Range(pFDList) : iFD[f] # NoFD}

------------------------------------------------------------------------------
(* A round of the thread *)

\* mutated: only what was wanted in the round before is added
AddedStale(m) == {iFD[f] : f \in {g \in Listed : m \in want[g] /\ m \in able[g]}}

Added(m)   == {iFD[f] : f \in {g \in Listed : m \in want[g] /\ m \notin able[g]}}
Cleared(m) == {iFD[f] : f \in {g \in Listed : m \notin want[g] /\ m \in able[g]}}

Prepare ==
    /\ pc = "prepare"
    /\ fdset' = [m \in Mode |-> (fdset[m] \ Cleared(m)) \cup Added(m)]
    /\ nfds' = Max({0} \cup {iFD[f] : f \in {g \in Listed : want[g] # {}}}) + 1
    /\ pMsg' = None
    /\ pc' = "select"
    /\ UNCHANGED <<pFDList, want, able, todo, msgs, obj, asked, sockets>>

\* What select looks at.
Watched(m) == fdset[m] \cap 0 .. nfds - 1

\* The sets as select leaves them: the queue's descriptor is ready exactly when
\* there is a message, any other may be.
Ready == {r \in [Mode -> SUBSET Num] :
            /\ \A m \in Mode : r[m] \subseteq Watched(m)
            /\ 0 \in r["read"] <=> (msgs # <<>> /\ 0 \in Watched("read"))
            /\ 0 \notin r["write"]
            /\ \E m \in Mode : r[m] # {}}

Marked(f, sets) == IF iFD[f] = NoFD THEN {} ELSE {m \in want[f] : iFD[f] \in sets[m]}

Select ==
    /\ pc = "select"
    /\ \A m \in Mode : Watched(m) \subseteq open
    /\ \E r \in Ready :
        /\ fdset' = r
        /\ able' = [f \in FD |-> IF f \in Range(pFDList) THEN Marked(f, r) ELSE able[f]]
    /\ todo' = pFDList
    /\ pc' = "process"
    /\ UNCHANGED <<pFDList, want, nfds, pMsg, msgs, obj, asked, sockets>>

\* select returns 0 (a client's time limit) or -1 (EINTR; EBADF when a descriptor is
\* closed): every object is told that nothing is ready.
SelectNothing ==
    /\ pc = "select"
    /\ \/ \E m \in Mode : ~(Watched(m) \subseteq open)
       \/ msgs = <<>> /\ Len(pFDList) > 1
    /\ fdset' = [m \in Mode |-> {}]
    /\ able' = [f \in FD |-> IF f \in Range(pFDList) THEN {} ELSE able[f]]
    /\ todo' = pFDList
    /\ pc' = "process"
    /\ UNCHANGED <<pFDList, want, nfds, pMsg, msgs, obj, asked, sockets>>

\* ObjFinal frees the objects made by ObjInit; those of Url are freed later.
Finalised(S) == [f \in FD |-> IF f \in S THEN (IF f \in Url THEN "final" ELSE "new") ELSE obj[f]]

\* The fields of objects nobody uses any more, until FD_Init sets them again.
Unused(S) == /\ iFD'  = [f \in FD |-> IF f \in S THEN NoFD ELSE iFD[f]]
             /\ want' = [f \in FD |-> IF f \in S THEN {} ELSE want[f]]
             /\ able' = [f \in FD |-> IF f \in S THEN {} ELSE able[f]]

\* Any other error ends the thread; every object is finalised.
SelectError ==
    /\ pc = "select"
    /\ pc' = "over"
    /\ obj' = Finalised(Range(pFDList))
    /\ pFDList' = <<>>
    /\ Unused(Client)
    /\ UNCHANGED <<fdset, nfds, todo, pMsg, msgs, asked, open, other>>

------------------------------------------------------------------------------
(* Callbacks *)

Process(f) == pc = "process" /\ todo # <<>> /\ Head(todo) = f /\ todo' = Tail(todo)

\* The message queue's own: SELECT_MSG_Process.
SELECT_MSG_Process ==
    /\ Process(MsgFD)
    /\ IF "read" \in able[MsgFD] THEN pMsg' = Head(msgs) /\ msgs' = Tail(msgs)
                                 ELSE UNCHANGED <<pMsg, msgs>>
    /\ UNCHANGED <<pFDList, want, able, fdset, nfds, pc, obj, asked, sockets>>

\* FD_Next: the client, or the peer it relays to, asks for other events.
FD_Next(f) ==
    /\ Process(f) /\ f # MsgFD
    /\ \E g \in Range(pFDList) \ {MsgFD}, w \in SUBSET Mode : want' = [want EXCEPT ![g] = w]
    /\ UNCHANGED <<pFDList, able, fdset, nfds, pMsg, msgs, pc, obj, asked, sockets>>

\* mutated: the sets keep the old descriptor of a client
MovedNot(f, n) == fdset

\* The sets after the callback has changed its object's descriptor to n.
Moved(f, n) == [m \in Mode |->
    IF m \in able[f] /\ n # iFD[f] THEN (fdset[m] \ {iFD[f]}) \cup ({n} \ {NoFD}) ELSE fdset[m]]

\* The client closes its socket, if it has one, and opens another, if it can.
Reconnect(f) ==
    /\ Process(f) /\ f # MsgFD
    /\ LET left == open \ {iFD[f]}
       IN \E n \in (Num \ left) \cup {NoFD}, w \in SUBSET Mode :
            /\ open' = left \cup ({n} \ {NoFD})
            /\ iFD' = [iFD EXCEPT ![f] = n]
            /\ fdset' = Moved(f, n)
            /\ want' = [want EXCEPT ![f] = w]
    /\ UNCHANGED <<pFDList, able, nfds, pMsg, msgs, pc, obj, asked, other>>

\* mutated: the sets keep the descriptor of a client that has ended
ForgottenNot(f) == fdset

Forgotten(f) == [m \in Mode |-> IF m \in able[f] THEN fdset[m] \ {iFD[f]} ELSE fdset[m]]

\* The client ends (ST_NET_OVER): its socket is closed, it returns FALSE, and the
\* loop takes it out of the sets and the list.
Over(f) ==
    /\ Process(f) /\ f # MsgFD
    /\ open' = open \ {iFD[f]}
    /\ fdset' = Forgotten(f)
    /\ pFDList' = Without(pFDList, {f})
    /\ obj' = Finalised({f})
    /\ Unused({f})
    /\ UNCHANGED <<nfds, pMsg, msgs, pc, asked, other>>

------------------------------------------------------------------------------
(* The message of the round *)

Handle(what) == /\ pc = "process" /\ todo = <<>> /\ pMsg.do = what
                /\ pc' = "prepare"
                /\ UNCHANGED <<todo, nfds, pMsg>>

NoMsg == /\ Handle("none")
         /\ UNCHANGED <<pFDList, want, able, fdset, msgs, obj, asked, sockets>>

\* MSG_ADD_FD; there may be no memory for the node.
MsgAddFD ==
    /\ Handle("add")
    /\ \/ /\ pFDList' = Append(pFDList, pMsg.fd)
          /\ able' = [able EXCEPT ![pMsg.fd] = {}]
       \/ UNCHANGED <<pFDList, able>>
    /\ UNCHANGED <<want, fdset, msgs, obj, asked, sockets>>

\* Clients deleted by a custom process: neither their sockets nor the sets are touched.
Delete(S) == pFDList' = Without(pFDList, S)

\* AddDDNS, AddNTP: older clients go, the new one is sent to the thread itself (and
\* lost when there is no memory for the message).
AddDDNS ==
    /\ Handle("ddns")
    /\ Delete(Ddns)
    /\ obj' = Finalised(Ddns \cap Range(pFDList))
    /\ Unused(Ddns \cap Range(pFDList))
    /\ msgs' \in {Append(msgs, [do |-> "add", fd |-> pMsg.fd]), msgs}
    /\ UNCHANGED <<fdset, asked, open, other>>

\* mutated: the object is freed and stays in the list
DeletedNot(f) == UNCHANGED pFDList

Deleted(f) == Delete({f})

\* URLCGI_DelFD: taken out if it is still in the list, and freed.
URLCGI_DelFD ==
    /\ Handle("del")
    /\ Deleted(pMsg.fd)
    /\ obj' = [obj EXCEPT ![pMsg.fd] = "new"]
    /\ Unused({pMsg.fd})
    /\ asked' = asked \ {pMsg.fd}
    /\ UNCHANGED <<fdset, msgs, open, other>>

------------------------------------------------------------------------------
(* Other threads *)

Send(what, f) == msgs' = Append(msgs, [do |-> what, fd |-> f])

Idle == UNCHANGED <<pFDList, able, fdset, nfds, todo, pMsg, pc>>

\* A client is made (FD_Init) and sent to the thread: AddSelectFD for a Url client,
\* InsertCustomProcess(AddDDNS) for the others.
NewClient(f) ==
    /\ obj[f] = "new" /\ pc # "over"
    /\ Len(msgs) < MaxPending
    /\ obj' = [obj EXCEPT ![f] = "live"]
    /\ iFD' = [iFD EXCEPT ![f] = NoFD]
    /\ want' = [want EXCEPT ![f] = {}]
    /\ Send(IF f \in Url THEN "add" ELSE "ddns", f)
    /\ Idle /\ UNCHANGED <<asked, open, other>>

\* URLCGI_RequestOver: the browser's request has ended, the client is to be deleted.
URLCGI_RequestOver(f) ==
    /\ obj[f] # "new" /\ f \notin asked
    /\ Len(msgs) < MaxPending
    /\ asked' = asked \cup {f}
    /\ Send("del", f)
    /\ Idle /\ UNCHANGED <<want, obj, sockets>>

\* Other threads open and close descriptors of their own.
OtherOpen == \E n \in Num \ open :
    /\ open' = open \cup {n} /\ other' = other \cup {n}
    /\ Idle /\ UNCHANGED <<iFD, want, msgs, obj, asked>>

OtherClose == \E n \in other :
    /\ open' = open \ {n} /\ other' = other \ {n}
    /\ Idle /\ UNCHANGED <<iFD, want, msgs, obj, asked>>

------------------------------------------------------------------------------
Thread == \/ Prepare \/ Select \/ SelectNothing
          \/ SELECT_MSG_Process
          \/ \E f \in Client : FD_Next(f) \/ Reconnect(f) \/ Over(f)
          \/ NoMsg \/ MsgAddFD \/ AddDDNS \/ URLCGI_DelFD

Next == \/ Thread \/ SelectError
        \/ \E f \in Client : NewClient(f)
        \/ \E f \in Url : URLCGI_RequestOver(f)
        \/ OtherOpen \/ OtherClose

\* The thread runs; select returns when a message is there.
Spec == Init /\ [][Next]_vars /\ WF_vars(Thread)

------------------------------------------------------------------------------
(* Properties *)

\* Whenever the thread calls select, the sets hold the descriptor of every client that
\* waits for an event, though the loop adds a descriptor only when it was not reported
\* the round before: no client is left waiting for an event nobody looks for.
WantedIsWatched ==
    pc = "select" => \A f \in Listed, m \in Mode : m \in want[f] => iFD[f] \in Watched(m)

\* select is never called with a descriptor that its client has closed, and FD_SET never
\* with the -1 of a client that has none (it writes outside the set).
NeverBad == \A m \in Mode : /\ fdset[m] \subseteq Num
                            /\ pc = "select" => Watched(m) \subseteq open

\* No object is used after it was finalised or freed: not through the list, not through
\* a message on its way, whatever order clients end and are deleted in.
NoDangling ==
    LET pending == Range(msgs) \cup (IF pc = "process" THEN {pMsg} ELSE {})
    IN  /\ \A f \in Range(pFDList) \cup Range(todo) : obj[f] = "live"
        /\ \A m \in pending : /\ m.do \in {"add", "ddns"} => obj[m.fd] = "live"
                              /\ m.do = "del" => obj[m.fd] # "new"

\* The thread comes to the next message some day, whatever its clients do, unless select
\* failed for good: messages leave the queue in order, so each of them is handled.
Handled == msgs # <<>> ~> (pMsg # None \/ pc = "over")

------------------------------------------------------------------------------
(* The inductive invariant *)

Message == [do : {"none", "add", "ddns", "del"}, fd : FD]

\* The state is of its types; an object is in the list once.
SelectTypeOK ==
    /\ pFDList \in Seq(FD) /\ todo \in Seq(FD)
    /\ iFD \in [FD -> Num \cup {NoFD}]
    /\ want \in [FD -> SUBSET Mode] /\ able \in [FD -> SUBSET Mode]
    /\ fdset \in [Mode -> SUBSET Num]
    /\ nfds \in Nat
    /\ pMsg \in Message /\ msgs \in Seq(Message)
    /\ pc \in {"prepare", "select", "process", "over"}
    /\ obj \in [FD -> {"new", "live", "final"}]
    /\ asked \subseteq Url
    /\ open \subseteq Num /\ other \subseteq open

Distinct(s) == \A i, j \in 1 .. Len(s) : s[i] = s[j] => i = j

\* What is still to be processed is in the list, and nothing is in it twice.
ListInv ==
    /\ Distinct(pFDList) /\ Distinct(todo)
    /\ Range(todo) \subseteq Range(pFDList)
    /\ pc # "process" => todo = <<>>
    /\ pc # "over" => MsgFD \in Range(pFDList)
    /\ \A f \in Range(pFDList) : obj[f] = "live"

\* Every descriptor has one owner: an object of the list, another thread, or nobody any
\* more (a client that was deleted with its socket open).
SocketInv ==
    /\ iFD[MsgFD] = 0
    /\ \A f \in Client : f \notin Range(pFDList) => iFD[f] = NoFD
    /\ \A f \in FD : iFD[f] # NoFD => iFD[f] \in open \ other
    /\ \A f, g \in FD : iFD[f] = iFD[g] /\ iFD[f] # NoFD => f = g

\* The sets hold open descriptors only: before select is called those the objects wait
\* for, after it those that select reported to them.
SetInv ==
    /\ \A m \in Mode : fdset[m] \subseteq open \ other
    /\ \A f \in Listed, m \in Mode :
        /\ pc = "select" => (iFD[f] \in fdset[m] <=> m \in want[f]) /\ (m \in want[f] => iFD[f] < nfds)
        /\ pc \in {"process", "prepare"} => (iFD[f] \in fdset[m] <=> m \in able[f])

\* A message brings an object that is live and nowhere else, or takes one away that no
\* message behind it brings.
Brings(m) == m.do \in {"add", "ddns"}
Takes(m)  == m.do = "del"

MessageOK(m) ==
    /\ Brings(m) => m.fd \in Client \ Range(pFDList) /\ obj[m.fd] = "live"
    /\ m.do = "ddns" => m.fd \in Ddns
    /\ Takes(m) => m.fd \in asked

\* m is handled before n.
Before(m, n) ==
    m.fd = n.fd => ~(Brings(m) /\ Brings(n)) /\ ~(Takes(m) /\ Takes(n)) /\ ~(Takes(m) /\ Brings(n))

MessageInv ==
    /\ \A i \in 1 .. Len(msgs) : MessageOK(msgs[i])
    /\ \A i, j \in 1 .. Len(msgs) : i < j => Before(msgs[i], msgs[j])
    /\ pc = "process" => MessageOK(pMsg) /\ \A i \in 1 .. Len(msgs) : Before(pMsg, msgs[i])
    /\ pc = "select" => pMsg = None
    /\ \A f \in asked : obj[f] # "new"
    /\ pc = "process" /\ MsgFD \in Range(todo) /\ "read" \in able[MsgFD] => msgs # <<>>

SelectInv == SelectTypeOK /\ ListInv /\ SocketInv /\ SetInv /\ MessageInv
=============================================================================
