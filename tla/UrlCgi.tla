------------------------------- MODULE UrlCgi -------------------------------
(***************************************************************************)
(* SendHttp.cgi: Host/LibCamera/Src/HttpClient/HttpClient.c.               *)
(*                                                                         *)
(* A browser asks the robot to fetch a page.  The HTTP thread makes a      *)
(* client object and sends it to the select thread, which connects, writes *)
(* the request and reads the answer (HTTPC_Process).  What it has read goes *)
(* through acBody, a buffer far smaller than a read, to FillURLCGIData,     *)
(* which the HTTP server calls whenever it has sent all it had.  While      *)
(* acBody is full the select thread waits inside the callback, and with it  *)
(* every other client.                                                      *)
(*                                                                         *)
(* The answer of a server is 1, 2, 3 ... in units of acBody; where it is    *)
(* cut, how long it takes and how it ends is open.  The rounds of the       *)
(* select thread are those of module SelectThread, which has the            *)
(* descriptors; the HTTP server is external.  Sections under mLock are      *)
(* single steps.                                                            *)
(***************************************************************************)
EXTENDS Integers, Sequences, SequencesExt

CONSTANTS Client,       \* client objects the memory has room for
          MAX_URLCGI,   \* requests at a time
          HTTPC_MAX_CONNECT_RETRY,
          Body,         \* units in acBody
          Half,         \* units in half of acBuffer
          MaxAnswer     \* bound: units in an answer

ASSUME UrlCgiAssumption == /\ {MAX_URLCGI, HTTPC_MAX_CONNECT_RETRY, MaxAnswer} \subseteq Nat
                           /\ {Body, Half} \subseteq Nat \ {0}

VARIABLES
    conn,               \* the browser's request: "none", "open", "done" (all sent)
    obj,                \* clients that are allocated
    nHTTPClientNum,
    iState, iConnectRetry,
    acBuffer,           \* read and not yet passed on (iLenOK units)
    acBody,             \* szBodyLen units
    bIsRequestOver, bHasResponse,
    got,                \* units the server has sent
    body,               \* what the browser was sent
    pFDList, todo,      \* the select thread's clients, and those still to come this round
    msgs,               \* g_pMsgSelect
    resp,               \* the call of URLCGI_HTTPCResponse in progress
    asleep              \* it waits on cData

client == <<iState, iConnectRetry, acBuffer, acBody, bIsRequestOver, bHasResponse, got, body>>
urlVars == <<conn, obj, nHTTPClientNum, client, pFDList, todo, msgs, resp, asleep>>

NoCall     == [in |-> FALSE]
NoResponse == 0         \* the text <!--no response-->

Busy(c) == resp.in /\ resp.of = c

UrlInit ==
    /\ conn = [c \in Client |-> "none"] /\ obj = {} /\ nHTTPClientNum = 0
    /\ iState = [c \in Client |-> "INIT"]
    /\ iConnectRetry = [c \in Client |-> 0]
    /\ acBuffer = [c \in Client |-> <<>>] /\ acBody = [c \in Client |-> <<>>]
    /\ bIsRequestOver = [c \in Client |-> FALSE] /\ bHasResponse = [c \in Client |-> FALSE]
    /\ got = [c \in Client |-> 0] /\ body = [c \in Client |-> <<>>]
    /\ pFDList = <<>> /\ todo = <<>> /\ msgs = <<>>
    /\ resp = NoCall /\ asleep = FALSE

------------------------------------------------------------------------------
(* The HTTP thread *)

\* SendMsg; there may be no memory for the message.
Send(m) == msgs' \in {Append(msgs, m), msgs}

\* A request over the limit, without memory or without a server is answered at once.
\* (Proxy settings it brings are saved before that: SetConfig of ConfigStore.)
Http_SendHttpRequest(c) ==
    /\ c \notin obj /\ conn[c] = "none"
    /\ nHTTPClientNum < MAX_URLCGI
    /\ obj' = obj \cup {c}
    /\ nHTTPClientNum' = nHTTPClientNum + 1
    /\ conn' = [conn EXCEPT ![c] = "open"]
    /\ Send([do |-> "add", of |-> c])
    /\ UNCHANGED <<client, pFDList, todo, resp, asleep>>

Signal(c) == asleep' = (asleep /\ ~Busy(c))

\* mutated: the end of the request is looked at before the data
FillOverFirst(c) ==
    /\ conn[c] = "open"
    /\ \/ /\ bIsRequestOver[c] /\ conn' = [conn EXCEPT ![c] = "done"]
          /\ UNCHANGED <<body, acBody, bHasResponse>>
       \/ /\ ~bIsRequestOver[c] /\ acBody[c] # <<>>
          /\ body' = [body EXCEPT ![c] = @ \o acBody[c]]
          /\ acBody' = [acBody EXCEPT ![c] = <<>>]
          /\ UNCHANGED <<conn, bHasResponse>>
    /\ Signal(c)
    /\ UNCHANGED <<obj, nHTTPClientNum, iState, iConnectRetry, acBuffer, bIsRequestOver, got,
                   pFDList, todo, msgs, resp>>

\* mutated: the condition is signalled only at the end
FillSignalsLast(c) ==
    /\ conn[c] = "open"
    /\ \/ /\ acBody[c] # <<>>
          /\ body' = [body EXCEPT ![c] = @ \o acBody[c]]
          /\ acBody' = [acBody EXCEPT ![c] = <<>>]
          /\ UNCHANGED <<conn, bHasResponse, asleep>>
       \/ /\ acBody[c] = <<>> /\ bIsRequestOver[c]
          /\ conn' = [conn EXCEPT ![c] = "done"]
          /\ UNCHANGED <<body, acBody, bHasResponse>> /\ Signal(c)
    /\ UNCHANGED <<obj, nHTTPClientNum, iState, iConnectRetry, acBuffer, bIsRequestOver, got,
                   pFDList, todo, msgs, resp>>

\* Called until it returns 0; nothing to send and not over: called again later.
FillURLCGIData(c) ==
    /\ conn[c] = "open"
    /\ \/ /\ acBody[c] # <<>>
          /\ body' = [body EXCEPT ![c] = @ \o acBody[c]]
          /\ acBody' = [acBody EXCEPT ![c] = <<>>]
          /\ UNCHANGED <<conn, bHasResponse>>
       \/ /\ acBody[c] = <<>> /\ bIsRequestOver[c] /\ ~bHasResponse[c]
          /\ bHasResponse' = [bHasResponse EXCEPT ![c] = TRUE]
          /\ body' = [body EXCEPT ![c] = Append(@, NoResponse)]
          /\ UNCHANGED <<conn, acBody>>
       \/ /\ acBody[c] = <<>> /\ bIsRequestOver[c] /\ bHasResponse[c]
          /\ conn' = [conn EXCEPT ![c] = "done"]
          /\ UNCHANGED <<body, acBody, bHasResponse>>
       \/ /\ acBody[c] = <<>> /\ ~bIsRequestOver[c]
          /\ UNCHANGED <<conn, body, acBody, bHasResponse>>
    /\ Signal(c)
    /\ UNCHANGED <<obj, nHTTPClientNum, iState, iConnectRetry, acBuffer, bIsRequestOver, got,
                   pFDList, todo, msgs, resp>>

\* The answer has been sent, or the browser has gone.
URLCGI_RequestOver(c) ==
    /\ conn[c] # "none"
    /\ conn' = [conn EXCEPT ![c] = "none"]
    /\ Send([do |-> "del", of |-> c])
    /\ nHTTPClientNum' = nHTTPClientNum - 1
    /\ UNCHANGED <<obj, client, pFDList, todo, resp, asleep>>

------------------------------------------------------------------------------
(* The select thread: the end of a round and the start of the next *)

RoundEnds == todo = <<>> /\ ~resp.in /\ UNCHANGED <<conn, nHTTPClientNum, resp, asleep>>

NewRound(list) == pFDList' = list /\ todo' = list

Told(what) == msgs # <<>> /\ Head(msgs).do = what /\ msgs' = Tail(msgs)

\* select has returned without a message.
NoMsg == /\ RoundEnds /\ msgs = <<>> /\ pFDList # <<>>
         /\ NewRound(pFDList)
         /\ UNCHANGED <<obj, client, msgs>>

\* MSG_ADD_FD; there may be no memory for the node.
MsgAddFD == /\ RoundEnds /\ Told("add")
            /\ NewRound(Append(pFDList, Head(msgs).of)) \/ NewRound(pFDList)
            /\ UNCHANGED <<obj, client>>

\* Taken out of the list if it is there still, and freed.
URLCGI_DelFD ==
    LET c == Head(msgs).of IN
    /\ RoundEnds /\ Told("del")
    /\ NewRound(SelectSeq(pFDList, LAMBDA d : d # c))
    /\ obj' = obj \ {c}
    \* fields of a new object (URLCGI_HTTPC_Init)
    /\ iState' = [iState EXCEPT ![c] = "INIT"]
    /\ iConnectRetry' = [iConnectRetry EXCEPT ![c] = 0]
    /\ acBuffer' = [acBuffer EXCEPT ![c] = <<>>] /\ acBody' = [acBody EXCEPT ![c] = <<>>]
    /\ bIsRequestOver' = [bIsRequestOver EXCEPT ![c] = FALSE]
    /\ bHasResponse' = [bHasResponse EXCEPT ![c] = FALSE]
    /\ got' = [got EXCEPT ![c] = 0] /\ body' = [body EXCEPT ![c] = <<>>]

------------------------------------------------------------------------------
(* The select thread: HTTPC_Process *)

Process(c, st) == /\ todo # <<>> /\ Head(todo) = c /\ ~resp.in
                  /\ iState[c] = st
                  /\ todo' = Tail(todo)
                  /\ UNCHANGED <<conn, obj, nHTTPClientNum, msgs, body>>

Quiet == UNCHANGED <<acBuffer, acBody, bIsRequestOver, bHasResponse, got, pFDList, resp, asleep>>

FD_Next(c, st) == iState' = [iState EXCEPT ![c] = st]

\* ResolveHost waits for the name server.
NetInit(c) == /\ Process(c, "INIT")
              /\ \E st \in {"CONNECT", "OVER"} : FD_Next(c, st)
              /\ Quiet /\ UNCHANGED iConnectRetry

Retry(c) == iConnectRetry' = [iConnectRetry EXCEPT ![c] = @ + 1]

\* No more than so many sockets are tried; there may be none left.
NetConnect(c) ==
    /\ Process(c, "CONNECT")
    /\ Retry(c)
    /\ \/ iConnectRetry'[c] <= HTTPC_MAX_CONNECT_RETRY /\ FD_Next(c, "CONNECTING")
       \/ FD_Next(c, "OVER")
    /\ Quiet

\* Connected; refused or timed out; or nothing yet.
NetConnecting(c) == /\ Process(c, "CONNECTING")
                    /\ \E st \in {"WRITE", "CONNECT", "CONNECTING"} : FD_Next(c, st)
                    /\ Quiet /\ UNCHANGED iConnectRetry

\* The request is out; it failed or timed out; or some of it is left.
NetWrite(c) == /\ Process(c, "WRITE")
               /\ \E st \in {"READ", "OVER", "WRITE"} : FD_Next(c, st)
               /\ Quiet /\ UNCHANGED iConnectRetry

Room(c, data) == acBody[c] = <<>>

\* The loop of URLCGI_HTTPCResponse from here to its return or its next wait; then is
\* the state the client goes to after the return.
URLCGI_HTTPCResponse(c, data, then) ==
    LET k    == IF Len(data) < Body THEN Len(data) ELSE Body
        rest == IF Room(c, data) THEN SubSeq(data, k + 1, Len(data)) ELSE data
    IN  /\ bHasResponse' = [bHasResponse EXCEPT ![c] = TRUE]
        /\ acBody' = IF data # <<>> /\ Room(c, data)
                     THEN [acBody EXCEPT ![c] = SubSeq(data, 1, k)] ELSE acBody
        /\ asleep' = (rest # <<>>)
        /\ resp' = IF rest # <<>> THEN [in |-> TRUE, of |-> c, rest |-> rest, then |-> then]
                                  ELSE NoCall
        /\ IF rest # <<>> THEN UNCHANGED iState ELSE FD_Next(c, then)

\* Units arrive; the callback is made when half of the buffer is full.
NetRead(c) ==
    /\ Process(c, "READ")
    /\ \E k \in 1 .. Half :
        /\ got[c] + k <= MaxAnswer
        /\ got' = [got EXCEPT ![c] = @ + k]
        /\ LET data == acBuffer[c] \o [i \in 1 .. k |-> got[c] + i]
           IN IF Len(data) >= Half
              THEN /\ URLCGI_HTTPCResponse(c, data, "READ")
                   /\ acBuffer' = [acBuffer EXCEPT ![c] = <<>>]
              ELSE /\ acBuffer' = [acBuffer EXCEPT ![c] = data]
                   /\ UNCHANGED <<iState, acBody, bHasResponse, resp, asleep>>
    /\ UNCHANGED <<iConnectRetry, bIsRequestOver, pFDList>>

\* Nothing to read yet.
NetReadNone(c) == /\ Process(c, "READ") /\ Quiet /\ UNCHANGED <<iState, iConnectRetry>>

\* The server has closed, or failed, or nothing was read for tConnTimeout, whether or
\* not something is there now: what is left is passed on.
NetReadEnd(c) ==
    /\ Process(c, "READ")
    /\ URLCGI_HTTPCResponse(c, acBuffer[c], "OVER")
    /\ acBuffer' = [acBuffer EXCEPT ![c] = <<>>]
    /\ UNCHANGED <<iConnectRetry, bIsRequestOver, got, pFDList>>

\* cData was signalled.
Wake ==
    /\ resp.in /\ ~asleep
    /\ URLCGI_HTTPCResponse(resp.of, resp.rest, resp.then)
    /\ UNCHANGED <<conn, obj, nHTTPClientNum, iConnectRetry, acBuffer, bIsRequestOver, got, body,
                   pFDList, todo, msgs>>

\* URLCGI_HTTPCRequestOver; the thread takes the client out of its list.
NetOver(c) ==
    /\ Process(c, "OVER")
    /\ bIsRequestOver' = [bIsRequestOver EXCEPT ![c] = TRUE]
    /\ pFDList' = SelectSeq(pFDList, LAMBDA d : d # c)
    /\ UNCHANGED <<iState, iConnectRetry, acBuffer, acBody, bHasResponse, got, resp, asleep>>

HTTPC_Process(c) == \/ NetInit(c) \/ NetConnect(c) \/ NetConnecting(c) \/ NetWrite(c)
                    \/ NetRead(c) \/ NetReadNone(c) \/ NetReadEnd(c) \/ NetOver(c)

------------------------------------------------------------------------------
Thread == NoMsg \/ MsgAddFD \/ URLCGI_DelFD \/ Wake \/ \E c \in Client : HTTPC_Process(c)

UrlNext == \/ Thread
        \/ \E c \in Client : \/ Http_SendHttpRequest(c) \/ FillURLCGIData(c)
                             \/ URLCGI_RequestOver(c)

\* Both threads run: the server calls the function that fills its connection until it
\* returns 0 and ends the request then.  Waiting for a connection, for room to write and
\* for data is limited by tConnTimeout, looked at in every round.
Fairness ==
    /\ WF_urlVars(Thread)
    /\ \A c \in Client : /\ SF_urlVars(HTTPC_Process(c) /\ (iState'[c] # iState[c] \/ resp'.in))
                         /\ WF_urlVars(FillURLCGIData(c))
                         /\ WF_urlVars(conn[c] = "done" /\ URLCGI_RequestOver(c))

UrlSpec == UrlInit /\ [][UrlNext]_urlVars /\ Fairness

------------------------------------------------------------------------------
(* Properties *)

Units(n) == [i \in 1 .. n |-> i]

Held(c) == acBody[c] \o (IF Busy(c) THEN resp.rest ELSE <<>>) \o acBuffer[c]

\* Through three buffers and two threads every unit of the answer reaches the browser once
\* and in order: what was sent and what is held make up what was read, a request that ends
\* by itself leaves nothing behind, and "no response" is said only when nothing came.
Relayed ==
    \A c \in obj : /\ body[c] \o Held(c) \in {Units(got[c]), <<NoResponse>>}
                   /\ body[c] = <<NoResponse>> => got[c] = 0
                   /\ conn[c] = "done" => Held(c) = <<>>

\* The select thread waits for a browser that has gone; it does so for ever.
Stuck == asleep /\ conn[resp.of] # "open"

\* A request whose client the select thread has got ends, whether the server answers, fails
\* or falls silent (one that goes on sending for ever renews tLastOp and is not cut off:
\* its answer is taken to be finite, MaxAnswer), and however slowly the browser takes it:
\* the thread comes back from every callback, as data is never taken without waking it, and
\* attempts to connect are limited.  Only a browser that goes away while the thread waits
\* for it may stop everybody.
RequestEnds ==
    \A c \in Client : (conn[c] = "open" /\ c \in Range(pFDList)) ~> (conn[c] # "open" \/ Stuck)

------------------------------------------------------------------------------
(* The inductive invariant *)

Early == {"INIT", "CONNECT", "CONNECTING", "WRITE"}

UrlCall == [in : {TRUE}, of : Client, rest : Seq(Nat), then : {"READ", "OVER"}]

UrlTypeOK ==
    /\ conn \in [Client -> {"none", "open", "done"}]
    /\ obj \subseteq Client
    /\ iState \in [Client -> Early \cup {"READ", "OVER"}]
    /\ {acBuffer, acBody, body} \subseteq [Client -> Seq(Nat)]
    /\ got \in [Client -> Nat]
    /\ bIsRequestOver \in [Client -> BOOLEAN] /\ bHasResponse \in [Client -> BOOLEAN]
    /\ msgs \in Seq([do : {"add", "del"}, of : Client])
    /\ resp \in UrlCall \cup {NoCall}

\* A client is deleted once, after its request has ended.
DelInv ==
    /\ \A c \in Client : conn[c] # "none" => c \in obj
    /\ \A i \in 1 .. Len(msgs) : msgs[i].do = "del" => conn[msgs[i].of] = "none" /\ msgs[i].of \in obj
    /\ \A i, j \in 1 .. Len(msgs) : msgs[i].do = "del" /\ msgs[j].do = "del" /\ msgs[i].of = msgs[j].of
                                        => i = j

\* Data is held only where it can be: nothing before the answer begins, nothing in
\* acBuffer but while it is read, nothing for the browser before the first callback.
PlaceInv ==
    \A c \in Client :
        /\ iState[c] \in Early => got[c] = 0 /\ ~bHasResponse[c]
        /\ iState[c] # "READ" => acBuffer[c] = <<>>
        /\ Busy(c) => iState[c] = "READ" /\ acBuffer[c] = <<>> /\ bHasResponse[c]
        /\ bIsRequestOver[c] => iState[c] = "OVER"
        /\ ~bHasResponse[c] => body[c] = <<>> /\ acBody[c] = <<>>
        /\ conn[c] = "done" => bIsRequestOver[c] /\ acBody[c] = <<>>

\* What was sent and what is held make up what was read, or the request is over and
\* nothing was read.
StreamInv ==
    \A c \in Client : \/ body[c] \o Held(c) = Units(got[c])
                      \/ /\ body[c] = <<NoResponse>> /\ Held(c) = <<>> /\ got[c] = 0
                         /\ bIsRequestOver[c] /\ bHasResponse[c]

UrlInv == UrlTypeOK /\ DelInv /\ PlaceInv /\ StreamInv
=============================================================================
