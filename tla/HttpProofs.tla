----------------------------- MODULE HttpProofs ------------------------------
(***************************************************************************)
(* What the web requests promise, for any number of requests, any data and *)
(* any size of the buffers: SendHttp.cgi passes on what the server sends   *)
(* (module UrlCgi); the firmware that is uploaded is in flash and is read  *)
(* back (module Upload).                                                   *)
(***************************************************************************)
EXTENDS UrlCgi, Upload, SequenceTheorems, WellFoundedInduction, TLAPS

------------------------------------------------------------------------------
(* SendHttp.cgi *)

\* The first k units of data and the rest make up data.
LEMMA DataSplit ==
  ASSUME NEW data \in Seq(Nat), NEW k \in 0 .. Len(data)
  PROVE  /\ SubSeq(data, 1, k) \in Seq(Nat) /\ SubSeq(data, k + 1, Len(data)) \in Seq(Nat)
         /\ SubSeq(data, 1, k) \o SubSeq(data, k + 1, Len(data)) = data
  <1>1. Len(data) \in Nat /\ \A i \in 1 .. Len(data) : data[i] \in Nat
    BY LenProperties, ElementOfSeq
  <1>2. SubSeq(data, 1, k) \in Seq(Nat) /\ SubSeq(data, k + 1, Len(data)) \in Seq(Nat)
    BY <1>1, SubSeqProperties
  <1>3. SubSeq(data, 1, k) \o SubSeq(data, k + 1, Len(data)) = SubSeq(data, 1, Len(data))
    <2>1. 1 \in 1 .. Len(data) + 1 /\ k \in 1 - 1 .. Len(data) /\ Len(data) \in k .. Len(data)
      BY <1>1
    <2>. QED
      BY <2>1, ConcatAdjacentSubSeq
  <1>. QED
    BY <1>2, <1>3, SubSeqFull

\* Units that arrive go on where the ones before them ended.
LEMMA UnitsGrow ==
  ASSUME NEW n \in Nat, NEW k \in Nat
  PROVE  /\ Units(n) \in Seq(Nat) /\ Len(Units(n)) = n
         /\ [i \in 1 .. k |-> n + i] \in Seq(Nat) /\ Len([i \in 1 .. k |-> n + i]) = k
         /\ Units(n) \o [i \in 1 .. k |-> n + i] = Units(n + k)
  <1> DEFINE new == [i \in 1 .. k |-> n + i]
  <1>1. Units(n) \in Seq(Nat) /\ Len(Units(n)) = n /\ \A i \in 1 .. n : Units(n)[i] = i
    BY DEF Units
  <1>2. new \in Seq(Nat) /\ Len(new) = k /\ \A i \in 1 .. k : new[i] = n + i
    OBVIOUS
  <1>3. Units(n + k) \in Seq(Nat) /\ Len(Units(n + k)) = n + k /\ \A i \in 1 .. n + k : Units(n + k)[i] = i
    BY DEF Units
  <1>. HIDE DEF new
  <1>4. /\ Units(n) \o new \in Seq(Nat) /\ Len(Units(n) \o new) = n + k
        /\ \A i \in 1 .. n + k : (Units(n) \o new)[i] = i
    <2>1. /\ Units(n) \o new \in Seq(Nat) /\ Len(Units(n) \o new) = n + k
          /\ \A i \in 1 .. n + k : (Units(n) \o new)[i] = IF i <= n THEN Units(n)[i] ELSE new[i - n]
      <3>1. /\ Units(n) \o new \in Seq(Nat) /\ Len(Units(n) \o new) = Len(Units(n)) + Len(new)
            /\ \A i \in 1 .. Len(Units(n)) + Len(new) : (Units(n) \o new)[i] =
                    IF i <= Len(Units(n)) THEN Units(n)[i] ELSE new[i - Len(Units(n))]
        BY <1>1, <1>2, ConcatProperties, Zenon
      <3>. QED
        BY <1>1, <1>2, <3>1
    <2>2. ASSUME NEW i \in 1 .. n + k PROVE (IF i <= n THEN Units(n)[i] ELSE new[i - n]) = i
      BY <1>1, <1>2
    <2>. QED
      BY <2>1, <2>2
  <1>5. Units(n) \o new = Units(n + k)
    BY <1>3, <1>4, SeqEqual
  <1>. QED
    BY <1>1, <1>2, <1>5 DEF new

\* Concatenation is associative.
LEMMA Regrouped ==
  ASSUME NEW a \in Seq(Nat), NEW b \in Seq(Nat), NEW c \in Seq(Nat)
  PROVE  (a \o b) \o c = a \o (b \o c)
  <1>1. a \o b \in Seq(Nat) /\ b \o c \in Seq(Nat)
    BY ConcatProperties
  <1>2. (a \o b) \o c \in Seq(Nat) /\ a \o (b \o c) \in Seq(Nat)
    BY <1>1, ConcatProperties
  <1>3. Len((a \o b) \o c) = Len(a \o (b \o c))
    BY <1>1
  <1>4. ASSUME NEW i \in 1 .. Len((a \o b) \o c) PROVE ((a \o b) \o c)[i] = (a \o (b \o c))[i]
    BY <1>1
  <1>. QED
    BY <1>2, <1>3, <1>4, SeqEqual

\* Taking a sequence from the front of what is held to the end of what was sent.
LEMMA Passed ==
  ASSUME NEW a \in Seq(Nat), NEW b \in Seq(Nat), NEW c \in Seq(Nat), NEW d \in Seq(Nat)
  PROVE  (a \o b) \o ((<<>> \o c) \o d) = a \o ((b \o c) \o d)
  <1>1. <<>> \o c = c
    BY ConcatEmptySeq
  <1>2. c \o d \in Seq(Nat)
    BY ConcatProperties
  <1>3. (b \o c) \o d = b \o (c \o d)
    BY Regrouped, ZenonT(40)
  <1>4. (a \o b) \o (c \o d) = a \o (b \o (c \o d))
    BY <1>2, Regrouped, ZenonT(40)
  <1>. QED
    BY <1>1, <1>3, <1>4, Zenon

\* What waits inside the callback for the client c.
Waiting(c) == IF Busy(c) THEN resp.rest ELSE <<>>

\* What a client holds back, and what its browser was sent, are sequences of units.
LEMMA HeldType ==
  ASSUME UrlTypeOK, NEW c \in Client
  PROVE  /\ Waiting(c) \in Seq(Nat) /\ acBody[c] \in Seq(Nat) /\ acBuffer[c] \in Seq(Nat)
         /\ body[c] \in Seq(Nat) /\ Held(c) = (acBody[c] \o Waiting(c)) \o acBuffer[c]
         /\ Held(c) \in Seq(Nat)
  <1>1. Waiting(c) \in Seq(Nat)
    <2>1. CASE resp = NoCall
      BY <2>1, EmptySeq DEF NoCall, Busy, Waiting
    <2>2. CASE resp \in UrlCall
      <3>1. resp.rest \in Seq(Nat)
        BY <2>2 DEF UrlCall
      <3>. QED
        BY <3>1, EmptySeq DEF Waiting
    <2>. QED
      BY <2>1, <2>2 DEF UrlTypeOK
  <1>2. acBody[c] \in Seq(Nat) /\ acBuffer[c] \in Seq(Nat) /\ body[c] \in Seq(Nat)
    BY DEF UrlTypeOK
  <1>3. Held(c) = (acBody[c] \o Waiting(c)) \o acBuffer[c]
    BY DEF Held, Waiting
  <1>. QED
    BY <1>1, <1>2, <1>3, ConcatProperties

\* What a call of URLCGI_HTTPCResponse does to the client c: what is then in acBody and
\* what waits is what was in acBody and the data.
Passes(c, data, then) ==
    /\ acBody' \in [Client -> Seq(Nat)] /\ resp' \in UrlCall \cup {NoCall}
    /\ bHasResponse' = [bHasResponse EXCEPT ![c] = TRUE]
    /\ \A d \in Client \ {c} : acBody'[d] = acBody[d]
    /\ acBody'[c] \o Waiting(c)' = acBody[c] \o data
    /\ resp'.in => resp'.of = c /\ iState' = iState
    /\ ~resp'.in => iState' = [iState EXCEPT ![c] = then]

\* The callback loses, doubles and moves no unit.
LEMMA ResponseKeeps ==
  ASSUME UrlTypeOK, NEW c \in Client, NEW data \in Seq(Nat), NEW then \in {"READ", "OVER"},
         URLCGI_HTTPCResponse(c, data, then)
  PROVE  Passes(c, data, then)
  <1> DEFINE k    == IF Len(data) < Body THEN Len(data) ELSE Body
             rest == IF Room(c, data) THEN SubSeq(data, k + 1, Len(data)) ELSE data
  <1>0. k \in 0 .. Len(data) /\ Len(data) \in Nat
    BY UrlCgiAssumption, LenProperties
  <1>1. /\ bHasResponse' = [bHasResponse EXCEPT ![c] = TRUE]
        /\ acBody' = IF data # <<>> /\ Room(c, data)
                     THEN [acBody EXCEPT ![c] = SubSeq(data, 1, k)] ELSE acBody
        /\ resp' = IF rest # <<>> THEN [in |-> TRUE, of |-> c, rest |-> rest, then |-> then]
                                  ELSE NoCall
        /\ IF rest # <<>> THEN UNCHANGED iState ELSE FD_Next(c, then)
    BY DEF URLCGI_HTTPCResponse
  <1>2. /\ SubSeq(data, 1, k) \in Seq(Nat) /\ SubSeq(data, k + 1, Len(data)) \in Seq(Nat)
        /\ SubSeq(data, 1, k) \o SubSeq(data, k + 1, Len(data)) = data
    <2>. HIDE DEF k
    <2>. QED
      BY <1>0, DataSplit
  <1>3. rest \in Seq(Nat)
    BY <1>2
  <1>4. acBody \in [Client -> Seq(Nat)] /\ <<>> \in Seq(Nat)
    BY EmptySeq DEF UrlTypeOK
  <1>. HIDE DEF k
  <1>5. /\ acBody' \in [Client -> Seq(Nat)]
        /\ acBody'[c] = IF data # <<>> /\ Room(c, data) THEN SubSeq(data, 1, k) ELSE acBody[c]
        /\ \A d \in Client \ {c} : acBody'[d] = acBody[d]
    BY <1>1, <1>2, <1>4
  <1>6. rest = <<>> => ~Busy(c)' /\ Waiting(c)' = <<>> /\ resp' = NoCall
    BY <1>1 DEF Busy, Waiting, NoCall
  <1>7. rest # <<>> => /\ Busy(c)' /\ Waiting(c)' = rest
                       /\ resp' = [in |-> TRUE, of |-> c, rest |-> rest, then |-> then]
    <2>. HIDE DEF rest
    <2>. QED
      BY <1>1 DEF Busy, Waiting
  <1>8. resp' \in UrlCall \cup {NoCall} /\ (resp'.in => resp'.of = c)
    <2>. HIDE DEF rest
    <2>. QED
      BY <1>1, <1>3 DEF UrlCall, NoCall
  <1>9. acBody'[c] \o Waiting(c)' = acBody[c] \o data
    <2>1. Waiting(c)' = rest
      BY <1>6, <1>7, Zenon
    <2>2. CASE Room(c, data)
      <3>1. acBody[c] \o data = data
        BY <2>2, ConcatEmptySeq DEF Room
      <3>2. CASE data # <<>>
        BY <1>2, <1>5, <2>1, <2>2, <3>1, <3>2
      <3>3. CASE data = <<>>
        <4>1. rest = <<>>
          BY <1>0, <2>2, <3>3, SubSeqEmpty, Len(data) < k + 1, EmptySeq
        <4>. QED
          BY <1>5, <2>1, <3>3, <4>1
      <3>. QED
        BY <3>2, <3>3
    <2>3. CASE ~Room(c, data)
      BY <1>5, <2>1, <2>3
    <2>. QED
      BY <2>2, <2>3
  <1>10. (resp'.in => iState' = iState) /\ (~resp'.in => iState' = [iState EXCEPT ![c] = then])
    <2>. HIDE DEF rest
    <2>. QED
      BY <1>1 DEF FD_Next, NoCall
  <1>. QED
    BY <1>1, <1>5, <1>8, <1>9, <1>10 DEF Passes

------------------------------------------------------------------------------
(* The HTTP thread and the messages *)

\* Nothing is held at the start.
LEMMA UrlInitially == UrlInit => UrlInv
  <1>. SUFFICES ASSUME UrlInit PROVE UrlInv
    OBVIOUS
  <1>. USE DEF UrlInit
  <1>0. \A c \in Client : ~Busy(c)
    BY DEF Busy, NoCall
  <1>1. UrlTypeOK
    BY EmptySeq DEF UrlTypeOK, Early
  <1>2. DelInv
    BY DEF DelInv
  <1>3. PlaceInv
    BY <1>0 DEF PlaceInv, Early
  <1>4. StreamInv
    <2>. SUFFICES ASSUME NEW c \in Client PROVE body[c] \o Held(c) = Units(got[c])
      BY DEF StreamInv
    <2>1. body[c] \o Held(c) = <<>> /\ got[c] = 0
      BY <1>0 DEF Held
    <2>. QED
      BY <2>1 DEF Units
  <1>. QED
    BY <1>1, <1>2, <1>3, <1>4 DEF UrlInv

\* What the thread and the browser have of every answer is left alone.
LEMMA StreamKept ==
  ASSUME StreamInv, UNCHANGED <<acBuffer, acBody, bIsRequestOver, bHasResponse, got, body, resp>>
  PROVE  StreamInv'
  BY DEF StreamInv, Held, Busy, Units

\* Messages are sent for clients that are there: a new one, or the one whose request ends.
LEMMA SendKeeps ==
  ASSUME UrlTypeOK, NEW m \in [do : {"add", "del"}, of : Client], Send(m)
  PROVE  /\ msgs' \in Seq([do : {"add", "del"}, of : Client])
         /\ Len(msgs') \in Nat /\ Len(msgs) \in Nat /\ Len(msgs') \in {Len(msgs), Len(msgs) + 1}
         /\ \A i \in 1 .. Len(msgs') : msgs'[i] = IF i <= Len(msgs) THEN msgs[i] ELSE m
  <1>1. msgs \in Seq([do : {"add", "del"}, of : Client])
    BY DEF UrlTypeOK
  <1>2. CASE msgs' = msgs
    BY <1>1, <1>2
  <1>3. CASE msgs' = Append(msgs, m)
    BY <1>1, <1>3
  <1>. QED
    BY <1>2, <1>3 DEF Send

\* SendHttp.cgi is called: the client is new, with nothing read or sent.
LEMMA RequestKeeps ==
  ASSUME UrlInv, NEW c \in Client, Http_SendHttpRequest(c)
  PROVE  UrlInv'
  <1>. USE DEF UrlInv, Http_SendHttpRequest, client
  <1> DEFINE m == [do |-> "add", of |-> c]
  <1>1. /\ msgs' \in Seq([do : {"add", "del"}, of : Client])
        /\ Len(msgs') \in Nat /\ Len(msgs) \in Nat /\ Len(msgs') \in {Len(msgs), Len(msgs) + 1}
        /\ \A i \in 1 .. Len(msgs') : msgs'[i] = IF i <= Len(msgs) THEN msgs[i] ELSE m
    BY SendKeeps
  <1>2. UrlTypeOK'
    BY <1>1 DEF UrlTypeOK
  <1>3. DelInv'
    <2>1. \A d \in Client : conn'[d] # "none" => d \in obj'
      BY DEF DelInv, UrlTypeOK
    <2>2. ASSUME NEW i \in 1 .. Len(msgs'), msgs'[i].do = "del"
          PROVE  i \in 1 .. Len(msgs) /\ msgs'[i] = msgs[i]
      BY <1>1, <2>2
    <2>3. ASSUME NEW i \in 1 .. Len(msgs'), msgs'[i].do = "del"
          PROVE  conn'[msgs'[i].of] = "none" /\ msgs'[i].of \in obj'
      <3>1. conn[msgs[i].of] = "none" /\ msgs[i].of \in obj
        BY <2>2, <2>3 DEF DelInv
      <3>2. msgs[i].of # c /\ msgs[i].of \in Client
        BY <3>1 DEF UrlTypeOK
      <3>3. conn'[msgs[i].of] = conn[msgs[i].of] /\ msgs[i].of \in obj'
        BY <3>1, <3>2 DEF UrlTypeOK
      <3>. QED
        BY <2>2, <2>3, <3>1, <3>3
    <2>4. ASSUME NEW i \in 1 .. Len(msgs'), NEW j \in 1 .. Len(msgs'),
                 msgs'[i].do = "del", msgs'[j].do = "del", msgs'[i].of = msgs'[j].of
          PROVE  i = j
      BY <2>2, <2>4 DEF DelInv
    <2>. QED
      BY <2>1, <2>3, <2>4 DEF DelInv
  <1>4. PlaceInv'
    BY DEF PlaceInv, Busy, UrlTypeOK
  <1>. QED
    BY <1>2, <1>3, <1>4, StreamKept

\* A request ends, by itself or because its browser is gone: its client is to be deleted.
LEMMA RequestOverKeeps ==
  ASSUME UrlInv, NEW c \in Client, URLCGI_RequestOver(c)
  PROVE  UrlInv'
  <1>. USE DEF UrlInv, URLCGI_RequestOver, client
  <1> DEFINE m == [do |-> "del", of |-> c]
  <1>1. /\ msgs' \in Seq([do : {"add", "del"}, of : Client])
        /\ Len(msgs') \in Nat /\ Len(msgs) \in Nat /\ Len(msgs') \in {Len(msgs), Len(msgs) + 1}
        /\ \A i \in 1 .. Len(msgs') : msgs'[i] = IF i <= Len(msgs) THEN msgs[i] ELSE m
    BY SendKeeps
  <1>2. UrlTypeOK'
    BY <1>1 DEF UrlTypeOK
  <1>3. DelInv'
    <2>0. c \in obj /\ conn'[c] = "none" /\ obj' = obj /\ \A d \in Client \ {c} : conn'[d] = conn[d]
      BY DEF DelInv, UrlTypeOK
    <2>1. \A d \in Client : conn'[d] # "none" => d \in obj'
      BY <2>0 DEF DelInv
    <2>2. ASSUME NEW i \in 1 .. Len(msgs'), i # Len(msgs) + 1
          PROVE  i \in 1 .. Len(msgs) /\ msgs'[i] = msgs[i]
      BY <1>1, <2>2
    <2>3. Len(msgs) + 1 \in 1 .. Len(msgs') => msgs'[Len(msgs) + 1] = m
      BY <1>1
    <2>4. ASSUME NEW i \in 1 .. Len(msgs'), msgs'[i].do = "del"
          PROVE  conn'[msgs'[i].of] = "none" /\ msgs'[i].of \in obj'
      <3>1. CASE i = Len(msgs) + 1
        BY <2>0, <2>3, <3>1
      <3>2. CASE i # Len(msgs) + 1
        <4>1. conn[msgs[i].of] = "none" /\ msgs[i].of \in obj
          BY <2>2, <2>4, <3>2 DEF DelInv
        <4>. QED
          BY <2>0, <2>2, <3>2, <4>1
      <3>. QED
        BY <3>1, <3>2
    <2>5. ASSUME NEW i \in 1 .. Len(msgs'), i # Len(msgs) + 1, msgs'[i].do = "del" PROVE msgs'[i].of # c
      BY <2>2, <2>5 DEF DelInv
    <2>6. ASSUME NEW i \in 1 .. Len(msgs'), NEW j \in 1 .. Len(msgs'),
                 msgs'[i].do = "del", msgs'[j].do = "del", msgs'[i].of = msgs'[j].of
          PROVE  i = j
      <3>1. CASE i # Len(msgs) + 1 /\ j # Len(msgs) + 1
        BY <2>2, <2>6, <3>1 DEF DelInv
      <3>2. CASE i = Len(msgs) + 1
        BY <2>3, <2>5, <2>6, <3>2
      <3>3. CASE j = Len(msgs) + 1
        BY <2>3, <2>5, <2>6, <3>3
      <3>. QED
        BY <3>1, <3>2, <3>3
    <2>. QED
      BY <2>1, <2>4, <2>6 DEF DelInv
  <1>4. PlaceInv'
    BY DEF PlaceInv, Busy, UrlTypeOK
  <1>. QED
    BY <1>2, <1>3, <1>4, StreamKept

\* The thread has handled the first message.
LEMMA ToldKeeps ==
  ASSUME UrlTypeOK, msgs # <<>>, msgs' = Tail(msgs)
  PROVE  /\ msgs' \in Seq([do : {"add", "del"}, of : Client])
         /\ Head(msgs) = msgs[1] /\ 1 \in 1 .. Len(msgs)
         /\ \A i \in 1 .. Len(msgs') : i + 1 \in 1 .. Len(msgs) /\ msgs'[i] = msgs[i + 1]
  BY DEF UrlTypeOK

\* The messages that are left ask for what they asked for.
LEMMA TailKeeps ==
  ASSUME DelInv, conn' = conn, Len(msgs') \in Nat,
         \A i \in 1 .. Len(msgs') : i + 1 \in 1 .. Len(msgs) /\ msgs'[i] = msgs[i + 1],
         \A c \in Client : conn[c] # "none" => c \in obj',
         \A i \in 1 .. Len(msgs') : msgs'[i].do = "del" /\ msgs'[i].of \in obj => msgs'[i].of \in obj'
  PROVE  DelInv'
  <1>1. ASSUME NEW i \in 1 .. Len(msgs'), msgs'[i].do = "del"
        PROVE  conn'[msgs'[i].of] = "none" /\ msgs'[i].of \in obj'
    BY <1>1 DEF DelInv
  <1>2. ASSUME NEW i \in 1 .. Len(msgs'), NEW j \in 1 .. Len(msgs'),
               msgs'[i].do = "del", msgs'[j].do = "del", msgs'[i].of = msgs'[j].of
        PROVE  i = j
    <2>1. i + 1 = j + 1
      BY <1>2 DEF DelInv
    <2>. QED
      BY <2>1
  <1>. QED
    BY <1>1, <1>2 DEF DelInv

\* The select thread takes no message, or one that adds a client.
LEMMA RoundKeeps ==
  ASSUME UrlInv, NoMsg \/ MsgAddFD
  PROVE  UrlInv'
  <1>. USE DEF UrlInv, NoMsg, MsgAddFD, RoundEnds, Told, client
  <1>0. UNCHANGED <<conn, obj, iState, acBuffer, acBody, bIsRequestOver, bHasResponse, got, body, resp>>
    OBVIOUS
  <1>1. CASE msgs' = msgs
    <2>1. UrlTypeOK' /\ DelInv' /\ PlaceInv'
      BY <1>0, <1>1 DEF UrlTypeOK, DelInv, PlaceInv, Busy
    <2>. QED
      BY <1>0, <2>1, StreamKept
  <1>2. CASE msgs # <<>> /\ msgs' = Tail(msgs)
    <2>1. /\ msgs' \in Seq([do : {"add", "del"}, of : Client])
          /\ \A i \in 1 .. Len(msgs') : i + 1 \in 1 .. Len(msgs) /\ msgs'[i] = msgs[i + 1]
      BY <1>2, ToldKeeps
    <2>2. UrlTypeOK' /\ PlaceInv'
      BY <1>0, <2>1 DEF UrlTypeOK, PlaceInv, Busy
    <2>3. DelInv'
      BY <1>0, <2>1, TailKeeps DEF DelInv
    <2>. QED
      BY <1>0, <2>2, <2>3, StreamKept
  <1>. QED
    BY <1>1, <1>2

\* The select thread takes a message that deletes a client: what it held goes with it.
LEMMA DelKeeps ==
  ASSUME UrlInv, URLCGI_DelFD
  PROVE  UrlInv'
  <1>. USE DEF UrlInv
  <1> DEFINE c == Head(msgs).of
  <1>0. msgs # <<>> /\ Head(msgs).do = "del" /\ msgs' = Tail(msgs)
    BY DEF URLCGI_DelFD, Told
  <1>1. /\ msgs' \in Seq([do : {"add", "del"}, of : Client])
        /\ Head(msgs) = msgs[1] /\ 1 \in 1 .. Len(msgs)
        /\ \A i \in 1 .. Len(msgs') : i + 1 \in 1 .. Len(msgs) /\ msgs'[i] = msgs[i + 1]
    BY <1>0, ToldKeeps
  <1>2. c \in Client /\ conn[c] = "none"
    BY <1>0, <1>1 DEF UrlTypeOK, DelInv
  <1>3. /\ obj' = obj \ {c} /\ conn' = conn /\ resp' = resp /\ ~resp.in
        /\ iState' = [iState EXCEPT ![c] = "INIT"]
        /\ acBuffer' = [acBuffer EXCEPT ![c] = <<>>] /\ acBody' = [acBody EXCEPT ![c] = <<>>]
        /\ bIsRequestOver' = [bIsRequestOver EXCEPT ![c] = FALSE]
        /\ bHasResponse' = [bHasResponse EXCEPT ![c] = FALSE]
        /\ got' = [got EXCEPT ![c] = 0] /\ body' = [body EXCEPT ![c] = <<>>]
    BY DEF URLCGI_DelFD, RoundEnds
  <1>. HIDE DEF c
  <1>4. UrlTypeOK'
    BY <1>1, <1>2, <1>3, EmptySeq, SMTT(30) DEF UrlTypeOK, Early
  <1>5. DelInv'
    <2>1. \A i \in 1 .. Len(msgs') : msgs'[i].do = "del" => msgs'[i].of # c
      <3>. SUFFICES ASSUME NEW i \in 1 .. Len(msgs'), msgs'[i].do = "del", msgs'[i].of = c PROVE FALSE
        OBVIOUS
      <3>1. i + 1 = 1
        BY <1>0, <1>1 DEF DelInv, c
      <3>. QED
        BY <1>1, <3>1
    <2>2. Len(msgs') \in Nat
      BY <1>1
    <2>3. \A d \in Client : conn[d] # "none" => d \in obj'
      BY <1>2, <1>3 DEF DelInv
    <2>. QED
      BY <1>1, <1>3, <2>1, <2>2, <2>3, TailKeeps
  <1>6. \A d \in Client : ~Busy(d) /\ ~Busy(d)'
    BY <1>3 DEF Busy
  <1>7. PlaceInv'
    BY <1>2, <1>3, <1>6 DEF PlaceInv, Early, UrlTypeOK
  <1>8. StreamInv'
    <2>. SUFFICES ASSUME NEW d \in Client
                  PROVE  \/ body'[d] \o Held(d)' = Units(got'[d])
                         \/ /\ body'[d] = <<NoResponse>> /\ Held(d)' = <<>> /\ got'[d] = 0
                            /\ bIsRequestOver'[d] /\ bHasResponse'[d]
      BY DEF StreamInv, Units
    <2>1. CASE d = c
      <3>1. body'[d] \o Held(d)' = <<>> /\ got'[d] = 0
        BY <1>2, <1>3, <1>6, <2>1 DEF Held, UrlTypeOK
      <3>. QED
        BY <3>1 DEF Units
    <2>2. CASE d # c
      <3>1. Held(d)' = Held(d) /\ body'[d] = body[d] /\ got'[d] = got[d]
            /\ bIsRequestOver'[d] = bIsRequestOver[d] /\ bHasResponse'[d] = bHasResponse[d]
        BY <1>3, <1>6, <2>2 DEF Held, UrlTypeOK
      <3>. QED
        BY <3>1 DEF StreamInv
    <2>. QED
      BY <2>1, <2>2
  <1>. QED
    BY <1>4, <1>5, <1>7, <1>8

------------------------------------------------------------------------------
(* FillURLCGIData *)

\* Clients other than c keep all they have.
Apart(c) ==
    \A d \in Client \ {c} :
        /\ iState'[d] = iState[d] /\ got'[d] = got[d] /\ conn'[d] = conn[d]
        /\ acBuffer'[d] = acBuffer[d] /\ acBody'[d] = acBody[d] /\ body'[d] = body[d]
        /\ bIsRequestOver'[d] = bIsRequestOver[d] /\ bHasResponse'[d] = bHasResponse[d]
        /\ (Busy(d)' <=> Busy(d)) /\ Waiting(d)' = Waiting(d)

\* A step on one client that keeps that client's part of the invariant keeps it all.
LEMMA ApartKeeps ==
  ASSUME UrlInv, NEW c \in Client, Apart(c), UrlTypeOK', obj' = obj, msgs' = msgs,
         conn'[c] # "none" <=> conn[c] # "none",
         iState'[c] \in Early => got'[c] = 0 /\ ~bHasResponse'[c],
         iState'[c] # "READ" => acBuffer'[c] = <<>>,
         Busy(c)' => iState'[c] = "READ" /\ acBuffer'[c] = <<>> /\ bHasResponse'[c],
         bIsRequestOver'[c] => iState'[c] = "OVER",
         ~bHasResponse'[c] => body'[c] = <<>> /\ acBody'[c] = <<>>,
         conn'[c] = "done" => bIsRequestOver'[c] /\ acBody'[c] = <<>>,
         \/ body'[c] \o Held(c)' = Units(got'[c])
         \/ /\ body'[c] = <<NoResponse>> /\ Held(c)' = <<>> /\ got'[c] = 0
            /\ bIsRequestOver'[c] /\ bHasResponse'[c]
  PROVE  UrlInv'
  <1>. USE DEF UrlInv
  <1>1. \A d \in Client : conn'[d] # "none" <=> conn[d] # "none"
    BY DEF Apart
  <1>2. DelInv'
    <2>0. msgs \in Seq([do : {"add", "del"}, of : Client])
      BY DEF UrlTypeOK
    <2>1. \A i \in 1 .. Len(msgs) : msgs[i].of \in Client
      <3>1. \A i \in 1 .. Len(msgs) : msgs[i] \in [do : {"add", "del"}, of : Client]
        BY <2>0, ElementOfSeq
      <3>. QED
        BY <3>1
    <2>. QED
      BY <1>1, <2>1 DEF DelInv
  <1>3. PlaceInv'
    BY DEF Apart, PlaceInv
  <1>4. StreamInv'
    <2>. SUFFICES ASSUME NEW d \in Client \ {c}
                  PROVE  \/ body'[d] \o Held(d)' = Units(got'[d])
                         \/ /\ body'[d] = <<NoResponse>> /\ Held(d)' = <<>> /\ got'[d] = 0
                            /\ bIsRequestOver'[d] /\ bHasResponse'[d]
      BY DEF StreamInv, Units
    <2>1. Held(d)' = Held(d)
      BY DEF Apart, Held, Waiting
    <2>. QED
      BY <2>1 DEF Apart, StreamInv
  <1>. QED
    BY <1>2, <1>3, <1>4

\* The HTTP server fetches data: what was in acBody is sent, and the callback is woken.
LEMMA FillKeeps ==
  ASSUME UrlInv, NEW c \in Client, FillURLCGIData(c)
  PROVE  UrlInv'
  <1>. USE DEF UrlInv
  <1>0. /\ UNCHANGED <<obj, iState, acBuffer, bIsRequestOver, got, msgs, resp>>
        /\ conn[c] = "open"
    BY DEF FillURLCGIData
  <1>1. \A d \in Client : (Busy(d)' <=> Busy(d)) /\ Waiting(d)' = Waiting(d)
    BY <1>0 DEF Busy, Waiting
  <1>2. /\ Waiting(c) \in Seq(Nat) /\ acBody[c] \in Seq(Nat) /\ acBuffer[c] \in Seq(Nat)
        /\ body[c] \in Seq(Nat) /\ Held(c) = (acBody[c] \o Waiting(c)) \o acBuffer[c]
        /\ Held(c)' = (acBody'[c] \o Waiting(c)) \o acBuffer[c]
    BY <1>0, <1>1, HeldType DEF Held, Waiting
  <1>3. CASE /\ acBody[c] # <<>>
             /\ body' = [body EXCEPT ![c] = @ \o acBody[c]]
             /\ acBody' = [acBody EXCEPT ![c] = <<>>]
             /\ UNCHANGED <<conn, bHasResponse>>
    <2>1. body[c] \o acBody[c] \in Seq(Nat)
      BY <1>2, ConcatProperties
    <2>2. UrlTypeOK'
      BY <1>0, <1>3, <2>1, EmptySeq DEF UrlTypeOK
    <2>3. Apart(c)
      BY <1>0, <1>1, <1>3 DEF Apart, UrlTypeOK
    <2>4. body'[c] = body[c] \o acBody[c] /\ acBody'[c] = <<>>
      BY <1>3 DEF UrlTypeOK
    <2>5. bHasResponse[c]
      BY <1>3 DEF PlaceInv
    <2>6. body[c] \o Held(c) = Units(got[c])
      <3>1. Held(c) # <<>>
        <4>1. Len(acBody[c]) > 0
          BY <1>2, <1>3, EmptySeq
        <4>2. Len(Held(c)) >= Len(acBody[c])
          <5>1. /\ acBody[c] \o Waiting(c) \in Seq(Nat)
                /\ Len(acBody[c] \o Waiting(c)) = Len(acBody[c]) + Len(Waiting(c))
            BY <1>2, ConcatProperties
          <5>2. Len(Held(c)) = Len(acBody[c] \o Waiting(c)) + Len(acBuffer[c])
            BY <1>2, <5>1, ConcatProperties
          <5>. QED
            <6>1. Len(Waiting(c)) \in Nat /\ Len(acBuffer[c]) \in Nat /\ Len(acBody[c]) \in Nat
              BY <1>2, LenProperties
            <6>2. ASSUME NEW x \in Nat, NEW y \in Nat, NEW z \in Nat PROVE (x + y) + z >= x
              OBVIOUS
            <6>. QED
              BY <5>1, <5>2, <6>1, <6>2
        <4>. QED
          BY <4>1, <4>2, EmptySeq
      <3>. QED
        BY <3>1 DEF StreamInv
    <2>7. body'[c] \o Held(c)' = Units(got'[c])
      <3>1. (body[c] \o acBody[c]) \o ((<<>> \o Waiting(c)) \o acBuffer[c])
              = body[c] \o ((acBody[c] \o Waiting(c)) \o acBuffer[c])
        <4>1. PICK x, y, u, v : x = body[c] /\ y = acBody[c] /\ u = Waiting(c) /\ v = acBuffer[c]
          OBVIOUS
        <4>2. x \in Seq(Nat) /\ y \in Seq(Nat) /\ u \in Seq(Nat) /\ v \in Seq(Nat)
          BY <1>2, <4>1
        <4>3. (x \o y) \o ((<<>> \o u) \o v) = x \o ((y \o u) \o v)
          <5>1. <<>> \o u = u
            BY <4>2, ConcatEmptySeq
          <5>2. u \o v \in Seq(Nat)
            BY <4>2, ConcatProperties
          <5>3. (y \o u) \o v = y \o (u \o v)
            BY <4>2, Regrouped, ZenonT(40)
          <5>4. (x \o y) \o (u \o v) = x \o (y \o (u \o v))
            BY <4>2, <5>2, Regrouped, ZenonT(40)
          <5>. QED
            BY <5>1, <5>3, <5>4, Zenon
        <4>. QED
          BY <4>1, <4>3
      <3>. QED
        BY <1>0, <1>2, <2>4, <2>6, <3>1
    <2>. QED
      BY <1>0, <1>1, <1>3, <2>2, <2>3, <2>4, <2>5, <2>7, ApartKeeps DEF PlaceInv
  <1>4. CASE /\ acBody[c] = <<>> /\ bIsRequestOver[c] /\ ~bHasResponse[c]
             /\ bHasResponse' = [bHasResponse EXCEPT ![c] = TRUE]
             /\ body' = [body EXCEPT ![c] = Append(@, NoResponse)]
             /\ UNCHANGED <<conn, acBody>>
    <2>1. body[c] = <<>> /\ ~Busy(c) /\ acBuffer[c] = <<>> /\ iState[c] = "OVER"
      BY <1>4 DEF PlaceInv
    <2>2. Held(c) = <<>> /\ Held(c)' = <<>>
      BY <1>0, <1>1, <1>4, <2>1 DEF Held
    <2>3. got[c] = 0
      <3>1. Units(got[c]) = <<>>
        BY <1>4, <2>1, <2>2 DEF StreamInv
      <3>2. got[c] \in Nat /\ Len(Units(got[c])) = got[c]
        BY UnitsGrow, 0 \in Nat DEF UrlTypeOK
      <3>. QED
        BY <3>1, <3>2
    <2>4. body'[c] = <<NoResponse>> /\ bHasResponse'[c]
      BY <1>4, <2>1 DEF UrlTypeOK
    <2>5. UrlTypeOK'
      <3>1. Append(body[c], NoResponse) \in Seq(Nat)
        BY <2>1 DEF NoResponse
      <3>. QED
        BY <1>0, <1>4, <3>1 DEF UrlTypeOK
    <2>6. Apart(c)
      BY <1>0, <1>1, <1>4 DEF Apart, UrlTypeOK
    <2>. QED
      BY <1>0, <1>1, <1>4, <2>1, <2>2, <2>3, <2>4, <2>5, <2>6, ApartKeeps DEF Early
  <1>5. CASE /\ acBody[c] = <<>> /\ bIsRequestOver[c] /\ bHasResponse[c]
             /\ conn' = [conn EXCEPT ![c] = "done"]
             /\ UNCHANGED <<body, acBody, bHasResponse>>
    <2>1. UrlTypeOK' /\ Apart(c) /\ conn'[c] = "done"
      BY <1>0, <1>1, <1>5 DEF Apart, UrlTypeOK
    <2>2. Held(c)' = Held(c)
      BY <1>2, <1>5
    <2>. QED
      BY <1>0, <1>1, <1>5, <2>1, <2>2, ApartKeeps DEF PlaceInv, StreamInv
  <1>6. CASE UNCHANGED <<conn, body, acBody, bHasResponse>>
    <2>1. UrlTypeOK' /\ DelInv' /\ PlaceInv'
      BY <1>0, <1>1, <1>6 DEF UrlTypeOK, DelInv, PlaceInv
    <2>. QED
      BY <1>0, <1>6, <2>1, StreamKept
  <1>. QED
    BY <1>3, <1>4, <1>5, <1>6 DEF FillURLCGIData

------------------------------------------------------------------------------
(* HTTPC_Process *)

\* The states before the answer, and NetReadNone: no data moves.
LEMMA ConnectKeeps ==
  ASSUME UrlInv, NEW c \in Client,
         NetInit(c) \/ NetConnect(c) \/ NetConnecting(c) \/ NetWrite(c) \/ NetReadNone(c)
  PROVE  UrlInv'
  <1>. USE DEF UrlInv
  <1>1. /\ UNCHANGED <<conn, obj, msgs, body, acBuffer, acBody, bIsRequestOver, bHasResponse, got, resp>>
        /\ \/ iState' = iState
           \/ /\ iState[c] \in Early
              /\ \E st \in Early \cup {"READ", "OVER"} : iState' = [iState EXCEPT ![c] = st]
    BY DEF NetInit, NetConnect, NetConnecting, NetWrite, NetReadNone, Process, Quiet, FD_Next, Early
  <1>2. CASE iState' = iState
    <2>1. UrlTypeOK' /\ DelInv' /\ PlaceInv'
      BY <1>1, <1>2 DEF UrlTypeOK, DelInv, PlaceInv, Busy
    <2>. QED
      BY <1>1, <2>1, StreamKept
  <1>3. ASSUME iState[c] \in Early, NEW st \in Early \cup {"READ", "OVER"},
               iState' = [iState EXCEPT ![c] = st]
        PROVE  UrlInv'
    <2>1. UrlTypeOK' /\ DelInv'
      BY <1>1, <1>3 DEF UrlTypeOK, DelInv
    <2>2. \A d \in Client : (Busy(d)' <=> Busy(d))
      BY <1>1 DEF Busy
    <2>3. /\ got[c] = 0 /\ ~bHasResponse[c] /\ acBuffer[c] = <<>> /\ ~Busy(c) /\ ~bIsRequestOver[c]
      BY <1>3 DEF PlaceInv, Early
    <2>4. \A d \in Client : iState'[d] = IF d = c THEN st ELSE iState[d]
      BY <1>3 DEF UrlTypeOK
    <2>5. PlaceInv'
      BY <1>1, <2>2, <2>3, <2>4 DEF PlaceInv
    <2>. QED
      BY <1>1, <2>1, <2>5, StreamKept
  <1>. QED
    BY <1>1, <1>2, <1>3

\* A callback, made by the read or by the wakeup: what waits or was read goes on.
LEMMA CallbackKeeps ==
  ASSUME UrlInv, NEW c \in Client, NEW data \in Seq(Nat), NEW then \in {"READ", "OVER"},
         URLCGI_HTTPCResponse(c, data, then),
         iState[c] = "READ", \A d \in Client \ {c} : ~Busy(d),
         UNCHANGED <<conn, obj, msgs, body, bIsRequestOver>>,
         acBuffer' = [acBuffer EXCEPT ![c] = <<>>],
         got' \in [Client -> Nat], \A d \in Client \ {c} : got'[d] = got[d],
         body[c] \o (acBody[c] \o data) = Units(got'[c])
  PROVE  UrlInv'
  <1>. USE DEF UrlInv
  <1>0. /\ acBody' \in [Client -> Seq(Nat)] /\ resp' \in UrlCall \cup {NoCall}
        /\ bHasResponse' = [bHasResponse EXCEPT ![c] = TRUE]
        /\ \A d \in Client \ {c} : acBody'[d] = acBody[d]
        /\ resp'.in => resp'.of = c /\ iState' = iState
        /\ ~resp'.in => iState' = [iState EXCEPT ![c] = then]
        /\ acBody'[c] \o Waiting(c)' = acBody[c] \o data
    <2>1. UrlTypeOK
      OBVIOUS
    <2>2. Passes(c, data, then)
      BY <2>1, ResponseKeeps
    <2>. QED
      BY <2>2 DEF Passes
  <1>1. /\ \A d \in Client \ {c} : ~Busy(d)'
        /\ Busy(c)' => iState' = iState
        /\ ~Busy(c)' => iState' = [iState EXCEPT ![c] = then]
    BY <1>0 DEF Busy
  <1>2. /\ acBuffer'[c] = <<>> /\ bHasResponse'[c] /\ ~bIsRequestOver[c]
        /\ (Busy(c)' => iState'[c] = "READ") /\ (~Busy(c)' => iState'[c] = then)
    BY <1>0, <1>1 DEF UrlTypeOK, PlaceInv
  <1>3. UrlTypeOK'
    <2>1. iState' \in [Client -> Early \cup {"READ", "OVER"}]
      BY <1>0, <1>1 DEF UrlTypeOK
    <2>2. bHasResponse' \in [Client -> BOOLEAN]
      BY <1>0, <1>1 DEF UrlTypeOK
    <2>3. acBuffer' \in [Client -> Seq(Nat)]
      BY EmptySeq DEF UrlTypeOK
    <2>. QED
      BY <1>0, <2>1, <2>2, <2>3 DEF UrlTypeOK
  <1>4. Apart(c)
    <2>1. \A d \in Client \ {c} : Waiting(d)' = Waiting(d)
      BY <1>0, <1>1, Zenon DEF Waiting
    <2>. QED
      BY <1>0, <1>1, <2>1 DEF Apart, UrlTypeOK
  <1>5. Held(c)' = acBody[c] \o data
    <2>1. acBody[c] \o data \in Seq(Nat)
      BY ConcatProperties DEF UrlTypeOK
    <2>2. Held(c)' = (acBody'[c] \o Waiting(c)') \o acBuffer'[c]
      BY DEF Held, Waiting
    <2>. QED
      BY <1>0, <1>1, <1>2, <2>1, <2>2, ConcatEmptySeq
  <1>6. iState'[c] \in {"READ", "OVER"} /\ iState'[c] \notin Early
    BY <1>2 DEF Early
  <1>. QED
    BY <1>2, <1>3, <1>4, <1>5, <1>6, ApartKeeps DEF PlaceInv

\* The client reads from its server: the new units go to the end of what is held.
LEMMA ReadKeeps ==
  ASSUME UrlInv, NEW c \in Client, NetRead(c)
  PROVE  UrlInv'
  <1>. USE DEF UrlInv
  <1>0. /\ iState[c] = "READ" /\ ~resp.in
        /\ UNCHANGED <<conn, obj, msgs, body, bIsRequestOver>>
    BY DEF NetRead, Process
  <1>1. PICK k \in 1 .. Half :
            /\ got' = [got EXCEPT ![c] = @ + k]
            /\ LET data == acBuffer[c] \o [i \in 1 .. k |-> got[c] + i]
               IN IF Len(data) >= Half
                  THEN /\ URLCGI_HTTPCResponse(c, data, "READ")
                       /\ acBuffer' = [acBuffer EXCEPT ![c] = <<>>]
                  ELSE /\ acBuffer' = [acBuffer EXCEPT ![c] = data]
                       /\ UNCHANGED <<iState, acBody, bHasResponse, resp, asleep>>
    BY DEF NetRead
  <1> DEFINE new  == [i \in 1 .. k |-> got[c] + i]
             data == acBuffer[c] \o new
  <1>2. \A d \in Client : ~Busy(d)
    BY <1>0 DEF Busy
  <1>3. /\ Waiting(c) = <<>> /\ acBody[c] \in Seq(Nat) /\ acBuffer[c] \in Seq(Nat)
        /\ body[c] \in Seq(Nat) /\ Held(c) = acBody[c] \o acBuffer[c]
    <2>1. Waiting(c) = <<>>
      BY <1>2 DEF Waiting
    <2>2. /\ acBody[c] \in Seq(Nat) /\ acBuffer[c] \in Seq(Nat) /\ body[c] \in Seq(Nat)
          /\ Held(c) = (acBody[c] \o Waiting(c)) \o acBuffer[c]
      BY HeldType
    <2>. QED
      BY <2>1, <2>2, ConcatEmptySeq
  <1>4. /\ k \in Nat /\ got[c] \in Nat /\ got'[c] = got[c] + k /\ got' \in [Client -> Nat]
        /\ \A d \in Client \ {c} : got'[d] = got[d]
    BY <1>1, UrlCgiAssumption DEF UrlTypeOK
  <1>5. new \in Seq(Nat) /\ Units(got[c]) \o new = Units(got'[c])
    BY <1>4, UnitsGrow
  <1>. HIDE DEF new
  <1>6. data \in Seq(Nat) /\ acBody[c] \o data = (acBody[c] \o acBuffer[c]) \o new
    BY <1>3, <1>5, ConcatProperties, Regrouped
  <1>7. body[c] \o (acBody[c] \o acBuffer[c]) = Units(got[c])
    BY <1>0, <1>3 DEF StreamInv, PlaceInv
  <1>8. body[c] \o (acBody[c] \o data) = Units(got'[c])
    <2>1. acBody[c] \o acBuffer[c] \in Seq(Nat)
      BY <1>3, ConcatProperties
    <2>2. body[c] \o ((acBody[c] \o acBuffer[c]) \o new) = (body[c] \o (acBody[c] \o acBuffer[c])) \o new
      BY <1>3, <1>5, <2>1, Regrouped, ZenonT(40)
    <2>. QED
      BY <1>5, <1>6, <1>7, <2>2
  <1>9. CASE /\ URLCGI_HTTPCResponse(c, data, "READ")
             /\ acBuffer' = [acBuffer EXCEPT ![c] = <<>>]
    <2>. HIDE DEF data
    <2>. QED
      BY <1>0, <1>2, <1>4, <1>6, <1>8, <1>9, CallbackKeeps
  <1>10. CASE /\ acBuffer' = [acBuffer EXCEPT ![c] = data]
              /\ UNCHANGED <<iState, acBody, bHasResponse, resp, asleep>>
    <2>. HIDE DEF data
    <2>1. UrlTypeOK'
      BY <1>0, <1>4, <1>6, <1>10 DEF UrlTypeOK
    <2>2. \A d \in Client : ~Busy(d)'
      BY <1>2, <1>10 DEF Busy
    <2>3. Apart(c)
      BY <1>0, <1>2, <1>4, <1>10, <2>2 DEF Apart, UrlTypeOK, Waiting
    <2>4. Held(c)' = acBody[c] \o data
      <3>1. Held(c)' = (acBody[c] \o <<>>) \o data
        BY <1>10, <2>2 DEF Held, UrlTypeOK
      <3>. QED
        BY <1>3, <3>1, ConcatEmptySeq
    <2>5. iState'[c] = "READ" /\ iState[c] \notin Early /\ ~bIsRequestOver[c]
      BY <1>0, <1>10 DEF Early, PlaceInv
    <2>. QED
      BY <1>0, <1>8, <1>10, <2>1, <2>2, <2>3, <2>4, <2>5, ApartKeeps DEF PlaceInv
  <1>. QED
    BY <1>1, <1>9, <1>10 DEF new

\* The server closes, or reading fails: nothing held is lost.
LEMMA ReadEndKeeps ==
  ASSUME UrlInv, NEW c \in Client, NetReadEnd(c)
  PROVE  UrlInv'
  <1>. USE DEF UrlInv
  <1>1. /\ iState[c] = "READ" /\ ~resp.in
        /\ UNCHANGED <<conn, obj, msgs, body, bIsRequestOver, got>>
        /\ URLCGI_HTTPCResponse(c, acBuffer[c], "OVER")
        /\ acBuffer' = [acBuffer EXCEPT ![c] = <<>>]
    BY DEF NetReadEnd, Process
  <1>2. \A d \in Client : ~Busy(d)
    BY <1>1 DEF Busy
  <1>3. /\ acBody[c] \in Seq(Nat) /\ acBuffer[c] \in Seq(Nat) /\ Held(c) = acBody[c] \o acBuffer[c]
    <2>1. Waiting(c) = <<>>
      BY <1>2 DEF Waiting
    <2>2. /\ acBody[c] \in Seq(Nat) /\ acBuffer[c] \in Seq(Nat)
          /\ Held(c) = (acBody[c] \o Waiting(c)) \o acBuffer[c]
      BY HeldType
    <2>. QED
      BY <2>1, <2>2, ConcatEmptySeq
  <1>4. body[c] \o (acBody[c] \o acBuffer[c]) = Units(got'[c])
    BY <1>1, <1>3 DEF StreamInv, PlaceInv
  <1>5. got' \in [Client -> Nat]
    BY <1>1 DEF UrlTypeOK
  <1>. QED
    BY <1>1, <1>2, <1>3, <1>4, <1>5, CallbackKeeps

\* The callback that waited for room puts the next units into acBody.
LEMMA WakeKeeps ==
  ASSUME UrlInv, Wake
  PROVE  UrlInv'
  <1>. USE DEF UrlInv
  <1> DEFINE c == resp.of
  <1>1. /\ resp.in
        /\ UNCHANGED <<conn, obj, msgs, body, bIsRequestOver, got, acBuffer>>
        /\ URLCGI_HTTPCResponse(c, resp.rest, resp.then)
    BY DEF Wake
  <1>2. c \in Client /\ resp.rest \in Seq(Nat) /\ resp.then \in {"READ", "OVER"}
    <2>1. resp \in UrlCall
      BY <1>1 DEF UrlTypeOK, NoCall
    <2>. QED
      BY <2>1 DEF UrlCall
  <1>3. Busy(c) /\ Waiting(c) = resp.rest /\ \A d \in Client \ {c} : ~Busy(d)
    BY <1>1 DEF Busy, Waiting
  <1>. HIDE DEF c
  <1>4. iState[c] = "READ" /\ acBuffer[c] = <<>> /\ ~bIsRequestOver[c]
    BY <1>2, <1>3 DEF PlaceInv
  <1>5. acBuffer' = [acBuffer EXCEPT ![c] = <<>>]
    BY <1>1, <1>2, <1>4 DEF UrlTypeOK
  <1>6. body[c] \o (acBody[c] \o resp.rest) = Units(got'[c])
    <2>1. acBody[c] \in Seq(Nat) /\ Held(c) = (acBody[c] \o resp.rest) \o <<>>
      BY <1>2, <1>3, <1>4, HeldType
    <2>2. Held(c) = acBody[c] \o resp.rest
      BY <1>2, <2>1, ConcatProperties, ConcatEmptySeq
    <2>. QED
      BY <1>1, <1>2, <1>4, <2>2 DEF StreamInv
  <1>7. got' \in [Client -> Nat]
    BY <1>1 DEF UrlTypeOK
  <1>. QED
    BY <1>1, <1>2, <1>3, <1>4, <1>5, <1>6, <1>7, CallbackKeeps

\* The client is over: bIsRequestOver is set, and nothing held is lost.
LEMMA OverKeeps ==
  ASSUME UrlInv, NEW c \in Client, NetOver(c)
  PROVE  UrlInv'
  <1>. USE DEF UrlInv
  <1>1. /\ iState[c] = "OVER"
        /\ bIsRequestOver' = [bIsRequestOver EXCEPT ![c] = TRUE]
        /\ UNCHANGED <<conn, obj, msgs, body, iState, acBuffer, acBody, bHasResponse, got, resp>>
    BY DEF NetOver, Process
  <1>2. UrlTypeOK' /\ DelInv' /\ bIsRequestOver'[c]
    BY <1>1 DEF UrlTypeOK, DelInv
  <1>3. \A d \in Client : d # c => bIsRequestOver'[d] = bIsRequestOver[d]
    BY <1>1 DEF UrlTypeOK
  <1>4. \A d \in Client : (Busy(d)' <=> Busy(d)) /\ Held(d)' = Held(d)
    BY <1>1 DEF Busy, Held
  <1>5. PlaceInv'
    BY <1>1, <1>2, <1>3, <1>4 DEF PlaceInv
  <1>6. StreamInv'
    BY <1>1, <1>2, <1>3, <1>4 DEF StreamInv, Units
  <1>. QED
    BY <1>2, <1>5, <1>6

------------------------------------------------------------------------------
(* The theorems *)

\* In every state of SendHttp.cgi what the browser was sent and what acBody, the callback
\* and acBuffer hold, put together, is what the HTTP client has read, however browsers,
\* server and select thread interleave and for any size of the buffer.
THEOREM UrlInvariant == UrlSpec => []UrlInv
  <1>1. UrlInv /\ [UrlNext]_urlVars => UrlInv'
    <2>. SUFFICES ASSUME UrlInv, [UrlNext]_urlVars PROVE UrlInv'
      OBVIOUS
    <2>1. CASE UNCHANGED urlVars
      <3>1. UrlTypeOK' /\ DelInv' /\ PlaceInv'
        BY <2>1 DEF urlVars, client, UrlInv, UrlTypeOK, DelInv, PlaceInv, Busy
      <3>. QED
        BY <2>1, <3>1, StreamKept DEF urlVars, client, UrlInv
    <2>2. CASE Thread
      BY <2>2, RoundKeeps, DelKeeps, WakeKeeps, ConnectKeeps, ReadKeeps, ReadEndKeeps, OverKeeps
         DEF Thread, HTTPC_Process
    <2>3. ASSUME NEW c \in Client,
                 Http_SendHttpRequest(c) \/ FillURLCGIData(c) \/ URLCGI_RequestOver(c)
          PROVE  UrlInv'
      BY <2>3, RequestKeeps, FillKeeps, RequestOverKeeps
    <2>. QED
      BY <2>1, <2>2, <2>3 DEF UrlNext
  <1>. QED
    BY <1>1, UrlInitially, PTL DEF UrlSpec

\* URLCGI_HTTPCResponse and FillURLCGIData pass every unit on once and in order: what
\* the browser was sent and what is held make up what the client has read (or the one text
\* "no response", if that is nothing), and a request that ends by itself leaves nothing held.
THEOREM UrlRelayed == UrlSpec => []Relayed
  <1>1. UrlInv => Relayed
    <2>. SUFFICES ASSUME UrlInv, NEW c \in obj
                  PROVE  /\ body[c] \o Held(c) \in {Units(got[c]), <<NoResponse>>}
                         /\ body[c] = <<NoResponse>> => got[c] = 0
                         /\ conn[c] = "done" => Held(c) = <<>>
      BY DEF Relayed
    <2>1. c \in Client /\ got[c] \in Nat
      BY DEF UrlInv, UrlTypeOK
    <2>2. body[c] \in Seq(Nat) /\ Held(c) \in Seq(Nat)
      BY <2>1, HeldType DEF UrlInv
    <2>3. body[c] \o Held(c) \in {Units(got[c]), <<NoResponse>>}
      <3>1. CASE body[c] = <<NoResponse>> /\ Held(c) = <<>>
        BY <2>2, <3>1, ConcatEmptySeq
      <3>. QED
        BY <2>1, <3>1 DEF UrlInv, StreamInv
    <2>4. body[c] = <<NoResponse>> => got[c] = 0
      <3>. SUFFICES ASSUME body[c] = <<NoResponse>>, body[c] \o Held(c) = Units(got[c]) PROVE FALSE
        BY <2>1 DEF UrlInv, StreamInv
      <3>1. (body[c] \o Held(c))[1] = NoResponse /\ Len(body[c] \o Held(c)) >= 1
        BY <2>2
      <3>2. Units(got[c])[1] = 1
        <4>1. got[c] >= 1
          BY <2>1, <3>1, UnitsGrow
        <4>. QED
          BY <2>1, <4>1 DEF Units
      <3>. QED
        BY <3>1, <3>2 DEF NoResponse
    <2>5. conn[c] = "done" => Held(c) = <<>>
      BY <2>1 DEF UrlInv, PlaceInv, Held, Early
    <2>. QED
      BY <2>3, <2>4, <2>5
  <1>. QED
    BY <1>1, UrlInvariant, PTL

------------------------------------------------------------------------------
(* The rotation of the buffer *)

\* Every non-empty set of naturals has a least element: induction, in the form that the
\* provers can use.
LEMMA Least ==
  ASSUME NEW T, T \subseteq Nat, T # {}
  PROVE  \E x \in T : \A y \in T : x <= y
  <1>1. PICK R : IsWellFoundedOn(R, Nat) /\ \A x, y \in Nat : y < x => <<y, x>> \in R
    <2>1. IsWellFoundedOn(OpToRel(<, Nat), Nat)
      BY NatLessThanWellFounded
    <2>2. \A x, y \in Nat : y < x => <<y, x>> \in OpToRel(<, Nat)
      BY Zenon DEF OpToRel
    <2>. QED
      BY <2>1, <2>2, Zenon
  <1>2. PICK x \in T : \A y \in T : ~ (<<y, x>> \in R)
    BY <1>1, WFMin
  <1>3. \A y \in T : ~ (y < x)
    BY <1>1, <1>2
  <1>. QED
    BY <1>3

\* The size of the buffer is a number.
LEMMA SizeNat == Size \in Nat
  BY UploadAssumption

------------------------------------------------------------------------------
(* gcd *)

Pairs == (0 .. Size) \X (0 .. Size)

\* The pair the loop of gcd goes on with.
Reduced(p) == IF p[1] > p[2] THEN <<p[1] % p[2], p[2]>> ELSE <<p[1], p[2] % p[1]>>

GcdBody(g, p) == IF p[1] = 0 THEN p[2] ELSE IF p[2] = 0 THEN p[1] ELSE g[Reduced(p)]

\* Division with remainder.
LEMMA Remainder ==
  ASSUME NEW x \in Nat, NEW y \in Nat \ {0}
  PROVE  x % y \in 0 .. y - 1 /\ x \div y \in Nat /\ x = y * (x \div y) + (x % y) /\ x % y <= x
  <1>1. x % y \in 0 .. y - 1 /\ x \div y \in Nat
    OBVIOUS
  <1>2. x = y * (x \div y) + (x % y)
    OBVIOUS
  <1>3. y * (x \div y) \in Nat
    BY <1>1
  <1>. QED
    BY <1>1, <1>2, <1>3

\* The loop makes the pair smaller, and goes on until one number is 0.
LEMMA ReducedIs ==
  ASSUME NEW p \in Pairs, p[1] # 0, p[2] # 0
  PROVE  /\ Reduced(p) \in Pairs
         /\ Reduced(p)[1] + Reduced(p)[2] < p[1] + p[2]
         /\ Reduced(p)[1] # 0 \/ Reduced(p)[2] # 0
  <1>. USE SizeNat
  <1>0. p[1] \in 0 .. Size /\ p[2] \in 0 .. Size
    BY DEF Pairs
  <1>1. CASE p[1] > p[2]
    <2>0. p[1] \in Nat /\ p[2] \in Nat \ {0}
      BY <1>0
    <2>1. p[1] % p[2] \in 0 .. p[2] - 1
      BY <2>0, Remainder
    <2>2. PICK c \in 0 .. Size : c = p[1] % p[2] /\ c < p[2]
      BY <1>0, <2>1
    <2>3. Reduced(p) = <<c, p[2]>>
      BY <1>1, <2>2 DEF Reduced
    <2>4. Reduced(p) \in Pairs /\ Reduced(p)[1] = c /\ Reduced(p)[2] = p[2]
      BY <1>0, <2>3 DEF Pairs
    <2>. QED
      BY <1>0, <1>1, <2>2, <2>4
  <1>2. CASE ~(p[1] > p[2])
    <2>0. p[2] \in Nat /\ p[1] \in Nat \ {0}
      BY <1>0
    <2>1. p[2] % p[1] \in 0 .. p[1] - 1
      BY <2>0, Remainder
    <2>2. PICK c \in 0 .. Size : c = p[2] % p[1] /\ c < p[1]
      BY <1>0, <2>1
    <2>3. Reduced(p) = <<p[1], c>>
      BY <1>2, <2>2 DEF Reduced
    <2>4. Reduced(p) \in Pairs /\ Reduced(p)[1] = p[1] /\ Reduced(p)[2] = c
      BY <1>0, <2>3 DEF Pairs
    <2>. QED
      BY <1>0, <1>2, <2>2, <2>4
  <1>. QED
    BY <1>1, <1>2

\* The recursion of gcd is well defined.
LEMMA GcdDef == \A p \in Pairs : gcd[p] = GcdBody(gcd, p)
  <1>. USE SizeNat
  <1> DEFINE Up(n) == {p \in Pairs : p[1] + p[2] <= n}
             Has(n) == \E g : g = [p \in Up(n) |-> GcdBody(g, p)]
             T == {n \in Nat : ~Has(n)}
  <1>0. \A p \in Pairs : p[1] \in Nat /\ p[2] \in Nat /\ p[1] + p[2] \in 0 .. Size + Size
    BY DEF Pairs
  <1>1. \A n \in Nat : Has(n)
    <2>. SUFFICES ASSUME T # {} PROVE FALSE
      BY Zenon
    <2>1. PICK n \in T : \A m \in T : n <= m
      <3>. HIDE DEF Has
      <3>1. T \subseteq Nat
        OBVIOUS
      <3>. HIDE DEF T
      <3>. QED
        BY <3>1, Least
    <2>2. ASSUME NEW g, NEW h, NEW p \in Pairs, \A q \in Up(p[1] + p[2] - 1) : g[q] = h[q]
          PROVE  GcdBody(g, p) = GcdBody(h, p)
      <3>1. CASE p[1] = 0 \/ p[2] = 0
        BY <3>1 DEF GcdBody
      <3>2. CASE p[1] # 0 /\ p[2] # 0
        <4>1. Reduced(p) \in Up(p[1] + p[2] - 1)
          <5>1. Reduced(p) \in Pairs /\ Reduced(p)[1] + Reduced(p)[2] < p[1] + p[2]
            BY <3>2, ReducedIs
          <5>. QED
            BY <1>0, <5>1
        <4>. QED
          BY <2>2, <3>2, <4>1 DEF GcdBody
      <3>. QED
        BY <3>1, <3>2
    <2>3. PICK g : n = 0 \/ g = [p \in Up(n - 1) |-> GcdBody(g, p)]
      <3>1. CASE n = 0
        BY <3>1
      <3>2. CASE n # 0
        <4>. HIDE DEF Has
        <4>1. n - 1 \in Nat /\ ~(n <= n - 1)
          BY <3>2
        <4>2. Has(n - 1)
          BY <2>1, <4>1
        <4>. QED
          BY <4>2 DEF Has
      <3>. QED
        BY <3>1, <3>2
    <2> DEFINE h == [p \in Up(n) |-> GcdBody(g, p)]
    <2>4. \A p \in Up(n - 1) : p \in Up(n) /\ g[p] = h[p]
      <3>1. n \in Nat
        OBVIOUS
      <3>2. CASE n = 0
        <4>1. Up(n - 1) = {}
          BY <1>0, <3>2
        <4>. QED
          BY <4>1
      <3>3. CASE n # 0
        <4>. HIDE DEF T
        <4>1. \A p \in Up(n - 1) : p \in Up(n)
          BY <1>0, <3>1
        <4>2. \A p \in Up(n - 1) : g[p] = GcdBody(g, p)
          <5>. HIDE DEF GcdBody, Up
          <5>. QED
            BY <2>3, <3>3
        <4>3. \A p \in Up(n) : h[p] = GcdBody(g, p)
          <5>. HIDE DEF GcdBody, Up
          <5>. QED
            OBVIOUS
        <4>. QED
          BY <4>1, <4>2, <4>3
      <3>. QED
        BY <3>2, <3>3
    <2>5. \A p \in Up(n) : GcdBody(g, p) = GcdBody(h, p)
      <3>. SUFFICES ASSUME NEW p \in Up(n) PROVE GcdBody(g, p) = GcdBody(h, p)
        OBVIOUS
      <3>1. p \in Pairs /\ \A q \in Up(p[1] + p[2] - 1) : q \in Up(n - 1)
        BY <1>0
      <3>2. \A q \in Up(p[1] + p[2] - 1) : g[q] = h[q]
        <4>. HIDE DEF h, Up
        <4>. QED
          BY <2>4, <3>1
      <3>. QED
        <4>. HIDE DEF h, Up
        <4>. QED
          BY <2>2, <3>1, <3>2
    <2>6. h = [p \in Up(n) |-> GcdBody(h, p)]
      <3>1. h = [p \in Up(n) |-> GcdBody(g, p)]
        OBVIOUS
      <3>. HIDE DEF h, Up, GcdBody
      <3>. QED
        BY <2>5, <3>1
    <2>7. Has(n)
      <3>. HIDE DEF h, Up, GcdBody
      <3>. QED
        BY <2>6
    <2>. QED
      BY <2>7
  <1>2. Up(Size + Size) = Pairs
    BY <1>0
  <1>3. \E g : g = [p \in Pairs |-> GcdBody(g, p)]
    <2>1. Has(Size + Size)
      <3>. HIDE DEF Has
      <3>. QED
        BY <1>1
    <2>. QED
      BY <1>2, <2>1
  <1>4. gcd = [p \in Pairs |-> GcdBody(gcd, p)]
    <2> DEFINE c == CHOOSE g : g = [p \in Pairs |-> GcdBody(g, p)]
    <2>1. c = [p \in Pairs |-> GcdBody(c, p)]
      BY <1>3, Zenon
    <2>2. gcd = c
      BY DEF gcd, GcdBody, Reduced, Pairs
    <2>. QED
      BY <2>1, <2>2
  <1>. QED
    <2>. HIDE DEF GcdBody
    <2>. QED
      BY <1>4

------------------------------------------------------------------------------
(* Multiples *)

Mult(d, x) == \E t \in Int : x = d * t

\* Sums and differences of multiples.
LEMMA MultSum ==
  ASSUME NEW d \in Int, NEW x \in Int, NEW y \in Int, Mult(d, x), Mult(d, y)
  PROVE  Mult(d, x + y) /\ Mult(d, x - y)
  <1>1. PICK t \in Int : x = d * t
    BY DEF Mult
  <1>2. PICK u \in Int : y = d * u
    BY DEF Mult
  <1>3. x + y = d * (t + u) /\ x - y = d * (t - u)
    BY <1>1, <1>2
  <1>4. t + u \in Int /\ t - u \in Int
    OBVIOUS
  <1>. QED
    BY <1>3, <1>4 DEF Mult

\* A multiple of a multiple.
LEMMA MultScale ==
  ASSUME NEW d \in Int, NEW x \in Int, NEW c \in Int, Mult(d, x)
  PROVE  Mult(d, c * x)
  <1>1. PICK t \in Int : x = d * t
    BY DEF Mult
  <1>2. c * x = d * (c * t)
    BY <1>1
  <1>3. c * t \in Int
    OBVIOUS
  <1>. QED
    BY <1>2, <1>3 DEF Mult

\* A number's own multiples.
LEMMA MultSelf ==
  ASSUME NEW d \in Int
  PROVE  Mult(d, d) /\ Mult(d, 0) /\ \A c \in Int : Mult(d, d * c)
  <1>1. d = d * 1 /\ 0 = d * 0
    OBVIOUS
  <1>. QED
    BY <1>1 DEF Mult

\* Zero is the only multiple nearer to zero than the number itself.
LEMMA MultSmall ==
  ASSUME NEW d \in Nat, NEW x \in Int, Mult(d, x), x < d, -d < x
  PROVE  x = 0
  <1>1. PICK t \in Int : x = d * t
    BY DEF Mult
  <1>2. CASE t = 0
    BY <1>1, <1>2
  <1>3. CASE t >= 1
    <2>1. d * t = d + d * (t - 1)
      OBVIOUS
    <2>2. d * (t - 1) >= 0
      BY <1>3
    <2>. QED
      BY <1>1, <2>1, <2>2
  <1>4. CASE t <= -1
    <2>1. d * t = -d - d * (-t - 1)
      OBVIOUS
    <2>2. d * (-t - 1) >= 0
      BY <1>4
    <2>. QED
      BY <1>1, <2>1, <2>2
  <1>. QED
    BY <1>2, <1>3, <1>4

\* A common factor cancels.
LEMMA MultCancel ==
  ASSUME NEW g \in Nat \ {0}, NEW e \in Int, NEW x \in Int, Mult(g * e, g * x)
  PROVE  Mult(e, x)
  <1>1. PICK t \in Int : g * x = (g * e) * t
    BY DEF Mult
  <1>2. g * (x - e * t) = 0
    BY <1>1
  <1>3. x - e * t = 0
    BY <1>2
  <1>. QED
    BY <1>3 DEF Mult

------------------------------------------------------------------------------
(* What gcd returns *)

\* g divides x and y, and is a combination of them.
Divides(g, x, y) ==
    /\ g \in Nat \ {0} /\ Mult(g, x) /\ Mult(g, y)
    /\ \E u, v \in Int : g = u * x + v * y

\* The order of the two numbers does not matter.
LEMMA DividesSwap ==
  ASSUME NEW g, NEW x \in Int, NEW y \in Int, Divides(g, x, y)
  PROVE  Divides(g, y, x)
  <1>1. PICK u \in Int, v \in Int : g = u * x + v * y
    BY DEF Divides
  <1>2. g = v * y + u * x
    BY <1>1
  <1>. QED
    BY <1>2 DEF Divides

\* A step of Euclid's algorithm back.
LEMMA DividesMore ==
  ASSUME NEW x \in Nat, NEW y \in Nat \ {0}, NEW g, Divides(g, x % y, y)
  PROVE  Divides(g, x, y)
  <1> DEFINE q == x \div y
             r == x % y
  <1>1. q \in Int /\ r \in Int /\ x = y * q + r
    BY Remainder
  <1>2. PICK u \in Int, v \in Int : g = u * r + v * y
    BY DEF Divides
  <1>3. g \in Nat \ {0} /\ Mult(g, r) /\ Mult(g, y)
    BY DEF Divides
  <1>. HIDE DEF q, r
  <1>4. Mult(g, q * y)
    BY <1>1, <1>3, MultScale
  <1>5. q * y \in Int /\ x = q * y + r
    BY <1>1
  <1>6. Mult(g, x)
    BY <1>1, <1>3, <1>4, <1>5, MultSum
  <1>7. g = u * x + (v - u * q) * y
    <2>1. u * x + (v - u * q) * y = u * r + v * y
      BY <1>1
    <2>. QED
      BY <1>2, <2>1
  <1>8. v - u * q \in Int
    BY <1>1
  <1>. QED
    BY <1>3, <1>6, <1>7, <1>8 DEF Divides

\* The loop of gcd returns a common divisor that is a combination of its arguments, which
\* makes it the greatest: for every size of the buffer.
THEOREM GcdIs ==
  ASSUME NEW p0 \in Pairs, p0[1] # 0 \/ p0[2] # 0
  PROVE  Divides(gcd[p0], p0[1], p0[2])
  <1> DEFINE Good(p) == Divides(gcd[p], p[1], p[2])
             Bad == {p \in Pairs : (p[1] # 0 \/ p[2] # 0) /\ ~Good(p)}
             T == {p[1] + p[2] : p \in Bad}
  <1>0. \A p \in Pairs : p[1] \in Nat /\ p[2] \in Nat
    BY SizeNat DEF Pairs
  <1>. SUFFICES ASSUME Bad # {} PROVE FALSE
    OBVIOUS
  <1>1. T \subseteq Nat /\ T # {}
    <2>. HIDE DEF Good
    <2>. QED
      BY <1>0
  <1>2. PICK n \in T : \A m \in T : n <= m
    <2>. HIDE DEF T
    <2>. QED
      BY <1>1, Least
  <1>3. PICK p \in Bad : n = p[1] + p[2]
    <2>. HIDE DEF Bad
    <2>. QED
      OBVIOUS
  <1>4. p \in Pairs /\ p[1] \in Nat /\ p[2] \in Nat /\ (p[1] # 0 \/ p[2] # 0) /\ ~Good(p)
    BY <1>0
  <1>5. gcd[p] = GcdBody(gcd, p)
    BY <1>4, GcdDef
  <1>6. CASE p[1] = 0
    <2>1. gcd[p] = p[2]
      BY <1>5, <1>6 DEF GcdBody
    <2>2. p[2] = 0 * p[1] + 1 * p[2]
      BY <1>4
    <2>3. Mult(p[2], p[1]) /\ Mult(p[2], p[2])
      BY <1>4, <1>6, MultSelf
    <2>4. \E u, v \in Int : p[2] = u * p[1] + v * p[2]
      BY <2>2
    <2>. QED
      BY <1>4, <1>6, <2>1, <2>3, <2>4 DEF Divides
  <1>7. CASE p[1] # 0 /\ p[2] = 0
    <2>1. gcd[p] = p[1]
      BY <1>5, <1>7 DEF GcdBody
    <2>2. p[1] = 1 * p[1] + 0 * p[2]
      BY <1>4
    <2>3. Mult(p[1], p[1]) /\ Mult(p[1], p[2])
      BY <1>4, <1>7, MultSelf
    <2>4. \E u, v \in Int : p[1] = u * p[1] + v * p[2]
      BY <2>2
    <2>. QED
      BY <1>4, <1>7, <2>1, <2>3, <2>4 DEF Divides
  <1>8. CASE p[1] # 0 /\ p[2] # 0
    <2> DEFINE c == Reduced(p)
    <2>1. c \in Pairs /\ c[1] + c[2] < p[1] + p[2] /\ (c[1] # 0 \/ c[2] # 0)
      BY <1>4, <1>8, ReducedIs
    <2>2. Good(c)
      <3>. HIDE DEF Good, c
      <3>1. ASSUME c \in Bad PROVE FALSE
        <4>1. c[1] + c[2] \in T
          <5>. HIDE DEF Bad
          <5>. QED
            BY <3>1
        <4>2. n <= c[1] + c[2]
          <5>. HIDE DEF T
          <5>. QED
            BY <1>2, <4>1
        <4>. QED
          BY <1>0, <1>3, <1>4, <2>1, <4>2
      <3>. QED
        BY <2>1, <3>1
    <2>3. gcd[p] = gcd[c]
      BY <1>5, <1>8 DEF GcdBody
    <2>4. CASE p[1] > p[2]
      <3>0. p[1] % p[2] \in Nat
        BY <1>4, <1>8, Remainder
      <3>1. c[1] = p[1] % p[2] /\ c[2] = p[2]
        BY <2>4 DEF Reduced
      <3>2. Divides(gcd[p], p[1] % p[2], p[2])
        <4>. HIDE DEF c
        <4>. QED
          BY <2>2, <2>3, <3>1
      <3>3. p[2] \in Nat \ {0}
        BY <1>4, <1>8
      <3>. QED
        BY <1>4, <3>2, <3>3, DividesMore
    <2>5. CASE ~(p[1] > p[2])
      <3>0. p[1] \in Nat \ {0}
        BY <1>4, <1>8
      <3>1. c[1] = p[1] /\ c[2] = p[2] % p[1]
        BY <2>5 DEF Reduced
      <3>2. Divides(gcd[p], p[1], p[2] % p[1])
        <4>. HIDE DEF c
        <4>. QED
          BY <2>2, <2>3, <3>1
      <3>3. p[2] % p[1] \in Int
        BY <1>4, <3>0, Remainder
      <3>4. Divides(gcd[p], p[2] % p[1], p[1])
        BY <1>4, <3>2, <3>3, DividesSwap
      <3>5. Divides(gcd[p], p[2], p[1])
        BY <1>4, <3>0, <3>4, DividesMore
      <3>. QED
        BY <1>4, <3>5, DividesSwap
    <2>. QED
      BY <2>4, <2>5
  <1>. QED
    BY <1>6, <1>7, <1>8

------------------------------------------------------------------------------
(* Recursion on a count *)

Closed(f, n, S) == \A j \in 1 .. n : \A x \in S : f[j][x] \in S

Iterate(s, a, f, n, S) ==
    s \in [0 .. n -> S] /\ s[0] = a /\ \A j \in 1 .. n : s[j] = f[j][s[j - 1]]

\* A function that starts with a and goes on with f exists.
LEMMA Iterates ==
  ASSUME NEW n0 \in Nat, NEW S, NEW a \in S, NEW f, Closed(f, n0, S)
  PROVE  \E s : Iterate(s, a, f, n0, S)
  <1>. USE DEF Closed
  <1> DEFINE Is(s, n) == /\ s \in [0 .. n -> S]
                         /\ \A j \in 0 .. n : s[j] = IF j = 0 THEN a ELSE f[j][s[j - 1]]
             T == {n \in Nat : n <= n0 /\ ~ \E s : Is(s, n)}
  <1>1. T = {}
    <2>. SUFFICES ASSUME T # {} PROVE FALSE
      OBVIOUS
    <2>1. PICK n \in T : \A m \in T : n <= m
      <3>. HIDE DEF Is
      <3>1. T \subseteq Nat
        OBVIOUS
      <3>. HIDE DEF T
      <3>. QED
        BY <3>1, Least
    <2>2. n \in Nat /\ n <= n0 /\ ~ \E s : Is(s, n)
      <3>. HIDE DEF Is
      <3>. QED
        OBVIOUS
    <2>3. CASE n = 0
      <3>1. Is([j \in 0 .. 0 |-> a], 0)
        OBVIOUS
      <3>. QED
        BY <2>2, <2>3, <3>1
    <2>4. CASE n # 0
      <3>1. PICK s : Is(s, n - 1)
        <4>. HIDE DEF Is
        <4>1. n - 1 \in Nat /\ n - 1 <= n0 /\ ~(n <= n - 1)
          BY <2>2, <2>4
        <4>. QED
          BY <2>1, <4>1
      <3> DEFINE h == [j \in 0 .. n |-> IF j = n THEN f[n][s[n - 1]] ELSE s[j]]
      <3>2. s[n - 1] \in S /\ f[n][s[n - 1]] \in S
        BY <2>2, <2>4, <3>1
      <3>3. \A j \in 0 .. n : (j # n => h[j] = s[j] /\ j \in 0 .. n - 1) /\ (j = n => h[j] = f[n][s[n - 1]])
        BY <2>2
      <3>4. h \in [0 .. n -> S]
        BY <2>2, <3>1, <3>2
      <3>5. \A j \in 0 .. n : h[j] = IF j = 0 THEN a ELSE f[j][h[j - 1]]
        <4>. SUFFICES ASSUME NEW j \in 0 .. n PROVE h[j] = IF j = 0 THEN a ELSE f[j][h[j - 1]]
          OBVIOUS
        <4>. HIDE DEF h
        <4>1. j # 0 => j - 1 \in 0 .. n /\ j - 1 # n
          BY <2>2
        <4>2. j # 0 => h[j - 1] = s[j - 1]
          BY <3>3, <4>1
        <4>. QED
          BY <2>2, <2>4, <3>1, <3>3, <4>2
      <3>6. Is(h, n)
        BY <3>4, <3>5
      <3>. QED
        BY <2>2, <3>6
    <2>. QED
      BY <2>3, <2>4
  <1>2. PICK s : Is(s, n0)
    <2>. HIDE DEF Is
    <2>. QED
      BY <1>1
  <1>. QED
    BY <1>2 DEF Iterate

------------------------------------------------------------------------------
(* The orbits of the rotation *)

\* A rotation by "by" has g cycles of e steps.
Turns(g, e, by) ==
    /\ g \in Nat \ {0} /\ e \in Nat \ {0} /\ by \in 1 .. Size - 1
    /\ Size = g * e /\ Mult(g, by)
    /\ \E u, v \in Int : g = u * by + v * Size

\* The places of a cycle that begins at i: e different ones, those that differ from i by a
\* multiple of g.
Strides(at, i, e, by) == \A j \in 0 .. e : Mult(Size, at[j] - i - j * by)

Visits(at, i, e, g) ==
    /\ \A m, n \in 0 .. e - 1 : at[m] = at[n] => m = n
    /\ at[0] = i /\ at[e] = i
    /\ \A m \in 0 .. e - 1 : Mult(g, at[m] - i)
    /\ \A k \in Indices : Mult(g, k - i) => \E m \in 0 .. e - 1 : at[m] = k

\* The places one cycle of the rotation goes through are those that differ from its first
\* by a multiple of the gcd, each once, and then the first again.
LEMMA Orbit ==
  ASSUME NEW g, NEW e, NEW by, Turns(g, e, by), NEW i \in Indices,
         NEW at \in [0 .. e -> Indices], Strides(at, i, e, by)
  PROVE  Visits(at, i, e, g)
  <1>. USE DEF Strides
  <1>9. Size = g * e
    BY DEF Turns
  <1>0. /\ g \in Nat \ {0} /\ e \in Nat \ {0} /\ by \in Int /\ Size \in Nat
        /\ Mult(g, by) /\ Mult(g, Size) /\ i \in Int
    <2>1. g \in Nat \ {0} /\ e \in Nat \ {0} /\ by \in Int /\ Mult(g, by) /\ Size \in Nat
      BY SizeNat DEF Turns
    <2>2. Mult(g, g * e)
      BY <2>1, MultSelf
    <2>3. i \in Int
      BY <2>1 DEF Indices
    <2>. QED
      BY <1>9, <2>1, <2>2, <2>3
  <1>1. PICK u \in Int, v \in Int : g = u * by + v * Size
    BY DEF Turns
  <1>2. \A j \in 0 .. e : at[j] \in Indices /\ at[j] \in Int /\ at[j] - i \in Int
    BY <1>0 DEF Indices
  <1>3. ASSUME NEW x \in Indices, NEW y \in Indices, Mult(Size, x - y) PROVE x = y
    <2>1. x - y \in Int /\ x - y < Size /\ -Size < x - y
      BY <1>0 DEF Indices
    <2>2. x - y = 0
      BY <1>0, <1>3, <2>1, MultSmall
    <2>. QED
      BY <2>1, <2>2 DEF Indices
  <1>4. \A m, n \in 0 .. e - 1 : at[m] = at[n] => m = n
    <2>. SUFFICES ASSUME NEW m \in 0 .. e - 1, NEW n \in 0 .. e - 1, at[m] = at[n] PROVE m = n
      OBVIOUS
    <2>1. m \in 0 .. e /\ n \in 0 .. e /\ m \in Int /\ n \in Int
      BY <1>0
    <2>2. PICK a \in Int : a = at[m] - i
      BY <1>2, <2>1
    <2>3. Mult(Size, a - m * by) /\ Mult(Size, a - n * by)
      BY <2>1, <2>2
    <2>4. a - m * by \in Int /\ a - n * by \in Int
      BY <1>0, <2>1
    <2>5. Mult(Size, (a - n * by) - (a - m * by))
      BY <1>0, <2>3, <2>4, MultSum
    <2>6. PICK d \in Int : d = m - n
      BY <2>1
    <2>7. PICK x \in Int : x = d * by
      BY <1>0
    <2>8. (a - n * by) - (a - m * by) = x
      BY <1>0, <2>1, <2>6, <2>7
    <2>9. Mult(Size, x)
      BY <2>5, <2>8
    <2>10. Mult(Size, u * x) /\ u * x \in Int
      BY <1>0, <2>9, MultScale
    <2>11. PICK w \in Int : w = v * d
      OBVIOUS
    <2>12. Mult(Size, Size * w) /\ Size * w \in Int
      BY <1>0, MultSelf
    <2>14. Mult(Size, u * x + Size * w)
      BY <1>0, <2>10, <2>12, MultSum
    <2>15. g * d = u * x + Size * w
      <3>1. g * d = (u * by) * d + (v * Size) * d
        BY <1>0, <1>1
      <3>2. (u * by) * d = u * x /\ (v * Size) * d = Size * w
        BY <1>0, <2>7, <2>11
      <3>. QED
        BY <3>1, <3>2
    <2>16. Mult(g * e, g * d)
      BY <1>9, <2>14, <2>15
    <2>17. Mult(e, d)
      BY <1>0, <2>16, MultCancel
    <2>13. d = 0
      <3>1. d < e /\ -e < d
        BY <1>0, <2>6
      <3>. QED
        BY <1>0, <2>17, <3>1, MultSmall
    <2>. QED
      BY <2>1, <2>6, <2>13
  <1>5. at[0] = i
    <2>1. Mult(Size, at[0] - i - 0 * by) /\ at[0] - i - 0 * by = at[0] - i
      BY <1>0, <1>2
    <2>. QED
      BY <1>0, <1>2, <1>3, <2>1
  <1>6. at[e] = i
    <2>1. Mult(Size, at[e] - i - e * by) /\ at[e] - i - e * by \in Int
      BY <1>0, <1>2
    <2>2. PICK c \in Int : by = g * c
      BY <1>0 DEF Mult
    <2>3. e * by = Size * c
      BY <1>0, <1>9, <2>2
    <2>4. Mult(Size, e * by) /\ e * by \in Int
      <3>1. Mult(Size, Size * c) /\ e * by \in Int
        BY <1>0, MultSelf
      <3>. QED
        BY <2>3, <3>1
    <2>5. Mult(Size, (at[e] - i - e * by) + e * by)
      BY <1>0, <2>1, <2>4, MultSum
    <2>6. (at[e] - i - e * by) + e * by = at[e] - i
      BY <1>0, <1>2, <2>4
    <2>. QED
      BY <1>0, <1>2, <1>3, <2>5, <2>6
  <1>7. ASSUME NEW m \in 0 .. e - 1 PROVE Mult(g, at[m] - i)
    <2>1. m \in 0 .. e /\ m \in Int
      BY <1>0
    <2>2. PICK a \in Int : a = at[m] - i
      BY <1>2, <2>1
    <2>3. a - m * by \in Int /\ m * by \in Int /\ Mult(Size, a - m * by)
      BY <1>0, <2>1, <2>2
    <2>4. PICK t \in Int : a - m * by = Size * t
      BY <2>3 DEF Mult
    <2>5. Mult(g, t * Size) /\ Mult(g, m * by) /\ t * Size \in Int
      <3>1. Mult(g, t * Size)
        BY <1>0, MultScale
      <3>2. Mult(g, m * by)
        BY <1>0, <2>1, MultScale
      <3>. QED
        BY <1>0, <3>1, <3>2
    <2>6. Mult(g, t * Size + m * by)
      BY <1>0, <2>3, <2>5, MultSum
    <2>7. a = t * Size + m * by
      BY <1>0, <2>1, <2>4
    <2>. QED
      BY <2>2, <2>6, <2>7
  <1>8. ASSUME NEW k \in Indices, Mult(g, k - i) PROVE \E m \in 0 .. e - 1 : at[m] = k
    <2>0. k \in Int
      BY <1>0 DEF Indices
    <2>1. PICK c \in Int : k - i = g * c
      BY <1>8 DEF Mult
    <2>2. PICK w \in Int : w = c * u
      OBVIOUS
    <2>3. PICK m \in 0 .. e - 1, z \in Int : w = e * z + m
      <3>1. w % e \in 0 .. e - 1 /\ w \div e \in Int /\ w = e * (w \div e) + (w % e)
        BY <1>0
      <3>. QED
        BY <3>1
    <2>4. m \in Int /\ m \in 0 .. e
      BY <1>0
    <2>5. PICK d \in Int : by = g * d
      BY <1>0 DEF Mult
    <2>6. k - i - m * by = Size * (c * v + z * d)
      <3>1. g * c = w * by + Size * (c * v)
        BY <1>0, <1>1, <2>2
      <3>2. (e * z) * by = Size * (z * d)
        BY <1>0, <1>9, <2>5
      <3>3. w * by = (e * z) * by + m * by
        BY <1>0, <2>3, <2>4
      <3>4. Size * (c * v + z * d) = Size * (c * v) + Size * (z * d)
        BY <1>0
      <3>5. Size * (c * v) \in Int /\ Size * (z * d) \in Int /\ m * by \in Int /\ w * by \in Int
        BY <1>0, <2>4
      <3>6. k - i = (Size * (z * d) + m * by) + Size * (c * v)
        BY <2>1, <3>1, <3>2, <3>3
      <3>. QED
        BY <3>4, <3>5, <3>6
    <2>7. Mult(Size, k - i - m * by) /\ k - i - m * by \in Int
      <3>1. PICK y \in Int : y = c * v + z * d
        OBVIOUS
      <3>2. Mult(Size, Size * y) /\ Size * y \in Int
        BY <1>0, MultSelf
      <3>3. k - i - m * by = Size * y
        BY <2>6, <3>1
      <3>. QED
        BY <3>2, <3>3
    <2>8. Mult(Size, at[m] - i - m * by) /\ at[m] - i - m * by \in Int
      <3>1. m * by \in Int /\ at[m] - i \in Int
        BY <1>0, <1>2, <2>4
      <3>2. Mult(Size, at[m] - i - m * by)
        BY <2>4
      <3>3. at[m] - i - m * by \in Int
        BY <3>1
      <3>. QED
        BY <3>2, <3>3
    <2>9. Mult(Size, (at[m] - i - m * by) - (k - i - m * by))
      BY <1>0, <2>7, <2>8, MultSum, SMTT(30)
    <2>10. (at[m] - i - m * by) - (k - i - m * by) = at[m] - k
      <3>1. PICK y \in Int : y = m * by
        BY <1>0, <2>4
      <3>3. PICK a \in Int : a = at[m]
        BY <1>2, <2>4
      <3>4. i \in Int
        BY <1>0
      <3>5. (a - i - y) - (k - i - y) = a - k
        BY <2>0, <3>4
      <3>2. (at[m] - i - y) - (k - i - y) = at[m] - k
        BY <3>3, <3>5
      <3>. QED
        BY <3>1, <3>2
    <2>. QED
      BY <1>2, <1>3, <2>4, <2>9, <2>10
  <1>. QED
    BY <1>4, <1>5, <1>6, <1>7, <1>8 DEF Visits

------------------------------------------------------------------------------
(* One cycle *)

\* A place further on, around the ring.
LEMMA FurtherIs ==
  ASSUME NEW k \in Indices, NEW by \in 1 .. Size - 1
  PROVE  /\ Further(k, by) \in Indices
         /\ Further(k, by) - k - by = 0 \/ Further(k, by) - k - by = -Size
  BY SizeNat DEF Further, Indices

CycleStates == [buf : Ring, pos : Indices, at : Indices]

OneMove(s, t, by) ==
    /\ t.at = Further(s.at, by) /\ t.pos = s.at
    /\ t.buf = [s.buf EXCEPT ![s.at] = s.buf[Further(s.at, by)]]

\* One assignment of the rotation.
LEMMA MovedIs ==
  ASSUME NEW s \in CycleStates, NEW by \in 1 .. Size - 1
  PROVE  Moved(s, by) \in CycleStates /\ OneMove(s, Moved(s, by), by)
  <1>1. s.at \in Indices /\ s.buf \in Ring
    BY DEF CycleStates
  <1>2. Further(s.at, by) \in Indices
    BY <1>1, FurtherIs
  <1>3. Moved(s, by) = [buf |-> [s.buf EXCEPT ![s.at] = s.buf[Further(s.at, by)]],
                        pos |-> s.at, at |-> Further(s.at, by)]
    BY Zenon DEF Moved
  <1>4. s.buf[Further(s.at, by)] \in Int
    BY <1>1, <1>2 DEF Ring
  <1>5. [s.buf EXCEPT ![s.at] = s.buf[Further(s.at, by)]] \in Ring
    BY <1>1, <1>4 DEF Ring
  <1>. QED
    BY <1>1, <1>2, <1>3, <1>5 DEF CycleStates, OneMove

\* The recursion of Cycle is well defined.
CycleRun(s, buf, i, by, e) ==
    /\ s \in [0 .. e -> CycleStates]
    /\ s[0] = [buf |-> buf, pos |-> i, at |-> i]
    /\ \A j \in 1 .. e : s[j] = Moved(s[j - 1], by)
    /\ Cycle(buf, i, by, e) = [s[e].buf EXCEPT ![s[e].pos] = buf[i]]

\* The recursive function in Cycle does what its text says.
LEMMA CycleDef ==
  ASSUME NEW buf \in Ring, NEW i \in Indices, NEW by \in 1 .. Size - 1, NEW e \in Nat
  PROVE  \E s : CycleRun(s, buf, i, by, e)
  <1> DEFINE a == [buf |-> buf, pos |-> i, at |-> i]
             c == CHOOSE s : s = [j \in 0 .. e |-> IF j = 0 THEN a ELSE Moved(s[j - 1], by)]
             f == [j \in 1 .. e |-> [x \in CycleStates |-> Moved(x, by)]]
  <1>1. a \in CycleStates
    BY DEF CycleStates
  <1>2. \A j \in 1 .. e : \A x \in CycleStates : f[j][x] = Moved(x, by) /\ f[j][x] \in CycleStates
    BY MovedIs
  <1>3. PICK s \in [0 .. e -> CycleStates] : s[0] = a /\ \A j \in 1 .. e : s[j] = f[j][s[j - 1]]
    <2>. HIDE DEF a, f
    <2>1. Closed(f, e, CycleStates)
      BY <1>2 DEF Closed
    <2>2. \E s : Iterate(s, a, f, e, CycleStates)
      BY <1>1, <2>1, Iterates
    <2>. QED
      BY <2>2 DEF Iterate
  <1>4. s = [j \in 0 .. e |-> IF j = 0 THEN a ELSE Moved(s[j - 1], by)]
    <2>. HIDE DEF a, f
    <2>1. \A j \in 0 .. e : j # 0 => j \in 1 .. e /\ j - 1 \in 0 .. e
      OBVIOUS
    <2>2. \A j \in 0 .. e : j # 0 => s[j] = Moved(s[j - 1], by)
      BY <1>2, <1>3, <2>1
    <2>. QED
      BY <1>3, <2>2
  <1>5. c = [j \in 0 .. e |-> IF j = 0 THEN a ELSE Moved(c[j - 1], by)]
    <2>. HIDE DEF a
    <2>. QED
      BY <1>4, Zenon
  <1>6. c[0] = a /\ \A j \in 1 .. e : c[j] = Moved(c[j - 1], by)
    <2>. HIDE DEF a, c
    <2>. QED
      BY <1>5
  <1>7. \A j \in 0 .. e : c[j] \in CycleStates
    <2>. HIDE DEF a, c
    <2> DEFINE T == {j \in 0 .. e : c[j] \notin CycleStates}
    <2>. SUFFICES ASSUME T # {} PROVE FALSE
      OBVIOUS
    <2>1. PICK j \in T : \A m \in T : j <= m
      <3>1. T \subseteq Nat
        OBVIOUS
      <3>. HIDE DEF T
      <3>. QED
        BY <3>1, Least
    <2>2. CASE j = 0
      BY <1>1, <1>6, <2>2
    <2>3. CASE j # 0
      <3>1. j - 1 \in 0 .. e /\ j \in 1 .. e /\ ~(j <= j - 1)
        BY <2>3
      <3>2. c[j - 1] \in CycleStates
        BY <2>1, <3>1
      <3>. QED
        BY <1>6, <3>1, <3>2, MovedIs
    <2>. QED
      BY <2>2, <2>3
  <1>8. c \in [0 .. e -> CycleStates]
    <2>. HIDE DEF a, c
    <2>. QED
      BY <1>5, <1>7
  <1>9. Cycle(buf, i, by, e) = [c[e].buf EXCEPT ![c[e].pos] = buf[i]]
    BY DEF Cycle
  <1>. QED
    <2>. HIDE DEF c
    <2>. QED
      BY <1>6, <1>8, <1>9 DEF CycleRun

\* A cycle moves the bytes of its own places and no other.
LEMMA CycleIs ==
  ASSUME NEW g, NEW e, NEW by, Turns(g, e, by), NEW i \in Indices, NEW buf \in Ring
  PROVE  /\ Cycle(buf, i, by, e) \in Ring
         /\ \A k \in Indices : Mult(g, k - i) => Cycle(buf, i, by, e)[k] = buf[Further(k, by)]
         /\ \A k \in Indices : ~Mult(g, k - i) => Cycle(buf, i, by, e)[k] = buf[k]
  <1>0. by \in 1 .. Size - 1 /\ e \in Nat \ {0} /\ Size \in Nat
    BY SizeNat DEF Turns
  <1>1. PICK s \in [0 .. e -> CycleStates] :
            /\ s[0] = [buf |-> buf, pos |-> i, at |-> i]
            /\ \A j \in 1 .. e : s[j] = Moved(s[j - 1], by)
            /\ Cycle(buf, i, by, e) = [s[e].buf EXCEPT ![s[e].pos] = buf[i]]
    <2>1. \E s : CycleRun(s, buf, i, by, e)
      BY <1>0, CycleDef
    <2>. QED
      BY <2>1 DEF CycleRun
  <1> DEFINE at == [j \in 0 .. e |-> s[j].at]
             C == Cycle(buf, i, by, e)
  <1>2. \A j \in 0 .. e : s[j] \in CycleStates /\ s[j].at \in Indices /\ s[j].buf \in Ring /\ at[j] = s[j].at
    BY DEF CycleStates
  <1>3. at \in [0 .. e -> Indices] /\ at[0] = i /\ s[0].buf = buf
    BY <1>0, <1>1, <1>2
  <1>4. ASSUME NEW j \in 0 .. e - 1
        PROVE  /\ j \in 0 .. e /\ j + 1 \in 0 .. e /\ at[j] \in Indices /\ at[j + 1] \in Indices
               /\ at[j + 1] = Further(at[j], by) /\ s[j + 1].pos = at[j]
               /\ s[j + 1].buf = [s[j].buf EXCEPT ![at[j]] = s[j].buf[at[j + 1]]]
    <2>1. j + 1 \in 1 .. e /\ j \in 0 .. e /\ j + 1 \in 0 .. e /\ (j + 1) - 1 = j
      BY <1>0
    <2>2. s[j + 1] = Moved(s[j], by)
      BY <1>1, <2>1
    <2>3. at[j] = s[j].at /\ at[j + 1] = s[j + 1].at /\ s[j] \in CycleStates
      BY <1>2, <2>1
    <2>. HIDE DEF at
    <2>4. s[j + 1].at = Further(s[j].at, by) /\ s[j + 1].pos = s[j].at
          /\ s[j + 1].buf = [s[j].buf EXCEPT ![s[j].at] = s[j].buf[Further(s[j].at, by)]]
      <3>1. OneMove(s[j], s[j + 1], by)
        BY <1>0, <2>2, <2>3, MovedIs
      <3>. QED
        BY <3>1 DEF OneMove
    <2>. QED
      BY <1>3, <2>1, <2>3, <2>4
  <1>. HIDE DEF at, C
  <1>5. \A j \in 0 .. e : Mult(Size, at[j] - i - j * by)
    <2> DEFINE T == {j \in 0 .. e : ~Mult(Size, at[j] - i - j * by)}
    <2>. SUFFICES ASSUME T # {} PROVE FALSE
      OBVIOUS
    <2>1. PICK n \in T : \A m \in T : n <= m
      <3>1. T \subseteq Nat
        OBVIOUS
      <3>. HIDE DEF T
      <3>. QED
        BY <3>1, Least
    <2>2. CASE n = 0
      <3>1. i \in Int /\ by \in Int
        BY <1>0 DEF Indices
      <3>2. i - i - 0 * by = 0
        BY <3>1
      <3>3. Mult(Size, 0)
        BY <1>0, MultSelf
      <3>. QED
        BY <1>3, <2>2, <3>2, <3>3
    <2>3. CASE n # 0
      <3>1. PICK j \in 0 .. e - 1 : n = j + 1 /\ j \in 0 .. e /\ ~(n <= j) /\ j \in Int
        <4>1. n - 1 \in 0 .. e - 1 /\ n = (n - 1) + 1 /\ ~(n <= n - 1) /\ n - 1 \in 0 .. e /\ n - 1 \in Int
          BY <1>0, <2>3
        <4>. QED
          BY <4>1
      <3>2. Mult(Size, at[j] - i - j * by)
        BY <2>1, <3>1
      <3>3. PICK y \in Int : y = j * by
        BY <1>0, <3>1
      <3>4. n * by = y + by
        <4>1. by \in Int
          BY <1>0
        <4>2. (j + 1) * by = j * by + by
          BY <3>1, <4>1
        <4>. QED
          BY <3>1, <3>3, <4>2
      <3>5. PICK x \in Indices : x = at[j]
        BY <1>4
      <3>6. at[n] = Further(x, by)
        BY <1>4, <3>1, <3>5
      <3>7. Further(x, by) \in Indices
            /\ (Further(x, by) - x - by = 0 \/ Further(x, by) - x - by = -Size)
        BY <1>0, FurtherIs
      <3>8. PICK z \in Int : z = Further(x, by)
        BY <1>0, <3>7 DEF Indices
      <3>9. x \in Int /\ i \in Int /\ by \in Int
        BY <1>0 DEF Indices
      <3>10. Mult(Size, x - i - y) /\ x - i - y \in Int
        BY <3>2, <3>3, <3>5, <3>9
      <3>11. Mult(Size, z - x - by) /\ z - x - by \in Int
        <4>1. Mult(Size, 0) /\ Mult(Size, 0 - Size)
          BY <1>0, MultSelf, MultSum
        <4>2. 0 - Size = -Size /\ z - x - by \in Int
          BY <1>0, <3>9
        <4>. QED
          BY <3>7, <3>8, <4>1, <4>2
      <3>12. Mult(Size, (x - i - y) + (z - x - by))
        BY <1>0, <3>10, <3>11, MultSum
      <3>13. (x - i - y) + (z - x - by) = z - i - (y + by)
        BY <3>9
      <3>. QED
        BY <3>4, <3>6, <3>8, <3>12, <3>13
    <2>. QED
      BY <2>2, <2>3
  <1>6. /\ \A m, n \in 0 .. e - 1 : at[m] = at[n] => m = n
        /\ at[0] = i /\ at[e] = i
        /\ \A m \in 0 .. e - 1 : Mult(g, at[m] - i)
        /\ \A k \in Indices : Mult(g, k - i) => \E m \in 0 .. e - 1 : at[m] = k
    <2>1. Strides(at, i, e, by)
      BY <1>5 DEF Strides
    <2>2. Visits(at, i, e, g)
      BY <1>3, <2>1, Orbit
    <2>. QED
      BY <2>2 DEF Visits
  <1> DEFINE Done(j) == /\ \A k \in Indices : (\A m \in 0 .. j - 1 : at[m] # k) => s[j].buf[k] = buf[k]
                        /\ \A m \in 0 .. j - 1 : m # e - 1 => s[j].buf[at[m]] = buf[at[m + 1]]
  <1>7. \A j \in 0 .. e : Done(j)
    <2> DEFINE T == {j \in 0 .. e : ~Done(j)}
    <2>. SUFFICES ASSUME T # {} PROVE FALSE
      OBVIOUS
    <2>1. PICK n \in T : \A m \in T : n <= m
      <3>1. T \subseteq Nat
        OBVIOUS
      <3>. HIDE DEF T
      <3>. QED
        BY <3>1, Least
    <2>2. CASE n = 0
      BY <1>3, <2>2
    <2>3. CASE n # 0
      <3>1. PICK j \in 0 .. e - 1 : n = j + 1 /\ j \in 0 .. e /\ ~(n <= j) /\ j \in Int
        <4>1. n - 1 \in 0 .. e - 1 /\ n = (n - 1) + 1 /\ ~(n <= n - 1) /\ n - 1 \in 0 .. e /\ n - 1 \in Int
          BY <1>0, <2>3
        <4>. QED
          BY <4>1
      <3>2. Done(j)
        <4>. HIDE DEF Done
        <4>. QED
          BY <2>1, <3>1
      <3>3. /\ at[j] \in Indices /\ at[j + 1] \in Indices
            /\ s[n].buf = [s[j].buf EXCEPT ![at[j]] = s[j].buf[at[j + 1]]]
        BY <1>4, <3>1
      <3>4. s[j].buf \in Ring
        BY <1>2, <3>1
      <3>5. \A k \in Indices : s[n].buf[k] = IF k = at[j] THEN s[j].buf[at[j + 1]] ELSE s[j].buf[k]
        BY <3>3, <3>4 DEF Ring
      <3>6. ASSUME NEW k \in Indices, \A m \in 0 .. n - 1 : at[m] # k PROVE s[n].buf[k] = buf[k]
        <4>1. j \in 0 .. n - 1 /\ \A m \in 0 .. j - 1 : m \in 0 .. n - 1
          BY <3>1
        <4>. QED
          BY <3>2, <3>5, <3>6, <4>1
      <3>7. ASSUME NEW m \in 0 .. n - 1, m # e - 1 PROVE s[n].buf[at[m]] = buf[at[m + 1]]
        <4>1. m \in 0 .. e - 1 /\ at[m] \in Indices
          <5>1. m \in 0 .. e - 1
            BY <1>0, <3>1
          <5>. QED
            BY <5>1, <1>4
        <4>2. CASE m = j
          <5>1. j + 1 \in 0 .. e - 1 /\ \A q \in 0 .. j - 1 : q \in 0 .. e - 1 /\ q # j + 1
            BY <1>0, <3>1, <3>7, <4>2
          <5>2. \A q \in 0 .. j - 1 : at[q] # at[j + 1]
            BY <1>6, <5>1
          <5>3. s[j].buf[at[j + 1]] = buf[at[j + 1]]
            BY <3>2, <3>3, <5>2
          <5>. QED
            BY <3>3, <3>5, <4>2, <5>3
        <4>3. CASE m # j
          <5>1. m \in 0 .. j - 1
            BY <3>1, <4>3
          <5>2. at[m] # at[j]
            BY <1>6, <4>1, <4>3
          <5>3. s[j].buf[at[m]] = buf[at[m + 1]]
            BY <3>2, <3>7, <5>1
          <5>. QED
            BY <3>5, <4>1, <5>2, <5>3
        <4>. QED
          BY <4>2, <4>3
      <3>8. Done(n)
        BY <3>6, <3>7
      <3>. QED
        BY <3>8
    <2>. QED
      BY <2>2, <2>3
  <1>8. e - 1 \in 0 .. e - 1 /\ (e - 1) + 1 = e /\ e \in 0 .. e
    BY <1>0
  <1>9. s[e].pos = at[e - 1] /\ at[e - 1] \in Indices
    BY <1>4, <1>8
  <1>10. s[e].buf \in Ring /\ buf[i] \in Int
    BY <1>2, <1>8 DEF Ring
  <1>11. C = [s[e].buf EXCEPT ![at[e - 1]] = buf[i]]
    BY <1>1, <1>9 DEF C
  <1>12. C \in Ring /\ \A k \in Indices : C[k] = IF k = at[e - 1] THEN buf[i] ELSE s[e].buf[k]
    BY <1>9, <1>10, <1>11 DEF Ring
  <1>13. ASSUME NEW k \in Indices, Mult(g, k - i) PROVE C[k] = buf[Further(k, by)]
    <2>1. PICK m \in 0 .. e - 1 : at[m] = k
      BY <1>6, <1>13
    <2>2. at[m + 1] = Further(k, by)
      BY <1>4, <2>1
    <2>3. CASE m = e - 1
      <3>1. at[m + 1] = i
        BY <1>6, <1>8, <2>3
      <3>. QED
        BY <1>12, <2>1, <2>2, <2>3, <3>1
    <2>4. CASE m # e - 1
      <3>1. k # at[e - 1]
        BY <1>6, <1>8, <2>1, <2>4
      <3>2. s[e].buf[at[m]] = buf[at[m + 1]]
        BY <1>7, <1>8, <2>4
      <3>. QED
        BY <1>12, <2>1, <2>2, <3>1, <3>2
    <2>. QED
      BY <2>3, <2>4
  <1>14. ASSUME NEW k \in Indices, ~Mult(g, k - i) PROVE C[k] = buf[k]
    <2>1. \A m \in 0 .. e - 1 : at[m] # k
      BY <1>6, <1>14
    <2>2. s[e].buf[k] = buf[k]
      BY <1>7, <1>8, <2>1
    <2>. QED
      BY <1>8, <1>12, <2>1, <2>2
  <1>. QED
    BY <1>12, <1>13, <1>14 DEF C

------------------------------------------------------------------------------
(* The rotation *)

\* The numbers MPClean computes: the cycles and their steps.
LEMMA TurnsIs ==
  ASSUME NEW by \in 1 .. Size - 1
  PROVE  LET g == gcd[<<Size - by, Size>>]
         IN  Turns(g, Size \div g, by)
  <1> DEFINE p == <<Size - by, Size>>
             g == gcd[p]
  <1>0. Size \in Nat \ {0} /\ Size - by \in Nat
    BY SizeNat
  <1>1. p \in Pairs /\ p[1] = Size - by /\ p[2] = Size
    BY <1>0 DEF Pairs
  <1>2. Divides(g, p[1], p[2])
    <2>. HIDE DEF p
    <2>. QED
      BY <1>0, <1>1, GcdIs
  <1>3. Divides(g, Size - by, Size)
    BY <1>1, <1>2
  <1>. HIDE DEF g, p
  <1>4. g \in Nat \ {0} /\ Mult(g, Size - by) /\ Mult(g, Size)
    BY <1>3 DEF Divides
  <1>5. PICK u \in Int, v \in Int : g = u * (Size - by) + v * Size
    BY <1>3 DEF Divides
  <1>6. Mult(g, by)
    <2>1. Mult(g, Size - (Size - by))
      BY <1>0, <1>4, MultSum
    <2>2. Size - (Size - by) = by
      BY <1>0
    <2>. QED
      BY <2>1, <2>2
  <1>7. g = (-u) * by + (u + v) * Size
    <2>1. (-u) * by + (u + v) * Size = u * (Size - by) + v * Size
      BY <1>0
    <2>. QED
      BY <1>5, <2>1
  <1>8. Size = g * (Size \div g) /\ Size \div g \in Nat \ {0}
    <2>1. PICK t \in Int : Size = g * t
      BY <1>4 DEF Mult
    <2>2. PICK q \in Nat : q = Size \div g
      BY <1>0, <1>4, Remainder
    <2>3. Size = g * q + (Size % g) /\ Size % g \in 0 .. g - 1
      BY <1>0, <1>4, <2>2, Remainder
    <2>4. PICK r \in Int : r = Size % g /\ r < g /\ r >= 0
      BY <1>4, <2>3
    <2>5. r = g * (t - q)
      BY <1>4, <2>1, <2>3, <2>4
    <2>6. Mult(g, r)
      <3>1. t - q \in Int
        OBVIOUS
      <3>. QED
        BY <2>5, <3>1 DEF Mult
    <2>7. r = 0
      BY <1>4, <2>4, <2>6, MultSmall
    <2>8. Size = g * q
      <3>1. g * q \in Int
        BY <1>4
      <3>. QED
        BY <2>3, <2>4, <2>7, <3>1
    <2>9. q # 0
      BY <1>0, <1>4, <2>8
    <2>. QED
      BY <2>2, <2>8, <2>9
  <1>9. \E x, y \in Int : g = x * by + y * Size
    <2>1. -u \in Int /\ u + v \in Int
      OBVIOUS
    <2>. QED
      BY <1>7, <2>1
  <1>10. Turns(g, Size \div g, by)
    BY <1>4, <1>6, <1>8, <1>9 DEF Turns
  <1>. QED
    BY <1>10 DEF g, p

Counts(g, e, by) == g = gcd[<<Size - by, Size>>] /\ e = Size \div g

RotateRun(s, buf, by, g, e) ==
    /\ s \in [0 .. g -> Ring]
    /\ s[0] = buf /\ s[g] = Rotate(buf, by)
    /\ \A j \in 1 .. g : s[j] = Cycle(s[j - 1], j - 1, by, e)

\* The recursion of Rotate is well defined.
LEMMA RotateDef ==
  ASSUME NEW buf \in Ring, NEW by \in 1 .. Size - 1, NEW g, NEW e, Counts(g, e, by), Turns(g, e, by)
  PROVE  \E s : RotateRun(s, buf, by, g, e)
  <1> DEFINE c == CHOOSE s : s = [j \in 0 .. g |-> IF j = 0 THEN buf ELSE Cycle(s[j - 1], j - 1, by, e)]
             f == [j \in 1 .. g |-> [x \in Ring |-> Cycle(x, j - 1, by, e)]]
  <1>0. g \in Nat \ {0} /\ \A j \in 1 .. g : j - 1 \in Indices
    <2>1. g \in Nat \ {0} /\ e \in Nat \ {0} /\ Size = g * e
      BY DEF Turns
    <2>2. g <= Size
      <3>1. g * e = g + g * (e - 1) /\ g * (e - 1) >= 0
        BY <2>1
      <3>. QED
        BY <2>1, <3>1
    <2>. QED
      BY <2>1, <2>2, SizeNat DEF Indices
  <1>2. \A j \in 1 .. g : \A x \in Ring : f[j][x] = Cycle(x, j - 1, by, e) /\ f[j][x] \in Ring
    BY <1>0, CycleIs
  <1>3. PICK s \in [0 .. g -> Ring] : s[0] = buf /\ \A j \in 1 .. g : s[j] = f[j][s[j - 1]]
    <2>. HIDE DEF f
    <2>1. Closed(f, g, Ring)
      BY <1>2 DEF Closed
    <2>2. \E s : Iterate(s, buf, f, g, Ring)
      BY <1>0, <2>1, Iterates
    <2>. QED
      BY <2>2 DEF Iterate
  <1>4. s = [j \in 0 .. g |-> IF j = 0 THEN buf ELSE Cycle(s[j - 1], j - 1, by, e)]
    <2>. HIDE DEF f
    <2>1. \A j \in 0 .. g : j # 0 => j \in 1 .. g /\ j - 1 \in 0 .. g
      BY <1>0
    <2>2. \A j \in 0 .. g : j # 0 => s[j] = Cycle(s[j - 1], j - 1, by, e)
      BY <1>2, <1>3, <2>1
    <2>. QED
      BY <1>3, <2>2
  <1>5. c = [j \in 0 .. g |-> IF j = 0 THEN buf ELSE Cycle(c[j - 1], j - 1, by, e)]
    BY <1>4, Zenon
  <1>6. c[0] = buf /\ \A j \in 1 .. g : c[j] = Cycle(c[j - 1], j - 1, by, e)
    <2>. HIDE DEF c
    <2>. QED
      BY <1>0, <1>5
  <1>7. \A j \in 0 .. g : c[j] \in Ring
    <2>. HIDE DEF c
    <2> DEFINE T == {j \in 0 .. g : c[j] \notin Ring}
    <2>. SUFFICES ASSUME T # {} PROVE FALSE
      OBVIOUS
    <2>1. PICK j \in T : \A m \in T : j <= m
      <3>1. T \subseteq Nat
        BY <1>0
      <3>. HIDE DEF T
      <3>. QED
        BY <3>1, Least
    <2>2. CASE j = 0
      BY <1>6, <2>2
    <2>3. CASE j # 0
      <3>1. j - 1 \in 0 .. g /\ j \in 1 .. g /\ ~(j <= j - 1)
        BY <1>0, <2>3
      <3>2. c[j - 1] \in Ring
        BY <2>1, <3>1
      <3>. QED
        BY <1>0, <1>6, <3>1, <3>2, CycleIs
    <2>. QED
      BY <2>2, <2>3
  <1>8. c \in [0 .. g -> Ring]
    <2>. HIDE DEF c
    <2>. QED
      BY <1>5, <1>7
  <1>9. Rotate(buf, by) = c[g]
    BY DEF Rotate, Counts
  <1>. QED
    <2>. HIDE DEF c
    <2>. QED
      BY <1>6, <1>8, <1>9 DEF RotateRun

\* Whatever the size of the buffer, MPClean's rotation in place, cycle by cycle, takes every
\* byte from "by" places further on: none is lost or moved twice.
THEOREM RotateIs ==
  ASSUME NEW buf \in Ring, NEW by \in 1 .. Size - 1
  PROVE  /\ Rotate(buf, by) \in Ring
         /\ \A k \in Indices : Rotate(buf, by)[k] = buf[Further(k, by)]
  <1>1. PICK g, e : Counts(g, e, by)
    BY DEF Counts
  <1>3. Turns(g, e, by)
    BY <1>1, TurnsIs DEF Counts
  <1>4. PICK s : RotateRun(s, buf, by, g, e)
    BY <1>1, <1>3, RotateDef
  <1>5. /\ g \in Nat \ {0} /\ e \in Nat \ {0} /\ Size \in Nat /\ by \in Int /\ g <= Size
        /\ Mult(g, by) /\ Mult(g, Size)
    <2>1. g \in Nat \ {0} /\ e \in Nat \ {0} /\ Size = g * e /\ Mult(g, by)
      BY <1>3 DEF Turns
    <2>2. g <= Size
      <3>1. g * e = g + g * (e - 1) /\ g * (e - 1) >= 0
        BY <2>1
      <3>. QED
        BY <2>1, <3>1
    <2>3. Mult(g, g * e)
      <3>1. g \in Int /\ e \in Int
        BY <2>1
      <3>. QED
        BY <3>1, MultSelf
    <2>. QED
      BY <2>1, <2>2, <2>3, SizeNat
  <1>6. /\ s \in [0 .. g -> Ring] /\ s[0] = buf /\ s[g] = Rotate(buf, by)
        /\ \A j \in 1 .. g : s[j] = Cycle(s[j - 1], j - 1, by, e)
    BY <1>4 DEF RotateRun
  <1>7. ASSUME NEW k \in Indices PROVE Further(k, by) \in Indices /\ Mult(g, Further(k, by) - k)
    <2>1. PICK z \in Indices : z = Further(k, by) /\ (z - k - by = 0 \/ z - k - by = -Size)
      BY FurtherIs
    <2>2. k \in Int /\ z \in Int
      BY <1>5 DEF Indices
    <2>3. z - k = by \/ z - k = by - Size
      BY <1>5, <2>1, <2>2
    <2>4. Mult(g, by - Size)
      BY <1>5, MultSum
    <2>. QED
      BY <1>5, <2>1, <2>3, <2>4
  <1> DEFINE Done(j) == \A k \in Indices :
                 /\ (\E c \in 0 .. j - 1 : Mult(g, k - c)) => s[j][k] = buf[Further(k, by)]
                 /\ (\A c \in 0 .. j - 1 : ~Mult(g, k - c)) => s[j][k] = buf[k]
             T == {j \in 0 .. g : ~Done(j)}
  <1>8. T = {}
    <2>. SUFFICES ASSUME T # {} PROVE FALSE
      OBVIOUS
    <2>1. PICK n \in T : \A m \in T : n <= m
      <3>. HIDE DEF Done
      <3>1. T \subseteq Nat
        BY <1>5
      <3>. HIDE DEF T
      <3>. QED
        BY <3>1, Least
    <2>2. CASE n = 0
      BY <1>6, <2>2
    <2>3. CASE n # 0
      <3>1. PICK j \in 0 .. g - 1 : n = j + 1 /\ j \in 0 .. g /\ ~(n <= j) /\ j \in Indices
        <4>0. n \in 0 .. g
          OBVIOUS
        <4>1. n - 1 \in 0 .. g - 1 /\ n = (n - 1) + 1 /\ ~(n <= n - 1) /\ n - 1 \in 0 .. g /\ n - 1 \in Indices
          BY <1>5, <2>3, <4>0 DEF Indices
        <4>. QED
          BY <4>1
      <3>2. Done(j)
        <4>. HIDE DEF Done
        <4>. QED
          BY <2>1, <3>1
      <3>3. s[j] \in Ring
        BY <1>6, <3>1
      <3>4. s[n] = Cycle(s[j], j, by, e)
        <4>1. n \in 1 .. g /\ n - 1 = j
          BY <1>5, <3>1
        <4>. QED
          BY <1>6, <4>1
      <3>5. /\ \A k \in Indices : Mult(g, k - j) => s[n][k] = s[j][Further(k, by)]
            /\ \A k \in Indices : ~Mult(g, k - j) => s[n][k] = s[j][k]
        BY <1>3, <3>1, <3>3, <3>4, CycleIs
      <3>6. 0 .. n - 1 = (0 .. j - 1) \cup {j}
        BY <1>5, <3>1
      <3>7. ASSUME NEW k \in Indices, Mult(g, k - j)
            PROVE  \A c \in 0 .. j - 1 : ~Mult(g, k - c)
        <4>. SUFFICES ASSUME NEW c \in 0 .. j - 1, Mult(g, k - c) PROVE FALSE
          OBVIOUS
        <4>1. k \in Int /\ c \in Int /\ j \in Int /\ j - c < g /\ j - c > 0
          BY <1>5, <3>1 DEF Indices
        <4>2. k - c \in Int /\ k - j \in Int /\ (k - c) - (k - j) = j - c
          BY <4>1
        <4>3. Mult(g, (k - c) - (k - j))
          BY <1>5, <3>7, <4>2, MultSum
        <4>4. PICK x \in Int : x = j - c /\ x < g /\ x > 0 /\ Mult(g, x)
          BY <4>1, <4>2, <4>3
        <4>5. x = 0
          BY <1>5, <4>4, MultSmall
        <4>. QED
          BY <4>4, <4>5
      <3>8. ASSUME NEW k \in Indices, Mult(g, k - j) PROVE s[n][k] = buf[Further(k, by)]
        <4>1. PICK z \in Indices : z = Further(k, by) /\ Mult(g, z - k)
          BY <1>7
        <4>2. k \in Int /\ z \in Int /\ j \in Int
          BY <1>5, <3>1 DEF Indices
        <4>3. z - k \in Int /\ k - j \in Int /\ (z - k) + (k - j) = z - j
          BY <4>2
        <4>4. Mult(g, z - j)
          BY <1>5, <3>8, <4>1, <4>3, MultSum
        <4>5. \A c \in 0 .. j - 1 : ~Mult(g, z - c)
          BY <3>7, <4>4
        <4>6. s[j][z] = buf[z]
          BY <3>2, <4>5
        <4>. QED
          BY <3>5, <3>8, <4>1, <4>6
      <3>9. ASSUME NEW k \in Indices, ~Mult(g, k - j)
            PROVE  /\ (\E c \in 0 .. n - 1 : Mult(g, k - c)) => s[n][k] = buf[Further(k, by)]
                   /\ (\A c \in 0 .. n - 1 : ~Mult(g, k - c)) => s[n][k] = buf[k]
        <4>1. s[n][k] = s[j][k]
          BY <3>5, <3>9
        <4>. QED
          BY <3>2, <3>6, <3>9, <4>1
      <3>10. Done(n)
        <4>. SUFFICES ASSUME NEW k \in Indices
                      PROVE  /\ (\E c \in 0 .. n - 1 : Mult(g, k - c)) => s[n][k] = buf[Further(k, by)]
                             /\ (\A c \in 0 .. n - 1 : ~Mult(g, k - c)) => s[n][k] = buf[k]
          OBVIOUS
        <4>1. CASE Mult(g, k - j)
          <5>1. j \in 0 .. n - 1
            BY <3>6
          <5>. QED
            BY <3>8, <4>1, <5>1
        <4>. QED
          BY <3>9, <4>1
      <3>. QED
        BY <3>10
    <2>. QED
      BY <2>2, <2>3
  <1>9. ASSUME NEW k \in Indices PROVE Rotate(buf, by)[k] = buf[Further(k, by)]
    <2>1. k \in Nat
      BY <1>5 DEF Indices
    <2>2. PICK c \in 0 .. g - 1 : c = k % g
      BY <1>5, <2>1, Remainder
    <2>3. Mult(g, k - c)
      <3>1. k = g * (k \div g) + (k % g) /\ k \div g \in Int
        BY <1>5, <2>1, Remainder
      <3>2. PICK t \in Int : t = k \div g
        BY <3>1
      <3>3. k = g * t + c
        BY <2>2, <3>1, <3>2
      <3>4. k - c = g * t
        BY <1>5, <2>1, <3>3
      <3>. QED
        BY <3>4 DEF Mult
    <2>4. Done(g)
      <3>. HIDE DEF Done
      <3>1. g \in 0 .. g
        BY <1>5
      <3>. QED
        BY <1>8, <3>1
    <2>. QED
      BY <1>6, <2>3, <2>4
  <1>10. Rotate(buf, by) \in Ring
    BY <1>5, <1>6
  <1>. QED
    BY <1>9, <1>10

------------------------------------------------------------------------------
(* The request *)

\* c is a, of length m, followed by b, of length n.
Joined(a, m, b, n, c) ==
    /\ c \in Seq(Int) /\ Len(c) = m + n
    /\ \A i \in 1 .. m : c[i] = a[i]
    /\ \A i \in 1 .. n : c[m + i] = b[i]

\* Where the elements of two sequences are when they are put together.
LEMMA ConcatPlaces ==
  ASSUME NEW a \in Seq(Int), NEW b \in Seq(Int)
  PROVE  /\ a \o b \in Seq(Int) /\ Len(a \o b) = Len(a) + Len(b)
         /\ \A i \in 1 .. Len(a) : (a \o b)[i] = a[i]
         /\ \A i \in 1 .. Len(b) : (a \o b)[Len(a) + i] = b[i]
  OBVIOUS

\* The same in one predicate.
LEMMA ConcatIs ==
  ASSUME NEW a \in Seq(Int), NEW b \in Seq(Int), NEW m, NEW n, Len(a) = m, Len(b) = n
  PROVE  Joined(a, m, b, n, a \o b)
  BY ConcatPlaces, Zenon DEF Joined

\* The places of the parts of a request.
Layout(p, s) ==
    LET L == Len(p.boundary)
    IN  /\ s \in Seq(Int) /\ Len(s) = IF p.more THEN Sought(p) + L + 14 ELSE Sought(p) + 3
        /\ \A i \in 1 .. L + 2 : s[i] = Delimiter(p)[i]
        /\ s[L + 3] = CR /\ s[L + 4] = LF /\ s[L + 5] = HFile /\ s[L + 6] = CR /\ s[L + 7] = LF
        /\ s[L + 8] = CR /\ s[L + 9] = LF
        /\ \A i \in 1 .. Len(p.file) : s[FileAt(p) + i] = p.file[i]
        /\ s[FileAt(p) + Len(p.file) + 1] = CR /\ s[FileAt(p) + Len(p.file) + 2] = LF
        /\ \A i \in 1 .. L + 2 : s[FileAt(p) + Len(p.file) + 2 + i] = Delimiter(p)[i]

\* What comes after the delimiter that follows the file.
Rest(p, s) ==
    LET L == Len(p.boundary)
        u == Until(p)
    IN  IF p.more
        THEN /\ s[u + 1] = CR /\ s[u + 2] = LF /\ s[u + 3] = HParam /\ s[u + 4] = CR /\ s[u + 5] = LF
             /\ s[u + 6] = CR /\ s[u + 7] = LF
             /\ \A i \in u + 11 .. u + L + 15 : s[i] # LF
        ELSE s[u + 1] = DASH /\ s[u + 2] = DASH /\ s[u + 3] = CR /\ s[u + 4] = LF

\* The delimiter is two dashes and the boundary, and has no end of line.
LEMMA DelimiterIs ==
  ASSUME NEW p, PostOK(p)
  PROVE  /\ Delimiter(p) \in Seq(Int) /\ Len(Delimiter(p)) = Len(p.boundary) + 2
         /\ Len(p.boundary) \in Nat /\ Len(p.file) \in Nat
         /\ Delimiter(p)[1] = DASH /\ Delimiter(p)[2] = DASH
         /\ \A i \in 1 .. Len(p.boundary) : Delimiter(p)[i + 2] = p.boundary[i]
         /\ \A i \in 1 .. Len(p.boundary) + 2 : Delimiter(p)[i] \notin {CR, LF}
  <1>1. p.boundary \in Seq(Int) /\ p.file \in Seq(Int)
    BY DEF PostOK
  <1>2. Len(p.boundary) \in Nat /\ Len(p.file) \in Nat
    BY <1>1
  <1>3. \A i \in 1 .. Len(p.boundary) : p.boundary[i] \notin {CR, LF}
    BY DEF PostOK
  <1> DEFINE d == <<DASH, DASH>>
  <1>4. d \in Seq(Int) /\ Len(d) = 2 /\ d[1] = DASH /\ d[2] = DASH
    BY DEF DASH
  <1>5. Delimiter(p) = d \o p.boundary
    BY DEF Delimiter
  <1>. HIDE DEF d
  <1>6. /\ Delimiter(p) \in Seq(Int) /\ Len(Delimiter(p)) = 2 + Len(p.boundary)
        /\ Delimiter(p)[1] = DASH /\ Delimiter(p)[2] = DASH
        /\ \A i \in 1 .. Len(p.boundary) : Delimiter(p)[2 + i] = p.boundary[i]
    <2>1. Joined(d, 2, p.boundary, Len(p.boundary), d \o p.boundary)
      BY <1>1, <1>4, ConcatIs
    <2>2. 1 \in 1 .. 2 /\ 2 \in 1 .. 2
      OBVIOUS
    <2>. QED
      BY <1>4, <1>5, <2>1, <2>2 DEF Joined
  <1>7. ASSUME NEW i \in 1 .. Len(p.boundary) PROVE Delimiter(p)[i + 2] = p.boundary[i]
    <2>1. Delimiter(p)[2 + i] = p.boundary[i]
      BY <1>6
    <2>2. 2 + i = i + 2
      BY <1>2
    <2>. QED
      BY <2>1, <2>2
  <1>8. ASSUME NEW i \in 1 .. Len(p.boundary) + 2 PROVE Delimiter(p)[i] \notin {CR, LF}
    <2>1. CASE i \in {1, 2}
      BY <1>6, <2>1 DEF DASH, CR, LF
    <2>2. CASE i \notin {1, 2}
      <3>1. i - 2 \in 1 .. Len(p.boundary) /\ (i - 2) + 2 = i
        BY <1>2, <2>2
      <3>. QED
        BY <1>3, <1>7, <3>1
    <2>. QED
      BY <2>1, <2>2
  <1>. QED
    BY <1>2, <1>6, <1>7, <1>8

\* Where the parts of a request are in its bytes.
LEMMA StreamIs ==
  ASSUME NEW p, PostOK(p), p.kind = "file"
  PROVE  Layout(p, Stream(p)) /\ Rest(p, Stream(p))
  <1> DEFINE L == Len(p.boundary)
             F == Len(p.file)
             D == Delimiter(p)
             h == <<CR, LF, HFile, CR, LF, CR, LF>>
             x == <<CR, LF>>
             f == <<CR, LF, HParam, CR, LF, CR, LF, Value, CR, LF>>
             t == <<DASH, DASH, CR, LF>>
             mo == IF p.more THEN f \o D ELSE <<>>
             a1 == D \o h
             a2 == a1 \o p.file
             a3 == a2 \o x
             a4 == a3 \o D
             a5 == a4 \o mo
             a6 == a5 \o t
  <1>. USE DEF CR, LF, HFile, HParam, DASH, Value
  <1>1. D \in Seq(Int) /\ Len(D) = L + 2 /\ L \in Nat /\ F \in Nat /\ p.file \in Seq(Int) /\ p.more \in BOOLEAN
    BY DelimiterIs DEF PostOK
  <1>2. /\ h \in Seq(Int) /\ Len(h) = 7 /\ h[1] = CR /\ h[2] = LF /\ h[3] = HFile /\ h[4] = CR
        /\ h[5] = LF /\ h[6] = CR /\ h[7] = LF
    OBVIOUS
  <1>3. x \in Seq(Int) /\ Len(x) = 2 /\ x[1] = CR /\ x[2] = LF
    OBVIOUS
  <1>4. /\ f \in Seq(Int) /\ Len(f) = 10 /\ f[1] = CR /\ f[2] = LF /\ f[3] = HParam /\ f[4] = CR
        /\ f[5] = LF /\ f[6] = CR /\ f[7] = LF /\ f[8] = Value /\ f[9] = CR /\ f[10] = LF
    OBVIOUS
  <1>5. t \in Seq(Int) /\ Len(t) = 4 /\ t[1] = DASH /\ t[2] = DASH /\ t[3] = CR /\ t[4] = LF
    OBVIOUS
  <1>6. Stream(p) = a6
    BY DEF Stream
  <1>7. \A i \in 1 .. L + 2 : D[i] # LF
    BY DelimiterIs
  <1>. HIDE DEF h, x, f, t, D, L, F, CR, LF, HFile, HParam, DASH, Value
  <1>8. /\ a1 \in Seq(Int) /\ Len(a1) = L + 9
        /\ \A i \in 1 .. L + 2 : a1[i] = D[i]
        /\ \A i \in 1 .. 7 : a1[L + 2 + i] = h[i]
    <2>1. Joined(D, L + 2, h, 7, a1)
      BY <1>1, <1>2, ConcatIs
    <2>2. L + 2 + 7 = L + 9
      BY <1>1
    <2>. HIDE DEF a1
    <2>. QED
      BY <2>1, <2>2 DEF Joined
  <1>9. a1[L + 3] = CR /\ a1[L + 4] = LF /\ a1[L + 5] = HFile /\ a1[L + 6] = CR /\ a1[L + 7] = LF
        /\ a1[L + 8] = CR /\ a1[L + 9] = LF
    <2>1. L + 2 + 1 = L + 3 /\ L + 2 + 2 = L + 4 /\ L + 2 + 3 = L + 5 /\ L + 2 + 4 = L + 6
          /\ L + 2 + 5 = L + 7 /\ L + 2 + 6 = L + 8 /\ L + 2 + 7 = L + 9
      BY <1>1
    <2>. HIDE DEF a1
    <2>. QED
      BY <1>2, <1>8, <2>1
  <1>. HIDE DEF a1
  <1>10. /\ a2 \in Seq(Int) /\ Len(a2) = L + 9 + F
         /\ \A i \in 1 .. L + 9 : a2[i] = a1[i]
         /\ \A i \in 1 .. F : a2[L + 9 + i] = p.file[i]
    <2>1. Joined(a1, L + 9, p.file, F, a2)
      BY <1>1, <1>8, ConcatIs DEF F
    <2>. HIDE DEF a2
    <2>. QED
      BY <2>1 DEF Joined
  <1>. HIDE DEF a2
  <1>11. /\ a3 \in Seq(Int) /\ Len(a3) = L + F + 11
         /\ \A i \in 1 .. L + 9 + F : a3[i] = a2[i]
         /\ a3[L + 9 + F + 1] = CR /\ a3[L + 9 + F + 2] = LF
    <2>1. Joined(a2, L + 9 + F, x, 2, a3)
      BY <1>3, <1>10, ConcatIs
    <2>2. L + 9 + F + 2 = L + F + 11 /\ 1 \in 1 .. 2 /\ 2 \in 1 .. 2
      BY <1>1
    <2>. HIDE DEF a3
    <2>. QED
      BY <1>3, <2>1, <2>2 DEF Joined
  <1>. HIDE DEF a3
  <1>12. /\ a4 \in Seq(Int) /\ Len(a4) = L + F + L + 13
         /\ \A i \in 1 .. L + F + 11 : a4[i] = a3[i]
         /\ \A i \in 1 .. L + 2 : a4[L + F + 11 + i] = D[i]
    <2>1. Joined(a3, L + F + 11, D, L + 2, a4)
      BY <1>1, <1>11, ConcatIs
    <2>2. L + F + 11 + (L + 2) = L + F + L + 13
      BY <1>1
    <2>. HIDE DEF a4
    <2>. QED
      BY <2>1, <2>2 DEF Joined
  <1>. HIDE DEF a4
  <1>13. /\ p.more  => /\ mo \in Seq(Int) /\ Len(mo) = L + 12
                       /\ \A i \in 1 .. 10 : mo[i] = f[i]
                       /\ \A i \in 1 .. L + 2 : mo[10 + i] = D[i]
         /\ ~p.more => mo \in Seq(Int) /\ Len(mo) = 0
    <2>1. Joined(f, 10, D, L + 2, f \o D)
      BY <1>1, <1>4, ConcatIs
    <2>2. 10 + (L + 2) = L + 12
      BY <1>1
    <2>3. CASE p.more
      <3>1. mo = f \o D
        BY <2>3
      <3>. HIDE DEF mo
      <3>. QED
        BY <2>1, <2>2, <2>3, <3>1 DEF Joined
    <2>4. CASE ~p.more
      BY <2>4
    <2>. QED
      BY <2>3, <2>4
  <1>. HIDE DEF mo
  <1>14. /\ a5 \in Seq(Int) /\ Len(a5) = L + F + L + 13 + Len(mo)
         /\ \A i \in 1 .. L + F + L + 13 : a5[i] = a4[i]
         /\ \A i \in 1 .. Len(mo) : a5[L + F + L + 13 + i] = mo[i]
    <2>0. mo \in Seq(Int)
      BY <1>1, <1>13
    <2>1. Joined(a4, L + F + L + 13, mo, Len(mo), a5)
      BY <1>12, <2>0, ConcatIs
    <2>. HIDE DEF a5
    <2>. QED
      BY <2>1 DEF Joined
  <1>. HIDE DEF a5
  <1>15. /\ a6 \in Seq(Int) /\ Len(a6) = L + F + L + 13 + Len(mo) + 4
         /\ \A i \in 1 .. Len(a5) : a6[i] = a5[i]
         /\ \A i \in 1 .. 4 : a6[Len(a5) + i] = t[i]
    <2>1. Joined(a5, Len(a5), t, 4, a6)
      BY <1>5, <1>14, ConcatIs
    <2>. HIDE DEF a6
    <2>. QED
      BY <1>14, <2>1 DEF Joined
  <1>. HIDE DEF a6
  <1>16. Len(a5) \in Nat /\ Len(a5) >= L + F + L + 13 /\ Len(mo) \in Nat
    <2>1. mo \in Seq(Int)
      BY <1>1, <1>13
    <2>2. Len(mo) \in Nat /\ Len(a5) \in Nat
      BY <1>14, <2>1
    <2>3. L + F + L + 13 \in Nat
      BY <1>1
    <2>. QED
      BY <1>14, <2>2, <2>3
  <1>17. \A i \in 1 .. L + F + L + 13 : a6[i] = a4[i]
    <2>. SUFFICES ASSUME NEW i \in 1 .. L + F + L + 13 PROVE a6[i] = a4[i]
      OBVIOUS
    <2>1. i \in 1 .. Len(a5) /\ i \in 1 .. L + F + L + 13
      BY <1>1, <1>16
    <2>. QED
      BY <1>14, <1>15, <2>1
  <1>18. \A i \in 1 .. L + F + 11 : a6[i] = a3[i]
    <2>. SUFFICES ASSUME NEW i \in 1 .. L + F + 11 PROVE a6[i] = a3[i]
      OBVIOUS
    <2>1. i \in 1 .. L + F + L + 13 /\ i \in 1 .. L + F + 11
      BY <1>1
    <2>. QED
      BY <1>12, <1>17, <2>1
  <1>19. \A i \in 1 .. L + F + 9 : a6[i] = a2[i]
    <2>. SUFFICES ASSUME NEW i \in 1 .. L + F + 9 PROVE a6[i] = a2[i]
      OBVIOUS
    <2>1. i \in 1 .. L + F + 11 /\ i \in 1 .. L + 9 + F
      BY <1>1
    <2>. QED
      BY <1>11, <1>18, <2>1
  <1>20. \A i \in 1 .. L + 9 : a6[i] = a1[i]
    <2>. SUFFICES ASSUME NEW i \in 1 .. L + 9 PROVE a6[i] = a1[i]
      OBVIOUS
    <2>1. i \in 1 .. L + F + 9 /\ i \in 1 .. L + 9
      BY <1>1
    <2>. QED
      BY <1>10, <1>19, <2>1
  <1>21. FileAt(p) = L + 9 /\ Until(p) = L + F + L + 13 /\ Sought(p) = IF p.more THEN Until(p) + 2 ELSE Until(p) + 1
    <2>1. FileAt(p) = L + 9
      BY DEF FileAt, L
    <2>2. Until(p) = L + 9 + F + L + 4
      BY <2>1 DEF Until, L, F
    <2>3. L + 9 + F + L + 4 = L + F + L + 13
      BY <1>1
    <2>. QED
      BY <2>1, <2>2, <2>3 DEF Sought
  <1>22. Layout(p, a6)
    <2>1. a6 \in Seq(Int) /\ Len(a6) = IF p.more THEN Sought(p) + L + 14 ELSE Sought(p) + 3
      <3>1. CASE p.more
        <4>1. Len(mo) = L + 12 /\ Sought(p) = L + F + L + 15
          BY <1>1, <1>13, <1>21, <3>1
        <4>. QED
          BY <1>1, <1>15, <3>1, <4>1, SMTT(30)
      <3>2. CASE ~p.more
        <4>1. Len(mo) = 0 /\ Sought(p) = L + F + L + 14
          BY <1>1, <1>13, <1>21, <3>2
        <4>. QED
          BY <1>1, <1>15, <3>2, <4>1
      <3>. QED
        BY <3>1, <3>2
    <2>2. \A i \in 1 .. L + 2 : a6[i] = D[i]
      <3>. SUFFICES ASSUME NEW i \in 1 .. L + 2 PROVE a6[i] = D[i]
        OBVIOUS
      <3>1. i \in 1 .. L + 9
        BY <1>1
      <3>. QED
        BY <1>8, <1>20, <3>1
    <2>3. /\ a6[L + 3] = CR /\ a6[L + 4] = LF /\ a6[L + 5] = HFile /\ a6[L + 6] = CR /\ a6[L + 7] = LF
          /\ a6[L + 8] = CR /\ a6[L + 9] = LF
      <3>1. /\ L + 3 \in 1 .. L + 9 /\ L + 4 \in 1 .. L + 9 /\ L + 5 \in 1 .. L + 9 /\ L + 6 \in 1 .. L + 9
            /\ L + 7 \in 1 .. L + 9 /\ L + 8 \in 1 .. L + 9 /\ L + 9 \in 1 .. L + 9
        BY <1>1
      <3>. QED
        BY <1>9, <1>20, <3>1
    <2>4. \A i \in 1 .. F : a6[FileAt(p) + i] = p.file[i]
      <3>. SUFFICES ASSUME NEW i \in 1 .. F PROVE a6[L + 9 + i] = p.file[i]
        BY <1>21
      <3>1. L + 9 + i \in 1 .. L + F + 9
        BY <1>1
      <3>. QED
        BY <1>10, <1>19, <3>1
    <2>5. a6[FileAt(p) + F + 1] = CR /\ a6[FileAt(p) + F + 2] = LF
      <3>1. L + 9 + F + 1 \in 1 .. L + F + 11 /\ L + 9 + F + 2 \in 1 .. L + F + 11
        BY <1>1
      <3>. QED
        BY <1>11, <1>18, <1>21, <3>1
    <2>6. \A i \in 1 .. L + 2 : a6[FileAt(p) + F + 2 + i] = D[i]
      <3>. SUFFICES ASSUME NEW i \in 1 .. L + 2 PROVE a6[L + 9 + F + 2 + i] = D[i]
        BY <1>21
      <3>1. L + 9 + F + 2 + i = L + F + 11 + i /\ L + F + 11 + i \in 1 .. L + F + L + 13
        BY <1>1
      <3>. QED
        BY <1>12, <1>17, <3>1
    <2>. QED
      BY <2>1, <2>2, <2>3, <2>4, <2>5, <2>6 DEF Layout, L, F, D
  <1>23. Rest(p, a6)
    <2> DEFINE u == Until(p)
    <2>0. u = L + F + L + 13 /\ u \in Nat
      BY <1>1, <1>21
    <2>. HIDE DEF u
    <2>1. CASE p.more
      <3>1. Len(a5) = u + L + 12
        <4>1. Len(mo) = L + 12 /\ Len(a5) = u + Len(mo)
          BY <1>13, <1>14, <2>0, <2>1
        <4>. QED
          BY <1>1, <2>0, <4>1
      <3>2. \A i \in 1 .. L + 12 : a6[u + i] = mo[i]
        <4>. SUFFICES ASSUME NEW i \in 1 .. L + 12 PROVE a6[u + i] = mo[i]
          OBVIOUS
        <4>1. u + i \in 1 .. Len(a5)
          BY <1>1, <2>0, <3>1
        <4>2. a5[u + i] = mo[i]
          BY <1>13, <1>14, <2>0, <2>1
        <4>. QED
          BY <1>15, <4>1, <4>2
      <3>3. \A i \in 1 .. 10 : a6[u + i] = f[i]
        <4>. SUFFICES ASSUME NEW i \in 1 .. 10 PROVE a6[u + i] = f[i]
          OBVIOUS
        <4>1. i \in 1 .. L + 12
          BY <1>1
        <4>. QED
          BY <1>13, <2>1, <3>2, <4>1
      <3>4. \A i \in u + 11 .. u + L + 15 : a6[i] # LF
        <4>. SUFFICES ASSUME NEW i \in u + 11 .. u + L + 15 PROVE a6[i] # LF
          OBVIOUS
        <4>1. CASE i <= u + L + 12
          <5>1. PICK k \in 1 .. L + 2 : i = u + (10 + k) /\ 10 + k \in 1 .. L + 12
            <6>1. i - u - 10 \in 1 .. L + 2 /\ i = u + (10 + (i - u - 10)) /\ 10 + (i - u - 10) \in 1 .. L + 12
              BY <1>1, <2>0, <4>1
            <6>. QED
              BY <6>1
          <5>2. a6[i] = D[k]
            BY <1>13, <2>1, <3>2, <5>1
          <5>. QED
            BY <1>7, <5>2
        <4>2. CASE i > u + L + 12
          <5>1. PICK k \in 1 .. 3 : i = Len(a5) + k
            <6>1. i - (u + L + 12) \in 1 .. 3 /\ i = (u + L + 12) + (i - (u + L + 12))
              BY <1>1, <2>0, <4>2
            <6>. QED
              BY <3>1, <6>1
          <5>2. a6[i] = t[k]
            <6>1. k \in 1 .. 4
              OBVIOUS
            <6>. QED
              BY <1>15, <5>1, <6>1
          <5>3. t[k] # LF
            BY <1>5 DEF DASH, CR, LF
          <5>. QED
            BY <5>2, <5>3
        <4>. QED
          BY <1>1, <2>0, <4>1, <4>2
      <3>. QED
        BY <1>4, <2>1, <3>3, <3>4 DEF Rest, L, u
    <2>2. CASE ~p.more
      <3>1. Len(a5) = u
        BY <1>1, <1>13, <1>14, <2>0, <2>2
      <3>. QED
        BY <1>5, <1>15, <2>2, <3>1 DEF Rest, u
    <2>. QED
      BY <2>1, <2>2
  <1>. QED
    BY <1>6, <1>22, <1>23

------------------------------------------------------------------------------
(* Finding the delimiter *)

\* The lengths, as the proofs below use them.
LEMMA Places ==
  ASSUME NEW p, PostOK(p)
  PROVE  /\ Len(p.boundary) \in Nat /\ Len(p.file) \in Nat /\ p.more \in BOOLEAN
         /\ Len(p.boundary) + 8 < Size /\ Size \in Nat
         /\ FileAt(p) = Len(p.boundary) + 9
         /\ Until(p) = Len(p.boundary) + Len(p.file) + Len(p.boundary) + 13
         /\ p.more => Sought(p) = Until(p) + 2
         /\ ~p.more => Sought(p) = Until(p) + 1
  <1>1. Len(p.boundary) \in Nat /\ Len(p.file) \in Nat
    BY DelimiterIs
  <1>2. p.more \in BOOLEAN /\ Len(p.boundary) + 8 < Size
    BY DEF PostOK
  <1>3. FileAt(p) = Len(p.boundary) + 9 /\ Until(p) = FileAt(p) + Len(p.file) + Len(p.boundary) + 4
    BY DEF FileAt, Until
  <1>4. Until(p) = Len(p.boundary) + Len(p.file) + Len(p.boundary) + 13
    <2>1. PICK L \in Nat, F \in Nat : L = Len(p.boundary) /\ F = Len(p.file)
      BY <1>1
    <2>2. L + 9 + F + L + 4 = L + F + L + 13
      OBVIOUS
    <2>. QED
      BY <1>3, <2>1, <2>2
  <1>. QED
    BY <1>1, <1>2, <1>3, <1>4, SizeNat DEF Sought

\* How these places lie.
LEMMA MorePlaces ==
  ASSUME NEW p, PostOK(p)
  PROVE  /\ Size > 8 /\ Until(p) \in Nat /\ Sought(p) \in Nat
         /\ Until(p) >= FileAt(p) + Len(p.file) + 4
         /\ Sought(p) > Until(p) /\ Sought(p) <= Until(p) + 2
         /\ Sought(p) > Len(p.boundary) + 9
  <1>1. PICK L \in Nat, F \in Nat : L = Len(p.boundary) /\ F = Len(p.file)
    BY Places
  <1>2. FileAt(p) = L + 9 /\ Until(p) = L + F + L + 13 /\ L + 8 < Size /\ Size \in Nat /\ p.more \in BOOLEAN
    BY <1>1, Places
  <1>3. Sought(p) = Until(p) + 1 \/ Sought(p) = Until(p) + 2
    BY <1>2, Places
  <1>4. /\ Size > 8 /\ Until(p) \in Nat /\ Sought(p) \in Nat
        /\ Until(p) >= FileAt(p) + F + 4
        /\ Sought(p) > Until(p) /\ Sought(p) <= Until(p) + 2
        /\ Sought(p) > L + 9
    BY <1>2, <1>3
  <1>. QED
    BY <1>1, <1>4

\* The request goes on after the delimiter.
LEMMA StreamLength ==
  ASSUME NEW p, PostOK(p), NEW s, Layout(p, s)
  PROVE  Len(s) \in Nat /\ Len(s) >= Sought(p) + 3 /\ Len(s) > Len(p.boundary) + 9
  <1>1. PICK L \in Nat : L = Len(p.boundary)
    BY Places
  <1>2. Len(s) = Sought(p) + L + 14 \/ Len(s) = Sought(p) + 3
    BY <1>1 DEF Layout
  <1>3. Sought(p) \in Nat /\ Sought(p) > L + 9
    BY <1>1, MorePlaces
  <1>4. Len(s) \in Nat /\ Len(s) >= Sought(p) + 3 /\ Len(s) > L + 9
    BY <1>2, <1>3
  <1>. QED
    BY <1>1, <1>4

\* The delimiter begins nowhere in the file or in the line end after it.
LEMMA NoMatch ==
  ASSUME NEW p, NEW s, PostOK(p), Layout(p, s),
         NEW x \in FileAt(p) .. FileAt(p) + Len(p.file) + 1
  PROVE  \E k \in 1 .. Len(p.boundary) + 2 : s[x + k] # Delimiter(p)[k]
  <1> DEFINE L == Len(p.boundary)
             F == Len(p.file)
             h == FileAt(p)
  <1>1. L \in Nat /\ F \in Nat /\ h = L + 9
    BY Places
  <1>2. /\ \A i \in 1 .. F : s[h + i] = p.file[i]
        /\ s[h + F + 1] = CR /\ s[h + F + 2] = LF
    BY DEF Layout
  <1>3. \A i \in 1 .. L + 2 : Delimiter(p)[i] \notin {CR, LF}
    BY DelimiterIs
  <1>4. \A i \in 0 .. F - L - 2 : \E k \in 1 .. L + 2 : p.file[i + k] # Delimiter(p)[k]
    BY DEF PostOK
  <1>. HIDE DEF L, F, h
  <1>5. x \in h .. h + F + 1
    BY DEF h, F
  <1>6. CASE x + L + 2 <= h + F
    <2>1. PICK i \in 0 .. F - L - 2 : x = h + i
      <3>1. x - h \in 0 .. F - L - 2 /\ x = h + (x - h)
        BY <1>1, <1>5, <1>6
      <3>. QED
        BY <3>1
    <2>2. PICK k \in 1 .. L + 2 : p.file[i + k] # Delimiter(p)[k]
      BY <1>4
    <2>3. i + k \in 1 .. F /\ x + k = h + (i + k)
      BY <1>1, <2>1
    <2>4. s[x + k] = p.file[i + k]
      BY <1>2, <2>3
    <2>. QED
      BY <2>2, <2>4 DEF L
  <1>7. CASE x + L + 2 > h + F /\ x <= h + F
    <2>1. PICK k \in 1 .. L + 2 : x + k = h + F + 1
      <3>1. h + F + 1 - x \in 1 .. L + 2 /\ x + (h + F + 1 - x) = h + F + 1
        BY <1>1, <1>5, <1>7
      <3>. QED
        BY <3>1
    <2>. QED
      BY <1>2, <1>3, <2>1 DEF L
  <1>8. CASE x = h + F + 1
    <2>1. 1 \in 1 .. L + 2 /\ x + 1 = h + F + 2
      BY <1>1, <1>8
    <2>. QED
      BY <1>2, <1>3, <2>1 DEF L
  <1>. QED
    BY <1>1, <1>5, <1>6, <1>7, <1>8

\* What the buffer holds, by index.
LEMMA HoldsAt ==
  ASSUME NEW q, NEW s, NEW from \in Nat, NEW n \in Nat, Holds(q, s, from, n)
  PROVE  \A j \in 0 .. n - from - 1 : q.acBuf[j] = s[from + j + 1]
  <1>. SUFFICES ASSUME NEW j \in 0 .. n - from - 1 PROVE q.acBuf[j] = s[from + j + 1]
    OBVIOUS
  <1>1. j + 1 \in 1 .. n - from /\ (j + 1) - 1 = j /\ from + (j + 1) = from + j + 1
    OBVIOUS
  <1>. QED
    BY <1>1 DEF Holds

\* Nothing is taken for the delimiter before the end of it has come.
LEMMA NotYet ==
  ASSUME NEW p, NEW s, PostOK(p), Layout(p, s), Rest(p, s), NEW q, q.acBoundary = p.boundary,
         NEW from \in Nat, NEW n \in Nat, FileAt(p) <= from, from <= n, n < Sought(p),
         Holds(q, s, from, n)
  PROVE  MPTestBoundary(q) = NULL
  <1> DEFINE L == Len(p.boundary)
             F == Len(p.file)
             one == q.end - 2
             stop == IF one >= 0 /\ q.acBuf[one] = CR THEN one - 1 ELSE one
             start == stop + 1 - L
  <1>1. L \in Nat /\ F \in Nat /\ FileAt(p) = L + 9 /\ Until(p) = L + F + L + 13 /\ p.more \in BOOLEAN
    BY Places
  <1>2. q.end = n - from
    BY DEF Holds
  <1>. SUFFICES ASSUME MPTestBoundary(q) # NULL PROVE FALSE
    OBVIOUS
  <1>3. /\ start >= 2 /\ q.acBuf[q.end - 1] \in {LF, DASH}
        /\ \A i \in 1 .. L : q.acBuf[start + i - 1] = p.boundary[i]
        /\ q.acBuf[start - 1] = DASH /\ q.acBuf[start - 2] = DASH
    BY DEF MPTestBoundary
  <1>4. stop \in Int /\ stop <= q.end - 2 /\ start \in Int /\ q.end \in Int
    BY <1>1, <1>2
  <1>5. stop = start + L - 1
    BY <1>1, <1>4, SMTT(30)
  <1>. HIDE DEF stop, start, L, F
  <1>6. \A j \in 0 .. n - from - 1 : q.acBuf[j] = s[from + j + 1]
    BY HoldsAt
  <1>7. PICK x \in Nat : x = from + start - 2
    BY <1>3, <1>4
  <1>8. \A k \in 1 .. L + 2 : s[x + k] = Delimiter(p)[k]
    <2>. SUFFICES ASSUME NEW k \in 1 .. L + 2 PROVE s[x + k] = Delimiter(p)[k]
      OBVIOUS
    <2>1. PICK j \in 0 .. n - from - 1 : j = start + k - 3 /\ from + j + 1 = x + k
      <3>1. start + k - 3 \in 0 .. n - from - 1 /\ from + (start + k - 3) + 1 = x + k
        BY <1>1, <1>2, <1>3, <1>4, <1>5, <1>7
      <3>. QED
        BY <3>1
    <2>2. s[x + k] = q.acBuf[j]
      BY <1>6, <2>1
    <2>3. CASE k = 1
      <3>1. j = start - 2
        BY <1>4, <2>1, <2>3
      <3>. QED
        BY <1>3, <2>2, <2>3, <3>1, DelimiterIs
    <2>4. CASE k = 2
      <3>1. j = start - 1
        BY <1>4, <2>1, <2>4
      <3>. QED
        BY <1>3, <2>2, <2>4, <3>1, DelimiterIs
    <2>5. CASE k \notin {1, 2}
      <3>1. PICK i \in 1 .. L : k = i + 2 /\ j = start + i - 1
        <4>1. k - 2 \in 1 .. L /\ k = (k - 2) + 2 /\ j = start + (k - 2) - 1
          BY <1>1, <1>4, <2>1, <2>5
        <4>. QED
          BY <4>1
      <3>2. q.acBuf[j] = p.boundary[i]
        BY <1>3, <3>1
      <3>3. Delimiter(p)[k] = p.boundary[i]
        BY <3>1, DelimiterIs DEF L
      <3>. QED
        BY <2>2, <3>2, <3>3
    <2>. QED
      BY <2>3, <2>4, <2>5
  <1>9. x >= FileAt(p) + F + 2
    <2>1. x \notin FileAt(p) .. FileAt(p) + F + 1
      BY <1>8, NoMatch DEF L, F
    <2>. QED
      BY <1>1, <1>3, <1>4, <1>7, <2>1
  <1>10. n >= Until(p) + 1
    BY <1>1, <1>2, <1>4, <1>5, <1>7, <1>9
  <1>11. p.more /\ n = Until(p) + 1
    <2>1. Until(p) \in Nat
      BY <1>1
    <2>2. CASE p.more
      <3>1. Sought(p) = Until(p) + 2
        BY <2>2, Places
      <3>. QED
        BY <1>10, <2>1, <2>2, <3>1
    <2>3. CASE ~p.more
      <3>1. Sought(p) = Until(p) + 1
        BY <2>3, Places
      <3>. QED
        BY <1>10, <2>1, <3>1
    <2>. QED
      BY <2>2, <2>3
  <1>12. s[n] = CR
    BY <1>11 DEF Rest
  <1>13. q.acBuf[q.end - 1] = s[n]
    <2>1. q.end - 1 \in 0 .. n - from - 1 /\ from + (q.end - 1) + 1 = n
      BY <1>1, <1>2, <1>3, <1>4, <1>5
    <2>. QED
      BY <1>6, <2>1
  <1>. QED
    BY <1>3, <1>12, <1>13 DEF CR, LF, DASH

\* The delimiter after the file is found, if no write has split it.
LEMMA Found ==
  ASSUME NEW p, NEW s, PostOK(p), Layout(p, s), Rest(p, s), NEW q, q.acBoundary = p.boundary,
         NEW w \in Nat, NEW n \in Nat, w <= Len(p.file) + 2, n = Sought(p),
         Holds(q, s, FileAt(p) + w, n)
  PROVE  /\ MPTestBoundary(q) = Len(p.file) + 2 - w
         /\ CutLine(q, Len(p.file) + 2 - w) \in Nat
         /\ w + CutLine(q, Len(p.file) + 2 - w) \in Len(p.file) .. Len(p.file) + 2
         /\ CutLine(q, Len(p.file) + 2 - w) < q.end
  <1> DEFINE L == Len(p.boundary)
             F == Len(p.file)
             from == FileAt(p) + w
             one == q.end - 2
             stop == IF one >= 0 /\ q.acBuf[one] = CR THEN one - 1 ELSE one
             start == stop + 1 - L
             pc == F + 2 - w
  <1>1. L \in Nat /\ F \in Nat /\ FileAt(p) = L + 9 /\ Until(p) = L + F + L + 13 /\ p.more \in BOOLEAN
    BY Places
  <1>0. Holds(q, s, from, n) /\ w <= F + 2
    OBVIOUS
  <1>. HIDE DEF L, F
  <1>4. pc \in Nat /\ from + pc = FileAt(p) + F + 2 /\ from \in Nat
    <2>1. w <= F + 2
      BY <1>0
    <2>2. PICK h \in Nat : h = FileAt(p)
      BY <1>1
    <2>3. pc \in Nat
      BY <1>1, <2>1
    <2>4. h + w \in Nat /\ (h + w) + (F + 2 - w) = h + F + 2
      BY <1>1
    <2>. QED
      BY <2>2, <2>3, <2>4
  <1>. HIDE DEF from, pc
  <1>2. q.end = n - from /\ from \in Nat
    BY <1>0, <1>4 DEF Holds
  <1>3. \A j \in 0 .. n - from - 1 : q.acBuf[j] = s[from + j + 1]
    <2>1. Holds(q, s, from, n)
      BY <1>0
    <2>2. from \in Nat
      BY <1>4
    <2>3. ASSUME NEW j \in 0 .. n - from - 1 PROVE q.acBuf[j] = s[from + j + 1]
      <3>1. j + 1 \in 1 .. n - from /\ (j + 1) - 1 = j /\ from + (j + 1) = from + j + 1
        BY <2>2
      <3>. QED
        BY <2>1, <3>1 DEF Holds
    <2>. QED
      BY <2>3
  <1>5. /\ s[FileAt(p) + F + 1] = CR /\ s[FileAt(p) + F + 2] = LF
        /\ \A i \in 1 .. L + 2 : s[FileAt(p) + F + 2 + i] = Delimiter(p)[i]
    BY DEF Layout, L, F
  <1>6. Until(p) = from + pc + L + 2 /\ (p.more => n = Until(p) + 2) /\ (~p.more => n = Until(p) + 1)
    <2>1. Until(p) = from + pc + L + 2
      BY <1>1, <1>4, SMTT(30)
    <2>2. (p.more => n = Until(p) + 2) /\ (~p.more => n = Until(p) + 1)
      BY Places
    <2>. QED
      BY <2>1, <2>2
  <1>7. \A k \in 1 .. L + 2 : q.acBuf[pc + k - 1] = Delimiter(p)[k]
    <2>. SUFFICES ASSUME NEW k \in 1 .. L + 2 PROVE q.acBuf[pc + k - 1] = Delimiter(p)[k]
      OBVIOUS
    <2>1. PICK j \in 0 .. n - from - 1 : j = pc + k - 1 /\ from + j + 1 = FileAt(p) + F + 2 + k
      <3>1. pc + k - 1 \in 0 .. n - from - 1 /\ from + (pc + k - 1) + 1 = FileAt(p) + F + 2 + k
        BY <1>1, <1>2, <1>4, <1>6
      <3>. QED
        BY <3>1
    <2>. QED
      BY <1>3, <1>5, <2>1
  <1>8. stop = pc + L + 1 /\ q.acBuf[q.end - 1] \in {LF, DASH}
    <2>1. CASE p.more
      <3>1. q.end = pc + L + 4
        BY <1>1, <1>2, <1>4, <1>6, <2>1
      <3>2. s[Until(p) + 1] = CR /\ s[Until(p) + 2] = LF
        BY <2>1 DEF Rest
      <3>0. n = Until(p) + 2 /\ Until(p) = from + pc + L + 2 /\ q.end = n - from
        BY <1>2, <1>6, <2>1
      <3>3. one \in 0 .. n - from - 1 /\ from + one + 1 = Until(p) + 1
        BY <1>1, <1>4, <3>0
      <3>4. q.acBuf[one] = CR
        BY <1>3, <3>2, <3>3
      <3>5. q.end - 1 \in 0 .. n - from - 1 /\ from + (q.end - 1) + 1 = Until(p) + 2
        BY <1>1, <1>4, <3>0
      <3>6. q.acBuf[q.end - 1] = LF
        BY <1>3, <3>2, <3>5
      <3>. QED
        BY <1>1, <1>4, <3>1, <3>3, <3>4, <3>6
    <2>2. CASE ~p.more
      <3>1. q.end = pc + L + 3
        BY <1>1, <1>2, <1>4, <1>6, <2>2, SMTT(30)
      <3>2. s[Until(p) + 1] = DASH
        BY <2>2 DEF Rest
      <3>3. one = pc + (L + 2) - 1 /\ L + 2 \in 1 .. L + 2
        <4>1. pc + L + 3 - 2 = pc + (L + 2) - 1 /\ L + 2 \in 1 .. L + 2
          <5>1. pc \in Nat
            BY <1>4
          <5>2. L \in Nat
            BY <1>1
          <5>. QED
            BY <5>1, <5>2
        <4>. QED
          BY <1>1, <1>4, <3>1, <4>1, SMTT(30)
      <3>4. q.acBuf[one] # CR
        <4>1. Delimiter(p)[L + 2] \notin {CR, LF}
          BY <3>3, DelimiterIs DEF L
        <4>. QED
          BY <1>7, <3>3, <4>1
      <3>0. n = Until(p) + 1 /\ Until(p) = from + pc + L + 2 /\ q.end = n - from
        BY <1>2, <1>6, <2>2
      <3>5. q.end - 1 \in 0 .. n - from - 1 /\ from + (q.end - 1) + 1 = Until(p) + 1
        BY <1>1, <1>4, <3>0
      <3>6. q.acBuf[q.end - 1] = DASH
        BY <1>3, <3>2, <3>5
      <3>. QED
        BY <1>1, <1>4, <3>1, <3>3, <3>4, <3>6
    <2>. QED
      BY <1>1, <2>1, <2>2
  <1>9. start = pc + 2
    BY <1>1, <1>4, <1>8
  <1>10. MPTestBoundary(q) = pc
    <2>. HIDE DEF stop
    <2>1. start - 2 = pc /\ start - 1 = pc + 1 /\ start >= 2
      BY <1>4, <1>9
    <2>2. q.acBuf[pc] = DASH /\ q.acBuf[pc + 1] = DASH
      <3>1. 1 \in 1 .. L + 2 /\ 2 \in 1 .. L + 2 /\ pc + 1 - 1 = pc /\ pc + 2 - 1 = pc + 1
        BY <1>1, <1>4
      <3>. QED
        BY <1>7, <3>1, DelimiterIs
    <2>3. \A i \in 1 .. L : q.acBuf[start + i - 1] = p.boundary[i]
      <3>. SUFFICES ASSUME NEW i \in 1 .. L PROVE q.acBuf[start + i - 1] = p.boundary[i]
        OBVIOUS
      <3>1. i + 2 \in 1 .. L + 2 /\ start + i - 1 = pc + (i + 2) - 1
        BY <1>1, <1>4, <1>9
      <3>2. Delimiter(p)[i + 2] = p.boundary[i]
        BY DelimiterIs DEF L
      <3>. QED
        BY <1>7, <3>1, <3>2
    <2>. HIDE DEF start
    <2>. QED
      BY <1>8, <2>1, <2>2, <2>3 DEF MPTestBoundary, L, start, stop
  <1>11. CutLine(q, pc) = IF pc > 1 THEN pc - 2 ELSE 0
    <2>1. pc > 0 => q.acBuf[pc - 1] = LF
      <3>1. pc > 0 => pc - 1 \in 0 .. n - from - 1 /\ from + (pc - 1) + 1 = FileAt(p) + F + 2
        BY <1>1, <1>2, <1>4, <1>6
      <3>. QED
        BY <1>3, <1>5, <3>1
    <2>2. pc > 1 => q.acBuf[pc - 2] = CR
      <3>1. pc > 1 => pc - 2 \in 0 .. n - from - 1 /\ from + (pc - 2) + 1 = FileAt(p) + F + 1
        BY <1>1, <1>2, <1>4, <1>6
      <3>. QED
        BY <1>3, <1>5, <3>1
    <2>. QED
      BY <1>4, <2>1, <2>2 DEF CutLine
  <1>12. pc = F + 2 - w /\ pc < q.end
    BY <1>1, <1>2, <1>4, <1>6 DEF pc
  <1>. QED
    BY <1>1, <1>2, <1>4, <1>10, <1>11, <1>12, SMTT(30) DEF pc, F

------------------------------------------------------------------------------
(* The operations on the ring *)

\* The fields of a parser's state.
LEMMA PartIs ==
  ASSUME NEW q \in Parts
  PROVE  /\ q.iState \in PartStates /\ q.pfFlashTmpFile \in Nat /\ q.acBoundary \in Seq(Int)
         /\ q.acBuf \in Ring /\ q.header \in Indices /\ q.end \in Indices
  BY DEF Parts

\* All but the ring is as it was.
SamePart(q, a) ==
    a.iState = q.iState /\ a.pfFlashTmpFile = q.pfFlashTmpFile /\ a.acBoundary = q.acBoundary

AddedTo(q, ch, a) ==
    /\ a \in Parts /\ SamePart(q, a)
    /\ a.header # a.end
    /\ a.acBuf = [q.acBuf EXCEPT ![q.end] = ch]
    /\ q.header = 0 /\ q.end + 1 < Size => a.header = 0 /\ a.end = q.end + 1

\* MPAddChar adds a byte, and drops the oldest one only from a full ring.
LEMMA AddIs ==
  ASSUME NEW q \in Parts, NEW ch \in Int, q.header # 0 => q.header # q.end, Size > 2
  PROVE  AddedTo(q, ch, MPAddChar(q, ch))
  <1> DEFINE a == MPAddChar(q, ch)
  <1>1. q.acBuf \in Ring /\ q.header \in Indices /\ q.end \in Indices
    BY PartIs
  <1>2. Step(q.end) \in Indices /\ Step(q.header) \in Indices
    BY <1>1, SizeNat DEF Step, Indices
  <1>3. /\ a.acBuf = [q.acBuf EXCEPT ![q.end] = ch]
        /\ a.end = Step(q.end)
        /\ a.header = IF Step(q.end) = q.header THEN Step(q.header) ELSE q.header
        /\ SamePart(q, a)
    BY DEF MPAddChar, SamePart, Parts
  <1>4. a.acBuf \in Ring
    BY <1>1, <1>3 DEF Ring
  <1>5. a \in Parts
    <2>1. a.header \in Indices
      BY <1>1, <1>2, <1>3
    <2>. QED
      BY <1>2, <1>3, <1>4, <2>1 DEF MPAddChar, Parts
  <1>6. a.header # a.end
    BY <1>1, <1>2, <1>3, SizeNat DEF Step, Indices
  <1>7. q.header = 0 /\ q.end + 1 < Size => a.header = 0 /\ a.end = q.end + 1
    BY <1>1, <1>3, SizeNat DEF Step, Indices
  <1>. QED
    BY <1>3, <1>5, <1>6, <1>7 DEF AddedTo

\* A byte that follows what the buffer holds.
LEMMA AddHolds ==
  ASSUME NEW q \in Parts, NEW a, NEW s, NEW from \in Nat, NEW n \in Nat, from <= n, Holds(q, s, from, n),
         n + 1 - from < Size, AddedTo(q, s[n + 1], a)
  PROVE  Holds(a, s, from, n + 1)
  <1>1. q.acBuf \in Ring /\ q.end \in Indices /\ Size \in Nat
    BY PartIs, SizeNat
  <1>2. q.header = 0 /\ q.end = n - from /\ \A k \in 1 .. n - from : q.acBuf[k - 1] = s[from + k]
    BY DEF Holds
  <1>3. a.acBuf = [q.acBuf EXCEPT ![q.end] = s[n + 1]] /\ a.header = 0 /\ a.end = q.end + 1
    BY <1>1, <1>2 DEF AddedTo
  <1>4. ASSUME NEW k \in 1 .. n + 1 - from PROVE a.acBuf[k - 1] = s[from + k]
    <2>0. k - 1 \in Indices
      BY <1>1 DEF Indices
    <2>1. CASE k = n + 1 - from
      <3>1. k - 1 = q.end /\ from + k = n + 1
        BY <1>2, <2>1
      <3>. QED
        BY <1>1, <1>3, <2>0, <3>1 DEF Ring
    <2>2. CASE k # n + 1 - from
      <3>1. k \in 1 .. n - from /\ k - 1 # q.end
        BY <1>2, <2>2
      <3>. QED
        BY <1>1, <1>2, <1>3, <2>0, <3>1 DEF Ring
    <2>. QED
      BY <2>1, <2>2
  <1>5. a.end = (n + 1) - from
    BY <1>2, <1>3
  <1>. QED
    BY <1>3, <1>4, <1>5 DEF Holds

CleanedTo(q, c) ==
    /\ c \in Parts /\ SamePart(q, c) /\ c.header = 0
    /\ q.header = 0 => c = q
    /\ q.header # 0 /\ q.header < q.end => c.end = q.end - q.header
    /\ q.header # 0 => \A k \in Indices : c.acBuf[k] = q.acBuf[Further(k, q.header)]

\* MPClean brings the data to the start of the buffer.
LEMMA CleanIs ==
  ASSUME NEW q \in Parts, q.header # q.end, Size > 2
  PROVE  CleanedTo(q, MPClean(q))
  <1>1. q.acBuf \in Ring /\ q.header \in Indices /\ q.end \in Indices /\ Size \in Nat
    BY PartIs, SizeNat
  <1>2. q.header % Size = 0 <=> q.header = 0
    BY <1>1 DEF Indices
  <1>3. CASE q.header = 0
    <2>1. MPClean(q) = q
      BY <1>2, <1>3 DEF MPClean
    <2>. QED
      BY <1>3, <2>1 DEF CleanedTo, SamePart
  <1>4. CASE q.header # 0
    <2> DEFINE n == q.end + Size - q.header
               len == IF n > Size THEN n - Size ELSE n
               c == MPClean(q)
    <2>0. q.header \in 1 .. Size - 1
      BY <1>1, <1>4 DEF Indices
    <2>1. len \in Indices /\ (q.header < q.end => len = q.end - q.header)
      BY <1>1, <2>0 DEF Indices
    <2>2. Rotate(q.acBuf, q.header) \in Ring
          /\ \A k \in Indices : Rotate(q.acBuf, q.header)[k] = q.acBuf[Further(k, q.header)]
      BY <1>1, <2>0, RotateIs
    <2>3. c = [q EXCEPT !.acBuf = Rotate(q.acBuf, q.header), !.header = 0, !.end = len]
      BY <1>2, <1>4 DEF MPClean
    <2>. HIDE DEF len, c
    <2>4. 0 \in Indices
      BY <1>1, <2>0 DEF Indices
    <2>5. c \in Parts /\ c.acBuf = Rotate(q.acBuf, q.header) /\ c.header = 0 /\ c.end = len /\ SamePart(q, c)
      BY <2>1, <2>2, <2>3, <2>4 DEF Parts, SamePart
    <2>6. CleanedTo(q, c)
      BY <1>4, <2>1, <2>2, <2>5 DEF CleanedTo
    <2>. QED
      BY <2>6 DEF c
  <1>. QED
    BY <1>3, <1>4

\* A change of state keeps the rest.
LEMMA ToIs ==
  ASSUME NEW q \in Parts, NEW st \in PartStates
  PROVE  /\ To(q, st) \in Parts /\ To(q, st).iState = st
         /\ To(q, st).pfFlashTmpFile = q.pfFlashTmpFile /\ To(q, st).acBoundary = q.acBoundary
         /\ To(q, st).acBuf = q.acBuf /\ To(q, st).header = q.header /\ To(q, st).end = q.end
  BY DEF To, Parts

\* MPClear keeps all but the data.
LEMMA ClearIs ==
  ASSUME NEW q \in Parts, Size > 2
  PROVE  /\ MPClear(q) \in Parts /\ SamePart(q, MPClear(q)) /\ MPClear(q).acBuf = q.acBuf
         /\ MPClear(q).header = 0 /\ MPClear(q).end = 0
  <1>1. 0 \in Indices
    BY SizeNat DEF Indices
  <1>. QED
    BY <1>1 DEF MPClear, Parts, SamePart

Naming(q) == LET held == {q.acBuf[i] : i \in q.header .. q.end - 1}
             IN  IF HFile \in held THEN "BODYFILE" ELSE IF HParam \in held THEN "BODYPARAM" ELSE "IGNORE"

\* The header of a part decides what its body is.
LEMMA PartNamedIs ==
  ASSUME NEW q \in Parts, Size > 2
  PROVE  /\ PartNamed(q) = To(MPClear(q), Naming(q)) /\ Naming(q) \in PartStates
         /\ PartNamed(q) \in Parts /\ PartNamed(q).iState = Naming(q)
         /\ PartNamed(q).pfFlashTmpFile = q.pfFlashTmpFile /\ PartNamed(q).acBoundary = q.acBoundary
         /\ PartNamed(q).header = 0 /\ PartNamed(q).end = 0
  <1>1. Naming(q) \in PartStates
    BY DEF Naming, PartStates
  <1>2. PartNamed(q) = To(MPClear(q), Naming(q))
    BY DEF PartNamed, To, Naming
  <1>3. MPClear(q) \in Parts /\ SamePart(q, MPClear(q)) /\ MPClear(q).header = 0 /\ MPClear(q).end = 0
    BY ClearIs
  <1>. QED
    BY <1>1, <1>2, <1>3, ToIs DEF SamePart

\* The parser outside the file: a file begins with an empty buffer.
Parsing(q, c) ==
    /\ c \in Parts /\ c.pfFlashTmpFile = q.pfFlashTmpFile /\ c.acBoundary = q.acBoundary
    /\ c.header # 0 => c.header # c.end
    /\ c.iState = "BODYFILE" => c.header = 0 /\ c.end = 0

\* Outside the file the parser writes nothing.
LEMMA LineIs ==
  ASSUME NEW q \in Parts, q.header # q.end, q.iState # "BODYFILE", Size > 2, NEW ch
  PROVE  Parsing(q, Line(q, ch))
  <1> DEFINE c == MPClean(q)
             m == MPClear(c)
  <1>1. c \in Parts /\ SamePart(q, c) /\ c.header = 0
    BY CleanIs DEF CleanedTo
  <1>2. m \in Parts /\ SamePart(c, m) /\ m.header = 0 /\ m.end = 0
    BY <1>1, ClearIs
  <1>. HIDE DEF c, m
  <1>3. Parsing(q, q) /\ Parsing(q, c)
    BY <1>1 DEF Parsing, SamePart
  <1>4. ASSUME NEW st \in PartStates, st # "BODYFILE"
        PROVE  Parsing(q, To(q, st)) /\ Parsing(q, To(c, st)) /\ Parsing(q, To(m, st))
    <2>1. Parsing(q, To(q, st))
      BY <1>4, ToIs DEF Parsing
    <2>2. Parsing(q, To(c, st))
      BY <1>1, <1>4, ToIs DEF Parsing, SamePart
    <2>3. Parsing(q, To(m, st))
      BY <1>1, <1>2, <1>4, ToIs DEF Parsing, SamePart
    <2>. QED
      BY <2>1, <2>2, <2>3
  <1>5. Parsing(q, PartNamed(c))
    BY <1>1, PartNamedIs DEF Parsing, SamePart
  <1>6. \A st \in {"HEADER", "ONE_CR", "TWO_LF"} : st \in PartStates /\ st # "BODYFILE"
    BY DEF PartStates
  <1>7. q.iState \in PartStates
    BY PartIs
  <1>8. CASE q.iState = "IGNORE"
    <2>1. Line(q, ch) = IF ch # LF THEN q ELSE IF MPTestBoundary(c) # NULL THEN To(m, "HEADER") ELSE c
      BY <1>8 DEF Line, c, m
    <2>. QED
      BY <1>3, <1>4, <1>6, <2>1
  <1>9. CASE q.iState = "HEADER"
    <2>1. Line(q, ch) = IF ch # LF THEN q ELSE IF MPTestBoundary(c) = NULL THEN To(c, "ONE_CR") ELSE c
      BY <1>9 DEF Line, c
    <2>. QED
      BY <1>3, <1>4, <1>6, <2>1
  <1>10. CASE q.iState = "ONE_CR"
    <2>1. Line(q, ch) = IF ch = CR THEN To(q, "TWO_LF") ELSE IF ch = LF THEN PartNamed(c) ELSE To(q, "HEADER")
      BY <1>10 DEF Line, c, CR, LF
    <2>. QED
      BY <1>4, <1>5, <1>6, <2>1
  <1>11. CASE q.iState = "TWO_LF"
    <2>1. Line(q, ch) = IF ch = LF THEN PartNamed(c) ELSE To(q, "HEADER")
      BY <1>11 DEF Line, c
    <2>. QED
      BY <1>4, <1>5, <1>6, <2>1
  <1>12. CASE q.iState = "BODYPARAM"
    <2>1. Line(q, ch) = IF MPTestBoundary(c) # NULL THEN To(m, "HEADER") ELSE c
      BY <1>12 DEF Line, c, m
    <2>. QED
      BY <1>3, <1>4, <1>6, <2>1
  <1>. QED
    BY <1>7, <1>8, <1>9, <1>10, <1>11, <1>12 DEF PartStates

\* The first n bytes of a full buffer are gone, and the rest is at its start.
Shifted(a, n, c) ==
    /\ c \in Parts /\ SamePart(a, c) /\ c.header = 0 /\ c.end = Size - 1 - n
    /\ \A k \in 0 .. Size - 2 - n : c.acBuf[k] = a.acBuf[k + n]

\* MPTestWriteFlash keeps the delimiter's length and what is missing to a word.
LEMMA FlushIs ==
  ASSUME NEW a \in Parts, a.header = 0, a.end + 1 = Size, Len(a.acBoundary) + 8 < Size
  PROVE  LET kept == Size - 1 - Len(a.acBoundary) - 2
         IN  /\ Flushed(a) \in 1 .. Size - 3
             /\ kept % 4 \in 0 .. 3 /\ Flushed(a) = kept - (kept % 4)
             /\ Shifted(a, Flushed(a), MPClean([a EXCEPT !.header = Flushed(a)]))
  <1> DEFINE L == Len(a.acBoundary)
             z == Size - 1 - L - 2
             n == Flushed(a)
             b == [a EXCEPT !.header = n]
             c == MPClean(b)
  <1>0. a.acBoundary \in Seq(Int)
    BY PartIs
  <1>1. L \in Nat /\ Size \in Nat /\ L + 8 < Size /\ a.end = Size - 1
    <2>1. L \in Nat
      BY <1>0
    <2>2. a.end \in Indices
      BY PartIs
    <2>. HIDE DEF L
    <2>. QED
      BY <2>1, <2>2, SizeNat DEF Indices, L
  <1>2. n = (z \div 4) * 4
    <2>1. Flushed(a) = ((a.end - a.header - L - 2) \div 4) * 4
      BY DEF Flushed
    <2>2. a.end - a.header - L - 2 = z
      <3>. HIDE DEF L
      <3>. QED
        BY <1>1
    <2>. QED
      BY <2>1, <2>2
  <1>. HIDE DEF L
  <1>3. z \in Nat /\ z >= 6 /\ z <= Size - 3
    BY <1>1
  <1>4. z % 4 \in 0 .. 3 /\ n = z - (z % 4)
    <2>. HIDE DEF z, n
    <2>1. z % 4 \in 0 .. 3 /\ z = 4 * (z \div 4) + (z % 4) /\ z \div 4 \in Int
      BY <1>3
    <2>. QED
      BY <1>2, <1>3, <2>1
  <1>5. n \in 1 .. Size - 3
    <2>. HIDE DEF z, n
    <2>. QED
      BY <1>1, <1>3, <1>4
  <1>. HIDE DEF n
  <1>6. b \in Parts /\ SamePart(a, b) /\ b.header = n /\ b.end = Size - 1 /\ b.acBuf = a.acBuf
    <2>1. n \in Indices
      BY <1>1, <1>5 DEF Indices
    <2>. QED
      BY <1>1, <2>1 DEF Parts, SamePart
  <1>. HIDE DEF b
  <1>7. CleanedTo(b, c)
    BY <1>1, <1>5, <1>6, CleanIs
  <1>8. ASSUME NEW k \in 0 .. Size - 2 - n PROVE c.acBuf[k] = a.acBuf[k + n]
    <2>1. k \in Indices /\ Further(k, n) = k + n
      BY <1>1, <1>5 DEF Indices, Further
    <2>. QED
      BY <1>5, <1>6, <1>7, <2>1 DEF CleanedTo
  <1>9. b.header # 0 /\ b.header < b.end /\ b.end - b.header = Size - 1 - n
    BY <1>1, <1>5, <1>6
  <1>10. Shifted(a, n, c)
    <2>1. c \in Parts /\ SamePart(b, c) /\ c.header = 0 /\ c.end = Size - 1 - n
      BY <1>7, <1>9 DEF CleanedTo
    <2>2. SamePart(a, c)
      BY <1>6, <2>1 DEF SamePart
    <2>. QED
      BY <1>8, <2>1, <2>2 DEF Shifted
  <1>. QED
    BY <1>4, <1>5, <1>10 DEF n, z, b, L

------------------------------------------------------------------------------
(* One byte *)

\* What a written buffer becomes.
WrittenAs(n, a, c, q2) ==
    /\ q2 = [c EXCEPT !.pfFlashTmpFile = @ + n]
    /\ flash' = usiMyWrite(a, n)
    /\ dirty' = TRUE
    /\ mixed' = (mixed \/ reader.addr # 0)

\* The cases of ProcessUpdate: a is the part with the byte added, q2 what it becomes.
Taken(a, ch, q2) ==
    \/ a.iState # "BODYFILE" /\ q2 = Line(a, ch) /\ UNCHANGED <<flash, dirty, mixed>>
    \/ /\ a.iState = "BODYFILE" /\ MPTestBoundary(a) # NULL
       /\ WrittenAs(CutLine(a, MPTestBoundary(a)), a, To(MPClear(a), "HEADER"), q2)
    \/ /\ a.iState = "BODYFILE" /\ MPTestBoundary(a) = NULL /\ a.end + 1 = Size
       /\ WrittenAs(Flushed(a), a, MPClean([a EXCEPT !.header = Flushed(a)]), q2)
    \/ /\ a.iState = "BODYFILE" /\ MPTestBoundary(a) = NULL /\ a.end + 1 # Size
       /\ q2 = a /\ UNCHANGED <<flash, dirty, mixed>>

\* ProcessUpdate does one of four things.
LEMMA ByteIs ==
  ASSUME NEW r \in Req, ProcessUpdate(r)
  PROVE  \E q2 : /\ part' = [part EXCEPT ![r] = q2]
                 /\ Taken(MPAddChar(part[r], Stream(post[r])[pos[r] + 1]), Stream(post[r])[pos[r] + 1], q2)
  <1> DEFINE ch == Stream(post[r])[pos[r] + 1]
             a == MPAddChar(part[r], ch)
             pc == MPTestBoundary(a)
  <1>1. \/ a.iState # "BODYFILE" /\ Parsed(r, Line(a, ch)) /\ UNCHANGED <<flash, dirty, mixed>>
        \/ a.iState = "BODYFILE" /\ pc # NULL /\ Written(r, CutLine(a, pc), a, To(MPClear(a), "HEADER"))
        \/ /\ a.iState = "BODYFILE" /\ pc = NULL /\ a.end + 1 = Size
           /\ Written(r, Flushed(a), a, MPClean([a EXCEPT !.header = Flushed(a)]))
        \/ /\ a.iState = "BODYFILE" /\ pc = NULL /\ a.end + 1 # Size
           /\ Parsed(r, a) /\ UNCHANGED <<flash, dirty, mixed>>
    BY DEF ProcessUpdate
  <1>. HIDE DEF a, ch
  <1>2. CASE a.iState # "BODYFILE" /\ Parsed(r, Line(a, ch)) /\ UNCHANGED <<flash, dirty, mixed>>
    BY <1>2 DEF Parsed, Taken, a, ch
  <1>3. CASE a.iState = "BODYFILE" /\ pc # NULL /\ Written(r, CutLine(a, pc), a, To(MPClear(a), "HEADER"))
    BY <1>3 DEF Parsed, Written, WrittenAs, Taken, a, ch
  <1>4. CASE /\ a.iState = "BODYFILE" /\ pc = NULL /\ a.end + 1 = Size
             /\ Written(r, Flushed(a), a, MPClean([a EXCEPT !.header = Flushed(a)]))
    BY <1>4 DEF Parsed, Written, WrittenAs, Taken, a, ch
  <1>5. CASE /\ a.iState = "BODYFILE" /\ pc = NULL /\ a.end + 1 # Size
             /\ Parsed(r, a) /\ UNCHANGED <<flash, dirty, mixed>>
    BY <1>5 DEF Parsed, Taken, a, ch
  <1>. QED
    BY <1>1, <1>2, <1>3, <1>4, <1>5

Cells == Base .. MaxAddr

\* A write changes the bytes from pfFlashTmpFile on, and none before.
LEMMA WriteIs ==
  ASSUME NEW a \in Parts, NEW n \in 0 .. Size - 1, flash \in [Cells -> Int], Base \in Nat, MaxAddr \in Nat
  PROVE  /\ usiMyWrite(a, n) \in [Cells -> Int]
         /\ \A x \in Cells : x < a.pfFlashTmpFile => usiMyWrite(a, n)[x] = flash[x]
         /\ \A x \in Cells : x >= a.pfFlashTmpFile /\ x < a.pfFlashTmpFile + n =>
               usiMyWrite(a, n)[x] = a.acBuf[x - a.pfFlashTmpFile]
  <1>1. a.pfFlashTmpFile \in Nat /\ a.acBuf \in Ring /\ Size \in Nat
    BY PartIs, SizeNat
  <1> DEFINE lo == a.pfFlashTmpFile
             f == usiMyWrite(a, n)
  <1>2. f = [x \in Cells |-> IF x \in lo .. lo + n - 1 THEN a.acBuf[x - lo] ELSE flash[x]]
    BY DEF usiMyWrite
  <1>. HIDE DEF lo, f
  <1>3. lo \in Nat
    BY <1>1 DEF lo
  <1>4. ASSUME NEW x \in Cells
        PROVE  /\ f[x] \in Int
               /\ x < lo => f[x] = flash[x]
               /\ x >= lo /\ x < lo + n => f[x] = a.acBuf[x - lo]
    <2>0. x \in Int
      BY DEF Cells
    <2>1. CASE x \in lo .. lo + n - 1
      <3>1. x - lo \in Indices
        BY <1>1, <1>3, <2>1 DEF Indices
      <3>2. a.acBuf[x - lo] \in Int
        BY <1>1, <3>1 DEF Ring
      <3>3. f[x] = a.acBuf[x - lo]
        BY <1>2, <2>1
      <3>. QED
        BY <1>3, <2>0, <2>1, <3>2, <3>3
    <2>2. CASE x \notin lo .. lo + n - 1
      <3>1. f[x] = flash[x] /\ flash[x] \in Int
        BY <1>2, <2>2
      <3>. QED
        BY <1>3, <2>0, <2>2, <3>1
    <2>. QED
      BY <2>1, <2>2
  <1>5. f \in [Cells -> Int]
    BY <1>2, <1>4
  <1>. QED
    BY <1>4, <1>5 DEF f, lo

\* A delimiter that is found is within the data.
LEMMA TestRange ==
  ASSUME NEW a \in Parts, MPTestBoundary(a) # NULL
  PROVE  /\ MPTestBoundary(a) \in 0 .. a.end - 3
         /\ CutLine(a, MPTestBoundary(a)) \in 0 .. a.end - 3
  <1> DEFINE L == Len(a.acBoundary)
             one == a.end - 2
             stop == IF one >= 0 /\ a.acBuf[one] = CR THEN one - 1 ELSE one
             start == stop + 1 - L
  <1>1. a.acBoundary \in Seq(Int) /\ a.end \in Nat
    BY PartIs, SizeNat DEF Indices
  <1>2. L \in Nat
    BY <1>1
  <1>3. start >= 2 /\ MPTestBoundary(a) = start - 2
    BY DEF MPTestBoundary
  <1>. HIDE DEF L
  <1>4. MPTestBoundary(a) \in 0 .. a.end - 3
    BY <1>1, <1>2, <1>3, SMTT(30)
  <1>5. PICK pc \in 0 .. a.end - 3 : pc = MPTestBoundary(a)
    BY <1>4
  <1>6. CutLine(a, pc) \in 0 .. a.end - 3
    BY <1>1 DEF CutLine
  <1>. QED
    BY <1>5, <1>6

\* The type of a request's part after one more byte.
LEMMA TakenType ==
  ASSUME NEW q \in Parts, NEW n \in Nat, PartOK(q, n), NEW ch \in Int, Len(q.acBoundary) + 8 < Size,
         NEW q2, Taken(MPAddChar(q, ch), ch, q2), flash \in [Cells -> Int], Base \in Nat, MaxAddr \in Nat
  PROVE  /\ q2 \in Parts /\ q2.acBoundary = q.acBoundary /\ PartOK(q2, n + 1)
         /\ flash' \in [Cells -> Int]
         /\ q2.pfFlashTmpFile >= q.pfFlashTmpFile
         /\ \A x \in Cells : x < q.pfFlashTmpFile => flash'[x] = flash[x]
  <1> DEFINE a == MPAddChar(q, ch)
             pf == q.pfFlashTmpFile
  <1>0. Size \in Nat /\ Size > 2
    <2>1. q.acBoundary \in Seq(Int)
      BY PartIs
    <2>2. Len(q.acBoundary) \in Nat
      BY <2>1
    <2>. QED
      BY <2>2, SizeNat
  <1>1. AddedTo(q, ch, a)
    BY <1>0, AddIs DEF PartOK
  <1>2. Taken(a, ch, q2)
    OBVIOUS
  <1>. HIDE DEF a
  <1>3. /\ a \in Parts /\ a.iState = q.iState /\ a.pfFlashTmpFile = pf /\ a.acBoundary = q.acBoundary
        /\ a.header # a.end /\ pf \in Nat /\ q.end \in Indices /\ a.end \in Indices
    BY <1>1, PartIs DEF AddedTo, SamePart
  <1>4. pf >= Base /\ pf - Base <= n
    BY DEF PartOK
  <1>10. pf \in Nat
    BY <1>3
  <1>5. a.iState = "BODYFILE" => /\ q.end <= Size - 2 /\ pf - Base + q.end <= n
                                 /\ a.header = 0 /\ a.end = q.end + 1
    <2>. SUFFICES ASSUME a.iState = "BODYFILE"
                  PROVE  q.end <= Size - 2 /\ pf - Base + q.end <= n /\ a.header = 0 /\ a.end = q.end + 1
      OBVIOUS
    <2>1. q.header = 0 /\ q.end <= Size - 2 /\ pf - Base + q.end <= n
      BY <1>3 DEF PartOK
    <2>2. q.end + 1 < Size
      BY <1>0, <1>3, <2>1 DEF Indices
    <2>. QED
      BY <1>1, <2>1, <2>2 DEF AddedTo
  <1>6. CASE a.iState # "BODYFILE" /\ q2 = Line(a, ch) /\ UNCHANGED <<flash, dirty, mixed>>
    <2>1. Parsing(a, q2)
      BY <1>0, <1>3, <1>6, LineIs
    <2>2. q2 \in Parts /\ q2.pfFlashTmpFile = pf /\ q2.acBoundary = q.acBoundary
      BY <1>3, <2>1 DEF Parsing
    <2>3. pf - Base <= n + 1 /\ pf - Base + 0 <= n + 1
      BY <1>3, <1>4
    <2>4. q2.iState = "BODYFILE" => q2.header = 0 /\ q2.end = 0
      BY <2>1 DEF Parsing
    <2>5. PartOK(q2, n + 1)
      BY <1>0, <1>4, <2>1, <2>2, <2>3, <2>4 DEF PartOK, Parsing
    <2>. QED
      BY <1>3, <1>6, <2>2, <2>5
  <1>7. CASE /\ a.iState = "BODYFILE" /\ MPTestBoundary(a) # NULL
             /\ WrittenAs(CutLine(a, MPTestBoundary(a)), a, To(MPClear(a), "HEADER"), q2)
    <2>0. a.end = q.end + 1 /\ q.end \in Nat /\ q.end <= Size - 2 /\ pf - Base + q.end <= n
      BY <1>3, <1>5, <1>7, SizeNat DEF Indices
    <2>1. PICK k \in 0 .. a.end - 3 : k = CutLine(a, MPTestBoundary(a))
      BY <1>3, <1>7, TestRange
    <2> DEFINE c == To(MPClear(a), "HEADER")
    <2>2. q2 = [c EXCEPT !.pfFlashTmpFile = @ + k] /\ flash' = usiMyWrite(a, k)
      BY <1>7, <2>1 DEF WrittenAs
    <2>3. c \in Parts /\ c.iState = "HEADER" /\ c.pfFlashTmpFile = pf /\ c.acBoundary = q.acBoundary
          /\ c.header = 0 /\ c.end = 0
      <3>1. "HEADER" \in PartStates
        BY DEF PartStates
      <3>2. MPClear(a) \in Parts /\ SamePart(a, MPClear(a)) /\ MPClear(a).header = 0 /\ MPClear(a).end = 0
        BY <1>0, <1>3, ClearIs
      <3>. QED
        BY <1>3, <3>1, <3>2, ToIs DEF SamePart
    <2>. HIDE DEF c
    <2>4. k \in 0 .. Size - 1 /\ pf + k \in Nat /\ pf + k >= pf /\ pf + k - Base <= n + 1
      <3>. HIDE DEF pf
      <3>. QED
        BY <1>0, <1>4, <1>10, <2>0
    <2>5. q2 \in Parts /\ q2.iState = "HEADER" /\ q2.pfFlashTmpFile = pf + k
          /\ q2.acBoundary = q.acBoundary /\ q2.header = 0 /\ q2.end = 0
      BY <2>2, <2>3, <2>4 DEF Parts
    <2>6. PartOK(q2, n + 1)
      BY <1>3, <1>4, <2>4, <2>5 DEF PartOK
    <2>7. flash' \in [Cells -> Int] /\ \A x \in Cells : x < pf => flash'[x] = flash[x]
      BY <1>3, <2>2, <2>4, WriteIs
    <2>. QED
      BY <2>4, <2>5, <2>6, <2>7
  <1>8. CASE /\ a.iState = "BODYFILE" /\ MPTestBoundary(a) = NULL /\ a.end + 1 = Size
             /\ WrittenAs(Flushed(a), a, MPClean([a EXCEPT !.header = Flushed(a)]), q2)
    <2>0. a.end = q.end + 1 /\ q.end \in Nat /\ q.end <= Size - 2 /\ pf - Base + q.end <= n
      BY <1>3, <1>5, <1>8, SizeNat DEF Indices
    <2>8. a.end + 1 = Size
      BY <1>8
    <2> DEFINE c == MPClean([a EXCEPT !.header = Flushed(a)])
    <2>1. PICK k \in 1 .. Size - 3 : k = Flushed(a) /\ Shifted(a, k, c)
      BY <1>0, <1>3, <1>5, <1>8, FlushIs
    <2>2. q2 = [c EXCEPT !.pfFlashTmpFile = @ + k] /\ flash' = usiMyWrite(a, k)
      BY <1>8, <2>1 DEF WrittenAs
    <2>. HIDE DEF c
    <2>3. c \in Parts /\ c.iState = "BODYFILE" /\ c.pfFlashTmpFile = pf /\ c.acBoundary = q.acBoundary
          /\ c.header = 0 /\ c.end = Size - 1 - k
      BY <1>3, <1>8, <2>1 DEF Shifted, SamePart
    <2>4. k \in 0 .. Size - 1 /\ pf + k \in Nat /\ pf + k >= pf /\ pf + k - Base <= n + 1
          /\ Size - 1 - k <= Size - 2 /\ pf + k - Base + (Size - 1 - k) <= n + 1
      <3>. HIDE DEF pf
      <3>. QED
        BY <1>0, <1>4, <1>10, <2>0, <2>8
    <2>5. q2 \in Parts /\ q2.iState = "BODYFILE" /\ q2.pfFlashTmpFile = pf + k
          /\ q2.acBoundary = q.acBoundary /\ q2.header = 0 /\ q2.end = Size - 1 - k
      BY <2>2, <2>3, <2>4 DEF Parts
    <2>6. PartOK(q2, n + 1)
      BY <1>3, <1>4, <2>4, <2>5, SMTT(30) DEF PartOK
    <2>7. flash' \in [Cells -> Int] /\ \A x \in Cells : x < pf => flash'[x] = flash[x]
      BY <1>3, <2>2, <2>4, WriteIs
    <2>. QED
      BY <2>4, <2>5, <2>6, <2>7
  <1>9. CASE /\ a.iState = "BODYFILE" /\ MPTestBoundary(a) = NULL /\ a.end + 1 # Size
             /\ q2 = a /\ UNCHANGED <<flash, dirty, mixed>>
    <2>0. a.end = q.end + 1 /\ q.end \in Nat /\ q.end <= Size - 2 /\ pf - Base + q.end <= n
      BY <1>3, <1>5, <1>9, SizeNat DEF Indices
    <2>1. a.end <= Size - 2 /\ pf - Base <= n + 1 /\ pf - Base + a.end <= n + 1
      <3>1. a.end + 1 # Size
        BY <1>9
      <3>. HIDE DEF pf
      <3>. QED
        BY <1>0, <1>4, <1>10, <2>0, <3>1
    <2>2. PartOK(q2, n + 1)
      BY <1>3, <1>4, <1>5, <1>9, <2>1 DEF PartOK
    <2>. QED
      BY <1>3, <1>9, <2>2
  <1>. QED
    BY <1>2, <1>6, <1>7, <1>8, <1>9 DEF Taken

------------------------------------------------------------------------------
(* One byte before the file *)

\* Line, by the state it starts from, when the data is at the start of the buffer.
LEMMA LineCases ==
  ASSUME NEW a \in Parts, a.header = 0, NEW ch
  PROVE  /\ a.iState = "IGNORE" /\ ch # LF => Line(a, ch) = a
         /\ a.iState = "IGNORE" /\ ch = LF /\ MPTestBoundary(a) # NULL => Line(a, ch) = To(MPClear(a), "HEADER")
         /\ a.iState = "HEADER" /\ ch # LF => Line(a, ch) = a
         /\ a.iState = "HEADER" /\ ch = LF /\ MPTestBoundary(a) = NULL => Line(a, ch) = To(a, "ONE_CR")
         /\ a.iState = "ONE_CR" /\ ch = CR => Line(a, ch) = To(a, "TWO_LF")
         /\ a.iState = "TWO_LF" /\ ch = LF => Line(a, ch) = PartNamed(a)
         /\ a.iState = "BODYPARAM" /\ MPTestBoundary(a) = NULL => Line(a, ch) = a
  <1>1. MPClean(a) = a
    <2>1. Size \in Nat /\ a.header \in Indices
      BY PartIs, SizeNat
    <2>2. Size # 0
      BY <2>1 DEF Indices
    <2>3. 0 % Size = 0
      BY <2>1, <2>2
    <2>. QED
      BY <2>3 DEF MPClean
  <1>. QED
    BY <1>1 DEF Line, CR, LF

\* A short line is no delimiter.
LEMMA ShortLine ==
  ASSUME NEW a \in Parts, a.end \in 0 .. 2 \/ (a.end = 3 /\ a.acBuf[1] = CR)
  PROVE  MPTestBoundary(a) = NULL
  <1> DEFINE L == Len(a.acBoundary)
             one == a.end - 2
             stop == IF one >= 0 /\ a.acBuf[one] = CR THEN one - 1 ELSE one
             start == stop + 1 - L
  <1>1. a.acBoundary \in Seq(Int)
    BY PartIs
  <1>2. L \in Nat
    BY <1>1
  <1>. HIDE DEF L
  <1>3. ~(start >= 2)
    BY <1>2
  <1>. QED
    BY <1>3 DEF MPTestBoundary, L

\* A request's next byte, when it does not fill the buffer.
LEMMA NextByte ==
  ASSUME NEW p, PostOK(p), NEW s, NEW q \in Parts, NEW n \in Nat, NEW from \in Nat, from <= n,
         n + 1 - from < Size, Holds(q, s, from, n), s[n + 1] \in Int, NEW a, a = MPAddChar(q, s[n + 1])
  PROVE  /\ a \in Parts /\ SamePart(q, a) /\ Holds(a, s, from, n + 1) /\ a.header = 0 /\ a.end = n + 1 - from
         /\ \A j \in 0 .. n - from : a.acBuf[j] = s[from + j + 1]
  <1>1. Size > 2
    <2>1. Size > 8
      BY MorePlaces
    <2>. QED
      BY <2>1, SizeNat
  <1>2. q.header = 0
    BY DEF Holds
  <1>3. AddedTo(q, s[n + 1], a)
    BY <1>1, <1>2, AddIs
  <1>4. Holds(a, s, from, n + 1)
    BY <1>3, AddHolds
  <1>5. \A j \in 0 .. (n + 1) - from - 1 : a.acBuf[j] = s[from + j + 1]
    BY <1>4, HoldsAt
  <1>6. (n + 1) - from - 1 = n - from
    OBVIOUS
  <1>. QED
    BY <1>3, <1>4, <1>5, <1>6 DEF AddedTo, Holds

\* The delimiter at the start of the request is found.
LEMMA FirstLine ==
  ASSUME NEW p, PostOK(p), NEW s, Layout(p, s), NEW a \in Parts, a.acBoundary = p.boundary,
         a.end = Len(p.boundary) + 4, \A j \in 0 .. Len(p.boundary) + 3 : a.acBuf[j] = s[j + 1]
  PROVE  MPTestBoundary(a) # NULL
  <1> DEFINE L == Len(p.boundary)
             one == a.end - 2
             stop == IF one >= 0 /\ a.acBuf[one] = CR THEN one - 1 ELSE one
             start == stop + 1 - L
  <1>0. \A j \in 0 .. L + 3 : a.acBuf[j] = s[j + 1]
    OBVIOUS
  <1>1. L \in Nat /\ a.end = L + 4
    BY Places
  <1>2. s[L + 3] = CR /\ s[L + 4] = LF /\ \A i \in 1 .. L + 2 : s[i] = Delimiter(p)[i]
    BY DEF Layout
  <1>. HIDE DEF L
  <1>3. one = L + 2 /\ one \in 0 .. L + 3 /\ one + 1 = L + 3
    BY <1>1
  <1>4. a.acBuf[one] = CR
    BY <1>0, <1>2, <1>3
  <1>5. start = 2
    BY <1>1, <1>3, <1>4
  <1>6. a.acBuf[a.end - 1] = LF
    <2>1. a.end - 1 \in 0 .. L + 3 /\ (a.end - 1) + 1 = L + 4
      BY <1>1
    <2>. QED
      BY <1>0, <1>2, <2>1
  <1>7. \A i \in 1 .. L : a.acBuf[start + i - 1] = p.boundary[i]
    <2>. SUFFICES ASSUME NEW i \in 1 .. L PROVE a.acBuf[start + i - 1] = p.boundary[i]
      OBVIOUS
    <2>0. start + i - 1 = i + 1
      BY <1>5
    <2>1. start + i - 1 \in 0 .. L + 3 /\ (start + i - 1) + 1 = i + 2 /\ i + 2 \in 1 .. L + 2
      <3>. HIDE DEF start
      <3>. QED
        BY <1>1, <2>0
    <2>2. Delimiter(p)[i + 2] = p.boundary[i]
      BY DelimiterIs DEF L
    <2>. QED
      BY <1>0, <1>2, <2>1, <2>2
  <1>8. a.acBuf[0] = DASH /\ a.acBuf[1] = DASH
    <2>1. 0 \in 0 .. L + 3 /\ 1 \in 0 .. L + 3 /\ 0 + 1 = 1 /\ 1 + 1 = 2 /\ 1 \in 1 .. L + 2 /\ 2 \in 1 .. L + 2
      BY <1>1
    <2>. QED
      BY <1>0, <1>2, <2>1, DelimiterIs, SMTT(30)
  <1>9. start - 1 = 1 /\ start - 2 = 0 /\ start >= 2
    BY <1>5
  <1>10. MPTestBoundary(a) = start - 2
    <2>. HIDE DEF start
    <2>. QED
      BY <1>6, <1>7, <1>8, <1>9 DEF MPTestBoundary, L, start
  <1>. QED
    BY <1>9, <1>10 DEF NULL

\* One byte before the file.
LEMMA BeforeStep ==
  ASSUME NEW p, PostOK(p), NEW s, s = Stream(p), Layout(p, s), NEW q \in Parts, q.acBoundary = p.boundary,
         NEW n \in Nat, BeforeFile(q, p, n),
         NEW q2, q2 = Line(MPAddChar(q, s[n + 1]), s[n + 1]), NEW fl
  PROVE  Progress(fl, q2, p, n + 1)
  <1> DEFINE L == Len(p.boundary)
             hl == L + 4
             ch == s[n + 1]
             a == MPAddChar(q, ch)
  <1>1. L \in Nat /\ L + 8 < Size /\ Size \in Nat /\ FileAt(p) = hl + 5 /\ Sought(p) > hl + 5 /\ Size > 2
    <2>1. L \in Nat /\ L + 8 < Size /\ Size \in Nat /\ FileAt(p) = L + 9 /\ Sought(p) > L + 9
      BY Places, MorePlaces
    <2>. HIDE DEF L
    <2>2. L + 9 = hl + 5
      BY <2>1
    <2>. QED
      BY <2>1, <2>2
  <1>2. /\ \A i \in 1 .. L + 2 : s[i] = Delimiter(p)[i]
        /\ s[L + 3] = CR /\ s[L + 4] = LF /\ s[L + 5] = HFile /\ s[L + 6] = CR /\ s[L + 7] = LF
        /\ s[L + 8] = CR /\ s[L + 9] = LF
        /\ s \in Seq(Int)
    BY DEF Layout
  <1>3. /\ q.pfFlashTmpFile = Base
        /\ \/ n < hl /\ q.iState = "IGNORE" /\ Holds(q, s, 0, n)
           \/ n \in hl .. hl + 2 /\ q.iState = "HEADER" /\ Holds(q, s, hl, n)
           \/ n = hl + 3 /\ q.iState = "ONE_CR" /\ Holds(q, s, hl, n)
           \/ n = hl + 4 /\ q.iState = "TWO_LF" /\ Holds(q, s, hl, n)
    BY DEF BeforeFile
  <1>4. q2 = Line(a, ch)
    OBVIOUS
  <1>5. ch \in Int
    <2>1. n + 1 <= L + 9
      <3>. HIDE DEF L
      <3>. QED
        BY <1>1, <1>3
    <2>2. Len(s) >= L + 9
      <3>1. Len(s) > L + 9 /\ Len(s) \in Nat
        BY StreamLength
      <3>. HIDE DEF L
      <3>. QED
        BY <1>1, <3>1
    <2>3. n + 1 \in 1 .. Len(s)
      <3>1. Len(s) \in Nat
        BY <1>2
      <3>. HIDE DEF L
      <3>. QED
        BY <1>1, <2>1, <2>2, <3>1
    <2>. QED
      BY <1>2, <2>3
  <1>. HIDE DEF a, ch, L
  <1>6. ASSUME NEW st, q2.iState = st, q2.pfFlashTmpFile = Base,
               \/ n + 1 < hl /\ st = "IGNORE" /\ Holds(q2, s, 0, n + 1)
               \/ n + 1 \in hl .. hl + 2 /\ st = "HEADER" /\ Holds(q2, s, hl, n + 1)
               \/ n + 1 = hl + 3 /\ st = "ONE_CR" /\ Holds(q2, s, hl, n + 1)
               \/ n + 1 = hl + 4 /\ st = "TWO_LF" /\ Holds(q2, s, hl, n + 1)
        PROVE  Progress(fl, q2, p, n + 1)
    BY <1>6 DEF BeforeFile, Progress, L
  <1>7. CASE n < hl /\ q.iState = "IGNORE" /\ Holds(q, s, 0, n)
    <2>1. n + 1 - 0 < Size /\ 0 <= n /\ n - 0 = n
      BY <1>1, <1>7
    <2>2. /\ a \in Parts /\ SamePart(q, a) /\ Holds(a, s, 0, n + 1) /\ a.header = 0 /\ a.end = n + 1
          /\ \A j \in 0 .. n : a.acBuf[j] = s[j + 1]
      <3>1. /\ a \in Parts /\ SamePart(q, a) /\ Holds(a, s, 0, n + 1) /\ a.header = 0 /\ a.end = n + 1 - 0
            /\ \A j \in 0 .. n - 0 : a.acBuf[j] = s[0 + j + 1]
        BY <1>5, <1>7, <2>1, NextByte DEF a, ch
      <3>. QED
        BY <2>1, <3>1
    <2>3. a.iState = "IGNORE" /\ a.pfFlashTmpFile = Base /\ a.acBoundary = p.boundary
      BY <1>3, <1>7, <2>2 DEF SamePart
    <2>4. CASE n + 1 < hl
      <3>1. ch # LF
        <4>1. CASE n + 1 = L + 3
          <5>1. ch = CR
            BY <1>2, <4>1 DEF ch
          <5>. QED
            BY <5>1 DEF CR, LF
        <4>2. CASE n + 1 # L + 3
          <5>1. n + 1 \in 1 .. L + 2
            BY <1>1, <2>4, <4>2
          <5>2. Delimiter(p)[n + 1] # LF
            BY <5>1, DelimiterIs DEF L
          <5>. QED
            BY <1>2, <5>1, <5>2 DEF ch
        <4>. QED
          BY <4>1, <4>2
      <3>2. q2 = a
        BY <1>4, <2>2, <2>3, <3>1, LineCases
      <3>. QED
        BY <1>6, <2>2, <2>3, <2>4, <3>2
    <2>5. CASE n + 1 = hl
      <3>1. ch = LF
        BY <1>2, <2>5 DEF ch
      <3>2. MPTestBoundary(a) # NULL
        <4>1. n = L + 3
          BY <1>1, <2>5
        <4>. QED
          BY <2>2, <2>3, <2>5, <4>1, FirstLine DEF L
      <3>3. q2 = To(MPClear(a), "HEADER")
        BY <1>4, <2>2, <2>3, <3>1, <3>2, LineCases
      <3>4. q2.iState = "HEADER" /\ q2.pfFlashTmpFile = Base /\ q2.header = 0 /\ q2.end = 0
        <4>1. MPClear(a) \in Parts /\ SamePart(a, MPClear(a)) /\ MPClear(a).header = 0 /\ MPClear(a).end = 0
          BY <1>1, <2>2, ClearIs
        <4>2. "HEADER" \in PartStates
          BY DEF PartStates
        <4>. QED
          BY <2>3, <3>3, <4>1, <4>2, ToIs DEF SamePart
      <3>5. Holds(q2, s, hl, n + 1) /\ n + 1 \in hl .. hl + 2
        BY <1>1, <2>5, <3>4 DEF Holds
      <3>. QED
        BY <1>6, <3>4, <3>5
    <2>. QED
      BY <1>1, <1>7, <2>4, <2>5
  <1>8. ASSUME n \in hl .. hl + 4, Holds(q, s, hl, n)
        PROVE  /\ a \in Parts /\ SamePart(q, a) /\ Holds(a, s, hl, n + 1) /\ a.header = 0 /\ a.end = n + 1 - hl
               /\ \A j \in 0 .. n - hl : a.acBuf[j] = s[hl + j + 1]
               /\ a.iState = q.iState /\ a.pfFlashTmpFile = Base /\ a.acBoundary = p.boundary
    <2>1. n + 1 - hl < Size /\ hl <= n /\ hl \in Nat
      BY <1>1, <1>8
    <2>2. /\ a \in Parts /\ SamePart(q, a) /\ Holds(a, s, hl, n + 1) /\ a.header = 0 /\ a.end = n + 1 - hl
          /\ \A j \in 0 .. n - hl : a.acBuf[j] = s[hl + j + 1]
      <3>. HIDE DEF hl
      <3>. QED
        BY <1>5, <1>8, <2>1, NextByte DEF a, ch
    <2>. QED
      BY <1>3, <2>2 DEF SamePart
  <1>9. CASE n \in hl .. hl + 2 /\ q.iState = "HEADER" /\ Holds(q, s, hl, n)
    <2>0. n \in hl .. hl + 4
      BY <1>1, <1>9
    <2>1. CASE n # hl + 2
      <3>1. n + 1 \in hl .. hl + 2 /\ (n + 1 = L + 5 \/ n + 1 = L + 6)
        BY <1>1, <1>9, <2>1
      <3>2. ch # LF
        BY <1>2, <3>1, SMTT(30) DEF ch, HFile, CR, LF
      <3>3. q2 = a
        BY <1>4, <1>8, <1>9, <2>0, <3>2, LineCases
      <3>. QED
        BY <1>6, <1>8, <1>9, <2>0, <3>1, <3>3
    <2>2. CASE n = hl + 2
      <3>1. n + 1 = L + 7 /\ n + 1 = hl + 3 /\ n + 1 - hl = 3 /\ 1 \in 0 .. n - hl /\ hl + 1 + 1 = L + 6
        BY <1>1, <2>2
      <3>2. ch = LF /\ a.acBuf[1] = CR /\ a.end = 3
        BY <1>2, <1>8, <1>9, <2>0, <3>1 DEF ch
      <3>3. MPTestBoundary(a) = NULL
        BY <1>8, <1>9, <2>0, <3>2, ShortLine
      <3>4. q2 = To(a, "ONE_CR")
        BY <1>4, <1>8, <1>9, <2>0, <3>2, <3>3, LineCases
      <3>5. q2.iState = "ONE_CR" /\ q2.pfFlashTmpFile = Base /\ q2.header = a.header /\ q2.end = a.end /\ q2.acBuf = a.acBuf
        <4>1. "ONE_CR" \in PartStates
          BY DEF PartStates
        <4>. QED
          BY <1>8, <1>9, <2>0, <3>4, <4>1, ToIs
      <3>6. Holds(q2, s, hl, n + 1)
        BY <1>8, <1>9, <2>0, <3>5 DEF Holds
      <3>. QED
        BY <1>6, <3>1, <3>5, <3>6
    <2>. QED
      BY <2>1, <2>2
  <1>10. CASE n = hl + 3 /\ q.iState = "ONE_CR" /\ Holds(q, s, hl, n)
    <2>0. n \in hl .. hl + 4 /\ n + 1 = L + 8 /\ n + 1 = hl + 4
      BY <1>1, <1>10
    <2>1. ch = CR
      BY <1>2, <2>0 DEF ch
    <2>2. q2 = To(a, "TWO_LF")
      BY <1>4, <1>8, <1>10, <2>0, <2>1, LineCases
    <2>3. q2.iState = "TWO_LF" /\ q2.pfFlashTmpFile = Base /\ q2.header = a.header /\ q2.end = a.end /\ q2.acBuf = a.acBuf
      <3>1. "TWO_LF" \in PartStates
        BY DEF PartStates
      <3>. QED
        BY <1>8, <1>10, <2>0, <2>2, <3>1, ToIs
    <2>4. Holds(q2, s, hl, n + 1)
      BY <1>8, <1>10, <2>0, <2>3 DEF Holds
    <2>. QED
      BY <1>6, <2>0, <2>3, <2>4
  <1>11. CASE n = hl + 4 /\ q.iState = "TWO_LF" /\ Holds(q, s, hl, n)
    <2>0. n \in hl .. hl + 4 /\ n + 1 = L + 9 /\ n + 1 = FileAt(p) /\ 0 \in 0 .. n - hl /\ hl + 0 + 1 = L + 5
      BY <1>1, <1>11
    <2>1. ch = LF
      BY <1>2, <2>0 DEF ch
    <2>2. q2 = PartNamed(a)
      BY <1>4, <1>8, <1>11, <2>0, <2>1, LineCases
    <2>3. Naming(a) = "BODYFILE"
      <3>1. a.acBuf[0] = HFile /\ a.header = 0 /\ a.end = n + 1 - hl
        BY <1>2, <1>8, <1>11, <2>0
      <3>2. 0 \in a.header .. a.end - 1
        BY <1>1, <1>11, <3>1
      <3>. QED
        BY <3>1, <3>2 DEF Naming
    <2>4. q2.iState = "BODYFILE" /\ q2.pfFlashTmpFile = Base /\ q2.header = 0 /\ q2.end = 0
      BY <1>1, <1>8, <1>11, <2>0, <2>2, <2>3, PartNamedIs
    <2>5. PICK w : w = q2.pfFlashTmpFile - Base
      OBVIOUS
    <2>6. w = 0
      BY <2>4, <2>5, UploadAssumption
    <2>7. FileAt(p) + w = n + 1 /\ n + 1 >= FileAt(p) /\ n + 1 < Sought(p) /\ w <= Len(p.file) + 2
      <3>1. Len(p.file) \in Nat
        BY Places
      <3>. QED
        BY <1>1, <1>11, <2>0, <2>6, <3>1
    <2>8. Copied(fl, p, w) /\ Holds(q2, s, FileAt(p) + w, n + 1)
      <3>1. Copied(fl, p, w)
        BY <2>6 DEF Copied
      <3>2. Holds(q2, s, n + 1, n + 1)
        BY <2>4 DEF Holds
      <3>. QED
        BY <2>7, <3>1, <3>2
    <2>. QED
      BY <2>4, <2>5, <2>7, <2>8 DEF InFile, Progress
  <1>. QED
    BY <1>3, <1>7, <1>9, <1>10, <1>11

------------------------------------------------------------------------------
(* One byte of the file *)

\* Writing the start of the buffer continues the copy.
LEMMA CopiedMore ==
  ASSUME NEW p, PostOK(p), NEW s, s = Stream(p), NEW a \in Parts, NEW w \in Nat, NEW k \in 0 .. Size - 1,
         a.pfFlashTmpFile = Base + w, Copied(flash, p, w), NEW n \in Nat,
         Holds(a, s, FileAt(p) + w, n), k <= a.end, Base + w + k <= MaxAddr + 1, flash \in [Cells -> Int],
         flash' = usiMyWrite(a, k)
  PROVE  Copied(flash', p, w + k)
  <1>0. Base \in Nat /\ MaxAddr \in Nat /\ Size \in Nat
    BY UploadAssumption
  <1>1. PICK h \in Nat : h = FileAt(p)
    <2>1. PICK L \in Nat : L = Len(p.boundary)
      BY Places
    <2>2. FileAt(p) = L + 9
      BY <2>1, Places
    <2>. QED
      BY <2>2
  <1>2. a.end = n - (h + w) /\ \A j \in 0 .. n - (h + w) - 1 : a.acBuf[j] = s[h + w + j + 1]
    <2>1. h + w \in Nat /\ Holds(a, s, h + w, n)
      BY <1>1
    <2>2. \A j \in 0 .. n - (h + w) - 1 : a.acBuf[j] = s[h + w + j + 1]
      BY <2>1, HoldsAt, SMTT(30)
    <2>. QED
      BY <2>1, <2>2 DEF Holds
  <1>3. /\ \A x \in Cells : x < Base + w => flash'[x] = flash[x]
        /\ \A x \in Cells : x >= Base + w /\ x < Base + w + k => flash'[x] = a.acBuf[x - (Base + w)]
    BY <1>0, WriteIs
  <1>4. ASSUME NEW i \in 1 .. w + k PROVE flash'[Base + i - 1] = s[h + i]
    <2>1. Base + i - 1 \in Cells /\ Base + i - 1 \in Nat
      BY <1>0 DEF Cells
    <2>2. CASE i <= w
      <3>1. Base + i - 1 < Base + w /\ i \in 1 .. w
        BY <1>0, <2>2
      <3>2. flash[Base + i - 1] = s[h + i]
        BY <1>1, <3>1 DEF Copied
      <3>. QED
        BY <1>3, <2>1, <3>1, <3>2
    <2>3. CASE i > w
      <3>1. PICK j \in Nat : j = i - 1 - w
        BY <2>3
      <3>2. j \in 0 .. n - (h + w) - 1 /\ h + w + j + 1 = h + i /\ Base + i - 1 - (Base + w) = j
            /\ Base + i - 1 >= Base + w /\ Base + i - 1 < Base + w + k
        BY <1>0, <1>2, <2>3, <3>1
      <3>3. flash'[Base + i - 1] = a.acBuf[j]
        <4>1. PICK x \in Cells : x = Base + i - 1
          BY <2>1
        <4>2. x >= Base + w /\ x < Base + w + k /\ x - (Base + w) = j
          <5>1. x \in Int
            BY <1>0, <4>1
          <5>. QED
            BY <1>0, <3>2, <4>1, <5>1
        <4>3. flash'[x] = a.acBuf[x - (Base + w)]
          BY <1>3, <4>2
        <4>. QED
          BY <4>1, <4>2, <4>3
      <3>. QED
        BY <1>2, <3>2, <3>3
    <2>. QED
      BY <2>2, <2>3
  <1>. QED
    BY <1>1, <1>4 DEF Copied

\* The definition of Holds, from its parts.
LEMMA HoldsIf ==
  ASSUME NEW q, NEW s, NEW from, NEW n, q.header = 0, q.end = n - from,
         \A i \in 1 .. n - from : q.acBuf[i - 1] = s[from + i]
  PROVE  Holds(q, s, from, n)
  BY DEF Holds

\* An empty buffer.
LEMMA HoldsNone ==
  ASSUME NEW q, NEW s, NEW from, NEW n \in Nat, from = n, q.header = 0, q.end = 0
  PROVE  Holds(q, s, from, n)
  <1>1. n - from = 0
    OBVIOUS
  <1>2. 1 .. n - from = {}
    BY <1>1
  <1>3. \A i \in 1 .. n - from : q.acBuf[i - 1] = s[from + i]
    BY <1>2
  <1>. QED
    BY <1>1, <1>3, HoldsIf

\* The first form of AfterFile: the header of the next part.
LEMMA AfterHeader ==
  ASSUME NEW fl, NEW q, NEW p, NEW n, Whole(fl, q, p), q.pfFlashTmpFile <= Base + Len(p.file) + 2,
         n - Sought(p) \in 0 .. 2, q.iState = "HEADER", Holds(q, Stream(p), Sought(p), n)
  PROVE  AfterFile(fl, q, p, n)
  BY DEF AfterFile

\* A copy that is long enough has the whole file.
LEMMA CopiedWhole ==
  ASSUME NEW p, PostOK(p), NEW s, s = Stream(p), Layout(p, s), NEW fl, NEW w \in Nat, Copied(fl, p, w),
         NEW q, q.pfFlashTmpFile = Base + w, Len(p.file) <= w
  PROVE  Whole(fl, q, p)
  <1>1. PICK F \in Nat : F = Len(p.file)
    BY Places
  <1>2. Base \in Nat
    BY UploadAssumption
  <1>3. q.pfFlashTmpFile >= Base + F
    BY <1>1, <1>2
  <1>4. ASSUME NEW i \in 1 .. F PROVE fl[Base + i - 1] = p.file[i]
    <2>1. i \in 1 .. w
      BY <1>1
    <2>2. s[FileAt(p) + i] = p.file[i]
      BY <1>1 DEF Layout
    <2>. QED
      BY <2>1, <2>2 DEF Copied
  <1>. QED
    BY <1>1, <1>3, <1>4 DEF Whole

\* One byte of the file or of the delimiter after it: it is kept, or written with what is
\* before it, or completes the delimiter.  Only a write that leaves no byte spare may reach
\* into the delimiter.
LEMMA FileStep ==
  ASSUME NEW p, PostOK(p), NEW s, s = Stream(p), Layout(p, s), Rest(p, s), NEW q \in Parts,
         q.acBoundary = p.boundary, NEW n \in Nat, n < Len(s), PartOK(q, n), InFile(flash, q, p, n),
         flash \in [Cells -> Int], Base + Len(s) <= MaxAddr + 1,
         NEW q2, Taken(MPAddChar(q, s[n + 1]), s[n + 1], q2)
  PROVE  Progress(flash', q2, p, n + 1)
  <1> DEFINE a == MPAddChar(q, s[n + 1])
             L == Len(p.boundary)
             F == Len(p.file)
             h == FileAt(p)
             w == q.pfFlashTmpFile - Base
             pf == q.pfFlashTmpFile
  <1>0. /\ L \in Nat /\ F \in Nat /\ h = L + 9 /\ Size \in Nat /\ L + 8 < Size /\ p.more \in BOOLEAN
        /\ Until(p) = L + F + L + 13 /\ Base \in Nat /\ MaxAddr \in Nat
    BY Places, UploadAssumption
  <1>1. Sought(p) \in Nat /\ Sought(p) > Until(p) /\ Sought(p) <= Until(p) + 2
        /\ (~p.more => Sought(p) = Until(p) + 1)
    BY MorePlaces, Places
  <1>2. /\ n >= h /\ n < Sought(p) /\ q.iState = "BODYFILE"
        /\ w <= F + 2 /\ Copied(flash, p, w) /\ Holds(q, s, h + w, n)
    BY DEF InFile
  <1>3. pf \in Nat /\ pf >= Base /\ q.end <= Size - 2 /\ q.end \in Indices /\ pf - Base + q.end <= n
    BY <1>2, PartIs DEF PartOK
  <1>4. Taken(a, s[n + 1], q2)
    OBVIOUS
  <1>5. Len(s) \in Nat /\ s[n + 1] \in Int
    <2>1. s \in Seq(Int)
      BY DEF Layout
    <2>2. n + 1 \in 1 .. Len(s)
      BY <2>1
    <2>. QED
      BY <2>1, <2>2
  <1>. HIDE DEF a, L, F, h
  <1>6. w \in Nat /\ pf = Base + w
    <2>. HIDE DEF pf
    <2>1. w = pf - Base
      BY DEF pf
    <2>. QED
      BY <1>0, <1>3, <2>1
  <1>. HIDE DEF w
  <1>7. q.end = n - (h + w) /\ h + w <= n /\ n + 1 - (h + w) < Size /\ h + w \in Nat
    <2>1. q.end = n - (h + w) /\ q.end \in Nat
      BY <1>0, <1>2, <1>3 DEF Holds, Indices
    <2>. QED
      BY <1>0, <1>3, <1>6, <2>1
  <1>8. /\ a \in Parts /\ SamePart(q, a) /\ Holds(a, s, h + w, n + 1) /\ a.header = 0
        /\ a.end = n + 1 - (h + w)
    BY <1>2, <1>5, <1>7, NextByte DEF a
  <1>9. a.iState = "BODYFILE" /\ a.pfFlashTmpFile = Base + w /\ a.acBoundary = p.boundary
    BY <1>2, <1>6, <1>8 DEF SamePart
  <1>10. CASE n + 1 = Sought(p)
    <2> DEFINE pc == F + 2 - w
               k == CutLine(a, pc)
    <2>1. MPTestBoundary(a) = pc /\ k \in Nat /\ w + k \in F .. F + 2 /\ k < a.end
      <3>1. n + 1 \in Nat /\ w <= Len(p.file) + 2 /\ Holds(a, s, FileAt(p) + w, n + 1)
        BY <1>2, <1>8 DEF F, h
      <3>. QED
        BY <1>6, <1>9, <1>10, <3>1, Found DEF F, h
    <2>2. pc # NULL
      <3>1. pc >= 0
        BY <1>0, <1>2, <1>6
      <3>. QED
        BY <3>1 DEF NULL
    <2>3. WrittenAs(k, a, To(MPClear(a), "HEADER"), q2)
      BY <1>4, <1>9, <2>1, <2>2 DEF Taken
    <2>. HIDE DEF k, pc
    <2>4. flash' = usiMyWrite(a, k) /\ q2 = [To(MPClear(a), "HEADER") EXCEPT !.pfFlashTmpFile = @ + k]
      BY <2>3 DEF WrittenAs
    <2>5. k \in 0 .. Size - 1 /\ k <= a.end /\ Base + w + k <= MaxAddr + 1
      <3>1. k \in Nat /\ k < a.end
        BY <2>1
      <3>. QED
        BY <1>0, <1>5, <1>6, <1>7, <1>8, <3>1
    <2>6. Copied(flash', p, w + k)
      <3>1. Holds(a, s, FileAt(p) + w, n + 1) /\ n + 1 \in Nat
        BY <1>8 DEF h
      <3>. QED
        BY <1>2, <1>6, <1>8, <1>9, <2>4, <2>5, <3>1, CopiedMore
    <2>7. q2.iState = "HEADER" /\ q2.pfFlashTmpFile = Base + (w + k) /\ q2.header = 0 /\ q2.end = 0
      <3>1. MPClear(a) \in Parts /\ SamePart(a, MPClear(a)) /\ MPClear(a).header = 0 /\ MPClear(a).end = 0
        BY <1>0, <1>8, ClearIs
      <3>2. "HEADER" \in PartStates
        BY DEF PartStates
      <3>3. PICK c \in Parts : c = To(MPClear(a), "HEADER") /\ c.iState = "HEADER" /\ c.header = 0 /\ c.end = 0
                               /\ c.pfFlashTmpFile = Base + w
        BY <1>9, <3>1, <3>2, ToIs DEF SamePart
      <3>4. q2.iState = "HEADER" /\ q2.pfFlashTmpFile = (Base + w) + k /\ q2.header = 0 /\ q2.end = 0
        BY <2>4, <3>3 DEF Parts
      <3>5. (Base + w) + k = Base + (w + k)
        BY <1>0, <1>6, <2>5
      <3>. QED
        BY <3>4, <3>5
    <2>8. PICK v \in Nat : v = w + k /\ F <= v /\ v <= F + 2
      BY <1>0, <1>6, <2>1, <2>5, SMTT(30)
    <2>9. Whole(flash', q2, p)
      BY <2>6, <2>7, <2>8, CopiedWhole DEF F
    <2>10. q2.pfFlashTmpFile <= Base + F + 2
      <3>1. q2.pfFlashTmpFile = Base + v
        BY <2>7, <2>8
      <3>2. v <= F + 2
        BY <2>8
      <3>3. Base + v <= Base + F + 2
        BY <1>0, <3>2
      <3>. QED
        BY <3>1, <3>3
    <2>11. Holds(q2, s, Sought(p), n + 1) /\ n + 1 - Sought(p) \in 0 .. 2
      <3>1. n + 1 - Sought(p) = 0
        BY <1>1, <1>10
      <3>2. Holds(q2, s, Sought(p), n + 1)
        <4>1. n + 1 \in Nat /\ Sought(p) = n + 1 /\ q2.header = 0 /\ q2.end = 0
          BY <1>10, <2>7
        <4>. QED
          BY <4>1, HoldsNone
      <3>3. n + 1 - Sought(p) \in 0 .. 2
        BY <3>1
      <3>. QED
        BY <3>2, <3>3
    <2>12. AfterFile(flash', q2, p, n + 1)
      <3>1. q2.pfFlashTmpFile <= Base + Len(p.file) + 2
        BY <2>10 DEF F
      <3>2. Holds(q2, Stream(p), Sought(p), n + 1)
        BY <2>11
      <3>. QED
        <4>1. q2.iState = "HEADER" /\ n + 1 - Sought(p) \in 0 .. 2
          BY <2>7, <2>11
        <4>. QED
          <5>1. PICK n1 \in Nat : n1 = n + 1
            OBVIOUS
          <5>2. Holds(q2, Stream(p), Sought(p), n1) /\ n1 - Sought(p) \in 0 .. 2
            BY <1>1, <3>2, <4>1, <5>1
          <5>3. AfterFile(flash', q2, p, n1)
            BY <2>9, <3>1, <4>1, <5>2, AfterHeader
          <5>. QED
            BY <5>1, <5>3
    <2>. QED
      BY <2>12 DEF Progress
  <1>11. CASE n + 1 # Sought(p)
    <2>0. n + 1 < Sought(p) /\ n + 1 \in Nat /\ h <= h + w /\ h + w <= n + 1 /\ n + 1 >= h
      <3>1. n < Sought(p) /\ n >= h /\ n + 1 # Sought(p)
        BY <1>2, <1>11
      <3>2. h \in Nat
        BY <1>0
      <3>. QED
        BY <1>1, <1>6, <1>7, <3>1, <3>2
    <2>1. MPTestBoundary(a) = NULL
      BY <1>7, <1>8, <1>9, <2>0, NotYet DEF h
    <2>2. CASE a.end + 1 # Size
      <3>1. q2 = a /\ flash' = flash
        BY <1>4, <1>9, <2>1, <2>2 DEF Taken
      <3>2. q2.pfFlashTmpFile - Base = w
        <4>1. q2.pfFlashTmpFile = Base + w
          BY <1>9, <3>1
        <4>2. (Base + w) - Base = w
          BY <1>0, <1>6
        <4>. QED
          BY <4>1, <4>2
      <3>. QED
        BY <1>2, <1>8, <1>9, <2>0, <3>1, <3>2 DEF InFile, Progress, h, F
    <2>3. CASE a.end + 1 = Size
      <3> DEFINE k == Flushed(a)
                 c == MPClean([a EXCEPT !.header = k])
                 z == Size - 1 - L - 2
      <3>1. WrittenAs(k, a, c, q2)
        BY <1>4, <1>9, <2>1, <2>3 DEF Taken
      <3>2. k \in 1 .. Size - 3 /\ z % 4 \in 0 .. 3 /\ k = z - (z % 4) /\ Shifted(a, k, c)
        <4>1. Len(a.acBoundary) + 8 < Size /\ Len(a.acBoundary) = L
          BY <1>0, <1>9 DEF L
        <4>. QED
          BY <1>8, <2>3, <4>1, FlushIs
      <3>3. flash' = usiMyWrite(a, k) /\ q2 = [c EXCEPT !.pfFlashTmpFile = @ + k]
        BY <3>1 DEF WrittenAs
      <3>. HIDE DEF k, c
      <3>4. PICK sp \in 0 .. 3 : sp = z % 4 /\ k = z - sp
        BY <3>2
      <3>5. c \in Parts /\ c.iState = "BODYFILE" /\ c.pfFlashTmpFile = Base + w /\ c.header = 0 /\ c.end = Size - 1 - k
            /\ \A j \in 0 .. Size - 2 - k : c.acBuf[j] = a.acBuf[j + k]
        BY <1>9, <3>2 DEF Shifted, SamePart
      <3>6. q2.iState = "BODYFILE" /\ q2.pfFlashTmpFile = Base + (w + k) /\ q2.header = 0
            /\ q2.end = Size - 1 - k /\ q2.acBuf = c.acBuf
        <4>1. q2.iState = "BODYFILE" /\ q2.pfFlashTmpFile = (Base + w) + k /\ q2.header = 0
              /\ q2.end = Size - 1 - k /\ q2.acBuf = c.acBuf
          BY <3>3, <3>5 DEF Parts
        <4>2. (Base + w) + k = Base + (w + k)
          BY <1>0, <1>6, <3>2
        <4>. QED
          BY <4>1, <4>2
      <3>7. PICK v \in Nat : v = w + k
        BY <1>6, <3>2
      <3>8. a.end = Size - 1 /\ a.end = n + 1 - (h + w)
        <4>1. a.end = n + 1 - (h + w) /\ a.end + 1 = Size
          BY <1>8, <2>3
        <4>2. n + 1 - (h + w) \in Int
          BY <1>7
        <4>. QED
          BY <1>0, <4>1, <4>2
      <3>9. Copied(flash', p, v)
        <4>1. k \in 0 .. Size - 1 /\ k <= a.end /\ Base + w + k <= MaxAddr + 1
          BY <1>0, <1>5, <1>6, <1>7, <3>2, <3>8
        <4>2. Holds(a, s, FileAt(p) + w, n + 1)
          BY <1>8 DEF h
        <4>. QED
          BY <1>2, <1>6, <1>8, <1>9, <2>0, <3>3, <3>7, <4>1, <4>2, CopiedMore
      <3>10. Holds(q2, s, h + v, n + 1)
        <4>1. q2.end = n + 1 - (h + v)
          BY <1>0, <1>6, <1>7, <3>2, <3>6, <3>7, <3>8
        <4>2. ASSUME NEW i \in 1 .. n + 1 - (h + v) PROVE q2.acBuf[i - 1] = s[(h + v) + i]
          <5>1. i - 1 \in 0 .. Size - 2 - k /\ (i - 1) + k + 1 \in 1 .. n + 1 - (h + w)
                /\ ((i - 1) + k + 1) - 1 = (i - 1) + k /\ (h + w) + ((i - 1) + k + 1) = (h + v) + i
            BY <1>0, <1>6, <1>7, <3>2, <3>7, <3>8
          <5>2. q2.acBuf[i - 1] = a.acBuf[(i - 1) + k]
            BY <3>5, <3>6, <5>1
          <5>3. a.acBuf[(i - 1) + k] = s[(h + w) + ((i - 1) + k + 1)]
            BY <1>8, <5>1 DEF Holds
          <5>. QED
            BY <5>1, <5>2, <5>3
        <4>3. \A i \in 1 .. n + 1 - (h + v) : q2.acBuf[i - 1] = s[(h + v) + i]
          BY <4>2
        <4>. QED
          <5>1. PICK f, n1 : f = h + v /\ n1 = n + 1
            OBVIOUS
          <5>2. q2.header = 0 /\ q2.end = n1 - f /\ \A i \in 1 .. n1 - f : q2.acBuf[i - 1] = s[f + i]
            BY <3>6, <4>1, <4>3, <5>1
          <5>3. Holds(q2, s, f, n1)
            BY <5>2, HoldsIf
          <5>. QED
            BY <5>1, <5>3
      <3>11. CASE v <= F + 2
        <4>1. q2.pfFlashTmpFile - Base = v
          BY <1>0, <3>6, <3>7, SMTT(30)
        <4>. QED
          BY <2>0, <3>6, <3>9, <3>10, <3>11, <4>1 DEF InFile, Progress, h, F
      <3>12. CASE v > F + 2
        <4>1. h + v = n + 1 - (L + 2 + sp)
          <5>1. z = Size - 1 - L - 2
            OBVIOUS
          <5>. HIDE DEF z
          <5>2. n + 1 - (h + w) = Size - 1 /\ k = z - sp /\ v = w + k
            BY <3>4, <3>7, <3>8
          <5>3. h \in Nat
            BY <1>0
          <5>4. w \in Nat /\ L \in Nat /\ Size \in Nat
            BY <1>0, <1>6
          <5>5. v = w + (Size - 1 - L - 2 - sp)
            BY <5>1, <5>2
          <5>6. n + 1 - (h + w) = Size - 1
            BY <5>2
          <5>7. n + 1 = (h + w) + (Size - 1)
            BY <5>3, <5>4, <5>6
          <5>8. PICK h0 \in Nat, w0 \in Nat, L0 \in Nat : h0 = h /\ w0 = w /\ L0 = L
            BY <5>3, <5>4
          <5>9. v = w0 + (Size - 1 - L0 - 2 - sp) /\ n + 1 = (h0 + w0) + (Size - 1)
            BY <5>5, <5>7, <5>8
          <5>10. h0 + v = n + 1 - (L0 + 2 + sp)
            BY <5>4, <5>9
          <5>. QED
            BY <5>8, <5>10
        <4>2. n + 1 = Until(p) + 1 /\ sp = 0 /\ p.more
          <5>1. n + 1 = Until(p) + 1 /\ sp = 0 /\ Sought(p) # Until(p) + 1
            BY <1>0, <1>1, <2>0, <3>12, <4>1
          <5>. QED
            BY <1>0, <1>1, <5>1
        <4>3. n + 1 > Until(p) /\ z % 4 = 0 /\ F <= v
          BY <1>0, <3>4, <3>12, <4>2
        <4>4. Whole(flash', q2, p)
          BY <3>6, <3>7, <3>9, <4>3, CopiedWhole DEF F
        <4>. QED
          BY <4>2, <4>3, <4>4 DEF Unseen, Progress, L
      <3>. QED
        BY <1>0, <3>7, <3>11, <3>12
    <2>. QED
      BY <2>2, <2>3
  <1>. QED
    BY <1>10, <1>11
------------------------------------------------------------------------------
(* One byte after the file *)

\* The states a line leads to.
LEMMA LineStates ==
  ASSUME NEW a \in Parts, a.header # a.end, Size > 2, NEW ch
  PROVE  /\ a.iState = "BODYPARAM" => Line(a, ch).iState \in {"BODYPARAM", "HEADER"}
         /\ a.iState = "HEADER" => Line(a, ch).iState \in {"HEADER", "ONE_CR"}
         /\ a.iState = "HEADER" /\ ch # LF => Line(a, ch).iState = "HEADER"
  <1>1. PICK c \in Parts : c = MPClean(a) /\ c.iState = a.iState
    BY CleanIs DEF CleanedTo, SamePart
  <1>2. PICK d \in Parts : d = MPClear(c)
    BY <1>1, ClearIs
  <1>3. "HEADER" \in PartStates /\ "ONE_CR" \in PartStates
    BY DEF PartStates
  <1>4. To(d, "HEADER").iState = "HEADER" /\ To(c, "ONE_CR").iState = "ONE_CR"
    BY <1>1, <1>2, <1>3, ToIs
  <1>5. CASE a.iState = "BODYPARAM"
    <2>1. Line(a, ch) = IF MPTestBoundary(c) # NULL THEN To(d, "HEADER") ELSE c
      BY <1>1, <1>2, <1>5 DEF Line
    <2>. QED
      BY <1>1, <1>4, <1>5, <2>1
  <1>6. CASE a.iState = "HEADER"
    <2>1. Line(a, ch) = IF ch # LF THEN a ELSE IF MPTestBoundary(c) = NULL THEN To(c, "ONE_CR") ELSE c
      BY <1>1, <1>2, <1>6 DEF Line
    <2>. QED
      BY <1>1, <1>4, <1>6, <2>1
  <1>. QED
    BY <1>5, <1>6

\* The bytes after the delimiter that follows the file.
LEMMA RestIs ==
  ASSUME NEW p, PostOK(p), NEW s, Layout(p, s), Rest(p, s), NEW S \in Nat, S = Sought(p)
  PROVE  /\ s[S + 1] \notin {LF, HFile} /\ s[S + 2] = CR /\ s[S + 3] = LF
         /\ Len(s) > S + 3 => /\ p.more /\ s[S + 1] = HParam /\ s[S + 4] = CR /\ s[S + 5] = LF
                              /\ \A i \in S + 9 .. Len(s) - 1 : s[i] # LF
  <1>0. PICK u \in Nat : u = Until(p)
    BY MorePlaces
  <1>1. PICK L \in Nat : L = Len(p.boundary)
    BY Places
  <1>2. p.more \in BOOLEAN /\ Len(s) \in Nat
    BY Places, StreamLength
  <1>3. CASE p.more
    <2>1. S = u + 2 /\ Len(s) = S + L + 14
      <3>1. Sought(p) = Until(p) + 2 /\ Len(s) = Sought(p) + L + 14
        BY <1>1, <1>3, Places DEF Layout
      <3>. QED
        BY <1>0, <3>1
    <2>2. /\ s[u + 3] = HParam /\ s[u + 4] = CR /\ s[u + 5] = LF
          /\ s[u + 6] = CR /\ s[u + 7] = LF
          /\ \A i \in u + 11 .. u + L + 15 : s[i] # LF
      BY <1>0, <1>1, <1>3 DEF Rest
    <2>3. S + 1 = u + 3 /\ S + 2 = u + 4 /\ S + 3 = u + 5 /\ S + 4 = u + 6 /\ S + 5 = u + 7 /\ S + 9 = u + 11
          /\ Len(s) - 1 = u + L + 15
      BY <2>1
    <2>. QED
      <3>1. s[S + 1] = HParam /\ s[S + 2] = CR /\ s[S + 3] = LF /\ s[S + 4] = CR /\ s[S + 5] = LF
        BY <2>2, <2>3
      <3>2. \A i \in S + 9 .. Len(s) - 1 : s[i] # LF
        BY <2>2, <2>3
      <3>3. HParam \notin {LF, HFile}
        BY DEF HParam, LF, HFile
      <3>. QED
        BY <1>3, <3>1, <3>2, <3>3
  <1>4. CASE ~p.more
    <2>1. S = u + 1 /\ Len(s) = S + 3
      <3>1. Sought(p) = Until(p) + 1 /\ Len(s) = Sought(p) + 3
        BY <1>4, Places DEF Layout
      <3>. QED
        BY <1>0, <3>1
    <2>2. s[u + 2] = DASH /\ s[u + 3] = CR /\ s[u + 4] = LF
      BY <1>0, <1>4 DEF Rest
    <2>3. S + 1 = u + 2 /\ S + 2 = u + 3 /\ S + 3 = u + 4 /\ ~(Len(s) > S + 3)
      BY <1>2, <2>1
    <2>. QED
      BY <2>2, <2>3 DEF DASH, LF, HFile
  <1>. QED
    BY <1>2, <1>3, <1>4

\* AfterFile but for the flash.
Trailing(q, s, S, n) ==
    LET m == n - S
    IN  \/ m \in 0 .. 2 /\ q.iState = "HEADER" /\ Holds(q, s, S, n)
        \/ m = 3 /\ q.iState = "ONE_CR" /\ Holds(q, s, S, n)
        \/ m = 4 /\ q.iState = "TWO_LF" /\ Holds(q, s, S, n)
        \/ m \in 5 .. 7 /\ q.iState = "BODYPARAM" /\ q.header = 0 /\ q.end = m - 5
        \/ m >= 8 /\ q.iState \in {"BODYPARAM", "HEADER"}
        \/ m >= 8 /\ q.iState = "ONE_CR" /\ n = Len(s)

\* AfterFile in these terms.
LEMMA AfterIs ==
  ASSUME NEW fl, NEW q, NEW p, NEW n
  PROVE  AfterFile(fl, q, p, n) <=> /\ Whole(fl, q, p) /\ q.pfFlashTmpFile <= Base + Len(p.file) + 2
                                    /\ Trailing(q, Stream(p), Sought(p), n)
  BY DEF AfterFile, Trailing

\* The same data under another state.
LEMMA HoldsToo ==
  ASSUME NEW a, NEW c, NEW s, NEW from, NEW n, Holds(a, s, from, n),
         c.header = a.header, c.end = a.end, c.acBuf = a.acBuf
  PROVE  Holds(c, s, from, n)
  BY DEF Holds

\* One byte of the fields after the file: the part's header, its value, the last delimiter.
LEMMA TrailingStep ==
  ASSUME NEW p, PostOK(p), NEW s, Layout(p, s), Rest(p, s), NEW q \in Parts,
         q.acBoundary = p.boundary, NEW n \in Nat, n < Len(s), PartOK(q, n), NEW S \in Nat, S = Sought(p),
         Trailing(q, s, S, n), NEW ch, ch = s[n + 1], NEW a, a = MPAddChar(q, ch),
         NEW q2, q2 = Line(a, ch), NEW n1 \in Nat, n1 = n + 1
  PROVE  Trailing(q2, s, S, n1)
  <1>0. Size \in Nat /\ Size > 8 /\ Size > 2
    BY MorePlaces, SizeNat
  <1>1. s \in Seq(Int) /\ Len(s) \in Nat
    BY StreamLength DEF Layout
  <1>2. ch \in Int
    <2>1. n + 1 \in 1 .. Len(s)
      BY <1>1
    <2>. QED
      BY <1>1, <2>1
  <1>3. /\ s[S + 1] \notin {LF, HFile} /\ s[S + 2] = CR /\ s[S + 3] = LF
        /\ Len(s) > S + 3 => /\ s[S + 1] = HParam /\ s[S + 4] = CR /\ s[S + 5] = LF
                             /\ \A i \in S + 9 .. Len(s) - 1 : s[i] # LF
    BY RestIs
  <1>4. PICK m \in Int : m = n - S
    OBVIOUS
  <1>5. PICK m1 \in Int : m1 = n1 - S /\ m1 = m + 1
    BY <1>4
  <1>6. \/ m \in 0 .. 2 /\ q.iState = "HEADER" /\ Holds(q, s, S, n)
        \/ m = 3 /\ q.iState = "ONE_CR" /\ Holds(q, s, S, n)
        \/ m = 4 /\ q.iState = "TWO_LF" /\ Holds(q, s, S, n)
        \/ m \in 5 .. 7 /\ q.iState = "BODYPARAM" /\ q.header = 0 /\ q.end = m - 5
        \/ m >= 8 /\ q.iState \in {"BODYPARAM", "HEADER"}
        \/ m >= 8 /\ q.iState = "ONE_CR" /\ n = Len(s)
    BY <1>4 DEF Trailing
  <1>7. \/ m1 \in 0 .. 2 /\ q2.iState = "HEADER" /\ Holds(q2, s, S, n1)
        \/ m1 = 3 /\ q2.iState = "ONE_CR" /\ Holds(q2, s, S, n1)
        \/ m1 = 4 /\ q2.iState = "TWO_LF" /\ Holds(q2, s, S, n1)
        \/ m1 \in 5 .. 7 /\ q2.iState = "BODYPARAM" /\ q2.header = 0 /\ q2.end = m1 - 5
        \/ m1 >= 8 /\ q2.iState \in {"BODYPARAM", "HEADER"}
        \/ m1 >= 8 /\ q2.iState = "ONE_CR" /\ n1 = Len(s)
        => Trailing(q2, s, S, n1)
    BY <1>5 DEF Trailing
  <1>8. AddedTo(q, ch, a)
    BY <1>0, <1>2, AddIs DEF PartOK
  <1>9. a \in Parts /\ a.iState = q.iState /\ a.header # a.end
    BY <1>8 DEF AddedTo, SamePart
  <1>10. ASSUME m \in 0 .. 4, Holds(q, s, S, n)
         PROVE  /\ Holds(a, s, S, n1) /\ a.header = 0 /\ a.end = m1
                /\ \A j \in 0 .. m : a.acBuf[j] = s[S + j + 1]
    <2>a. m >= 0 /\ m <= 4
      BY <1>10
    <2>b. n - S = m /\ n1 - S = m1
      BY <1>4, <1>5
    <2>1. S <= n /\ n + 1 - S < Size /\ n1 - S = m1 /\ n - S = m
      BY <1>0, <2>a, <2>b
    <2>2. /\ Holds(a, s, S, n + 1) /\ a.header = 0 /\ a.end = n + 1 - S
          /\ \A j \in 0 .. n - S : a.acBuf[j] = s[S + j + 1]
      <3>1. s[n + 1] \in Int /\ a = MPAddChar(q, s[n + 1])
        BY <1>2
      <3>2. S <= n /\ n + 1 - S < Size
        BY <2>1
      <3>3. Holds(q, s, S, n)
        BY <1>10
      <3>. QED
        BY <3>1, <3>2, <3>3, NextByte, SMTT(30)
    <2>. QED
      BY <2>1, <2>2
  <1>11. CASE m \in 0 .. 2 /\ q.iState = "HEADER" /\ Holds(q, s, S, n)
    <2>0. m \in 0 .. 4
      BY <1>11
    <2>1. /\ Holds(a, s, S, n1) /\ a.header = 0 /\ a.end = m1
          /\ \A j \in 0 .. m : a.acBuf[j] = s[S + j + 1]
      BY <1>10, <1>11, <2>0
    <2>2. CASE m # 2
      <3>1. m1 \in 0 .. 2 /\ (n + 1 = S + 1 \/ n + 1 = S + 2)
        BY <1>4, <1>5, <1>11, <2>2
      <3>2. ch # LF
        <4>1. ch = s[S + 1] \/ ch = s[S + 2]
          BY <3>1
        <4>. QED
          BY <1>3, <4>1 DEF CR, LF
      <3>3. q2 = a
        BY <1>9, <1>11, <2>1, <3>2, LineCases
      <3>. QED
        BY <1>7, <1>9, <1>11, <2>1, <3>1, <3>3
    <2>3. CASE m = 2
      <3>1. m1 = 3 /\ n + 1 = S + 3 /\ 1 \in 0 .. m /\ S + 1 + 1 = S + 2
        BY <1>4, <1>5, <2>3
      <3>2. ch = LF /\ a.acBuf[1] = CR /\ a.end = 3
        BY <1>3, <2>1, <3>1
      <3>3. MPTestBoundary(a) = NULL
        BY <1>9, <3>2, ShortLine
      <3>4. q2 = To(a, "ONE_CR")
        BY <1>9, <1>11, <2>1, <3>2, <3>3, LineCases
      <3>5. q2.iState = "ONE_CR" /\ q2.header = a.header /\ q2.end = a.end /\ q2.acBuf = a.acBuf
        <4>1. "ONE_CR" \in PartStates
          BY DEF PartStates
        <4>. QED
          BY <1>9, <3>4, <4>1, ToIs
      <3>6. Holds(q2, s, S, n1)
        BY <2>1, <3>5, HoldsToo
      <3>. QED
        BY <1>7, <3>1, <3>5, <3>6
    <2>. QED
      BY <2>2, <2>3
  <1>12. CASE m = 3 /\ q.iState = "ONE_CR" /\ Holds(q, s, S, n)
    <2>0. m \in 0 .. 4 /\ m1 = 4 /\ n + 1 = S + 4 /\ Len(s) > S + 3
      BY <1>1, <1>4, <1>5, <1>12, SMTT(30)
    <2>1. Holds(a, s, S, n1) /\ a.header = 0
      BY <1>10, <1>12, <2>0
    <2>2. ch = CR
      BY <1>3, <2>0
    <2>3. q2 = To(a, "TWO_LF")
      BY <1>9, <1>12, <2>1, <2>2, LineCases
    <2>4. q2.iState = "TWO_LF" /\ q2.header = a.header /\ q2.end = a.end /\ q2.acBuf = a.acBuf
      <3>1. "TWO_LF" \in PartStates
        BY DEF PartStates
      <3>. QED
        BY <1>9, <2>3, <3>1, ToIs
    <2>5. Holds(q2, s, S, n1)
      BY <2>1, <2>4, HoldsToo
    <2>. QED
      BY <1>7, <2>0, <2>4, <2>5
  <1>13. CASE m = 4 /\ q.iState = "TWO_LF" /\ Holds(q, s, S, n)
    <2>0. m \in 0 .. 4 /\ m1 = 5 /\ n + 1 = S + 5 /\ Len(s) > S + 3
      BY <1>1, <1>4, <1>5, <1>13, SMTT(30)
    <2>1. /\ a.header = 0 /\ a.end = 5
          /\ \A j \in 0 .. 4 : a.acBuf[j] = s[S + j + 1]
      BY <1>10, <1>13, <2>0
    <2>2. ch = LF
      BY <1>3, <2>0
    <2>3. q2 = PartNamed(a)
      BY <1>9, <1>13, <2>1, <2>2, LineCases
    <2>4. Naming(a) = "BODYPARAM"
      <3>1. s[S + 1] = HParam /\ s[S + 2] = CR /\ s[S + 3] = LF /\ s[S + 4] = CR /\ s[S + 5] = LF
        BY <1>3, <2>0
      <3>2. /\ a.acBuf[0] = s[S + 1] /\ a.acBuf[1] = s[S + 2] /\ a.acBuf[2] = s[S + 3]
            /\ a.acBuf[3] = s[S + 4] /\ a.acBuf[4] = s[S + 5]
        <4>1. S + 0 + 1 = S + 1 /\ S + 1 + 1 = S + 2 /\ S + 2 + 1 = S + 3 /\ S + 3 + 1 = S + 4 /\ S + 4 + 1 = S + 5
          OBVIOUS
        <4>2. 0 \in 0 .. 4 /\ 1 \in 0 .. 4 /\ 2 \in 0 .. 4 /\ 3 \in 0 .. 4 /\ 4 \in 0 .. 4
          OBVIOUS
        <4>. QED
          BY <2>1, <4>1, <4>2
      <3>3. a.acBuf[0] = HParam /\ \A j \in 0 .. 4 : a.acBuf[j] # HFile
        <4>1. \A j \in 0 .. 4 : j = 0 \/ j = 1 \/ j = 2 \/ j = 3 \/ j = 4
          OBVIOUS
        <4>2. HParam # HFile /\ CR # HFile /\ LF # HFile
          BY DEF HParam, CR, LF, HFile
        <4>3. /\ a.acBuf[0] # HFile /\ a.acBuf[1] # HFile /\ a.acBuf[2] # HFile
              /\ a.acBuf[3] # HFile /\ a.acBuf[4] # HFile
          BY <3>1, <3>2, <4>2
        <4>4. \A j \in 0 .. 4 : a.acBuf[j] # HFile
          <5>1. TAKE j \in 0 .. 4
          <5>. QED
            BY <4>1, <4>3, Zenon
        <4>. QED
          BY <3>1, <3>2, <4>4
      <3>4. a.header .. a.end - 1 = 0 .. 4
        BY <2>1
      <3>5. 0 \in 0 .. 4
        OBVIOUS
      <3>. QED
        BY <3>3, <3>4, <3>5 DEF Naming
    <2>5. q2.iState = "BODYPARAM" /\ q2.header = 0 /\ q2.end = 0
      BY <1>0, <1>9, <2>3, <2>4, PartNamedIs
    <2>6. m1 \in 5 .. 7 /\ m1 - 5 = 0
      BY <2>0
    <2>. QED
      BY <1>7, <2>5, <2>6
  <1>14. CASE m \in 5 .. 7 /\ q.iState = "BODYPARAM" /\ q.header = 0 /\ q.end = m - 5
    <2>1. CASE m # 7
      <3>1. m1 \in 5 .. 7 /\ q.end + 1 = m1 - 5 /\ q.end + 1 \in 0 .. 2 /\ q.end + 1 < Size
        BY <1>0, <1>5, <1>14, <2>1
      <3>2. a.header = 0 /\ a.end = q.end + 1
        BY <1>8, <1>14, <3>1 DEF AddedTo
      <3>3. MPTestBoundary(a) = NULL
        BY <1>9, <3>1, <3>2, ShortLine
      <3>4. q2 = a
        BY <1>9, <1>14, <3>2, <3>3, LineCases
      <3>. QED
        BY <1>7, <1>9, <1>14, <3>1, <3>2, <3>4
    <2>2. CASE m = 7
      <3>1. m1 >= 8
        BY <1>5, <2>2
      <3>2. q2.iState \in {"BODYPARAM", "HEADER"}
        BY <1>0, <1>9, <1>14, LineStates
      <3>. QED
        BY <1>7, <3>1, <3>2
    <2>. QED
      BY <2>1, <2>2
  <1>15. CASE m >= 8 /\ q.iState \in {"BODYPARAM", "HEADER"}
    <2>1. m1 >= 8
      BY <1>5, <1>15
    <2>2. CASE q.iState = "BODYPARAM"
      <3>1. q2.iState \in {"BODYPARAM", "HEADER"}
        BY <1>0, <1>9, <2>2, LineStates
      <3>. QED
        BY <1>7, <2>1, <3>1
    <2>3. CASE q.iState = "HEADER"
      <3>1. q2.iState \in {"HEADER", "ONE_CR"} /\ (ch # LF => q2.iState = "HEADER")
        BY <1>0, <1>9, <2>3, LineStates
      <3>2. ch = LF => n1 = Len(s)
        <4>1. SUFFICES ASSUME n1 # Len(s) PROVE s[n + 1] # LF
          OBVIOUS
        <4>2. n + 1 \in S + 9 .. Len(s) - 1 /\ Len(s) > S + 3
          <5>1. PICK e \in Nat : e = Len(s)
            BY <1>1
          <5>2. n < e /\ n + 1 # e /\ m >= 8
            BY <1>15, <4>1, <5>1
          <5>3. n + 1 \in S + 9 .. e - 1 /\ e > S + 3
            BY <1>4, <5>2
          <5>. QED
            BY <5>1, <5>3
        <4>. QED
          BY <1>3, <4>2
      <3>. QED
        BY <1>7, <2>1, <3>1, <3>2
    <2>. QED
      BY <1>15, <2>2, <2>3
  <1>16. ~(n = Len(s))
    BY <1>1
  <1>. QED
    BY <1>6, <1>11, <1>12, <1>13, <1>14, <1>15, <1>16

\* One byte after the file leaves the image.
LEMMA AfterStep ==
  ASSUME NEW p, PostOK(p), NEW s, s = Stream(p), Layout(p, s), Rest(p, s), NEW q \in Parts,
         q.acBoundary = p.boundary, NEW n \in Nat, n < Len(s), PartOK(q, n), NEW fl,
         AfterFile(fl, q, p, n), NEW q2, q2 = Line(MPAddChar(q, s[n + 1]), s[n + 1]),
         q2.pfFlashTmpFile = q.pfFlashTmpFile
  PROVE  AfterFile(fl, q2, p, n + 1)
  <1>1. PICK S \in Nat : S = Sought(p)
    BY MorePlaces
  <1>2. PICK n1 \in Nat : n1 = n + 1
    OBVIOUS
  <1>3. Whole(fl, q, p) /\ q.pfFlashTmpFile <= Base + Len(p.file) + 2 /\ Trailing(q, s, S, n)
    BY <1>1, AfterIs
  <1>4. Trailing(q2, s, S, n1)
    BY <1>1, <1>2, <1>3, TrailingStep
  <1>5. Whole(fl, q2, p) /\ q2.pfFlashTmpFile <= Base + Len(p.file) + 2
    BY <1>3 DEF Whole
  <1>6. AfterFile(fl, q2, p, n1)
    BY <1>1, <1>4, <1>5, AfterIs
  <1>. QED
    BY <1>2, <1>6

\* A write further on leaves the file.
LEMMA WholeStays ==
  ASSUME NEW p, PostOK(p), NEW q \in Parts, NEW q2 \in Parts, NEW fl, NEW fl2, Whole(fl, q, p),
         q2.pfFlashTmpFile >= q.pfFlashTmpFile, q.pfFlashTmpFile <= MaxAddr + 1,
         \A x \in Cells : x < q.pfFlashTmpFile => fl2[x] = fl[x]
  PROVE  Whole(fl2, q2, p)
  <1>0. Base \in Nat /\ MaxAddr \in Nat
    BY UploadAssumption
  <1>1. PICK F \in Nat : F = Len(p.file)
    BY Places
  <1>2. PICK f \in Nat, f2 \in Nat : f = q.pfFlashTmpFile /\ f2 = q2.pfFlashTmpFile
    BY PartIs
  <1>3. f >= Base + F /\ \A i \in 1 .. F : fl[Base + i - 1] = p.file[i]
    BY <1>1, <1>2 DEF Whole
  <1>4. f2 >= Base + F
    BY <1>0, <1>2, <1>3
  <1>5. ASSUME NEW i \in 1 .. F PROVE fl2[Base + i - 1] = p.file[i]
    <2>1. PICK x \in Int : x = Base + i - 1
      BY <1>0
    <2>2. x \in Cells /\ x < f
      BY <1>0, <1>2, <1>3, <2>1 DEF Cells
    <2>. QED
      BY <1>2, <1>3, <2>1, <2>2
  <1>. QED
    BY <1>1, <1>2, <1>4, <1>5 DEF Whole

\* One byte of an upload.
LEMMA ByteStep ==
  ASSUME NEW p, PostOK(p), p.kind = "file", NEW s, s = Stream(p), NEW q \in Parts, q.acBoundary = p.boundary,
         NEW n \in Nat, n < Len(s), PartOK(q, n), flash \in [Cells -> Int], Progress(flash, q, p, n),
         NEW q2, Taken(MPAddChar(q, s[n + 1]), s[n + 1], q2)
  PROVE  Progress(flash', q2, p, n + 1)
  <1>0. Layout(p, s) /\ Rest(p, s)
    BY StreamIs
  <1>1. Base \in Nat /\ MaxAddr \in Nat /\ Len(q.acBoundary) + 8 < Size /\ Base + Len(s) <= MaxAddr + 1 /\ Size > 2
    BY UploadAssumption, MorePlaces, SizeNat DEF PostOK
  <1>2. s \in Seq(Int) /\ Len(s) \in Nat
    BY <1>0, StreamLength DEF Layout
  <1>3. PICK ch \in Int : ch = s[n + 1]
    <2>1. n + 1 \in 1 .. Len(s)
      BY <1>2
    <2>. QED
      BY <1>2, <2>1
  <1>4. PICK a : a = MPAddChar(q, ch)
    OBVIOUS
  <1>5. a \in Parts /\ a.iState = q.iState /\ a.pfFlashTmpFile = q.pfFlashTmpFile /\ a.header # a.end
    <2>1. AddedTo(q, ch, a)
      BY <1>1, <1>4, AddIs DEF PartOK
    <2>. QED
      BY <2>1 DEF AddedTo, SamePart
  <1>6. Taken(a, ch, q2)
    BY <1>3, <1>4
  <1>7. ASSUME q.iState # "BODYFILE"
        PROVE  flash' = flash /\ q2 = Line(MPAddChar(q, s[n + 1]), s[n + 1]) /\ q2.pfFlashTmpFile = q.pfFlashTmpFile
    <2>1. flash' = flash /\ q2 = Line(a, ch)
      BY <1>5, <1>6, <1>7 DEF Taken
    <2>2. Line(a, ch).pfFlashTmpFile = a.pfFlashTmpFile
      BY <1>1, <1>5, <1>7, LineIs DEF Parsing
    <2>. QED
      BY <1>3, <1>4, <1>5, <2>1, <2>2
  <1>8. CASE BeforeFile(q, p, n)
    <2>1. q.iState # "BODYFILE"
      BY <1>8 DEF BeforeFile
    <2>2. q2 = Line(MPAddChar(q, s[n + 1]), s[n + 1])
      BY <1>7, <2>1
    <2>. QED
      BY <1>0, <1>8, <2>2, BeforeStep
  <1>9. CASE InFile(flash, q, p, n)
    BY <1>0, <1>1, <1>9, FileStep
  <1>10. CASE AfterFile(flash, q, p, n)
    <2>1. q.iState # "BODYFILE"
      BY <1>10 DEF AfterFile
    <2>2. q2 = Line(MPAddChar(q, s[n + 1]), s[n + 1]) /\ q2.pfFlashTmpFile = q.pfFlashTmpFile /\ flash' = flash
      BY <1>7, <2>1
    <2>3. AfterFile(flash, q2, p, n + 1)
      BY <1>0, <1>10, <2>2, AfterStep
    <2>. QED
      BY <2>2, <2>3 DEF Progress
  <1>11. CASE Unseen(flash, q, p, n)
    <2>1. /\ q2 \in Parts /\ q2.pfFlashTmpFile >= q.pfFlashTmpFile
          /\ \A x \in Cells : x < q.pfFlashTmpFile => flash'[x] = flash[x]
      BY <1>1, <1>3, TakenType
    <2>2. q.pfFlashTmpFile <= MaxAddr + 1
      <3>1. PICK f \in Nat : f = q.pfFlashTmpFile
        BY PartIs
      <3>2. f - Base <= n
        BY <3>1 DEF PartOK
      <3>. QED
        BY <1>1, <1>2, <3>1, <3>2
    <2>3. Whole(flash, q, p) /\ p.more /\ n > Until(p) /\ (Size - 1 - Len(p.boundary) - 2) % 4 = 0
      BY <1>11 DEF Unseen
    <2>4. Whole(flash', q2, p)
      BY <2>1, <2>2, <2>3, WholeStays
    <2>5. n + 1 > Until(p)
      <3>1. Until(p) \in Nat /\ n > Until(p)
        BY <2>3, MorePlaces
      <3>. QED
        BY <3>1
    <2>6. Unseen(flash', q2, p, n + 1)
      BY <2>3, <2>4, <2>5 DEF Unseen
    <2>. QED
      BY <2>6 DEF Progress
  <1>. QED
    BY <1>8, <1>9, <1>10, <1>11 DEF Progress

\* The end of the request.
LEMMA EndIs ==
  ASSUME NEW p, PostOK(p), p.kind = "file", NEW fl, NEW q, Progress(fl, q, p, Len(Stream(p)))
  PROVE  /\ Whole(fl, q, p)
         /\ q.pfFlashTmpFile <= Base + Len(p.file) + 2 \/ (p.more /\ (Size - 1 - Len(p.boundary) - 2) % 4 = 0)
  <1>1. PICK s : s = Stream(p)
    OBVIOUS
  <1>2. Layout(p, s)
    BY <1>1, StreamIs
  <1>3. PICK e \in Nat : e = Len(s)
    BY <1>2, StreamLength
  <1>4. PICK L \in Nat, S \in Nat : L = Len(p.boundary) /\ S = Sought(p)
    BY Places, MorePlaces
  <1>5. e >= S + 3 /\ e > L + 9
    BY <1>2, <1>3, <1>4, StreamLength
  <1>6. ~BeforeFile(q, p, e)
    <2>1. ~(e < L + 4) /\ ~(e \in L + 4 .. L + 4 + 2) /\ ~(e = L + 4 + 3) /\ ~(e = L + 4 + 4)
      BY <1>5
    <2>. QED
      BY <1>4, <2>1 DEF BeforeFile
  <1>7. ~InFile(fl, q, p, e)
    <2>1. ~(e < Sought(p))
      BY <1>4, <1>5
    <2>. QED
      BY <2>1 DEF InFile
  <1>8. AfterFile(fl, q, p, e) \/ Unseen(fl, q, p, e)
    BY <1>1, <1>3, <1>6, <1>7 DEF Progress
  <1>. QED
    BY <1>8 DEF AfterFile, Unseen

------------------------------------------------------------------------------
(* The steps of the requests *)

\* The requests are the ones assumed.
LEMMA PostsOK ==
  ASSUME UploadTypeOK, NEW r \in Req
  PROVE  PostOK(post[r])
  BY UploadAssumption DEF UploadTypeOK

\* A parser's state at the start.
LEMMA NewPartIs ==
  ASSUME NEW b \in Seq(Int), Size > 2
  PROVE  NewPart(b) \in Parts /\ PartOK(NewPart(b), 0) /\ NewPart(b).acBoundary = b
         /\ NewPart(b).iState = "IGNORE" /\ NewPart(b).pfFlashTmpFile = Base
         /\ NewPart(b).header = 0 /\ NewPart(b).end = 0
  <1>0. Base \in Nat /\ Size \in Nat
    BY UploadAssumption
  <1>1. 0 \in Indices /\ [i \in 0 .. Size - 1 |-> 0] \in Ring /\ "IGNORE" \in PartStates
    BY <1>0 DEF Indices, Ring, PartStates
  <1>2. /\ NewPart(b).acBoundary = b
        /\ NewPart(b).iState = "IGNORE" /\ NewPart(b).pfFlashTmpFile = Base
        /\ NewPart(b).header = 0 /\ NewPart(b).end = 0
    BY DEF NewPart
  <1>3. NewPart(b) \in Parts
    BY <1>0, <1>1 DEF NewPart, Parts
  <1>4. PartOK(NewPart(b), 0)
    <2>. HIDE DEF NewPart
    <2>1. NewPart(b).pfFlashTmpFile >= Base /\ NewPart(b).pfFlashTmpFile - Base <= 0
      BY <1>0, <1>2
    <2>2. NewPart(b).iState # "BODYFILE"
      BY <1>2
    <2>. QED
      BY <1>2, <2>1, <2>2 DEF PartOK
  <1>. QED
    BY <1>2, <1>3, <1>4

PostStates == {"NONE", "OK", "ERROR", "NO_MEM", "REFUSED", "OVER"}

\* What one byte of a request changes.
Advance(r, q2) ==
    /\ part' = [part EXCEPT ![r] = q2] /\ pos' = [pos EXCEPT ![r] = @ + 1]
    /\ part'[r] = q2 /\ \A o \in Req : o # r => part'[o] = part[o]
    /\ pos'[r] = pos[r] + 1 /\ \A o \in Req : o # r => pos'[o] = pos[o]
    /\ q2 \in Parts /\ q2.acBoundary = part[r].acBoundary /\ PartOK(q2, pos[r] + 1)
    /\ flash' \in [Cells -> Int]
    /\ \/ UNCHANGED <<flash, dirty, mixed>>
       \/ dirty' = TRUE /\ mixed' = (mixed \/ reader.addr # 0)
    /\ Progress(flash, part[r], post[r], pos[r]) => Progress(flash', q2, post[r], pos[r] + 1)

\* One byte of a request advances its parser, and keeps what is known of its progress.
LEMMA AdvanceIs ==
  ASSUME UploadTypeOK, OneUpload, NEW r \in Req, PostData(r)
  PROVE  \E q2 : Advance(r, q2)
  <1>1. PICK q2 : /\ part' = [part EXCEPT ![r] = q2]
                  /\ Taken(MPAddChar(part[r], Stream(post[r])[pos[r] + 1]), Stream(post[r])[pos[r] + 1], q2)
    BY ByteIs DEF PostData
  <1>2. PICK p, q, n : p = post[r] /\ q = part[r] /\ n = pos[r]
    OBVIOUS
  <1>3. PICK s : s = Stream(p)
    OBVIOUS
  <1>4. /\ PostOK(p) /\ q \in Parts /\ n \in Nat /\ q.acBoundary = p.boundary /\ PartOK(q, n)
        /\ flash \in [Cells -> Int] /\ Base \in Nat /\ MaxAddr \in Nat
    BY <1>2, PostsOK, UploadAssumption DEF UploadTypeOK, Cells
  <1>5. n < Len(s) /\ pos' = [pos EXCEPT ![r] = @ + 1] /\ piPostState[r] = "OK"
    BY <1>2, <1>3 DEF PostData
  <1>6. p.kind = "file"
    BY <1>2, <1>5 DEF OneUpload, Uploading
  <1>7. Layout(p, s)
    BY <1>3, <1>4, <1>6, StreamIs
  <1>8. s[n + 1] \in Int
    <2>1. s \in Seq(Int) /\ Len(s) \in Nat
      BY <1>4, <1>7, StreamLength DEF Layout
    <2>2. n + 1 \in 1 .. Len(s)
      BY <1>4, <1>5, <2>1
    <2>. QED
      BY <2>1, <2>2
  <1>9. Taken(MPAddChar(q, s[n + 1]), s[n + 1], q2)
    BY <1>1, <1>2, <1>3
  <1>10. Len(q.acBoundary) + 8 < Size
    BY <1>4, Places
  <1>11. q2 \in Parts /\ q2.acBoundary = q.acBoundary /\ PartOK(q2, n + 1) /\ flash' \in [Cells -> Int]
    BY <1>4, <1>8, <1>9, <1>10, TakenType
  <1>12. Progress(flash, q, p, n) => Progress(flash', q2, p, n + 1)
    BY <1>3, <1>4, <1>5, <1>6, <1>9, ByteStep
  <1>13. \/ UNCHANGED <<flash, dirty, mixed>>
         \/ dirty' = TRUE /\ mixed' = (mixed \/ reader.addr # 0)
    BY <1>9 DEF Taken, WrittenAs
  <1>14. /\ part'[r] = q2 /\ \A o \in Req : o # r => part'[o] = part[o]
         /\ pos'[r] = pos[r] + 1 /\ \A o \in Req : o # r => pos'[o] = pos[o]
    BY <1>1, <1>5 DEF UploadTypeOK
  <1>. QED
    BY <1>1, <1>2, <1>5, <1>11, <1>12, <1>13, <1>14 DEF Advance

\* What a change of a request's state leaves.
LEMMA StateIs ==
  ASSUME UploadTypeOK, NEW r \in Req, NEW st \in PostStates, State(r, st)
  PROVE  /\ piPostState' \in [Req -> PostStates] /\ piPostState'[r] = st
         /\ \A o \in Req : o # r => piPostState'[o] = piPostState[o]
  BY DEF UploadTypeOK, State, PostStates

------------------------------------------------------------------------------
(* The reader *)

\* A block that Http_GetFirmware sends is not empty and stays within the image.
LEMMA ThisIs ==
  ASSUME NEW addr \in Nat, length \in Nat, addr < length
  PROVE  ThisLength(addr) \in 1 .. length - addr
  <1>1. Block \in Nat /\ Block > 0
    BY UploadAssumption
  <1>2. PICK o \in 0 .. Block - 1 : o = addr % Block
    BY <1>1
  <1>3. ThisLength(addr) = IF length - addr >= Block - o THEN Block - o ELSE length - addr
    BY <1>2 DEF ThisLength
  <1>. QED
    BY <1>1, <1>3

\* A block that is sent.
Sent(n) ==
    /\ n \in Nat /\ reader.addr + n <= length
    /\ reader'.addr = reader.addr + n /\ reader'.sent \in Seq(Int) /\ reader' \in [addr : Nat, sent : Seq(Int)]
    /\ Len(reader'.sent) = Len(reader.sent) + n
    /\ \A i \in 1 .. Len(reader.sent) : reader'.sent[i] = reader.sent[i]
    /\ \A i \in 1 .. n : reader'.sent[Len(reader.sent) + i] = flash[reader.addr + i - 1]

\* FillFirmwareData sends the next bytes of the flash.
LEMMA SentIs ==
  ASSUME UploadTypeOK, ReaderInv, FillFirmwareData
  PROVE  \E n : Sent(n)
  <1>0. Base \in Nat /\ MaxAddr \in Nat /\ Base > 0
    BY UploadAssumption
  <1>1. PICK d \in Nat, x \in Seq(Int) : d = reader.addr /\ x = reader.sent
    BY DEF UploadTypeOK
  <1>2. d # 0 /\ d < length /\ d >= Base
    BY <1>1 DEF FillFirmwareData, ReaderInv
  <1>3. length \in Nat /\ length <= MaxAddr + 1
    BY <1>0 DEF UploadTypeOK
  <1>4. PICK n \in Nat : n = ThisLength(d) /\ n >= 1 /\ d + n <= length
    <2>1. ThisLength(d) \in 1 .. length - d
      BY <1>2, <1>3, ThisIs
    <2>. QED
      BY <1>3, <2>1
  <1>5. PICK y : y = [i \in 1 .. n |-> flash[d + i - 1]]
    OBVIOUS
  <1>6. y \in Seq(Int) /\ Len(y) = n /\ \A i \in 1 .. n : y[i] = flash[d + i - 1]
    <2>1. ASSUME NEW i \in 1 .. n PROVE flash[d + i - 1] \in Int
      <3>1. d + i - 1 \in Base .. MaxAddr
        BY <1>0, <1>2, <1>3, <1>4
      <3>. QED
        BY <3>1 DEF UploadTypeOK
    <2>2. y \in [1 .. n -> Int]
      BY <1>5, <2>1
    <2>3. y \in Seq(Int) /\ Len(y) = n
      BY <2>2
    <2>. QED
      BY <1>5, <2>3
  <1>7. reader' = [addr |-> d + n, sent |-> x \o y]
    BY <1>1, <1>4, <1>5 DEF FillFirmwareData
  <1>8. Joined(x, Len(x), y, n, x \o y)
    BY <1>6, ConcatIs
  <1>9. reader'.addr = d + n /\ reader'.sent = x \o y
    BY <1>7
  <1>10. /\ x \o y \in Seq(Int) /\ Len(x \o y) = Len(x) + n
         /\ \A i \in 1 .. Len(x) : (x \o y)[i] = x[i]
         /\ \A i \in 1 .. n : (x \o y)[Len(x) + i] = flash[d + i - 1]
    BY <1>6, <1>8 DEF Joined
  <1>11. reader' \in [addr : Nat, sent : Seq(Int)]
    BY <1>7, <1>10
  <1>. QED
    BY <1>1, <1>4, <1>9, <1>10, <1>11, ZenonT(40) DEF Sent

------------------------------------------------------------------------------
(* The invariant *)

\* The invariant holds at the start.
LEMMA InitInv == Init => UploadInv
  <1> SUFFICES ASSUME Init PROVE UploadInv
    OBVIOUS
  <1>0. Base \in Nat /\ MaxAddr \in Nat /\ Size \in Nat /\ Base > 0
    BY UploadAssumption
  <1>1. /\ post \in Scenarios /\ pos = [r \in Req |-> 0] /\ part = [r \in Req |-> NewPart(post[r].boundary)]
        /\ piPostState = [r \in Req |-> IF post[r].kind = "none" THEN "OVER" ELSE "NONE"]
        /\ iFlashUpdateState = "STOP" /\ flash = [a \in Base .. MaxAddr |-> 0] /\ length = 0
        /\ reader = NoReader /\ spoilt = FALSE /\ dirty = FALSE /\ mixed = FALSE /\ image = <<>>
    BY DEF Init
  <1>2. ASSUME NEW r \in Req
        PROVE  /\ PostOK(post[r]) /\ pos[r] = 0 /\ part[r] = NewPart(post[r].boundary)
               /\ part[r] \in Parts /\ part[r].acBoundary = post[r].boundary /\ PartOK(part[r], pos[r])
               /\ pos[r] <= Len(Stream(post[r])) /\ piPostState[r] \in {"NONE", "OVER"}
    <2>1. PICK p : p = post[r]
      OBVIOUS
    <2>2. PostOK(p)
      BY <1>1, <2>1, UploadAssumption
    <2>3. p.boundary \in Seq(Int)
      BY <2>2 DEF PostOK
    <2>4. Size > 2
      BY <1>0, <2>2, MorePlaces
    <2>5. NewPart(p.boundary) \in Parts /\ PartOK(NewPart(p.boundary), 0) /\ NewPart(p.boundary).acBoundary = p.boundary
      BY <2>3, <2>4, NewPartIs
    <2>6. pos[r] = 0 /\ part[r] = NewPart(p.boundary) /\ piPostState[r] \in {"NONE", "OVER"}
      BY <1>1, <2>1
    <2>7. 0 <= Len(Stream(p))
      <3>1. CASE p.kind = "file"
        <4>1. Len(Stream(p)) \in Nat
          BY <2>2, <3>1, StreamIs, StreamLength
        <4>. QED
          BY <4>1
      <3>2. CASE p.kind # "file"
        <4>1. Len(Stream(p)) = 0
          BY <3>2 DEF Stream
        <4>. QED
          BY <4>1
      <3>. QED
        BY <3>1, <3>2
    <2>. QED
      BY <2>1, <2>2, <2>5, <2>6, <2>7
  <1>3. UploadTypeOK
    <2>1. part \in [Req -> Parts]
      BY <1>1, <1>2
    <2>2. pos \in [Req -> Nat] /\ flash \in [Base .. MaxAddr -> Int]
      BY <1>1
    <2>3. piPostState \in [Req -> {"NONE", "OK", "ERROR", "NO_MEM", "REFUSED", "OVER"}]
      BY <1>1
    <2>4. reader \in [addr : Nat, sent : Seq(Int)]
      BY <1>1 DEF NoReader
    <2>5. image \in Seq(Int) /\ length \in {0} \cup (Base .. MaxAddr + 1)
      BY <1>1
    <2>. QED
      BY <1>1, <1>2, <2>1, <2>2, <2>3, <2>4, <2>5 DEF UploadTypeOK
  <1>4. Uploading = {}
    BY <1>2 DEF Uploading
  <1>5. OneUpload /\ ParseInv
    BY <1>2, <1>4 DEF OneUpload, ParseInv
  <1>6. ImageInv /\ ReaderInv
    BY <1>1 DEF ImageInv, ReaderInv, NoReader
  <1>. QED
    BY <1>3, <1>5, <1>6 DEF UploadInv

\* A request begins: alone, unless it is refused.
LEMMA InitStep ==
  ASSUME UploadInv, NEW r \in Req, PostInit(r)
  PROVE  UploadInv'
  <1>0. UploadTypeOK /\ OneUpload /\ ParseInv /\ ImageInv /\ ReaderInv
    BY DEF UploadInv
  <1>1. UNCHANGED <<post, pos, part, flash, length, reader, spoilt, dirty, mixed, image>>
    BY DEF PostInit
  <1>2. PICK st \in PostStates : State(r, st) /\ st \in {"REFUSED", "ERROR", "NO_MEM", "OK"}
                                 /\ (st = "OK" => post[r].kind = "file" /\ ~Shared /\ iFlashUpdateState' = "UPLOADING")
                                 /\ (st # "OK" => iFlashUpdateState' = iFlashUpdateState)
    BY DEF PostInit, PostStates
  <1>3. piPostState[r] = "NONE"
    BY DEF PostInit
  <1>4. /\ piPostState' \in [Req -> PostStates] /\ piPostState'[r] = st
        /\ \A o \in Req : o # r => piPostState'[o] = piPostState[o]
    BY <1>0, <1>2, StateIs
  <1>5. UploadTypeOK'
    <2>1. iFlashUpdateState' \in {"STOP", "UPLOADING"}
      BY <1>0, <1>2 DEF UploadTypeOK
    <2>. QED
      BY <1>0, <1>1, <1>4, <2>1 DEF UploadTypeOK, PostStates
  <1>6. ImageInv' /\ ReaderInv'
    BY <1>0, <1>1 DEF ImageInv, ReaderInv
  <1>7. CASE st # "OK"
    <2>1. Uploading' = Uploading /\ iFlashUpdateState' = iFlashUpdateState
      BY <1>2, <1>3, <1>4, <1>7 DEF Uploading
    <2>2. OneUpload'
      <3>1. (\A x \in Req : piPostState[x] = "NONE" => pos[x] = 0 /\ part[x] = NewPart(post[x].boundary))'
        BY <1>0, <1>1, <1>2, <1>4 DEF OneUpload
      <3>. QED
        BY <1>0, <1>1, <2>1, <3>1 DEF OneUpload, Shared
    <2>3. ParseInv'
      BY <1>0, <1>1, <2>1 DEF ParseInv
    <2>. QED
      BY <1>5, <1>6, <2>2, <2>3 DEF UploadInv
  <1>8. CASE st = "OK"
    <2>1. ~Shared /\ iFlashUpdateState' = "UPLOADING" /\ post[r].kind = "file"
      BY <1>2, <1>8
    <2>2. Uploading' = Uploading \cup {r}
      BY <1>4, <1>8 DEF Uploading
    <2>3. ~spoilt => Uploading = {}
      BY <1>0, <2>1 DEF OneUpload
    <2>4. OneUpload'
      <3>1. (\A x \in Req : piPostState[x] = "NONE" => pos[x] = 0 /\ part[x] = NewPart(post[x].boundary))'
        BY <1>0, <1>1, <1>4, <1>8 DEF OneUpload
      <3>2. (\A x \in Uploading : post[x].kind = "file")'
        BY <1>0, <1>1, <2>1, <2>2 DEF OneUpload
      <3>3. (~spoilt => \A x \in Uploading : Shared /\ \A o \in Uploading : o = x)'
        BY <1>1, <2>1, <2>2, <2>3 DEF Shared
      <3>. QED
        BY <3>1, <3>2, <3>3 DEF OneUpload
    <2>5. Progress(flash, part[r], post[r], pos[r])
      <3>1. PICK p, q : p = post[r] /\ q = part[r]
        OBVIOUS
      <3>2. pos[r] = 0 /\ q = NewPart(p.boundary) /\ PostOK(p)
        BY <1>0, <1>3, <3>1, PostsOK DEF OneUpload
      <3>3. p.boundary \in Seq(Int) /\ Size > 2
        BY <3>2, MorePlaces, SizeNat DEF PostOK
      <3>4. q.iState = "IGNORE" /\ q.pfFlashTmpFile = Base /\ q.header = 0 /\ q.end = 0
        BY <3>2, <3>3, NewPartIs
      <3>5. Holds(q, Stream(p), 0, 0)
        BY <3>4, HoldsNone
      <3>6. 0 < Len(p.boundary) + 4
        <4>1. Len(p.boundary) \in Nat
          BY <3>2, Places
        <4>. QED
          BY <4>1
      <3>7. BeforeFile(q, p, 0)
        BY <3>4, <3>5, <3>6 DEF BeforeFile
      <3>. QED
        BY <3>1, <3>2, <3>7 DEF Progress
    <2>6. ParseInv'
      BY <1>1, <2>2, <2>3, <2>5 DEF ParseInv
    <2>. QED
      BY <1>5, <1>6, <2>4, <2>6 DEF UploadInv
  <1>. QED
    BY <1>7, <1>8

\* A byte of a request.
LEMMA DataStep ==
  ASSUME UploadInv, NEW r \in Req, PostData(r)
  PROVE  UploadInv'
  <1>0. UploadTypeOK /\ OneUpload /\ ParseInv /\ ImageInv /\ ReaderInv
    BY DEF UploadInv
  <1>1. UNCHANGED <<post, piPostState, iFlashUpdateState, length, reader, spoilt, image>>
        /\ piPostState[r] = "OK" /\ pos[r] < Len(Stream(post[r]))
    BY DEF PostData
  <1>2. PICK q2 : Advance(r, q2)
    BY <1>0, AdvanceIs
  <1>3. /\ part' = [part EXCEPT ![r] = q2] /\ pos' = [pos EXCEPT ![r] = @ + 1]
        /\ part'[r] = q2 /\ \A o \in Req : o # r => part'[o] = part[o]
        /\ pos'[r] = pos[r] + 1 /\ \A o \in Req : o # r => pos'[o] = pos[o]
        /\ q2 \in Parts /\ q2.acBoundary = part[r].acBoundary /\ PartOK(q2, pos[r] + 1)
        /\ flash' \in [Cells -> Int]
    BY <1>2 DEF Advance
  <1>4. \/ UNCHANGED <<flash, dirty, mixed>>
        \/ dirty' = TRUE /\ mixed' = (mixed \/ reader.addr # 0)
    BY <1>2 DEF Advance
  <1>5. Progress(flash, part[r], post[r], pos[r]) => Progress(flash', q2, post[r], pos[r] + 1)
    BY <1>2 DEF Advance
  <1>6. UploadTypeOK'
    <2>1. pos' \in [Req -> Nat] /\ part' \in [Req -> Parts]
      BY <1>0, <1>3 DEF UploadTypeOK
    <2>2. pos[r] \in Nat /\ Len(Stream(post[r])) \in Nat
      <3>1. post[r].kind = "file"
        BY <1>0, <1>1 DEF OneUpload, Uploading
      <3>2. PICK p : p = post[r] /\ PostOK(p)
        BY <1>0, PostsOK
      <3>3. Len(Stream(p)) \in Nat
        BY <3>1, <3>2, StreamIs, StreamLength
      <3>. QED
        BY <1>0, <3>2, <3>3 DEF UploadTypeOK
    <2>3. pos'[r] <= Len(Stream(post[r]))
      BY <1>1, <1>3, <2>2
    <2>4. ASSUME NEW x \in Req
          PROVE  pos'[x] <= Len(Stream(post[x])) /\ part'[x].acBoundary = post[x].boundary /\ PartOK(part'[x], pos'[x])
      <3>1. CASE x = r
        BY <1>0, <1>3, <2>3, <3>1 DEF UploadTypeOK
      <3>2. CASE x # r
        BY <1>0, <1>3, <3>2 DEF UploadTypeOK
      <3>. QED
        BY <3>1, <3>2
    <2>5. flash' \in [Base .. MaxAddr -> Int]
      BY <1>3 DEF Cells
    <2>6. dirty' \in BOOLEAN /\ mixed' \in BOOLEAN
      BY <1>0, <1>4 DEF UploadTypeOK
    <2>7. (\A x \in Req : pos[x] <= Len(Stream(post[x])))'
      BY <1>1, <2>4
    <2>8. (\A x \in Req : part[x].acBoundary = post[x].boundary /\ PartOK(part[x], pos[x]))'
      BY <1>1, <2>4
    <2>. QED
      BY <1>0, <1>1, <2>1, <2>5, <2>6, <2>7, <2>8 DEF UploadTypeOK
  <1>7. Uploading' = Uploading
    BY <1>1 DEF Uploading
  <1>8. OneUpload'
    <2>1. (\A x \in Req : piPostState[x] = "NONE" => pos[x] = 0 /\ part[x] = NewPart(post[x].boundary))'
      BY <1>0, <1>1, <1>3 DEF OneUpload
    <2>. QED
      BY <1>0, <1>1, <1>7, <2>1 DEF OneUpload, Shared
  <1>9. ParseInv'
    <2>1. SUFFICES ASSUME ~spoilt, NEW x \in Uploading PROVE Progress(flash', part'[x], post[x], pos'[x])
      BY <1>1, <1>7 DEF ParseInv
    <2>2. r \in Uploading /\ x = r
      BY <1>0, <1>1, <2>1 DEF OneUpload, Uploading
    <2>3. Progress(flash, part[r], post[r], pos[r])
      BY <1>0, <2>1, <2>2 DEF ParseInv
    <2>. QED
      BY <1>3, <1>5, <2>2, <2>3
  <1>10. ImageInv'
    BY <1>0, <1>1, <1>4 DEF ImageInv
  <1>11. ReaderInv'
    <2>1. CASE UNCHANGED <<flash, dirty, mixed>>
      BY <1>0, <1>1, <2>1 DEF ReaderInv
    <2>2. CASE dirty' = TRUE /\ mixed' = (mixed \/ reader.addr # 0)
      BY <1>0, <1>1, <2>2 DEF ReaderInv
    <2>. QED
      BY <1>4, <2>1, <2>2
  <1>. QED
    BY <1>6, <1>8, <1>9, <1>10, <1>11 DEF UploadInv

\* A request is answered: with OK, the image is the file.
LEMMA OverStep ==
  ASSUME UploadInv, NEW r \in Req, PostOver(r)
  PROVE  UploadInv'
  <1>0. UploadTypeOK /\ OneUpload /\ ParseInv /\ ImageInv /\ ReaderInv
    BY DEF UploadInv
  <1>1. /\ UNCHANGED <<post, pos, part, flash, reader>> /\ State(r, "OVER")
        /\ iFlashUpdateState' = IF piPostState[r] = "REFUSED" THEN iFlashUpdateState ELSE "STOP"
        /\ spoilt' = (spoilt \/ (piPostState[r] # "REFUSED" /\ Uploading \ {r} # {}))
    BY DEF PostOver
  <1>2. /\ piPostState' \in [Req -> PostStates] /\ piPostState'[r] = "OVER"
        /\ \A o \in Req : o # r => piPostState'[o] = piPostState[o]
    <2>1. "OVER" \in PostStates
      BY DEF PostStates
    <2>. QED
      BY <1>0, <1>1, <2>1, StateIs
  <1>3. Uploading' = Uploading \ {r}
    BY <1>2 DEF Uploading
  <1>4. spoilt' \in BOOLEAN /\ (~spoilt' => ~spoilt) /\ iFlashUpdateState' \in {"STOP", "UPLOADING"}
    BY <1>0, <1>1 DEF UploadTypeOK
  <1>5. OneUpload'
    <2>1. (\A x \in Req : piPostState[x] = "NONE" => pos[x] = 0 /\ part[x] = NewPart(post[x].boundary))'
      BY <1>0, <1>1, <1>2 DEF OneUpload
    <2>2. (\A x \in Uploading : post[x].kind = "file")'
      BY <1>0, <1>1, <1>3 DEF OneUpload
    <2>3. (~spoilt => \A x \in Uploading : Shared /\ \A o \in Uploading : o = x)'
      <3>1. CASE piPostState[r] = "REFUSED"
        <4>1. Shared' = Shared
          BY <1>1, <3>1 DEF Shared
        <4>. QED
          BY <1>0, <1>3, <1>4, <4>1 DEF OneUpload
      <3>2. CASE piPostState[r] # "REFUSED"
        <4>1. ~spoilt' => Uploading' = {}
          BY <1>1, <1>3, <3>2
        <4>. QED
          BY <4>1
      <3>. QED
        BY <3>1, <3>2
    <2>. QED
      BY <2>1, <2>2, <2>3 DEF OneUpload
  <1>6. ParseInv'
    BY <1>0, <1>1, <1>3, <1>4 DEF ParseInv
  <1>7. CASE piPostState[r] = "OK"
    <2>1. /\ length' = part[r].pfFlashTmpFile /\ dirty' = FALSE /\ mixed' = (mixed \/ reader.addr # 0)
          /\ image' = post[r].file /\ pos[r] = Len(Stream(post[r]))
      BY <1>7 DEF PostOver
    <2>2. PICK p, q : p = post[r] /\ q = part[r]
      OBVIOUS
    <2>3. PostOK(p) /\ p.kind = "file" /\ q \in Parts /\ PartOK(q, Len(Stream(p))) /\ r \in Uploading
      BY <1>0, <1>7, <2>1, <2>2, PostsOK DEF UploadTypeOK, OneUpload, Uploading
    <2>4. length' \in Base .. MaxAddr + 1 /\ image' \in Seq(Int)
      <3>1. PICK e \in Nat : e = Len(Stream(p))
        BY <2>3, StreamIs, StreamLength
      <3>2. PICK f \in Nat : f = q.pfFlashTmpFile
        BY <2>3, PartIs
      <3>3. f >= Base /\ f - Base <= e /\ Base + e <= MaxAddr + 1 /\ p.file \in Seq(Int)
        BY <2>3, <3>1, <3>2 DEF PartOK, PostOK
      <3>4. Base \in Nat /\ MaxAddr \in Nat
        BY UploadAssumption
      <3>5. f \in Base .. MaxAddr + 1
        BY <3>3, <3>4
      <3>. QED
        BY <2>1, <2>2, <3>2, <3>3, <3>5
    <2>5. UploadTypeOK'
      <3>1. length' \in {0} \cup (Base .. MaxAddr + 1) /\ dirty' \in BOOLEAN /\ mixed' \in BOOLEAN
        BY <1>0, <2>1, <2>4 DEF UploadTypeOK
      <3>. QED
        BY <1>0, <1>1, <1>2, <1>4, <2>4, <3>1 DEF UploadTypeOK, PostStates
    <2>6. ImageInv'
      <3>1. SUFFICES ASSUME ~spoilt
                     PROVE  Base + Len(p.file) <= q.pfFlashTmpFile /\ \A i \in 1 .. Len(p.file) : flash[Base + i - 1] = p.file[i]
        BY <1>1, <1>4, <2>1, <2>2 DEF ImageInv
      <3>2. Progress(flash, q, p, Len(Stream(p)))
        BY <1>0, <2>1, <2>2, <2>3, <3>1 DEF ParseInv
      <3>3. Whole(flash, q, p)
        BY <2>3, <3>2, EndIs
      <3>4. Len(p.file) \in Nat /\ Base \in Nat /\ q.pfFlashTmpFile \in Nat
        BY <2>3, Places, PartIs, UploadAssumption
      <3>5. q.pfFlashTmpFile >= Base + Len(p.file)
        BY <3>3 DEF Whole
      <3>6. Base + Len(p.file) <= q.pfFlashTmpFile
        BY <3>4, <3>5
      <3>. QED
        BY <3>3, <3>6 DEF Whole
    <2>7. ReaderInv'
      BY <1>0, <1>1, <2>1 DEF ReaderInv
    <2>. QED
      BY <1>5, <1>6, <2>5, <2>6, <2>7 DEF UploadInv
  <1>8. CASE piPostState[r] # "OK"
    <2>1. UNCHANGED <<length, dirty, mixed, image>>
      BY <1>8 DEF PostOver
    <2>2. UploadTypeOK'
      BY <1>0, <1>1, <1>2, <1>4, <2>1 DEF UploadTypeOK, PostStates
    <2>3. ImageInv' /\ ReaderInv'
      BY <1>0, <1>1, <1>4, <2>1 DEF ImageInv, ReaderInv
    <2>. QED
      BY <1>5, <1>6, <2>2, <2>3 DEF UploadInv
  <1>. QED
    BY <1>7, <1>8

\* A connection breaks.
LEMMA LostStep ==
  ASSUME UploadInv, NEW r \in Req, PostLost(r)
  PROVE  UploadInv'
  <1>0. UploadTypeOK /\ OneUpload /\ ParseInv /\ ImageInv /\ ReaderInv
    BY DEF UploadInv
  <1>1. /\ UNCHANGED <<post, pos, part, iFlashUpdateState, flash, length, reader, spoilt, dirty, mixed, image>>
        /\ State(r, "OVER")
    BY DEF PostLost
  <1>2. /\ piPostState' \in [Req -> PostStates] /\ piPostState'[r] = "OVER"
        /\ \A o \in Req : o # r => piPostState'[o] = piPostState[o]
    <2>1. "OVER" \in PostStates
      BY DEF PostStates
    <2>. QED
      BY <1>0, <1>1, <2>1, StateIs
  <1>3. Uploading' = Uploading \ {r}
    BY <1>2 DEF Uploading
  <1>4. UploadTypeOK'
    BY <1>0, <1>1, <1>2 DEF UploadTypeOK, PostStates
  <1>5. OneUpload'
    <2>1. (\A x \in Req : piPostState[x] = "NONE" => pos[x] = 0 /\ part[x] = NewPart(post[x].boundary))'
      BY <1>0, <1>1, <1>2 DEF OneUpload
    <2>. QED
      BY <1>0, <1>1, <1>3, <2>1 DEF OneUpload, Shared
  <1>6. ParseInv' /\ ImageInv' /\ ReaderInv'
    BY <1>0, <1>1, <1>3 DEF ParseInv, ImageInv, ReaderInv
  <1>. QED
    BY <1>4, <1>5, <1>6 DEF UploadInv

\* A step of Http_GetFirmware.
LEMMA ReadStep ==
  ASSUME UploadInv, Http_GetFirmware \/ FillFirmwareData \/ ReadOver
  PROVE  UploadInv'
  <1>0. UploadTypeOK /\ OneUpload /\ ParseInv /\ ImageInv /\ ReaderInv
    BY DEF UploadInv
  <1>1. UNCHANGED <<post, pos, piPostState, part, iFlashUpdateState, flash, length, spoilt, dirty, image>>
    BY DEF Http_GetFirmware, FillFirmwareData, ReadOver
  <1>2. Base \in Nat /\ Base > 0 /\ MaxAddr \in Nat
    BY UploadAssumption
  <1>3. OneUpload' /\ ParseInv' /\ ImageInv'
    BY <1>0, <1>1 DEF OneUpload, ParseInv, ImageInv, Uploading, Shared
  <1>4. reader' \in [addr : Nat, sent : Seq(Int)] /\ mixed' \in BOOLEAN => UploadTypeOK'
    BY <1>0, <1>1 DEF UploadTypeOK
  <1>5. CASE Http_GetFirmware
    <2>1. reader' = [addr |-> Base, sent |-> <<>>] /\ mixed' = mixed /\ length # 0
      BY <1>5 DEF Http_GetFirmware
    <2>2. reader'.addr = Base /\ reader'.sent = <<>> /\ Len(reader'.sent) = 0
          /\ reader' \in [addr : Nat, sent : Seq(Int)] /\ mixed' \in BOOLEAN
      BY <1>0, <1>2, <2>1 DEF UploadTypeOK
    <2>3. Base <= length /\ Base - Base = 0 /\ Base >= Base
      BY <1>0, <1>2, <2>1 DEF UploadTypeOK
    <2>4. ReaderInv'
      BY <1>1, <2>2, <2>3 DEF ReaderInv
    <2>. QED
      BY <1>3, <1>4, <2>2, <2>4 DEF UploadInv
  <1>6. CASE FillFirmwareData
    <2>1. PICK n : Sent(n)
      BY <1>0, <1>6, SentIs
    <2>2. mixed' = mixed /\ reader.addr # 0
      BY <1>6 DEF FillFirmwareData
    <2>3. PICK d \in Nat, e \in Nat : d = reader.addr /\ e = Len(reader.sent)
      BY <1>0 DEF UploadTypeOK
    <2>4. d >= Base /\ e = d - Base /\ n \in Nat /\ d + n <= length /\ reader'.addr = d + n
          /\ Len(reader'.sent) = e + n
      BY <1>0, <2>1, <2>2, <2>3 DEF ReaderInv, Sent
    <2>5. reader'.addr >= Base /\ Len(reader'.sent) = reader'.addr - Base /\ reader'.addr <= length
      BY <1>2, <2>3, <2>4
    <2>6. ASSUME ~mixed, NEW i \in 1 .. e + n PROVE reader'.sent[i] = flash[Base + i - 1]
      <3>1. CASE i <= e
        <4>1. i \in 1 .. e
          BY <2>4, <3>1
        <4>2. reader.sent[i] = flash[Base + i - 1]
          BY <1>0, <2>2, <2>3, <2>6, <4>1 DEF ReaderInv
        <4>. QED
          BY <2>1, <2>3, <4>1, <4>2 DEF Sent
      <3>2. CASE i > e
        <4>1. PICK j \in 1 .. n : j = i - e
          BY <2>4, <3>2
        <4>2. e + j = i /\ d + j - 1 = Base + i - 1
          BY <1>2, <2>4, <4>1
        <4>3. reader'.sent[e + j] = flash[d + j - 1]
          BY <2>1, <2>3, <4>1 DEF Sent
        <4>. QED
          BY <4>2, <4>3
      <3>. QED
        BY <2>4, <3>1, <3>2
    <2>7. ReaderInv'
      <3>1. ~mixed => \A i \in 1 .. Len(reader'.sent) : reader'.sent[i] = flash[Base + i - 1]
        BY <2>4, <2>6
      <3>. QED
        BY <1>1, <2>2, <2>5, <3>1 DEF ReaderInv
    <2>8. reader' \in [addr : Nat, sent : Seq(Int)] /\ mixed' \in BOOLEAN
      BY <1>0, <2>1, <2>2 DEF UploadTypeOK, Sent
    <2>. QED
      BY <1>3, <1>4, <2>7, <2>8 DEF UploadInv
  <1>7. CASE ReadOver
    <2>1. reader' = [addr |-> 0, sent |-> <<>>] /\ mixed' = FALSE
      BY <1>7 DEF ReadOver, NoReader
    <2>2. reader' \in [addr : Nat, sent : Seq(Int)] /\ mixed' \in BOOLEAN /\ reader'.addr = 0
      <3>1. <<>> \in Seq(Int) /\ 0 \in Nat
        OBVIOUS
      <3>2. reader' \in [addr : Nat, sent : Seq(Int)]
        BY <2>1, <3>1
      <3>. QED
        BY <2>1, <3>2
    <2>3. ReaderInv'
      BY <2>2 DEF ReaderInv
    <2>. QED
      BY <1>3, <1>4, <2>2, <2>3 DEF UploadInv
  <1>. QED
    BY <1>5, <1>6, <1>7

\* In every state one request at most uploads (until a failed one has stopped the update
\* of another), its parser has got as far as its bytes say, the flash has the beginning of
\* the file that is written, and the reader's data is what the flash has: for any requests,
\* any boundary, any file and any size of the buffer.
THEOREM UploadInvariant == Spec => []UploadInv
  <1>1. Init => UploadInv
    BY InitInv
  <1>2. UploadInv /\ [Next]_vars => UploadInv'
    <2>1. SUFFICES ASSUME UploadInv, [Next]_vars PROVE UploadInv'
      OBVIOUS
    <2>2. CASE UNCHANGED vars
      BY <2>1, <2>2 DEF vars, UploadInv, UploadTypeOK, OneUpload, ParseInv, ImageInv, ReaderInv, Uploading, Shared
    <2>3. CASE Next
      BY <2>1, <2>3, InitStep, DataStep, OverStep, LostStep, ReadStep DEF Next
    <2>. QED
      BY <2>1, <2>2, <2>3
  <1>. QED
    BY <1>1, <1>2, PTL DEF Spec

\* A beginning of a sequence.
LEMMA PrefixIf ==
  ASSUME NEW a \in Seq(Int), NEW b \in Seq(Int), Len(a) <= Len(b), \A i \in 1 .. Len(a) : b[i] = a[i]
  PROVE  IsPrefix(a, b)
  <1>1. PICK n \in Nat : n = Len(a)
    OBVIOUS
  <1>2. SubSeq(a, 1, n) = [i \in 1 .. n |-> a[i]]
    BY <1>1
  <1>3. SubSeq(b, 1, n) = [i \in 1 .. n |-> b[i]]
    BY <1>1
  <1>4. [i \in 1 .. n |-> a[i]] = [i \in 1 .. n |-> b[i]]
    BY <1>1
  <1>. QED
    BY <1>1, <1>2, <1>3, <1>4 DEF IsPrefix

\* The image in flash.
LEMMA FlashedIs ==
  ASSUME UploadTypeOK, NEW f \in Nat, f >= Base, f <= MaxAddr + 1
  PROVE  /\ Flashed(f) \in Seq(Int) /\ Len(Flashed(f)) = f - Base
         /\ \A i \in 1 .. f - Base : Flashed(f)[i] = flash[Base + i - 1]
  <1>0. Base \in Nat /\ MaxAddr \in Nat
    BY UploadAssumption
  <1>1. PICK n \in Nat : n = f - Base
    BY <1>0
  <1>2. Flashed(f) = [i \in 1 .. n |-> flash[Base + i - 1]]
    BY <1>1 DEF Flashed
  <1>3. ASSUME NEW i \in 1 .. n PROVE flash[Base + i - 1] \in Int
    <2>1. Base + i - 1 \in Base .. MaxAddr
      BY <1>0, <1>1
    <2>. QED
      BY <2>1 DEF UploadTypeOK
  <1>4. Flashed(f) \in [1 .. n -> Int]
    BY <1>2, <1>3
  <1>5. Flashed(f) \in Seq(Int) /\ Len(Flashed(f)) = n
    BY <1>4
  <1>. QED
    BY <1>1, <1>2, <1>5

\* Http_Post_FMUpload answers OK only when the whole file is in flash, followed by two bytes
\* at most, unless no byte is spare and fields follow: wherever the writes cut the file.
THEOREM UploadWhole == Spec => []UploadIsWhole
  <1>1. UploadInv => UploadIsWhole
    <2>1. SUFFICES ASSUME UploadInv, NEW r \in Uploading, ~spoilt, pos[r] = Len(Stream(post[r]))
                   PROVE  /\ IsPrefix(post[r].file, Flashed(part[r].pfFlashTmpFile))
                          /\ \/ Len(Flashed(part[r].pfFlashTmpFile)) <= Len(post[r].file) + 2
                             \/ Spare(r) = 0 /\ post[r].more
      BY DEF UploadIsWhole
    <2>2. PICK p, q : p = post[r] /\ q = part[r]
      OBVIOUS
    <2>3. UploadTypeOK /\ OneUpload /\ ParseInv /\ r \in Req
      BY <2>1 DEF UploadInv, Uploading
    <2>4. PostOK(p) /\ p.kind = "file" /\ q \in Parts /\ PartOK(q, Len(Stream(p)))
      BY <2>1, <2>2, <2>3, PostsOK DEF UploadTypeOK, OneUpload
    <2>5. Progress(flash, q, p, Len(Stream(p)))
      BY <2>1, <2>2, <2>3 DEF ParseInv
    <2>6. /\ Whole(flash, q, p)
          /\ q.pfFlashTmpFile <= Base + Len(p.file) + 2 \/ (p.more /\ (Size - 1 - Len(p.boundary) - 2) % 4 = 0)
      BY <2>4, <2>5, EndIs
    <2>7. PICK f \in Nat, F \in Nat, e \in Nat : f = q.pfFlashTmpFile /\ F = Len(p.file) /\ e = Len(Stream(p))
      BY <2>4, PartIs, Places, StreamIs, StreamLength
    <2>8. /\ f >= Base /\ f - Base <= e /\ Base + e <= MaxAddr + 1 /\ p.file \in Seq(Int)
          /\ f >= Base + F /\ \A i \in 1 .. F : flash[Base + i - 1] = p.file[i]
      BY <2>4, <2>6, <2>7 DEF PartOK, PostOK, Whole
    <2>9. Base \in Nat /\ MaxAddr \in Nat
      BY UploadAssumption
    <2>10. f <= MaxAddr + 1 /\ F <= f - Base
      BY <2>8, <2>9
    <2>11. /\ Flashed(f) \in Seq(Int) /\ Len(Flashed(f)) = f - Base
           /\ \A i \in 1 .. f - Base : Flashed(f)[i] = flash[Base + i - 1]
      BY <2>3, <2>8, <2>10, FlashedIs
    <2>12. IsPrefix(p.file, Flashed(f))
      <3>1. \A i \in 1 .. F : i \in 1 .. f - Base
        BY <2>9, <2>10
      <3>2. \A i \in 1 .. Len(p.file) : Flashed(f)[i] = p.file[i]
        BY <2>7, <2>8, <2>11, <3>1
      <3>3. Len(p.file) <= Len(Flashed(f))
        BY <2>7, <2>10, <2>11
      <3>. QED
        BY <2>8, <2>11, <3>2, <3>3, PrefixIf
    <2>13. f <= Base + F + 2 => f - Base <= F + 2
      BY <2>9
    <2>14. Spare(r) = (Size - 1 - Len(p.boundary) - 2) % 4
      BY <2>2 DEF Spare
    <2>. QED
      BY <2>2, <2>6, <2>7, <2>11, <2>12, <2>13, <2>14
  <1>. QED
    BY <1>1, UploadInvariant, PTL

\* bin/ipcam.bin gives back the file that was uploaded, block by block, for any size of block.
THEOREM UploadReadsBack == Spec => []ReadsBack
  <1>1. UploadInv => ReadsBack
    <2>1. SUFFICES ASSUME UploadInv, ~spoilt, ~dirty, ~mixed, reader.addr # 0, reader.addr >= length
                   PROVE  Len(reader.sent) = length - Base /\ IsPrefix(image, reader.sent)
      BY DEF ReadsBack
    <2>2. UploadTypeOK /\ ImageInv /\ ReaderInv
      BY <2>1 DEF UploadInv
    <2>3. Base \in Nat /\ Base > 0 /\ MaxAddr \in Nat
      BY UploadAssumption
    <2>4. reader.addr \in Nat /\ reader.sent \in Seq(Int) /\ length \in Nat /\ image \in Seq(Int)
      BY <2>2, <2>3 DEF UploadTypeOK
    <2>5. /\ reader.addr >= Base /\ Len(reader.sent) = reader.addr - Base /\ reader.addr <= length
          /\ \A i \in 1 .. Len(reader.sent) : reader.sent[i] = flash[Base + i - 1]
      BY <2>1, <2>2 DEF ReaderInv
    <2>6. length = reader.addr /\ length # 0
      BY <2>1, <2>3, <2>4, <2>5
    <2>7. Base + Len(image) <= length /\ \A i \in 1 .. Len(image) : flash[Base + i - 1] = image[i]
      BY <2>1, <2>2, <2>6 DEF ImageInv
    <2>8. PICK n \in Nat, e \in Nat : n = Len(image) /\ e = Len(reader.sent)
      BY <2>4
    <2>9. n <= e
      BY <2>3, <2>4, <2>5, <2>6, <2>7, <2>8
    <2>10. \A i \in 1 .. n : i \in 1 .. e
      BY <2>9
    <2>11. IsPrefix(image, reader.sent)
      <3>1. \A i \in 1 .. Len(image) : reader.sent[i] = image[i]
        BY <2>5, <2>7, <2>8, <2>10
      <3>. QED
        BY <2>4, <2>8, <2>9, <3>1, PrefixIf
    <2>. QED
      BY <2>5, <2>6, <2>11
  <1>. QED
    BY <1>1, UploadInvariant, PTL
==============================================================================
