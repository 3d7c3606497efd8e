------------------------- MODULE SelectThreadProofs -------------------------
(***************************************************************************)
(* Proofs about the select thread, for any number of clients, descriptors  *)
(* and messages.                                                           *)
(***************************************************************************)
EXTENDS SelectThread, WellFoundedInduction, TLAPS

------------------------------------------------------------------------------
(* Sequences *)

\* Every non-empty set of naturals has a least element: induction, in the form that the
\* provers can use.
LEMMA Least ==
  ASSUME NEW T, T \subseteq Nat, T # {}
  PROVE  \E x \in T : \A y \in T : x <= y
  <1>1. PICK R : IsWellFoundedOn(R, Nat) /\ \A x, y \in Nat : y < x => <<y, x>> \in R
    <2>1. IsWellFoundedOn(OpToRel(<, Nat), Nat)
      BY NatLessThanWellFounded
    <2>2. \A x, y \in Nat : y < x => <<y, x>> \in OpToRel(<, Nat)
      BY Zenon DEF OpToRel
    <2>. QED
      BY <2>1, <2>2, Zenon
  <1>2. PICK x \in T : \A y \in T : ~ (<<y, x>> \in R)
    BY <1>1, WFMin
  <1>3. \A y \in T : ~ (y < x)
    BY <1>1, <1>2
  <1>. QED
    BY <1>3

\* What Without takes over from the first i elements, given what it took over before.
Keeps(s, S, k, i) == IF s[i] \in S THEN k ELSE Append(k, s[i])

\* Without is what is left after all elements of s: its recursion is well defined.
LEMMA WithoutDef ==
  ASSUME NEW s, Len(s) \in Nat, NEW S
  PROVE  \E kept : /\ kept[0] = <<>>
                   /\ \A i \in 1 .. Len(s) : kept[i] = Keeps(s, S, kept[i - 1], i)
                   /\ Without(s, S) = kept[Len(s)]
  <1> DEFINE Body(g, i) == IF i = 0 THEN <<>>
                           ELSE IF s[i] \in S THEN g[i - 1] ELSE Append(g[i - 1], s[i])
             Has(n) == \E g : g = [i \in 0 .. n |-> Body(g, i)]
             T == {n \in Nat : ~Has(n)}
             kept == CHOOSE g : g = [i \in 0 .. Len(s) |-> Body(g, i)]
  <1>1. \A n \in Nat : Has(n)
    <2>. SUFFICES ASSUME T # {} PROVE FALSE
      BY Zenon
    <2>1. PICK x \in T : \A y \in T : x <= y
      <3>. HIDE DEF Has
      <3>1. T \subseteq Nat
        OBVIOUS
      <3>. HIDE DEF T
      <3>. QED
        BY <3>1, Least
    <2>2. Has(0)
      <3> DEFINE g == [i \in 0 .. 0 |-> <<>>]
      <3>1. g = [i \in 0 .. 0 |-> Body(g, i)]
        OBVIOUS
      <3>. QED
        BY <3>1
    <2>3. x # 0 /\ x - 1 \in Nat /\ Has(x - 1)
      <3>. HIDE DEF Has
      <3>1. x # 0 /\ x - 1 \in Nat
        BY <2>2
      <3>2. x - 1 \notin T
        BY <2>1, <3>1
      <3>. QED
        BY <3>1, <3>2
    <2>4. PICK g : g = [i \in 0 .. x - 1 |-> Body(g, i)]
      BY <2>3
    <2> DEFINE e == [i \in 0 .. x |-> IF i = x THEN Body(g, x) ELSE g[i]]
    <2>5. e = [i \in 0 .. x |-> Body(e, i)]
      <3>1. ASSUME NEW i \in 0 .. x PROVE e[i] = Body(e, i)
        <4>1. x - 1 \in 0 .. x /\ x - 1 # x /\ x \in 0 .. x
          BY <2>3
        <4>2. CASE i = x
          BY <2>3, <4>1, <4>2
        <4>3. CASE i # x
          <5>1. i \in 0 .. x - 1 /\ (i # 0 => i - 1 \in 0 .. x /\ i - 1 # x)
            BY <2>3, <4>3
          <5>2. g[i] = Body(g, i)
            BY <2>4, <5>1
          <5>. QED
            BY <4>3, <5>1, <5>2
        <4>. QED
          BY <4>2, <4>3
      <3>2. e = [i \in 0 .. x |-> e[i]]
        OBVIOUS
      <3>. HIDE DEF e, Body
      <3>. QED
        BY <3>1, <3>2
    <2>6. Has(x)
      <3>. HIDE DEF e, Body
      <3>. QED
        BY <2>5
    <2>. QED
      BY <2>6
  <1>2. Has(Len(s))
    <2>. HIDE DEF Has
    <2>. QED
      BY <1>1
  <1>3. kept = [i \in 0 .. Len(s) |-> Body(kept, i)]
    BY <1>2, Zenon
  <1>4. Without(s, S) = kept[Len(s)]
    BY Zenon DEF Without
  <1>. HIDE DEF kept
  <1>5. kept[0] = <<>> /\ \A i \in 1 .. Len(s) : kept[i] = Keeps(s, S, kept[i - 1], i)
    <2>1. \A i \in 0 .. Len(s) : kept[i] = Body(kept, i)
      <3>. HIDE DEF Body
      <3>. QED
        BY <1>3
    <2>2. kept[0] = <<>>
      BY <2>1
    <2>3. ASSUME NEW i \in 1 .. Len(s) PROVE kept[i] = Keeps(s, S, kept[i - 1], i)
      <3>1. i \in 0 .. Len(s) /\ i # 0
        OBVIOUS
      <3>2. kept[i] = Body(kept, i)
        BY <2>1, <3>1
      <3>. QED
        BY <3>1, <3>2 DEF Keeps
    <2>. QED
      BY <2>2, <2>3
  <1>. QED
    BY <1>4, <1>5

\* Without leaves out the members of S and nothing else, and no element becomes double.
LEMMA WithoutIs ==
  ASSUME NEW E, NEW s \in Seq(E), NEW S
  PROVE  /\ Without(s, S) \in Seq(E)
         /\ Range(Without(s, S)) = Range(s) \ S
         /\ Distinct(s) => Distinct(Without(s, S))
  <1>0. Len(s) \in Nat /\ \A i \in 1 .. Len(s) : s[i] \in E
    OBVIOUS
  <1>1. PICK kept : /\ kept[0] = <<>>
                    /\ \A i \in 1 .. Len(s) : kept[i] = Keeps(s, S, kept[i - 1], i)
                    /\ Without(s, S) = kept[Len(s)]
    BY <1>0, WithoutDef
  <1> DEFINE Good(i) == /\ kept[i] \in Seq(E)
                        /\ \A k \in 1 .. Len(kept[i]) : \E a \in 1 .. i : kept[i][k] = s[a] /\ s[a] \notin S
                        /\ \A a \in 1 .. i : s[a] \notin S => \E k \in 1 .. Len(kept[i]) : kept[i][k] = s[a]
                        /\ Distinct(s) => Distinct(kept[i])
             T == {i \in 0 .. Len(s) : ~Good(i)}
  <1>2. T = {}
    <2>. SUFFICES ASSUME T # {} PROVE FALSE
      OBVIOUS
    <2>1. PICK x \in T : \A y \in T : x <= y
      <3>1. T \subseteq Nat
        BY <1>0
      <3>. HIDE DEF T
      <3>. QED
        BY <3>1, Least
    <2>2. Good(0)
      BY <1>1 DEF Distinct
    <2>3. x # 0 /\ x \in 1 .. Len(s) /\ x - 1 \in 0 .. Len(s)
      <3>. HIDE DEF Good
      <3>. QED
        BY <1>0, <2>2
    <2>4. Good(x - 1)
      <3>. HIDE DEF Good
      <3>. QED
        BY <1>0, <2>1, <2>3
    <2>5. kept[x] = Keeps(s, S, kept[x - 1], x)
      BY <1>1, <2>3
    <2> DEFINE k == kept[x - 1]
    <2>6. CASE s[x] \in S
      <3>1. kept[x] = k
        BY <2>5, <2>6 DEF Keeps
      <3>2. \A a \in 1 .. x - 1 : a \in 1 .. x
        BY <2>3
      <3>3. \A a \in 1 .. x : s[a] \notin S => a \in 1 .. x - 1
        BY <2>3, <2>6
      <3>4. Good(x)
        BY <2>4, <3>1, <3>2, <3>3
      <3>. QED
        BY <3>4
    <2>7. CASE s[x] \notin S
      <3>0. k \in Seq(E) /\ Len(k) \in Nat /\ s[x] \in E
        BY <1>0, <2>3, <2>4
      <3>1. kept[x] = Append(k, s[x])
        BY <2>5, <2>7 DEF Keeps
      <3>2. /\ kept[x] \in Seq(E) /\ Len(kept[x]) = Len(k) + 1 /\ kept[x][Len(k) + 1] = s[x]
            /\ \A j \in 1 .. Len(k) : kept[x][j] = k[j]
        BY <3>0, <3>1
      <3>3. ASSUME NEW j \in 1 .. Len(kept[x]) PROVE \E a \in 1 .. x : kept[x][j] = s[a] /\ s[a] \notin S
        <4>1. CASE j = Len(k) + 1
          BY <2>3, <2>7, <3>2, <4>1
        <4>2. CASE j # Len(k) + 1
          <5>1. j \in 1 .. Len(k)
            BY <3>0, <3>2, <4>2
          <5>2. PICK a \in 1 .. x - 1 : k[j] = s[a] /\ s[a] \notin S
            BY <2>4, <5>1
          <5>. QED
            BY <2>3, <3>2, <5>1, <5>2
        <4>. QED
          BY <4>1, <4>2
      <3>4. ASSUME NEW a \in 1 .. x, s[a] \notin S PROVE \E j \in 1 .. Len(kept[x]) : kept[x][j] = s[a]
        <4>1. CASE a = x
          BY <3>0, <3>2, <4>1
        <4>2. CASE a # x
          <5>1. a \in 1 .. x - 1
            BY <2>3, <4>2
          <5>2. PICK j \in 1 .. Len(k) : k[j] = s[a]
            BY <2>4, <3>4, <5>1
          <5>. QED
            BY <3>0, <3>2, <5>2
        <4>. QED
          BY <4>1, <4>2
      <3>5. ASSUME Distinct(s), NEW i \in 1 .. Len(kept[x]), NEW j \in 1 .. Len(kept[x]),
                   kept[x][i] = kept[x][j]
            PROVE  i = j
        <4>1. ASSUME NEW a \in 1 .. Len(k) PROVE k[a] # s[x]
          <5>1. PICK b \in 1 .. x - 1 : k[a] = s[b]
            BY <2>4, <4>1
          <5>2. b \in 1 .. Len(s) /\ b # x
            BY <2>3, <5>1
          <5>. QED
            BY <2>3, <3>5, <5>1, <5>2 DEF Distinct
        <4>2. \A a, b \in 1 .. Len(k) : k[a] = k[b] => a = b
          BY <2>4, <3>5 DEF Distinct
        <4>3. \A a \in 1 .. Len(kept[x]) : a = Len(k) + 1 \/ a \in 1 .. Len(k)
          BY <3>0, <3>2
        <4>. HIDE DEF k
        <4>. QED
          BY <3>2, <3>5, <4>1, <4>2, <4>3
      <3>6. Good(x)
        BY <3>2, <3>3, <3>4, <3>5 DEF Distinct
      <3>. QED
        BY <3>6
    <2>. QED
      BY <2>6, <2>7
  <1>3. Good(Len(s))
    <2>. HIDE DEF Good
    <2>. QED
      BY <1>0, <1>2
  <1>4. DOMAIN s = 1 .. Len(s) /\ DOMAIN kept[Len(s)] = 1 .. Len(kept[Len(s)])
    BY <1>3
  <1>5. Range(kept[Len(s)]) = Range(s) \ S
    BY <1>3, <1>4 DEF Range
  <1>. QED
    BY <1>1, <1>3, <1>5

\* The elements of a sequence, and of what is behind its head.
LEMMA TailIs ==
  ASSUME NEW E, NEW s \in Seq(E), s # <<>>
  PROVE  /\ Head(s) \in E /\ Tail(s) \in Seq(E)
         /\ Len(Tail(s)) = Len(s) - 1 /\ Len(s) \in Nat \ {0} /\ Head(s) = s[1]
         /\ \A i \in 1 .. Len(Tail(s)) : Tail(s)[i] = s[i + 1] /\ i + 1 \in 1 .. Len(s)
         /\ Head(s) \in Range(s) /\ Range(Tail(s)) \subseteq Range(s)
         /\ Distinct(s) => Distinct(Tail(s)) /\ Head(s) \notin Range(Tail(s))
  <1>1. /\ Head(s) \in E /\ Tail(s) \in Seq(E)
        /\ Len(Tail(s)) = Len(s) - 1 /\ Len(s) \in Nat \ {0} /\ Head(s) = s[1]
        /\ \A i \in 1 .. Len(Tail(s)) : Tail(s)[i] = s[i + 1] /\ i + 1 \in 1 .. Len(s)
    OBVIOUS
  <1>2. DOMAIN s = 1 .. Len(s) /\ DOMAIN Tail(s) = 1 .. Len(Tail(s)) /\ 1 \in 1 .. Len(s)
    BY <1>1
  <1>3. Head(s) \in Range(s)
    BY <1>1, <1>2 DEF Range
  <1>4. Range(Tail(s)) \subseteq Range(s)
    BY <1>1, <1>2 DEF Range
  <1>5. ASSUME Distinct(s), NEW i \in 1 .. Len(Tail(s)), NEW j \in 1 .. Len(Tail(s)), Tail(s)[i] = Tail(s)[j]
        PROVE  i = j
    BY <1>1, <1>5 DEF Distinct
  <1>6. ASSUME Distinct(s), Head(s) \in Range(Tail(s)) PROVE FALSE
    <2>1. PICK i \in 1 .. Len(Tail(s)) : Tail(s)[i] = s[1]
      BY <1>1, <1>2, <1>6 DEF Range
    <2>. QED
      BY <1>1, <1>2, <1>6, <2>1 DEF Distinct
  <1>. QED
    BY <1>1, <1>3, <1>4, <1>5, <1>6 DEF Distinct

\* And of a sequence with one more.
LEMMA AppendIs ==
  ASSUME NEW E, NEW s \in Seq(E), NEW e \in E
  PROVE  /\ Append(s, e) \in Seq(E) /\ Len(Append(s, e)) = Len(s) + 1 /\ Len(s) \in Nat
         /\ Append(s, e)[Len(s) + 1] = e /\ \A i \in 1 .. Len(s) : Append(s, e)[i] = s[i]
         /\ Range(Append(s, e)) = Range(s) \cup {e}
         /\ Distinct(s) /\ e \notin Range(s) => Distinct(Append(s, e))
  <1>1. /\ Append(s, e) \in Seq(E) /\ Len(Append(s, e)) = Len(s) + 1 /\ Len(s) \in Nat
        /\ Append(s, e)[Len(s) + 1] = e /\ \A i \in 1 .. Len(s) : Append(s, e)[i] = s[i]
    OBVIOUS
  <1>2. DOMAIN s = 1 .. Len(s) /\ DOMAIN Append(s, e) = 1 .. Len(s) + 1
    BY <1>1
  <1>3. \A i \in 1 .. Len(s) + 1 : i = Len(s) + 1 \/ i \in 1 .. Len(s)
    BY <1>1
  <1>4. Range(Append(s, e)) = Range(s) \cup {e}
    BY <1>1, <1>2, <1>3 DEF Range
  <1>5. ASSUME Distinct(s), e \notin Range(s), NEW i \in 1 .. Len(s) + 1, NEW j \in 1 .. Len(s) + 1,
               Append(s, e)[i] = Append(s, e)[j]
        PROVE  i = j
    <2>1. \A a \in 1 .. Len(s) : s[a] # e
      BY <1>2, <1>5 DEF Range
    <2>. QED
      BY <1>1, <1>3, <1>5, <2>1 DEF Distinct
  <1>. QED
    BY <1>1, <1>4, <1>5 DEF Distinct

\* The elements of a sequence by their places.
LEMMA InRange ==
  ASSUME NEW E, NEW s \in Seq(E)
  PROVE  /\ Range(s) \subseteq E
         /\ \A i \in 1 .. Len(s) : s[i] \in Range(s)
         /\ \A x \in Range(s) : \E i \in 1 .. Len(s) : s[i] = x
  <1>1. DOMAIN s = 1 .. Len(s) /\ \A i \in 1 .. Len(s) : s[i] \in E
    OBVIOUS
  <1>. QED
    BY <1>1 DEF Range

------------------------------------------------------------------------------
(* The parts of the invariant, and when a step keeps them *)

\* The invariant holds before the first round.
LEMMA SelectInit == Init => SelectInv
  <1>. SUFFICES ASSUME Init PROVE SelectInv
    OBVIOUS
  <1>. USE FDAssumption DEF Client, FD
  <1>1. /\ pFDList = <<MsgFD>> /\ todo = <<>> /\ msgs = <<>> /\ pc = "prepare"
        /\ iFD  = [f \in FD |-> IF f = MsgFD THEN 0 ELSE NoFD]
        /\ pMsg = None /\ asked = {} /\ open = {0} /\ other = {}
        /\ obj = [f \in FD |-> IF f = MsgFD THEN "live" ELSE "new"]
        /\ fdset = [m \in Mode |-> {}] /\ able = [f \in FD |-> {}] /\ nfds = 0
        /\ want = [f \in FD |-> IF f = MsgFD THEN {"read"} ELSE {}]
    BY DEF Init
  <1>2. MsgFD \in FD /\ Range(pFDList) = {MsgFD} /\ Range(todo) = {} /\ Len(pFDList) = 1 /\ pFDList[1] = MsgFD
    BY <1>1 DEF Range
  <1>3. SelectTypeOK
    <2>1. pFDList \in Seq(FD) /\ todo \in Seq(FD) /\ msgs \in Seq(Message)
      BY <1>1, <1>2
    <2>2. iFD \in [FD -> Num \cup {NoFD}] /\ open \subseteq Num /\ other \subseteq open /\ asked \subseteq Url
      BY <1>1 DEF Num
    <2>3. want \in [FD -> SUBSET Mode] /\ able \in [FD -> SUBSET Mode]
      BY <1>1 DEF Mode
    <2>4. fdset \in [Mode -> SUBSET Num] /\ nfds \in Nat
      BY <1>1
    <2>5. pMsg \in Message /\ pc \in {"prepare", "select", "process", "over"}
      BY <1>1, <1>2 DEF None, Message
    <2>6. obj \in [FD -> {"new", "live", "final"}]
      BY <1>1
    <2>. QED
      BY <2>1, <2>2, <2>3, <2>4, <2>5, <2>6 DEF SelectTypeOK
  <1>4. ListInv
    BY <1>1, <1>2 DEF ListInv, Distinct
  <1>5. SocketInv
    BY <1>1, <1>2 DEF SocketInv, NoFD
  <1>6. SetInv
    BY <1>1, <1>2 DEF SetInv, Listed
  <1>7. MessageInv
    BY <1>1, <1>2 DEF MessageInv
  <1>. QED
    BY <1>3, <1>4, <1>5, <1>6, <1>7 DEF SelectInv

\* The greatest of some numbers.
LEMMA MaxIs ==
  ASSUME NEW N \in Nat, NEW S, S \subseteq 0 .. N, S # {}
  PROVE  Max(S) \in S /\ \A y \in S : y <= Max(S)
  <1> DEFINE T == {N - x : x \in S}
  <1>0. PICK e \in S : TRUE
    OBVIOUS
  <1>1. T \subseteq Nat /\ T # {}
    <2>1. N - e \in T
      BY <1>0
    <2>. QED
      BY <2>1
  <1>2. PICK z \in T : \A y \in T : z <= y
    <2>. HIDE DEF T
    <2>. QED
      BY <1>1, Least
  <1>3. PICK x \in S : z = N - x
    OBVIOUS
  <1>4. \A y \in S : x >= y
    BY <1>2, <1>3
  <1>. QED
    BY <1>4 DEF Max

\* Listed objects own their descriptors.
LEMMA ListedIs ==
  ASSUME SelectTypeOK, SocketInv
  PROVE  /\ Range(pFDList) \subseteq FD
         /\ Listed \subseteq Range(pFDList)
         /\ \A f \in Listed : iFD[f] \in Num /\ iFD[f] # NoFD /\ iFD[f] \in open \ other
         /\ \A f, g \in Listed : iFD[f] = iFD[g] => f = g
  <1>1. Range(pFDList) \subseteq FD
    BY InRange DEF SelectTypeOK
  <1>. QED
    BY <1>1 DEF Listed, SelectTypeOK, SocketInv

\* The messages stay in order when objects of the list come to an end.
LEMMA MessagesKept ==
  ASSUME SelectTypeOK, MessageInv, Range(pFDList') \subseteq Range(pFDList),
         \A f \in Client \ Range(pFDList) : obj'[f] = obj[f],
         \A f \in asked : obj'[f] # "new",
         UNCHANGED <<msgs, asked>>,
         pc' = "process" => pc \in {"select", "process"} /\ pMsg' = pMsg,
         pc' = "select" => pMsg' = None,
         pc' = "process" /\ MsgFD \in Range(todo') /\ "read" \in able'[MsgFD] => msgs # <<>>
  PROVE  MessageInv'
  <1>1. \A m \in Message : MessageOK(m) => MessageOK(m)'
    BY DEF MessageOK
  <1>2. /\ \A i \in 1 .. Len(msgs) : msgs[i] \in Message
        /\ pMsg \in Message
    BY DEF SelectTypeOK
  <1>3. ASSUME NEW i \in 1 .. Len(msgs') PROVE MessageOK(msgs[i])'
    BY <1>1, <1>2 DEF MessageInv, MessageOK
  <1>4. pc' = "process" => MessageOK(pMsg)' /\ \A i \in 1 .. Len(msgs') : Before(pMsg', msgs'[i])
    <2>1. pc' = "process" => MessageOK(pMsg) /\ \A i \in 1 .. Len(msgs) : Before(pMsg, msgs[i])
      BY DEF MessageInv, MessageOK, Before, Brings, Takes, None
    <2>. QED
      BY <1>1, <1>2, <2>1 DEF MessageOK
  <1>. QED
    BY <1>3, <1>4 DEF MessageInv, Before

\* The sets before select is called hold what the objects wait for: what is added and
\* what is cleared is exactly the difference to what was reported.
LEMMA PrepareKeeps == SelectInv /\ Prepare => SelectInv'
  <1>. SUFFICES ASSUME SelectInv, Prepare PROVE SelectInv'
    OBVIOUS
  <1>. USE FDAssumption DEF SelectInv
  <1>1. /\ pc = "prepare" /\ pc' = "select" /\ pMsg' = None
        /\ fdset' = [m \in Mode |-> (fdset[m] \ Cleared(m)) \cup Added(m)]
        /\ UNCHANGED <<pFDList, iFD, open, other, want, able, todo, msgs, obj, asked>>
    BY DEF Prepare, sockets
  <1>2. /\ Range(pFDList) \subseteq FD
        /\ Listed \subseteq Range(pFDList)
        /\ \A f \in Listed : iFD[f] \in Num /\ iFD[f] # NoFD /\ iFD[f] \in open \ other
        /\ \A f, g \in Listed : iFD[f] = iFD[g] => f = g
    BY ListedIs
  <1>3. Listed' = Listed
    BY <1>1 DEF Listed
  <1>4. nfds' \in Nat /\ \A f \in Listed, m \in Mode : m \in want[f] => iFD[f] < nfds'
    <2> DEFINE S == {0} \cup {iFD[f] : f \in {g \in Listed : want[g] # {}}}
    <2>1. S \subseteq 0 .. MaxFD /\ S # {}
      BY <1>2 DEF Num
    <2>2. Max(S) \in S /\ \A y \in S : y <= Max(S)
      <3>. HIDE DEF S
      <3>. QED
        BY <2>1, MaxIs
    <2>3. nfds' = Max(S) + 1
      BY DEF Prepare
    <2>4. \A f \in Listed, m \in Mode : m \in want[f] => iFD[f] \in S
      OBVIOUS
    <2>. HIDE DEF S
    <2>5. PICK mx : mx = Max(S)
      OBVIOUS
    <2>6. mx \in 0 .. MaxFD /\ \A y \in S : y \in 0 .. MaxFD /\ y <= mx
      BY <2>1, <2>2, <2>5
    <2>7. nfds' = mx + 1
      BY <2>3, <2>5, Zenon
    <2>. QED
      BY <2>4, <2>6, <2>7
  <1>5. SelectTypeOK'
    <2>1. \A m \in Mode : Added(m) \subseteq Num
      BY <1>2 DEF Added
    <2>2. fdset' \in [Mode -> SUBSET Num]
      BY <1>1, <2>1 DEF SelectTypeOK
    <2>3. pMsg' \in Message
      BY <1>1 DEF None, Message, FD
    <2>. QED
      BY <1>1, <1>4, <2>2, <2>3 DEF SelectTypeOK
  <1>6. ListInv'
    BY <1>1 DEF ListInv
  <1>7. SocketInv'
    BY <1>1 DEF SocketInv
  <1>8. SetInv'
    <2>1. ASSUME NEW m \in Mode PROVE fdset'[m] \subseteq open' \ other'
      <3>1. Added(m) \subseteq open \ other
        BY <1>2 DEF Added
      <3>. QED
        BY <1>1, <3>1 DEF SetInv
    <2>2. ASSUME NEW f \in Listed, NEW m \in Mode PROVE iFD[f] \in fdset'[m] <=> m \in want[f]
      <3>1. iFD[f] \in Added(m) <=> m \in want[f] /\ m \notin able[f]
        BY <1>2 DEF Added
      <3>2. iFD[f] \in Cleared(m) <=> m \notin want[f] /\ m \in able[f]
        BY <1>2 DEF Cleared
      <3>3. iFD[f] \in fdset[m] <=> m \in able[f]
        BY <1>1 DEF SetInv
      <3>. QED
        BY <1>1, <3>1, <3>2, <3>3
    <2>3. \A f \in Listed', m \in Mode :
            /\ iFD'[f] \in fdset'[m] <=> m \in want'[f]
            /\ m \in want'[f] => iFD'[f] < nfds'
      BY <1>1, <1>3, <1>4, <2>2
    <2>. QED
      BY <1>1, <2>1, <2>3 DEF SetInv
  <1>9. MessageInv'
    BY <1>1, MessagesKept DEF MessageInv
  <1>. QED
    BY <1>5, <1>6, <1>7, <1>8, <1>9

\* What select reports is what objects wait for.
LEMMA SelectKeeps == SelectInv /\ Select => SelectInv'
  <1>. SUFFICES ASSUME SelectInv, Select PROVE SelectInv'
    OBVIOUS
  <1>. USE FDAssumption DEF SelectInv
  <1>1. PICK r \in Ready :
          /\ fdset' = r
          /\ able' = [f \in FD |-> IF f \in Range(pFDList) THEN Marked(f, r) ELSE able[f]]
    BY DEF Select
  <1>2. /\ pc = "select" /\ pc' = "process" /\ todo' = pFDList
        /\ UNCHANGED <<pFDList, iFD, open, other, want, nfds, pMsg, msgs, obj, asked>>
    BY DEF Select, sockets
  <1>3. /\ Range(pFDList) \subseteq FD
        /\ Listed \subseteq Range(pFDList)
        /\ \A f \in Listed : iFD[f] \in Num /\ iFD[f] # NoFD /\ iFD[f] \in open \ other
    BY ListedIs
  <1>4. r \in [Mode -> SUBSET Num] /\ \A m \in Mode : r[m] \subseteq fdset[m]
    BY DEF Ready, Watched
  <1>5. \A f \in FD : Marked(f, r) \in SUBSET Mode
    BY DEF Marked, SelectTypeOK
  <1>6. SelectTypeOK'
    <2>1. able' \in [FD -> SUBSET Mode]
      BY <1>1, <1>5 DEF SelectTypeOK
    <2>. QED
      BY <1>1, <1>2, <1>4, <2>1 DEF SelectTypeOK
  <1>7. ListInv'
    BY <1>2 DEF ListInv
  <1>8. SocketInv'
    BY <1>2 DEF SocketInv
  <1>9. SetInv'
    <2>1. Listed' = Listed
      BY <1>2 DEF Listed
    <2>2. ASSUME NEW f \in Listed, NEW m \in Mode PROVE iFD[f] \in r[m] <=> m \in able'[f]
      <3>1. able'[f] = {k \in want[f] : iFD[f] \in r[k]}
        BY <1>1, <1>3 DEF Marked
      <3>2. iFD[f] \in fdset[m] => m \in want[f]
        BY <1>2 DEF SetInv
      <3>. QED
        BY <1>4, <3>1, <3>2
    <2>3. \A m \in Mode : fdset'[m] \subseteq open' \ other'
      BY <1>1, <1>2, <1>4 DEF SetInv
    <2>4. \A f \in Listed', m \in Mode : iFD'[f] \in fdset'[m] <=> m \in able'[f]
      BY <1>1, <1>2, <2>1, <2>2
    <2>. QED
      BY <1>2, <2>3, <2>4 DEF SetInv
  <1>10. MessageInv'
    <2>1. "read" \in able'[MsgFD] => msgs # <<>>
      <3>1. MsgFD \in Range(pFDList) /\ iFD[MsgFD] = 0 /\ MsgFD \in FD
        BY <1>2 DEF ListInv, SocketInv, FD
      <3>2. "read" \in able'[MsgFD] => 0 \in r["read"]
        BY <1>1, <3>1 DEF Marked
      <3>. QED
        BY <1>1, <3>2 DEF Ready
    <2>2. Range(pFDList') \subseteq Range(pFDList)
      BY <1>2
    <2>. QED
      BY <1>2, <2>1, <2>2, MessagesKept DEF MessageInv
  <1>. QED
    BY <1>6, <1>7, <1>8, <1>9, <1>10

\* When nothing is reported, no object is told anything.
LEMMA SelectNothingKeeps == SelectInv /\ SelectNothing => SelectInv'
  <1>. SUFFICES ASSUME SelectInv, SelectNothing PROVE SelectInv'
    OBVIOUS
  <1>. USE FDAssumption DEF SelectInv
  <1>1. /\ pc = "select" /\ pc' = "process" /\ todo' = pFDList
        /\ fdset' = [m \in Mode |-> {}]
        /\ able' = [f \in FD |-> IF f \in Range(pFDList) THEN {} ELSE able[f]]
        /\ UNCHANGED <<pFDList, iFD, open, other, want, nfds, pMsg, msgs, obj, asked>>
    BY DEF SelectNothing, sockets
  <1>2. Range(pFDList) \subseteq FD /\ Listed \subseteq Range(pFDList) /\ Listed' = Listed
    BY <1>1, ListedIs DEF Listed
  <1>3. SelectTypeOK'
    <2>1. able' \in [FD -> SUBSET Mode] /\ fdset' \in [Mode -> SUBSET Num]
      BY <1>1 DEF SelectTypeOK
    <2>. QED
      BY <1>1, <2>1 DEF SelectTypeOK
  <1>4. ListInv'
    BY <1>1 DEF ListInv
  <1>5. SocketInv'
    BY <1>1 DEF SocketInv
  <1>6. SetInv'
    BY <1>1, <1>2 DEF SetInv
  <1>7. MessageInv'
    <2>1. MsgFD \in Range(pFDList) /\ able'[MsgFD] = {}
      BY <1>1, <1>2 DEF ListInv
    <2>2. Range(pFDList') \subseteq Range(pFDList)
      BY <1>1
    <2>. QED
      BY <1>1, <2>1, <2>2, MessagesKept DEF MessageInv
  <1>. QED
    BY <1>3, <1>4, <1>5, <1>6, <1>7

\* The thread that ends leaves no object in the list.
LEMMA SelectErrorKeeps == SelectInv /\ SelectError => SelectInv'
  <1>. SUFFICES ASSUME SelectInv, SelectError PROVE SelectInv'
    OBVIOUS
  <1>. USE FDAssumption DEF SelectInv
  <1>1. /\ pc = "select" /\ pc' = "over" /\ pFDList' = <<>>
        /\ obj' = [f \in FD |-> IF f \in Range(pFDList) THEN (IF f \in Url THEN "final" ELSE "new") ELSE obj[f]]
        /\ iFD' = [f \in FD |-> IF f \in Client THEN NoFD ELSE iFD[f]]
        /\ want' = [f \in FD |-> IF f \in Client THEN {} ELSE want[f]]
        /\ able' = [f \in FD |-> IF f \in Client THEN {} ELSE able[f]]
        /\ UNCHANGED <<fdset, nfds, todo, pMsg, msgs, asked, open, other>>
    BY DEF SelectError, Finalised, Unused
  <1>2. Range(pFDList') = {} /\ todo = <<>> /\ Range(todo) = {}
    BY <1>1 DEF Range, ListInv
  <1>3. SelectTypeOK'
    <2>1. iFD' \in [FD -> Num \cup {NoFD}] /\ want' \in [FD -> SUBSET Mode] /\ able' \in [FD -> SUBSET Mode]
      BY <1>1 DEF SelectTypeOK
    <2>2. obj' \in [FD -> {"new", "live", "final"}]
      BY <1>1 DEF SelectTypeOK
    <2>3. pFDList' \in Seq(FD)
      BY <1>1
    <2>. QED
      BY <1>1, <2>1, <2>2, <2>3 DEF SelectTypeOK
  <1>4. ListInv'
    BY <1>1, <1>2 DEF ListInv, Distinct
  <1>5. SocketInv'
    BY <1>1 DEF SocketInv, SelectTypeOK, FD, Client
  <1>6. SetInv'
    BY <1>1, <1>2 DEF SetInv, Listed
  <1>7. MessageInv'
    <2>1. \A f \in asked : obj'[f] # "new"
      BY <1>1 DEF SelectTypeOK, MessageInv, FD, Client
    <2>2. \A f \in Client \ Range(pFDList) : obj'[f] = obj[f]
      BY <1>1 DEF FD
    <2>. QED
      BY <1>1, <1>2, <2>1, <2>2, MessagesKept
  <1>. QED
    BY <1>3, <1>4, <1>5, <1>6, <1>7

------------------------------------------------------------------------------
(* Callbacks *)

\* The object being processed is in the list and not processed again in this round.
LEMMA ProcessIs ==
  ASSUME SelectInv, NEW f, Process(f)
  PROVE  /\ f \in Range(pFDList) /\ f \in FD /\ pc = "process"
         /\ todo' \in Seq(FD) /\ Distinct(todo')
         /\ Range(todo') \subseteq Range(pFDList) /\ Range(todo') \subseteq Range(todo) /\ f \notin Range(todo')
  <1>1. todo \in Seq(FD) /\ todo # <<>> /\ todo' = Tail(todo) /\ f = Head(todo) /\ pc = "process"
    BY DEF Process, SelectInv, SelectTypeOK
  <1>2. /\ Head(todo) \in FD /\ Tail(todo) \in Seq(FD)
        /\ Head(todo) \in Range(todo) /\ Range(Tail(todo)) \subseteq Range(todo)
        /\ Distinct(todo) => Distinct(Tail(todo)) /\ Head(todo) \notin Range(Tail(todo))
    BY <1>1, TailIs
  <1>. QED
    BY <1>1, <1>2 DEF SelectInv, ListInv

\* A message taken from the queue: those behind it come after it.
LEMMA MsgProcessKeeps == SelectInv /\ SELECT_MSG_Process => SelectInv'
  <1>. SUFFICES ASSUME SelectInv, SELECT_MSG_Process PROVE SelectInv'
    OBVIOUS
  <1>. USE FDAssumption DEF SelectInv
  <1>1. /\ Process(MsgFD)
        /\ UNCHANGED <<pFDList, iFD, open, other, want, able, fdset, nfds, pc, obj, asked>>
    BY DEF SELECT_MSG_Process, sockets
  <1>2. /\ MsgFD \in Range(pFDList) /\ MsgFD \in FD /\ pc = "process"
        /\ todo' \in Seq(FD) /\ Distinct(todo')
        /\ Range(todo') \subseteq Range(pFDList) /\ MsgFD \notin Range(todo')
    BY <1>1, ProcessIs
  <1>3. /\ ListInv' /\ SocketInv'
    BY <1>1, <1>2 DEF ListInv, SocketInv
  <1>4. SetInv'
    BY <1>1 DEF SetInv, Listed
  <1>5. MsgFD \in Range(todo)
    BY <1>1, TailIs DEF Process, SelectTypeOK
  <1>6. CASE "read" \notin able[MsgFD]
    <2>1. UNCHANGED <<pMsg, msgs>>
      BY <1>6 DEF SELECT_MSG_Process
    <2>2. SelectTypeOK'
      BY <1>1, <1>2, <2>1 DEF SelectTypeOK
    <2>3. MessageInv'
      <3>1. \A f \in asked : obj'[f] # "new"
        BY <1>1 DEF MessageInv
      <3>. QED
        BY <1>1, <1>2, <2>1, <3>1, MessagesKept
    <2>. QED
      BY <1>3, <1>4, <2>2, <2>3
  <1>7. CASE "read" \in able[MsgFD]
    <2>1. pMsg' = Head(msgs) /\ msgs' = Tail(msgs)
      BY <1>7 DEF SELECT_MSG_Process
    <2>2. msgs \in Seq(Message) /\ msgs # <<>>
      BY <1>2, <1>5, <1>7 DEF MessageInv, SelectTypeOK
    <2>3. /\ Head(msgs) \in Message /\ Tail(msgs) \in Seq(Message)
          /\ Len(Tail(msgs)) = Len(msgs) - 1 /\ Len(msgs) \in Nat \ {0} /\ Head(msgs) = msgs[1]
          /\ \A i \in 1 .. Len(Tail(msgs)) : Tail(msgs)[i] = msgs[i + 1] /\ i + 1 \in 1 .. Len(msgs)
      BY <2>2, TailIs
    <2>4. SelectTypeOK'
      BY <1>1, <1>2, <2>1, <2>3 DEF SelectTypeOK
    <2>5. \A m : MessageOK(m) <=> MessageOK(m)'
      BY <1>1 DEF MessageOK
    <2>6. MessageInv'
      <3>1. ASSUME NEW i \in 1 .. Len(msgs') PROVE MessageOK(msgs[i])' /\ Before(pMsg', msgs'[i])
        <4>1. msgs'[i] = msgs[i + 1] /\ i + 1 \in 1 .. Len(msgs) /\ 1 \in 1 .. Len(msgs) /\ 1 < i + 1 /\ pMsg' = msgs[1]
          BY <2>1, <2>3
        <4>2. MessageOK(msgs[i + 1]) /\ Before(msgs[1], msgs[i + 1])
          BY <4>1 DEF MessageInv
        <4>. QED
          BY <1>1, <4>1, <4>2 DEF MessageOK
      <3>2. ASSUME NEW i \in 1 .. Len(msgs'), NEW j \in 1 .. Len(msgs'), i < j PROVE Before(msgs'[i], msgs'[j])
        <4>1. /\ msgs'[i] = msgs[i + 1] /\ i + 1 \in 1 .. Len(msgs)
              /\ msgs'[j] = msgs[j + 1] /\ j + 1 \in 1 .. Len(msgs) /\ i + 1 < j + 1
          BY <2>1, <2>3, <3>2
        <4>. QED
          BY <4>1 DEF MessageInv
      <3>3. MessageOK(pMsg)'
        <4>1. MessageOK(msgs[1]) /\ pMsg' = msgs[1]
          BY <2>1, <2>3 DEF MessageInv
        <4>. QED
          BY <1>1, <4>1 DEF MessageOK
      <3>4. \A f \in asked' : obj'[f] # "new"
        BY <1>1 DEF MessageInv
      <3>5. MsgFD \notin Range(todo') /\ pc' = "process"
        BY <1>1, <1>2
      <3>. QED
        BY <3>1, <3>2, <3>3, <3>4, <3>5 DEF MessageInv, Before
    <2>. QED
      BY <1>3, <1>4, <2>4, <2>6
  <1>. QED
    BY <1>6, <1>7

\* What an object waits for is looked at only before the next select.
LEMMA FDNextKeeps == ASSUME NEW f \in Client PROVE SelectInv /\ FD_Next(f) => SelectInv'
  <1>. SUFFICES ASSUME SelectInv, FD_Next(f) PROVE SelectInv'
    OBVIOUS
  <1>. USE FDAssumption DEF SelectInv
  <1>1. /\ Process(f)
        /\ UNCHANGED <<pFDList, iFD, open, other, able, fdset, nfds, pMsg, msgs, pc, obj, asked>>
    BY DEF FD_Next, sockets
  <1>2. /\ pc = "process" /\ todo' \in Seq(FD) /\ Distinct(todo')
        /\ Range(todo') \subseteq Range(pFDList) /\ Range(todo') \subseteq Range(todo)
    BY <1>1, ProcessIs
  <1>3. SelectTypeOK'
    <2>1. want' \in [FD -> SUBSET Mode]
      BY DEF FD_Next, SelectTypeOK
    <2>. QED
      BY <1>1, <1>2, <2>1 DEF SelectTypeOK
  <1>4. ListInv' /\ SocketInv'
    BY <1>1, <1>2 DEF ListInv, SocketInv
  <1>5. SetInv'
    BY <1>1, <1>2 DEF SetInv, Listed
  <1>6. MessageInv'
    <2>1. MsgFD \in Range(todo') /\ "read" \in able'[MsgFD] => msgs # <<>>
      BY <1>1, <1>2 DEF MessageInv
    <2>2. \A g \in asked : obj'[g] # "new"
      BY <1>1 DEF MessageInv
    <2>. QED
      BY <1>1, <1>2, <2>1, <2>2, MessagesKept
  <1>. QED
    BY <1>3, <1>4, <1>5, <1>6

\* A client that changes its socket: the numbers of the others are not touched, and the
\* sets hold the new one exactly where select has reported the old one.
LEMMA ReconnectKeeps == ASSUME NEW f \in Client PROVE SelectInv /\ Reconnect(f) => SelectInv'
  <1>. SUFFICES ASSUME SelectInv, Reconnect(f) PROVE SelectInv'
    OBVIOUS
  <1>. USE FDAssumption DEF SelectInv
  <1>1. /\ Process(f) /\ f # MsgFD
        /\ UNCHANGED <<pFDList, able, nfds, pMsg, msgs, pc, obj, asked, other>>
    BY DEF Reconnect
  <1>2. PICK left : left = open \ {iFD[f]}
    OBVIOUS
  <1>3. PICK n \in (Num \ left) \cup {NoFD}, w \in SUBSET Mode :
            /\ open' = left \cup ({n} \ {NoFD})
            /\ iFD' = [iFD EXCEPT ![f] = n]
            /\ fdset' = Moved(f, n)
            /\ want' = [want EXCEPT ![f] = w]
    BY <1>2 DEF Reconnect
  <1>4. /\ f \in Range(pFDList) /\ f \in FD /\ pc = "process"
        /\ todo' \in Seq(FD) /\ Distinct(todo')
        /\ Range(todo') \subseteq Range(pFDList) /\ Range(todo') \subseteq Range(todo)
    BY <1>1, ProcessIs
  <1>5. NoFD \notin Num /\ NoFD \notin open
    BY DEF NoFD, Num, SelectTypeOK
  <1>6. /\ iFD \in [FD -> Num \cup {NoFD}] /\ open \subseteq Num /\ other \subseteq open
        /\ fdset \in [Mode -> SUBSET Num]
        /\ iFD'[f] = n /\ \A g \in FD : g # f => iFD'[g] = iFD[g]
    BY <1>3, <1>4 DEF SelectTypeOK
  <1>7. /\ other \subseteq left /\ n \notin left /\ left \subseteq open
        /\ \A g \in FD : g # f /\ iFD[g] # NoFD => iFD[g] \in left \ other /\ iFD[g] # n /\ iFD[g] # iFD[f]
    BY <1>2, <1>3, <1>4, <1>5, <1>6 DEF SocketInv
  <1>8. \A m \in Mode : fdset'[m] =
            IF m \in able[f] /\ n # iFD[f] THEN (fdset[m] \ {iFD[f]}) \cup ({n} \ {NoFD}) ELSE fdset[m]
    BY <1>3 DEF Moved
  <1>9. SelectTypeOK'
    <2>1. iFD' \in [FD -> Num \cup {NoFD}] /\ want' \in [FD -> SUBSET Mode]
      BY <1>3 DEF SelectTypeOK
    <2>2. fdset' \in [Mode -> SUBSET Num]
      BY <1>3, <1>6 DEF Moved
    <2>3. open' \subseteq Num /\ other' \subseteq open'
      BY <1>1, <1>3, <1>6, <1>7
    <2>. QED
      BY <1>1, <1>4, <2>1, <2>2, <2>3 DEF SelectTypeOK
  <1>10. ListInv'
    BY <1>1, <1>4 DEF ListInv
  <1>11. SocketInv'
    <2>1. iFD'[MsgFD] = 0
      BY <1>1, <1>6 DEF SocketInv, FD
    <2>2. ASSUME NEW g \in Client, g \notin Range(pFDList') PROVE iFD'[g] = NoFD
      BY <1>1, <1>4, <1>6, <2>2 DEF SocketInv, FD
    <2>3. ASSUME NEW g \in FD, iFD'[g] # NoFD PROVE iFD'[g] \in open' \ other'
      <3>1. CASE g = f
        BY <1>1, <1>3, <1>6, <1>7, <2>3, <3>1
      <3>2. CASE g # f
        BY <1>1, <1>3, <1>6, <1>7, <2>3, <3>2
      <3>. QED
        BY <3>1, <3>2
    <2>4. ASSUME NEW g \in FD, NEW h \in FD, iFD'[g] = iFD'[h], iFD'[g] # NoFD PROVE g = h
      BY <1>6, <1>7, <2>4 DEF SocketInv
    <2>. QED
      BY <2>1, <2>2, <2>3, <2>4 DEF SocketInv
  <1>12. SetInv'
    <2>0. /\ \A m \in Mode : fdset[m] \subseteq open \ other
          /\ \A g \in Listed, m \in Mode : iFD[g] \in fdset[m] <=> m \in able[g]
      BY <1>4 DEF SetInv
    <2>1. ASSUME NEW m \in Mode PROVE fdset'[m] \subseteq open' \ other'
      <3>1. CASE m \in able[f] /\ n # iFD[f]
        <4>1. fdset'[m] = (fdset[m] \ {iFD[f]}) \cup ({n} \ {NoFD})
          BY <1>8, <3>1
        <4>2. fdset[m] \ {iFD[f]} \subseteq left \ other /\ n \notin other
          BY <1>2, <1>7, <2>0
        <4>. QED
          BY <1>1, <1>3, <4>1, <4>2
      <3>2. CASE n = iFD[f]
        <4>1. fdset'[m] = fdset[m] /\ open \subseteq open'
          BY <1>2, <1>3, <1>5, <1>8, <3>2
        <4>. QED
          BY <1>1, <2>0, <4>1
      <3>3. CASE m \notin able[f]
        <4>1. fdset'[m] = fdset[m] /\ iFD[f] \notin fdset[m]
          BY <1>4, <1>5, <1>8, <2>0, <3>3 DEF Listed
        <4>. QED
          BY <1>1, <1>2, <1>3, <2>0, <4>1
      <3>. QED
        BY <3>1, <3>2, <3>3
    <2>2. ASSUME NEW g \in Listed', NEW m \in Mode PROVE iFD'[g] \in fdset'[m] <=> m \in able'[g]
      <3>0. g \in FD /\ g \in Range(pFDList) /\ iFD'[g] # NoFD
        BY <1>1, InRange DEF Listed, SelectTypeOK
      <3>1. CASE g # f
        <4>1. g \in Listed /\ iFD'[g] = iFD[g] /\ iFD[g] # iFD[f] /\ iFD[g] # n
          BY <1>6, <1>7, <3>0, <3>1 DEF Listed
        <4>2. iFD[g] \in fdset'[m] <=> iFD[g] \in fdset[m]
          BY <1>8, <4>1
        <4>. QED
          BY <1>1, <2>0, <4>1, <4>2
      <3>2. CASE g = f /\ n = iFD[f]
        <4>1. f \in Listed /\ iFD'[f] = iFD[f]
          BY <1>4, <1>6, <3>0, <3>2 DEF Listed
        <4>. QED
          BY <1>1, <1>8, <2>0, <3>2, <4>1
      <3>3. CASE g = f /\ n # iFD[f]
        <4>1. n # NoFD /\ n \notin open /\ n \notin fdset[m]
          BY <1>2, <1>6, <1>7, <2>0, <3>0, <3>3
        <4>. QED
          BY <1>1, <1>6, <1>8, <3>3, <4>1
      <3>. QED
        BY <3>1, <3>2, <3>3
    <2>. QED
      BY <1>1, <1>4, <2>1, <2>2 DEF SetInv
  <1>13. MessageInv'
    <2>1. MsgFD \in Range(todo') /\ "read" \in able'[MsgFD] => msgs # <<>>
      BY <1>1, <1>4 DEF MessageInv
    <2>2. \A g \in asked : obj'[g] # "new"
      BY <1>1 DEF MessageInv
    <2>. QED
      BY <1>1, <1>4, <2>1, <2>2, MessagesKept
  <1>. QED
    BY <1>9, <1>10, <1>11, <1>12, <1>13

\* A client that ends: its number leaves the sets, and it leaves the list.
LEMMA OverKeeps == ASSUME NEW f \in Client PROVE SelectInv /\ Over(f) => SelectInv'
  <1>. SUFFICES ASSUME SelectInv, Over(f) PROVE SelectInv'
    OBVIOUS
  <1>. USE FDAssumption DEF SelectInv
  <1>1. /\ Process(f) /\ f # MsgFD
        /\ open' = open \ {iFD[f]} /\ fdset' = Forgotten(f) /\ pFDList' = Without(pFDList, {f})
        /\ obj' = [g \in FD |-> IF g \in {f} THEN (IF g \in Url THEN "final" ELSE "new") ELSE obj[g]]
        /\ iFD' = [g \in FD |-> IF g \in {f} THEN NoFD ELSE iFD[g]]
        /\ want' = [g \in FD |-> IF g \in {f} THEN {} ELSE want[g]]
        /\ able' = [g \in FD |-> IF g \in {f} THEN {} ELSE able[g]]
        /\ UNCHANGED <<nfds, pMsg, msgs, pc, asked, other>>
    BY DEF Over, Finalised, Unused
  <1>2. /\ f \in Range(pFDList) /\ f \in FD /\ pc = "process"
        /\ todo' \in Seq(FD) /\ Distinct(todo')
        /\ Range(todo') \subseteq Range(pFDList) /\ Range(todo') \subseteq Range(todo) /\ f \notin Range(todo')
    BY <1>1, ProcessIs
  <1>3. pFDList' \in Seq(FD) /\ Range(pFDList') = Range(pFDList) \ {f} /\ Distinct(pFDList')
    BY <1>1, WithoutIs DEF SelectTypeOK, ListInv
  <1>4. /\ iFD'[f] = NoFD
        /\ \A g \in FD : g # f => iFD'[g] = iFD[g] /\ obj'[g] = obj[g] /\ able'[g] = able[g]
    BY <1>1, <1>2
  <1>5. \A m \in Mode : fdset'[m] = IF m \in able[f] THEN fdset[m] \ {iFD[f]} ELSE fdset[m]
    BY <1>1 DEF Forgotten
  <1>6. NoFD \notin Num /\ NoFD \notin open /\ MsgFD \in FD /\ Range(pFDList) \subseteq FD
    BY InRange DEF NoFD, Num, FD, SelectTypeOK
  <1>7. SelectTypeOK'
    <2>1. iFD' \in [FD -> Num \cup {NoFD}] /\ want' \in [FD -> SUBSET Mode] /\ able' \in [FD -> SUBSET Mode]
      BY <1>1 DEF SelectTypeOK
    <2>2. obj' \in [FD -> {"new", "live", "final"}]
      BY <1>1 DEF SelectTypeOK
    <2>3. fdset' \in [Mode -> SUBSET Num]
      BY <1>1 DEF Forgotten, SelectTypeOK
    <2>4. open' \subseteq Num /\ other' \subseteq open'
      BY <1>1, <1>2, <1>6 DEF SelectTypeOK, SocketInv
    <2>. QED
      BY <1>1, <1>2, <1>3, <2>1, <2>2, <2>3, <2>4 DEF SelectTypeOK
  <1>8. ListInv'
    BY <1>1, <1>2, <1>3, <1>4, <1>6 DEF ListInv
  <1>9. SocketInv'
    <2>1. \A g \in Client : g \in FD
      BY DEF FD
    <2>. QED
      BY <1>1, <1>2, <1>3, <1>4, <1>6, <2>1 DEF SocketInv
  <1>10. SetInv'
    <2>0. /\ \A m \in Mode : fdset[m] \subseteq open \ other
          /\ \A g \in Listed, m \in Mode : iFD[g] \in fdset[m] <=> m \in able[g]
      BY <1>2 DEF SetInv
    <2>1. ASSUME NEW m \in Mode PROVE fdset'[m] \subseteq open' \ other'
      <3>1. iFD[f] \notin fdset'[m]
        BY <1>2, <1>5, <1>6, <2>0 DEF Listed
      <3>2. fdset'[m] \subseteq fdset[m]
        BY <1>5
      <3>. QED
        BY <1>1, <2>0, <3>1, <3>2
    <2>2. ASSUME NEW g \in Listed', NEW m \in Mode PROVE iFD'[g] \in fdset'[m] <=> m \in able'[g]
      <3>1. g \in Listed /\ g \in FD /\ g # f
        BY <1>3, <1>4, <1>6 DEF Listed
      <3>2. iFD'[g] = iFD[g] /\ able'[g] = able[g] /\ iFD[g] # iFD[f]
        BY <1>2, <1>4, <3>1 DEF Listed, SocketInv
      <3>3. iFD[g] \in fdset'[m] <=> iFD[g] \in fdset[m]
        BY <1>5, <3>2
      <3>. QED
        BY <2>0, <3>1, <3>2, <3>3
    <2>. QED
      BY <1>1, <1>2, <2>1, <2>2 DEF SetInv
  <1>11. MessageInv'
    <2>1. MsgFD \in Range(todo') /\ "read" \in able'[MsgFD] => msgs # <<>>
      BY <1>1, <1>2, <1>4, <1>6 DEF MessageInv
    <2>2. ASSUME NEW g \in asked PROVE obj'[g] # "new"
      BY <1>1, <2>2 DEF MessageInv, SelectTypeOK, FD, Client
    <2>3. \A g \in Client \ Range(pFDList) : obj'[g] = obj[g]
      BY <1>2, <1>4 DEF FD
    <2>4. Range(pFDList') \subseteq Range(pFDList)
      BY <1>3
    <2>. QED
      BY <1>1, <1>2, <2>1, <2>2, <2>3, <2>4, MessagesKept
  <1>. QED
    BY <1>7, <1>8, <1>9, <1>10, <1>11

------------------------------------------------------------------------------
(* The message of the round *)

\* Between the callbacks and the next round.
LEMMA HandleIs ==
  ASSUME SelectInv, NEW what, Handle(what)
  PROVE  /\ pc = "process" /\ pc' = "prepare" /\ pMsg.do = what
         /\ todo = <<>> /\ todo' = <<>> /\ Range(todo') = {} /\ nfds' = nfds /\ pMsg' = pMsg
         /\ MessageOK(pMsg) /\ \A i \in 1 .. Len(msgs) : Before(pMsg, msgs[i])
         /\ pMsg \in Message /\ pMsg.fd \in FD
  BY DEF Handle, SelectInv, MessageInv, SelectTypeOK, Range, Message

\* No message: the round ends.
LEMMA NoMsgKeeps == SelectInv /\ NoMsg => SelectInv'
  <1>. SUFFICES ASSUME SelectInv, NoMsg PROVE SelectInv'
    OBVIOUS
  <1>. USE FDAssumption DEF SelectInv
  <1>1. /\ Handle("none")
        /\ UNCHANGED <<pFDList, iFD, open, other, want, able, fdset, msgs, obj, asked>>
    BY DEF NoMsg, sockets
  <1>2. pc = "process" /\ pc' = "prepare" /\ todo' = todo /\ todo = <<>> /\ nfds' = nfds /\ pMsg' = pMsg
    BY <1>1, HandleIs
  <1>3. SelectTypeOK' /\ SocketInv'
    BY <1>1, <1>2 DEF SelectTypeOK, SocketInv
  <1>4. ListInv'
    BY <1>1, <1>2 DEF ListInv
  <1>5. SetInv'
    BY <1>1, <1>2 DEF SetInv, Listed
  <1>6. MessageInv'
    <2>1. \A g \in asked : obj'[g] # "new"
      BY <1>1 DEF MessageInv
    <2>. QED
      BY <1>1, <1>2, <2>1, MessagesKept
  <1>. QED
    BY <1>3, <1>4, <1>5, <1>6

\* An object comes into the list once: no other message brings it.
LEMMA MsgAddFDKeeps == SelectInv /\ MsgAddFD => SelectInv'
  <1>. SUFFICES ASSUME SelectInv, MsgAddFD PROVE SelectInv'
    OBVIOUS
  <1>. USE FDAssumption DEF SelectInv
  <1>1. /\ Handle("add")
        /\ UNCHANGED <<iFD, open, other, want, fdset, msgs, obj, asked>>
        /\ \/ /\ pFDList' = Append(pFDList, pMsg.fd)
              /\ able' = [able EXCEPT ![pMsg.fd] = {}]
           \/ UNCHANGED <<pFDList, able>>
    BY DEF MsgAddFD, sockets
  <1>2. /\ pc = "process" /\ pc' = "prepare" /\ pMsg.do = "add"
        /\ todo' = <<>> /\ todo = <<>> /\ Range(todo') = {} /\ nfds' = nfds /\ pMsg' = pMsg
        /\ MessageOK(pMsg) /\ \A i \in 1 .. Len(msgs) : Before(pMsg, msgs[i])
    BY <1>1, HandleIs
  <1>3. /\ pMsg.fd \in Client /\ pMsg.fd \in FD /\ pMsg.fd \notin Range(pFDList) /\ obj[pMsg.fd] = "live"
        /\ iFD[pMsg.fd] = NoFD
    BY <1>2 DEF MessageOK, Brings, FD, SocketInv
  <1>4. /\ pFDList' \in Seq(FD) /\ Distinct(pFDList')
        /\ Range(pFDList) \subseteq Range(pFDList') /\ Range(pFDList') \subseteq Range(pFDList) \cup {pMsg.fd}
    <2>1. pFDList \in Seq(FD) /\ Distinct(pFDList)
      BY DEF SelectTypeOK, ListInv
    <2>2. CASE UNCHANGED <<pFDList, able>>
      BY <2>1, <2>2 DEF Distinct
    <2>3. CASE pFDList' = Append(pFDList, pMsg.fd)
      BY <1>3, <2>1, <2>3, AppendIs
    <2>. QED
      BY <1>1, <2>2, <2>3
  <1>5. able' \in [FD -> SUBSET Mode] /\ \A f \in FD : f # pMsg.fd => able'[f] = able[f]
    BY <1>1 DEF SelectTypeOK
  <1>6. SelectTypeOK'
    BY <1>1, <1>2, <1>4, <1>5 DEF SelectTypeOK
  <1>7. ListInv'
    BY <1>1, <1>2, <1>3, <1>4 DEF ListInv, Distinct
  <1>8. SocketInv'
    BY <1>1, <1>4 DEF SocketInv
  <1>9. SetInv'
    <2>1. ASSUME NEW f \in Listed' PROVE f \in Listed /\ able'[f] = able[f]
      <3>1. f \in Range(pFDList) /\ iFD[f] # NoFD /\ f # pMsg.fd
        BY <1>1, <1>3, <1>4 DEF Listed
      <3>2. f \in FD
        BY <3>1, InRange DEF SelectTypeOK
      <3>. QED
        BY <1>5, <3>1, <3>2 DEF Listed
    <2>. QED
      BY <1>1, <1>2, <2>1 DEF SetInv
  <1>10. MessageInv'
    <2>1. ASSUME NEW i \in 1 .. Len(msgs') PROVE MessageOK(msgs[i])'
      <3>1. MessageOK(msgs[i]) /\ Before(pMsg, msgs[i])
        BY <1>1, <1>2 DEF MessageInv
      <3>2. Brings(msgs[i]) => msgs[i].fd # pMsg.fd
        BY <1>2, <3>1 DEF Before, Brings
      <3>. QED
        BY <1>1, <1>4, <3>1, <3>2 DEF MessageOK, Brings, Takes
    <2>2. /\ \A i, j \in 1 .. Len(msgs') : i < j => Before(msgs'[i], msgs'[j])
          /\ \A f \in asked' : obj'[f] # "new"
      BY <1>1 DEF MessageInv
    <2>. QED
      BY <1>2, <2>1, <2>2 DEF MessageInv, Before
  <1>. QED
    BY <1>6, <1>7, <1>8, <1>9, <1>10

\* Objects that leave the list, their sockets open: what stays is as it was.
LEMMA DeleteKeeps ==
  ASSUME SelectInv, pc = "process", pc' = "prepare", todo' = <<>>,
         NEW S, MsgFD \notin S, pFDList' = Without(pFDList, S),
         NEW D, D \subseteq Client, \A f \in FD : f \in S /\ f \in Range(pFDList) => f \in D,
         D \cap Range(pFDList) \subseteq S,
         iFD'  = [f \in FD |-> IF f \in D THEN NoFD ELSE iFD[f]],
         able' = [f \in FD |-> IF f \in D THEN {} ELSE able[f]],
         \A f \in FD : f \notin D => obj'[f] = obj[f],
         UNCHANGED <<fdset, open, other>>
  PROVE  /\ pFDList' \in Seq(FD) /\ Range(pFDList') = Range(pFDList) \ S
         /\ ListInv' /\ SocketInv' /\ SetInv'
  <1>. USE FDAssumption DEF SelectInv
  <1>1. pFDList' \in Seq(FD) /\ Range(pFDList') = Range(pFDList) \ S /\ Distinct(pFDList')
    BY WithoutIs DEF SelectTypeOK, ListInv
  <1>2. MsgFD \in FD /\ MsgFD \notin D /\ Range(pFDList) \subseteq FD /\ Range(todo') = {} /\ Client \subseteq FD
    BY InRange DEF FD, Client, SelectTypeOK, Range
  <1>3. ASSUME NEW f \in Range(pFDList') PROVE f \in FD /\ f \notin D /\ obj'[f] = obj[f] /\ iFD'[f] = iFD[f] /\ able'[f] = able[f]
    BY <1>1, <1>2
  <1>4. ListInv'
    <2>1. Distinct(todo')
      BY DEF Distinct
    <2>. QED
      BY <1>1, <1>2, <1>3, <2>1 DEF ListInv
  <1>5. SocketInv'
    BY <1>1, <1>2 DEF SocketInv
  <1>6. SetInv'
    <2>1. ASSUME NEW f \in Listed' PROVE f \in Listed /\ able'[f] = able[f] /\ iFD'[f] = iFD[f]
      BY <1>1, <1>3 DEF Listed
    <2>. QED
      BY <2>1 DEF SetInv
  <1>. QED
    BY <1>1, <1>4, <1>5, <1>6

\* A message put behind the others.
LEMMA Sent ==
  ASSUME msgs \in Seq(Message), NEW m \in Message, msgs' = Append(msgs, m),
         \A c \in Message : (c = m \/ \E i \in 1 .. Len(msgs) : c = msgs[i]) => MessageOK(c)',
         \A i \in 1 .. Len(msgs) : Before(msgs[i], m),
         \A i, j \in 1 .. Len(msgs) : i < j => Before(msgs[i], msgs[j])
  PROVE  /\ msgs' \in Seq(Message) /\ msgs' # <<>>
         /\ \A i \in 1 .. Len(msgs') : msgs'[i] = m \/ \E j \in 1 .. Len(msgs) : msgs'[i] = msgs[j]
         /\ \A i \in 1 .. Len(msgs') : MessageOK(msgs[i])'
         /\ \A i, j \in 1 .. Len(msgs') : i < j => Before(msgs'[i], msgs'[j])
  <1>1. /\ msgs' \in Seq(Message) /\ Len(msgs') = Len(msgs) + 1 /\ Len(msgs) \in Nat
        /\ msgs'[Len(msgs) + 1] = m /\ \A i \in 1 .. Len(msgs) : msgs'[i] = msgs[i]
    BY AppendIs
  <1>2. \A i \in 1 .. Len(msgs') : i = Len(msgs) + 1 \/ i \in 1 .. Len(msgs)
    BY <1>1
  <1>3. \A i \in 1 .. Len(msgs') : msgs'[i] \in Message /\ (msgs'[i] = m \/ \E j \in 1 .. Len(msgs) : msgs'[i] = msgs[j])
    BY <1>1, <1>2
  <1>4. ASSUME NEW i \in 1 .. Len(msgs') PROVE MessageOK(msgs[i])'
    <2>1. PICK c \in Message : c = msgs'[i]
      BY <1>3
    <2>2. MessageOK(c)'
      BY <1>3, <2>1
    <2>. QED
      BY <2>1, <2>2 DEF MessageOK
  <1>5. ASSUME NEW i \in 1 .. Len(msgs'), NEW j \in 1 .. Len(msgs'), i < j PROVE Before(msgs'[i], msgs'[j])
    <2>1. i \in 1 .. Len(msgs)
      BY <1>1, <1>5
    <2>. QED
      BY <1>1, <1>2, <1>5, <2>1
  <1>6. msgs' # <<>>
    BY <1>1
  <1>. QED
    BY <1>1, <1>3, <1>4, <1>5, <1>6

\* The new DDNS or NTP client is not one of those it replaces.
LEMMA AddDDNSKeeps == SelectInv /\ AddDDNS => SelectInv'
  <1>. SUFFICES ASSUME SelectInv, AddDDNS PROVE SelectInv'
    OBVIOUS
  <1>. USE FDAssumption DEF SelectInv
  <1>1. PICK D : D = Ddns \cap Range(pFDList)
    OBVIOUS
  <1>2. /\ Handle("ddns") /\ pFDList' = Without(pFDList, Ddns)
        /\ obj' = [f \in FD |-> IF f \in D THEN (IF f \in Url THEN "final" ELSE "new") ELSE obj[f]]
        /\ iFD' = [f \in FD |-> IF f \in D THEN NoFD ELSE iFD[f]]
        /\ want' = [f \in FD |-> IF f \in D THEN {} ELSE want[f]]
        /\ able' = [f \in FD |-> IF f \in D THEN {} ELSE able[f]]
        /\ UNCHANGED <<fdset, asked, open, other>>
    BY <1>1 DEF AddDDNS, Delete, Finalised, Unused
  <1>3. /\ pc = "process" /\ pc' = "prepare" /\ pMsg.do = "ddns"
        /\ todo' = <<>> /\ nfds' = nfds /\ pMsg' = pMsg
        /\ MessageOK(pMsg) /\ \A i \in 1 .. Len(msgs) : Before(pMsg, msgs[i])
        /\ pMsg.fd \in FD
    BY <1>2, HandleIs
  <1>4. /\ pFDList' \in Seq(FD) /\ Range(pFDList') = Range(pFDList) \ Ddns
        /\ ListInv' /\ SocketInv' /\ SetInv'
    <2>1. /\ MsgFD \notin Ddns /\ D \subseteq Client
          /\ \A f \in FD : f \in Ddns /\ f \in Range(pFDList) => f \in D
          /\ D \cap Range(pFDList) \subseteq Ddns
      BY <1>1 DEF Client
    <2>2. \A f \in FD : f \notin D => obj'[f] = obj[f]
      BY <1>2
    <2>. QED
      BY <1>2, <1>3, <2>1, <2>2, DeleteKeeps
  <1>5. PICK a : a = [do |-> "add", fd |-> pMsg.fd]
    OBVIOUS
  <1>6. a \in Message /\ msgs \in Seq(Message) /\ (msgs' = msgs \/ msgs' = Append(msgs, a))
    BY <1>3, <1>5 DEF Message, SelectTypeOK, AddDDNS
  <1>7. a.fd = pMsg.fd /\ a.fd \in Ddns /\ a.fd \in Client /\ a.fd \notin Range(pFDList) /\ obj[a.fd] = "live" /\ a.do = "add"
    BY <1>3, <1>5 DEF MessageOK, Brings
  <1>8. ASSUME NEW c \in Message, c = a \/ \E i \in 1 .. Len(msgs) : c = msgs[i] PROVE MessageOK(c)'
    <2>1. Brings(c) => c.fd \in Client \ Range(pFDList) /\ obj[c.fd] = "live"
      BY <1>7, <1>8 DEF MessageInv, MessageOK
    <2>2. (c.do = "ddns" => c.fd \in Ddns) /\ (Takes(c) => c.fd \in asked)
      BY <1>7, <1>8 DEF MessageInv, MessageOK, Takes
    <2>3. \A f \in FD \ Range(pFDList) : obj'[f] = obj[f]
      BY <1>1, <1>2
    <2>4. Client \subseteq FD
      BY DEF FD
    <2>. QED
      BY <1>2, <1>4, <2>1, <2>2, <2>3, <2>4 DEF MessageOK, Brings, Takes
  <1>9. ASSUME NEW i \in 1 .. Len(msgs) PROVE Before(msgs[i], a)
    <2>1. MessageOK(msgs[i]) /\ Before(pMsg, msgs[i])
      BY <1>3 DEF MessageInv
    <2>2. Takes(msgs[i]) => msgs[i].fd \in Url
      BY <2>1 DEF MessageOK, SelectTypeOK
    <2>. QED
      BY <1>3, <1>7, <2>1, <2>2 DEF Before, Brings, Takes
  <1>10. \A i, j \in 1 .. Len(msgs) : i < j => Before(msgs[i], msgs[j])
    BY DEF MessageInv
  <1>11. /\ msgs' \in Seq(Message)
         /\ \A i \in 1 .. Len(msgs') : MessageOK(msgs[i])'
         /\ \A i, j \in 1 .. Len(msgs') : i < j => Before(msgs'[i], msgs'[j])
    <2>1. CASE msgs' = msgs
      <3>1. ASSUME NEW i \in 1 .. Len(msgs') PROVE MessageOK(msgs[i])'
        <4>1. PICK c \in Message : c = msgs[i] /\ i \in 1 .. Len(msgs)
          BY <1>6, <2>1
        <4>2. MessageOK(c)'
          BY <1>8, <4>1
        <4>. QED
          BY <2>1, <4>1, <4>2 DEF MessageOK
      <3>. QED
        BY <1>6, <1>10, <2>1, <3>1
    <2>2. CASE msgs' = Append(msgs, a)
      BY <1>6, <1>8, <1>9, <1>10, <2>2, Sent
    <2>. QED
      BY <1>6, <2>1, <2>2
  <1>12. MessageInv'
    <2>1. \A f \in asked' : obj'[f] # "new"
      BY <1>1, <1>2 DEF MessageInv, SelectTypeOK, FD, Client
    <2>. QED
      BY <1>3, <1>11, <2>1 DEF MessageInv, Before
  <1>13. SelectTypeOK'
    <2>1. iFD' \in [FD -> Num \cup {NoFD}] /\ want' \in [FD -> SUBSET Mode] /\ able' \in [FD -> SUBSET Mode]
      BY <1>2 DEF SelectTypeOK
    <2>2. obj' \in [FD -> {"new", "live", "final"}]
      BY <1>2 DEF SelectTypeOK
    <2>3. todo' \in Seq(FD)
      BY <1>3
    <2>. QED
      BY <1>2, <1>3, <1>4, <1>11, <2>1, <2>2, <2>3 DEF SelectTypeOK
  <1>. QED
    BY <1>4, <1>12, <1>13

\* A client is freed by the one message that takes it; none behind it is about it.
LEMMA DelFDKeeps == SelectInv /\ URLCGI_DelFD => SelectInv'
  <1>. SUFFICES ASSUME SelectInv, URLCGI_DelFD PROVE SelectInv'
    OBVIOUS
  <1>. USE FDAssumption DEF SelectInv
  <1>1. PICK x : x = pMsg.fd
    OBVIOUS
  <1>2. /\ Handle("del") /\ pFDList' = Without(pFDList, {x})
        /\ obj' = [obj EXCEPT ![x] = "new"]
        /\ iFD' = [f \in FD |-> IF f \in {x} THEN NoFD ELSE iFD[f]]
        /\ want' = [f \in FD |-> IF f \in {x} THEN {} ELSE want[f]]
        /\ able' = [f \in FD |-> IF f \in {x} THEN {} ELSE able[f]]
        /\ asked' = asked \ {x}
        /\ UNCHANGED <<fdset, msgs, open, other>>
    BY <1>1 DEF URLCGI_DelFD, Deleted, Delete, Unused
  <1>3. /\ pc = "process" /\ pc' = "prepare" /\ pMsg.do = "del"
        /\ todo' = <<>> /\ nfds' = nfds /\ pMsg' = pMsg
        /\ MessageOK(pMsg) /\ \A i \in 1 .. Len(msgs) : Before(pMsg, msgs[i])
    BY <1>2, HandleIs
  <1>4. x \in asked /\ x \in Url /\ x \in Client /\ x \in FD /\ x # MsgFD
    BY <1>1, <1>3 DEF MessageOK, Takes, SelectTypeOK, FD, Client
  <1>5. \A f \in FD : f # x => obj'[f] = obj[f]
    BY <1>2 DEF SelectTypeOK
  <1>6. /\ pFDList' \in Seq(FD) /\ Range(pFDList') = Range(pFDList) \ {x}
        /\ ListInv' /\ SocketInv' /\ SetInv'
    <2>1. /\ MsgFD \notin {x} /\ {x} \subseteq Client
          /\ \A f \in FD : f \in {x} /\ f \in Range(pFDList) => f \in {x}
          /\ {x} \cap Range(pFDList) \subseteq {x}
      BY <1>4
    <2>2. \A f \in FD : f \notin {x} => obj'[f] = obj[f]
      BY <1>5
    <2>. QED
      BY <1>2, <1>3, <2>1, <2>2, DeleteKeeps
  <1>7. ASSUME NEW i \in 1 .. Len(msgs') PROVE MessageOK(msgs[i])'
    <2>1. MessageOK(msgs[i]) /\ Before(pMsg, msgs[i])
      BY <1>2, <1>3 DEF MessageInv
    <2>2. Brings(msgs[i]) \/ Takes(msgs[i]) => msgs[i].fd # x
      BY <1>1, <1>3, <2>1 DEF Before, Takes
    <2>3. Client \subseteq FD
      BY DEF FD
    <2>. QED
      BY <1>2, <1>5, <1>6, <2>1, <2>2, <2>3 DEF MessageOK, Brings, Takes
  <1>8. MessageInv'
    <2>1. \A f \in asked' : obj'[f] # "new"
      BY <1>2, <1>5 DEF MessageInv, SelectTypeOK, FD, Client
    <2>2. \A i, j \in 1 .. Len(msgs') : i < j => Before(msgs'[i], msgs'[j])
      BY <1>2 DEF MessageInv
    <2>. QED
      BY <1>3, <1>7, <2>1, <2>2 DEF MessageInv, Before
  <1>9. SelectTypeOK'
    <2>1. iFD' \in [FD -> Num \cup {NoFD}] /\ want' \in [FD -> SUBSET Mode] /\ able' \in [FD -> SUBSET Mode]
      BY <1>2 DEF SelectTypeOK
    <2>2. obj' \in [FD -> {"new", "live", "final"}]
      BY <1>2 DEF SelectTypeOK
    <2>3. todo' \in Seq(FD)
      BY <1>3
    <2>. QED
      BY <1>2, <1>3, <1>6, <2>1, <2>2, <2>3 DEF SelectTypeOK
  <1>. QED
    BY <1>6, <1>8, <1>9

------------------------------------------------------------------------------
(* Other threads *)

\* The message of the round stays good when the object of another one is made or asked for.
LEMMA SentKeeps ==
  ASSUME SelectInv, NEW m \in Message, msgs' = Append(msgs, m), UNCHANGED <<pFDList, able, todo, pMsg, pc>>,
         \A c \in Message : (c = m \/ MessageOK(c)) => MessageOK(c)',
         \A c \in Message : MessageOK(c) => Before(c, m),
         \A f \in asked' : obj'[f] # "new"
  PROVE  msgs' \in Seq(Message) /\ MessageInv'
  <1>. USE DEF SelectInv
  <1>1. /\ msgs \in Seq(Message) /\ pMsg \in Message
        /\ \A i \in 1 .. Len(msgs) : msgs[i] \in Message /\ MessageOK(msgs[i])
        /\ \A i, j \in 1 .. Len(msgs) : i < j => Before(msgs[i], msgs[j])
    BY DEF SelectTypeOK, MessageInv
  <1>2. \A c \in Message : (c = m \/ \E i \in 1 .. Len(msgs) : c = msgs[i]) => MessageOK(c)'
    BY <1>1
  <1>3. \A i \in 1 .. Len(msgs) : Before(msgs[i], m)
    BY <1>1
  <1>4. /\ msgs' \in Seq(Message) /\ msgs' # <<>>
        /\ \A i \in 1 .. Len(msgs') : msgs'[i] = m \/ \E j \in 1 .. Len(msgs) : msgs'[i] = msgs[j]
        /\ \A i \in 1 .. Len(msgs') : MessageOK(msgs[i])'
        /\ \A i, j \in 1 .. Len(msgs') : i < j => Before(msgs'[i], msgs'[j])
    BY <1>1, <1>2, <1>3, Sent
  <1>5. pc' = "process" => MessageOK(pMsg)' /\ \A i \in 1 .. Len(msgs') : Before(pMsg', msgs'[i])
    <2>. SUFFICES ASSUME pc' = "process"
                  PROVE  MessageOK(pMsg)' /\ \A i \in 1 .. Len(msgs') : Before(pMsg', msgs'[i])
      OBVIOUS
    <2>1. MessageOK(pMsg) /\ \A i \in 1 .. Len(msgs) : Before(pMsg, msgs[i])
      BY DEF MessageInv
    <2>2. PICK c \in Message : c = pMsg
      BY <1>1
    <2>3. MessageOK(c)' /\ Before(c, m)
      BY <2>1, <2>2
    <2>4. MessageOK(pMsg)'
      BY <2>2, <2>3 DEF MessageOK
    <2>5. \A i \in 1 .. Len(msgs') : Before(pMsg', msgs'[i])
      BY <1>4, <2>1, <2>2, <2>3
    <2>. QED
      BY <2>4, <2>5
  <1>6. pc' = "select" => pMsg' = None
    BY DEF MessageInv
  <1>. QED
    BY <1>4, <1>5, <1>6 DEF MessageInv, Before

\* A new client is in no list and no message is about it.
LEMMA NewClientKeeps == ASSUME NEW f \in Client PROVE SelectInv /\ NewClient(f) => SelectInv'
  <1>. SUFFICES ASSUME SelectInv, NewClient(f) PROVE SelectInv'
    OBVIOUS
  <1>. USE FDAssumption DEF SelectInv
  <1>1. PICK m : m = [do |-> IF f \in Url THEN "add" ELSE "ddns", fd |-> f]
    OBVIOUS
  <1>2. /\ obj[f] = "new" /\ obj' = [obj EXCEPT ![f] = "live"]
        /\ iFD' = [iFD EXCEPT ![f] = NoFD] /\ want' = [want EXCEPT ![f] = {}]
        /\ msgs' = Append(msgs, m)
        /\ UNCHANGED <<pFDList, able, fdset, nfds, todo, pMsg, pc, asked, open, other>>
    BY <1>1 DEF NewClient, Send, Idle
  <1>3. f \in FD /\ f # MsgFD /\ (f \notin Url => f \in Ddns) /\ Client \subseteq FD
    BY DEF FD, Client
  <1>4. f \notin Range(pFDList) /\ f \notin asked /\ iFD[f] = NoFD
    BY <1>2 DEF ListInv, MessageInv, SocketInv
  <1>5. /\ obj'[f] = "live" /\ iFD' = iFD
        /\ \A g \in FD : g # f => obj'[g] = obj[g]
    BY <1>2, <1>3, <1>4 DEF SelectTypeOK
  <1>6. m \in Message /\ m.fd = f /\ Brings(m) /\ ~Takes(m) /\ (m.do = "ddns" => f \in Ddns)
    BY <1>1, <1>3 DEF Message, Brings, Takes
  <1>7. msgs' \in Seq(Message) /\ MessageInv'
    <2>1. ASSUME NEW c \in Message, MessageOK(c) PROVE c.fd = f => ~Brings(c) /\ ~Takes(c)
      BY <1>2, <1>4, <2>1 DEF MessageOK
    <2>2. ASSUME NEW c \in Message, c = m \/ MessageOK(c) PROVE MessageOK(c)'
      <3>1. CASE c = m
        BY <1>2, <1>4, <1>5, <1>6, <3>1 DEF MessageOK, Takes, Brings
      <3>2. CASE MessageOK(c)
        BY <1>2, <1>3, <1>5, <2>1, <3>2 DEF MessageOK, Takes, Brings
      <3>. QED
        BY <2>2, <3>1, <3>2
    <2>3. \A c \in Message : MessageOK(c) => Before(c, m)
      BY <1>6, <2>1 DEF Before
    <2>4. \A g \in asked' : obj'[g] # "new"
      BY <1>2, <1>3, <1>5 DEF MessageInv, SelectTypeOK, Client
    <2>. QED
      BY <1>2, <1>6, <2>2, <2>3, <2>4, SentKeeps
  <1>8. SelectTypeOK'
    <2>1. iFD' \in [FD -> Num \cup {NoFD}] /\ want' \in [FD -> SUBSET Mode]
      BY <1>2, <1>5 DEF SelectTypeOK
    <2>2. obj' \in [FD -> {"new", "live", "final"}]
      BY <1>2 DEF SelectTypeOK
    <2>. QED
      BY <1>2, <1>7, <2>1, <2>2 DEF SelectTypeOK
  <1>9. ListInv'
    <2>1. \A g \in Range(pFDList) : g \in FD /\ g # f
      BY <1>4, InRange DEF SelectTypeOK
    <2>. QED
      BY <1>2, <1>5, <2>1 DEF ListInv
  <1>10. SocketInv'
    BY <1>2, <1>5 DEF SocketInv
  <1>11. SetInv'
    <2>1. Listed' = Listed
      BY <1>2, <1>5 DEF Listed
    <2>2. \A g \in Listed : want'[g] = want[g]
      BY <1>2, <1>4, InRange DEF Listed, SelectTypeOK
    <2>. QED
      BY <1>2, <1>5, <2>1, <2>2 DEF SetInv
  <1>. QED
    BY <1>7, <1>8, <1>9, <1>10, <1>11

\* A deletion is asked for once.
LEMMA RequestOverKeeps == ASSUME NEW f \in Url PROVE SelectInv /\ URLCGI_RequestOver(f) => SelectInv'
  <1>. SUFFICES ASSUME SelectInv, URLCGI_RequestOver(f) PROVE SelectInv'
    OBVIOUS
  <1>. USE FDAssumption DEF SelectInv
  <1>1. PICK m : m = [do |-> "del", fd |-> f]
    OBVIOUS
  <1>2. /\ obj[f] # "new" /\ f \notin asked /\ asked' = asked \cup {f} /\ msgs' = Append(msgs, m)
        /\ UNCHANGED <<pFDList, iFD, want, able, fdset, nfds, todo, pMsg, pc, obj, open, other>>
    BY <1>1 DEF URLCGI_RequestOver, Send, Idle, sockets
  <1>3. m \in Message /\ m.fd = f /\ ~Brings(m) /\ Takes(m) /\ m.do = "del"
    BY <1>1 DEF Message, Brings, Takes, FD, Client
  <1>4. msgs' \in Seq(Message) /\ MessageInv'
    <2>1. \A c \in Message : (c = m \/ MessageOK(c)) => MessageOK(c)'
      BY <1>2, <1>3 DEF MessageOK, Takes, Brings
    <2>2. \A c \in Message : MessageOK(c) => Before(c, m)
      BY <1>2, <1>3 DEF Before, MessageOK
    <2>3. \A g \in asked' : obj'[g] # "new"
      BY <1>2 DEF MessageInv
    <2>. QED
      BY <1>2, <1>3, <2>1, <2>2, <2>3, SentKeeps
  <1>5. SelectTypeOK'
    BY <1>2, <1>4 DEF SelectTypeOK
  <1>6. ListInv' /\ SocketInv'
    BY <1>2 DEF ListInv, SocketInv
  <1>7. SetInv'
    BY <1>2 DEF SetInv, Listed
  <1>. QED
    BY <1>4, <1>5, <1>6, <1>7

\* The descriptors of other threads are no client's, and stay so.
LEMMA OtherKeeps == SelectInv /\ (OtherOpen \/ OtherClose) => SelectInv'
  <1>. SUFFICES ASSUME SelectInv, OtherOpen \/ OtherClose PROVE SelectInv'
    OBVIOUS
  <1>. USE FDAssumption DEF SelectInv
  <1>1. UNCHANGED <<pFDList, iFD, want, able, fdset, nfds, todo, pMsg, pc, msgs, obj, asked>>
    BY DEF OtherOpen, OtherClose, Idle
  <1>2. /\ open' \ other' = open \ other /\ open' \subseteq Num /\ other' \subseteq open'
    BY DEF OtherOpen, OtherClose, SelectTypeOK
  <1>3. SelectTypeOK'
    BY <1>1, <1>2 DEF SelectTypeOK
  <1>4. ListInv' /\ SocketInv'
    BY <1>1, <1>2 DEF ListInv, SocketInv
  <1>5. SetInv'
    BY <1>1, <1>2 DEF SetInv, Listed
  <1>6. MessageInv'
    BY <1>1 DEF MessageInv, MessageOK
  <1>. QED
    BY <1>3, <1>4, <1>5, <1>6

------------------------------------------------------------------------------
(* The theorems *)

\* The select thread's list, the descriptor sets it keeps between rounds, the sockets of
\* its clients and the messages to it stay consistent, for any clients, descriptors and
\* orders of messages (SSelect.c, HttpClient.c, Ntp.c).
THEOREM SelectInvariant == Spec => []SelectInv
  <1>1. Init => SelectInv
    BY SelectInit
  <1>2. SelectInv /\ [Next]_vars => SelectInv'
    <2>. SUFFICES ASSUME SelectInv, [Next]_vars PROVE SelectInv'
      OBVIOUS
    <2>1. CASE Prepare
      BY <2>1, PrepareKeeps
    <2>2. CASE Select
      BY <2>2, SelectKeeps
    <2>3. CASE SelectNothing
      BY <2>3, SelectNothingKeeps
    <2>4. CASE SelectError
      BY <2>4, SelectErrorKeeps
    <2>5. CASE SELECT_MSG_Process
      BY <2>5, MsgProcessKeeps
    <2>6. ASSUME NEW f \in Client, FD_Next(f) PROVE SelectInv'
      BY <2>6, FDNextKeeps
    <2>7. ASSUME NEW f \in Client, Reconnect(f) PROVE SelectInv'
      BY <2>7, ReconnectKeeps
    <2>8. ASSUME NEW f \in Client, Over(f) PROVE SelectInv'
      BY <2>8, OverKeeps
    <2>9. CASE NoMsg
      BY <2>9, NoMsgKeeps
    <2>10. CASE MsgAddFD
      BY <2>10, MsgAddFDKeeps
    <2>11. CASE AddDDNS
      BY <2>11, AddDDNSKeeps
    <2>12. CASE URLCGI_DelFD
      BY <2>12, DelFDKeeps
    <2>13. ASSUME NEW f \in Client, NewClient(f) PROVE SelectInv'
      BY <2>13, NewClientKeeps
    <2>14. ASSUME NEW f \in Url, URLCGI_RequestOver(f) PROVE SelectInv'
      BY <2>14, RequestOverKeeps
    <2>15. CASE OtherOpen \/ OtherClose
      BY <2>15, OtherKeeps
    <2>16. CASE UNCHANGED vars
      BY <2>16 DEF vars, SelectInv, SelectTypeOK, ListInv, SocketInv, SetInv, Listed, MessageInv, MessageOK
    <2>. QED
      BY <2>1, <2>2, <2>3, <2>4, <2>5, <2>6, <2>7, <2>8, <2>9, <2>10, <2>11, <2>12, <2>13, <2>14, <2>15, <2>16
         DEF Next, Thread
  <1>. QED
    BY <1>1, <1>2, PTL DEF Spec

\* The list and the messages on their way name no object that was finalised or freed, in
\* whatever order clients end (Over), are replaced (AddDDNS, AddNTP) and are deleted
\* (URLCGI_DelFD).
THEOREM SelectNoDangling == Spec => []NoDangling
  <1>1. SelectInv => NoDangling
    <2>. SUFFICES ASSUME SelectInv PROVE NoDangling
      OBVIOUS
    <2>1. \A f \in Range(pFDList) \cup Range(todo) : obj[f] = "live"
      BY DEF SelectInv, ListInv
    <2>2. ASSUME NEW m, MessageOK(m)
          PROVE  /\ m.do \in {"add", "ddns"} => obj[m.fd] = "live"
                 /\ m.do = "del" => obj[m.fd] # "new"
      BY <2>2 DEF MessageOK, Brings, Takes, SelectInv, MessageInv
    <2>3. \A m \in Range(msgs) : MessageOK(m)
      BY InRange DEF SelectInv, SelectTypeOK, MessageInv
    <2>4. pc = "process" => MessageOK(pMsg)
      BY DEF SelectInv, MessageInv
    <2>. QED
      BY <2>1, <2>2, <2>3, <2>4 DEF NoDangling
  <1>. QED
    BY <1>1, SelectInvariant, PTL

\* select never gets a descriptor its client has closed, and FD_SET never the -1 of a
\* client without one, though the sets are kept between rounds.
THEOREM SelectNeverBad == Spec => []NeverBad
  <1>1. SelectInv => NeverBad
    BY DEF SelectInv, SelectTypeOK, SetInv, NeverBad, Watched
  <1>. QED
    BY <1>1, SelectInvariant, PTL

\* Whenever select is called, it looks at the descriptor of every client of the list that
\* waits for an event: the sets hold it, and nfds is above it.
THEOREM SelectWantedIsWatched == Spec => []WantedIsWatched
  <1>1. SelectInv => WantedIsWatched
    <2>. SUFFICES ASSUME SelectInv, pc = "select", NEW f \in Listed, NEW m \in Mode, m \in want[f]
                  PROVE  iFD[f] \in Watched(m)
      BY DEF WantedIsWatched
    <2>1. iFD[f] \in Num
      BY ListedIs DEF SelectInv
    <2>2. iFD[f] \in fdset[m] /\ iFD[f] < nfds /\ nfds \in Nat
      BY DEF SelectInv, SetInv, SelectTypeOK
    <2>3. iFD[f] \in 0 .. nfds - 1
      BY <2>1, <2>2, FDAssumption DEF Num
    <2>. QED
      BY <2>2, <2>3 DEF Watched
  <1>. QED
    BY <1>1, SelectInvariant, PTL
=============================================================================
