-------------------------- MODULE PeriodTaskProofs --------------------------
(***************************************************************************)
(* Proofs about the lists of list.h, for any number of lists and nodes:    *)
(* what the pointer exchange does to rings, what a walk of a ring meets and *)
(* that no sequence of operations breaks a ring or loses its order; about  *)
(* the period-task service, which is built on them, for any number of      *)
(* tasks, any timeouts and any interleaving of callers with prdRun; and,   *)
(* at the end, about its recursive lock, for any set of threads and any    *)
(* nesting.                                                                *)
(***************************************************************************)
EXTENDS PeriodTask, ListMachine, PrdLock, FiniteSetTheorems, WellFoundedInduction, TLAPS

------------------------------------------------------------------------------
(* The pointer exchange *)

\* The exchange of listConnect / listDisconnect keeps the pointers inverse.
LEMMA ConnectLinked ==
  ASSUME NEW m, Linked(m), NEW a \in Node, NEW b \in Node
  PROVE  Linked(ListConnect(m, a, b))
  <1> DEFINE c == ListConnect(m, a, b)
             p1 == m.prev[a]
             p2 == m.prev[b]
  <1>1. p1 \in Node /\ p2 \in Node
    BY DEF Linked, Memory
  <1>2. c.next = [m.next EXCEPT ![p1] = b, ![p2] = a]
    BY DEF ListConnect
  <1>3. c.prev = [m.prev EXCEPT ![a] = p2, ![b] = p1]
    BY DEF ListConnect
  <1>4. c \in Memory
    BY <1>1 DEF ListConnect, Linked, Memory
  <1>5. ASSUME NEW n \in Node
        PROVE  c.next[c.prev[n]] = n /\ c.prev[c.next[n]] = n
    BY <1>1, <1>2, <1>3 DEF Linked, Memory
  <1>. QED
    BY <1>4, <1>5 DEF Linked

\* Attaching does not depend on which argument is the head.
LEMMA ConnectSymmetric ==
  ASSUME NEW m, Linked(m), NEW a \in Node, NEW b \in Node
  PROVE  ListConnect(m, a, b) = ListConnect(m, b, a)
  <1> DEFINE p1 == m.prev[a]
             p2 == m.prev[b]
  <1>1. a # b => p1 # p2
    BY DEF Linked
  <1>2. p1 \in Node /\ p2 \in Node /\ m.next \in [Node -> Node] /\ m.prev \in [Node -> Node]
    BY DEF Linked, Memory
  <1>3. [m.next EXCEPT ![p1] = b, ![p2] = a] = [m.next EXCEPT ![p2] = a, ![p1] = b]
    BY <1>1, <1>2
  <1>4. [m.prev EXCEPT ![a] = p2, ![b] = p1] = [m.prev EXCEPT ![b] = p1, ![a] = p2]
    BY <1>1, <1>2
  <1>. QED
    BY <1>3, <1>4 DEF ListConnect

\* listDetach leaves the node alone.
LEMMA DetachAlone ==
  ASSUME NEW m, Linked(m), NEW n \in Node
  PROVE  /\ Linked(ListDetach(m, n))
         /\ ListDetach(m, n).next[n] = n
         /\ ListDetach(m, n).prev[n] = n
  <1>1. m.next[n] \in Node /\ m.prev[m.next[n]] = n /\ m.prev[n] \in Node
    BY DEF Linked, Memory
  <1>2. Linked(ListDetach(m, n))
    BY <1>1, ConnectLinked DEF ListDetach
  <1>3. ListDetach(m, n).next[n] = n
    BY <1>1 DEF ListDetach, ListConnect, Linked, Memory
  <1>. QED
    BY <1>2, <1>3 DEF Linked

\* listInit of a node that is alone changes nothing.
LEMMA InitAlone ==
  ASSUME NEW m, Linked(m), NEW n \in Node, m.next[n] = n
  PROVE  ListInit(m, n) = m
  <1>1. m.prev[n] = n
    BY DEF Linked
  <1>. QED
    BY <1>1 DEF ListInit, Linked, Memory

\* Attaching a lone node leaves no pointer between different lists.
LEMMA AttachClosed ==
  ASSUME NEW m, Linked(m), NEW w \in [Node -> Node], Closed(m, w),
         NEW n \in Node, NEW h \in Node, m.next[n] = n, n # h, w[h] = h
  PROVE  Closed(ListAttach(m, n, h), [w EXCEPT ![n] = h])
  <1>1. m.prev[n] = n
    BY DEF Linked
  <1>2. m.prev[h] \in Node /\ m.prev[h] # n /\ w[m.prev[h]] = h
    BY <1>1 DEF Linked, Memory, Closed
  <1>3. ListAttach(m, n, h).next = [m.next EXCEPT ![n] = h, ![m.prev[h]] = n]
    BY <1>1 DEF ListAttach, ListConnect
  <1>4. ASSUME NEW k \in Node PROVE m.next[k] = n => k = n
    BY <1>1 DEF Linked
  <1>. QED
    BY <1>2, <1>3, <1>4 DEF Closed, Linked, Memory

\* Neither does taking a node out of its list.
LEMMA DetachClosed ==
  ASSUME NEW m, Linked(m), NEW w \in [Node -> Node], Closed(m, w), NEW n \in Node
  PROVE  Closed(ListDetach(m, n), [w EXCEPT ![n] = n])
  <1>1. m.next[n] \in Node /\ m.prev[n] \in Node /\ m.prev[m.next[n]] = n
    BY DEF Linked, Memory
  <1>2. ListDetach(m, n).next = [m.next EXCEPT ![m.prev[n]] = m.next[n], ![n] = n]
    BY <1>1 DEF ListDetach, ListConnect
  <1>3. w[m.next[n]] = w[n] /\ w[m.prev[n]] = w[n]
    BY <1>1 DEF Closed, Linked
  <1>4. ASSUME NEW k \in Node, m.next[k] = n PROVE k = m.prev[n]
    BY <1>4 DEF Linked
  <1>. QED
    BY <1>1, <1>2, <1>3, <1>4 DEF Closed, Linked, Memory

------------------------------------------------------------------------------
(* Rings as sequences *)

\* What the pointers back to h, and to a node of its ring, are.
LEMMA RingPrev ==
  ASSUME NEW m, Linked(m), NEW h \in Node, NEW s, IsRing(m, h, s)
  PROVE  /\ m.prev[h] = IF Len(s) = 0 THEN h ELSE s[Len(s)]
         /\ \A i \in 1..Len(s) : m.prev[s[i]] = IF i = 1 THEN h ELSE s[i - 1]
  <1>1. Len(s) \in Nat /\ \A i \in 1..Len(s) : s[i] \in Node
    BY DEF IsRing
  <1>2. Len(s) # 0 => m.next[s[Len(s)]] = h /\ s[Len(s)] \in Node /\ m.next[h] = s[1]
    BY <1>1 DEF IsRing
  <1>3. ASSUME NEW i \in 1..Len(s), i # 1 PROVE m.next[s[i - 1]] = s[i] /\ s[i - 1] \in Node
    <2>1. i - 1 \in 1..Len(s) /\ i - 1 # Len(s) /\ (i - 1) + 1 = i
      BY <1>1, <1>3
    <2>. QED
      BY <1>1, <2>1 DEF IsRing
  <1>4. Len(s) = 0 => m.next[h] = h
    BY DEF IsRing
  <1>. QED
    BY <1>1, <1>2, <1>3, <1>4 DEF Linked

\* A ring stays while the pointers of its nodes stay.
LEMMA RingKept ==
  ASSUME NEW m, NEW c, NEW h, NEW s, IsRing(m, h, s),
         c.next[h] = m.next[h], \A i \in 1..Len(s) : c.next[s[i]] = m.next[s[i]]
  PROVE  IsRing(c, h, s)
  BY DEF IsRing

\* A lone node attached to a list becomes its last element.
LEMMA AttachRing ==
  ASSUME NEW m, Linked(m), NEW h \in Node, NEW s, IsRing(m, h, s),
         NEW n \in Node, n # h, m.next[n] = n
  PROVE  IsRing(ListAttach(m, n, h), h, Append(s, n))
  <1> DEFINE c == ListAttach(m, n, h)
             z == Append(s, n)
             p == m.prev[h]
  <1>0. s \in Seq(Node) /\ Len(s) \in Nat /\ \A i \in 1..Len(s) : s[i] \in Node
    BY DEF IsRing
  <1>1. m.prev[n] = n
    BY DEF Linked
  <1>2. c.next = [m.next EXCEPT ![n] = h, ![p] = n]
    BY <1>1 DEF ListAttach, ListConnect
  <1>3. z \in Seq(Node) /\ Len(z) = Len(s) + 1 /\ z[Len(s) + 1] = n /\ \A i \in 1..Len(s) : z[i] = s[i]
    BY <1>0
  <1>4. \A i \in 1..Len(s) : s[i] # n
    BY <1>0 DEF IsRing
  <1>5. p = (IF Len(s) = 0 THEN h ELSE s[Len(s)]) /\ p \in Node /\ p # n
    BY <1>0, <1>4, RingPrev
  <1>6. c.next[n] = h /\ c.next[p] = n /\ \A k \in Node : k # n /\ k # p => c.next[k] = m.next[k]
    BY <1>2, <1>5 DEF Linked, Memory
  <1>. HIDE DEF c, z, p
  <1>7. c.next[h] = z[1]
    BY <1>0, <1>3, <1>5, <1>6 DEF IsRing
  <1>8. ASSUME NEW i \in 1..Len(z) PROVE c.next[z[i]] = IF i = Len(z) THEN h ELSE z[i + 1]
    <2>1. CASE i = Len(s) + 1
      BY <1>3, <1>6, <2>1
    <2>2. CASE i = Len(s)
      <3>1. z[i] = p
        BY <1>0, <1>3, <1>5, <2>2
      <3>. QED
        BY <1>0, <1>3, <1>6, <2>2, <3>1
    <2>3. CASE i \in 1..Len(s) /\ i # Len(s)
      <3>1. z[i] = s[i] /\ z[i + 1] = s[i + 1] /\ s[i] # p /\ s[i] # n /\ s[i] \in Node
        BY <1>0, <1>3, <1>4, <1>5, <2>3 DEF IsRing
      <3>. QED
        BY <1>0, <1>3, <1>6, <2>3, <3>1 DEF IsRing
    <2>. QED
      BY <1>0, <1>3, <2>1, <2>2, <2>3
  <1>9. /\ \A i \in 1..Len(z) : z[i] # h
        /\ \A i, j \in 1..Len(z) : z[i] = z[j] => i = j
    BY <1>0, <1>3, <1>4 DEF IsRing
  <1>. QED
    BY <1>0, <1>3, <1>7, <1>8, <1>9 DEF IsRing, c, z

\* A detached node is missing from its list, whose other elements keep their order.
LEMMA DetachRing ==
  ASSUME NEW m, Linked(m), NEW h \in Node, NEW s, IsRing(m, h, s), NEW j \in 1..Len(s)
  PROVE  IsRing(ListDetach(m, s[j]), h, Dropped(s, j))
  <1> DEFINE n == s[j]
             c == ListDetach(m, n)
             z == Dropped(s, j)
             p == m.prev[n]
             q == m.next[n]
  <1>0. s \in Seq(Node) /\ Len(s) \in Nat /\ Len(s) # 0 /\ n \in Node /\ \A i \in 1..Len(s) : s[i] \in Node
    BY DEF IsRing
  <1>1. q \in Node /\ p \in Node /\ m.prev[q] = n
    BY <1>0 DEF Linked, Memory
  <1>2. c.next = [m.next EXCEPT ![p] = q, ![n] = n]
    BY <1>1 DEF ListDetach, ListConnect
  <1>3. /\ p = (IF j = 1 THEN h ELSE s[j - 1])
        /\ q = (IF j = Len(s) THEN h ELSE s[j + 1])
    BY <1>0, RingPrev DEF IsRing
  <1>4. p # n
    BY <1>0, <1>3 DEF IsRing
  <1>5. c.next[p] = q /\ \A k \in Node : k # n /\ k # p => c.next[k] = m.next[k]
    BY <1>0, <1>1, <1>2, <1>4 DEF Linked, Memory
  <1>6. /\ z \in Seq(Node) /\ Len(z) = Len(s) - 1
        /\ \A i \in 1..Len(z) : z[i] = (IF i < j THEN s[i] ELSE s[i + 1])
    BY <1>0 DEF Dropped
  <1>. HIDE DEF c, z, p, q, n
  <1>7. c.next[h] = IF Len(z) = 0 THEN h ELSE z[1]
    <2>1. CASE j = 1
      BY <1>0, <1>3, <1>5, <1>6, <2>1
    <2>2. CASE j # 1
      <3>1. h # p /\ h # n
        BY <1>0, <1>3, <2>2 DEF IsRing, n
      <3>. QED
        BY <1>0, <1>5, <1>6, <2>2, <3>1 DEF IsRing
    <2>. QED
      BY <2>1, <2>2
  <1>8. ASSUME NEW i \in 1..Len(z) PROVE c.next[z[i]] = IF i = Len(z) THEN h ELSE z[i + 1]
    <2>1. CASE i < j - 1
      <3>0. /\ j \in 1..Len(s) /\ j - 1 \in 1..Len(s) /\ j # 1 /\ i # j /\ i # j - 1
            /\ i \in 1..Len(s) /\ i # Len(s) /\ i + 1 \in 1..Len(z) /\ i # Len(z) /\ i < j /\ i + 1 < j
        BY <1>0, <1>6, <2>1
      <3>1. z[i] = s[i] /\ z[i + 1] = s[i + 1]
        BY <1>6, <3>0
      <3>2. s[i] # p /\ s[i] # n /\ s[i] \in Node
        BY <1>0, <1>3, <3>0 DEF IsRing, n
      <3>3. m.next[s[i]] = s[i + 1]
        BY <3>0 DEF IsRing
      <3>. QED
        BY <1>5, <3>0, <3>1, <3>2, <3>3
    <2>2. CASE i = j - 1
      <3>1. z[i] = p
        BY <1>0, <1>3, <1>6, <2>2
      <3>. QED
        BY <1>0, <1>3, <1>5, <1>6, <2>2, <3>1
    <2>3. CASE i >= j
      <3>1. z[i] = s[i + 1] /\ i + 1 \in 1..Len(s)
        BY <1>0, <1>6, <2>3
      <3>2. s[i + 1] # p /\ s[i + 1] # n
        BY <1>0, <1>3, <2>3, <3>1 DEF IsRing, n
      <3>3. m.next[s[i + 1]] = IF i + 1 = Len(s) THEN h ELSE s[i + 2]
        BY <3>1 DEF IsRing
      <3>4. i + 1 # Len(s) => i + 1 \in 1..Len(z) /\ z[i + 1] = s[i + 2]
        BY <1>0, <1>6, <2>3
      <3>. QED
        BY <1>0, <1>5, <1>6, <3>1, <3>2, <3>3, <3>4
    <2>. QED
      BY <1>0, <1>6, <2>1, <2>2, <2>3
  <1>9. /\ \A i \in 1..Len(z) : z[i] # h
        /\ \A i, k \in 1..Len(z) : z[i] = z[k] => i = k
    <2> DEFINE at(i) == IF i < j THEN i ELSE i + 1
    <2>1. \A i \in 1..Len(z) : at(i) \in 1..Len(s) /\ z[i] = s[at(i)]
      BY <1>0, <1>6
    <2>2. \A i, k \in 1..Len(z) : at(i) = at(k) => i = k
      BY <1>0, <1>6
    <2>. HIDE DEF at
    <2>3. \A a \in 1..Len(s) : s[a] # h
      BY DEF IsRing
    <2>4. \A a, b \in 1..Len(s) : s[a] = s[b] => a = b
      BY DEF IsRing
    <2>5. ASSUME NEW i \in 1..Len(z), NEW k \in 1..Len(z), z[i] = z[k] PROVE i = k
      BY <2>1, <2>2, <2>4, <2>5, Zenon
    <2>6. \A i \in 1..Len(z) : z[i] # h
      BY <2>1, <2>3, Zenon
    <2>. QED
      BY <2>5, <2>6, Zenon
  <1>. QED
    BY <1>0, <1>6, <1>7, <1>8, <1>9 DEF IsRing, c, z, n

------------------------------------------------------------------------------
(* Walking a ring *)

\* Every non-empty set of naturals has a least element: induction, in the one form that
\* the provers can use.
LEMMA Least ==
  ASSUME NEW T, T \subseteq Nat, T # {}
  PROVE  \E x \in T : \A y \in T : x <= y
  <1>1. PICK R : IsWellFoundedOn(R, Nat) /\ \A x, y \in Nat : y < x => <<y, x>> \in R
    <2>1. IsWellFoundedOn(OpToRel(<, Nat), Nat)
      BY NatLessThanWellFounded
    <2>2. \A x, y \in Nat : y < x => <<y, x>> \in OpToRel(<, Nat)
      BY Zenon DEF OpToRel
    <2>. QED
      BY <2>1, <2>2, Zenon
  <1>2. PICK x \in T : \A y \in T : ~ (<<y, x>> \in R)
    BY <1>1, WFMin
  <1>3. \A y \in T : ~ (y < x)
    BY <1>1, <1>2
  <1>. QED
    BY <1>3

\* What ListFollow computes: the pointers, one after the other.  That such a function
\* exists is shown by induction on how far it goes.
LEMMA FollowDef ==
  ASSUME NEW m, NEW h
  PROVE  /\ ListFollow(m, h)[0] = h
         /\ \A k \in 1..Cardinality(Node) : ListFollow(m, h)[k] = m.next[ListFollow(m, h)[k - 1]]
  <1> DEFINE N == Cardinality(Node)
             at == ListFollow(m, h)
             Has(n) == \E g : g = [k \in 0..n |-> IF k = 0 THEN h ELSE m.next[g[k - 1]]]
             T == {n \in Nat : ~Has(n)}
  <1>1. N \in Nat
    BY NodeAssumption, FS_CardinalityType
  <1>2. \A n \in Nat : Has(n)
    <2>. SUFFICES ASSUME T # {} PROVE FALSE
      BY Zenon
    <2>1. PICK x \in T : \A y \in T : x <= y
      <3>. HIDE DEF Has
      <3>1. T \subseteq Nat
        OBVIOUS
      <3>. HIDE DEF T
      <3>. QED
        BY <3>1, Least
    <2>2. Has(0)
      <3>1. [k \in 0..0 |-> h] = [k \in 0..0 |-> IF k = 0 THEN h ELSE m.next[[i \in 0..0 |-> h][k - 1]]]
        OBVIOUS
      <3>. QED
        BY <3>1
    <2>3. x # 0 /\ x - 1 \in Nat /\ Has(x - 1)
      <3>. HIDE DEF Has
      <3>1. x # 0 /\ x - 1 \in Nat
        BY <2>2
      <3>2. x - 1 \notin T
        BY <2>1, <3>1
      <3>. QED
        BY <3>1, <3>2
    <2>4. PICK g : g = [k \in 0..x - 1 |-> IF k = 0 THEN h ELSE m.next[g[k - 1]]]
      BY <2>3
    <2> DEFINE e == [k \in 0..x |-> IF k = x THEN m.next[g[x - 1]] ELSE g[k]]
    <2>5. e = [k \in 0..x |-> IF k = 0 THEN h ELSE m.next[e[k - 1]]]
      <3>1. ASSUME NEW k \in 0..x PROVE e[k] = IF k = 0 THEN h ELSE m.next[e[k - 1]]
        <4>1. CASE k = x
          BY <2>3, <4>1
        <4>2. CASE k # x
          <5>1. k \in 0..x - 1 /\ (k # 0 => k - 1 \in 0..x /\ k - 1 # x)
            BY <2>3, <4>2
          <5>2. g[k] = IF k = 0 THEN h ELSE m.next[g[k - 1]]
            BY <2>4, <5>1
          <5>. QED
            BY <4>2, <5>1, <5>2
        <4>. QED
          BY <4>1, <4>2
      <3>2. e = [k \in 0..x |-> e[k]]
        OBVIOUS
      <3>. HIDE DEF e
      <3>. QED
        BY <3>1, <3>2
    <2>6. Has(x)
      <3>. HIDE DEF e
      <3>. QED
        BY <2>5
    <2>. QED
      BY <2>6
  <1>3. Has(N)
    <2>. HIDE DEF Has, N
    <2>. QED
      BY <1>1, <1>2
  <1>4. at = CHOOSE g : g = [k \in 0..N |-> IF k = 0 THEN h ELSE m.next[g[k - 1]]]
    BY Zenon DEF ListFollow
  <1>5. at = [k \in 0..N |-> IF k = 0 THEN h ELSE m.next[at[k - 1]]]
    BY <1>3, <1>4, Zenon
  <1>. HIDE DEF N, at
  <1>6. at[0] = h /\ \A k \in 1..N : at[k] = m.next[at[k - 1]]
    BY <1>1, <1>5
  <1>. QED
    BY <1>6 DEF N, at

\* A ring has no more nodes than there are.
LEMMA RingLength ==
  ASSUME NEW m, NEW h \in Node, NEW s, IsRing(m, h, s)
  PROVE  Len(s) \in Nat /\ Len(s) + 1 <= Cardinality(Node) /\ Cardinality(Node) \in Nat
  <1> DEFINE f == [k \in 0..Len(s) |-> IF k = 0 THEN h ELSE s[k]]
  <1>1. Len(s) \in Nat /\ \A i \in 1..Len(s) : s[i] \in Node
    BY DEF IsRing
  <1>2. Cardinality(Node) \in Nat
    BY NodeAssumption, FS_CardinalityType
  <1>3. f \in Injection(0..Len(s), Node)
    <2>1. f \in [0..Len(s) -> Node]
      BY <1>1
    <2>2. \A i, j \in 0..Len(s) : f[i] = f[j] => i = j
      BY <1>1 DEF IsRing
    <2>. QED
      BY <2>1, <2>2 DEF Injection
  <1>4. Cardinality(0..Len(s)) <= Cardinality(Node)
    <2>. HIDE DEF f
    <2>. QED
      BY <1>3, NodeAssumption, FS_Injection
  <1>5. Cardinality(0..Len(s)) = Len(s) + 1
    BY <1>1, FS_Interval
  <1>. QED
    BY <1>1, <1>2, <1>4, <1>5

\* A walk meets the nodes of the ring, in their order.
LEMMA WalkIsRing ==
  ASSUME NEW m, NEW h \in Node, NEW s, IsRing(m, h, s)
  PROVE  ListWalk(m, h) = s
  <1> DEFINE N == Cardinality(Node)
             at == ListFollow(m, h)
             Stops(k) == at[k + 1] = h /\ \A j \in 1..k : at[j] # h
             len == CHOOSE k \in 0..N - 1 : Stops(k)
             want(k) == IF k = 0 \/ k = Len(s) + 1 THEN h ELSE s[k]
             T == {k \in 0..Len(s) + 1 : at[k] # want(k)}
  <1>1. Len(s) \in Nat /\ Len(s) + 1 <= N /\ N \in Nat
    BY RingLength
  <1>2. at[0] = h /\ \A k \in 1..N : at[k] = m.next[at[k - 1]]
    BY FollowDef
  <1>w. ListWalk(m, h) = [k \in 1..len |-> at[k]]
    BY Zenon DEF ListWalk
  <1>. HIDE DEF N, at
  <1>3. T = {}
    <2>. SUFFICES ASSUME T # {} PROVE FALSE
      OBVIOUS
    <2>1. PICK x \in T : \A y \in T : x <= y
      <3>1. T \subseteq Nat
        BY <1>1
      <3>. HIDE DEF T
      <3>. QED
        BY <3>1, Least
    <2>2. x # 0 /\ x \in 1..N /\ x - 1 \in 0..Len(s)
      BY <1>1, <1>2
    <2>3. x - 1 \notin T
      BY <1>1, <2>1, <2>2
    <2>4. at[x - 1] = want(x - 1)
      BY <1>1, <2>2, <2>3
    <2>5. at[x] = m.next[want(x - 1)]
      BY <1>2, <2>2, <2>4
    <2>6. m.next[want(x - 1)] = want(x)
      <3>1. CASE x = 1
        BY <1>1, <3>1 DEF IsRing
      <3>2. CASE x # 1
        <4>1. x - 1 \in 1..Len(s) /\ want(x - 1) = s[x - 1]
          BY <1>1, <2>2, <3>2
        <4>2. m.next[s[x - 1]] = IF x - 1 = Len(s) THEN h ELSE s[(x - 1) + 1]
          BY <4>1 DEF IsRing
        <4>. QED
          BY <1>1, <2>2, <3>2, <4>1, <4>2
      <3>. QED
        BY <3>1, <3>2
    <2>. QED
      BY <2>1, <2>5, <2>6
  <1>4. at[Len(s) + 1] = h /\ \A j \in 1..Len(s) : at[j] = s[j] /\ at[j] # h
    BY <1>1, <1>3 DEF IsRing
  <1>. HIDE DEF T, want
  <1>5. Len(s) \in 0..N - 1 /\ Stops(Len(s))
    BY <1>1, <1>4
  <1>6. ASSUME NEW k \in 0..N - 1, Stops(k) PROVE k = Len(s)
    <2>1. CASE k < Len(s)
      <3>1. k + 1 \in 1..Len(s)
        BY <1>1, <2>1
      <3>. QED
        BY <1>4, <1>6, <3>1
    <2>2. CASE k > Len(s)
      <3>1. Len(s) + 1 \in 1..k
        BY <1>1, <2>2
      <3>. QED
        BY <1>4, <1>6, <3>1
    <2>. QED
      BY <1>1, <2>1, <2>2
  <1>7. len = Len(s)
    <2>. HIDE DEF Stops
    <2>. QED
      BY <1>5, <1>6
  <1>8. s = [k \in 1..Len(s) |-> s[k]]
    BY DEF IsRing
  <1>. HIDE DEF len
  <1>. QED
    BY <1>w, <1>7, <1>4, <1>8

------------------------------------------------------------------------------
(* Lists: a ring, and the nodes that belong there *)

\* A lone node attached to a list is its last element.
LEMMA AttachRingOf ==
  ASSUME NEW m, Linked(m), NEW w \in [Node -> Node], NEW h \in Node, NEW s, RingOf(m, w, h, s),
         NEW n \in Node, n # h, m.next[n] = n
  PROVE  RingOf(ListAttach(m, n, h), [w EXCEPT ![n] = h], h, Append(s, n))
  <1> DEFINE z == Append(s, n)
  <1>1. IsRing(ListAttach(m, n, h), h, z)
    BY AttachRing DEF RingOf
  <1>2. Len(s) \in Nat /\ Len(z) = Len(s) + 1 /\ z[Len(s) + 1] = n /\ \A i \in 1..Len(s) : z[i] = s[i]
    BY DEF RingOf, IsRing
  <1>. HIDE DEF z
  <1>3. ASSUME NEW k \in Node \ {h}
        PROVE  [w EXCEPT ![n] = h][k] = h <=> \E i \in 1..Len(z) : z[i] = k
    <2>1. (\E i \in 1..Len(z) : z[i] = k) <=> k = n \/ \E i \in 1..Len(s) : s[i] = k
      BY <1>2
    <2>. QED
      BY <2>1 DEF RingOf
  <1>. QED
    BY <1>1, <1>3 DEF RingOf, z

\* The other lists stay as they are.
LEMMA AttachRingOther ==
  ASSUME NEW m, Linked(m), NEW w \in [Node -> Node], NEW g \in Node, NEW s, RingOf(m, w, g, s),
         NEW n \in Node, NEW h \in Node, n # h, m.next[n] = n, w[n] = n, w[h] = h, g # n, g # h
  PROVE  RingOf(ListAttach(m, n, h), [w EXCEPT ![n] = h], g, s)
  <1> DEFINE c == ListAttach(m, n, h)
  <1>1. m.prev[n] = n /\ m.prev[h] \in Node
    BY DEF Linked, Memory
  <1>2. c.next = [m.next EXCEPT ![n] = h, ![m.prev[h]] = n]
    BY <1>1 DEF ListAttach, ListConnect
  <1>. HIDE DEF c
  <1>3. /\ Len(s) \in Nat /\ (\A i \in 1..Len(s) : s[i] \in Node)
        /\ \A i \in 1..Len(s) : s[i] # n /\ s[i] # h
    BY DEF RingOf, IsRing
  <1>4. m.next[m.prev[h]] = h
    BY DEF Linked
  <1>5. m.prev[h] # g /\ \A i \in 1..Len(s) : m.prev[h] # s[i]
    BY <1>3, <1>4 DEF RingOf, IsRing
  <1>6. c.next[g] = m.next[g] /\ \A i \in 1..Len(s) : c.next[s[i]] = m.next[s[i]]
    BY <1>1, <1>2, <1>3, <1>5 DEF Linked, Memory
  <1>7. IsRing(c, g, s)
    BY <1>6, RingKept DEF RingOf
  <1>8. ASSUME NEW k \in Node \ {g}
        PROVE  [w EXCEPT ![n] = h][k] = g <=> \E i \in 1..Len(s) : s[i] = k
    BY <1>3 DEF RingOf
  <1>. QED
    BY <1>7, <1>8 DEF RingOf, c

\* n is the j-th node of the list s of h, and nowhere else in it; detached, the others remain.
LeavesAt(m, w, h, s, n, j) ==
    /\ s[j] = n /\ \A i \in 1..Len(s) : s[i] = n => i = j
    /\ RingOf(ListDetach(m, n), [w EXCEPT ![n] = n], h, Dropped(s, j))

\* A detached node leaves the list it was in.
LEMMA DetachRingOf ==
  ASSUME NEW m, Linked(m), NEW w \in [Node -> Node], NEW h \in Node, NEW s, RingOf(m, w, h, s),
         NEW n \in Node, n # h, w[n] = h
  PROVE  \E j \in 1..Len(s) : LeavesAt(m, w, h, s, n, j)
  <1>1. PICK j \in 1..Len(s) : s[j] = n
    BY DEF RingOf
  <1>2. \A i \in 1..Len(s) : s[i] = n => i = j
    BY <1>1 DEF RingOf, IsRing
  <1> DEFINE z == Dropped(s, j)
  <1>3. IsRing(ListDetach(m, n), h, z)
    BY <1>1, DetachRing DEF RingOf
  <1>4. /\ Len(s) \in Nat /\ Len(z) = Len(s) - 1
        /\ \A i \in 1..Len(z) : z[i] = (IF i < j THEN s[i] ELSE s[i + 1])
    BY DEF RingOf, IsRing, Dropped
  <1>. HIDE DEF z
  <1>5. ASSUME NEW k \in Node \ {h}
        PROVE  [w EXCEPT ![n] = n][k] = h <=> \E i \in 1..Len(z) : z[i] = k
    <2>1. (\E i \in 1..Len(z) : z[i] = k) => k # n /\ \E i \in 1..Len(s) : s[i] = k
      <3>. SUFFICES ASSUME NEW i \in 1..Len(z), z[i] = k
                    PROVE  k # n /\ \E a \in 1..Len(s) : s[a] = k
        BY Zenon
      <3>1. CASE i < j
        <4>1. i \in 1..Len(s) /\ i # j /\ s[i] = k
          BY <1>4, <3>1
        <4>. QED
          BY <1>2, <4>1
      <3>2. CASE ~(i < j)
        <4>1. i + 1 \in 1..Len(s) /\ i + 1 # j /\ s[i + 1] = k
          BY <1>4, <3>2
        <4>. QED
          BY <1>2, <4>1
      <3>. QED
        BY <3>1, <3>2
    <2>2. ASSUME k # n, NEW i \in 1..Len(s), s[i] = k PROVE \E a \in 1..Len(z) : z[a] = k
      <3>1. i # j
        BY <1>1, <2>2
      <3>2. CASE i < j
        <4>1. i \in 1..Len(z) /\ z[i] = k
          BY <1>4, <2>2, <3>2
        <4>. QED
          BY <4>1
      <3>3. CASE i > j
        <4>1. i - 1 \in 1..Len(z) /\ ~(i - 1 < j) /\ (i - 1) + 1 = i
          BY <1>4, <3>3
        <4>2. z[i - 1] = k
          BY <1>4, <2>2, <4>1
        <4>. QED
          BY <4>1, <4>2
      <3>. QED
        BY <3>1, <3>2, <3>3
    <2>3. w[k] = h <=> \E i \in 1..Len(s) : s[i] = k
      BY DEF RingOf
    <2>. QED
      BY <2>1, <2>2, <2>3
  <1>. QED
    BY <1>1, <1>2, <1>3, <1>5 DEF RingOf, LeavesAt, z

\* The lists it was not in stay as they are.
LEMMA DetachRingOther ==
  ASSUME NEW m, Linked(m), NEW w \in [Node -> Node], NEW g \in Node, NEW s, RingOf(m, w, g, s),
         NEW n \in Node, n # g, w[n] # g
  PROVE  RingOf(ListDetach(m, n), [w EXCEPT ![n] = n], g, s)
  <1> DEFINE c == ListDetach(m, n)
  <1>1. m.next[n] \in Node /\ m.prev[n] \in Node /\ m.prev[m.next[n]] = n /\ m.next[m.prev[n]] = n
    BY DEF Linked, Memory
  <1>2. c.next = [m.next EXCEPT ![m.prev[n]] = m.next[n], ![n] = n]
    BY <1>1 DEF ListDetach, ListConnect
  <1>. HIDE DEF c
  <1>3. /\ Len(s) \in Nat /\ (\A i \in 1..Len(s) : s[i] \in Node)
        /\ \A i \in 1..Len(s) : s[i] # n
    BY DEF RingOf, IsRing
  <1>4. m.prev[n] # g /\ \A i \in 1..Len(s) : m.prev[n] # s[i]
    BY <1>1, <1>3 DEF RingOf, IsRing
  <1>5. c.next[g] = m.next[g] /\ \A i \in 1..Len(s) : c.next[s[i]] = m.next[s[i]]
    BY <1>1, <1>2, <1>3, <1>4 DEF Linked, Memory
  <1>6. IsRing(c, g, s)
    BY <1>5, RingKept DEF RingOf
  <1>7. ASSUME NEW k \in Node \ {g}
        PROVE  [w EXCEPT ![n] = n][k] = g <=> \E i \in 1..Len(s) : s[i] = k
    BY <1>3 DEF RingOf
  <1>. QED
    BY <1>6, <1>7 DEF RingOf, c

\* The sequence of a list is what a walk of it meets.
LEMMA RingOfWalk ==
  ASSUME NEW m, NEW w, NEW h \in Node, NEW s, RingOf(m, w, h, s)
  PROVE  RingOf(m, w, h, ListWalk(m, h))
  BY WalkIsRing DEF RingOf

\* What a walk of a list meets.
LEMMA MembersOfRing ==
  ASSUME NEW m, NEW w, NEW h \in Node, NEW s, RingOf(m, w, h, s)
  PROVE  ListMembers(m, h) = {n \in Node \ {h} : w[n] = h}
  <1>1. ListWalk(m, h) = s
    BY WalkIsRing DEF RingOf
  <1>2. DOMAIN s = 1..Len(s) /\ \A i \in 1..Len(s) : s[i] \in Node \ {h}
    BY DEF RingOf, IsRing
  <1>3. ListMembers(m, h) = {s[k] : k \in 1..Len(s)}
    BY <1>1, <1>2 DEF ListMembers
  <1>. QED
    BY <1>2, <1>3 DEF RingOf

------------------------------------------------------------------------------
(* Any program that uses list.h *)

\* The program's lists start as rings of one node each.
LEMMA ListInvInit == ListsInit => ListInv
  <1>. SUFFICES ASSUME ListsInit PROVE ListInv
    OBVIOUS
  <1>1. /\ ListsTypeOK /\ RingsIntact /\ DetachedIsAlone
        /\ \A h \in ListHeads : listOf[h] = h
    BY ListHeadsAssumption
    DEF ListsInit, ListsTypeOK, RingsIntact, Linked, Closed, Memory, DetachedIsAlone,
        ListIsEmpty, Item
  <1>2. ASSUME NEW h \in ListHeads PROVE RingOf(links, listOf, h, seq[h])
    <2>1. h \in Node /\ seq[h] = <<>> /\ links.next[h] = h /\ \A n \in Node : listOf[n] = n
      BY ListHeadsAssumption DEF ListsInit
    <2>. QED
      BY <2>1 DEF RingOf, IsRing
  <1>. QED
    BY <1>1, <1>2 DEF ListInv

\* Each operation keeps the invariant.
LEMMA ListInvStep == ListInv /\ [ListsNext]_lvars => ListInv'
  <1>. SUFFICES ASSUME ListInv, [ListsNext]_lvars PROVE ListInv'
    OBVIOUS
  <1>. USE ListHeadsAssumption
  <1>1. CASE UNCHANGED lvars
    BY <1>1 DEF lvars, ListInv, ListsTypeOK, RingsIntact, Linked, Closed, Memory,
                DetachedIsAlone, ListIsEmpty
  <1>2. ASSUME NEW n \in Item, InitNode(n) PROVE ListInv'
    <2>1. links' = links
      BY <1>2, InitAlone DEF InitNode, ListInv, RingsIntact, DetachedIsAlone, ListIsEmpty, Item
    <2>. QED
      BY <1>2, <2>1 DEF InitNode, ListInv, ListsTypeOK, RingsIntact, Linked, Closed, Memory,
                        DetachedIsAlone, ListIsEmpty
  <1>3. ASSUME NEW n \in Item, NEW h \in ListHeads, Attach(n, h) PROVE ListInv'
    <2>1. /\ n \in Node /\ h \in Node /\ n # h /\ listOf[h] = h
          /\ links.next[n] = n /\ listOf[n] = n
      BY <1>3 DEF Attach, ListInv, DetachedIsAlone, ListIsEmpty, Item
    <2>2. links' = ListAttach(links, n, h)
      BY <1>3, <2>1, ConnectSymmetric DEF Attach, ListAttach, ListInv, RingsIntact
    <2>3. Linked(links')
      BY <2>1, <2>2, ConnectLinked DEF ListAttach, ListInv, RingsIntact
    <2>4. Closed(links', listOf')
      BY <1>3, <2>1, <2>2, AttachClosed DEF Attach, ListInv, ListsTypeOK, RingsIntact
    <2>5. links'.next = [links.next EXCEPT ![n] = h, ![links.prev[h]] = n]
      BY <2>1, <2>2 DEF ListAttach, ListConnect, ListInv, RingsIntact, Linked
    <2>6. ASSUME NEW k \in Item, listOf'[k] = k PROVE links'.next[k] = k
      <3>1. k # n /\ listOf[k] = k /\ links.next[k] = k /\ k # h
        BY <1>3, <2>1, <2>6 DEF Attach, ListInv, ListsTypeOK, DetachedIsAlone, ListIsEmpty, Item
      <3>2. links.prev[h] # k
        BY <2>1, <3>1 DEF ListInv, RingsIntact, Linked
      <3>. QED
        BY <2>5, <3>1, <3>2 DEF ListInv, RingsIntact, Linked, Memory, Item
    <2>7. ListsTypeOK' /\ \A g \in ListHeads : listOf'[g] = g
      BY <1>3, <2>1, <2>3 DEF Attach, ListInv, ListsTypeOK, Linked, Item
    <2>8. ASSUME NEW g \in ListHeads PROVE RingOf(links', listOf', g, seq'[g])
      <3>1. RingOf(links, listOf, g, seq[g]) /\ g \in Node /\ g # n /\ listOf \in [Node -> Node]
        BY DEF ListInv, ListsTypeOK, Item
      <3>2. listOf' = [listOf EXCEPT ![n] = h] /\ seq'[g] = IF g = h THEN Append(seq[h], n) ELSE seq[g]
        BY <1>3 DEF Attach, ListInv, ListsTypeOK
      <3>3. CASE g = h
        BY <2>1, <2>2, <3>1, <3>2, <3>3, AttachRingOf, ZenonT(40) DEF ListInv, RingsIntact
      <3>4. CASE g # h
        BY <2>1, <2>2, <3>1, <3>2, <3>4, AttachRingOther DEF ListInv, RingsIntact
      <3>. QED
        BY <3>3, <3>4
    <2>. QED
      BY <2>3, <2>4, <2>6, <2>7, <2>8 DEF ListInv, RingsIntact, DetachedIsAlone, ListIsEmpty
  <1>4. ASSUME NEW n \in Item, Detach(n) PROVE ListInv'
    <2>1. /\ n \in Node /\ links' = ListDetach(links, n)
          /\ listOf' = [listOf EXCEPT ![n] = n]
      BY <1>4 DEF Detach, Item
    <2>2. Linked(links') /\ links'.next[n] = n
      BY <2>1, DetachAlone DEF ListInv, RingsIntact
    <2>3. Closed(links', listOf')
      BY <2>1, DetachClosed DEF ListInv, ListsTypeOK, RingsIntact
    <2>4. links'.next = [links.next EXCEPT ![links.prev[n]] = links.next[n], ![n] = n]
      BY <2>1 DEF ListDetach, ListConnect, ListInv, RingsIntact, Linked
    <2>5. ASSUME NEW k \in Item, listOf'[k] = k PROVE links'.next[k] = k
      <3>1. CASE k = n
        BY <2>2, <3>1
      <3>2. CASE k # n
        <4>1. links.next[k] = k
          BY <2>1, <2>5, <3>2 DEF ListInv, ListsTypeOK, DetachedIsAlone, ListIsEmpty, Item
        <4>2. k # links.prev[n]
          BY <2>1, <3>2, <4>1 DEF ListInv, RingsIntact, Linked
        <4>. QED
          BY <2>4, <3>2, <4>1, <4>2 DEF ListInv, RingsIntact, Linked, Memory, Item
      <3>. QED
        BY <3>1, <3>2
    <2>6. ListsTypeOK' /\ \A g \in ListHeads : listOf'[g] = g
      BY <1>4, <2>1, <2>2 DEF Detach, ListInv, ListsTypeOK, Linked, Item
    <2>7. ASSUME NEW g \in ListHeads PROVE RingOf(links', listOf', g, seq'[g])
      <3>1. RingOf(links, listOf, g, seq[g]) /\ g \in Node /\ g # n /\ listOf \in [Node -> Node]
        BY DEF ListInv, ListsTypeOK, Item
      <3>2. CASE listOf[n] = g
        <4>1. PICK j \in 1..Len(seq[g]) :
                  /\ seq[g][j] = n /\ \A i \in 1..Len(seq[g]) : seq[g][i] = n => i = j
                  /\ RingOf(links', listOf', g, Dropped(seq[g], j))
          <5>1. Linked(links)
            BY DEF ListInv, RingsIntact
          <5>2. \E j \in 1..Len(seq[g]) : LeavesAt(links, listOf, g, seq[g], n, j)
            BY <2>1, <3>1, <3>2, <5>1, DetachRingOf
          <5>. QED
            BY <2>1, <5>2 DEF LeavesAt
        <4>2. (CHOOSE i \in 1..Len(seq[g]) : seq[g][i] = n) = j
          BY <4>1
        <4>3. seq'[g] = Dropped(seq[g], CHOOSE i \in 1..Len(seq[g]) : seq[g][i] = n)
          BY <1>4, <3>2 DEF Detach
        <4>. QED
          BY <4>1, <4>2, <4>3
      <3>3. CASE listOf[n] # g
        <4>1. seq'[g] = seq[g]
          BY <1>4, <3>3 DEF Detach
        <4>. QED
          BY <2>1, <3>1, <3>3, <4>1, DetachRingOther DEF ListInv, RingsIntact
      <3>. QED
        BY <3>2, <3>3
    <2>. QED
      BY <2>2, <2>3, <2>5, <2>6, <2>7 DEF ListInv, RingsIntact, DetachedIsAlone, ListIsEmpty
  <1>. QED
    BY <1>1, <1>2, <1>3, <1>4 DEF ListsNext

\* No sequence of list operations breaks a ring or links two lists.
THEOREM ListsStayIntact == ListsSpec => []RingsIntact
  <1>1. ListInv => RingsIntact
    BY DEF ListInv
  <1>. QED
    BY <1>1, ListInvInit, ListInvStep, PTL DEF ListsSpec

\* A detached node is alone, however often it is detached.
THEOREM DetachedStaysAlone == ListsSpec => []DetachedIsAlone
  <1>1. ListInv => DetachedIsAlone
    BY DEF ListInv
  <1>. QED
    BY <1>1, ListInvInit, ListInvStep, PTL DEF ListsSpec

\* A walk of a list meets exactly the nodes that were attached and not detached since, in
\* the order they were attached, for any number of lists and nodes.
THEOREM WalksStaySequences == ListsSpec => []WalksAreSequences
  <1>1. ListInv => WalksAreSequences
    BY WalkIsRing, ListHeadsAssumption DEF ListInv, RingOf, WalksAreSequences
  <1>. QED
    BY <1>1, ListInvInit, ListInvStep, PTL DEF ListsSpec

------------------------------------------------------------------------------
(* The rings of the period-task service *)

\* What the list work of an action does to the rings.  m and w are the memory
\* and the list of each node before it.
RingOK(m, w) ==
    /\ Linked(m)
    /\ w \in [Node -> Node]
    /\ Closed(m, w)
    /\ \A h \in Heads : w[h] = h
    /\ \A t \in Task : w[t] \in Heads \cup {t}
    /\ \A t \in Task : w[t] = t => m.next[t] = t
    /\ \A h \in Heads : RingOf(m, w, h, ListWalk(m, h))

\* Detaching a task (prdDelTask, and the first half of every move).
LEMMA RingDetach ==
  ASSUME NEW m, NEW w, RingOK(m, w), NEW t \in Task
  PROVE  /\ RingOK(ListDetach(m, t), [w EXCEPT ![t] = t])
         /\ ListDetach(m, t).next[t] = t
         /\ m.next[list] = list => ListDetach(m, t).next[list] = list
  <1> DEFINE d == ListDetach(m, t)
             v == [w EXCEPT ![t] = t]
  <1>1. t \in Node /\ list \in Node /\ Heads \subseteq Node /\ t \notin Heads
    BY TaskAssumption DEF Heads
  <1>2. Linked(d) /\ d.next[t] = t
    BY <1>1, DetachAlone DEF RingOK
  <1>3. Closed(d, v)
    BY <1>1, DetachClosed DEF RingOK
  <1>4. d.next = [m.next EXCEPT ![m.prev[t]] = m.next[t], ![t] = t]
    BY <1>1 DEF ListDetach, ListConnect, RingOK, Linked
  <1>5. ASSUME NEW k \in Node, k # t, m.next[k] = k PROVE d.next[k] = k
    <2>1. k # m.prev[t]
      BY <1>1, <1>5 DEF RingOK, Linked
    <2>. QED
      BY <1>1, <1>4, <1>5, <2>1 DEF RingOK, Linked, Memory
  <1>6. v \in [Node -> Node] /\ \A h \in Heads : v[h] = h
    BY <1>1 DEF RingOK
  <1>7. ASSUME NEW k \in Task PROVE v[k] \in Heads \cup {k} /\ (v[k] = k => d.next[k] = k)
    BY <1>1, <1>2, <1>5, TaskAssumption DEF RingOK
  <1>8. m.next[list] = list => d.next[list] = list
    BY <1>1, <1>5 DEF Heads
  <1>9. ASSUME NEW h \in Heads PROVE RingOf(d, v, h, ListWalk(d, h))
    <2>1. h \in Node /\ h # t /\ RingOf(m, w, h, ListWalk(m, h)) /\ Linked(m) /\ w \in [Node -> Node]
      BY <1>1 DEF RingOK
    <2>2. \E s : RingOf(d, v, h, s)
      <3>1. CASE w[t] = h
        <4>1. PICK j : LeavesAt(m, w, h, ListWalk(m, h), t, j)
          BY <1>1, <2>1, <3>1, DetachRingOf
        <4>. QED
          BY <4>1 DEF LeavesAt
      <3>2. CASE w[t] # h
        BY <1>1, <2>1, <3>2, DetachRingOther
      <3>. QED
        BY <3>1, <3>2
    <2>. HIDE DEF d, v
    <2>. QED
      BY <2>1, <2>2, RingOfWalk
  <1>. QED
    BY <1>2, <1>3, <1>6, <1>7, <1>8, <1>9 DEF RingOK

\* Attaching a task that is in no list.
LEMMA RingAttach ==
  ASSUME NEW m, NEW w, RingOK(m, w), NEW t \in Task, w[t] = t, NEW h \in Heads
  PROVE  /\ RingOK(ListAttach(m, t, h), [w EXCEPT ![t] = h])
         /\ h # list /\ m.next[list] = list => ListAttach(m, t, h).next[list] = list
  <1> DEFINE c == ListAttach(m, t, h)
             v == [w EXCEPT ![t] = h]
  <1>1. /\ t \in Node /\ list \in Heads /\ Heads \subseteq Node /\ t \notin Heads
        /\ m.next[t] = t /\ t # h /\ h \in Node
    BY TaskAssumption DEF Heads, RingOK
  <1>2. Linked(c)
    BY <1>1, ConnectLinked DEF ListAttach, RingOK
  <1>3. Closed(c, v)
    BY <1>1, AttachClosed DEF RingOK
  <1>4. c.next = [m.next EXCEPT ![t] = h, ![m.prev[h]] = t]
    BY <1>1 DEF ListAttach, ListConnect, RingOK, Linked
  <1>5. ASSUME NEW k \in Node, k # t, k # h, m.next[k] = k PROVE c.next[k] = k
    <2>1. k # m.prev[h]
      BY <1>1, <1>5 DEF RingOK, Linked
    <2>. QED
      BY <1>1, <1>4, <1>5, <2>1 DEF RingOK, Linked, Memory
  <1>6. v \in [Node -> Node] /\ \A g \in Heads : v[g] = g
    BY <1>1 DEF RingOK
  <1>7. ASSUME NEW k \in Task PROVE v[k] \in Heads \cup {k} /\ (v[k] = k => c.next[k] = k)
    BY <1>1, <1>5, TaskAssumption DEF RingOK
  <1>8. h # list /\ m.next[list] = list => c.next[list] = list
    BY <1>1, <1>5
  <1>9. ASSUME NEW g \in Heads PROVE RingOf(c, v, g, ListWalk(c, g))
    <2>1. g \in Node /\ g # t /\ RingOf(m, w, g, ListWalk(m, g)) /\ Linked(m) /\ w \in [Node -> Node]
      BY <1>1 DEF RingOK
    <2>2. \E s : RingOf(c, v, g, s)
      <3>1. CASE g = h
        BY <1>1, <2>1, <3>1, AttachRingOf
      <3>2. CASE g # h
        BY <1>1, <2>1, <3>2, AttachRingOther DEF RingOK
      <3>. QED
        BY <3>1, <3>2
    <2>. HIDE DEF c, v
    <2>. QED
      BY <2>1, <2>2, RingOfWalk
  <1>. QED
    BY <1>2, <1>3, <1>6, <1>7, <1>8, <1>9 DEF RingOK

\* prdAddTask's listInit and listAttach on a task that is in no list.
LEMMA RingEnlist ==
  ASSUME NEW m, NEW w, RingOK(m, w), NEW t \in Task, w[t] = t
  PROVE  /\ RingOK(Enlist(m, t), [w EXCEPT ![t] = g_lPrdTaskAdd])
         /\ m.next[list] = list => Enlist(m, t).next[list] = list
  <1>1. ListInit(m, t) = m
    BY InitAlone, TaskAssumption DEF RingOK
  <1>. QED
    BY <1>1, RingAttach, HeadsAssumption DEF Enlist, Heads

\* The first node behind a list head is a task of that list.
LEMMA FirstIsTask ==
  ASSUME NEW m, NEW w, RingOK(m, w), NEW h \in Heads, m.next[h] # h
  PROVE  m.next[h] \in Task /\ w[m.next[h]] = h
  <1>1. h \in Node /\ m.next[h] \in Node
    BY TaskAssumption DEF RingOK, Linked, Memory
  <1>2. w[m.next[h]] = h
    BY <1>1 DEF RingOK, Closed
  <1>3. m.next[h] \notin Heads
    BY <1>2 DEF RingOK
  <1>. QED
    BY <1>1, <1>2, <1>3, TaskAssumption

\* A task moved from one list to another.
LEMMA RingMove ==
  ASSUME NEW m, NEW w, RingOK(m, w), NEW t \in Task, NEW h \in Heads
  PROVE  RingOK(ListAttach(ListDetach(m, t), t, h), [w EXCEPT ![t] = h])
  <1> DEFINE v == [w EXCEPT ![t] = t]
  <1>1. RingOK(ListDetach(m, t), v)
    BY RingDetach
  <1>2. v[t] = t /\ [v EXCEPT ![t] = h] = [w EXCEPT ![t] = h]
    BY TaskAssumption DEF RingOK
  <1>3. RingOK(ListAttach(ListDetach(m, t), t, h), [v EXCEPT ![t] = h])
    <2>. HIDE DEF v
    <2>. QED
      BY <1>1, <1>2, RingAttach
  <1>. QED
    BY <1>2, <1>3

\* The inductive invariant holds before prdRun starts.
LEMMA PrdInit == Init => PrdInv
  <1>. SUFFICES ASSUME Init PROVE PrdInv
    OBVIOUS
  <1>. USE TaskAssumption, HeadsAssumption, TimeAssumption
  <1>1. mem \in Memory /\ mem.next = [n \in Node |-> n] /\ mem.prev = [n \in Node |-> n]
    BY DEF Init, Memory
  <1>2. TypeOK
    <2>1. mem \in Memory /\ where \in [Node -> Node]
      BY <1>1 DEF Init
    <2>2. tTimeout \in [Task -> Timeouts \cup {0}]
      BY DEF Init
    <2>3. /\ tRemain \in [Task -> 0..TickMax] /\ age \in [Task -> Nat]
          /\ waited \in [Task -> Nat] /\ ahead \in [Task -> Nat]
      BY DEF Init
    <2>4. /\ known \subseteq Task /\ ran \subseteq Task
          /\ pc \in PC /\ g_bPrdExit \in BOOLEAN
          /\ cur \in Task \cup {NoTask} /\ (cur # NoTask <=> pc = "callback")
      BY DEF Init, PC
    <2>5. /\ elapsed \in 0..MaxElapsed /\ tPeriod \in 0..MaxElapsed
          /\ tMinRemain \in 0..MaxWait /\ signals \in 0..MaxSignals
      BY DEF Init
    <2>. QED
      BY <2>1, <2>2, <2>3, <2>4, <2>5 DEF TypeOK
  <1>3. RingInv
    <2>1. ASSUME NEW h \in Heads PROVE RingOf(mem, where, h, ListWalk(mem, h))
      <3>1. h \in Node /\ mem.next[h] = h /\ \A n \in Node : where[n] = n
        BY <1>1 DEF Init
      <3>2. RingOf(mem, where, h, <<>>)
        BY <3>1 DEF RingOf, IsRing
      <3>. QED
        BY <3>1, <3>2, RingOfWalk
    <2>. QED
      BY <1>1, <2>1 DEF Init, RingInv, Linked, Closed, Heads
  <1>. QED
    BY <1>2, <1>3 DEF PrdInv

\* The type invariant without the lists, which RingOK covers.
Rest ==
    /\ known \subseteq Task
    /\ tTimeout \in [Task -> Timeouts \cup {0}]
    /\ tRemain \in [Task -> 0..TickMax]
    /\ pc \in PC
    /\ cur \in Task \cup {NoTask}
    /\ cur # NoTask <=> pc = "callback"
    /\ elapsed \in 0..MaxElapsed
    /\ tPeriod \in 0..MaxElapsed
    /\ tMinRemain \in 0..MaxWait
    /\ signals \in 0..MaxSignals
    /\ g_bPrdExit \in BOOLEAN
    /\ age \in [Task -> Nat] /\ waited \in [Task -> Nat] /\ ahead \in [Task -> Nat]
    /\ ran \subseteq Task

\* The pass's own list is empty between passes.
ListIdle == pc \in {"start", "loop", "asleep", "woken", "done"} => mem.next[list] = list

LEMMA PrdInvParts == PrdInv <=> Rest /\ RingOK(mem, where) /\ ListIdle
  BY DEF PrdInv, TypeOK, RingInv, Rest, RingOK, ListIdle, Linked

\* Timeouts are below the largest value of the clock.
LEMMA TimeoutRange ==
  ASSUME NEW x \in Timeouts \cup {0} PROVE x \in 0..TickMax
  <1>1. x \in 0..TickMax - 1 \/ x = 0
    BY TimeAssumption
  <1>. QED
    BY <1>1, TimeAssumption

\* Remaining times stay within the clock's range.
LEMMA ClampedRange ==
  ASSUME Rest, NEW t \in Task PROVE Clamped(t) \in 0..TickMax
  <1>1. tTimeout[t] \in Timeouts \cup {0}
    BY DEF Rest
  <1>2. tTimeout[t] \in 0..TickMax
    BY <1>1, TimeoutRange
  <1>3. tRemain[t] \in 0..TickMax
    BY DEF Rest
  <1>. QED
    BY <1>2, <1>3 DEF Clamped

\* The scalars keep their types under what callers do.
LEMMA RestCaller ==
  ASSUME Rest, Caller PROVE Rest'
  <1>. USE TimeAssumption, TaskAssumption
  <1>1. CASE prdUninit
    BY <1>1 DEF prdUninit, Unlock, tasks, waits, clock, Rest
  <1>2. ASSUME NEW t \in Task, prdDelTask(t) PROVE Rest'
    <2>1. waited' \in [Task -> Nat] /\ ahead' \in [Task -> Nat]
      BY <1>2 DEF prdDelTask, Restart, Rest
    <2>. QED
      BY <1>2, <2>1 DEF prdDelTask, Unlock, clock, Rest
  <1>3. ASSUME NEW t \in Task, NEW d \in Timeouts, NEW m, AddTask(t, m, d) PROVE Rest'
    <2>1. tTimeout' \in [Task -> Timeouts \cup {0}]
      BY <1>3 DEF AddTask, Rest
    <2>2. tRemain' \in [Task -> 0..TickMax]
      BY <1>3 DEF AddTask, Rest
    <2>3. known' \subseteq Task
      BY <1>3 DEF AddTask, Rest
    <2>4. signals' \in 0..MaxSignals
      BY <1>3 DEF AddTask, Unlock, Rest
    <2>5. waited' \in [Task -> Nat] /\ ahead' \in [Task -> Nat]
      BY <1>3 DEF AddTask, Restart, Rest
    <2>. QED
      BY <1>3, <2>1, <2>2, <2>3, <2>4, <2>5 DEF AddTask, clock, Rest
  <1>. QED
    BY <1>1, <1>2, <1>3 DEF Caller, prdAddTask, ResetTask

\* And under what prdRun does, given that it takes tasks out of intact lists.
LEMMA RestRun ==
  ASSUME Rest, RingOK(mem, where), prdRun PROVE Rest'
  <1>. USE TimeAssumption, TaskAssumption
  <1>1. CASE prdStart
    BY <1>1 DEF prdStart, tasks, waits, Rest, PC
  <1>2. CASE prdSleep
    <2>1. ASSUME NEW t \in Task PROVE CountOff(t) \in 0..TickMax
      BY <2>1, ClampedRange DEF CountOff, Rest
    <2>2. tRemain' \in [Task -> 0..TickMax]
      BY <1>2, <2>1 DEF prdSleep, Rest
    <2>3. tMinRemain' \in 0..MaxWait
      <3>1. /\ tMinRemain' = MaxWait \/ \E t \in Task : tMinRemain' = CountOff(t)
            /\ tMinRemain' <= MaxWait
        BY <1>2 DEF prdSleep
      <3>. QED
        BY <2>1, <3>1
    <2>. QED
      BY <1>2, <2>2, <2>3 DEF prdSleep, waits, Rest, PC
  <1>3. CASE prdExit
    BY <1>3 DEF prdExit, tasks, waits, clock, Rest, PC
  <1>4. CASE prdTimeOut
    BY <1>4 DEF prdTimeOut, tasks, waits, clock, Rest, PC
  <1>5. CASE prdBeginPass
    BY <1>5 DEF prdBeginPass, waits, Rest, PC
  <1>6. CASE prdTake
    <2> DEFINE t == mem.next[g_lPrdTaskHeader]
    <2>1. t \in Task
      BY <1>6, FirstIsTask DEF prdTake, ListIsEmpty, Heads
    <2>. HIDE DEF t
    <2>2. Left(t) \in 0..TickMax
      BY <2>1, ClampedRange DEF Left, Due, Rest
    <2>3. tRemain' \in [Task -> 0..TickMax]
      BY <1>6, <2>1, <2>2 DEF prdTake, t, Rest
    <2>4. /\ pc' \in PC /\ ran' \subseteq Task
          /\ cur' \in Task \cup {NoTask} /\ (cur' # NoTask <=> pc' = "callback")
      BY <1>6, <2>1 DEF prdTake, t, Rest, PC
    <2>. QED
      BY <1>6, <2>3, <2>4 DEF prdTake, waits, clock, Rest
  <1>7. CASE prdReturn
    <2>1. cur \in Task /\ tTimeout[cur] \in Timeouts \cup {0}
      BY <1>7 DEF prdReturn, Rest
    <2>2. tTimeout[cur] \in 0..TickMax
      BY <2>1, TimeoutRange
    <2>3. waited' \in [Task -> Nat] /\ ahead' \in [Task -> Nat]
      BY <1>7, <2>1 DEF prdReturn, Restart, waits, Rest
    <2>4. /\ tRemain' = [tRemain EXCEPT ![cur] = tTimeout[cur]]
          /\ age' = [age EXCEPT ![cur] = elapsed]
          /\ cur' = NoTask /\ pc' = "pass"
          /\ UNCHANGED <<known, tTimeout, clock, signals, g_bPrdExit, ran>>
      BY <1>7 DEF prdReturn
    <2>5. tRemain' \in [Task -> 0..TickMax] /\ age' \in [Task -> Nat]
      BY <2>1, <2>2, <2>4 DEF Rest
    <2>. QED
      BY <2>3, <2>4, <2>5 DEF clock, Rest, PC
  <1>8. CASE prdMerge
    BY <1>8 DEF prdMerge, tasks, waits, clock, Rest, PC
  <1>9. CASE prdLoop
    BY <1>9 DEF prdLoop, tasks, waits, clock, Rest, PC
  <1>10. ASSUME NEW h \in {list, g_lPrdTaskAdd}, prdPutBack(h) PROVE Rest'
    <2>1. age \in [Task -> Nat] /\ elapsed \in Nat
      BY DEF Rest
    <2>2. age' = age \/ age' = [age EXCEPT ![mem.next[h]] = elapsed]
      BY <1>10 DEF prdPutBack
    <2>3. age' \in [Task -> Nat]
      BY <2>1, <2>2
    <2>. QED
      BY <1>10, <2>3 DEF prdPutBack, waits, clock, Rest
  <1>. QED
    BY <1>1, <1>2, <1>3, <1>4, <1>5, <1>6, <1>7, <1>8, <1>9, <1>10 DEF prdRun

\* Callers keep the rings.
LEMMA RingCaller ==
  ASSUME RingOK(mem, where), ListIdle, Caller PROVE RingOK(mem', where') /\ ListIdle'
  <1>1. CASE prdUninit
    BY <1>1 DEF prdUninit, tasks, ListIdle
  <1>2. ASSUME NEW t \in Task, prdDelTask(t) PROVE RingOK(mem', where') /\ ListIdle'
    BY <1>2, RingDetach DEF prdDelTask, ListIdle
  <1>3. ASSUME NEW t \in Task, NEW d \in Timeouts, prdAddTask(t, d)
        PROVE  RingOK(mem', where') /\ ListIdle'
    BY <1>3, RingEnlist DEF prdAddTask, AddTask, ListIdle
  <1>4. ASSUME NEW t \in Task, NEW d \in Timeouts, ResetTask(t, d)
        PROVE  RingOK(mem', where') /\ ListIdle'
    <2> DEFINE m == ListDetach(mem, t)
               w == [where EXCEPT ![t] = t]
    <2>1. RingOK(m, w) /\ (mem.next[list] = list => m.next[list] = list)
      BY RingDetach
    <2>2. w[t] = t /\ [w EXCEPT ![t] = g_lPrdTaskAdd] = [where EXCEPT ![t] = g_lPrdTaskAdd]
      BY TaskAssumption DEF RingOK
    <2>3. mem' = Enlist(m, t) /\ where' = [where EXCEPT ![t] = g_lPrdTaskAdd] /\ pc' = pc
      BY <1>4 DEF ResetTask, AddTask
    <2>. HIDE DEF m, w
    <2>4. /\ RingOK(Enlist(m, t), [w EXCEPT ![t] = g_lPrdTaskAdd])
          /\ m.next[list] = list => Enlist(m, t).next[list] = list
      BY <2>1, <2>2, RingEnlist
    <2>. QED
      BY <2>1, <2>2, <2>3, <2>4 DEF ListIdle
  <1>. QED
    BY <1>1, <1>2, <1>3, <1>4 DEF Caller

\* prdRun keeps the rings.
LEMMA RingRun ==
  ASSUME RingOK(mem, where), ListIdle, prdRun PROVE RingOK(mem', where') /\ ListIdle'
  <1>1. CASE prdStart \/ prdSleep \/ prdExit \/ prdTimeOut \/ prdReturn \/ prdMerge
    BY <1>1 DEF prdStart, prdSleep, prdExit, prdTimeOut, prdReturn, prdMerge, tasks, ListIdle
  <1>2. CASE prdBeginPass
    <2>1. mem' = mem
      BY <1>2, InitAlone, TaskAssumption DEF prdBeginPass, ListIdle, RingOK, Heads
    <2>. QED
      BY <1>2, <2>1 DEF prdBeginPass, ListIdle
  <1>3. CASE prdTake
    <2>1. mem.next[g_lPrdTaskHeader] \in Task
      BY <1>3, FirstIsTask DEF prdTake, ListIsEmpty, Heads
    <2>2. RingOK(mem', where')
      BY <1>3, <2>1, RingMove DEF prdTake, Move, Heads
    <2>3. pc' \in {"pass", "callback"}
      BY <1>3 DEF prdTake
    <2>. QED
      BY <2>2, <2>3 DEF ListIdle
  <1>4. ASSUME NEW h \in {list, g_lPrdTaskAdd}, prdPutBack(h)
        PROVE  RingOK(mem', where') /\ ListIdle'
    <2>1. mem.next[h] \in Task
      BY <1>4, FirstIsTask DEF prdPutBack, ListIsEmpty, Heads
    <2>2. RingOK(mem', where')
      BY <1>4, <2>1, RingMove DEF prdPutBack, Move, Heads
    <2>3. pc' = "merge"
      BY <1>4 DEF prdPutBack
    <2>. QED
      BY <2>2, <2>3 DEF ListIdle
  <1>5. CASE prdLoop
    BY <1>5 DEF prdLoop, tasks, ListIdle, ListIsEmpty
  <1>. QED
    BY <1>1, <1>2, <1>3, <1>4, <1>5 DEF prdRun

\* Every step keeps the inductive invariant.
LEMMA PrdStep == PrdInv /\ [Next]_vars => PrdInv'
  <1>. SUFFICES ASSUME Rest, RingOK(mem, where), ListIdle, [Next]_vars
                PROVE  Rest' /\ RingOK(mem', where') /\ ListIdle'
    <2>1. (Rest /\ RingOK(mem, where) /\ ListIdle)' => PrdInv'
      BY PrdInvParts, PTL
    <2>. QED
      BY <2>1, PrdInvParts
  <1>1. CASE prdRun
    BY <1>1, RestRun, RingRun
  <1>2. CASE Caller
    BY <1>2, RestCaller, RingCaller
  <1>3. CASE Signal
    BY <1>3, TimeAssumption DEF Signal, tasks, waits, clock, Rest, PC, ListIdle
  <1>4. CASE Tick
    <2>1. age' \in [Task -> Nat] /\ waited' \in [Task -> Nat] /\ ahead' \in [Task -> Nat]
      BY <1>4, TimeAssumption DEF Tick, Later, Rest
    <2>. QED
      BY <1>4, <2>1, TimeAssumption DEF Tick, Rest, PC, ListIdle
  <1>5. CASE UNCHANGED vars
    BY <1>5 DEF vars, Rest, ListIdle
  <1>. QED
    BY <1>1, <1>2, <1>3, <1>4, <1>5 DEF Next, Done

\* In every reachable state the lists are intact rings and the types hold.
THEOREM PrdInvariant == Spec => []PrdInv
  BY PrdInit, PrdStep, PTL DEF Spec

\* The state of the service is always of its types: remaining times never run
\* below zero, and a callback is on record exactly while it runs.
THEOREM PrdTypeCorrect == Spec => []TypeOK
  <1>1. PrdInv => TypeOK
    BY DEF PrdInv
  <1>. QED
    BY <1>1, PrdInvariant, PTL

\* Under its lock prdRun picks only tasks that are registered at that moment, whoever
\* deleted others and whenever in a pass.  It does not say that a task deleted between
\* the unlock and the call is not called back: that one is.
THEOREM PrdPicksOnlyArmed == Spec => PicksOnlyArmed
  <1>1. PrdInv /\ [Next]_vars => [\A t \in Task : Picks(t) => where[t] # t]_vars
    <2>. SUFFICES ASSUME PrdInv, Next, NEW t \in Task, Picks(t) PROVE where[t] # t
      OBVIOUS
    <2>1. Rest /\ RingOK(mem, where)
      BY PrdInvParts
    <2>2. prdTake /\ t = mem.next[g_lPrdTaskHeader]
      BY <2>1, TaskAssumption
      DEF Picks, Next, prdRun, prdStart, prdSleep, prdExit, prdTimeOut, prdBeginPass,
          prdTake, prdReturn, prdMerge, prdPutBack, prdLoop, Caller, prdUninit,
          prdDelTask, prdAddTask, ResetTask, AddTask, Signal, Tick, Done, vars
    <2>3. where[t] = g_lPrdTaskHeader
      BY <2>1, <2>2, FirstIsTask DEF prdTake, ListIsEmpty, Heads
    <2>. QED
      BY <2>3, TaskAssumption DEF Heads
  <1>. QED
    BY <1>1, PrdInvariant, PTL DEF Spec, PicksOnlyArmed

------------------------------------------------------------------------------
(* The lists, seen from a walk *)

\* The tasks that a walk of a list meets are the ones that belong there.
LEMMA WalkMeets ==
  ASSUME NEW m, NEW w, RingOK(m, w), NEW h \in Heads
  PROVE  ListMembers(m, h) = {t \in Task : w[t] = h}
  <1>1. h \in Node
    BY TaskAssumption
  <1>2. ListMembers(m, h) = {n \in Node \ {h} : w[n] = h}
    BY <1>1, MembersOfRing DEF RingOK
  <1>3. \A n \in Node \ {h} : w[n] = h => n \in Task
    BY TaskAssumption DEF RingOK
  <1>4. Task \subseteq Node \ {h}
    BY TaskAssumption
  <1>. QED
    BY <1>2, <1>3, <1>4

\* No task belongs to an empty list.
LEMMA EmptyHasNone ==
  ASSUME NEW m, NEW w, RingOK(m, w), NEW h \in Heads, m.next[h] = h, NEW t \in Task
  PROVE  w[t] # h
  <1> DEFINE s == ListWalk(m, h)
  <1>1. RingOf(m, w, h, s) /\ t \in Node \ {h}
    BY TaskAssumption DEF RingOK
  <1>. HIDE DEF s
  <1>2. Len(s) \in Nat /\ ~(Len(s) > 0)
    BY <1>1 DEF RingOf, IsRing
  <1>. QED
    BY <1>1, <1>2 DEF RingOf

\* However callers, callbacks and prdRun interleave, a walk of each of the three lists
\* meets exactly the tasks that belong there, for any number of tasks.
THEOREM PrdListsComplete == Spec => []ListsComplete
  <1>1. PrdInv => ListsComplete
    BY PrdInvParts, WalkMeets DEF ListsComplete, RingOK
  <1>. QED
    BY <1>1, PrdInvariant, PTL

------------------------------------------------------------------------------
(* Once per pass, not early, not late *)

\* The times of a task are naturals, and what is left is at most its timeout.
LEMMA Times ==
  ASSUME Rest, NEW t \in Task
  PROVE  /\ tTimeout[t] \in Nat /\ tTimeout[t] <= TickMax /\ tRemain[t] \in Nat
         /\ tRemain[t] <= TickMax /\ TickMax \in Nat
         /\ Clamped(t) \in Nat /\ Clamped(t) <= tTimeout[t] /\ Clamped(t) <= tRemain[t]
         /\ Clamped(t) \in {tTimeout[t], tRemain[t]}
         /\ age[t] \in Nat /\ elapsed \in Nat /\ tPeriod \in Nat /\ tMinRemain \in Nat
  <1>1. tTimeout[t] \in Timeouts \cup {0}
    BY DEF Rest
  <1>2. tTimeout[t] \in 0..TickMax
    BY <1>1, TimeoutRange
  <1>3. /\ tRemain[t] \in 0..TickMax /\ TickMax \in Nat /\ age[t] \in Nat
        /\ elapsed \in Nat /\ tPeriod \in Nat /\ tMinRemain \in Nat
    BY TimeAssumption DEF Rest
  <1>. QED
    BY <1>2, <1>3 DEF Clamped

\* A step that changes neither the times of t nor its list keeps what is said of t,
\* unless it begins or ends a pass or puts prdRun to sleep.
LEMMA TimeKept ==
  ASSUME NEW t \in Task, TimeInv(t),
         where'[t] = where[t], tRemain'[t] = tRemain[t], tTimeout'[t] = tTimeout[t],
         age'[t] = age[t], elapsed' = elapsed, tPeriod' = tPeriod, tMinRemain' = tMinRemain,
         pc' = "asleep" => pc = "asleep",
         pc' \in {"pass", "callback"} <=> pc \in {"pass", "callback"},
         t = cur => t = cur'
  PROVE  TimeInv(t)'
  BY DEF TimeInv, Clamped, Owed

\* Callers keep the timing: a task that is added anew starts with all its time.
LEMMA TimingCaller ==
  ASSUME Rest, RingOK(mem, where), TimingInv, Caller, pc # "done" PROVE TimingInv'
  <1>. USE TaskAssumption, HeadsAssumption
  <1>1. CASE prdUninit
    <2>1. signals' # 0 /\ UNCHANGED <<tasks, pc, cur, clock, ran>>
      BY <1>1 DEF prdUninit, Unlock, Rest
    <2>. QED
      BY <2>1, TimeKept DEF tasks, clock, TimingInv, StageInv
  <1>2. ASSUME NEW t \in Task, prdDelTask(t) PROVE TimingInv'
    <2>1. /\ signals' # 0 /\ where' = [where EXCEPT ![t] = t] /\ pc # "start"
          /\ UNCHANGED <<tTimeout, tRemain, age, pc, cur, clock, ran>>
      BY <1>2, TimeAssumption DEF prdDelTask, Unlock, Rest, LockFree
    <2>2. where'[t] = t /\ \A u \in Node : u # t => where'[u] = where[u]
      BY <2>1 DEF RingOK
    <2>3. t \notin Heads /\ Task \subseteq Node /\ ran \subseteq Task
      BY DEF Rest
    <2>4. StageInv'
      BY <2>1, <2>2, <2>3 DEF TimingInv, StageInv, Heads
    <2>5. TimeInv(t)'
      BY <2>2, <2>3 DEF TimeInv, Heads
    <2>6. ASSUME NEW u \in Task, u # t PROVE TimeInv(u)'
      BY <2>1, <2>2, <2>3, <2>6, TimeKept DEF TimingInv, clock
    <2>. QED
      BY <2>4, <2>5, <2>6 DEF TimingInv
  <1>3. ASSUME NEW t \in Task, NEW d \in Timeouts, NEW m, AddTask(t, m, d), LockFree
        PROVE  TimingInv'
    <2>1. /\ signals' # 0 /\ where' = [where EXCEPT ![t] = g_lPrdTaskAdd] /\ pc # "start" /\ pc # "loop"
          /\ UNCHANGED <<age, pc, cur, clock, ran>>
      BY <1>3, TimeAssumption DEF AddTask, Unlock, Rest, LockFree
    <2>2. where'[t] = g_lPrdTaskAdd /\ \A u \in Node : u # t => where'[u] = where[u]
      BY <2>1 DEF RingOK
    <2>3. Task \subseteq Node /\ ran \subseteq Task
      BY DEF Rest
    <2>4. StageInv'
      BY <2>1, <2>2, <2>3 DEF TimingInv, StageInv
    <2>5. TimeInv(t)'
      <3>1. tRemain'[t] = TickMax /\ tTimeout'[t] = d
        BY <1>3 DEF AddTask, Rest
      <3>2. d <= TickMax
        BY TimeAssumption, TimeoutRange
      <3>. QED
        BY <2>2, <3>1, <3>2, TimeAssumption DEF TimeInv
    <2>6. ASSUME NEW u \in Task, u # t PROVE TimeInv(u)'
      <3>1. tRemain'[u] = tRemain[u] /\ tTimeout'[u] = tTimeout[u]
        BY <1>3, <2>6 DEF AddTask, Rest
      <3>. QED
        BY <2>1, <2>2, <2>3, <2>6, <3>1, TimeKept DEF TimingInv, clock
    <2>. QED
      BY <2>4, <2>5, <2>6 DEF TimingInv
  <1>. QED
    BY <1>1, <1>2, <1>3 DEF Caller, prdAddTask, ResetTask

\* prdSleep counts the time since the last look off every waiting task, and no other, and
\* sleeps no longer than any of them has left.
LEMMA TimingSleep ==
  ASSUME Rest, RingOK(mem, where), ListIdle, TimingInv, prdSleep PROVE TimingInv'
  <1>. USE TaskAssumption, HeadsAssumption
  <1>1. /\ pc = "loop" /\ pc' = "asleep" /\ elapsed' = 0 /\ tPeriod' = elapsed
        /\ UNCHANGED <<tTimeout, where, age, cur, signals, ran>>
    BY DEF prdSleep
  <1>2. StageInv'
    BY <1>1 DEF TimingInv, StageInv
  <1>3. ASSUME NEW t \in Task PROVE TimeInv(t)'
    <2>1. where[t] # g_lPrdTaskAdd /\ where[t] # list
      BY <1>1, EmptyHasNone DEF TimingInv, StageInv, ListIdle, Heads
    <2>2. CASE where[t] = g_lPrdTaskHeader
      <3>1. t \in ListMembers(mem, g_lPrdTaskHeader)
        BY <2>2, WalkMeets DEF Heads
      <3>2. tRemain'[t] = CountOff(t) /\ tMinRemain' <= CountOff(t)
        BY <3>1 DEF prdSleep
      <3>3. /\ age[t] >= TickMax \/ Clamped(t) + age[t] >= tTimeout[t] + elapsed
            /\ Clamped(t) = 0 \/ Clamped(t) + age[t] <= tTimeout[t] + elapsed
        <4>1. t # cur /\ Owed(t) = 0
          BY <1>1 DEF Rest, Owed
        <4>. QED
          BY <2>2, <4>1, Times DEF TimingInv, TimeInv
      <3>4. CountOff(t) \in Nat /\ CountOff(t) <= tTimeout[t]
            /\ CountOff(t) = (IF Clamped(t) <= elapsed THEN 0 ELSE Clamped(t) - elapsed)
        BY Times DEF CountOff
      <3>5. Clamped(t)' = CountOff(t)
        BY <1>1, <3>2, <3>4, Times DEF Clamped
      <3>6. Owed(t)' = 0
        BY <1>1 DEF Owed
      <3>7. age[t] >= TickMax \/ CountOff(t) + age[t] >= tTimeout[t]
        BY <3>3, <3>4, Times
      <3>8. CountOff(t) = 0 \/ CountOff(t) + age[t] <= tTimeout[t]
        BY <3>3, <3>4, Times
      <3>. QED
        BY <1>1, <2>1, <2>2, <3>2, <3>4, <3>5, <3>6, <3>7, <3>8, Times DEF TimeInv
    <2>3. CASE where[t] # g_lPrdTaskHeader
      BY <1>1, <2>1, <2>3 DEF TimeInv
    <2>. QED
      BY <2>2, <2>3
  <1>. QED
    BY <1>2, <1>3 DEF TimingInv

\* A pass begins by looking at the clock: what has gone by is owed to every waiting task.
LEMMA TimingBeginPass ==
  ASSUME Rest, RingOK(mem, where), ListIdle, TimingInv, prdBeginPass PROVE TimingInv'
  <1>. USE TaskAssumption, HeadsAssumption
  <1>1. /\ pc = "woken" /\ pc' = "pass" /\ elapsed' = 0 /\ tPeriod' = elapsed /\ ran' = {}
        /\ UNCHANGED <<tTimeout, tRemain, where, age, cur, signals>>
    BY DEF prdBeginPass
  <1>2. StageInv'
    BY <1>1 DEF StageInv
  <1>3. ASSUME NEW t \in Task PROVE TimeInv(t)'
    <2>1. where[t] # list
      BY <1>1, EmptyHasNone DEF ListIdle, Heads
    <2>2. Owed(t) = 0 /\ (where[t] = g_lPrdTaskHeader => Owed(t)' = elapsed)
      BY <1>1 DEF Owed
    <2>3. Clamped(t)' = Clamped(t)
      BY <1>1 DEF Clamped
    <2>. QED
      BY <1>1, <2>1, <2>2, <2>3, Times DEF TimingInv, TimeInv
  <1>. QED
    BY <1>2, <1>3 DEF TimingInv

\* A task taken off the waiting list is not early, and was not called in this pass.
LEMMA TakenInTime ==
  ASSUME Rest, RingOK(mem, where), TimingInv, prdTake
  PROVE  LET t == mem.next[g_lPrdTaskHeader]
         IN  /\ t \in Task /\ where[t] = g_lPrdTaskHeader
             /\ t \notin ran
             /\ Due(t) => age[t] >= tTimeout[t]
  <1> DEFINE t == mem.next[g_lPrdTaskHeader]
  <1>1. t \in Task /\ where[t] = g_lPrdTaskHeader
    BY FirstIsTask DEF prdTake, ListIsEmpty, Heads
  <1>. HIDE DEF t
  <1>2. pc = "pass" /\ t # cur
    BY <1>1, TaskAssumption DEF prdTake, Rest
  <1>3. t \notin ran
    BY <1>1, <1>2 DEF TimingInv, StageInv
  <1>4. age[t] >= TickMax \/ Clamped(t) + age[t] >= tTimeout[t] + elapsed + tPeriod
    BY <1>1, <1>2 DEF TimingInv, TimeInv, Owed
  <1>5. Due(t) => age[t] >= tTimeout[t]
    BY <1>1, <1>4, Times DEF Due
  <1>. QED
    BY <1>1, <1>3, <1>5 DEF t

\* The time slept is counted off the task that is taken, unless it is due.
LEMMA TimingTake ==
  ASSUME Rest, RingOK(mem, where), TimingInv, prdTake PROVE TimingInv'
  <1>. USE TaskAssumption, HeadsAssumption
  <1>0. PICK t \in Task : t = mem.next[g_lPrdTaskHeader] /\ where[t] = g_lPrdTaskHeader
    BY FirstIsTask DEF prdTake, ListIsEmpty, Heads
  <1>1. t \in Task /\ where[t] = g_lPrdTaskHeader
    BY <1>0
  <1>2. /\ pc = "pass" /\ where' = [where EXCEPT ![t] = list] /\ tRemain' = [tRemain EXCEPT ![t] = Left(t)]
        /\ IF Due(t) THEN pc' = "callback" /\ cur' = t /\ ran' = ran \cup {t}
                     ELSE UNCHANGED <<pc, cur, ran>>
        /\ UNCHANGED <<tTimeout, age, clock>>
    BY <1>0 DEF prdTake, Move
  <1>3. where'[t] = list /\ \A u \in Task : u # t => where'[u] = where[u]
    BY <1>1, <1>2 DEF RingOK
  <1>4. tRemain'[t] = Left(t) /\ \A u \in Task : u # t => tRemain'[u] = tRemain[u]
    BY <1>1, <1>2 DEF Rest
  <1>5. StageInv'
    BY <1>1, <1>2, <1>3 DEF TimingInv, StageInv, Rest
  <1>6. ASSUME NEW u \in Task, u # t PROVE TimeInv(u)'
    <2>1. u # cur
      BY <1>2 DEF Rest
    <2>. QED
      BY <1>2, <1>3, <1>4, <1>6, <2>1, TimeKept DEF TimingInv, clock
  <1>7. TimeInv(t)'
    <2>1. CASE Due(t)
      BY <1>2, <1>3, <2>1 DEF TimeInv
    <2>2. CASE ~Due(t)
      <3>1. t # cur /\ Owed(t) = tPeriod
        BY <1>1, <1>2 DEF Rest, Owed
      <3>2. /\ age[t] >= TickMax \/ Clamped(t) + age[t] >= tTimeout[t] + elapsed + tPeriod
            /\ Clamped(t) = 0 \/ Clamped(t) + age[t] <= tTimeout[t] + elapsed + tPeriod
        BY <1>1, <3>1 DEF TimingInv, TimeInv
      <3>3. Left(t) = Clamped(t) - tPeriod /\ Clamped(t) > tPeriod
        BY <1>1, <2>2, Times DEF Left, Due
      <3>4. Clamped(t)' = Left(t)
        BY <1>1, <1>2, <1>4, <3>3, Times DEF Clamped
      <3>5. Owed(t)' = 0
        BY <1>3 DEF Owed
      <3>6. UNCHANGED <<elapsed, age, tTimeout>>
        BY <1>2 DEF clock
      <3>. QED
        BY <1>1, <1>2, <1>3, <2>2, <3>2, <3>3, <3>4, <3>5, <3>6, Times DEF TimeInv
    <2>. QED
      BY <2>1, <2>2
  <1>. QED
    BY <1>5, <1>6, <1>7 DEF TimingInv

\* The task whose callback returned has all its time again, wherever it is now.
LEMMA TimingReturn ==
  ASSUME Rest, RingOK(mem, where), TimingInv, prdReturn PROVE TimingInv'
  <1>. USE TaskAssumption, HeadsAssumption
  <1>0. PICK t \in Task : t = cur
    BY DEF prdReturn, Rest
  <1>1. /\ pc = "callback" /\ pc' = "pass" /\ cur' = NoTask
        /\ tRemain' = [tRemain EXCEPT ![t] = tTimeout[t]] /\ age' = [age EXCEPT ![t] = elapsed]
        /\ UNCHANGED <<tTimeout, where, clock, signals, ran>>
    BY <1>0 DEF prdReturn
  <1>2. StageInv'
    BY <1>1 DEF TimingInv, StageInv
  <1>3. ASSUME NEW u \in Task, u # t PROVE TimeInv(u)'
    <2>1. tRemain'[u] = tRemain[u] /\ age'[u] = age[u]
      BY <1>1, <1>3 DEF Rest
    <2>. QED
      BY <1>0, <1>1, <1>3, <2>1, TimeKept DEF TimingInv, clock
  <1>4. TimeInv(t)'
    <2>1. tRemain'[t] = tTimeout[t] /\ age'[t] = elapsed /\ tTimeout'[t] = tTimeout[t]
      BY <1>1 DEF Rest
    <2>2. where'[t] # g_lPrdTaskHeader
      BY <1>0, <1>1 DEF TimingInv, StageInv
    <2>3. Owed(t)' = 0
      BY <2>2 DEF Owed
    <2>4. Clamped(t)' = tTimeout[t]
      BY <2>1, Times DEF Clamped
    <2>. QED
      BY <1>1, <2>1, <2>2, <2>3, <2>4, Times DEF TimeInv, clock
  <1>. QED
    BY <1>2, <1>3, <1>4 DEF TimingInv

\* A task put back from the pass's own list has what it had; one that was added starts
\* with all its time.
LEMMA TimingPutBack ==
  ASSUME Rest, RingOK(mem, where), TimingInv, NEW h \in {list, g_lPrdTaskAdd}, prdPutBack(h)
  PROVE  TimingInv'
  <1>. USE TaskAssumption, HeadsAssumption
  <1>0. PICK t \in Task : t = mem.next[h] /\ where[t] = h
    BY FirstIsTask DEF prdPutBack, ListIsEmpty, Heads
  <1>1. /\ pc = "merge" /\ pc' = pc /\ where' = [where EXCEPT ![t] = g_lPrdTaskHeader]
        /\ age' = (IF h = list THEN age ELSE [age EXCEPT ![t] = elapsed])
        /\ UNCHANGED <<tTimeout, tRemain, cur, clock, signals, ran>>
    BY <1>0 DEF prdPutBack, Move
  <1>2. StageInv'
    BY <1>1 DEF TimingInv, StageInv
  <1>3. where'[t] = g_lPrdTaskHeader /\ \A u \in Task : u # t => where'[u] = where[u]
    BY <1>1 DEF RingOK
  <1>4. ASSUME NEW u \in Task, u # t PROVE TimeInv(u)'
    <2>1. age'[u] = age[u]
      BY <1>1, <1>4 DEF Rest
    <2>. QED
      BY <1>1, <1>3, <1>4, <2>1, TimeKept DEF TimingInv, clock
  <1>5. TimeInv(t)'
    <2>1. Owed(t)' = 0 /\ Owed(t) = 0
      BY <1>1 DEF Owed
    <2>2. Clamped(t)' = Clamped(t)
      BY <1>1 DEF Clamped
    <2>3. t # cur
      BY <1>1 DEF Rest
    <2>4. CASE h = list
      BY <1>0, <1>1, <1>3, <2>1, <2>2, <2>3, <2>4 DEF TimingInv, TimeInv, clock
    <2>5. CASE h = g_lPrdTaskAdd
      <3>1. age'[t] = elapsed /\ elapsed' = elapsed
        BY <1>1, <2>5 DEF Rest, clock
      <3>2. Clamped(t) = tTimeout[t]
        BY <1>0, <2>5, Times DEF TimingInv, TimeInv, Clamped
      <3>. QED
        BY <1>1, <1>3, <2>1, <2>2, <3>1, <3>2, Times DEF TimeInv
    <2>. QED
      BY <2>4, <2>5
  <1>. QED
    BY <1>2, <1>4, <1>5 DEF TimingInv

\* The steps of prdRun that move no task.
LEMMA TimingRest ==
  ASSUME Rest, RingOK(mem, where), TimingInv,
         prdStart \/ prdExit \/ prdTimeOut \/ prdMerge \/ prdLoop
  PROVE  TimingInv'
  <1>. USE TaskAssumption, HeadsAssumption
  <1>1. CASE prdStart
    <2>1. ASSUME NEW t \in Task PROVE where'[t] = t
      BY <1>1 DEF prdStart, tasks, TimingInv, StageInv
    <2>2. pc' = "loop"
      BY <1>1 DEF prdStart
    <2>. QED
      BY <2>1, <2>2 DEF TimingInv, StageInv, TimeInv, Heads
  <1>2. CASE prdExit \/ prdTimeOut
    <2>1. /\ pc \in {"loop", "asleep"} /\ pc' \in {"done", "woken"}
          /\ UNCHANGED <<tasks, cur, clock, signals, ran>>
      BY <1>2 DEF prdExit, prdTimeOut
    <2>2. StageInv'
      BY <2>1 DEF StageInv
    <2>3. ASSUME NEW t \in Task PROVE TimeInv(t)'
      BY <2>1, TimeKept DEF TimingInv, tasks, clock
    <2>. QED
      BY <2>2, <2>3 DEF TimingInv
  <1>3. CASE prdMerge
    <2>1. /\ pc = "pass" /\ pc' = "merge" /\ mem.next[g_lPrdTaskHeader] = g_lPrdTaskHeader
          /\ UNCHANGED <<tasks, cur, clock, signals, ran>>
      BY <1>3 DEF prdMerge, ListIsEmpty
    <2>2. StageInv'
      BY <2>1 DEF StageInv
    <2>3. ASSUME NEW t \in Task PROVE TimeInv(t)'
      <3>1. where[t] # g_lPrdTaskHeader
        BY <2>1, EmptyHasNone DEF Heads
      <3>2. Owed(t) = 0 /\ Owed(t)' = 0 /\ Clamped(t)' = Clamped(t)
        BY <2>1, <3>1 DEF Owed, Clamped, tasks
      <3>. QED
        BY <2>1, <3>1, <3>2 DEF TimingInv, TimeInv, tasks, clock
    <2>. QED
      BY <2>2, <2>3 DEF TimingInv
  <1>4. CASE prdLoop
    <2>1. /\ pc = "merge" /\ pc' = "loop" /\ mem.next[g_lPrdTaskAdd] = g_lPrdTaskAdd
          /\ UNCHANGED <<tasks, cur, clock, signals, ran>>
      BY <1>4 DEF prdLoop, ListIsEmpty
    <2>2. \A t \in Task : where[t] # g_lPrdTaskAdd
      BY <2>1, EmptyHasNone DEF Heads
    <2>3. StageInv'
      BY <2>1, <2>2 DEF StageInv, tasks
    <2>4. ASSUME NEW t \in Task PROVE TimeInv(t)'
      BY <2>1, TimeKept DEF TimingInv, tasks, clock
    <2>. QED
      BY <2>3, <2>4 DEF TimingInv
  <1>. QED
    BY <1>1, <1>2, <1>3, <1>4

\* The clock and the callers that signal.
LEMMA TimingEnvironment ==
  ASSUME Rest, RingOK(mem, where), TimingInv, Signal \/ Tick PROVE TimingInv'
  <1>1. CASE Signal
    <2>1. /\ pc' = (IF pc = "asleep" THEN "woken" ELSE pc)
          /\ UNCHANGED <<tasks, cur, clock, ran>>
      BY <1>1 DEF Signal
    <2>2. StageInv'
      BY <2>1 DEF TimingInv, StageInv, tasks
    <2>3. ASSUME NEW t \in Task PROVE TimeInv(t)'
      BY <2>1, TimeKept DEF TimingInv, tasks, clock
    <2>. QED
      BY <2>2, <2>3 DEF TimingInv
  <1>2. CASE Tick
    <2>1. /\ elapsed' = elapsed + 1
          /\ UNCHANGED <<tTimeout, tRemain, where, pc, cur, tPeriod, tMinRemain, signals, ran>>
      BY <1>2 DEF Tick
    <2>2. StageInv'
      BY <2>1 DEF TimingInv, StageInv
    <2>3. ASSUME NEW t \in Task PROVE TimeInv(t)'
      <3>1. where[t] \in {g_lPrdTaskHeader, list} =>
                age'[t] = IF age[t] < TickMax THEN age[t] + 1 ELSE TickMax
        BY <1>2 DEF Tick, Later
      <3>2. Clamped(t)' = Clamped(t) /\ Owed(t)' = Owed(t)
        BY <2>1 DEF Clamped, Owed
      <3>3. Owed(t) \in Nat
        BY Times DEF Owed
      <3>. QED
        BY <2>1, <3>1, <3>2, <3>3, Times DEF TimingInv, TimeInv
    <2>. QED
      BY <2>2, <2>3 DEF TimingInv
  <1>. QED
    BY <1>1, <1>2

\* In every reachable state what is left of each task's time and what has gone by since
\* it was taken up or last called back make up its timeout.
THEOREM PrdTiming == Spec => []TimingInv
  <1>1. Init => TimingInv
    BY TaskAssumption, HeadsAssumption DEF Init, TimingInv, StageInv, TimeInv, Heads
  <1>2. PrdInv /\ TimingInv /\ [Next]_vars => TimingInv'
    <2>. SUFFICES ASSUME Rest, RingOK(mem, where), ListIdle, TimingInv, [Next]_vars PROVE TimingInv'
      BY PrdInvParts
    <2>1. CASE prdRun
      BY <2>1, TimingSleep, TimingBeginPass, TimingTake, TimingReturn, TimingPutBack, TimingRest
      DEF prdRun
    <2>2. CASE Signal \/ Tick
      BY <2>2, TimingEnvironment
    <2>3. CASE UNCHANGED vars
      <3>1. StageInv'
        BY <2>3 DEF vars, TimingInv, StageInv
      <3>. QED
        BY <2>3, <3>1, TimeKept DEF vars, TimingInv
    <2>. QED
      BY <2>1, <2>2, <2>3, TimingCaller DEF Next, Done
  <1>. QED
    BY <1>1, <1>2, PrdInvariant, PTL DEF Spec

\* A callback begins only where prdRun takes a task.
LEMMA PicksByTake ==
  ASSUME Rest, Next, NEW t \in Task, Picks(t)
  PROVE  prdTake /\ t = mem.next[g_lPrdTaskHeader] /\ Due(t)
  BY TaskAssumption
  DEF Picks, Rest, Next, prdRun, prdStart, prdSleep, prdExit, prdTimeOut, prdBeginPass,
      prdTake, prdReturn, prdMerge, prdPutBack, prdLoop, Caller, prdUninit,
      prdDelTask, prdAddTask, ResetTask, AddTask, Signal, Tick, Done, vars

\* A pass calls each task at most once, whatever callbacks and other threads add meanwhile.
THEOREM PrdOncePerPass == Spec => OncePerPass
  <1>1. PrdInv /\ TimingInv /\ [Next]_vars => [\A t \in Task : Picks(t) => t \notin ran]_vars
    BY PrdInvParts, PicksByTake, TakenInTime
  <1>. QED
    BY <1>1, PrdInvariant, PrdTiming, PTL DEF Spec, OncePerPass

\* A step that leaves t where it is, with its times, keeps what is said of its waiting,
\* unless it begins a pass.
LEMMA WaitKept ==
  ASSUME NEW t \in Task, WaitInv(t),
         where'[t] = where[t], waited'[t] = waited[t], ahead'[t] = ahead[t], age'[t] = age[t],
         elapsed' = elapsed,
         pc' \in {"pass", "callback", "merge"} => pc \in {"pass", "callback", "merge"},
         t = cur => t = cur'
  PROVE  WaitInv(t)'
  BY DEF WaitInv

\* Callers keep it: what is added in a callback is ahead by what the pass has run.
LEMMA WaitingCaller ==
  ASSUME Rest, RingOK(mem, where), WaitingInv, Caller PROVE WaitingInv'
  <1>. USE TaskAssumption, HeadsAssumption
  <1>1. CASE prdUninit
    BY <1>1, WaitKept DEF prdUninit, tasks, waits, clock, WaitingInv
  <1>2. ASSUME NEW t \in Task, prdDelTask(t), NEW u \in Task PROVE WaitInv(u)'
    <2>1. /\ where' = [where EXCEPT ![t] = t] /\ Restart(t, 0)
          /\ UNCHANGED <<age, pc, cur, clock>>
      BY <1>2 DEF prdDelTask
    <2>2. CASE u = t
      <3>1. where'[t] = t
        BY <2>1 DEF RingOK
      <3>. QED
        BY <2>2, <3>1 DEF WaitInv, Heads
    <2>3. CASE u # t
      <3>1. /\ where'[u] = where[u] /\ waited'[u] = waited[u] /\ ahead'[u] = ahead[u]
            /\ age'[u] = age[u] /\ elapsed' = elapsed /\ pc' = pc /\ cur' = cur
        BY <2>1, <2>3 DEF RingOK, Restart, Rest, clock
      <3>. QED
        BY <3>1, WaitKept DEF WaitingInv
    <2>. QED
      BY <2>2, <2>3
  <1>3. ASSUME NEW t \in Task, NEW d \in Timeouts, NEW m, AddTask(t, m, d), LockFree, NEW u \in Task
        PROVE  WaitInv(u)'
    <2>1. /\ where' = [where EXCEPT ![t] = g_lPrdTaskAdd]
          /\ Restart(t, IF pc = "callback" THEN elapsed ELSE 0)
          /\ UNCHANGED <<age, pc, cur, clock>>
      BY <1>3 DEF AddTask
    <2>2. CASE u = t
      <3>1. where'[t] = g_lPrdTaskAdd /\ elapsed' = elapsed /\ elapsed \in Nat
        BY <2>1 DEF RingOK, Rest, clock
      <3>2. CASE pc = "callback"
        <4>1. waited'[t] = 0 /\ ahead'[t] = elapsed
          BY <2>1, <3>2 DEF Restart, Rest
        <4>. QED
          BY <2>2, <3>1, <4>1 DEF WaitInv
      <3>3. CASE pc # "callback"
        <4>1. pc' \notin {"pass", "callback", "merge"}
          BY <1>3, <2>1, <3>3 DEF LockFree
        <4>. QED
          BY <2>2, <3>1, <4>1 DEF WaitInv
      <3>. QED
        BY <3>2, <3>3
    <2>3. CASE u # t
      <3>1. /\ where'[u] = where[u] /\ waited'[u] = waited[u] /\ ahead'[u] = ahead[u]
            /\ age'[u] = age[u] /\ elapsed' = elapsed /\ pc' = pc /\ cur' = cur
        BY <2>1, <2>3 DEF RingOK, Restart, Rest, clock
      <3>. QED
        BY <3>1, WaitKept DEF WaitingInv
    <2>. QED
      BY <2>2, <2>3
  <1>. QED
    BY <1>1, <1>2, <1>3 DEF Caller, prdAddTask, ResetTask, WaitingInv

\* prdRun keeps it: an added task is charged the pass in which it is taken up, one that was
\* called back the pass in which that happened.
LEMMA WaitingRun ==
  ASSUME Rest, RingOK(mem, where), TimingInv, WaitingInv, prdRun, NEW u \in Task PROVE WaitInv(u)'
  <1>. USE TaskAssumption, HeadsAssumption
  <1>0. WaitInv(u) /\ waited[u] \in Nat /\ ahead[u] \in Nat /\ elapsed \in Nat
    BY DEF WaitingInv, Rest
  <1>1. CASE prdStart
    <2>1. where'[u] = u
      BY <1>1 DEF prdStart, tasks, TimingInv, StageInv
    <2>. QED
      BY <2>1 DEF WaitInv, Heads
  <1>2. CASE prdExit \/ prdTimeOut \/ prdMerge \/ prdLoop
    BY <1>0, <1>2, WaitKept DEF prdExit, prdTimeOut, prdMerge, prdLoop, tasks, waits, clock
  <1>3. CASE prdSleep
    <2>1. /\ pc' = "asleep" /\ UNCHANGED <<where, age, waited, ahead, cur>>
      BY <1>3 DEF prdSleep, waits
    <2>. QED
      BY <1>0, <2>1 DEF WaitInv
  <1>4. CASE prdBeginPass
    <2>1. elapsed' = 0 /\ UNCHANGED <<where, age, waited, ahead, cur>>
      BY <1>4 DEF prdBeginPass, waits
    <2>. QED
      BY <1>0, <2>1 DEF WaitInv
  <1>5. CASE prdTake
    <2>0. PICK t \in Task : t = mem.next[g_lPrdTaskHeader] /\ where[t] = g_lPrdTaskHeader
      BY <1>5, FirstIsTask DEF prdTake, ListIsEmpty, Heads
    <2>1. /\ pc = "pass" /\ where' = [where EXCEPT ![t] = list] /\ cur = NoTask
          /\ UNCHANGED <<age, waited, ahead, elapsed>>
      BY <1>5, <2>0 DEF prdTake, Move, waits, clock, Rest
    <2>2. IF u = t THEN where'[u] = list ELSE where'[u] = where[u]
      BY <2>1 DEF RingOK
    <2>3. u # cur
      BY <2>1
    <2>. QED
      BY <1>0, <2>0, <2>1, <2>2, <2>3 DEF WaitInv
  <1>6. CASE prdReturn
    <2>1. /\ pc = "callback" /\ pc' = "pass" /\ cur \in Task
          /\ age' = [age EXCEPT ![cur] = elapsed] /\ UNCHANGED <<where, elapsed>>
          /\ IF where[cur] = list THEN Restart(cur, elapsed) ELSE UNCHANGED waits
      BY <1>6 DEF prdReturn, clock, Rest
    <2>2. CASE u # cur
      <3>1. age'[u] = age[u] /\ waited'[u] = waited[u] /\ ahead'[u] = ahead[u]
        BY <2>1, <2>2 DEF Restart, waits, Rest
      <3>. QED
        BY <1>0, <2>1, <2>2, <3>1, WaitKept
    <2>3. CASE u = cur /\ where[u] = list
      <3>1. age'[u] = elapsed /\ waited'[u] = 0 /\ ahead'[u] = elapsed
        BY <2>1, <2>3 DEF Restart, Rest
      <3>. QED
        BY <1>0, <2>1, <2>3, <3>1 DEF WaitInv
    <2>4. CASE u = cur /\ where[u] # list
      <3>1. where[u] # g_lPrdTaskHeader
        BY <2>1, <2>4 DEF TimingInv, StageInv
      <3>2. UNCHANGED <<waited, ahead>>
        BY <2>1, <2>4 DEF waits
      <3>. QED
        BY <1>0, <2>1, <2>4, <3>1, <3>2 DEF WaitInv
    <2>. QED
      BY <2>2, <2>3, <2>4
  <1>7. ASSUME NEW h \in {list, g_lPrdTaskAdd}, prdPutBack(h) PROVE WaitInv(u)'
    <2>0. PICK t \in Task : t = mem.next[h] /\ where[t] = h
      BY <1>7, FirstIsTask DEF prdPutBack, ListIsEmpty, Heads
    <2>1. /\ pc = "merge" /\ pc' = pc /\ where' = [where EXCEPT ![t] = g_lPrdTaskHeader]
          /\ age' = (IF h = list THEN age ELSE [age EXCEPT ![t] = elapsed])
          /\ UNCHANGED <<waited, ahead, cur, elapsed>>
      BY <1>7, <2>0 DEF prdPutBack, Move, waits, clock
    <2>2. CASE u # t
      <3>1. where'[u] = where[u] /\ age'[u] = age[u]
        BY <2>1, <2>2 DEF RingOK, Rest
      <3>. QED
        BY <1>0, <2>1, <3>1, WaitKept
    <2>3. CASE u = t
      <3>1. where'[u] = g_lPrdTaskHeader /\ u # cur
        BY <2>1, <2>3 DEF RingOK, Rest
      <3>2. CASE h = list
        BY <1>0, <2>0, <2>1, <2>3, <3>1, <3>2 DEF WaitInv
      <3>3. CASE h = g_lPrdTaskAdd
        <4>1. age'[u] = elapsed
          BY <2>1, <2>3, <3>3 DEF Rest
        <4>. QED
          BY <1>0, <2>0, <2>1, <2>3, <3>1, <3>3, <4>1 DEF WaitInv
      <3>. QED
        BY <3>2, <3>3
    <2>. QED
      BY <2>2, <2>3
  <1>. QED
    BY <1>1, <1>2, <1>3, <1>4, <1>5, <1>6, <1>7 DEF prdRun

\* The clock keeps it: what is charged and what is waited grow together.
LEMMA WaitingTick ==
  ASSUME Rest, RingOK(mem, where), WaitingInv, Tick, NEW u \in Task PROVE WaitInv(u)'
  <1>. USE TaskAssumption, HeadsAssumption
  <1>0. /\ WaitInv(u) /\ waited[u] \in Nat /\ ahead[u] \in Nat /\ elapsed \in Nat /\ age[u] \in Nat
        /\ TickMax \in Nat
    BY TimeAssumption DEF WaitingInv, Rest
  <1>1. elapsed' = elapsed + 1 /\ UNCHANGED <<where, pc, cur, ahead>>
    BY DEF Tick
  <1>2. /\ where[u] \in {g_lPrdTaskHeader, list} => age'[u] = Later(age[u])
        /\ where[u] \in {g_lPrdTaskHeader, list, g_lPrdTaskAdd} => waited'[u] = Later(waited[u])
    BY DEF Tick, Heads
  <1>. QED
    BY <1>0, <1>1, <1>2 DEF WaitInv, Later

\* In every reachable state what prdRun has charged a task has gone by since it was added or
\* called back, but for the ticks the pass had run by then.
THEOREM PrdWaiting == Spec => []WaitingInv
  <1>1. Init => WaitingInv
    BY TaskAssumption, HeadsAssumption DEF Init, WaitingInv, WaitInv, Heads
  <1>2. PrdInv /\ TimingInv /\ WaitingInv /\ [Next]_vars => WaitingInv'
    <2>. SUFFICES ASSUME Rest, RingOK(mem, where), TimingInv, WaitingInv, [Next]_vars PROVE WaitingInv'
      BY PrdInvParts
    <2>1. CASE prdRun
      BY <2>1, WaitingRun DEF WaitingInv
    <2>2. CASE Caller
      BY <2>2, WaitingCaller
    <2>3. CASE Tick
      BY <2>3, WaitingTick DEF WaitingInv
    <2>4. CASE Signal \/ UNCHANGED vars
      <3>1. /\ UNCHANGED <<where, waited, ahead, age, elapsed, cur>>
            /\ pc' \in {"pass", "callback", "merge"} => pc \in {"pass", "callback", "merge"}
        BY <2>4 DEF Signal, tasks, waits, clock, vars
      <3>. QED
        BY <3>1, WaitKept DEF WaitingInv
    <2>. QED
      BY <2>1, <2>2, <2>3, <2>4 DEF Next, Done
  <1>. QED
    BY <1>1, <1>2, PrdInvariant, PrdTiming, PTL DEF Spec

\* A task is called back early by no more than the ticks that the pass in which it was added
\* or last called back had run by then, for any timeouts, sleeps and early wake-ups.
THEOREM PrdEarlyByPassAtMost == Spec => EarlyByPassAtMost
  <1>1. PrdInv /\ TimingInv /\ WaitingInv /\ [Next]_vars
            => [\A t \in Task : Picks(t) => waited[t] + ahead[t] >= tTimeout[t]]_vars
    <2>. SUFFICES ASSUME Rest, RingOK(mem, where), TimingInv, WaitingInv, Next,
                         NEW t \in Task, Picks(t)
                  PROVE  waited[t] + ahead[t] >= tTimeout[t]
      BY PrdInvParts
    <2>1. prdTake /\ where[t] = g_lPrdTaskHeader /\ age[t] >= tTimeout[t]
      BY PicksByTake, TakenInTime
    <2>2. t # cur
      BY DEF Picks
    <2>3. waited[t] >= TickMax \/ age[t] <= waited[t] + ahead[t]
      BY <2>1, <2>2 DEF WaitingInv, WaitInv
    <2>4. waited[t] \in Nat /\ ahead[t] \in Nat
      BY DEF Rest
    <2>. QED
      BY <2>1, <2>3, <2>4, Times
  <1>. QED
    BY <1>1, PrdInvariant, PrdTiming, PrdWaiting, PTL DEF Spec, EarlyByPassAtMost

\* No wake-up is lost and no sleep is too long: asleep with no signal to come, prdRun has
\* taken up every registered task and wakes no later than the first is due.
THEOREM PrdNoOversleep == Spec => []NoOversleep
  <1>1. PrdInv /\ TimingInv => NoOversleep
    <2>. SUFFICES ASSUME Rest, RingOK(mem, where), ListIdle, TimingInv, pc = "asleep", signals = 0,
                         NEW t \in Task, where[t] # t
                  PROVE  /\ where[t] = g_lPrdTaskHeader
                         /\ tMinRemain <= elapsed \/ tMinRemain - elapsed + age[t] <= tTimeout[t]
      BY PrdInvParts DEF NoOversleep
    <2>1. where[t] # list /\ where[t] # g_lPrdTaskAdd
      BY EmptyHasNone DEF ListIdle, Heads, TimingInv, StageInv
    <2>2. where[t] = g_lPrdTaskHeader
      BY <2>1 DEF RingOK, Heads
    <2>3. t # cur /\ Owed(t) = 0
      BY TaskAssumption DEF Rest, Owed
    <2>4. /\ tMinRemain <= Clamped(t)
          /\ Clamped(t) = 0 \/ Clamped(t) + age[t] <= tTimeout[t] + elapsed
      BY <2>2, <2>3, Times DEF TimingInv, TimeInv
    <2>. QED
      BY <2>2, <2>4, Times
  <1>. QED
    BY <1>1, PrdInvariant, PrdTiming, PTL

------------------------------------------------------------------------------
(* The recursive lock *)

\* The inductive invariant holds when prdInit has run.
LEMMA LockInvInit == LockInit => LockInv
  BY NoThreadAssumption
  DEF LockInit, LockInv, LockTypeOK, MutexInv, OwnerInv, CountInv, DepthInv, WaitersInv,
      NeverHangs, Holding, Owning, LockPC

\* The conjuncts are kept by every single step of every thread.
LEMMA LockStep == LockInv /\ [LockNext]_lockVars => LockInv'
  <1> SUFFICES ASSUME LockInv, [LockNext]_lockVars PROVE LockInv'
    OBVIOUS
  <1> USE NoThreadAssumption, PrdThreadAssumption
  <1>1. CASE UNCHANGED lockVars
    BY <1>1 DEF lockVars, LockInv, LockTypeOK, MutexInv, OwnerInv, CountInv, DepthInv,
                WaitersInv, NeverHangs, Holding, Owning
  <1>2. ASSUME NEW t \in Thread, Call(t) PROVE LockInv'
    BY <1>2 DEF Call, CallLock, CallUnlock, CallWait, Goto, LockInv, LockTypeOK, MutexInv, OwnerInv,
                CountInv, DepthInv, WaitersInv, NeverHangs, Holding, Owning, LockPC
  <1>3. ASSUME NEW t \in Thread, Inside(t) PROVE LockInv'
    <2>1. CASE LockTest(t)
      BY <2>1 DEF LockTest, Goto, LockInv, LockTypeOK, MutexInv, OwnerInv, CountInv,
                  DepthInv, WaitersInv, NeverHangs, Holding, Owning, LockPC
    <2>2. CASE LockMutex(t)
      BY <2>2 DEF LockMutex, Goto, LockInv, LockTypeOK, MutexInv, OwnerInv, CountInv,
                  DepthInv, WaitersInv, NeverHangs, Holding, Owning, LockPC
    <2>3. CASE LockOwn(t)
      BY <2>3 DEF LockOwn, Goto, LockInv, LockTypeOK, MutexInv, OwnerInv, CountInv,
                  DepthInv, WaitersInv, NeverHangs, Holding, Owning, LockPC
    <2>4. CASE LockInc(t)
      BY <2>4 DEF LockInc, Goto, LockInv, LockTypeOK, MutexInv, OwnerInv, CountInv,
                  DepthInv, WaitersInv, NeverHangs, Holding, Owning, LockPC
    <2>5. CASE UnlockDec(t)
      BY <2>5 DEF UnlockDec, Goto, LockInv, LockTypeOK, MutexInv, OwnerInv, CountInv,
                  DepthInv, WaitersInv, NeverHangs, Holding, Owning, LockPC
    <2>6. CASE UnlockTest(t)
      BY <2>6 DEF UnlockTest, Goto, LockInv, LockTypeOK, MutexInv, OwnerInv, CountInv,
                  DepthInv, WaitersInv, NeverHangs, Holding, Owning, LockPC
    <2>7. CASE UnlockOwn(t)
      BY <2>7 DEF UnlockOwn, Goto, LockInv, LockTypeOK, MutexInv, OwnerInv, CountInv,
                  DepthInv, WaitersInv, NeverHangs, Holding, Owning, LockPC
    <2>8. CASE UnlockMutex(t)
      BY <2>8 DEF UnlockMutex, Goto, LockInv, LockTypeOK, MutexInv, OwnerInv, CountInv,
                  DepthInv, WaitersInv, NeverHangs, Holding, Owning, LockPC
    <2>9. CASE LockSignal(t)
      BY <2>9 DEF LockSignal, LockInv, LockTypeOK, MutexInv, OwnerInv, CountInv,
                  DepthInv, WaitersInv, NeverHangs, Holding, Owning, LockPC
    <2>10. CASE BeforeCnt(t)
      BY <2>10 DEF BeforeCnt, Goto, LockInv, LockTypeOK, MutexInv, OwnerInv, CountInv,
                   DepthInv, WaitersInv, NeverHangs, Holding, Owning, LockPC
    <2>11. CASE BeforeOwn(t)
      BY <2>11 DEF BeforeOwn, Goto, LockInv, LockTypeOK, MutexInv, OwnerInv, CountInv,
                   DepthInv, WaitersInv, NeverHangs, Holding, Owning, LockPC
    <2>12. CASE Sleep(t)
      BY <2>12 DEF Sleep, Goto, LockInv, LockTypeOK, MutexInv, OwnerInv, CountInv,
                   DepthInv, WaitersInv, NeverHangs, Holding, Owning, LockPC
    <2>13. CASE TimeOut(t)
      BY <2>13 DEF TimeOut, Goto, LockInv, LockTypeOK, MutexInv, OwnerInv, CountInv,
                   DepthInv, WaitersInv, NeverHangs, Holding, Owning, LockPC
    <2>14. CASE Wake(t)
      BY <2>14 DEF Wake, Goto, LockInv, LockTypeOK, MutexInv, OwnerInv, CountInv,
                   DepthInv, WaitersInv, NeverHangs, Holding, Owning, LockPC
    <2>15. CASE AfterCnt(t)
      BY <2>15 DEF AfterCnt, Goto, LockInv, LockTypeOK, MutexInv, OwnerInv, CountInv,
                   DepthInv, WaitersInv, NeverHangs, Holding, Owning, LockPC
    <2>16. CASE AfterOwn(t)
      BY <2>16 DEF AfterOwn, Goto, LockInv, LockTypeOK, MutexInv, OwnerInv, CountInv,
                   DepthInv, WaitersInv, NeverHangs, Holding, Owning, LockPC
    <2>. QED
      BY <1>3, <2>1, <2>2, <2>3, <2>4, <2>5, <2>6, <2>7, <2>8, <2>9, <2>10,
         <2>11, <2>12, <2>13, <2>14, <2>15, <2>16 DEF Inside
  <1>. QED
    BY <1>1, <1>2, <1>3 DEF LockNext

\* The mutex, the owner and the count agree with every thread's place.
THEOREM LockInvariant == LockSpec => []LockInv
  BY LockInvInit, LockStep, PTL DEF LockSpec

\* The lock excludes: two threads are never both inside it.
THEOREM LockMutualExclusion == LockSpec => []MutualExclusion
  <1>1. LockInv => MutualExclusion
    <2>. SUFFICES ASSUME LockInv,
                         NEW t \in Thread, NEW u \in Thread,
                         depth[t] > 0, depth[u] > 0
                  PROVE  t = u
      BY DEF MutualExclusion
    <2>1. ASSUME NEW v \in Thread, depth[v] > 0 PROVE Holding(v)
      BY <2>1 DEF LockInv, LockTypeOK, DepthInv, NeverHangs, Holding, LockPC
    <2>. QED
      BY <2>1 DEF LockInv, MutexInv
  <1>. QED
    BY <1>1, LockInvariant, PTL

\* Inside the lock the three shared words are the thread's own.
THEOREM LockOwnerAgrees == LockSpec => []OwnerAgrees
  <1>1. LockInv => OwnerAgrees
    BY DEF LockInv, MutexInv, OwnerInv, CountInv, Holding, Owning, OwnerAgrees
  <1>. QED
    BY <1>1, LockInvariant, PTL

\* The fatal branch of prdUnlock is dead code for callers that pair their calls.
THEOREM LockNeverHangs == LockSpec => []NeverHangs
  <1>1. LockInv => NeverHangs
    BY DEF LockInv
  <1>. QED
    BY <1>1, LockInvariant, PTL

\* The lock built from mutex, owner and count is a recursive lock: each of its
\* steps is an enter, a leave, or invisible to the callers.
THEOREM LockRefinement == LockSpec => ImplementsRecursiveLock
  <1>1. LockInit => Abstract!Init
    BY DEF LockInit, Abstract!Init
  <1>2. LockInv /\ [LockNext]_lockVars => [Abstract!Next]_Abstract!rlvars
    <2>. SUFFICES ASSUME LockInv, [LockNext]_lockVars
                  PROVE  Abstract!Next \/ UNCHANGED depth
      BY DEF Abstract!rlvars
    <2>1. ASSUME NEW t \in Thread, Holding(t)
          PROVE  \A u \in Thread \ {t} : depth[u] = 0
      BY <2>1 DEF LockInv, LockTypeOK, MutexInv, DepthInv, NeverHangs, Holding, LockPC
    <2>2. ASSUME NEW t \in Thread, LockInc(t) PROVE Abstract!Enter(t)
      <3>1. Holding(t)
        BY <2>2 DEF LockInc, Goto, Holding
      <3>. QED
        BY <2>1, <2>2, <3>1 DEF LockInc, Abstract!Enter
    <2>3. ASSUME NEW t \in Thread, UnlockDec(t) PROVE Abstract!Leave(t)
      BY <2>3 DEF UnlockDec, Goto, LockInv, DepthInv, Abstract!Leave
    <2>4. ASSUME NEW t \in Thread, BeforeCnt(t) PROVE Abstract!Leave(t)
      <3>1. depth[t] = 1
        BY <2>4 DEF BeforeCnt, Goto, LockInv, DepthInv
      <3>2. depth' = [depth EXCEPT ![t] = 0]
        BY <2>4 DEF BeforeCnt
      <3>. QED
        BY <3>1, <3>2 DEF Abstract!Leave
    <2>5. ASSUME NEW t \in Thread, AfterCnt(t) PROVE Abstract!Enter(t)
      <3>1. Holding(t) /\ depth[t] = 0
        BY <2>5 DEF AfterCnt, Goto, Holding, LockInv, DepthInv
      <3>. QED
        BY <2>1, <2>5, <3>1 DEF AfterCnt, Abstract!Enter
    <2>6. CASE UNCHANGED lockVars
      BY <2>6 DEF lockVars
    <2>7. ASSUME NEW t \in Thread, Call(t) PROVE UNCHANGED depth
      BY <2>7 DEF Call, CallLock, CallUnlock, CallWait
    <2>8. ASSUME NEW t \in Thread, Inside(t)
          PROVE Abstract!Enter(t) \/ Abstract!Leave(t) \/ UNCHANGED depth
      BY <2>2, <2>3, <2>4, <2>5, <2>8
      DEF Inside, LockTest, LockMutex, LockOwn, UnlockTest, UnlockOwn, UnlockMutex,
          LockSignal, BeforeOwn, Sleep, TimeOut, Wake, AfterOwn
    <2>. QED
      BY <2>6, <2>7, <2>8 DEF LockNext, Abstract!Next
  <1>. QED
    BY <1>1, <1>2, LockInvariant, PTL DEF LockSpec, ImplementsRecursiveLock, Abstract!Spec
=============================================================================
