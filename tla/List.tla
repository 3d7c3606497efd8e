-------------------------------- MODULE List --------------------------------
(***************************************************************************)
(* The intrusive ring list of Host/libList/Inc/list.h, at the level of its  *)
(* two pointers per node.  A memory is a record of two functions, prev and  *)
(* next.  Attach and detach are one and the same pointer exchange: applied *)
(* to nodes of two rings it joins them, to two nodes of one ring it cuts   *)
(* the ring in two.                                                        *)
(***************************************************************************)
EXTENDS Naturals, Sequences, FiniteSets

CONSTANTS Node,         \* every LIST_T the program has, list heads included
          ListHeads     \* the nodes used as list heads

ASSUME NodeAssumption      == IsFiniteSet(Node)
ASSUME ListHeadsAssumption == ListHeads \subseteq Node

Memory == [prev : [Node -> Node], next : [Node -> Node]]

\* listInit: the node is a ring of its own
ListInit(m, n) ==
    [prev |-> [m.prev EXCEPT ![n] = n], next |-> [m.next EXCEPT ![n] = n]]

\* listConnect and listDisconnect, which have the same body
ListConnect(m, a, b) ==
    LET p1 == m.prev[a]
        p2 == m.prev[b]
    IN  [next |-> [m.next EXCEPT ![p1] = b, ![p2] = a],
         prev |-> [m.prev EXCEPT ![a] = p2, ![b] = p1]]

ListAttach(m, n, h) == ListConnect(m, n, h)

ListDetach(m, n) == ListConnect(m, n, m.next[n])

ListIsEmpty(m, h) == m.next[h] = h

\* `p = p->pNext`, again and again from h on
ListFollow(m, h) ==
    LET at[k \in 0..Cardinality(Node)] == IF k = 0 THEN h ELSE m.next[at[k - 1]]
    IN  at

\* the nodes that `for (p = h->pNext; p != h; p = p->pNext)` visits, in order;
\* listLength counts them and listGetAt picks one
ListWalk(m, h) ==
    LET at  == ListFollow(m, h)
        len == CHOOSE k \in 0..Cardinality(Node) - 1 :
                   /\ at[k + 1] = h
                   /\ \A j \in 1..k : at[j] # h
    IN  [k \in 1..len |-> at[k]]

ListMembers(m, h) == {ListWalk(m, h)[k] : k \in DOMAIN ListWalk(m, h)}

\* The two pointers are each other's inverse: every walk is a closed ring.
Linked(m) ==
    /\ m \in Memory
    /\ \A n \in Node : m.next[m.prev[n]] = n /\ m.prev[m.next[n]] = n

\* w assigns to every node the ring it is in, and no pointer leads from one
\* ring to another.
Closed(m, w) == \A n \in Node : w[m.next[n]] = w[n]

\* s without its i-th element
Dropped(s, i) == [k \in 1..Len(s) - 1 |-> IF k < i THEN s[k] ELSE s[k + 1]]

\* The ring of h is h and the nodes of s, in this order.
IsRing(m, h, s) ==
    /\ s \in Seq(Node)
    /\ \A i \in 1..Len(s) : s[i] # h
    /\ \A i, j \in 1..Len(s) : s[i] = s[j] => i = j
    /\ m.next[h] = IF Len(s) = 0 THEN h ELSE s[1]
    /\ \A i \in 1..Len(s) : m.next[s[i]] = IF i = Len(s) THEN h ELSE s[i + 1]

\* And these are the nodes that w says are in the list of h.
RingOf(m, w, h, s) ==
    /\ IsRing(m, h, s)
    /\ \A n \in Node \ {h} : w[n] = h <=> \E i \in 1..Len(s) : s[i] = n
=============================================================================
