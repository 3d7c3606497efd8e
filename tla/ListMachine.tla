---------------------------- MODULE ListMachine ----------------------------
(***************************************************************************)
(* Any program that works on ring lists with list.h: it initialises nodes  *)
(* that are in no list, attaches them to a list, and detaches nodes, in any *)
(* order.  The code attaches in both argument orders, listAttach(node,     *)
(* head) in PeriodTask.c and listAttach(head, node) in memory_pool.h.      *)
(***************************************************************************)
EXTENDS List

VARIABLES links,        \* the two pointers of every node
          listOf,       \* reference: the head of the list a node is in, or itself
          seq           \* reference: the sequence of nodes behind each head

lvars == <<links, listOf, seq>>

Item == Node \ ListHeads

ListsInit ==
    /\ links = [prev |-> [n \in Node |-> n], next |-> [n \in Node |-> n]]
    /\ listOf = [n \in Node |-> n]
    /\ seq = [h \in ListHeads |-> <<>>]

\* listInit on a node that is in no list (prdAddTask does so before attaching)
InitNode(n) ==
    /\ listOf[n] = n
    /\ links' = ListInit(links, n)
    /\ UNCHANGED <<listOf, seq>>

\* A node in no list is put at the end of a list.
Attach(n, h) ==
    /\ listOf[n] = n
    /\ links' = ListAttach(links, n, h) \/ links' = ListAttach(links, h, n)
    /\ listOf' = [listOf EXCEPT ![n] = h]
    /\ seq' = [seq EXCEPT ![h] = Append(@, n)]

\* Any node is taken out of whatever list it is in, or stays out.
Detach(n) ==
    /\ links' = ListDetach(links, n)
    /\ listOf' = [listOf EXCEPT ![n] = n]
    /\ seq' = [h \in ListHeads |->
                  IF listOf[n] = h THEN Dropped(seq[h], CHOOSE i \in 1..Len(seq[h]) : seq[h][i] = n)
                                   ELSE seq[h]]

ListsNext == \E n \in Item : InitNode(n) \/ Detach(n) \/ \E h \in ListHeads : Attach(n, h)

ListsSpec == ListsInit /\ [][ListsNext]_lvars

\* The pointers and the two references hold values of their types.
ListsTypeOK ==
    /\ links \in Memory
    /\ listOf \in [Node -> Node]
    /\ DOMAIN seq = ListHeads

\* After any sequence of attaches and detaches the two pointers of every node
\* are still each other's inverse (list.h never tests them), and following them
\* never leaves the list one is in.
RingsIntact == Linked(links) /\ Closed(links, listOf)

\* A walk from a head visits exactly the nodes that were attached and not
\* detached, in the order they were attached: listAttach appends at the tail
\* although it is written as a symmetric exchange.
WalksAreSequences == \A h \in ListHeads : ListWalk(links, h) = seq[h]

\* listDetach leaves the node a ring of its own, a second listDetach of it does
\* nothing, and only such nodes are initialised or attached again.
DetachedIsAlone == \A n \in Item : listOf[n] = n => ListIsEmpty(links, n)

\* Inductive: what an attach and a detach need to know of the node they get, and that
\* the ring of every head holds the nodes of its sequence and of its list.
ListInv ==
    /\ ListsTypeOK
    /\ RingsIntact
    /\ DetachedIsAlone
    /\ \A h \in ListHeads : listOf[h] = h /\ RingOf(links, listOf, h, seq[h])
=============================================================================
