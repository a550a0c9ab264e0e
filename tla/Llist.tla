------------------------------- MODULE Llist -------------------------------
(***************************************************************************)
(* The intrusive doubly linked lists of the HAL (sys/alt_llist.h), pointer *)
(* by pointer: links maps every node, the head of the list included, to    *)
(* its next and previous pointer.  The stores are made in the order of the *)
(* code, because a node inserted twice is its own neighbour.               *)
(***************************************************************************)
EXTENDS Integers, FiniteSets

\* ALT_LLIST_HEAD, and a node after its removal.
Alone(node) == [next |-> node, previous |-> node]

\* Mutant: the head is redirected before the entry has copied its pointer.
alt_llist_insert_Swapped(links, list, entry) ==
    LET a == [links EXCEPT ![entry].previous = list]
        b == [a EXCEPT ![a[list].next].previous = entry]
        c == [b EXCEPT ![list].next = entry]
    IN [c EXCEPT ![entry].next = c[list].next]

alt_llist_insert(links, list, entry) ==
    LET a == [links EXCEPT ![entry] = [next |-> links[list].next, previous |-> list]]
        b == [a EXCEPT ![a[list].next].previous = entry]
    IN [b EXCEPT ![list].next = entry]

alt_llist_remove(links, entry) ==
    LET a == [links EXCEPT ![links[entry].next].previous = links[entry].previous]
        b == [a EXCEPT ![a[entry].previous].next = a[entry].next]
    IN [b EXCEPT ![entry] = Alone(entry)]

\* The k-th node a walk from "list" meets.
Walk(links, list, k) ==
    LET at[i \in 0 .. k] == IF i = 0 THEN list ELSE links[at[i - 1]].next
    IN at[k]

\* The nodes a walk meets, however long it goes on.
Members(links, list) ==
    {Walk(links, list, k) : k \in 1 .. Cardinality(DOMAIN links)} \ {list}

\* A walk ends where it began, and the pointers agree in both directions.
Circular(links, list) ==
    /\ \E k \in 1 .. Cardinality(DOMAIN links) : Walk(links, list, k) = list
    /\ \A node \in Members(links, list) \cup {list} :
          links[links[node].next].previous = node
=============================================================================
