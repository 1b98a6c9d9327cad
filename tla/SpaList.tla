------------------------------ MODULE SpaList ------------------------------
(***************************************************************************)
(* The intrusive doubly linked list of libspa (spa/utils/list.h) that      *)
(* node.c keeps per port as the list of free buffers (struct port.empty,   *)
(* linked through struct buffer.link).                                     *)
(*                                                                         *)
(* A list is a record of two pointer functions, next and prev, over the    *)
(* list head and the element ids.  Every operation is written as the       *)
(* sequence of stores the C code performs, so that a call the list was     *)
(* not designed for (appending an element that is already linked) yields   *)
(* exactly the pointers the program would hold.                            *)
(***************************************************************************)
EXTENDS Integers, Sequences, SequencesExt

\* &port->empty, the list head embedded in struct port.
ListHead == -1

\* A struct spa_list field that was zero-initialised and never linked.
NULL == -2

\* spa_list_init(&port->empty) on a port whose buffers[] are still zeroed.
ListInit(Elems) ==
  LET nodes == {ListHead} \cup Elems
  IN  [next |-> [n \in nodes |-> IF n = ListHead THEN ListHead ELSE NULL],
       prev |-> [n \in nodes |-> IF n = ListHead THEN ListHead ELSE NULL]]

\* spa_list_insert(at, e): the four stores in program order.
ListInsert(l, at, e) ==
  LET l1 == [l  EXCEPT !.prev[e] = at]
      l2 == [l1 EXCEPT !.next[e] = l1.next[at]]
      l3 == [l2 EXCEPT !.next[at] = e]
  IN  [l3 EXCEPT !.prev[l3.next[e]] = e]

\* spa_list_append(&port->empty, &b->link) == spa_list_insert(head->prev, e).
ListAppend(l, e) == ListInsert(l, l.prev[ListHead], e)

\* spa_list_remove(&b->link): the two stores in program order.
ListRemove(l, e) ==
  LET l1 == [l EXCEPT !.next[l.prev[e]] = l.next[e]]
  IN  [l1 EXCEPT !.prev[l1.next[e]] = l1.prev[e]]

\* spa_list_is_empty(&port->empty).
ListIsEmpty(l) == l.next[ListHead] = ListHead

\* spa_list_first(&port->empty, struct buffer, link).
ListFirst(l) == l.next[ListHead]

(***************************************************************************)
(* Observation of a list: the ids met by following next from the head,     *)
(* cut after as many steps as there are nodes so that a corrupted list     *)
(* with a cycle not through the head still yields a finite sequence.       *)
(***************************************************************************)
RECURSIVE Chain(_, _, _)
Chain(l, n, k) ==
  IF n \in {ListHead, NULL} \/ k = 0 THEN <<>>
  ELSE <<n>> \o Chain(l, l.next[n], k - 1)

ListElems(l) == Chain(l, l.next[ListHead], Cardinality(DOMAIN l.next))

\* The list is a proper ring through the head: each node's next has it as
\* prev, the walk from the head returns to the head, and no id repeats.
ListWellFormed(l) ==
  LET ring == <<ListHead>> \o ListElems(l)
      succ(i) == ring[(i % Len(ring)) + 1]
  IN  /\ IsInjective(ring)
      /\ \A i \in 1..Len(ring) :
            /\ l.next[ring[i]] = succ(i)
            /\ l.prev[succ(i)] = ring[i]

=============================================================================
