----------------------------- MODULE FreeQueue -----------------------------
(***************************************************************************)
(* Abstract specification of a port's pool of free buffers: a FIFO queue   *)
(* of buffer ids in which no id is ever queued twice (spec.md 4.4-4.6 and  *)
(* the "each buffer id appears in at most one membership state" property   *)
(* of spec.md 8).                                                          *)
(*                                                                         *)
(*   Give    use_buffers binds fresh buffers and queues them in order;     *)
(*   Cycle   the produce callback takes the head of port 0's queue and     *)
(*           queues it again at the tail;                                  *)
(*   Return  a buffer that is not free is queued at the tail.              *)
(***************************************************************************)
EXTENDS Integers, Sequences, SequencesExt

CONSTANTS
  Ports,   \* port ids
  Bufs     \* buffer ids of one pool

VARIABLE queue   \* queue[p]: the free buffers of port p, head first

Init == queue = [p \in Ports |-> <<>>]

\* Buffers 0..k-1, in descriptor order.
FirstIds(k) == [i \in 1..k |-> i - 1]

Give(p, k) ==
  /\ ToSet(FirstIds(k)) \cap ToSet(queue[p]) = {}
  /\ queue' = [queue EXCEPT ![p] = @ \o FirstIds(k)]

Cycle ==
  /\ queue[0] # <<>>
  /\ queue' = [queue EXCEPT ![0] = Tail(@) \o <<Head(@)>>]

Return(p, b) ==
  /\ b \notin ToSet(queue[p])
  /\ queue' = [queue EXCEPT ![p] = Append(@, b)]

Next ==
  \/ \E p \in Ports, k \in 0..Cardinality(Bufs) : Give(p, k)
  \/ Cycle
  \/ \E p \in Ports, b \in Bufs : Return(p, b)

Spec == Init /\ [][Next]_queue

=============================================================================
