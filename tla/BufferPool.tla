----------------------------- MODULE BufferPool -----------------------------
(***************************************************************************)
(* The buffer pools of the output ports of node.c and the real-time        *)
(* produce callback that draws on them:                                    *)
(*                                                                         *)
(*   impl_port_set_io       binds a port's buffers or notify io area       *)
(*   impl_port_use_buffers  binds host buffers and links them on the port's*)
(*                          free list (struct port.empty)                  *)
(*   impl_port_reuse_buffer appends a returned buffer to the free list     *)
(*   impl_node_process      recycles io->buffer_id, takes the first free   *)
(*                          buffer, and (through the `if (true)` at line   *)
(*                          629) appends it again and returns OK           *)
(*                                                                         *)
(* The free list is modelled pointer by pointer (module SpaList).  A step  *)
(* on which the C code would dereference NULL or index out of bounds sets  *)
(* `fault` and the program stops.                                          *)
(***************************************************************************)
EXTENDS SpaList

CONSTANTS
  NPorts,         \* ports the host uses (node.c declares MAX_PORTS = 16)
  MaxBuffers,     \* MAX_BUFFERS, the capacity of struct port.buffers[]
  MaxUseBuffers   \* bound on port_use_buffers calls per port

ASSUME NPorts \in Nat \ {0} /\ MaxBuffers \in Nat \ {0}
ASSUME MaxUseBuffers \in Nat

Ports == 0..NPorts - 1
Bufs  == 0..MaxBuffers - 1
Nodes == {ListHead} \cup Bufs

\* SPA_ID_INVALID (0xffffffff).  Only `buffer_id < n_buffers` reads it, and
\* every value >= MAX_BUFFERS compares the same there.
INVALID == MaxBuffers + 1

\* What datas[0] of a host buffer descriptor offers port_use_buffers:
\* a mapped pointer, a MemFd/DmaBuf whose mmap succeeds or fails, or neither.
DescKinds == {"mem", "fd", "fd_fail", "invalid"}

Faults == {"none", "io_null", "buffer_null", "reuse_oob"}

\* port.io as main() leaves it (zeroed) and as port_set_io(NULL) sets it.
Unbound == [set |-> FALSE, buffer_id |-> INVALID]

VARIABLES
  links,      \* links[p]: next/prev pointers of port p's free list
  nBuffers,   \* port.n_buffers
  bound,      \* bound[p][i]: buffers[i].buffer is a host buffer (not NULL)
  mapped,     \* mapped[p][i]: buffers[i].mapped
  liveMaps,   \* liveMaps[p]: mmap()s of port p never munmap()ed
  io,         \* port.io: whether it is set, and the buffer_id in the area
  ioNotify,   \* port.io_notify != NULL
  status,     \* the value impl_node_process last returned
  useCalls,   \* port_use_buffers calls made per port (bounded)
  lastPopped, \* history: the buffer process last took from port p's list
  fault       \* the memory error the program stopped on, or "none"

poolVars == <<links, nBuffers, bound, mapped, liveMaps>>
vars == <<links, nBuffers, bound, mapped, liveMaps, io, ioNotify, status,
          useCalls, lastPopped, fault>>

\* The free buffers of port p, head first.
FreeIds(p) == ListElems(links[p])

TypeOK ==
  /\ links \in [Ports -> [next : [Nodes -> Nodes \cup {NULL}],
                          prev : [Nodes -> Nodes \cup {NULL}]]]
  /\ nBuffers \in [Ports -> 0..MaxBuffers]
  /\ bound \in [Ports -> [Bufs -> BOOLEAN]]
  /\ mapped \in [Ports -> [Bufs -> BOOLEAN]]
  /\ liveMaps \in [Ports -> Nat]
  /\ io \in [Ports -> [set : BOOLEAN, buffer_id : Bufs \cup {INVALID}]]
  /\ ioNotify \in [Ports -> BOOLEAN]
  /\ status \in {"none", "OK", "EPIPE"}
  /\ useCalls \in [Ports -> 0..MaxUseBuffers]
  /\ lastPopped \in [Ports -> Bufs \cup {NULL}]
  /\ fault \in Faults

\* main(): `struct data data = { 0 }`, then spa_list_init on every port.
Init ==
  /\ links = [p \in Ports |-> ListInit(Bufs)]
  /\ nBuffers = [p \in Ports |-> 0]
  /\ bound = [p \in Ports |-> [i \in Bufs |-> FALSE]]
  /\ mapped = [p \in Ports |-> [i \in Bufs |-> FALSE]]
  /\ liveMaps = [p \in Ports |-> 0]
  /\ io = [p \in Ports |-> Unbound]
  /\ ioNotify = [p \in Ports |-> FALSE]
  /\ status = "none"
  /\ useCalls = [p \in Ports |-> 0]
  /\ lastPopped = [p \in Ports |-> NULL]
  /\ fault = "none"

(***************************************************************************)
(* impl_port_set_io.  The host's spa_io_buffers area starts with           *)
(* buffer_id = SPA_ID_INVALID; data = NULL unbinds (a port being           *)
(* unlinked).  Any other io id returns -ENOENT and changes nothing.        *)
(***************************************************************************)
PortSetIo(p, id, data) ==
  /\ fault = "none"
  /\ \/ /\ id = "Buffers"
        /\ io' = [io EXCEPT ![p] = IF data = "NULL" THEN Unbound
                                   ELSE [set |-> TRUE, buffer_id |-> INVALID]]
        /\ UNCHANGED ioNotify
     \/ /\ id = "Notify"
        /\ ioNotify' = [ioNotify EXCEPT ![p] = data # "NULL"]
        /\ UNCHANGED io
  /\ UNCHANGED <<poolVars, status, useCalls, lastPopped, fault>>

(***************************************************************************)
(* impl_port_use_buffers.  More than MAX_BUFFERS descriptors: -ENOSPC.     *)
(* Otherwise descriptor i binds buffers[i] and appends it to the free list *)
(* until a failed mmap or an unusable descriptor returns an error; only a  *)
(* complete loop sets n_buffers.  The list is not emptied first and no     *)
(* earlier mapping is undone.                                              *)
(***************************************************************************)

\* How many descriptors the loop binds before it returns.
BoundCount(desc) ==
  LET stops == {i \in DOMAIN desc : desc[i] \in {"fd_fail", "invalid"}}
  IN  IF stops = {} THEN Len(desc) ELSE Min(stops) - 1

\* Buffer ids 0..k-1 in loop order.
LoopIds(k) == [j \in 1..k |-> j - 1]

\* Faulty variants, each a plausible slip in the C code, that the
\* properties below must tell apart from the real one.
\* n_buffers stored before the MAX_BUFFERS check.
UseBuffersUncapped(p, desc) ==
  LET k == BoundCount(desc)
      isFd(i) == desc[i + 1] = "fd"
  IN
  /\ fault = "none"
  /\ useCalls[p] < MaxUseBuffers
  /\ useCalls' = [useCalls EXCEPT ![p] = @ + 1]
  /\ IF Len(desc) > MaxBuffers
       THEN /\ nBuffers' = [nBuffers EXCEPT ![p] = Len(desc)]
            /\ UNCHANGED <<links, bound, mapped, liveMaps>>
       ELSE /\ links' = [links EXCEPT ![p] = FoldLeft(ListAppend, @, LoopIds(k))]
            /\ bound' = [bound EXCEPT ![p] = [i \in Bufs |-> @[i] \/ i < k]]
            /\ mapped' = [mapped EXCEPT ![p] =
                            [i \in Bufs |-> IF i < k THEN isFd(i) ELSE @[i]]]
            /\ liveMaps' = [liveMaps EXCEPT ![p] =
                              @ + Cardinality({i \in 0..k - 1 : isFd(i)})]
            /\ nBuffers' = [nBuffers EXCEPT ![p] =
                              IF k = Len(desc) THEN k ELSE @]
  /\ UNCHANGED <<io, ioNotify, status, lastPopped, fault>>

\* Buffers linked at the head (spa_list_prepend) instead of the tail.
UseBuffersPrepend(p, desc) ==
  LET k == BoundCount(desc)
      isFd(i) == desc[i + 1] = "fd"
      Prepend(l, e) == ListInsert(l, ListHead, e)
  IN
  /\ fault = "none"
  /\ useCalls[p] < MaxUseBuffers
  /\ useCalls' = [useCalls EXCEPT ![p] = @ + 1]
  /\ IF Len(desc) > MaxBuffers
       THEN UNCHANGED poolVars
       ELSE /\ links' = [links EXCEPT ![p] = FoldLeft(Prepend, @, LoopIds(k))]
            /\ bound' = [bound EXCEPT ![p] = [i \in Bufs |-> @[i] \/ i < k]]
            /\ mapped' = [mapped EXCEPT ![p] =
                            [i \in Bufs |-> IF i < k THEN isFd(i) ELSE @[i]]]
            /\ liveMaps' = [liveMaps EXCEPT ![p] =
                              @ + Cardinality({i \in 0..k - 1 : isFd(i)})]
            /\ nBuffers' = [nBuffers EXCEPT ![p] =
                              IF k = Len(desc) THEN k ELSE @]
  /\ UNCHANGED <<io, ioNotify, status, lastPopped, fault>>

UseBuffers(p, desc) ==
  LET k == BoundCount(desc)
      isFd(i) == desc[i + 1] = "fd"
  IN
  /\ fault = "none"
  /\ useCalls[p] < MaxUseBuffers
  /\ useCalls' = [useCalls EXCEPT ![p] = @ + 1]
  /\ IF Len(desc) > MaxBuffers
       THEN UNCHANGED poolVars
       ELSE /\ links' = [links EXCEPT ![p] = FoldLeft(ListAppend, @, LoopIds(k))]
            /\ bound' = [bound EXCEPT ![p] = [i \in Bufs |-> @[i] \/ i < k]]
            /\ mapped' = [mapped EXCEPT ![p] =
                            [i \in Bufs |-> IF i < k THEN isFd(i) ELSE @[i]]]
            /\ liveMaps' = [liveMaps EXCEPT ![p] =
                              @ + Cardinality({i \in 0..k - 1 : isFd(i)})]
            /\ nBuffers' = [nBuffers EXCEPT ![p] =
                              IF k = Len(desc) THEN k ELSE @]
  /\ UNCHANGED <<io, ioNotify, status, lastPopped, fault>>

(***************************************************************************)
(* impl_port_reuse_buffer -> port_reuse_buffer: append buffers[id] to the  *)
(* free list, with no check of id or of whether it is already free.        *)
(* Every id >= MAX_BUFFERS indexes past buffers[].                         *)
(***************************************************************************)
ReuseBuffer(p, id) ==
  /\ fault = "none"
  /\ IF id >= MaxBuffers
       THEN /\ fault' = "reuse_oob"
            /\ UNCHANGED links
       ELSE /\ links' = [links EXCEPT ![p] = ListAppend(@, id)]
            /\ UNCHANGED fault
  /\ UNCHANGED <<nBuffers, bound, mapped, liveMaps, io, ioNotify, status,
                 useCalls, lastPopped>>

(***************************************************************************)
(* impl_node_process.  The loop over the ports returns inside its first    *)
(* iteration on every path, so only port 0 is ever served.  One action per *)
(* way the call ends.                                                      *)
(***************************************************************************)

\* Lines 612-615: recycle io->buffer_id when it is below n_buffers.
Recycles == io[0].set /\ io[0].buffer_id < nBuffers[0]
Recycled == IF Recycles THEN ListAppend(links[0], io[0].buffer_id) ELSE links[0]
IoAfterRecycle ==
  IF Recycles THEN [io EXCEPT ![0].buffer_id = INVALID] ELSE io

\* Line 612 dereferences io, which is NULL until the host binds it.
ProcessNullIo ==
  /\ fault = "none"
  /\ ~io[0].set
  /\ fault' = "io_null"
  /\ UNCHANGED <<poolVars, io, ioNotify, status, useCalls, lastPopped>>

\* Lines 617-620: no free buffer, -EPIPE.
ProcessStarved ==
  /\ fault = "none"
  /\ io[0].set
  /\ ListIsEmpty(Recycled)
  /\ links' = [links EXCEPT ![0] = Recycled]
  /\ io' = IoAfterRecycle
  /\ status' = "EPIPE"
  /\ UNCHANGED <<nBuffers, bound, mapped, liveMaps, ioNotify, useCalls,
                 lastPopped, fault>>

\* Line 625: b->buffer->datas on a buffer use_buffers never bound.
ProcessNullBuffer ==
  /\ fault = "none"
  /\ io[0].set
  /\ ~ListIsEmpty(Recycled)
  /\ ~bound[0][ListFirst(Recycled)]
  /\ fault' = "buffer_null"
  /\ UNCHANGED <<poolVars, io, ioNotify, status, useCalls, lastPopped>>

\* Faulty variants of ProcessCycle: the buffer appended without the
\* spa_list_remove, and the buffer put back at the head (LIFO).
ProcessCycleNoRemove ==
  LET b == ListFirst(Recycled)
  IN
  /\ fault = "none"
  /\ io[0].set
  /\ ~ListIsEmpty(Recycled)
  /\ bound[0][b]
  /\ links' = [links EXCEPT ![0] = ListAppend(Recycled, b)]
  /\ io' = IoAfterRecycle
  /\ status' = "OK"
  /\ lastPopped' = [lastPopped EXCEPT ![0] = b]
  /\ UNCHANGED <<nBuffers, bound, mapped, liveMaps, ioNotify, useCalls, fault>>

ProcessCycleLifo ==
  LET b == ListFirst(Recycled)
  IN
  /\ fault = "none"
  /\ io[0].set
  /\ ~ListIsEmpty(Recycled)
  /\ bound[0][b]
  /\ links' = [links EXCEPT ![0] = ListInsert(ListRemove(Recycled, b), ListHead, b)]
  /\ io' = IoAfterRecycle
  /\ status' = "OK"
  /\ lastPopped' = [lastPopped EXCEPT ![0] = b]
  /\ UNCHANGED <<nBuffers, bound, mapped, liveMaps, ioNotify, useCalls, fault>>

\* Lines 622-631: take the first free buffer, append it again, return OK.
ProcessCycle ==
  LET b == ListFirst(Recycled)
  IN
  /\ fault = "none"
  /\ io[0].set
  /\ ~ListIsEmpty(Recycled)
  /\ bound[0][b]
  /\ links' = [links EXCEPT ![0] = ListAppend(ListRemove(Recycled, b), b)]
  /\ io' = IoAfterRecycle
  /\ status' = "OK"
  /\ lastPopped' = [lastPopped EXCEPT ![0] = b]
  /\ UNCHANGED <<nBuffers, bound, mapped, liveMaps, ioNotify, useCalls, fault>>

Process ==
  \/ ProcessNullIo
  \/ ProcessStarved
  \/ ProcessNullBuffer
  \/ ProcessCycle

(***************************************************************************)
(* Host behaviours.                                                        *)
(*                                                                         *)
(* Next: every call sequence the node's method table accepts.              *)
(*                                                                         *)
(* LinkedNext: a host that links port 0 before it drives the graph and     *)
(* never unlinks it, and never returns a buffer through reuse_buffer (the  *)
(* node never hands one out: io->buffer_id is never written with an id).   *)
(* use_buffers is bounded by MaxUseBuffers.                                *)
(***************************************************************************)
Descs == UNION {[1..n -> DescKinds] : n \in 0..MaxBuffers + 1}

Next ==
  \/ \E p \in Ports, id \in {"Buffers", "Notify"}, d \in {"area", "NULL"} :
        PortSetIo(p, id, d)
  \/ \E p \in Ports, desc \in Descs : UseBuffers(p, desc)
  \/ \E p \in Ports, id \in 0..MaxBuffers : ReuseBuffer(p, id)
  \/ Process

LinkedNext ==
  \/ \E p \in Ports, id \in {"Buffers", "Notify"} : PortSetIo(p, id, "area")
  \/ \E p \in Ports, desc \in Descs : UseBuffers(p, desc)
  \/ ProcessStarved
  \/ ProcessCycle

\* The graph's driver runs the node once per graph cycle while it is linked
\* (main() sets node.autoconnect = true).
Spec == Init /\ [][Next]_vars
LinkedSpec ==
  Init /\ [][LinkedNext]_vars /\ WF_vars(ProcessStarved \/ ProcessCycle)

(***************************************************************************)
(* Properties.                                                             *)
(***************************************************************************)

\* Every port's free list is an intact ring through its head, with no
\* buffer twice, and holds only buffers use_buffers bound; the pointer
\* stores of use_buffers, reuse_buffer and process must preserve this for
\* process to pop a usable buffer (node.c lines 497, 507, 622-623).
FreeListIntact ==
  \A p \in Ports :
    /\ ListWellFormed(links[p])
    /\ \A b \in ToSet(FreeIds(p)) : bound[p][b]

\* Everything port_use_buffers leaves behind belongs to the pool that
\* n_buffers describes: no free buffer lies beyond it, and every live mmap()
\* is the mapping of one of its buffers (spec.md 7: a failed call mutates
\* nothing; spec.md 9: a replaced pool's mappings are unmapped).
PoolMatchesNBuffers ==
  \A p \in Ports :
    /\ \A b \in ToSet(FreeIds(p)) : b < nBuffers[p]
    /\ liveMaps[p] = Cardinality({i \in 0..nBuffers[p] - 1 : mapped[p][i]})

\* Whatever calls the host makes, the node's memory stays sound: it never
\* dereferences NULL or indexes past buffers[], and the free lists stay
\* intact rings of bound buffers (renegotiation, duplicate and stray
\* reuse_buffer calls included).
MemorySound == fault = "none" /\ FreeListIntact

\* The free lists implement a FIFO queue of buffer ids in which no id is
\* queued twice (module FreeQueue).
FQ == INSTANCE FreeQueue WITH queue <- [p \in Ports |-> FreeIds(p)]
FreeQueueRefined == FQ!Spec

\* LinkedNext drives process only while port 0 is linked.
Running == io[0].set

\* While the node is driven, every buffer on port 0's free list is
\* eventually the one process takes: the list is cycled FIFO and no
\* buffer is skipped.
EveryBufferCycles ==
  \A b \in Bufs :
    [](b \in ToSet(FreeIds(0)) /\ Running => <>(lastPopped[0] = b))

\* While the node is driven, every linked port's free buffers are all
\* eventually taken by process: the produce callback serves each port,
\* in index order (spec.md 4.6).
EveryPortCycles ==
  \A p \in Ports : \A b \in Bufs :
    [](b \in ToSet(FreeIds(p)) /\ io[p].set /\ Running
         => <>(lastPopped[p] = b))

=============================================================================
