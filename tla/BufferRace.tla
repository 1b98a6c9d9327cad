----------------------------- MODULE BufferRace -----------------------------
(***************************************************************************)
(* impl_port_use_buffers on the host's control thread against              *)
(* impl_node_process on its data thread, statement by statement, on one    *)
(* port whose buffers io area is bound.                                    *)
(*                                                                         *)
(* Neither function takes a lock, and impl_send_command ignores the        *)
(* Pause/Suspend commands a host sends before renegotiating, so nothing in *)
(* node.c keeps the two apart: only the host can (spec.md 5, 10).  Each    *)
(* thread has a program counter and the registers the C code keeps in      *)
(* locals; each step is one C statement on the free list, the stores of    *)
(* spa_list_insert and spa_list_remove taken one at a time.  Statements    *)
(* interleave in program order (no compiler or CPU reordering), which is   *)
(* one of the outcomes the data race permits.                              *)
(***************************************************************************)
EXTENDS SpaList, FiniteSets

CONSTANT MaxBuffers   \* MAX_BUFFERS

Bufs  == 0..MaxBuffers - 1
Nodes == {ListHead} \cup Bufs

VARIABLES
  links,      \* the port's free list
  bound,      \* bound[i]: buffers[i].buffer set by use_buffers
  nBuffers,   \* port.n_buffers
  cn,         \* control thread: the n_buffers argument of use_buffers
  ci,         \* control thread: loop index i of use_buffers
  cstep,      \* control thread: next statement of spa_list_append(buffers[i])
  cat,        \* control thread: the `list` argument of spa_list_insert
  cdone,      \* control thread: use_buffers has returned
  dpc,        \* data thread: next statement of impl_node_process
  db,         \* data thread: the buffer b taken from the list
  dat,        \* data thread: the `list` argument of spa_list_insert
  status,     \* the value process last returned
  fault       \* a wild pointer the program followed, or "none"

vars == <<links, bound, nBuffers, cn, ci, cstep, cat, cdone, dpc, db, dat,
          status, fault>>
ctlVars == <<cn, ci, cstep, cat, cdone>>
dataVars == <<dpc, db, dat, status>>

DataPcs == {"idle", "first", "rm1", "rm2", "deref", "ins1", "ins2", "ins3",
            "ins4"}

TypeOK ==
  /\ links \in [next : [Nodes -> Nodes \cup {NULL}],
                prev : [Nodes -> Nodes \cup {NULL}]]
  /\ bound \in [Bufs -> BOOLEAN]
  /\ nBuffers \in 0..MaxBuffers
  /\ cn \in 0..MaxBuffers /\ ci \in 0..MaxBuffers /\ cstep \in 1..4 /\ cat \in Nodes \cup {NULL}
  /\ cdone \in BOOLEAN
  /\ dpc \in DataPcs /\ db \in Nodes \cup {NULL} /\ dat \in Nodes \cup {NULL}
  /\ status \in {"none", "OK", "EPIPE"}
  /\ fault \in {"none", "wild_pointer", "buffer_null"}

Init ==
  /\ links = ListInit(Bufs)
  /\ bound = [i \in Bufs |-> FALSE]
  /\ nBuffers = 0
  /\ cn \in 0..MaxBuffers
  /\ ci = 0 /\ cstep = 1 /\ cat = NULL /\ cdone = FALSE
  /\ dpc = "idle" /\ db = NULL /\ dat = NULL
  /\ status = "none"
  /\ fault = "none"

\* One store of a list statement: x->next = v or x->prev = v.
SetNext(x, v) == links' = [links EXCEPT !.next[x] = v]
SetPrev(x, v) == links' = [links EXCEPT !.prev[x] = v]

\* A statement that dereferences pointer x: NULL or garbage stops the
\* program instead.
Deref(x, body) ==
  IF x \in Nodes THEN body
  ELSE fault' = "wild_pointer" /\ UNCHANGED links

(***************************************************************************)
(* The control thread: the loop of lines 471-497 and the return.           *)
(***************************************************************************)
\* b->id = i; b->buffer = buffers[i]; then elem->prev = list, with list =
\* head->prev read as spa_list_append's argument.
UseInsert1 ==
  /\ ~cdone /\ ci < cn /\ cstep = 1
  /\ cat' = links.prev[ListHead]
  /\ bound' = [bound EXCEPT ![ci] = TRUE]
  /\ SetPrev(ci, links.prev[ListHead])
  /\ cstep' = 2
  /\ UNCHANGED <<nBuffers, cn, ci, cdone, dataVars, fault>>

\* elem->next = list->next;
UseInsert2 ==
  /\ cstep = 2
  /\ Deref(cat, SetNext(ci, links.next[cat]) /\ UNCHANGED fault)
  /\ cstep' = 3
  /\ UNCHANGED <<bound, nBuffers, cn, ci, cat, cdone, dataVars>>

\* list->next = elem;
UseInsert3 ==
  /\ cstep = 3
  /\ Deref(cat, SetNext(cat, ci) /\ UNCHANGED fault)
  /\ cstep' = 4
  /\ UNCHANGED <<bound, nBuffers, cn, ci, cat, cdone, dataVars>>

\* elem->next->prev = elem; then the next loop iteration.
UseInsert4 ==
  /\ cstep = 4
  /\ Deref(links.next[ci], SetPrev(links.next[ci], ci) /\ UNCHANGED fault)
  /\ ci' = ci + 1 /\ cstep' = 1
  /\ UNCHANGED <<bound, nBuffers, cn, cat, cdone, dataVars>>

\* Descriptor i is neither mapped memory nor a mappable fd, or its mmap
\* fails: return an error, buffers 0..i-1 left on the list and n_buffers
\* not updated.
UseFail ==
  /\ ~cdone /\ ci < cn /\ cstep = 1
  /\ cdone' = TRUE
  /\ UNCHANGED <<links, bound, nBuffers, cn, ci, cstep, cat, dataVars, fault>>

\* p->n_buffers = n_buffers; return 0;
UseReturn ==
  /\ ~cdone /\ ci = cn
  /\ nBuffers' = cn
  /\ cdone' = TRUE
  /\ UNCHANGED <<links, bound, cn, ci, cstep, cat, dataVars, fault>>

Control ==
  fault = "none" /\
  (UseInsert1 \/ UseInsert2 \/ UseInsert3 \/ UseInsert4 \/ UseFail \/ UseReturn)

(***************************************************************************)
(* The data thread: lines 612-631 for port 0.  io->buffer_id is never      *)
(* written with a buffer id (the node never publishes one), so the recycle *)
(* of lines 612-615 never runs.                                            *)
(***************************************************************************)
\* if (spa_list_is_empty(&p->empty)) return -EPIPE;
ProcCheck ==
  /\ dpc = "idle"
  /\ IF ListIsEmpty(links)
       THEN status' = "EPIPE" /\ UNCHANGED <<dpc, db, dat>>
       ELSE dpc' = "first" /\ UNCHANGED <<db, dat, status>>
  /\ UNCHANGED <<links, bound, nBuffers, ctlVars, fault>>

\* Mutant: the buffer taken from the tail (spa_list_last).
ProcFirstTail ==
  /\ dpc = "first"
  /\ db' = links.prev[ListHead]
  /\ dpc' = "rm1"
  /\ UNCHANGED <<links, bound, nBuffers, ctlVars, dat, status, fault>>

\* b = spa_list_first(&p->empty, struct buffer, link);
ProcFirst ==
  /\ dpc = "first"
  /\ db' = ListFirst(links)
  /\ dpc' = "rm1"
  /\ UNCHANGED <<links, bound, nBuffers, ctlVars, dat, status, fault>>

\* spa_list_remove(&b->link): elem->prev->next = elem->next;
ProcRemove1 ==
  /\ dpc = "rm1"
  /\ Deref(db, Deref(links.prev[db],
       SetNext(links.prev[db], links.next[db]) /\ UNCHANGED fault))
  /\ dpc' = "rm2"
  /\ UNCHANGED <<bound, nBuffers, ctlVars, db, dat, status>>

\* Mutant: a remove that leaves the successor's prev pointer alone.
ProcRemove2Skipped ==
  /\ dpc = "rm2"
  /\ dpc' = "deref"
  /\ UNCHANGED <<links, bound, nBuffers, ctlVars, db, dat, status, fault>>

\* elem->next->prev = elem->prev;
ProcRemove2 ==
  /\ dpc = "rm2"
  /\ Deref(links.next[db],
       SetPrev(links.next[db], links.prev[db]) /\ UNCHANGED fault)
  /\ dpc' = "deref"
  /\ UNCHANGED <<bound, nBuffers, ctlVars, db, dat, status>>

\* od = b->buffer->datas;  the list head or an unbound buffer has none.
ProcDeref ==
  /\ dpc = "deref"
  /\ IF db \in Bufs /\ bound[db]
       THEN dpc' = "ins1" /\ UNCHANGED fault
       ELSE fault' = "buffer_null" /\ UNCHANGED dpc
  /\ UNCHANGED <<links, bound, nBuffers, ctlVars, db, dat, status>>

\* port_reuse_buffer(p, b->id): spa_list_append, elem->prev = head->prev.
ProcInsert1 ==
  /\ dpc = "ins1"
  /\ dat' = links.prev[ListHead]
  /\ SetPrev(db, links.prev[ListHead])
  /\ dpc' = "ins2"
  /\ UNCHANGED <<bound, nBuffers, ctlVars, db, status, fault>>

\* elem->next = list->next;
ProcInsert2 ==
  /\ dpc = "ins2"
  /\ Deref(dat, SetNext(db, links.next[dat]) /\ UNCHANGED fault)
  /\ dpc' = "ins3"
  /\ UNCHANGED <<bound, nBuffers, ctlVars, db, dat, status>>

\* list->next = elem;
ProcInsert3 ==
  /\ dpc = "ins3"
  /\ Deref(dat, SetNext(dat, db) /\ UNCHANGED fault)
  /\ dpc' = "ins4"
  /\ UNCHANGED <<bound, nBuffers, ctlVars, db, dat, status>>

\* elem->next->prev = elem; return SPA_STATUS_OK;
ProcInsert4 ==
  /\ dpc = "ins4"
  /\ Deref(links.next[db], SetPrev(links.next[db], db) /\ UNCHANGED fault)
  /\ dpc' = "idle" /\ status' = "OK"
  /\ UNCHANGED <<bound, nBuffers, ctlVars, db, dat>>

Data ==
  fault = "none" /\
  (ProcCheck \/ ProcFirst \/ ProcRemove1 \/ ProcRemove2 \/ ProcDeref \/
   ProcInsert1 \/ ProcInsert2 \/ ProcInsert3 \/ ProcInsert4)

\* An unserialising host: the two threads' statements in any order.
Next == Control \/ Data

Spec == Init /\ [][Next]_vars

\* use_buffers has not started, or has returned; no cycle is in flight.
ControlIdle == cdone \/ (ci = 0 /\ cstep = 1)
DataIdle == dpc = "idle"

\* A serialising host (spec.md 5): it starts no call on one thread while a
\* call is in flight on the other.
SerialNext ==
  \/ Control /\ DataIdle
  \/ Data /\ ControlIdle

SerialSpec == Init /\ [][SerialNext]_vars

(***************************************************************************)
(* Properties.                                                             *)
(***************************************************************************)

\* The free list survives a graph cycle that overlaps buffer negotiation:
\* no wild pointer is ever followed, and once use_buffers has returned and
\* no cycle is in flight, the list is an intact ring holding each buffer
\* use_buffers bound once (spec.md 8: "every buffer starts free").
PoolIntactAtRest ==
  /\ fault = "none"
  /\ cdone /\ dpc = "idle" =>
       /\ ListWellFormed(links)
       /\ ToSet(ListElems(links)) = {b \in Bufs : bound[b]}

\* Under a serialising host the statement-level list implements the FIFO
\* queue of module FreeQueue.  A cycle is the abstract Cycle when it links
\* the popped buffer again at the tail (ins3); between the remove and that
\* store the popped buffer db is the queue's head.  use_buffers is Give
\* of the buffers it appended when it returns, by either path.
Walk == ListElems(links)
Unlinked == dpc \in {"rm2", "deref", "ins1", "ins2", "ins3"}
AbstractQueue ==
  IF ~cdone THEN <<>>
  ELSE IF Unlinked THEN <<db>> \o Walk ELSE Walk
FQ == INSTANCE FreeQueue WITH Ports <- {0}, queue <- [p \in {0} |-> AbstractQueue]
RaceFreeQueueRefined == FQ!Spec

=============================================================================
