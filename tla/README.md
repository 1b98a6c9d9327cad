# TLA+ models of livemix's example PipeWire node

This directory holds a model-checking project for `src/examples/node.c`. That file is a single-process PipeWire client. It exports one audio-source node with two output ports, and it implements the `spa_node` method table itself. The header `src/examples/private.h` declares a stream object that `node.c` does not use.

All modules are checked with TLC. `PROJECT.json` records the following: the components, the runs, the mutant for every checked property, the source lines behind every definition (`map`), the findings, and the hazards the code is exposed to.

## The system and its parts

`node.c` is driven entirely by the PipeWire host, through the `impl_node` method table (lines 692-706). The host calls one method at a time. Control methods run on the main loop, and `impl_node_process` runs on the data loop while the node is scheduled. Each method is therefore modelled as one atomic step.

| Part | Code | State | Operations |
|---|---|---|---|
| Parameter tables and change notification | `emit_node_info`, `emit_port_info` 99-151, `impl_add_listener` 184-200, `impl_set_param` 218-231 | `d->params[4]`, `d->info.change_mask`, per port `port_params[5]` and `port_info.change_mask`, `d->port_change_mask_all`, `d->hooks` | add a listener (full info to it alone), partial emission after a change |
| Format negotiation | `impl_port_set_param` 408-450, `impl_port_enum_params` 267-406, `impl_enum_params` 209-216 | `p->format` | commit/clear a format, enumerate candidates per kind |
| Buffer pool | `impl_port_use_buffers` 452-502, `port_reuse_buffer` 504-522, `impl_port_set_io` 238-265 | `p->buffers[32]`, `p->n_buffers`, the free list `p->empty`, `p->io` | bind a pool, return a buffer, bind/unbind the io area |
| Produce callback | `impl_node_process` 597-645 | the free lists and io areas | recycle `io->buffer_id`, pop the head of the free list, re-queue it |
| Bootstrap and glue | `main`, `make_node`, proxy/node event handlers, no-op methods | — | the tables' initial values (the modules' `Init`), logging |

The parts interact through shared state. Negotiation writes the tables that notification announces. Enumeration reads the committed format. The produce callback consumes what `use_buffers` and `set_io` establish.

## Modules

- **SpaList**: the `spa_list` intrusive list, store by store (`spa_list_insert`, `append`, `remove`, `is_empty`, `first`). Misuse therefore yields the pointers the program would really hold. `ListWellFormed` observes the list by walking `next` from the head.
- **FreeQueue**: the abstract specification of a port's free pool. It is a FIFO of buffer ids with no id queued twice. Its operations are Give (`use_buffers`), Cycle (process) and Return (`reuse_buffer`).
- **BufferPool** (EXTENDS SpaList):
  - Variables: the per-port lists `links`, `nBuffers`, `bound` (`b->buffer != NULL`), `mapped`/`liveMaps` (mmaps and their count), the io binding, `status` (process's return value), `useCalls`, `lastPopped`, `fault` (a memory error the code would commit).
  - Actions: `PortSetIo`, `UseBuffers`, `ReuseBuffer`, and the paths of `impl_node_process` (`ProcessNullIo`, `ProcessStarved`, `ProcessNullBuffer`, `ProcessCycle`).
  - `UseBuffers` takes a sequence of descriptor kinds (mem, fd that maps, fd whose mmap fails, invalid). It runs the loop over them, so a failure leaves the buffers already appended, exactly as the code does.
  - `FQ == INSTANCE FreeQueue WITH queue <- [p |-> FreeIds(p)]` is the refinement mapping.
- **NodeParams**:
  - Variables: the node and port parameter tables, the change masks, `port_change_mask_all`, each port's format, the registered `hooks`, and `cache` (what each listener has been told about every table).
  - `PartialEmit` models `emit_node_info`/`emit_port_info` with `full = false`: serial toggling, sending only when the mask is non-empty, and clearing the mask.
  - `CommitFormat` models `impl_port_set_param` for a format pod whose fields may each be absent. It includes the store to `d->params[PORT_Buffers]`, which is index 4 of a 4-element array (see below).
  - `EnumLoop` is the enumeration loop of `impl_port_enum_params` as a RECURSIVE operator. It is checked against `EnumReference`, the reference of spec.md 4.2 (filter the candidates, skip `start`, take `num`).
- **Node**: the composition. `P == INSTANCE NodeParams` and `B == INSTANCE BufferPool` share `NPorts`. A step is a step of one component (`Negotiate`, or `Pool` under BufferPool's `LinkedNext`) with the other's variables unchanged. This is the serialisation of the control and data threads that spec.md 5 assumes. `Produce` (process's non-error paths) is weakly fair.
- **BufferRace** (EXTENDS SpaList): `impl_port_use_buffers` on the host's control thread against `impl_node_process` on its data thread, on one port with a bound io area. Every other module runs a method as one step. Here each thread has a program counter (`cstep`, `dpc`) and the locals the C code keeps (`ci` for the loop index `i`, `cat` and `dat` for the `list` argument of `spa_list_insert`, `db` for `b`). Each action is one store of `spa_list_insert` or `spa_list_remove`, or one check. `Deref` turns a NULL or stray pointer into `fault = "wild_pointer"`. An unbound `b->buffer` turns into `"buffer_null"`. Statements interleave in program order, which is one of the outcomes the data race allows. The host's `n_buffers` argument (`cn`) ranges over `0..MAX_BUFFERS`. `UseFail` is the early `return` of a descriptor that is neither memory nor a mappable fd, or whose mmap fails. `SerialNext` is a host that keeps the two calls apart. Under it, `FQ == INSTANCE FreeQueue WITH queue <- ...` maps the list to the abstract FIFO: between the remove and the store that re-links it, the popped buffer `db` counts as the queue's head, and `use_buffers` is `Give` at its return.
- **MCBufferPool**, **MCNodeParams**, **MCNode**: the model constants for TLC. MCNodeParams also declares the listener model values and their symmetry.

### Undefined behaviour

`d->params[PORT_Buffers]` (lines 433 and 437) writes `d->params[4]` of `struct spa_param_info params[4]`. The next member is `uint64_t port_change_mask_all`, then `ports[0]`, whose first member is `format`. `CommitFormat` takes a boolean `lands` for whether the 32-byte `spa_param_info` store hits them. Its first 8 bytes land on `port_change_mask_all` and the other 24 on the start of `ports[0]`. Both outcomes are explored. A real build fixes one of them, while the model chooses on each call, which is a superset:

- if it lands, `port_change_mask_all` becomes `id | flags << 32` (bits 0 and 2, plus 33 for READ);
- and `ports[0].format` is zeroed.

### Host contracts

Several findings come from host behaviour that spec.md allows but a careful host avoids. BufferPool and BufferRace therefore have several next-state relations, one per host contract:

| Relation | Host contract |
|---|---|
| `LinkedNext` | the io area is bound with a real pointer; each port's buffers are negotiated once; buffers are never returned |
| `Next` | everything: unbinding io with NULL, reusing any id, renegotiating |
| BufferRace `SerialNext` | no statement of `use_buffers` while a cycle is in flight, and no cycle while `use_buffers` is in flight |
| BufferRace `Next` | the two threads' statements in any order |

The passing runs use the strictest relation, so a violation run under a looser one shows what that host behaviour breaks.

## Runs

| Run (cfg) | Expect | Shows |
|---|---|---|
| `MCBufferPool` | pass | Under `LinkedSpec`: the free lists remain rings of bound buffers (`FreeListIntact`). The pool refines the FIFO `FreeQueue` (`FreeQueueRefined`). Every free buffer of port 0 is eventually popped (`EveryBufferCycles`). 3360 states. |
| `MCBufferPool_failed_use` | violation | A failed `use_buffers` leaves free buffers and live mmaps that `n_buffers` does not cover (`PoolMatchesNBuffers`; lines 481, 485, 492). |
| `MCBufferPool_memory` | violation | Under any call sequence (`Spec`, two `use_buffers` per port), memory is not sound (`MemorySound`: no wild access, and the free lists intact). `reuse_buffer` links unbound or already free buffers, and it indexes past `buffers[]` (507). A second `use_buffers` re-links linked buffers (497). `process` dereferences a NULL io (612). TLC's trace reaches a stray `reuse_buffer` of an unbound buffer within the first steps, sometimes after a `port_set_io`. The three other defects come from traces found while modelling, and from reading the code, not from this run's trace. |
| `MCBufferPool_ports` | violation | Only port 0 is ever served (629-631). |
| `MCNodeParams` | pass | Enumeration equals the reference for every reachable state, start, num and filter (`EnumMatchesReference`). 8589 states. |
| `MCNodeParams_views` | violation | Listeners' picture of the node drifts from the node (`ListenersSeeNode`, 3 ports). TLC's shortest trace is one `add_listener`: it announces port 2, though `info.max_output_ports = 2` (lines 823, 865). Longer traces found while modelling show two more defects. After a second commit, listeners hold stale node flags (447). Listeners added after a commit never receive port params, because the past-the-end store clears PARAMS from `port_change_mask_all` (433). |
| `MCNodeParams_format_announced` | violation | A format change leaves the port's table untouched (`FormatChangeAnnounced`). Format's serial bit never flips, because no code increments `user` (109-112, 139-142). Buffers never becomes readable, because the flags go to `d->params` (432). |
| `MCNodeParams_format_commit` | violation | A format commit is not exact (`FormatCommitExact`). A partial pod commits half a format (431). A complete commit on port 0 can be zeroed by the past-the-end store (433). |
| `MCNodeParams_enum_contract` | violation | In the initial state already (`EnumerationContract`): `num = 0` with an unknown kind returns 0 (299); Buffers is enumerated without a format (343); node EnumFormat is readable but never enumerable (215). |
| `MCNode_data` | violation | Format negotiation and the pool composed. Once port 0 has a complete format, a bound io area and a pool, and `process` runs every cycle, the node still never publishes data (`DataFlows`): the `if (true)` at 629 returns OK first. TLC reports a lasso in which `process` cycles forever. |
| `MCBufferRace_serial` | pass | The same statements under a serialising host (`SerialSpec`). Every `use_buffers`, including one cut short by a bad descriptor, leaves an intact ring of exactly the buffers it bound (`PoolIntactAtRest`). The statement-level list implements `FreeQueue` (`RaceFreeQueueRefined`). 262 states. |
| `MCBufferRace` | violation | A graph cycle that overlaps `use_buffers` (`PoolIntactAtRest`). `use_buffers(1)` has made three of its four stores for buffer 0 when the data thread pops buffer 0. The fourth store then sets `head->prev` to the popped buffer. The re-append links buffer 0 to itself. Once `use_buffers` has returned, `head->next = head`: the buffer is lost, and every later cycle returns `-EPIPE`. 15 states deep. |

Each property of a passing run has a mutant in `PROJECT.json`: a plausible bug in the mapped definition (a prepend, a missing remove, a LIFO pop, a dropped capacity check, an unchecked parse, a filter that ends enumeration) that TLC must catch.

### Bounds

**BufferPool.** 2 ports, `MAX_BUFFERS = 2`, one `use_buffers` per port (two in the memory run).

- Two ports are needed to show that port 1 is never served.
- Two buffers give a list of length two, the least in which FIFO order, duplicate links and a failure after the first buffer can be observed.
- Descriptor sequences range over lengths 0..MAX_BUFFERS+1, so `-ENOSPC` is reached.

**NodeParams.** 2 listeners (symmetric model values) and 2 ports.

- Two listeners are the least for which "only the new one is told" says something.
- Two ports separate port 0 (the victim of the past-end store) from port 1.
- Payload fields range over {absent, 0, 1}. This covers zero, non-zero and missing.
- The views run uses three ports, the least number that reaches past `max_output_ports = 2`. Ports 2..15 behave alike.
- Enumeration is checked for starts 0..2, nums 0..3 and every filter over the two IO candidates, which covers `start` past the end and `num` below, equal to and above the candidate count.

**Node.** No listeners, 1 port, `MAX_BUFFERS = 2`, one `use_buffers`, 1920 states.

- `DataFlows` reads only port 0's format, io and pool.
- Listeners and further ports would multiply the state space without reaching a new case of it.

**BufferRace.** 1 port, one `use_buffers` whose `n_buffers` ranges over `0..MAX_BUFFERS`, any descriptor of which may fail (`UseFail`), and any number of cycles. `MAX_BUFFERS` is 2 in the race run and 3 in the serial run.

- One port suffices, because each port has its own list and `process` serves only port 0.
- Two buffers are the least for which a cycle can overlap an append to a non-empty list.
- Three buffers are the least for which a pop from the wrong end of the list differs from a FIFO cycle. With two, popping the tail and re-appending it looks like a rotation.

### Fairness

`LinkedSpec` assumes weak fairness of `impl_node_process`'s non-error paths. `main` gives the node `node.autoconnect = true` (line 807), so the host links it into a graph, and the graph's driver calls `process` on the data loop every graph cycle while the node is linked. `Node`'s `Spec` assumes the same fairness of `Produce`. Nothing else is assumed fair, because control calls come when the host decides to make them.

## Not modelled

- **`port_update_volume` and the HAVE_DATA tail of `process`.** They are unreachable behind `if (true)` (line 629).
- **`fill_*` functions.** They are commented out.
- **Sample synthesis, logging, pod building and debug printing.** These are data formatting. Pods are abstracted to their fields.
- **`make_node`, `main`'s PipeWire set-up, and the proxy/node/core event handlers.** These only register or log.
- **`impl_set_io`, `impl_send_command`, `impl_set_callbacks`.** These return constants.
- **`private.h`.** It contains declarations only.

- **Error returns with no state change.** `set_io` and `port_set_param` with other ids return `-ENOENT`, and invalid port ids return `-EINVAL`. These leave every modelled variable unchanged, so in each model they are stuttering steps and add no behaviour.
- **Compiler and CPU reordering of the racing stores.** BufferRace interleaves statements in program order only. Reordered stores are further outcomes of the same data race. The program-order outcomes already break the list.

What can be modelled faithfully is now modelled. The parts above are outside the models because they change no state the properties observe, or because their code never runs.
