-------------------------------- MODULE Node --------------------------------
(***************************************************************************)
(* The node as the host sees it: the parameter tables and format           *)
(* negotiation (module NodeParams) next to the buffer pools and the        *)
(* produce callback (module BufferPool), driven by one host.               *)
(*                                                                         *)
(* The host makes one call of the impl_node method table at a time: the   *)
(* negotiation calls on its control thread and impl_node_process on its   *)
(* data thread, serialised against each other (spec.md 5).  A step of the  *)
(* node is therefore a step of one component that leaves the other alone.  *)
(* The host links port 0 and negotiates each pool once (BufferPool's       *)
(* LinkedNext), which is the order a PipeWire graph brings a node up in:   *)
(* format, buffers, io, then the data loop.                                *)
(***************************************************************************)
EXTENDS Integers

CONSTANTS
  Listeners,      \* spa_hooks the host may add with add_listener
  NPorts,         \* the first NPorts ports of the node
  MaxBuffers,     \* MAX_BUFFERS
  MaxUseBuffers   \* bound on port_use_buffers calls per port

VARIABLES
  hooks, nodeParams, nodeMask, portParams, portMask, portMaskAll, format,
  cache, infos,
  links, nBuffers, bound, mapped, liveMaps, io, ioNotify, status, useCalls,
  lastPopped, fault

P == INSTANCE NodeParams
B == INSTANCE BufferPool

paramVars == <<hooks, nodeParams, nodeMask, portParams, portMask,
               portMaskAll, format, cache, infos>>
poolVars == <<links, nBuffers, bound, mapped, liveMaps, io, ioNotify, status,
              useCalls, lastPopped, fault>>
vars == <<paramVars, poolVars>>

TypeOK == P!TypeOK /\ B!TypeOK

Init == P!Init /\ B!Init

\* One negotiation call (add_listener, set_param, port_set_param).
Negotiate == P!Next /\ UNCHANGED poolVars

\* One pool call (port_set_io, port_use_buffers) or one graph cycle.
Pool == B!LinkedNext /\ UNCHANGED paramVars

\* impl_node_process on a linked node: the data loop's cycle.
Produce == (B!ProcessStarved \/ B!ProcessCycle) /\ UNCHANGED paramVars

Next == Negotiate \/ Pool

\* main() gives the node node.autoconnect = true: the host links it into a
\* graph, whose driver runs impl_node_process on the data loop every graph
\* cycle while the node is linked.
Spec == Init /\ [][Next]_vars /\ WF_vars(Produce)

(***************************************************************************)
(* Properties.                                                             *)
(***************************************************************************)

\* Port 0 is ready to stream: a complete format committed, its buffers io
\* area bound and a pool of buffers negotiated.
Ready ==
  /\ \A f \in P!Fields : format[0][f] # 0
  /\ io[0].set
  /\ nBuffers[0] > 0

\* Once port 0 is ready, a produce cycle eventually publishes data: process
\* returns HAVE_DATA with a buffer id in the io area for the host to read
\* (spec.md 4.6 steps 5 and 6; spec.md 8's three-cycle FIFO example).
DataFlows ==
  Ready ~> (status = "HAVE_DATA" /\ io[0].buffer_id \in B!Bufs)

=============================================================================
