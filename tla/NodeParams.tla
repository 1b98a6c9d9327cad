----------------------------- MODULE NodeParams -----------------------------
(***************************************************************************)
(* The parameter tables of node.c, the change-mask emission that announces *)
(* them to the host's listeners, and the port format negotiation:          *)
(*                                                                         *)
(*   impl_add_listener     full node and port info to the new listener only*)
(*   impl_set_param        partial node and port info to all listeners     *)
(*   impl_port_set_param   commits or clears a port format, then partial   *)
(*                         emission                                        *)
(*   impl_port_enum_params the candidates of a parameter kind (operator)   *)
(*                                                                         *)
(* Bit-sets (change masks, param flags) are sets of bit numbers.  Listeners*)
(* are the hooks of d->hooks; each keeps the parameter flags the last info *)
(* carrying the PARAMS bit told it, as PipeWire's node proxy does.         *)
(***************************************************************************)
EXTENDS Integers, Sequences, SequencesExt

CONSTANTS
  Listeners,   \* spa_hooks the host may add with add_listener
  NPorts       \* the first NPorts of the d->n_ports = MAX_PORTS ports

Ports == 0..NPorts - 1

\* SPA_PARAM_INFO_* flag bits and SPA_PARAM_* ids.
SERIAL == 0
READ == 1
WRITE == 2
PropInfo == 1
Props == 2
EnumFormat == 3
Format == 4
Buffers == 5
Meta == 6
IO == 7

\* SPA_NODE_CHANGE_MASK_PARAMS and SPA_PORT_CHANGE_MASK_PARAMS.
NODE_PARAMS == 2
PORT_PARAMS == 3

\* data.info.max_output_ports, set in main().
MaxOutputPorts == 2

\* change_mask_all and the initial port_change_mask_all (main()).
NodeMaskAll == {0, 1, NODE_PARAMS}          \* FLAGS | PROPS | PARAMS
PortMaskAllInit == {0, 2, PORT_PARAMS}       \* FLAGS | PROPS | PARAMS

\* Indexes into d->params[] and port->port_params[].
NODE_Format == 3
PORT_Format == 3
PORT_Buffers == 4
NodeIdx == 0..3
PortIdx == 0..4

\* SPA_PARAM_INFO(id, flags).
ParamInfo(id, flags) == [id |-> id, flags |-> flags, user |-> 0]

NodeParamsInit ==
  <<ParamInfo(PropInfo, {}), ParamInfo(Props, {WRITE}),
    ParamInfo(EnumFormat, {READ}), ParamInfo(Format, {WRITE})>>
PortParamsInit ==
  <<ParamInfo(EnumFormat, {READ}), ParamInfo(Meta, {READ}),
    ParamInfo(IO, {READ}), ParamInfo(Format, {WRITE}),
    ParamInfo(Buffers, {})>>

\* struct spa_audio_info_raw, each field 0 (unset) or 1 (some valid value).
Fields == {"format", "rate", "channels"}
ZeroFormat == [f \in Fields |-> 0]
Formats == [Fields -> {0, 1}]

\* A format pod handed to port_set_param: each field absent or a value.
ABSENT == -1
Payloads == [Fields -> {ABSENT, 0, 1}]

VARIABLES
  hooks,        \* listeners on d->hooks
  nodeParams,   \* d->params[]  (tuple indexed 1.. for index 0..)
  nodeMask,     \* d->info.change_mask
  portParams,   \* port->port_params[] per port
  portMask,     \* port->port_info.change_mask per port
  portMaskAll,  \* d->port_change_mask_all
  format,       \* port->format per port
  cache,        \* what each listener was last told
  infos         \* node info events each listener has received

vars == <<hooks, nodeParams, nodeMask, portParams, portMask, portMaskAll,
          format, cache, infos>>

ParamInfos(n) == [id : 1..7, flags : SUBSET {SERIAL, READ, WRITE}, user : Nat]
View(n) == [known : BOOLEAN, flags : [1..n -> SUBSET {SERIAL, READ, WRITE}]]

\* Nothing received yet.
Unknown(n) == [known |-> FALSE, flags |-> [i \in 1..n |-> {}]]

TypeOK ==
  /\ hooks \subseteq Listeners
  /\ nodeParams \in [1..4 -> ParamInfos(4)]
  /\ nodeMask \subseteq NodeMaskAll
  /\ portParams \in [Ports -> [1..5 -> ParamInfos(5)]]
  /\ portMask \in [Ports -> SUBSET PortMaskAllInit]
  /\ portMaskAll \subseteq 0..63
  /\ format \in [Ports -> Formats]
  /\ cache \in [Listeners -> [node : View(4), port : [Ports -> View(5)]]]
  /\ infos \in [Listeners -> Nat]

\* main(): the tables as set up before pw_main_loop_run.
Init ==
  /\ hooks = {}
  /\ nodeParams = NodeParamsInit
  /\ nodeMask = NodeMaskAll
  /\ portParams = [p \in Ports |-> PortParamsInit]
  /\ portMask = [p \in Ports |-> PortMaskAllInit]
  /\ portMaskAll = PortMaskAllInit
  /\ format = [p \in Ports |-> ZeroFormat]
  /\ cache = [l \in Listeners |-> [node |-> Unknown(4),
                                   port |-> [p \in Ports |-> Unknown(5)]]]
  /\ infos = [l \in Listeners |-> 0]

(***************************************************************************)
(* The body shared by emit_node_info and emit_port_info: when the mask     *)
(* carries PARAMS, toggle the serial bit of every param whose user count   *)
(* is positive and reset the count.                                        *)
(***************************************************************************)
Toggle(params, mask, paramsBit) ==
  IF paramsBit \in mask
    THEN [i \in DOMAIN params |->
            IF params[i].user > 0
              THEN [params[i] EXCEPT !.flags = SymDiff(@, {SERIAL}), !.user = 0]
              ELSE params[i]]
    ELSE params

\* A listener's view after an info with this mask and table reaches it.
Receive(view, mask, paramsBit, params) ==
  IF paramsBit \in mask
    THEN [known |-> TRUE, flags |-> [i \in DOMAIN params |-> params[i].flags]]
    ELSE view

(***************************************************************************)
(* emit_node_info(d, false); emit_port_info(d, false) on the tables np, nm,*)
(* pp, pm: each info with a non-zero mask goes to every hook, and every    *)
(* mask is left 0.                                                         *)
(***************************************************************************)
PartialEmit(np, nm, pp, pm) ==
  LET np2 == Toggle(np, nm, NODE_PARAMS)
      pp2 == [q \in Ports |-> Toggle(pp[q], pm[q], PORT_PARAMS)]
  IN
  /\ nodeParams' = np2
  /\ nodeMask' = {}
  /\ portParams' = pp2
  /\ portMask' = [q \in Ports |-> {}]
  /\ cache' = [l \in Listeners |->
                 IF l \in hooks
                   THEN [node |-> Receive(cache[l].node, nm, NODE_PARAMS, np2),
                         port |-> [q \in Ports |->
                                     Receive(cache[l].port[q], pm[q],
                                             PORT_PARAMS, pp2[q])]]
                   ELSE cache[l]]
  /\ infos' = [l \in Listeners |->
                 IF l \in hooks /\ nm # {} THEN infos[l] + 1 ELSE infos[l]]

(***************************************************************************)
(* impl_add_listener: spa_hook_list_isolate leaves the new hook alone on   *)
(* d->hooks, emit_node_info(d, true) and emit_port_info(d, true) send it   *)
(* the info with every facet (the masks are restored afterwards), and      *)
(* spa_hook_list_join puts the other hooks back.                           *)
(***************************************************************************)
AddListener(l) ==
  LET np2 == Toggle(nodeParams, NodeMaskAll, NODE_PARAMS)
      pp2 == [q \in Ports |-> Toggle(portParams[q], portMaskAll, PORT_PARAMS)]
  IN
  /\ l \notin hooks
  /\ hooks' = hooks \cup {l}
  /\ nodeParams' = np2
  /\ portParams' = pp2
  /\ cache' = [cache EXCEPT ![l] =
                 [node |-> Receive(@.node, NodeMaskAll, NODE_PARAMS, np2),
                  port |-> [q \in Ports |->
                              Receive(@.port[q], portMaskAll, PORT_PARAMS,
                                      pp2[q])]]]
  /\ infos' = [infos EXCEPT ![l] = @ + 1]
  /\ UNCHANGED <<nodeMask, portMask, portMaskAll, format>>

\* impl_set_param: logs the pod and emits; no table changes.
SetParam ==
  /\ PartialEmit(nodeParams, nodeMask, portParams, portMask)
  /\ UNCHANGED <<hooks, portMaskAll, format>>

(***************************************************************************)
(* impl_port_set_param for SPA_PARAM_Format (any other id: -ENOENT, no     *)
(* change).  spa_format_audio_raw_parse writes the fields the pod carries  *)
(* and its result is ignored.  The flags are then stored into d->params[]  *)
(* (the node's table) at PORT_Format = 3 and PORT_Buffers = 4; index 4 is  *)
(* one past the end of d->params[N_NODE_PARAMS = 4].  Where that store     *)
(* lands is undefined: with the LP64 layout of struct data it overwrites   *)
(* port_change_mask_all (with id | flags << 32) and the head of            *)
(* ports[0].format (with zeroes); `lands` chooses between that and a build *)
(* in which the store has no visible effect.                               *)
(***************************************************************************)
\* Faulty variant: the pod's fields copied whether present or not.
ParseUnchecked(old, payload) == [f \in Fields |-> payload[f]]

Parse(old, payload) ==
  [f \in Fields |-> IF payload[f] = ABSENT THEN old[f] ELSE payload[f]]

\* A spa_param_info read as the uint64_t it overlays: id (every SPA_PARAM
\* id used here is below 2^8) in the low word, flags << 32 above it.
AsMask(pi) ==
  {b \in 0..7 : (pi.id \div (2^b)) % 2 = 1} \cup {32 + f : f \in pi.flags}

\* Lines 428-449 once the format field f1 is computed: present tells
\* whether a pod was given.
CommitFormat(p, present, f1, lands) ==
  LET np1 == [nodeParams EXCEPT ![PORT_Format + 1] =
                ParamInfo(Format, IF present THEN {READ, WRITE} ELSE {WRITE})]
      pastEnd == ParamInfo(Buffers, IF present THEN {READ} ELSE {})
      f2 == [format EXCEPT ![p] = f1]
  IN
  /\ format' = IF lands THEN [f2 EXCEPT ![0] = ZeroFormat] ELSE f2
  /\ portMaskAll' = IF lands THEN AsMask(pastEnd) ELSE portMaskAll
  /\ PartialEmit(np1, nodeMask, portParams,
                 [portMask EXCEPT ![p] = {PORT_PARAMS}])
  /\ UNCHANGED hooks

\* port_set_param(Format, pod): parse the pod over the current format.
PortSetFormat(p, payload, lands) ==
  CommitFormat(p, TRUE, Parse(format[p], payload), lands)

\* port_set_param(Format, NULL): spa_zero(p->format).
PortClearFormat(p, lands) ==
  CommitFormat(p, FALSE, ZeroFormat, lands)

Next ==
  \/ \E l \in Listeners : AddListener(l)
  \/ SetParam
  \/ \E p \in Ports, x \in Payloads, lands \in BOOLEAN : PortSetFormat(p, x, lands)
  \/ \E p \in Ports, lands \in BOOLEAN : PortClearFormat(p, lands)

Spec == Init /\ [][Next]_vars

(***************************************************************************)
(* impl_port_enum_params(port, id, start, num, filter) on the current      *)
(* state.  The filter is abstracted to the set of candidate indexes for    *)
(* which spa_pod_filter succeeds.  Results carry index, next and the       *)
(* candidate; ret is 0 or -ENOENT.                                         *)
(***************************************************************************)
ENOENT == 2
KnownKinds == {EnumFormat, Format, Buffers, Meta, IO}

\* The candidates of each kind, by result.index.
Candidates(p, id) ==
  CASE id = EnumFormat -> <<"enum_format">>
    [] id = Format     -> IF format[p].format = 0 THEN <<>> ELSE <<"format">>
    [] id = Buffers    -> <<"buffers">>
    [] id = Meta       -> <<"meta_header">>
    [] id = IO         -> <<"io_buffers", "io_notify">>
    [] OTHER           -> <<>>

Result(i, c) == [index |-> i, next |-> i + 1, param |-> c]

\* Faulty variant: a candidate the filter rejects ends the enumeration.
RECURSIVE EnumLoopStopOnFilter(_, _, _, _, _, _)
EnumLoopStopOnFilter(id, cands, next, num, accept, out) ==
  IF Len(out) >= num THEN [ret |-> 0, results |-> out]
  ELSE IF id \notin KnownKinds THEN [ret |-> -ENOENT, results |-> out]
  ELSE IF next >= Len(cands) \/ next \notin accept THEN [ret |-> 0, results |-> out]
  ELSE EnumLoopStopOnFilter(id, cands, next + 1, num, accept,
                            Append(out, Result(next, cands[next + 1])))

\* The while (true) loop of lines 296-403, from result.next = next.
RECURSIVE EnumLoop(_, _, _, _, _, _)
EnumLoop(id, cands, next, num, accept, out) ==
  IF Len(out) >= num THEN [ret |-> 0, results |-> out]
  ELSE IF id \notin KnownKinds THEN [ret |-> -ENOENT, results |-> out]
  ELSE IF next >= Len(cands) THEN [ret |-> 0, results |-> out]
  ELSE IF next \notin accept
    THEN EnumLoop(id, cands, next + 1, num, accept, out)
    ELSE EnumLoop(id, cands, next + 1, num, accept,
                  Append(out, Result(next, cands[next + 1])))

PortEnumParams(p, id, start, num, accept) ==
  EnumLoop(id, Candidates(p, id), start, num, accept, <<>>)

\* impl_enum_params: every node-level enumeration fails with -ENOENT.
NodeEnumParams(id, start, num) == [ret |-> -ENOENT, results |-> <<>>]

\* spec.md 4.2: the first num candidates at index >= start that the filter
\* accepts; an unsupported kind fails with "kind not supported".
EnumReference(p, id, start, num, accept) ==
  LET c == Candidates(p, id)
      idx == SelectSeq([i \in 1..(Len(c) - start) |-> start + i - 1],
                       LAMBDA i : i \in accept)
      taken == SubSeq(idx, 1, IF num < Len(idx) THEN num ELSE Len(idx))
  IN  IF id \notin KnownKinds THEN [ret |-> -ENOENT, results |-> <<>>]
      ELSE [ret |-> 0, results |-> [j \in DOMAIN taken |->
                                      Result(taken[j], c[taken[j] + 1])]]

(***************************************************************************)
(* Properties.                                                             *)
(***************************************************************************)
Starts == 0..2
Nums == 0..3
Accepts == SUBSET (0..1)

\* For every supported kind, port_enum_params returns exactly the first num
\* candidates at index >= start that the filter accepts, each with the
\* index the host resumes from: a filtered-out candidate is skipped, not
\* taken as the end (lines 296-403 against spec.md 4.2).
EnumMatchesReference ==
  \A p \in Ports, id \in KnownKinds, start \in Starts, num \in Nums,
     acc \in Accepts :
    PortEnumParams(p, id, start, num, acc) = EnumReference(p, id, start, num, acc)

\* After every call, each listener's picture of the node is the node as it
\* declares itself: a copy of every parameter table as it is, and ports no
\* more than info.max_output_ports.  add_listener's full emission carries
\* the PARAMS facet of the node and of every port, and a change of
\* d->params[] or of a port's port_params[] is announced before the call
\* returns (spec.md 4.3: "the host observes the new capability set before
\* the next produce cycle").
ListenersSeeNode ==
  \A l \in hooks :
    /\ cache[l].node.flags = [i \in 1..4 |-> nodeParams[i].flags]
    /\ \A p \in Ports :
         IF p < MaxOutputPorts
           THEN /\ cache[l].port[p].known
                /\ cache[l].port[p].flags = [i \in 1..5 |-> portParams[p][i].flags]
           ELSE ~cache[l].port[p].known

\* Every change of a port's format shows in that port's parameter table in
\* the same call: the Format descriptor's serial bit flips, so that a host
\* caching enumerations re-reads the new format (spec.md 3 ParamDescriptor,
\* 4.1, 8), and Buffers is readable exactly when a format is committed
\* (spec.md 3, Port invariant).  emit_port_info flips the serial bit only of
\* descriptors whose user count port_set_param raised.
SerialBit(p, i) == SERIAL \in portParams[p][i + 1].flags
FormatChangeAnnounced ==
  [][\A p \in Ports :
       format'[p] # format[p] =>
         /\ SerialBit(p, PORT_Format)' # SerialBit(p, PORT_Format)
         /\ (READ \in portParams'[p][PORT_Buffers + 1].flags)
              <=> format'[p].format # 0]_vars

\* A format commit through port_set_param is exact: a complete pod becomes
\* the port's format, and a pod with a field missing or zero is rejected,
\* leaving the previous format (spec.md 3, 7(e); spec.md 8: the committed
\* format is then enumerable).
Complete(x) == \A f \in Fields : x[f] > 0
FormatCommitExact ==
  [][\A p \in Ports, x \in Payloads, lands \in BOOLEAN :
       PortSetFormat(p, x, lands) =>
         format'[p] = IF Complete(x) THEN x ELSE format[p]]_vars

\* The enumeration contract of spec.md 4.2, 6 and 8 at every state:
\*   - an unsupported kind fails with -ENOENT whatever start and num are;
\*   - a port without a committed format enumerates no buffer requirements;
\*   - every node parameter advertised as readable can be enumerated.
EnumerationContract ==
  /\ \A p \in Ports, start \in Starts, num \in Nums :
       PortEnumParams(p, PropInfo, start, num, {0}).ret = -ENOENT
  /\ \A p \in Ports :
       format[p].format = 0 => PortEnumParams(p, Buffers, 0, 1, {0}).results = <<>>
  /\ \A i \in 1..4 :
       READ \in nodeParams[i].flags => NodeEnumParams(nodeParams[i].id, 0, 1).ret = 0

=============================================================================
