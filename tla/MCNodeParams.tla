---------------------------- MODULE MCNodeParams ----------------------------
(***************************************************************************)
(* NodeParams instantiated for TLC: two listeners (one added before and    *)
(* one after a format commit can be told apart) and two ports (port 0,     *)
(* whose format the past-the-end store overwrites, and another).           *)
(***************************************************************************)
EXTENDS NodeParams, TLC

CONSTANTS l1, l2

MCListeners == {l1, l2}
MCNPorts == 2

\* d->n_ports is MAX_PORTS = 16; three ports reach past max_output_ports = 2.
MCNPortsAll == 3

\* Listeners are interchangeable hooks.
ListenerSymmetry == Permutations(MCListeners)

=============================================================================
