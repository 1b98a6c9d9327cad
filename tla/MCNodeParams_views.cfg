\* Listeners added before and after format commits and set_param calls, on
\* three of the node's sixteen ports (one beyond info.max_output_ports).
CONSTANTS
  l1 = l1
  l2 = l2
  Listeners <- MCListeners
  NPorts <- MCNPortsAll
SYMMETRY ListenerSymmetry
SPECIFICATION Spec
INVARIANT ListenersSeeNode
