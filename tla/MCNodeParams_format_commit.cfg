CONSTANTS
  l1 = l1
  l2 = l2
  Listeners <- MCListeners
  NPorts <- MCNPorts
SYMMETRY ListenerSymmetry
SPECIFICATION Spec
PROPERTY FormatCommitExact
