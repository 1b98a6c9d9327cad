\* A host that negotiates a format, binds port 0's buffers io area and a
\* pool, and drives the node every graph cycle.
CONSTANTS
  Listeners <- MCListeners
  NPorts <- MCNPorts
  MaxBuffers <- MCMaxBuffers
  MaxUseBuffers = 1
SPECIFICATION Spec
PROPERTY DataFlows
