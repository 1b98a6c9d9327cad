\* Any call sequence of the method table, with two port_use_buffers per
\* port: a host that renegotiates, returns any buffer id, or drives the
\* node before or after unbinding port 0's io area.
CONSTANTS
  NPorts <- MCNPorts
  MaxBuffers <- MCMaxBuffers
  MaxUseBuffers = 2
SPECIFICATION Spec
INVARIANT MemorySound
