\* One port_use_buffers per port, which may stop at a failed mmap or an
\* unusable descriptor.
CONSTANTS
  NPorts <- MCNPorts
  MaxBuffers <- MCMaxBuffers
  MaxUseBuffers = 1
SPECIFICATION LinkedSpec
INVARIANT PoolMatchesNBuffers
