\* One port_use_buffers of two usable descriptors under a host that keeps
\* it apart from the graph cycles.
CONSTANT MaxBuffers = 3
SPECIFICATION SerialSpec
INVARIANT PoolIntactAtRest
PROPERTY RaceFreeQueueRefined
