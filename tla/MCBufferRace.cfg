\* One port_use_buffers of two usable descriptors while the graph runs.
CONSTANT MaxBuffers = 2
SPECIFICATION Spec
INVARIANT PoolIntactAtRest
