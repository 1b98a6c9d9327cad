\* A host that links port 0, negotiates buffers once per port and drives
\* the graph: the free lists stay intact FIFO rings.
CONSTANTS
  NPorts <- MCNPorts
  MaxBuffers <- MCMaxBuffers
  MaxUseBuffers = 1
SPECIFICATION LinkedSpec
INVARIANT TypeOK
INVARIANT FreeListIntact
PROPERTY FreeQueueRefined
PROPERTY EveryBufferCycles
