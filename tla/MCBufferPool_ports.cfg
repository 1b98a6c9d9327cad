\* Two linked ports with buffers, driven by the graph.
CONSTANTS
  NPorts <- MCNPorts
  MaxBuffers <- MCMaxBuffers
  MaxUseBuffers = 1
SPECIFICATION LinkedSpec
PROPERTY EveryPortCycles
