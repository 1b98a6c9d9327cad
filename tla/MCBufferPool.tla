---------------------------- MODULE MCBufferPool ----------------------------
(***************************************************************************)
(* BufferPool instantiated for TLC: two ports (port 0, the only one        *)
(* process serves, and port 1), pools of two buffers so that FIFO order    *)
(* and double linking can be observed, and use_buffers descriptor lists of *)
(* up to three entries so that the -ENOSPC path is taken.                  *)
(***************************************************************************)
EXTENDS BufferPool

MCNPorts == 2
MCMaxBuffers == 2

=============================================================================
