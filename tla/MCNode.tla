------------------------------- MODULE MCNode -------------------------------
(***************************************************************************)
(* Node instantiated for TLC: no listeners (no property here reads what    *)
(* they are told), the one port process serves, and a pool of two buffers. *)
(***************************************************************************)
EXTENDS Node

MCListeners == {}
MCNPorts == 1
MCMaxBuffers == 2

=============================================================================
