-------------------------- MODULE MCBufferManager --------------------------
(* BufferManager called by two threads, for TLC.                           *)
EXTENDS BufferManager
=============================================================================
