---------------------------- MODULE MCLlcmHandler ----------------------------
(***************************************************************************)
(* LlcmHandler with rings of two messages and four sends: the overflow     *)
(* grows to more than one message, and PONGs join it from a poll while     *)
(* another thread waits to send.                                           *)
(***************************************************************************)
EXTENDS LlcmHandler
=============================================================================
