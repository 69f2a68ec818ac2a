----------------------------- MODULE MCNcclComm ----------------------------
(* NcclComm with two flows, for TLC.                                       *)
EXTENDS NcclComm
=============================================================================
