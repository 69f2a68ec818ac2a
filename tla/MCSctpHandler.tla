--------------------------- MODULE MCSctpHandler ---------------------------
(***************************************************************************)
(* SctpHandler with two polling threads and four messages: enough for a    *)
(* batch of two behind a thread that is delivering, and for the role to    *)
(* pass between the handler thread and each poller.                        *)
(***************************************************************************)
EXTENDS SctpHandler
=============================================================================
