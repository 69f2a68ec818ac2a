-------------------------- MODULE MCGpuMemImporter -------------------------
(* GpuMemImporter with a handful of clients and buffers, for TLC.          *)
EXTENDS GpuMemImporter

\* For the liveness run: the daemon is in its loop when the clients come and
\* stops when the last client has left, not on a signal; no process connects
\* once a buffer was registered; and the association with DXS is lost, if at all,
\* while the event thread waits for the ack of a registration (what it sends
\* later then fails).  Only steps of the environment are left out, none that a
\* fairness condition is about.
Early ==
  /\ manager = "starting" => manager' = "running"
  /\ \A p \in Clients : conn'[p] = "connecting" => conn[p] = "connecting" \/ (nextReq = 1 /\ ~shouldStop)
  /\ linkUp' = linkUp \/ call[server].step = "regWait"
  /\ shouldStop' = shouldStop \/ connectedClients' # connectedClients

EarlySpec ==
  /\ Init /\ [][Next /\ Early]_vars
  /\ Fairness
=============================================================================
