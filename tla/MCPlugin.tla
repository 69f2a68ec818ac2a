----------------------------- MODULE MCPlugin ------------------------------
(* Plugin for TLC: two GPUs that share a NIC, and a second NIC.            *)
EXTENDS Plugin, TLC

CONSTANTS g1, g2, n1, n2

MCClosest == g1 :> n1 @@ g2 :> n1

(* Memory and calls have no variable in common, except that the process    *)
(* ends, so their interleavings are left out: the run explores the calls   *)
(* while no memory is registered, and memory from the states where every   *)
(* thread has a connection of the NIC and nothing has failed yet.          *)
Separately ==
  \/ UNCHANGED mrVars /\ MrInit
  \/ process' # "up"
  \/ /\ UNCHANGED threadVars /\ failures = 0
     /\ \A t \in Threads : pc[t] = "idle" /\ comm[t] # None /\ comm[t].nic = CacheNic
=============================================================================
