----------------------------- MODULE MCDxsClient -----------------------------
(* DxsClient for TLC. *)
EXTENDS DxsClient, TLC

Symmetry == Permutations(Threads)

(* For the safety run: the threads accept two connections, or they have up *)
(* to two operations under way, but not both in one behaviour.             *)
Apart == nextOp' > 1 => nextSock' <= 2 /\ dxs'.connections <= 1
=============================================================================
