------------------------------ MODULE MCProber ------------------------------
(* Prober for TLC.  The probes of one connection do not depend on those of *)
(* another: the first connection is probed, the others only come and go.   *)
EXTENDS Prober

MCMaxProbes == [c \in 1 .. MaxConns |-> IF c = 1 THEN 2 ELSE 0]
=============================================================================
