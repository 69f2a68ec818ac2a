----------------------------- MODULE MCSpscQueue -----------------------------
(* Small instances of SpscQueue: a ring of two alignment units, counters    *)
(* that wrap after two rounds, messages of one and of two units.            *)
EXTENDS SpscQueue
=============================================================================
