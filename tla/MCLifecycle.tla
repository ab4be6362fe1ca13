----------------------------- MODULE MCLifecycle -----------------------------
(* A small instance of Lifecycle for TLC: one process is started again. *)
EXTENDS Lifecycle

CONSTANTS p1, p2

MCMaxStarts == [p \in Processes |-> IF p = p1 THEN 2 ELSE 1]
=============================================================================
