----------------------------- MODULE MCSession -----------------------------
(* A Client used by one goroutine for a while, or by two at once: the second *)
(* makes one call, anywhere during the two of the first.                     *)
EXTENDS Session

CONSTANTS p1, p2

MCWorkloads ==
    {[p \in Procs |-> IF p = p1 THEN 6 ELSE 0], [p \in Procs |-> IF p = p1 THEN 2 ELSE 1]}
MCAlone == {[p \in Procs |-> IF p = p1 THEN 3 ELSE 0]}
=============================================================================
