------------------------------ MODULE MCStores ------------------------------
(* One proof each from the past, the present and the future.                *)
EXTENDS Stores, TLC

CONSTANTS j1, j2, j3, k1, k2, k3, r1, r2, r3

MCIatOf == j1 :> 1 @@ j2 :> 2 @@ j3 :> 4
=============================================================================
