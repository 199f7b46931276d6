--------------------------- MODULE MCSsfReceiver ---------------------------
(* Two goroutines that poll or verify; one SET under the key known at the    *)
(* start and one under a key the transmitter may publish at any time, plus a *)
(* malformed and an unsound one when the configuration adds them.            *)
EXTENDS SsfReceiver, TLC

CONSTANTS c1, c2, k1, k2

MCKidOf == [s \in Sets |-> IF s = 2 THEN k2 ELSE k1]
=============================================================================
