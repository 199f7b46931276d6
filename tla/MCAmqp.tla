------------------------------- MODULE MCAmqp -------------------------------
(* Three messages: two copies of one signed body and a third of its own,     *)
(* which the reactor finds misaddressed and the consumer unsigned.  The      *)
(* first body is stamped Ahead ticks in the future of the clock, here a      *)
(* whole window: its nonce can expire while it is still fresh.               *)
EXTENDS Amqp, TLC

CONSTANTS m1, m2, m3, n1, n2, Ahead

MCNonceOf == m1 :> n1 @@ m2 :> n1 @@ m3 :> n2
MCIssuedAt == n1 :> Ahead @@ n2 :> 0
=============================================================================
