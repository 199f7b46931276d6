---------------------------- MODULE MCOidcFlights ----------------------------
(* A burst of refreshes with one refresh token; some bring a configuration.  *)
EXTENDS OidcFlights, TLC

CONSTANT t1

SameToken == [p \in Callers |-> t1]
=============================================================================
