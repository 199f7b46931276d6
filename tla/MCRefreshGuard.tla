--------------------------- MODULE MCRefreshGuard ---------------------------
(* The guard under three interchangeable callers. *)
EXTENDS RefreshGuard, TLC

=============================================================================
