--------------------------- MODULE TokenRotation ---------------------------
(***************************************************************************)
(* What a caller of Client.Refresh is promised, with the mutex, the wire   *)
(* and the cache of the guard left out: a compare-and-rotate register.     *)
(* A caller notes the session's current access token and later either      *)
(* rotates it (only if it is still the one it noted), learns that somebody *)
(* else already rotated it, or is told of a failure.  The doc comment of   *)
(* RefreshIfNeeded (internal/refreshguard/guard.go:48-62) is this          *)
(* specification in prose, but for one thing: a rotation whose answer does *)
(* not decode leaves a torn token, for which the comparison is void until  *)
(* the next rotation.                                                      *)
(***************************************************************************)
EXTENDS Naturals

CONSTANT Callers      \* goroutines that call Client.Refresh

VARIABLES
    current,          \* the access token of the session
    seen,             \* the token each caller noted when it called
    phase,            \* "idle", "waiting", "refreshed" or "failed"
    torn              \* the current token came with an answer nobody could read

avars == <<current, seen, phase, torn>>

AInit ==
    /\ current = 1
    /\ seen = [p \in Callers |-> 1]
    /\ phase = [p \in Callers |-> "idle"]
    /\ torn = FALSE

\* A caller notes the token it wants replaced.
Observe(p) ==
    /\ phase[p] # "waiting"
    /\ seen' = [seen EXCEPT ![p] = current]
    /\ phase' = [phase EXCEPT ![p] = "waiting"]
    /\ UNCHANGED <<current, torn>>

\* The token is replaced on behalf of a caller that noted this very token:
\* unless it is torn, no token is ever replaced for a caller that noted another.
Rotate(p) ==
    /\ phase[p] = "waiting"
    /\ seen[p] = current \/ torn
    /\ current' = current + 1
    /\ phase' = [phase EXCEPT ![p] = "refreshed"]
    /\ torn' = FALSE
    /\ UNCHANGED seen

\* The token is replaced and the caller is told of a failure.
Tear(p) ==
    /\ phase[p] = "waiting"
    /\ seen[p] = current \/ torn
    /\ current' = current + 1
    /\ phase' = [phase EXCEPT ![p] = "failed"]
    /\ torn' = TRUE
    /\ UNCHANGED seen

\* Success without a request: the token noted has been replaced meanwhile.
CatchUp(p) ==
    /\ phase[p] = "waiting"
    /\ seen[p] # current \/ torn
    /\ phase' = [phase EXCEPT ![p] = "refreshed"]
    /\ UNCHANGED <<current, seen, torn>>

Fail(p) ==
    /\ phase[p] = "waiting"
    /\ phase' = [phase EXCEPT ![p] = "failed"]
    /\ UNCHANGED <<current, seen, torn>>

ANext == \E p \in Callers : Observe(p) \/ Rotate(p) \/ Tear(p) \/ CatchUp(p) \/ Fail(p)

ASpec == AInit /\ [][ANext]_avars
=============================================================================
