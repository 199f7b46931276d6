---------------------------- MODULE SingleFlight ----------------------------
(***************************************************************************)
(* What the comments of oidc.go ask of both of its single-flight guards    *)
(* (oidc.go:256-287, 521-550): one flight at a time is in the air, a       *)
(* caller boards the one in the air or the last to have landed, or starts  *)
(* the next when none is in the air, and leaves with the outcome of the    *)
(* flight it boarded, never before that flight has landed.                 *)
(***************************************************************************)
EXTENDS Naturals, Sequences

CONSTANT Callers

VARIABLES
    outcomes,     \* of every flight begun: "air", "ok" or "failed"
    aboard,       \* the flight each caller is on, or 0
    got           \* what each caller left its last flight with, or "nothing"

fvars == <<outcomes, aboard, got>>

FInit ==
    /\ outcomes = <<>>
    /\ aboard = [p \in Callers |-> 0]
    /\ got = [p \in Callers |-> "nothing"]

Last == Len(outcomes)

InTheAir == Last # 0 /\ outcomes[Last] = "air"

Embark(p, f) ==
    /\ aboard[p] = 0
    /\ aboard' = [aboard EXCEPT ![p] = f]
    /\ got' = [got EXCEPT ![p] = "nothing"]

Board(p) == Last # 0 /\ Embark(p, Last) /\ UNCHANGED outcomes

TakeOff(p) == ~InTheAir /\ Embark(p, Last + 1) /\ outcomes' = Append(outcomes, "air")

Touch(how) == InTheAir /\ outcomes' = [outcomes EXCEPT ![Last] = how] /\ UNCHANGED <<aboard, got>>

Leave(p) ==
    /\ aboard[p] # 0
    /\ outcomes[aboard[p]] # "air"
    /\ got' = [got EXCEPT ![p] = outcomes[aboard[p]]]
    /\ aboard' = [aboard EXCEPT ![p] = 0]
    /\ UNCHANGED outcomes

\* A caller forgets what it was given, or is served without a flight.
Forget(p) == aboard[p] = 0 /\ got' = [got EXCEPT ![p] = "nothing"] /\ UNCHANGED <<outcomes, aboard>>

FNext ==
    \/ \E p \in Callers : Board(p) \/ TakeOff(p) \/ Leave(p) \/ Forget(p)
    \/ \E how \in {"ok", "failed"} : Touch(how)

FSpec == FInit /\ [][FNext]_fvars
=============================================================================
