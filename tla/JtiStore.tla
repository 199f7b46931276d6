------------------------------ MODULE JtiStore ------------------------------
(***************************************************************************)
(* The single use of a DPoP proof (internal/dpop/dpop.go): goroutines that *)
(* run VerifyProof share an InMemoryJtiStore.  A proof is checked for      *)
(* freshness, then for everything else, and last of all claims its jti.    *)
(* Claim reads the clock again, and then waits for the lock.               *)
(*                                                                         *)
(* A proof is identified by its jti, and several presentations of a jti    *)
(* may differ in whether they verify: a sound one passes checks 1 to 6, 9  *)
(* and 10.  An entry with expiry 0 is absent; time starts at 1.            *)
(*                                                                         *)
(* ExpiryFromNow and NeverPrune are faulty variants.                       *)
(***************************************************************************)
EXTENDS Naturals, FiniteSets

CONSTANTS
    Verifiers,   \* goroutines
    Jtis,
    IatOf,       \* the iat of the proof with each jti
    Leeway,
    PruneAbove,  \* the store prunes when it holds more than this
    MaxTime      \* bound on the clock

\* What the constants must be; the composition assumes it.
JtiConstants ==
    /\ IsFiniteSet(Jtis) /\ IatOf \in [Jtis -> Nat]
    /\ Leeway \in Nat \ {0} /\ PruneAbove \in Nat /\ MaxTime \in Nat \ {0}

VARIABLES
    now,
    seen,      \* the expiry the store holds for each jti, 0 for none
    at,        \* the jti each verifier is about to claim, and the clock it read, 0 before it does
    accepted,  \* history: the jtis of proofs accepted so far
    proven     \* history: the jtis of which a sound proof was presented

vars == <<now, seen, at, accepted, proven>>

Free == [jti |-> "none", clock |-> 0]

JInit ==
    /\ now = 1
    /\ seen = [j \in Jtis |-> 0]
    /\ at = [v \in Verifiers |-> Free]
    /\ accepted = {} /\ proven = {}

JTick ==
    /\ now < MaxTime
    /\ now' = now + 1
    /\ UNCHANGED <<seen, at, accepted, proven>>

\* Check 7, the bounds included: the proof is neither older nor newer than the leeway.
Fresh(j) == now <= IatOf[j] + Leeway /\ IatOf[j] <= now + Leeway

\* The claim comes after every other check.
MayClaim(sound) == sound

VerifyProof(v, j, sound) ==
    /\ at[v] = Free
    /\ Fresh(j)
    /\ at' = IF MayClaim(sound) THEN [at EXCEPT ![v] = [jti |-> j, clock |-> 0]] ELSE at
    /\ proven' = IF sound THEN proven \union {j} ELSE proven
    /\ UNCHANGED <<now, seen, accepted>>

\* The clock that Claim goes by is read outside the lock.
ReadClock(v) ==
    /\ at[v] # Free /\ at[v].clock = 0
    /\ at' = [at EXCEPT ![v].clock = now]
    /\ UNCHANGED <<now, seen, accepted, proven>>

Held(store) == {j \in Jtis : store[j] # 0}
NeverPrune(clock) == seen
Pruned(clock) ==
    IF Cardinality(Held(seen)) > PruneAbove
    THEN [j \in Jtis |-> IF seen[j] > clock THEN seen[j] ELSE 0]
    ELSE seen

ExpiryFromNow(j) == now + Leeway
Expiry(j) == IatOf[j] + Leeway

Claim(v) ==
    /\ at[v].clock # 0
    /\ LET j == at[v].jti
           store == Pruned(at[v].clock)
           first == store[j] <= at[v].clock
       IN /\ seen' = IF first THEN [store EXCEPT ![j] = Expiry(j)] ELSE store
          /\ accepted' = IF first THEN accepted \union {j} ELSE accepted
    /\ at' = [at EXCEPT ![v] = Free]
    /\ UNCHANGED <<now, proven>>

JNext ==
    \/ JTick
    \/ \E v \in Verifiers, j \in Jtis, sound \in BOOLEAN : VerifyProof(v, j, sound)
    \/ \E v \in Verifiers : ReadClock(v) \/ Claim(v)

JSpec == JInit /\ [][JNext]_vars

-----------------------------------------------------------------------------
TypeOK ==
    /\ now \in 1 .. MaxTime
    /\ seen \in [Jtis -> Nat]
    /\ at \in [Verifiers -> {Free} \union [jti : Jtis, clock : 0 .. MaxTime]]
    /\ accepted \subseteq Jtis /\ proven \subseteq Jtis

\* The last instant at which a proof is fresh is the one at which its claim ends.
LastInstant(j) == now = Expiry(j)

\* A jti that was accepted stays claimed as long as its proof is not too old, except at the
\* last instant of that: there the check of the age, bounds included, still lets the proof
\* through (dpop.go:377) and the store, bounds excluded, no longer knows it (dpop.go:118).
ClaimHolds == \A j \in accepted : now <= IatOf[j] + Leeway => seen[j] > now \/ LastInstant(j)

\* Nothing is burnt: the store knows no jti but of a proof that verified.
NotBurnt == \A j \in Held(seen) : j \in proven

\* A claim leaves no more in the store than what was fresh when it read the clock, and what did
\* not yet call for pruning.
Bounded ==
    \A v \in Verifiers : at[v].clock # 0 /\ at'[v] = Free =>
        Cardinality(Held(seen')) <=
            PruneAbove + 1 + Cardinality({j \in Held(seen) : seen[j] > at[v].clock})
=============================================================================
