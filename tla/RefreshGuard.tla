---------------------------- MODULE RefreshGuard ----------------------------
(***************************************************************************)
(* internal/refreshguard/guard.go under concurrent Client.Refresh calls    *)
(* (login.go:477-543), with the cookie jar and the server's side of        *)
(* POST /api/v1/auth/refresh.                                              *)
(*                                                                         *)
(* A token stands for the pair of cookies the server issues together: the  *)
(* access token and its single-use refresh token.  Tokens are numbered in  *)
(* the order the server issues them; token 1 is the one the login put in   *)
(* the jar.  net/http stores Set-Cookie as soon as the response headers    *)
(* arrive, before the body is read, so the jar may run ahead of the guard. *)
(*                                                                         *)
(* MuUnlocked, NeverHit, GiveUpLocked and StoreStale are faulty variants   *)
(* of the definition that follows each of them; Next uses none. They show  *)
(* that the properties can fail.                                           *)
(***************************************************************************)
EXTENDS Naturals, FiniteSets

CONSTANTS
    Callers,      \* goroutines that call Client.Refresh on one Client
    NoCaller,     \* "nobody holds mu"
    MaxToken,     \* bound on the tokens the server issues
    Faults        \* which answers other than a clean 200 a run admits

ASSUME CallersAssumption == NoCaller \notin Callers
ASSUME BoundAssumption == MaxToken \in Nat \ {0}
ASSUME FaultsAssumption == Faults \subseteq {"refused", "badBody", "lostReply"}

VARIABLES
    jar,          \* the token in the cookie jar
    issued,       \* the last token the server issued
    spent,        \* tokens whose refresh half the server has consumed
    lost,         \* tokens consumed by a refresh whose reply never arrived
    torn,         \* the jar's token came with a body that did not decode
    guard,        \* Guard.hasAny and Guard.access
    holder,       \* who holds Guard.mu
    pc,           \* where each caller is
    observed,     \* the access cookie read at login.go:483
    sent          \* the refresh cookie carried by the caller's POST

vars == <<jar, issued, spent, lost, torn, guard, holder, pc, observed, sent>>

Tokens == 1 .. MaxToken

Init ==
    /\ jar = 1 /\ issued = 1
    /\ spent = {} /\ lost = {} /\ torn = FALSE
    /\ guard \in {[hasAny |-> TRUE,  access |-> 1],   \* seeded by a login
                  [hasAny |-> FALSE, access |-> 0]}   \* a Guard just swapped in
    /\ holder = NoCaller
    /\ pc = [p \in Callers |-> "idle"]
    /\ observed = [p \in Callers |-> 1]
    /\ sent = [p \in Callers |-> 0]

Idle(p) == pc[p] \in {"idle", "refreshed", "cached", "failed"}

Goto(p, label) == pc' = [pc EXCEPT ![p] = label]

-----------------------------------------------------------------------------
\* Client.Refresh up to the call of RefreshIfNeeded: the access cookie is read
\* with no lock held, and may be stale by the time mu is acquired.
Begin(p) ==
    /\ Idle(p)
    /\ observed' = [observed EXCEPT ![p] = jar]
    /\ Goto(p, "locking")
    /\ UNCHANGED <<jar, issued, spent, lost, torn, guard, holder, sent>>

\* Guard.mu can be acquired.
MuUnlocked == TRUE
MuFree == holder = NoCaller

\* The double-check of RefreshIfNeeded: the cached token is not the observed one.
NeverHit(p) == FALSE
CacheHit(p) == guard.hasAny /\ guard.access # observed[p]

\* mu acquired, double-check hits, mu released: nothing goes on the wire.
ReturnCached(p) ==
    /\ pc[p] = "locking"
    /\ MuFree
    /\ CacheHit(p)
    /\ Goto(p, "cached")
    /\ UNCHANGED <<jar, issued, spent, lost, torn, guard, holder, observed, sent>>

\* mu acquired and kept; doRefresh sends the POST with the jar's refresh cookie.
SendRefresh(p) ==
    /\ pc[p] = "locking"
    /\ MuFree
    /\ ~CacheHit(p)
    /\ holder' = p
    /\ sent' = [sent EXCEPT ![p] = jar]
    /\ Goto(p, "wire")
    /\ UNCHANGED <<jar, issued, spent, lost, torn, guard, observed>>

GiveUpLocked(p) == UNCHANGED holder /\ Goto(p, "failed")
\* doRefresh returned an error: propagated as it is, mu released, no retry.
GiveUp(p) ==
    /\ holder' = NoCaller
    /\ Goto(p, "failed")

\* The server consumes the presented refresh token and issues the next pair.
Rotates(p) ==
    /\ sent[p] \notin spent
    /\ issued < MaxToken
    /\ issued' = issued + 1
    /\ spent' = spent \cup {sent[p]}

\* 200 and a body that decodes.  The jar has the new cookies.
Answered(p) ==
    /\ pc[p] = "wire"
    /\ Rotates(p)
    /\ jar' = issued + 1 /\ torn' = FALSE
    /\ Goto(p, "storing")
    /\ UNCHANGED <<lost, guard, holder, observed, sent>>

\* 200 whose body does not decode (login.go:522-524): the jar has the new
\* cookies all the same, the guard keeps what it had.
AnsweredBadBody(p) ==
    /\ pc[p] = "wire"
    /\ "badBody" \in Faults
    /\ Rotates(p)
    /\ jar' = issued + 1 /\ torn' = TRUE
    /\ GiveUp(p)
    /\ UNCHANGED <<lost, guard, observed, sent>>

\* The server rotated, the reply was lost on the way (sender.Do's error).
ReplyLost(p) ==
    /\ pc[p] = "wire"
    /\ "lostReply" \in Faults
    /\ Rotates(p)
    /\ lost' = lost \cup {sent[p]}
    /\ GiveUp(p)
    /\ UNCHANGED <<jar, torn, guard, observed, sent>>

\* Any non-200: the server may refuse at will, must refuse a consumed token,
\* and stops issuing at the model's bound.
Refused(p) ==
    /\ pc[p] = "wire"
    /\ "refused" \in Faults \/ sent[p] \in spent \/ issued = MaxToken
    /\ GiveUp(p)
    /\ UNCHANGED <<jar, issued, spent, lost, torn, guard, observed, sent>>

StoreStale(p) ==
    /\ pc[p] = "storing" /\ guard' = [hasAny |-> TRUE, access |-> sent[p]]
    /\ holder' = NoCaller /\ Goto(p, "refreshed")
    /\ UNCHANGED <<jar, issued, spent, lost, torn, observed, sent>>

\* The new access cookie is read back from the jar and stored; mu is released.
Store(p) ==
    /\ pc[p] = "storing"
    /\ guard' = [hasAny |-> TRUE, access |-> jar]
    /\ holder' = NoCaller
    /\ Goto(p, "refreshed")
    /\ UNCHANGED <<jar, issued, spent, lost, torn, observed, sent>>

Next ==
    \E p \in Callers :
        \/ Begin(p)
        \/ ReturnCached(p)
        \/ SendRefresh(p)
        \/ Answered(p)
        \/ AnsweredBadBody(p)
        \/ ReplyLost(p)
        \/ Refused(p)
        \/ Store(p)

Spec == Init /\ [][Next]_vars

\* The server answers or the transport fails (http.Client.Timeout), and the
\* lock is fair between waiters (sync.Mutex's starvation mode).
Fairness ==
    \A p \in Callers :
        /\ SF_vars(ReturnCached(p) \/ SendRefresh(p))
        /\ WF_vars(Answered(p) \/ AnsweredBadBody(p) \/ ReplyLost(p) \/ Refused(p))
        /\ WF_vars(Store(p))

FairSpec == Spec /\ Fairness

-----------------------------------------------------------------------------
TypeOK ==
    /\ jar \in Tokens /\ issued \in Tokens
    /\ spent \subseteq Tokens /\ lost \subseteq Tokens /\ torn \in BOOLEAN
    /\ guard \in [hasAny : BOOLEAN, access : 0 .. MaxToken]
    /\ holder \in Callers \cup {NoCaller}
    /\ pc \in [Callers -> {"idle", "locking", "wire", "storing",
                           "refreshed", "cached", "failed"}]
    /\ observed \in [Callers -> Tokens]
    /\ sent \in [Callers -> 0 .. MaxToken]

\* At most one refresh request is between its sending and the update of the
\* guard, whatever the number of callers (guard.go:1-5).
OneInFlight ==
    \A p, q \in Callers :
        pc[p] \in {"wire", "storing"} /\ pc[q] \in {"wire", "storing"} => p = q

\* No request presents a refresh token the server has already consumed, unless
\* the reply that would have replaced it was lost: what the lock is held
\* across the wire call for (guard.go:52-58).
NoReplay ==
    \A p \in Callers : pc[p] = "wire" /\ sent[p] \in spent => sent[p] \in lost

\* What the lock is for, in one formula.
GuardIsSafe == TypeOK /\ OneInFlight /\ NoReplay

\* A Refresh that reports success leaves the session on another token than the
\* one its caller had observed (guard.go:55-58: "another goroutine already
\* refreshed while this caller waited").
SuccessAlwaysRotates ==
    \A p \in Callers : pc[p] \in {"refreshed", "cached"} => jar # observed[p]

\* ... unless that token came with a 200 whose body did not decode, which
\* leaves the jar ahead of the guard until the next rotation.
SuccessMeansRotated == torn \/ SuccessAlwaysRotates

\* Every call of Refresh returns.
RefreshReturns == \A p \in Callers : pc[p] = "locking" ~> Idle(p)

\* The refinement: to its callers the guard is a compare-and-rotate register
\* (guard.go:48-62), torn by an undecodable 200.
Rotation == INSTANCE TokenRotation WITH
    current <- jar,
    seen    <- observed,
    torn    <- torn,
    phase   <- [p \in Callers |->
                  CASE pc[p] = "idle" -> "idle"
                    [] pc[p] \in {"locking", "wire"} -> "waiting"
                    [] pc[p] \in {"storing", "refreshed", "cached"} -> "refreshed"
                    [] pc[p] = "failed" -> "failed"]

AtomicRotation == Rotation!ASpec
=============================================================================
