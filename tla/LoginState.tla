----------------------------- MODULE LoginState -----------------------------
(***************************************************************************)
(* The login and callback handlers (middleware/oidc_login.go) over a       *)
(* MemoryOidcStateStore (oidc_state.go).  A browser starts a login, the    *)
(* identity provider sends it back with a code, and the callback may come  *)
(* late, twice, or twice at once.                                          *)
(*                                                                         *)
(* The provider is external: a code is redeemed once.  An entry with       *)
(* expiry 0 is absent; time starts at 1.                                   *)
(*                                                                         *)
(* Peek and Unexpired are faulty variants.                                 *)
(***************************************************************************)
EXTENDS Naturals, FiniteSets

CONSTANTS
    Handlers,  \* goroutines that serve callbacks
    States,    \* the state values that logins draw
    TTL,       \* of the store
    MaxTime    \* bound on the clock

\* What the constants must be; the composition assumes it.
LoginConstants == TTL \in Nat \ {0} /\ MaxTime \in Nat \ {0}

VARIABLES
    now,
    held,      \* the expiry of each state's entry, 0 for none
    at,        \* the state whose code a handler is exchanging, or free
    startedAt, \* history: when the login of each state began, 0 for never
    entered,   \* history: how many callbacks of each state got past the store
    refused    \* history: states a callback was refused for

vars == <<now, held, at, startedAt, entered, refused>>

Free == "free"

LInit ==
    /\ now = 1
    /\ held = [s \in States |-> 0]
    /\ at = [h \in Handlers |-> Free]
    /\ startedAt = [s \in States |-> 0]
    /\ entered = [s \in States |-> 0] /\ refused = {}

LTick ==
    /\ now < MaxTime
    /\ now' = now + 1
    /\ UNCHANGED <<held, at, startedAt, entered, refused>>

\* sweepLocked: what has expired goes.
Swept(s) == IF now > held[s] THEN 0 ELSE held[s]

\* OidcLoginHandler, with a state that was never used.
Login(s) ==
    /\ startedAt[s] = 0
    /\ held' = [t \in States |-> IF t = s THEN now + TTL ELSE Swept(t)]
    /\ startedAt' = [startedAt EXCEPT ![s] = now]
    /\ UNCHANGED <<now, at, entered, refused>>

\* Consume: the entry goes, expired or not, and only then is looked at.
Peek(s) == held
Consumed(s) == [held EXCEPT ![s] = 0]

Unexpired(s) == held[s] # 0
Usable(s) == held[s] # 0 /\ now <= held[s]

\* OidcCallbackHandler, up to the request that redeems the code.
Callback(h, s) ==
    /\ at[h] = Free
    /\ startedAt[s] # 0
    /\ held' = Consumed(s)
    /\ IF Usable(s)
       THEN /\ at' = [at EXCEPT ![h] = s]
            /\ entered' = [entered EXCEPT ![s] = @ + 1]
            /\ UNCHANGED refused
       ELSE refused' = refused \union {s} /\ UNCHANGED <<at, entered>>
    /\ UNCHANGED <<now, startedAt>>

\* The exchange ends, in tokens or not; the entry is gone either way.
Exchanged(h) ==
    /\ at[h] # Free
    /\ at' = [at EXCEPT ![h] = Free]
    /\ UNCHANGED <<now, held, startedAt, entered, refused>>

LNext ==
    \/ LTick
    \/ \E s \in States : Login(s)
    \/ \E h \in Handlers, s \in States : Callback(h, s)
    \/ \E h \in Handlers : Exchanged(h)

LSpec == LInit /\ [][LNext]_vars

-----------------------------------------------------------------------------
TypeOK ==
    /\ now \in 1 .. MaxTime
    /\ held \in [States -> 0 .. MaxTime + TTL]
    /\ at \in [Handlers -> States \union {Free}]
    /\ startedAt \in [States -> 0 .. MaxTime]
    /\ entered \in [States -> Nat] /\ refused \subseteq States

\* However often a callback is delivered, one of them gets to redeem the code.
OneCallback == \A s \in States : entered[s] <= 1

\* A callback gets past the store within the TTL of its login.
InTime == \A s \in States : (entered[s] = 0 /\ entered'[s] = 1) => now <= startedAt[s] + TTL

\* A callback is refused only if it is late, or is not the first.
FirstInTimeServed ==
    \A s \in States : (s \notin refused /\ s \in refused') =>
        entered[s] = 1 \/ now > startedAt[s] + TTL
=============================================================================
