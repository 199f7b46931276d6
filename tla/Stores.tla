------------------------------- MODULE Stores -------------------------------
(***************************************************************************)
(* What a process of the SDK keeps or waits for, each for a while: the     *)
(* revocation feed, the decision memo, the jtis of DPoP proofs, the states *)
(* of OIDC logins, a grant decided elsewhere, the answers to requests that *)
(* must not be repeated, and the order of the resources it creates.  They  *)
(* share the clock, and none reads another's state: a behavior exercises   *)
(* one of them, the others at rest in their first state.                   *)
(***************************************************************************)
EXTENDS RevocationFeed, Sequences, FiniteSets

CONSTANTS
    Keys, Disputed, MemoTTL, MaxEntries, MaxFlight, MemoTime,   \* DecisionMemo
    Jtis, IatOf, Leeway, PruneAbove, JtiTime,                   \* JtiStore
    States, StateTTL, LoginTime,                                \* LoginState
    Expiries, Intervals, DefaultInterval, Increment,            \* GrantPolling
    RetryAfters, MaxTrip, MaxAttempts, BaseDelay, MaxDelay,
    MaxCalls,                                                   \* RemoteWrites
    ResourceKeys, NoParent, MaxResources                        \* ResourceOrder

VARIABLES
    focus,
    truth, changedAt, memoized, order, ask,
    seen, claiming, accepted, proven,
    held, exchanging, startedAt, entered, refused,
    kind, deadline, interval, floor, remaining, phase, attempt, advice, outcome, readyAt, granted,
    reg, token, copy, sent, late, calls, write,
    declared, stage, index, parents, cursor, chain, sorted, verdict

Memo == INSTANCE DecisionMemo WITH
    Askers <- Callers, TTL <- MemoTTL, MaxTime <- MemoTime, entries <- memoized
Jti == INSTANCE JtiStore WITH
    Verifiers <- Callers, MaxTime <- JtiTime, at <- claiming
Login == INSTANCE LoginState WITH
    Handlers <- Callers, TTL <- StateTTL, MaxTime <- LoginTime, at <- exchanging
Poll == INSTANCE GrantPolling
Remote == INSTANCE RemoteWrites WITH Writers <- Callers
Order == INSTANCE ResourceOrder

ASSUME StoresConstants ==
    /\ Memo!MemoConstants /\ Jti!JtiConstants /\ Login!LoginConstants
    /\ Poll!PollingConstants /\ Remote!RemoteConstants /\ Order!OrderConstants

memo == <<truth, changedAt, memoized, order, ask>>
jtis == <<seen, claiming, accepted, proven>>
logins == <<held, exchanging, startedAt, entered, refused>>
feed == <<revoked, entries, lastAttempt, fetchMu, pc, direct, began, doc, started, attempted, failed>>
grants == <<kind, deadline, interval, floor, remaining, phase, attempt, advice, outcome,
            readyAt, granted>>
remotes == <<reg, token, copy, sent, late, calls, write>>
manifest == <<declared, stage, index, parents, cursor, chain, sorted, verdict>>
stores == <<focus, now, memo, jtis, logins, feed, grants, remotes, manifest>>

StoresInit ==
    /\ focus \in {"feed", "memo", "jti", "login", "poll", "remote", "manifest"}
    /\ Init /\ Memo!MInit /\ Jti!JInit /\ Login!LInit /\ Remote!WInit
    /\ Poll!PInit /\ (focus # "poll" => <<kind, deadline, interval>> = Poll!SomeGrant)
    /\ Order!OInit /\ (focus # "manifest" => declared = <<>>)

FeedRests == UNCHANGED <<focus, memo, jtis, logins, grants, remotes, manifest>>

FeedStep == focus = "feed" /\ Next /\ FeedRests
MemoStep == focus = "memo" /\ Memo!MNext /\ UNCHANGED <<focus, feed, jtis, logins, grants, remotes, manifest>>
JtiStep == focus = "jti" /\ Jti!JNext /\ UNCHANGED <<focus, feed, memo, logins, grants, remotes, manifest>>
LoginStep == focus = "login" /\ Login!LNext /\ UNCHANGED <<focus, feed, memo, jtis, grants, remotes, manifest>>
PollStep == focus = "poll" /\ Poll!PNext /\ UNCHANGED <<focus, feed, memo, jtis, logins, remotes, manifest>>
RemoteStep ==
    focus = "remote" /\ Remote!WNext /\ UNCHANGED <<focus, now, feed, memo, jtis, logins, grants, manifest>>

OrderStep ==
    focus = "manifest" /\ Order!ONext /\ UNCHANGED <<focus, now, feed, memo, jtis, logins, grants, remotes>>

StoresNext ==
    FeedStep \/ MemoStep \/ JtiStep \/ LoginStep \/ PollStep \/ RemoteStep \/ OrderStep

\* The feed's fairness; the polling goroutine runs and every request it sends
\* is answered or fails; a loop goes on.  Nothing is asked of the other stores in time.
StoresSpec ==
    /\ StoresInit /\ [][StoresNext]_stores
    /\ \A p \in Callers : SF_stores(focus = "feed" /\ Progress(p) /\ FeedRests)
    /\ WF_stores(PollStep \/ OrderStep)

-----------------------------------------------------------------------------
\* decision_memo.go: the map and the FIFO list never come apart, and an answer
\* that the server would no longer give is old by at most the TTL and the time
\* a request may take (authz.go: stored when the answer arrives).
MemoHolds == focus = "memo" => Memo!TypeOK /\ Memo!MapAgreesWithList /\ Memo!StalenessBounded

\* internal/dpop: a proof accepted once is known to the store while it is fresh,
\* the very last instant of that excepted, at which it is accepted again; and one
\* that does not verify spends no jti.
ProofsOnce == focus = "jti" => Jti!TypeOK /\ Jti!ClaimHolds /\ Jti!NotBurnt

\* middleware/oidc_login.go: a login state is good for one callback, however
\* often and however concurrently it is delivered.
LoginsOnce == focus = "login" => Login!TypeOK /\ Login!OneCallback

\* oidc_state.go: that callback comes within the TTL, and the first that does
\* is served.
LoginsInTime == [][Login!InTime /\ Login!FirstInTimeServed]_stores

\* What a store gives up at its limit: the memo its oldest decision, the jtis
\* all that is no longer fresh; and a guard whose call began less than an interval
\* after the feed's latest attempt does not make it ask again.  Guards that were
\* waiting for fetchMu then do (RevocationFeed!OneFetchPerBurst, which fails).
LimitsKept ==
    /\ [][(focus = "memo" /\ order' # <<>> => Memo!EvictsOldest) /\ Jti!Bounded]_stores
    /\ AttemptsSpaced

\* oidc_device.go, oidc_ciba.go and the retry under them keep the times of a
\* grant: neither loop sends at or past the deadline, nor sooner than a Retry-After
\* it has not forgotten (the CIBA loop forgets that of a poll which failed for the
\* last time), nor gives up early.  Only the CIBA loop never asks again for a token
\* it was given: the device loop does, after a 200 it cannot use.
PollsInTime == [][focus = "poll" => Poll!Punctual]_stores

\* oidc_registration.go, management_request.go: what changes something remotely
\* is asked for once, how it ended can be believed, and an update replaces the
\* registration it was made from.
WritesOnce == [][focus = "remote" => Remote!WritesOnce' /\ Remote!BuildsOnLatest]_stores

\* management_manifest.go: whatever the resources and their order, a cycle is
\* reported where there is one, and an accepted manifest's resources are placed
\* once each, parents first.
ManifestsOrdered == focus = "manifest" => Order!OrderHolds

\* Every call of the feed returns, every polling loop ends, and so does the walk
\* over a manifest's resources.
CallsEnd ==
    /\ focus = "feed" => CallsReturn
    /\ focus = "poll" => Poll!LoopEnds
    /\ focus = "manifest" => Order!WalkEnds
=============================================================================
