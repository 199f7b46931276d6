--------------------------- MODULE RevocationFeed ---------------------------
(***************************************************************************)
(* revocation.Feed (internal/revocation/feed.go): a poller shared by many  *)
(* guards.  IsRevoked refreshes a stale cache on the caller's goroutine,   *)
(* then answers from whatever the cache holds; fetchMu serializes the      *)
(* fetches and mu guards the cache.                                        *)
(*                                                                         *)
(* A document is the instant at which the server rendered it; the cache    *)
(* holds one, or Never.  The model follows one session, which the server   *)
(* revokes at some instant.  Every kind of unusable answer (unreachable,   *)
(* not 200, undecodable, wrong alg, too long) is one failure, as fetch     *)
(* makes them.                                                             *)
(*                                                                         *)
(* AlwaysFresh, FetchUnserialized and LeakLock are faulty variants of the  *)
(* definition that follows them; Next uses none of them.                   *)
(***************************************************************************)
EXTENDS Naturals

CONSTANTS
    Callers,      \* goroutines sharing the feed
    Nobody,
    Interval,     \* pollInterval, in ticks
    MaxFetch,     \* bound on the ticks one fetch lasts
    MaxTime       \* bound on the clock

ASSUME FeedConstants ==
    /\ Nobody \notin Callers
    /\ Interval \in Nat \ {0} /\ MaxFetch \in Nat /\ MaxTime \in Nat \ {0}

Never == 0        \* the zero time.Time, a nil set; the clock starts at 1

VARIABLES
    now,          \* the clock
    revoked,      \* when the server revoked the session, or Never
    entries,      \* Feed.entries: the document cached
    lastAttempt,  \* Feed.lastAttempt
    fetchMu,      \* who holds Feed.fetchMu
    pc,           \* where each caller is
    direct,       \* the callers in a Refresh of their own, not in IsRevoked
    began,        \* when each call began
    doc,          \* the document each fetch received, Never for a failure
    started,      \* when each fetch was sent
    attempted,    \* history: the end of the latest fetch, successful or not
    failed        \* history: that fetch brought nothing usable

vars == <<now, revoked, entries, lastAttempt, fetchMu, pc, direct, began, doc, started, attempted, failed>>

Init ==
    /\ now = 1
    /\ revoked = Never
    /\ entries = Never /\ lastAttempt = Never
    /\ fetchMu = Nobody
    /\ pc = [p \in Callers |-> "idle"] /\ direct = {}
    /\ began = [p \in Callers |-> Never]
    /\ doc = [p \in Callers |-> Never]
    /\ started = [p \in Callers |-> Never]
    /\ attempted = Never /\ failed = FALSE

Goto(p, label) == pc' = [pc EXCEPT ![p] = label]

-----------------------------------------------------------------------------
AlwaysFresh == lastAttempt # Never
\* refreshIfStale: an attempt less than an interval ago is recent enough.
Recent == lastAttempt # Never /\ now < lastAttempt + Interval

\* IsRevoked, with a sid.
Call(p) ==
    /\ pc[p] = "idle"
    /\ began' = [began EXCEPT ![p] = now]
    /\ Goto(p, IF Recent THEN "read" ELSE "queue")
    /\ UNCHANGED <<now, revoked, entries, lastAttempt, fetchMu, direct, doc, started, attempted, failed>>

\* Refresh called directly starts at the lock.
CallRefresh(p) ==
    /\ pc[p] = "idle"
    /\ direct' = direct \union {p}
    /\ began' = [began EXCEPT ![p] = now]
    /\ Goto(p, "queue")
    /\ UNCHANGED <<now, revoked, entries, lastAttempt, fetchMu, doc, started, attempted, failed>>

FetchUnserialized(p) ==
    /\ pc[p] = "queue" /\ Goto(p, "fetch") /\ started' = [started EXCEPT ![p] = now]
    /\ UNCHANGED <<now, revoked, entries, lastAttempt, fetchMu, direct, began, doc, attempted, failed>>
\* fetchMu acquired: the fetch is sent, without asking again whether it is due.
StartFetch(p) ==
    /\ pc[p] = "queue"
    /\ fetchMu = Nobody
    /\ fetchMu' = p
    /\ started' = [started EXCEPT ![p] = now]
    /\ Goto(p, "fetch")
    /\ UNCHANGED <<now, revoked, entries, lastAttempt, direct, began, doc, attempted, failed>>

\* The server renders the document ...
Render(p) ==
    /\ pc[p] = "fetch"
    /\ doc' = [doc EXCEPT ![p] = now]
    /\ Goto(p, "fetched")
    /\ UNCHANGED <<now, revoked, entries, lastAttempt, fetchMu, direct, began, started, attempted, failed>>

\* ... or what arrives is unusable.
FetchFails(p) ==
    /\ pc[p] = "fetch"
    /\ doc' = [doc EXCEPT ![p] = Never]
    /\ Goto(p, "fetched")
    /\ UNCHANGED <<now, revoked, entries, lastAttempt, fetchMu, direct, began, started, attempted, failed>>

Cache(p) == entries' = IF doc[p] = Never THEN entries ELSE doc[p]
Record(p) == attempted' = now /\ failed' = (doc[p] = Never)

\* The caller's own records of the fetch are gone when it is over.
Release(p) ==
    /\ fetchMu' = Nobody
    /\ doc' = [doc EXCEPT ![p] = Never]
    /\ started' = [started EXCEPT ![p] = Never]

\* Refresh returns to its caller; IsRevoked goes on to the lookup.
AfterFetch(p) ==
    /\ direct' = direct \ {p}
    /\ Goto(p, IF p \in direct THEN "idle" ELSE "read")
    /\ began' = IF p \in direct THEN [began EXCEPT ![p] = Never] ELSE began

LeakLock(p) ==
    /\ pc[p] = "fetched" /\ lastAttempt' = now /\ Cache(p) /\ Record(p)
    /\ IF doc[p] = Never THEN UNCHANGED <<fetchMu, doc, started>> ELSE Release(p)
    /\ AfterFetch(p) /\ UNCHANGED <<now, revoked>>
\* The response has arrived: the attempt is stamped with the time it ended, a
\* failure leaves the previous set, and fetchMu is released.
Update(p) ==
    /\ pc[p] = "fetched"
    /\ lastAttempt' = now
    /\ Cache(p)
    /\ Record(p)
    /\ Release(p)
    /\ AfterFetch(p)
    /\ UNCHANGED <<now, revoked>>

Listed == revoked # Never /\ entries # Never /\ revoked <= entries

\* The lookup; the answer is Listed at that instant.
Answer(p) ==
    /\ pc[p] = "read"
    /\ Goto(p, "idle")
    /\ began' = [began EXCEPT ![p] = Never]
    /\ UNCHANGED <<now, revoked, entries, lastAttempt, fetchMu, direct, doc, started, attempted, failed>>

-----------------------------------------------------------------------------
Revoke ==
    /\ revoked = Never
    /\ revoked' = now
    /\ UNCHANGED <<now, entries, lastAttempt, fetchMu, pc, direct, began, doc, started, attempted, failed>>

\* No fetch outlives the HTTP client's timeout or its request's context.
Tick ==
    /\ now < MaxTime
    /\ \A p \in Callers : pc[p] \in {"fetch", "fetched"} => now < started[p] + MaxFetch
    /\ now' = now + 1
    /\ UNCHANGED <<revoked, entries, lastAttempt, fetchMu, pc, direct, began, doc, started, attempted, failed>>

Fetched(p) == Render(p) \/ FetchFails(p)
Progress(p) == StartFetch(p) \/ Fetched(p) \/ Update(p) \/ Answer(p)

Next ==
    \/ \E p \in Callers : Call(p) \/ CallRefresh(p) \/ Progress(p)
    \/ Revoke
    \/ Tick

Spec == Init /\ [][Next]_vars

\* A fetch ends (with http.DefaultClient, only by the request's context),
\* goroutines are scheduled and the mutex is handed over fairly.
FairSpec == Spec /\ \A p \in Callers : SF_vars(Progress(p))

-----------------------------------------------------------------------------
Times == 0 .. MaxTime

TypeOK ==
    /\ now \in 1 .. MaxTime
    /\ revoked \in Times /\ entries \in Times /\ lastAttempt \in Times /\ attempted \in Times
    /\ fetchMu \in Callers \union {Nobody}
    /\ pc \in [Callers -> {"idle", "queue", "fetch", "fetched", "read"}]
    /\ failed \in BOOLEAN /\ direct \subseteq Callers
    /\ began \in [Callers -> Times] /\ doc \in [Callers -> Times] /\ started \in [Callers -> Times]

\* The cache never goes back to an older document, nor to none: a failed or a
\* slow fetch does not un-revoke a session the guard knows about (feed.go:206-207).
NeverForgets == [][entries' >= entries]_vars

\* Unless the latest fetch failed, a session revoked at least one poll interval
\* and one fetch before the call began is reported: lastAttempt is stamped when
\* the fetch ends, so its duration adds to the interval (feed.go:196-205).
TimelyAnswer ==
    \A p \in Callers :
        pc[p] = "read" /\ ~failed /\ revoked # Never /\ revoked + Interval + MaxFetch <= began[p]
          => Listed

\* A guard whose call began less than an interval after the latest attempt, failed
\* or not, stays off the network (feed.go:210-215).  This says nothing of the guards
\* that waited for fetchMu when that attempt ended: OneFetchPerBurst does.
AttemptsSpaced ==
    [][\A p \in Callers \ direct :
         pc[p] # "fetch" /\ pc'[p] = "fetch" =>
             attempted = Never \/ attempted >= began[p] \/ began[p] >= attempted + Interval]_vars

\* What feed.go claims, and the code does not do: "a burst of guards that all notice
\* the cache is stale produces one fetch rather than one each" (feed.go:114-116).  A
\* guard fetches only if, when it gets the lock, the cache still calls for it.
OneFetchPerBurst ==
    [][\A p \in Callers \ direct : pc[p] # "fetch" /\ pc'[p] = "fetch" => ~Recent]_vars

\* Every call returns.
CallsReturn == \A p \in Callers : pc[p] # "idle" ~> pc[p] = "idle"
=============================================================================
