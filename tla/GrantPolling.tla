---------------------------- MODULE GrantPolling ----------------------------
(***************************************************************************)
(* Waiting for a decision taken elsewhere: DeviceLogin (oidc_device.go)    *)
(* and CibaAwait (oidc_ciba.go), each over its poll and over the bounded   *)
(* retry inside the poll (retry.go).  Which loop a behaviour runs is       *)
(* chosen at the start (kind).                                             *)
(*                                                                         *)
(* The clock starts with the response that opened the grant, and the       *)
(* deadline is as far from it as the ExpiresIn of that response says.  One *)
(* goroutine runs it all, so a wait is one step that moves the clock; a    *)
(* timer fires on time, and a request takes up to MaxTrip.  The server is  *)
(* external and may give any answer at any time.                           *)
(*                                                                         *)
(* Uncapped is a faulty variant of RetryMeetsDeadline.                     *)
(***************************************************************************)
EXTENDS Naturals

CONSTANTS
    Expiries,         \* expires_in, as the server may set it
    Intervals,        \* interval, 0 when the response has none
    DefaultInterval,  \* DefaultDevicePollInterval, DefaultCibaInterval
    Increment,        \* SlowDownIncrement, CibaSlowDownIncrement
    RetryAfters,      \* what a Retry-After header may say, 0 for none
    MaxTrip,          \* bound on a request, and on the time before the loop
    MaxAttempts,
    BaseDelay,
    MaxDelay

PollingConstants ==
    /\ Expiries \subseteq Nat /\ Intervals \subseteq Nat
    /\ RetryAfters \subseteq Nat /\ 0 \in RetryAfters
    /\ DefaultInterval \in Nat \ {0} /\ Increment \in Nat
    /\ MaxTrip \in Nat /\ MaxAttempts \in Nat \ {0}
    /\ BaseDelay \in Nat /\ MaxDelay \in Nat

VARIABLES
    kind,       \* "device" or "ciba"
    now,
    deadline,
    interval,
    floor,      \* the Retry-After the next wait must honour
    remaining,  \* pollSchedule.remaining: what the waits have left of the grant
    phase,
    attempt,    \* of the request in flight, or of the one that just failed
    advice,     \* the Retry-After of the answer the retry is about to wait out
    outcome,
    readyAt,    \* history: the earliest instant the server agreed to, 0 once the CIBA loop forgot it
    granted     \* history: a token response was received

grant == <<kind, deadline>>
schedule == <<interval, floor, remaining>>

Larger(a, b) == IF a > b THEN a ELSE b
Smaller(a, b) == IF a < b THEN a ELSE b

\* newPollSchedule and CibaAwait: an absent interval is the default.
StartInterval(i) == IF i = 0 THEN DefaultInterval ELSE i

PInit ==
    /\ kind \in {"device", "ciba"}
    /\ now = 1
    /\ \E e \in Expiries : deadline = now + e /\ remaining = e
    /\ \E i \in Intervals : interval = StartInterval(i)
    /\ floor = 0
    /\ phase = "opened" /\ attempt = 0 /\ advice = 0
    /\ outcome = "none" /\ readyAt = 0 /\ granted = FALSE

\* A grant nobody waits for.
SomeGrant == <<"device", 1 + CHOOSE e \in Expiries : TRUE, StartInterval(CHOOSE i \in Intervals : TRUE)>>

Finish(o) ==
    /\ phase' = "done"
    /\ outcome' = o

-----------------------------------------------------------------------------
\* OnUserCode returns, or the caller gets round to calling CibaAwait.
Begin ==
    /\ phase = "opened"
    /\ \E d \in 0 .. MaxTrip : now' = now + d
    /\ phase' = "looping"
    /\ UNCHANGED <<grant, schedule, attempt, advice, outcome, readyAt, granted>>

\* OnUserCode fails: nothing is polled.
Abandon ==
    /\ phase = "opened" /\ kind = "device"
    /\ Finish("aborted")
    /\ UNCHANGED <<grant, now, schedule, attempt, advice, readyAt, granted>>

\* tick: the wait is the interval, or the Retry-After when that is longer.
Step == Larger(interval, floor)

\* No request may follow a wait that ends at the deadline.
OutOfTime ==
    \/ now + Step >= deadline
    \/ kind = "device" /\ Step >= remaining

Spent == IF kind = "device" THEN Step ELSE 0

Wait ==
    /\ phase = "looping"
    /\ ~OutOfTime
    /\ now' = now + Step
    /\ remaining' = remaining - Spent
    /\ floor' = 0
    /\ phase' = "sending" /\ attempt' = 1
    /\ UNCHANGED <<grant, interval, advice, outcome, readyAt, granted>>

Expire ==
    /\ phase = "looping"
    /\ OutOfTime
    /\ floor' = 0 /\ remaining' = IF kind = "device" THEN 0 ELSE remaining
    /\ Finish("expired")
    /\ UNCHANGED <<grant, now, interval, attempt, advice, readyAt, granted>>

\* The context ends during a wait of the loop or of the retry.
Cancelled ==
    /\ \/ phase = "looping" /\ ~OutOfTime
       \/ phase = "retrying" /\ attempt < MaxAttempts
    /\ Finish("cancelled")
    /\ UNCHANGED <<grant, now, schedule, attempt, advice, readyAt, granted>>

-----------------------------------------------------------------------------
\* The answers.  Each takes up to MaxTrip to come.
Answered(d) ==
    /\ phase = "sending"
    /\ now' = now + d
    /\ UNCHANGED grant

LoopAgain == phase' = "looping" /\ attempt' = 0 /\ advice' = 0 /\ UNCHANGED outcome

AuthorizationPending(d) ==
    /\ Answered(d)
    /\ LoopAgain
    /\ UNCHANGED <<schedule, readyAt, granted>>

SlowDown(d) ==
    /\ Answered(d)
    /\ interval' = interval + Increment
    /\ LoopAgain
    /\ UNCHANGED <<floor, remaining, readyAt, granted>>

\* 429 rate_limit_exceeded: both loops keep its Retry-After for the next wait.
RateLimited(d, r) ==
    /\ Answered(d)
    /\ floor' = r /\ readyAt' = Larger(readyAt, now' + r)
    /\ LoopAgain
    /\ UNCHANGED <<interval, remaining, granted>>

\* access_denied, expired_token, invalid_grant, any other 4xx, or a token
\* response whose ID token does not verify.
Terminal(d) ==
    /\ Answered(d)
    /\ Finish("refused")
    /\ UNCHANGED <<schedule, attempt, advice, readyAt, granted>>

Token(d) ==
    /\ Answered(d)
    /\ Finish("token") /\ granted' = TRUE
    /\ UNCHANGED <<schedule, attempt, advice, readyAt>>

\* A failure that is neither a protocol answer nor the retry's: the device loop
\* goes on after any NetworkError.
SurvivesNetworkError(k) == k = "device"

\* A 200 the client cannot use: its body does not parse, or the key that signed
\* its ID token cannot be fetched.  Either is a NetworkError.
Unusable(d) ==
    /\ Answered(d)
    /\ granted' = TRUE
    /\ IF SurvivesNetworkError(kind)
       THEN floor' = 0 /\ LoopAgain
       ELSE Finish("failed") /\ UNCHANGED <<floor, attempt, advice>>
    /\ UNCHANGED <<interval, remaining, readyAt>>

\* A 429 or 408 without an OAuth body: decisive for the device poll, whose loop
\* keeps the Retry-After; one more failure to retry for the CIBA poll.
Throttled(d, r) ==
    /\ Answered(d)
    /\ readyAt' = Larger(readyAt, now' + r)
    /\ IF kind = "device"
       THEN floor' = r /\ LoopAgain
       ELSE phase' = "retrying" /\ advice' = r /\ UNCHANGED <<floor, attempt, outcome>>
    /\ UNCHANGED <<interval, remaining, granted>>

\* A transport failure or a 5xx, with its Retry-After if it has one.
Unavailable(d, r) ==
    /\ Answered(d)
    /\ readyAt' = Larger(readyAt, now' + r)
    /\ phase' = "retrying" /\ advice' = r
    /\ UNCHANGED <<schedule, attempt, outcome, granted>>

-----------------------------------------------------------------------------
\* retryReadOnlyUntil, after an attempt that may be retried.
backoffFor[n \in Nat] ==
    IF n <= 1 THEN BaseDelay ELSE Smaller(MaxDelay, 2 * backoffFor[n - 1])

\* delayFor: full jitter over the backoff, raised to Retry-After.
Delays == {Larger(advice, j) : j \in 0 .. Smaller(MaxDelay, backoffFor[attempt])}

Left == IF deadline > now THEN deadline - now ELSE 0

Retry ==
    /\ phase = "retrying" /\ attempt < MaxAttempts
    /\ \E wait \in Delays :
          /\ wait < Left
          /\ now' = now + wait
    /\ phase' = "sending" /\ attempt' = attempt + 1 /\ advice' = 0
    /\ UNCHANGED <<grant, schedule, outcome, readyAt, granted>>

Uncapped ==
    /\ phase = "retrying" /\ attempt < MaxAttempts
    /\ \E wait \in Delays : wait >= Left /\ now' = now + wait
    /\ phase' = "sending" /\ attempt' = attempt + 1 /\ advice' = 0
    /\ UNCHANGED <<grant, schedule, outcome, readyAt, granted>>

\* The wait is capped at the deadline, served, and followed by no request.
RetryMeetsDeadline ==
    /\ phase = "retrying" /\ attempt < MaxAttempts
    /\ \E wait \in Delays : wait >= Left
    /\ now' = now + Left
    /\ Finish("expired")
    /\ UNCHANGED <<grant, schedule, attempt, advice, readyAt, granted>>

\* The last attempt failed.  Only the device loop hears its Retry-After; to the
\* CIBA loop the failure is transient, and it waits its interval (oidc_ciba.go:744).
Exhausted ==
    /\ phase = "retrying" /\ attempt = MaxAttempts
    /\ IF kind = "device"
       THEN floor' = advice /\ UNCHANGED readyAt
       ELSE readyAt' = 0 /\ UNCHANGED floor
    /\ LoopAgain
    /\ UNCHANGED <<grant, now, interval, remaining, granted>>

-----------------------------------------------------------------------------
Answer(d) ==
    \/ AuthorizationPending(d) \/ SlowDown(d) \/ Terminal(d) \/ Token(d) \/ Unusable(d)
    \/ \E r \in RetryAfters : RateLimited(d, r) \/ Throttled(d, r) \/ Unavailable(d, r)

PNext ==
    \/ Begin \/ Abandon
    \/ Wait \/ Expire \/ Cancelled
    \/ \E d \in 0 .. MaxTrip : Answer(d)
    \/ Retry \/ RetryMeetsDeadline \/ Exhausted

-----------------------------------------------------------------------------
TypeOK ==
    /\ kind \in {"device", "ciba"}
    /\ now \in Nat /\ deadline \in Nat
    /\ interval \in Nat \ {0} /\ floor \in RetryAfters
    /\ remaining \in 0 .. deadline
    /\ phase \in {"opened", "looping", "sending", "retrying", "done"}
    /\ attempt \in 0 .. MaxAttempts /\ advice \in RetryAfters
    /\ outcome \in {"none", "aborted", "expired", "cancelled", "refused", "token", "failed"}
    /\ phase = "done" <=> outcome # "none"
    /\ readyAt \in Nat /\ granted \in BOOLEAN

Sends == phase # "sending" /\ phase' = "sending"

\* Nothing is sent at or after the deadline, by the loop or by a retry inside it
\* (oidc_device.go:73-76, oidc_ciba.go:679-682).
NothingPastDeadline == Sends => now' < deadline

\* Neither loop comes back before the time the server named, through retries,
\* typed and untyped 429s and 5xxs (oidc_device.go: "Retry-After is a floor";
\* oidc_ciba.go:683, "a minimum wait").  One case is left out, and kept out of
\* readyAt by Exhausted: after the last attempt of a CIBA poll has failed, the loop
\* no longer knows what Retry-After the answers carried.
HonoursRetryAfter == Sends => now' >= readyAt

\* Once a CIBA token response was received no other request follows, whatever
\* becomes of its body (oidc_ciba.go: "a 200 is consumed before anything else").
\* The device loop makes no such promise, and polls again after a 200 it cannot use
\* (oidc_device.go:281-283, 440-445).
CibaAsksNotAgain == Sends /\ kind = "ciba" => ~granted

\* A grant is given up locally only if the next request would have met the
\* deadline: counting the waits never ends it early (oidc_device.go:77-93).
NoEarlyExpiry ==
    outcome' = "expired" /\ outcome # "expired" /\ phase = "looping"
       => now + Larger(interval, floor) >= deadline

\* The times of a grant: neither loop sends late, nor sooner than the server asked
\* for and it still knows, nor gives up early; and the CIBA loop does not ask again
\* for a token it was given.
Punctual ==
    /\ TypeOK'
    /\ NothingPastDeadline /\ HonoursRetryAfter /\ CibaAsksNotAgain
    /\ NoEarlyExpiry

\* Whatever the server answers, the loop ends.
LoopEnds == <>(phase = "done")
=============================================================================
