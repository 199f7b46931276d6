# AXIAM Go SDK: TLA+ verification project

The Go SDK is the client library of the AXIAM identity server: it signs users
and devices in, keeps the session fresh, asks the server for authorization
decisions, verifies tokens in HTTP middleware, consumes the server's AMQP and
SSF events, and reconciles a tenant with a manifest. It is a library. It starts
almost no goroutines of its own, but its values (a `Client`, a `Feed`, a
`Verifier`, a replay guard) are shared by all the goroutines of the program that
embeds it, and nearly every operation reads some state, waits for the network,
and then writes state. These modules model the parts that keep state, wait, or
run in several steps; the runs check them with TLC; the `*Proofs` modules prove
theorems about them with TLAPS for every value of the constants.

Contents: 1 inventory, 2 modules and their correspondence to the code, 3 runs,
4 proofs, 5 findings and further divergences, 6 what is not modelled, 7 what
could come next. File names are relative to `src/`, module names have no suffix.

## 1. Inventory

`PROJECT.json` lists all parts with their files and, under `hazards`, what is
hard to test in them line by line.

### 1.1 Parts that keep state or run in steps

| Part (file) | State | Operations | Used by |
|---|---|---|---|
| Refresh guard (`internal/refreshguard/guard.go`) | one mutex, the cached access token | `RefreshIfNeeded` (double-check, wire call under the mutex, store), `Seed` | `Client.Refresh`, the gRPC interceptor; seeded by logins; replaced by `Logout`, `AuthenticateDevice` |
| Client session (`client.go`, `login.go`, `device_auth.go`, `opaque_login.go`, `webauthn.go`, `oidc.go`, `authz.go`, `grpc/`) | cookie jar, guard pointer, decision memo, reach, home tenant, device and adopted token, closed flag, one lock per field | the login family, `Refresh`, RPCs, `Logout`, adoptions, `CheckAccess`, enrollment, `Close` | every request is decorated from it |
| OIDC refresh flight, discovery cache (`oidc.go`) | a slot and its futures; a document with its expiry | `OidcRefresh`, `OidcDiscover`: join or lead, publish, vacate | each other, every OIDC operation |
| Decision memo (`decision_memo.go`) | map and FIFO list, TTL | `get`, `set`, `clear` | `CheckAccess` |
| JWKS verifier (`internal/jwks/`) | cached key set, `refreshMu` | verify, re-check under the lock, forced refetch; the claim rules | middleware, ID tokens |
| HTTP middleware (`middleware/`) | none; the login handlers keep a state store (`oidc_state.go`) | `Middleware`, `RequireAccess`, login and callback handlers | the embedding server |
| Revocation feed (`internal/revocation/feed.go`) | document, last attempt, `fetchMu`, `mu` | `IsRevoked`, `Refresh` | the guards, per request |
| AMQP consumer (`amqp/consumer.go`, `replay.go`, `hmac.go`) | replay table of nonces | `Consume`: verify, replay gate, handler, ack/nack | broker |
| AMQP reactor (`amqp/reactor*.go`) | session, in-flight goroutines, replay guard | `ReactorServe`: sessions, dispatch, reply, drain, reconnect | broker |
| SSF receiver (`ssf_receiver.go`) | key cache with its refetch limit, jti store | `Poll`, `VerifySet` | the embedding program |
| DPoP replay store (`internal/dpop/dpop.go`) | jti to expiry | `VerifyProof`, `Claim` | middleware |
| Device grant, CIBA, retry (`oidc_device.go`, `oidc_ciba.go`, `retry.go`) | interval, deadline, attempts of one call | the polling loops | the Client session |
| Registration and management calls (`oidc_registration.go`, `management_request.go`) | the registration token, on the caller's side | reads retried, writes sent once | reconciliation, resource APIs |
| Reconciliation (`management_reconcile*.go`, `management_plan.go`, `management_manifest*.go`) | a plan, resolved ids, the tenant | the order of the resources, plan, apply, rebind with restore, page walk | management transport |

### 1.2 Parts without state of their own

About 30 management resource APIs (one transport call per method), webhook
verification, OAuth authorization-code/PAR/exchange/UMA requests, OPAQUE and
WebAuthn message building, errors, telemetry, generated types, examples.

### 1.3 Interactions and hard behaviours

* **Shared state.** Everything in the Client session is reached by all
  goroutines using the Client; no lock covers two fields.
* **Messages.** HTTP requests: a reply has headers (which `net/http` turns into
  cookies in the jar at once) and a body (read and decoded later, possibly
  failing); it may be lost after the server acted. AMQP deliveries are copied,
  requeued, and acknowledged on a link that may have gone.
* **Callbacks.** `doRefresh` runs under the guard's mutex; the AMQP handler runs
  between the recording of a nonce and the ack; a discovery runs inside a refresh.
* **External.** Server, broker, clock, transmitter, identity provider,
  `net/http`'s jar, the jwx cache.

| Part | Hard behaviour | Correctness |
|---|---|---|
| Refresh guard | callers queue with a token read before; lost reply, refusal, undecodable 200 | one request in flight; no consumed token replayed; success means a new token; no leaked lock |
| Client session | a credential change is several steps, and each operation forgets different fields | what is kept is about the current principal; late writes never reach a new session |
| The two flights | publish and vacate are two critical sections; joiners read without the lock; one flight runs inside the other | one request on the wire; joiners get the leader's outcome; everybody returns |
| Verifier and middleware | keys rotate while requests wait for a refetch; a dozen checks in a fixed order | nobody unentitled reaches the handler; a rotated key is found; a burst fetches once |
| AMQP consumer, reactor | redelivery, copies, channel loss, pruning against freshness, drain against a hanging handler | a nonce is handled once; nothing fresh is dropped unheard; settled; wound down |
| SSF receiver | a batch is judged under a lock held across fetches, and recorded afterwards | no jti recorded without its event; no SET dropped unheard; outages not hammered |
| Feed, memo, jtis, login states | limits, expiry, replacement, slow fetches | nothing outlives its limit or is forgotten before it |
| Polling | `slow_down`, `Retry-After`, network errors and the deadline meet | nothing too early, nothing past the deadline, no early expiry |
| Registration, management | a write whose answer is lost; a token that rotates with it | carried out at most once; its end can be believed |
| Reconciliation | any step fails, its answer is lost, the process dies; somebody else writes | complete means stated; no subject loses its role; applying again converges; a parent is created before its children |

## 2. Modules and their correspondence to the code

| Module | Models | Role |
|---|---|---|
| `TokenRotation` | the doc comment of `RefreshIfNeeded`: a compare-and-rotate register | abstract specification |
| `RefreshGuard` | `guard.go` with the `doRefresh` of `login.go` | implements `TokenRotation` |
| `Session` | `clientSession` and every operation that changes or uses a credential | component |
| `SingleFlight` | a cell that lets one caller work and the others share the outcome | abstract specification |
| `OidcRefreshFlight` | `OidcRefresh` | component |
| `OidcDiscovery` | `OidcDiscover` | implements `SingleFlight` |
| `OidcFlights` | the discovery inside the refresh, and beside it | composition; its refresh implements `SingleFlight` |
| `TokenRules` | the rules for claims, bindings and ID tokens | operators |
| `ResourceServer` | `Middleware`, `RequireAccess` and the shared `Verifier` | composition, over `TokenRules` |
| `AmqpDelivery` | `Consume`, `verifyAndDispatch`, `replayGuard` | component with its broker |
| `AmqpReactor` | `ReactorServe` and the reactor protocol | component with its broker |
| `Amqp` | the two ends of the `amqp` package in one process, one at a time | composition, for one run and its proofs |
| `SsfReceiver` | `Poll`, `VerifySet`, the key cache | component with its transmitter |
| `Reconcile` | plan and apply of a manifest | component with its tenant |
| `RevocationFeed`, `DecisionMemo`, `JtiStore`, `LoginState` | the four caches with a time limit | components of `Stores` |
| `GrantPolling`, `RemoteWrites` | the polling loops; requests that must not be repeated | components of `Stores` |
| `ResourceOrder` | `topologicalOrder` and the keys of a manifest's resources | component of `Stores` |
| `Stores` | those seven, one at a time, on one clock | one run for all |
| `MC*` | the values TLC needs | model checking |
| `*Proofs` | theorems about the component or composition they extend | proofs |

Conventions. A goroutine is a program counter (`pc`, `call[p].at`); an action is
what the code does between two points at which somebody else can intervene (a
lock acquired, a wire call sent or answered, an atomic store). A wire call is two
actions, the request and its end. A local variable that survives such a point is
a variable of the model (`observed`, `mine`, `began`, `call[p].g`). The faulty
variants each module's heading names (`LeakLock`, `RetryAny`, ...) are used by no
`Next`: they show that a property can fail.

**`RefreshGuard`.** A token stands for the access cookie with its single-use
refresh cookie; tokens are numbered as issued. `Begin` is `login.go:477-497` (the
access cookie is read with no lock held). `ReturnCached` and `SendRefresh`
acquire `mu` and take the two sides of the double-check. `Answered`,
`AnsweredBadBody`, `ReplyLost` and `Refused` are the ways the POST ends: the jar
changes with the response *headers*, so an undecodable 200 moves the jar and not
the guard. `Store` is `guard.go:80-87`. `spent` and `lost` are the server's
books; `torn` is history, "the jar's token came with an answer nobody could read".

**`Session`.** A cookie session or a bearer is the principal it acts for, a
memoized decision the principal the server judged, a home tenant the account it
is the home of. `ActsAs` is `decorateRequest` with `doRequest`: the device token
first and without any cookie, then the cookie, then the adopted token. `Forget`
is what the operations call in a row before or after they post. `BeginLogin`,
`BeginOpaque` (with its fallback to the password), `BeginPasskey` and `BeginSso`
are the login family: they differ in what they forget, when, and whether they
report a reach and a home. `Absorb` and `Seed` are separate because the jar is
read before the guard's mutex is taken. `Refresh` carries the guard it loaded
(`call[p].g`) through the wire call. An RPC refused with UNAUTHENTICATED
refreshes once and is repeated once (`BeginRpc`, `Unauthenticated`, `RpcAgain`).
`LoggedOut` and `DeviceAnswered` append a fresh guard. `BeginEnroll` is
`OpaqueEnrollmentForSelf`, which reads the home tenant. `call[p].met` records
whether two calls overlapped.

**The flights.** `Join`/`Lead` are the first critical section, `Publish` the end
of the wire call with the second, `Vacate` the third (compare and clear),
`Receive` the joiner's `<-f.done`; `OidcDiscovery` has the same shape after its
test for a warm cache, on a clock. `OidcFlights` runs `OidcDiscover` inside the
leader's flight unless a configuration was supplied, and lets other callers
discover directly. `SingleFlight` is refined by both, with the slot and the
futures as they are and the callers' program counters mapped.

**`ResourceServer`.** A request is a record of what its checks can tell apart.
`Arrive` is everything before a lock (missing token, CSRF, algorithm, the first
try with the cached set); `Recheck` and `StartRefetch` acquire `refreshMu`;
`Render` is the server answering, `Install` the store of the set; `Judge` runs
the claim rules, the tenant header, the feed and the bindings in the code's
order, each failure with its own reason; `Authorize` asks the server.
`TokenRules` gives the rules as lists of checks, `Verdict` the first that fails.
For ID tokens only an unknown kid is refetched for.

**`AmqpDelivery`, `AmqpReactor`, `Amqp`.** Several messages may carry one nonce (copies
of one signed body). `Consume` dispatches one delivery at a time:
`RefuseOutright`, `RefuseReplay`, `Admit`, then what the handler's result does;
an answer on a closed channel is lost. `Prune` runs only when a message reaches
the nonce table, as in `check`. The reactor has a goroutine per delivery, which
judges by the clock it read at its start (`task[s][m].started`), publishes a
reply before it acknowledges, and can outlive its session: `LeaveLoop` closes the
loop, `GracePasses` abandons the drain, `SessionEnds` closes the transport,
`Dial` opens the next. `Amqp` puts the two side by side: they share no state, so
`focus` picks, at the start, the one a behavior exercises.

**`SsfReceiver`.** `holder` is the mutex of the key cache, held across a fetch.
A call judges its SETs in the order of their jtis, then `Step9` records them one
after another (`CheckAndRecord`, or `StoreFails`, which ends the call), then
`Return` hands over what passed. `Limited` is the once-a-minute rule, with the
code's three ways of counting a fetch.

**`Reconcile`.** `Start` begins an Apply, `ReadPage`/`ReadNetwork` build its
snapshot (the page walk sees the list change under it), `Plan` is
`computeSteps`, `Run` one request, `Unassign`/`Assign`/`Restore` the three of a
rebind. Every request may be refused, carried out unseen, or cut off by the
process ending (`Mishap`, `Crash`).

**`Stores`.** `focus` picks, at the start, the component a behavior exercises.
They share nothing but the clock, so their product would show nothing that one
at a time does not. A document of the feed is the instant it was rendered; a
memo entry is a decision with the time it was stored; a grant's deadline is as far
from its opening as its `ExpiresIn` says; a registration is the number of updates
behind it, which is also its token. `ResourceOrder` is the walk `computeSteps`
relies on when it looks a parent up: `ReadParent` fills the map, `Climb` follows it
upwards until the cursor is placed, has no parent (`Arrived`) or has been passed
before (`Cycle`), and `Place` takes the chain from its top. It stands for one loop of
one goroutine, and is a module of its own because its input is any list of
resources.

## 3. Runs

| Run | Instance | What it shows |
|---|---|---|
| `guard_refresh` | 3 callers, 4 tokens, refusals, lost replies, undecodable bodies | one request in flight, no replay, success means rotated (or torn), the guard implements `TokenRotation`, every call returns |
| `session_calls` | one goroutine making 6 calls, or 2 calls while another makes one; 12 operations, 2 users, 2 cookies | between calls, memo, reach, home, guard and bearer are about the current principal, and a repeated RPC brings a new token; a late write never reaches a new guard; every call returns |
| `session_home` | one goroutine, 3 calls: login, passkey, enroll | violation, finding 1 |
| `oidc_flights` | 3 callers, one token, 2 refresh flights, 3 fetches, one tick | one grant and one fetch at a time, each implementing `SingleFlight`; nothing served past its TTL; every caller returns |
| `amqp` | the consumer or the reactor; 3 messages (2 copies of a body stamped a whole window ahead, 1 that the consumer cannot verify and the reactor finds misaddressed), 2 `Consume` calls or 2 sessions, window 1, 4 and 2 ticks, one handler that may hang | consumer: handled once, but for the one instant section 5 names; drops justified; settled. Reactor: a nonce is handled once inside its retention; a session starts when its predecessor is drained or its grace is over; deliveries settle and the loop returns |
| `amqp_transient` | the same | violation, finding 2 |
| `resource_server` | 2 requests out of 24 kinds, 1 rotation, 1 revocable session, 1 tick | only the entitled reach the handler, a rotated key is found, a burst fetches once, every request ends |
| `ssf_receive` | a poller, a pusher, 3 SETs (1 malformed, 1 under a key published later), window 2, 3 ticks | no jti recorded without its event, nothing acceptable dropped unheard, one acceptance per window, fetches paced, every call returns |
| `reconcile` | 2 deviations, 2 faults, 2 writes of another administrator | a complete Apply leaves what is stated; an Apply fails only for a cause; bindings, others' changes and strays are kept; one account; the manifest is reached |
| `reconcile_scope` | rebinds only, 2 faults | violation, finding 3 |
| `stores` | seven components, 2 goroutines each where they have any; clocks of 3 to 9 ticks, past every limit; 3 resources over 3 keys | the caches keep their limits, a login state serves once and so does a proof (but for the last instant of its freshness), the feed never forgets and is timely, the polling loops keep the times of a grant, writes happen once, resources are ordered parents first or their cycle is reported, calls and loops end |
| `feed_burst` | the same | violation, finding 4 |

**Bounds and why they are enough.** Three callers are needed for "a caller queued
behind a second one that was itself queued" (guard, flights); four tokens allow a
successful rotation after each of two faults. Two refresh flights let the slot be
vacated and taken again with a joiner of the first still asleep; three fetches do
the same for discovery. Six sequential calls exceed the longest interplay of
credential operations (login, check, device, check, adopt, check); two against
one let one goroutine establish what the other changes at any point. Two
cookies are two sign-ins; a refresh, too, sets a cookie, so a sign-in and its refresh
also fit. In `resource_server` one goroutine meets every kind of request and the
other carries a token of the rotated keys, so a refetch can be awaited by a
request of any kind. In `amqp` a body is stamped one tick ahead, a whole window: its nonce,
recorded at once, expires at the very instant that is its last fresh one, and both
clocks pass that instant; the consumer's also passes the end of the retention of a
nonce recorded later.
`ssf_receive` passes the refetch interval and the window. Two
deviations in `reconcile` make a rebind meet every other kind of step, two faults
make a restore fail after its assign, and two writes let one fall before an Apply and
one into it. The clocks in `stores`: the memo passes its
TTL twice, the proofs' clock the leeway of the last proof, the logins' clock the
TTL of a login started late, the feed's two whole intervals after its first
fetch, and the polling deadline is 6 or 9 with waits of up to 4, so that a retry,
a slow-down and the deadline meet. `MaxCalls = 4` allows a write, its lost answer, a
read that finds it out, and another write. Three resources over three keys
(`MaxResources`) give every chain and cycle up to that length, a resource that is
its own parent, a parent nobody declares, and a key declared twice with two parents.
The bounds are the constants `MaxToken`, `MaxCookies`, `MaxFlights`, `MaxFetches`,
`MaxSessions`, `Prefetch`, `Credit`, `MaxTime` (and `ConsumerTime`, `MemoTime`, `JtiTime`, `LoginTime`), `MaxFlight`,
`MaxFetch`, `MaxTrip`, `MaxAttempts`, `MaxCalls`, `MaxResources`, `MaxFaults`, `MaxMeddling` and
the workloads of `MCSession`. No run uses symmetry.

**Deadlock.** Checked in `guard_refresh` and in both runs of `Reconcile`, where
somebody can always begin again. The other configurations say
`CHECK_DEADLOCK FALSE` because calls, messages or the clock run out there; that
nothing is stuck before that is what `CallsReturn`, `CallersReturn`,
`ConsumerSettles`, `RequestsEnd`, `WindsDown` and `CallsEnd` state.

**Fairness.** A wire call ends: `http.Client.Timeout` is set by the SDK (30 s by
default, `client.go`), and a fetch is ended by the given client's timeout or the
request's context. Goroutines are scheduled. A `sync.Mutex` is starvation-free,
hence strong fairness for the steps that take one (`SendRefresh`, `Recheck`,
`Lookup`, `Progress` of a session or a feed) and weak for all others. A broker
delivers while its link is up, an AMQP handler returns unless it is in `Hanging`,
a drain's grace ends, a timer fires, and a loop goes on. `Reconcile` applies again and again and
its faults are finitely many. A flight's leader is fair in every step, its
discovery included. Nothing obliges anybody to call an operation, the clock to advance,
a link to be lost or `Consume` to be called again. Where a specification without
fairness suffices (`Spec` in the violation runs), none is assumed.

**Conditions in the properties.** Several properties except what section 5
describes: `SuccessMeansRotated` a torn token, `MemoIsCurrent` an adoption and an
undecodable SSO answer, `GuardFollowsJar` and `RetryBringsNews` an undecodable
answer, `NothingStale` overlapping calls, `HandledOnce` the last fresh instant of a
body, `ProofsOnce` that of a proof (`LastInstant`), `PollsInTime` a `Retry-After` the
CIBA loop has forgotten and a second request of the device loop after a 200 it could
not use. Each exception is a divergence of the code, named where it is made, and the
last four happen in their runs: take the exception out and TLC reports a violation.

## 4. Proofs

All theorems hold for every value of the constants that satisfies the modules'
named assumptions; these say that placeholders are distinct from the real
elements, that sets are finite and that bounds are numbers. One says a little more:
`0 \in RetryAfters` (an answer need not carry the header). About `Reconcile`, nothing is assumed of its deviations but that they are finitely
many; the tenant starts with any two of them.

| Theorem | Statement | Argument |
|---|---|---|
| `RefreshGuardProofs!GuardSafe` | `GuardIsSafe`: types, one request in flight, no replay | `IInv`: whoever is past the double-check holds `mu` (`HolderInside`), the jar's refresh token is the last issued and unconsumed unless a reply was lost (`BooksInOrder`). No replay alone is not inductive: it needs that what is on the wire *is* the jar's token, which needs the mutex |
| `RotatedOnSuccess` | `SuccessMeansRotated` | `RInv`: the guard's cache is the jar except while storing or torn (`CacheIsJar`), so a double-check that misses sends a request for the observed token and one that hits saw a rotation |
| `ImplementsRotation` | `AtomicRotation` (`TokenRotation!ASpec`) | under `RInv`, `Begin` maps to `Observe`, `Answered` to `Rotate`, `AnsweredBadBody` to `Tear`, `ReturnCached` to `CatchUp`, the failures to `Fail`, the rest stutter |
| `SessionProofs!KeptIsCurrent` | `NothingStale` | `SInv`: as long as no two calls have met, at most one is under way (`Solo`); between calls the session is `Settled`, and `Phase` says for every stage of every operation what has been forgotten already and what has not. Two parts no property asks for are needed: a reach is reported only over a seeded guard, and a torn SSO cookie leaves the guard behind the jar, so that no later refresh renews it under the reach of the principal before |
| `LateWritesKeptOut` | `LateWritesStayOut` | only the typing part of `SInv`: a step of a call that holds a guard writes to that one or to none, and a replaced guard never comes back into use. Here any number of calls overlap |
| `OidcFlightsProofs!FlightSafe` | `FlightIsSafe` | the slot is the flight of the only leader from before its grant until after it is published (`LeaderHoldsSlot`) |
| `ComposedFlightSafe` | the same of the composition | each step of `OidcFlights` is a step of the flight or leaves it alone, so `CSpec` implements `Spec` and inherits its theorem |
| `GrantsAreShared` | `GrantShared`: the refresh implements `SingleFlight` | `AInv`: the flight in the slot is the last one begun and is in the air while its leader's grant is (`Airborne`); so `Lead` and `Join` map to boarding, the end of a grant to landing, and a joiner receives what landed |
| `FetchesAreShared` | `FetchShared`: so does the discovery | `DInv`: the slot is the fetch of its one leader (`FetcherHoldsSlot`), and whoever returns from a fetch returns with what it brought (`FetchesLand`) |
| `DocumentsAreFresh` | `ServedFresh` | `DInv` again: the cache expires one TTL after its document was fetched, and who is served from it is given a document (`CacheIsADoc`) |
| `AmqpProofs!DropsJustified` | `DropsAreJustified` | the nonce table holds only what the handler was given (`SeenWasHandled`) |
| `AmqpProofs!NonceOnce` | `HandledOnce` | a handed-over nonce is in the table until the last tick in which its body is fresh, or that tick has come (`KeptWhileFresh`). So before it no copy gets past the table, after it none is fresh, and in it a nonce may be handed over again (see 5). Nothing is assumed of the stamps |
| `AmqpProofs!DrainedBefore` | `EarlierDrained` | `IInv`: goroutines that nobody waited for belong to the session that serves or drains, or to one whose grace is over (`OnlyLastRuns`, `NoneAhead`, `Serving`) |
| `HandedOverOnce` | `HandedOnce` | a goroutine judges by a clock no later than now (`ReadEarlier`), so pruning by it spares the nonces still in their retention (`KeptForRetention`). The promise is about the retention, two windows from the handover's clock, so no assumption on stamps is needed |
| `SsfReceiverProofs!EventsHeard` | `NoEventLost` | `Invariant`: a call accepts nothing while it has SETs left to judge (`PhasesInOrder`), and what it refused of the good ones was heard of before (`RefusedForCause`) |
| `OncePerWindow` | `AcceptedOncePerWindow` | the store remembers an acceptance for a window (`AcceptanceKept`) |
| `OutagePaced` | `FetchesPaced` | a failure is counted no earlier than its fetch began, and a refetch before it begins (`FailuresCounted`) |
| `StoresProofs!SetNeverForgets`, `AnswersAreTimely` | `NeverForgets`, `TimelyAnswer` of the feed | fetches are serialized and within their time (`Serialized`), what one brings is no older than the cache (`DocsAreNewer`), the cache is at most a fetch older than the last attempt unless that failed (`CacheAge`), a reader found or made an attempt recent enough (`ReadersAreRecent`) |
| `LoginsServedOnce`, `LoginsServedInTime` | `LoginsOnce`, `LoginsInTime` | `LInv`: the entry of a state is that of its login (`EntryOfLogin`: it expires a TTL after it, and is gone only when a callback was served or the TTL is over), and `Callback` tests and consumes it in one critical section |
| `ProofsAcceptedOnce` | `ProofsOnce` | `JInv`: who claims a jti has proven it, by a clock no later than now (`ClaimsAreProven`); so pruning by that clock spares the entry of every accepted proof that is still fresh (`PruningSpares`). The entry ends at `iat + leeway`, the last instant at which the proof is fresh, which the statement excepts (see 5) |
| `MemoKeepsItsBounds` | `MemoHolds` | `MInv`: the list holds the entries of the map, each once (`Lists`) and the older first (`Sorted`): kept when an entry leaves (`DropLists`), joins (`PushLists`) or is evicted (`PopLists`). An entry is no older than a request against the answer the server has since changed (`EntriesStamped`), because a request under way was not answered before it was sent (`RequestsStamped`) |
| `StoresKeepTheirLimits` | `LimitsKept` | the front of a `Sorted` list is the oldest entry; a claim adds one jti to what pruning left (`ClaimBounds`); and a guard that waits for the feed found the latest attempt an interval old or saw another made (`QueuedForCause`). Of guards that saw another made the statement says nothing: they fetch too (finding 4) |
| `GrantsPolledInTime` | `PollsInTime` | `Waits`: what a grant has left is no less than the time to its deadline (`GrantKept`: the loop counts its waits and requests take time on top), and the time the server named is over when either loop sends again (`AdviceKept`), unless it is the CIBA loop and forgot it with the last failed attempt of a poll. After a token response the CIBA loop is done; of the device loop that is neither true nor stated |
| `WritesAskedOnce` | `WritesOnce` | `Books`: a write has a number of its own that its process has not gone beyond (`Numbered`), a process whose write nobody came between asks with the current token, unless that write landed unseen (`TokensCurrent`), and an update carries the registration its token came with (`BuiltOnToken`) |
| `ManifestsAreOrdered` | `ManifestsOrdered` | `Walk`: what is placed has its parent before it, and no set of placed keys is closed under parents (`SortedSoFar`, kept by `NoneClosed`); the chain is linked upwards to the cursor (`ChainLinked`), so a cursor that was passed closes a cycle; no declaration the loop went by is forgotten (`NoneForgotten`), so a finished walk has placed every key and there was none |
| `ResourceServerProofs!EntitledAlways` | `EntitledOnly` | `Verdict` is "ok" only if no check fails (`Least`, a least index, by well-founded induction on the naturals, and `VerdictIs`); so what was judged was entitled by the reference condition (`ValidClaims`, `BoundToken`, `ValidIDToken`), and `Inv` carries that, with the key set it was verified under, to the handler |
| `RefetchesAreApt` | `RefetchIsApt` | `RInv`: a call holds `refreshMu` exactly while it fetches (`LockHeld`) and fetches once (`FetchedOnce`); once one has installed the published version, that is what is cached, and who fetches it a second time does not verify under it (`CacheIsLatest`) |
| `BindingsAgree` | the two entry points for sender-constrained tokens agree when no proof is shown | both reduced to their pass conditions (`PassesWhen`) |
| `ReconcileProofs!TakesNothing` | `OthersUntouched` | `BInv`: a binding that was read is kept, except while its rebind is at the head of the steps (`BindingsHold`), and a change of the segment leaves the version that was read behind (`VersionsGrow`), so a write that carries it is refused. That a restore is accepted, that a rebind is under way in two requests only, and that a child is created below its own parent needs the order of the steps: what is left of a plan is sorted (`Sorted`, from `PlanLists`: each of the sixteen things gives at most one step, in its turn), so what a step refers to has been found or made before it (`Wired`) |
| `ReportIsTrue` | `ReportsTruly` | `AInv`, the part about an Apply that nobody has disturbed: what it has read is so (`ReadTruly`), a thing without a step left is as stated (`StatedOrPending`), a thing with a `create` left is missing (`NewIsMissing`), and the version a profile will be sent with is the segment's (`VersionsKnown`). So no step is turned down by the state of the tenant (`AloneTakes`), and when no step is left everything is as stated |
| `MakesOneAccount` | `OneAccount` | `AInv` again: an account is created only where the whole list was read and had none |
| `AmqpProofs!DeliveryTyped`, `TypeCorrect` (feed, `Reconcile`) | `TypeOK` | by cases on the actions |

Each inductive invariant was checked by TLC on the instances of section 3 before it
was proved.

`OneAccount` excuses a list with two accounts of the name when the other administrator has
written by the *end* of the step. A first formulation asked for a write before it and was
false: two accounts made in an Apply whose list moved are still there when the next Apply
begins, and the other administrator's next write to that list is then the first of its
Apply. That takes two writes, which the run now has.

Only model-checked: every liveness property (`RefreshReturns`, `CallsReturn`,
`CallersReturn`, `ConsumerSettles`, `RequestsEnd`, `WindsDown`, `Reconciles`, `CallsEnd`:
fairness and ENABLED are out of the prover's reach), and the four properties the code
violates. Every invariant and every other action property of a passing run is proved.
`Reconcile` takes its accounts by their indices, and the operators of `DecisionMemo` take one
element out of its list by position, as the code does, because what the library's filter
returns could not be proved.

## 5. Findings and further divergences

Shown by a run:

1. `session_home`: a password login leaves its home tenant cached when a passkey
   sign-in of another account follows, and that account's own enrollment is
   sealed against it (`opaque_login.go:344`).
2. `amqp_transient`: a transient handler error is requeued, and the redelivery is
   dropped as a replay (`amqp/consumer.go:183`).
3. `reconcile_scope`: a rebind whose unassign took effect unseen loses the
   binding's tenant scope; the Apply that recovers assigns the role without it
   (`management_reconcile_apply.go:280`).
4. `feed_burst`: of guards that queue on `fetchMu` with a stale cache each fetches in
   its turn, where `feed.go:114-116` says a burst "produces one fetch rather than one
   each" (`internal/revocation/feed.go:196`).

Met while modelling. The models behave as the code does; no run is devoted to them.

*Session and guard*
* An undecodable 200 moves the jar but not the guard; every later `Refresh`
  returns success without a request (`login.go:522`).
* A decision asked for under one principal is memoized after another goroutine's
  `Login` cleared the memo (`authz.go:199`).
* An SSO completion with an undecodable body returns before it forgets the
  previous principal (`oidc.go:896`).
* An adoption of client credentials does not clear the memo (`oidc.go:645-659`),
  although `client.go:171-172` says "the memo is cleared on any credential change".
* `AuthenticateDevice` and an adoption that interleave leave both bearers held
  (`device_auth.go:130`, `client.go:832-835`).
* An adopted token is outranked by a session cookie still in the jar
  (`client.go:903-905`), although it was adopted "as this Client's bearer
  credential" (`oidc.go:604-607`); and `requireSession` does not count it.
* A guard swapped while a refresh holds the old one lets a second refresh post the
  same cookie (`device_auth.go:129` against `guard.go:1-5`).
* A login's `Seed` uses the cookie it read before a concurrent refresh replaced it,
  and leaves the guard behind the jar (`login.go:293-312`). In between, an RPC may
  be repeated with the token that was refused.
* `LoginClientCredentials`, `SsoComplete`, `OidcDiscover`, `OidcRefresh` and
  `BatchCheck` do not ask `ensureOpen`, although `client.go:606-607` says every
  operation fails after `Close`.

*OIDC*
* A joiner receives the set issued for another refresh token (`oidc.go:510`).
* A leader's cancelled context fails its joiners, and theirs does not wake them.
* The CIBA loop forgets the `Retry-After` of the last failed attempt of a poll
  (`oidc_ciba.go:744`), although `oidc_ciba.go:683` calls it "a minimum wait"; the
  device loop goes on polling after a 200 it cannot use, whose grant is gone
  (`oidc_device.go:281-283`, `440-445`).
* A registration read that fails with an OAuth error body is not retried, although
  the documentation of `ReadClientRegistration` promises the retry of reads; and
  "a 401 means the update landed" holds only if the token was current before.

*Tokens and feeds*
* Waiters on `refreshMu` with an unknown kid each refetch (`verifier.go:234`).
* A DPoP proof is accepted again at exactly `iat + leeway`, where it is still
  fresh (`internal/dpop/dpop.go:377`) and its entry has ended (`:118`).
* The feed stamps its attempt when the fetch ends (`feed.go:202`): a revoked
  session is rejected within an interval *and a fetch*, where `feed.go:15-16` says
  an interval; and the fetch runs on the request path although `feed.go:21-22` says
  never.
* A memoized decision is as old as its TTL plus the request that brought it.

*Events*
* A body stamped exactly one window ahead is admitted twice: fresh until
  `issued_at + skew` inclusive, pruned at that very instant (`replay.go:72`,
  `92`). Freshness reads the wall clock, retention the monotonic one.
* A SET under an unknown kid is refused for good (`invalid_key`) within the
  minute after a counted refetch failed (`ssf_receiver.go:490`).

*Reconciliation*
* Raising the policy's cap can leave a profile lower than stated after an Apply
  (`management_plan.go:108-112`): a second one is needed.
* A drifted effect or scope of a grant, and the description of a scope, are never compared
  (`management_reconcile_plan.go:210-223`, `147`).
* An offset page walk can miss or repeat an account when the list changes under it.
* A retried management GET is not checked for a session again.
* Two resources, roles or users may be declared under two keys with one natural
  key; only network segments are checked for that (`management_manifest_network.go`,
  `validateNetwork`), although `validateManifest` "rejects a manifest that cannot be
  reconciled, before any request is made" (`management_manifest.go:497-498`).

## 6. What is not modelled, and why

* **Generated code and the management resource APIs** (`management_models.go`,
  `internal/gen`, `internal/cmd/genmanagement`, the `management_*.go` resources)
  are most of the repository's lines. They keep no state: each method is one call
  of `sendManagement`, whose protocol is in `RemoteWrites` (`mint` for a write,
  `list` for a read). Modelling them method by method would repeat one action.
* **Webhook verification, errors, telemetry, secrets**: stateless; string parsing,
  HMAC and formatting.
* **Cryptography and encodings** (HMAC, JWS, DPoP proofs, OPAQUE, WebAuthn, HTTP,
  JSON): a signature is a Boolean, a token a number, a principal a value.
  OPAQUE and passkey sign-ins are modelled as steps on the session.
* **UMA, PAR, token exchange, logout URLs, authorization URLs**: one request and the
  validation of one answer.
* **The membership tests of manifest validation** beside those of the resources'
  keys, and several things of one kind in a `Reconcile` manifest;
  organization-level targets beside the rebind; the content of the MCP metadata
  document and of the UMA challenge the middleware answers with.
* **CSRF header, tenant and organization names, `ActingTenant`** (a new handle over
  the same session), and the two reads of the device credential by one request,
  which are one step in `Session`.
* **Weak memory.** The code's shared fields are atomics or under a lock.
* **Two clocks** in the AMQP modules; time is one counter per module.

## 7. What could come next

1. Two clocks in the AMQP replay guards.
2. Several things of one kind in `Reconcile`, which would let a page walk and a
   rebind meet twice in one plan.
3. The membership tests of the manifest validation, and the uniqueness of natural
   keys that it leaves unchecked.
