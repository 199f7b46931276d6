------------------------------ MODULE Session ------------------------------
(***************************************************************************)
(* The credential state a Client shares between its goroutines             *)
(* (clientSession, client.go:200-262): the cookie jar, the atomic pointer  *)
(* to the refresh guard, the decision memo, the acting-tenant scope, the   *)
(* cached home tenant, the device token, the adopted client-credentials    *)
(* token and the closed flag.                                              *)
(* Every field has a lock of its own and no lock covers two, so a          *)
(* credential change is several steps, and a request on the wire may be    *)
(* answered long after the state it was built from is gone.                *)
(*                                                                         *)
(* Abstractions.  A bearer token or a session is the principal it acts     *)
(* for; session cookies are numbered in the order the server sets them.  A *)
(* memoized decision is the principal the server judged, and a home tenant *)
(* the principal it is the home of.  The organization is configured        *)
(* (WithOrgID), so Refresh never lacks it.  The gRPC clients are wired as  *)
(* grpc/interceptor.go:10-13 suggests, to the guard and to Refresh.        *)
(*                                                                         *)
(* An operator whose name starts with Faulty is a faulty variant of the    *)
(* definition that follows it; Next uses none of them.                     *)
(***************************************************************************)
EXTENDS Naturals, Sequences, FiniteSets

CONSTANTS
    Procs,        \* goroutines sharing the Client
    Users,        \* principals that sign in with a session cookie
    Device,       \* the principal of the client certificate
    Service,      \* the principal of the client credentials
    Questions,    \* distinct memo keys
    None,
    Ops,          \* the operations the goroutines may call
    Undecodable,  \* those whose 200 answer may fail to decode
    MaxCookies,   \* bound on the sessions the server opens or renews
    Workloads     \* how many calls each goroutine makes, at most

AllOps == {"login", "opaque", "passkey", "sso", "refresh", "rpc", "logout", "device", "adopt",
           "check", "enroll", "close"}
Principals == Users \cup {Device, Service}

ASSUME SessionConstants ==
    /\ Device \notin Users /\ Service \notin Users /\ None \notin Principals
    /\ None \notin Procs
    /\ Ops \subseteq AllOps /\ Undecodable \subseteq {"login", "passkey", "sso", "refresh"}
    /\ MaxCookies \in Nat /\ Workloads \subseteq [Procs -> Nat]

VARIABLES
    owner,        \* the principal of each session cookie the server has set, and
                  \* the operation, if any, that could not decode the answer that set it
    jar,          \* the cookie in the jar, 0 when there is none
    guards,       \* every Guard ever stored in clientSession.guard; the last is current
    memo,         \* the memoized decisions, by question
    scope,        \* the principal whose reach gates ActingTenant
    home,         \* the principal whose own tenant is cached (clientSession.principalTenant)
    device,       \* clientSession.deviceToken
    adopted,      \* oidcState.adoptedToken
    closed,       \* clientSession.closed
    call          \* the call each goroutine is in

session == <<jar, guards, memo, scope, home, device, adopted, closed>>
vars == <<owner, session, call>>

FreshGuard == [hasAny |-> FALSE, access |-> 0, mu |-> None]
Current == Len(guards)
NoDecision == [k \in Questions |-> None]
\* at, op: where the goroutine is; who: the principal or question at stake;
\* tok: the cookie read; sent: the token of an RPC's first attempt; g: the guard
\* loaded; left: calls it may still make; met: whether it ever called while
\* another goroutine was in a call.
AtRest(left, met) == [at |-> "idle", op |-> "none", who |-> None, key |-> None,
                      tok |-> 0, sent |-> 0, g |-> 1, left |-> left, met |-> met]

Init ==
    /\ owner = <<>> /\ jar = 0
    /\ guards = <<FreshGuard>>
    /\ memo = NoDecision /\ scope = None /\ home = None
    /\ device = None /\ adopted = None
    /\ closed = FALSE
    /\ \E calls \in Workloads : call = [p \in Procs |-> AtRest(calls[p], FALSE)]

-----------------------------------------------------------------------------
\* decorateRequest and doRequest: the device token first, then the adopted
\* one, as Authorization; no cookie leaves while a device token is held.  The
\* server reads axiam_access before Authorization (client.go:903-905).
CookieOwner == IF jar = 0 \/ device # None THEN None ELSE owner[jar].who
Bearer == IF device # None THEN device ELSE adopted
ActsAs == IF CookieOwner # None THEN CookieOwner ELSE Bearer

\* onCredentialChange, resetScopeUnknown and replaceDeviceCredential, as the
\* login family, Logout and the SSO completions call them in a row.
Forget ==
    /\ memo' = NoDecision
    /\ scope' = None
    /\ device' = None

Idle(p) == call[p].at = "idle"
At(p, op, label) == call[p].op = op /\ call[p].at = label
Goto(p, label) == call' = [call EXCEPT ![p].at = label]
Return(p) == call' = [call EXCEPT ![p] = AtRest(@.left, @.met)]

\* A call enters with what it is about; a call that ends at once only counts.
Called(p) == AtRest(call[p].left - 1, call[p].met \/ \E q \in Procs \ {p} : ~Idle(q))
Enter(p, op, label, who) ==
    call' = [call EXCEPT ![p] = [Called(p) EXCEPT !.op = op, !.at = label, !.who = who]]
EnterAndReturn(p) == call' = [call EXCEPT ![p] = Called(p)]

MayCall(p, op) == Idle(p) /\ op \in Ops /\ call[p].left > 0
Open == ~closed                               \* ensureOpen

\* The response headers of a 200 put a new session of u in the jar, before the
\* body is known to decode.
SetCookie(u, torn) ==
    /\ Len(owner) < MaxCookies
    /\ owner' = Append(owner, [who |-> u, torn |-> torn])
    /\ jar' = Len(owner) + 1

FaultyRefused(p) ==
    /\ call[p].at \in {"start", "wire", "posted", "last"} /\ Return(p)
    /\ UNCHANGED <<owner, session>>
\* A transport error, a status that changes nothing here (401, 403, 202), or any
\* answer to an enrollment or a last RPC.  Refresh releases the guard it holds.
Refused(p) ==
    /\ call[p].at \in {"start", "wire", "posted", "last"}
    /\ IF call[p].at = "posted"
       THEN guards' = [guards EXCEPT ![call[p].g].mu = None]
       ELSE UNCHANGED guards
    /\ Return(p)
    /\ UNCHANGED <<owner, jar, memo, scope, device, adopted, closed, home>>

-----------------------------------------------------------------------------
\* The login family: Login, VerifyMfa, MfaSetupConfirm and the WebAuthn setup
\* completion all forget first, then post, then absorb and report.
BeginLogin(p, u) ==
    /\ MayCall(p, "login") /\ Open
    /\ Forget
    /\ Enter(p, "login", "wire", u)
    /\ UNCHANGED <<owner, jar, guards, adopted, closed, home>>

\* LoginOpaque: login/start, then login/finish, which ends as Login does.
BeginOpaque(p, u) ==
    /\ MayCall(p, "opaque") /\ Open
    /\ Forget
    /\ Enter(p, "opaque", "start", u)
    /\ UNCHANGED <<owner, jar, guards, adopted, closed, home>>

OpaqueStarted(p) ==
    /\ At(p, "opaque", "start")
    /\ call' = [call EXCEPT ![p].op = "login", ![p].at = "wire"]
    /\ UNCHANGED <<owner, session>>

\* KE2 does not open and the tenant's mode is optional: a whole Login follows.
OpaqueFallsBack(p) ==
    /\ At(p, "opaque", "start")
    /\ IF closed THEN Return(p) /\ UNCHANGED <<memo, scope, device>>
       ELSE /\ Forget
            /\ call' = [call EXCEPT ![p].op = "login", ![p].at = "wire"]
    /\ UNCHANGED <<owner, jar, guards, adopted, closed, home>>

\* webauthnFinish: a passkey sign-in posts and absorbs like Login; its answer
\* has no LoginUserInfo to report.
BeginPasskey(p, u) ==
    /\ MayCall(p, "passkey") /\ Open
    /\ Forget
    /\ Enter(p, "passkey", "wire", u)
    /\ UNCHANGED <<owner, jar, guards, adopted, closed, home>>

\* SsoComplete and completeFederationSession post first (and do not ask
\* ensureOpen).
BeginSso(p, u) ==
    /\ MayCall(p, "sso")
    /\ Enter(p, "sso", "wire", u)
    /\ UNCHANGED <<owner, session>>

SignedIn(p) ==
    /\ call[p].op \in {"login", "passkey", "sso"} /\ call[p].at = "wire"
    /\ SetCookie(call[p].who, "no")
    /\ Goto(p, "absorb")
    /\ UNCHANGED <<guards, memo, scope, device, adopted, closed, home>>

SignedInUndecodable(p) ==
    /\ call[p].op \in {"login", "passkey", "sso"} \cap Undecodable /\ call[p].at = "wire"
    /\ SetCookie(call[p].who, call[p].op)
    /\ Return(p)
    /\ UNCHANGED <<guards, memo, scope, device, adopted, closed, home>>

\* absorbSessionCookies up to guard.Load(): the access cookie is read back from
\* the jar, where another call may have replaced or removed it.
Absorb(p) ==
    /\ call[p].at = "absorb"
    /\ IF jar = 0 THEN Return(p)
       ELSE call' = [call EXCEPT ![p].at = "seed", ![p].tok = jar, ![p].g = Current]
    /\ UNCHANGED <<owner, session>>

\* Guard.Seed, which waits for mu like any other user of the guard.
Seed(p) ==
    /\ call[p].at = "seed"
    /\ guards[call[p].g].mu = None
    /\ guards' = [guards EXCEPT ![call[p].g].access = call[p].tok,
                                ![call[p].g].hasAny = TRUE]
    /\ CASE call[p].op = "login" -> Goto(p, "report")
         [] call[p].op = "sso" -> Goto(p, "forget")
         [] call[p].op = "passkey" -> Return(p)
    /\ UNCHANGED <<owner, jar, memo, scope, device, adopted, closed, home>>

\* setPrincipalTenantID, then setScope, with the LoginUserInfo of the response.
ReportHome(p) ==
    /\ call[p].at = "report"
    /\ home' = call[p].who
    /\ Goto(p, "scope")
    /\ UNCHANGED <<owner, jar, guards, memo, scope, device, adopted, closed>>

ReportScope(p) ==
    /\ call[p].at = "scope"
    /\ scope' = call[p].who
    /\ Return(p)
    /\ UNCHANGED <<owner, jar, guards, memo, device, adopted, closed, home>>

\* An SSO completion forgets last.
FaultyForgetLast(p) ==
    /\ call[p].at = "forget" /\ memo' = NoDecision /\ device' = None /\ Return(p)
    /\ UNCHANGED <<owner, jar, guards, scope, adopted, closed, home>>
ForgetLast(p) ==
    /\ call[p].at = "forget"
    /\ Forget
    /\ Return(p)
    /\ UNCHANGED <<owner, jar, guards, adopted, closed, home>>

-----------------------------------------------------------------------------
\* Refresh clears the memo, notes the jar's access cookie and loads the guard.
BeginRefresh(p) ==
    /\ MayCall(p, "refresh") /\ Open
    /\ memo' = NoDecision
    /\ IF jar = 0 THEN EnterAndReturn(p)
       ELSE call' = [call EXCEPT ![p] = [Called(p) EXCEPT
                        !.op = "refresh", !.at = "lock", !.tok = jar, !.g = Current]]
    /\ UNCHANGED <<owner, jar, guards, scope, device, adopted, closed, home>>

\* Refresh returns nil, to the application or to the RPC that asked for it.
Refreshed(p) == IF call[p].op = "rpc" THEN Goto(p, "again") ELSE Return(p)

\* RefreshIfNeeded acquires mu; its double-check ends the call or lets it post.
LockGuard(p) ==
    LET g == call[p].g
    IN  /\ call[p].at = "lock"
        /\ guards[g].mu = None
        /\ IF guards[g].hasAny /\ guards[g].access # call[p].tok
           THEN Refreshed(p) /\ UNCHANGED guards
           ELSE /\ guards' = [guards EXCEPT ![g].mu = p]
                /\ call' = [call EXCEPT ![p].at = "posted", ![p].who = CookieOwner]
        /\ UNCHANGED <<owner, jar, memo, scope, device, adopted, closed, home>>

\* 200: the server renews the session whose cookie the request carried.
Renewed(p) ==
    /\ call[p].at = "posted" /\ call[p].who # None
    /\ SetCookie(call[p].who, "no")
    /\ Goto(p, "store")
    /\ UNCHANGED <<guards, memo, scope, device, adopted, closed, home>>

RenewedUndecodable(p) ==
    /\ call[p].at = "posted" /\ call[p].who # None /\ "refresh" \in Undecodable
    /\ SetCookie(call[p].who, "refresh")
    /\ guards' = [guards EXCEPT ![call[p].g].mu = None]
    /\ Return(p)
    /\ UNCHANGED <<memo, scope, device, adopted, closed, home>>

\* The new access cookie is read from the jar and stored in the guard the call
\* loaded at its beginning, current or not; an empty jar is an error.
FaultyStore(p) ==
    /\ call[p].at = "store" /\ jar # 0
    /\ guards' = [[guards EXCEPT ![call[p].g].mu = None]
                    EXCEPT ![Current].access = jar, ![Current].hasAny = TRUE]
    /\ Return(p)
    /\ UNCHANGED <<owner, jar, memo, scope, device, adopted, closed, home>>
Store(p) ==
    /\ call[p].at = "store"
    /\ guards' = [guards EXCEPT ![call[p].g] =
                    IF jar = 0 THEN [@ EXCEPT !.mu = None]
                    ELSE [hasAny |-> TRUE, access |-> jar, mu |-> None]]
    /\ IF jar = 0 THEN Return(p) ELSE Refreshed(p)
    /\ UNCHANGED <<owner, jar, memo, scope, device, adopted, closed, home>>

-----------------------------------------------------------------------------
\* The gRPC clients (CheckAccess, BatchCheck, ValidateToken, IntrospectToken,
\* GetUserInfo): an RPC leaves with the token the guard holds; TokenGrpcClient
\* and UserInfoClient make none without one.
CachedToken == guards[Current].access

BeginRpc(p) ==
    /\ MayCall(p, "rpc")
    /\ \/ CachedToken = 0 /\ EnterAndReturn(p)
       \/ call' = [call EXCEPT ![p] = [Called(p) EXCEPT
                        !.op = "rpc", !.at = "wire", !.sent = CachedToken]]
    /\ UNCHANGED <<owner, session>>

\* UNAUTHENTICATED: Refresh, and nothing more if it fails.
Unauthenticated(p) ==
    /\ At(p, "rpc", "wire")
    /\ memo' = IF closed THEN memo ELSE NoDecision
    /\ IF closed \/ jar = 0 THEN Return(p)
       ELSE call' = [call EXCEPT ![p].at = "lock", ![p].tok = jar, ![p].g = Current]
    /\ UNCHANGED <<owner, jar, guards, scope, device, adopted, closed, home>>

\* The retry, whose answer is the call's whatever it is.
RpcAgain(p) ==
    /\ At(p, "rpc", "again")
    /\ call' = [call EXCEPT ![p].at = "last", ![p].tok = CachedToken]
    /\ UNCHANGED <<owner, session>>

-----------------------------------------------------------------------------
BeginLogout(p) ==
    /\ MayCall(p, "logout") /\ Open
    /\ Forget
    /\ IF jar = 0 THEN EnterAndReturn(p) ELSE Enter(p, "logout", "wire", None)
    /\ UNCHANGED <<owner, jar, guards, adopted, closed, home>>

\* The server may or may not clear the cookies with its answer; the guard is
\* replaced, the adopted token stays.
LoggedOut(p) ==
    /\ At(p, "logout", "wire")
    /\ jar' \in {0, jar}
    /\ guards' = Append(guards, FreshGuard)
    /\ Return(p)
    /\ UNCHANGED <<owner, memo, scope, device, adopted, closed, home>>

-----------------------------------------------------------------------------
\* AuthenticateDevice: posted without any credential; on a 200 it clears what
\* the Client held, one lock at a time, and adopts the token last.
BeginDevice(p) ==
    /\ MayCall(p, "device") /\ Open
    /\ Enter(p, "device", "wire", Device)
    /\ UNCHANGED <<owner, session>>

DeviceAnswered(p) ==
    /\ At(p, "device", "wire")
    /\ guards' = Append(guards, FreshGuard)
    /\ adopted' = None
    /\ Goto(p, "clear")
    /\ UNCHANGED <<owner, jar, memo, scope, device, closed, home>>

DeviceClear(p) ==
    /\ At(p, "device", "clear")
    /\ Forget
    /\ Goto(p, "adopt")
    /\ UNCHANGED <<owner, jar, guards, adopted, closed, home>>

DeviceAdopt(p) ==
    /\ At(p, "device", "adopt")
    /\ device' = Device
    /\ Return(p)
    /\ UNCHANGED <<owner, jar, guards, memo, scope, adopted, closed, home>>

-----------------------------------------------------------------------------
\* LoginClientCredentials with AdoptAsCredential (also the device grant, CIBA
\* and native-SSO adoptions): no ensureOpen, and the memo is not cleared.
BeginAdopt(p) ==
    /\ MayCall(p, "adopt")
    /\ Enter(p, "adopt", "wire", Service)
    /\ UNCHANGED <<owner, session>>

Granted(p) ==
    /\ At(p, "adopt", "wire")
    /\ scope' = None
    /\ device' = None
    /\ Goto(p, "adopt")
    /\ UNCHANGED <<owner, jar, guards, memo, adopted, closed, home>>

GrantAdopt(p) ==
    /\ At(p, "adopt", "adopt")
    /\ adopted' = Service
    /\ Return(p)
    /\ UNCHANGED <<owner, jar, guards, memo, scope, device, closed, home>>

-----------------------------------------------------------------------------
\* checkAccessWithRetry: the memo first; on a miss the request leaves with the
\* credential of that moment.
BeginCheck(p, k) ==
    /\ MayCall(p, "check") /\ Open
    /\ IF memo[k] # None THEN EnterAndReturn(p)
       ELSE call' = [call EXCEPT ![p] = [Called(p) EXCEPT
                        !.op = "check", !.at = "wire", !.who = ActsAs, !.key = k]]
    /\ UNCHANGED <<owner, session>>

\* A NetworkError is retried with whatever credential is current by then.
Resend(p) ==
    /\ At(p, "check", "wire")
    /\ call' = [call EXCEPT ![p].who = ActsAs]
    /\ UNCHANGED <<owner, session>>

Decided(p) ==
    /\ At(p, "check", "wire") /\ call[p].who # None
    /\ memo' = [memo EXCEPT ![call[p].key] = call[p].who]
    /\ Return(p)
    /\ UNCHANGED <<owner, jar, guards, scope, device, adopted, closed, home>>

\* A memo entry reaches its TTL (decisionMemo.get).
Expire(k) ==
    /\ memo[k] # None
    /\ memo' = [memo EXCEPT ![k] = None]
    /\ UNCHANGED <<owner, jar, guards, scope, device, adopted, closed, call, home>>

\* OpaqueEnrollmentForSelf: the record is sealed against the cached home tenant.
BeginEnroll(p) ==
    /\ MayCall(p, "enroll")
    /\ IF home = None \/ closed THEN EnterAndReturn(p) ELSE Enter(p, "enroll", "wire", home)
    /\ UNCHANGED <<owner, session>>

Close(p) ==
    /\ MayCall(p, "close")
    /\ closed' = TRUE
    /\ memo' = NoDecision
    /\ EnterAndReturn(p)
    /\ UNCHANGED <<owner, jar, guards, scope, device, adopted, home>>

-----------------------------------------------------------------------------
\* What a goroutine does once its call is under way.
Progress(p) ==
    \/ Refused(p)
    \/ OpaqueStarted(p) \/ OpaqueFallsBack(p)
    \/ SignedIn(p) \/ SignedInUndecodable(p) \/ Absorb(p) \/ Seed(p)
    \/ ReportHome(p) \/ ReportScope(p) \/ ForgetLast(p)
    \/ LockGuard(p) \/ Renewed(p) \/ RenewedUndecodable(p) \/ Store(p)
    \/ Unauthenticated(p) \/ RpcAgain(p)
    \/ LoggedOut(p)
    \/ DeviceAnswered(p) \/ DeviceClear(p) \/ DeviceAdopt(p)
    \/ Granted(p) \/ GrantAdopt(p)
    \/ Decided(p)

Next ==
    \/ \E p \in Procs :
        \/ \E u \in Users :
              BeginLogin(p, u) \/ BeginOpaque(p, u) \/ BeginPasskey(p, u) \/ BeginSso(p, u)
        \/ \E k \in Questions : BeginCheck(p, k)
        \/ BeginRefresh(p) \/ BeginLogout(p) \/ BeginDevice(p) \/ BeginAdopt(p)
        \/ BeginRpc(p) \/ BeginEnroll(p) \/ Close(p) \/ Resend(p)
        \/ Progress(p)
    \/ \E k \in Questions : Expire(k)

Spec == Init /\ [][Next]_vars

\* A wire call ends (timeout at the latest), goroutines are scheduled and mu
\* is handed over fairly.
FairSpec == Spec /\ \A p \in Procs : SF_vars(Progress(p))

-----------------------------------------------------------------------------
TypeOK ==
    /\ owner \in Seq([who : Users, torn : {"no", "login", "passkey", "sso", "refresh"}]) /\ Len(owner) <= MaxCookies
    /\ jar \in 0 .. Len(owner)
    /\ guards \in Seq([hasAny : BOOLEAN, access : 0 .. Len(owner), mu : Procs \cup {None}])
    /\ memo \in [Questions -> Principals \cup {None}]
    /\ scope \in Users \cup {None} /\ home \in Users \cup {None}
    /\ device \in {None, Device} /\ adopted \in {None, Service}
    /\ closed \in BOOLEAN
    /\ \A p \in Procs :
         /\ call[p].op \in AllOps \cup {"none"}
         /\ call[p].at \in {"idle", "start", "wire", "absorb", "seed", "report", "scope", "forget",
                            "lock", "posted", "store", "again", "last", "clear", "adopt"}
         /\ call[p].who \in Principals \cup {None}
         /\ call[p].key \in Questions \cup {None}
         /\ {call[p].tok, call[p].sent} \subseteq 0 .. Len(owner) /\ call[p].g \in 1 .. Len(guards)
         /\ call[p].left \in Nat /\ call[p].met \in BOOLEAN

Quiet == \A p \in Procs : Idle(p)

\* One call at a time so far; between calls, the one before has returned.
Alone == \A p \in Procs : ~call[p].met
OneAtATime == Quiet /\ Alone

\* The jar's cookie came with an answer that op could not decode.
TornBy(ops) == jar # 0 /\ owner[jar].torn \in ops

\* Between calls, the memo holds decisions about the principal the next request
\* would act as, and nobody else (decision_memo.go:175-179: re-authentication
\* "as a DIFFERENT principal would otherwise read the previous principal's
\* decisions").  An adoption of client credentials is excepted, as oidc.go:645-659
\* does not clear the memo, and so is an SSO answer that did not decode, after
\* which oidc.go:896 returns before it would be cleared.
MemoIsCurrent ==
    OneAtATime /\ adopted = None /\ ~TornBy({"sso"}) =>
        \A k \in Questions : memo[k] \in {None, ActsAs}

\* Between calls, the reach ActingTenant gates on is that of the signed-in
\* principal (oidc.go:903-906: "so ActingTenant does not gate on a stale
\* report"), with the same exception; and the cached home tenant is the one the
\* same answer reported.
ScopeIsCurrent ==
    OneAtATime /\ scope # None /\ ~TornBy({"sso"}) => scope = CookieOwner /\ home = scope

\* Between calls, the guard's baseline is the jar's access cookie (guard.go:
\* 117-119), so that the next Refresh does go to the server; unless that cookie
\* came with an answer that did not decode.
GuardFollowsJar ==
    OneAtATime /\ jar # 0 /\ ~TornBy(Undecodable) /\ guards[Current].hasAny
      => guards[Current].access = jar

\* Between calls, the two adopted bearer credentials exclude each other
\* (client.go:832-835: "mutually exclusive per Client (adopting one clears the
\* other)").
OneBearer == OneAtATime => device = None \/ adopted = None

\* An RPC is repeated with another token than the one that was refused
\* (grpc/client.go: refresh "returns once a fresh access token is cached"),
\* unless the jar's cookie came with an answer that did not decode.
RetryBringsNews ==
    Alone /\ ~TornBy(Undecodable) =>
        \A p \in Procs : At(p, "rpc", "last") => call[p].tok # call[p].sent

\* However calls followed one another, what the Client keeps is about the
\* principal its next request acts as: decisions, reach, baseline and bearer.
NothingStale ==
    TypeOK /\ MemoIsCurrent /\ ScopeIsCurrent /\ GuardFollowsJar /\ OneBearer /\ RetryBringsNews

\* A record for the caller's own password is sealed against the tenant of the
\* account that is signed in (opaque_login.go: "the tenant the caller's account
\* lives in").
SealedForOwnAccount ==
    Alone /\ ~TornBy(Undecodable) /\ CookieOwner # None =>
        \A p \in Procs : At(p, "enroll", "wire") => call[p].who = CookieOwner

\* A call that loaded the guard before Logout or AuthenticateDevice replaced it
\* never writes to the replacement (client.go:214-218): the tokens of the
\* session that ended do not come back.
LateWritesStayOut ==
    [][\A p \in Procs :
         call[p].g # Current /\ call'[p] # call[p] /\ call[p].at \in {"seed", "lock", "posted", "store"}
           => guards'[Current] = guards[Current]]_vars

\* Every call returns, and with it every guard it locked is free again.
CallsReturn == \A p \in Procs : ~Idle(p) ~> Idle(p)
=============================================================================
