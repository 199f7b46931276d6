--------------------------- MODULE ResourceServer ---------------------------
(***************************************************************************)
(* A server guarded by the SDK: middleware.Middleware, then RequireAccess  *)
(* (middleware/nethttp.go, require.go), around one jwks.Verifier shared by *)
(* all requests (internal/jwks/verifier.go).  A request is a goroutine.    *)
(* It tries the cached key set without a lock; if its token does not       *)
(* verify it takes refreshMu, tries the cached set again and, still        *)
(* failing, refetches the keys once while holding it.  Claims, sender      *)
(* constraint and revocation feed follow, then the authorization check.    *)
(*                                                                         *)
(* An ID token (kind "id") is verified for a relying party by VerifyPayload *)
(* on the same machinery, except that only an unknown kid is refetched for *)
(* and a bad signature under a known one is final.                         *)
(*                                                                         *)
(* Published[v] is the key set of the server's v-th rotation; the cache is *)
(* the version it holds, 0 when it holds none.  Outside this code: the     *)
(* rotation, the jwx cache's own background refresh, the feed's answer     *)
(* (see RevocationFeed) and the answer of the access check.                *)
(*                                                                         *)
(* AdmitMetadataPath, RefetchUnlocked and KeepLock are faulty variants of  *)
(* the definition that follows each; Next uses none of them.               *)
(***************************************************************************)
EXTENDS TokenRules

CONSTANTS
    Goroutines, Nobody,
    RequestsOf,   \* the requests each goroutine may be serving
    Options,      \* the guard's configured tenant, issuer and audience
    RelyingParty, \* the expectations an ID token is checked against
    Published,    \* Seq of sets of key ids
    Sessions,     \* session ids that may be revoked
    MaxTime

ASSUME ServerConstants ==
    /\ Nobody \notin Goroutines
    /\ MaxTime \in Nat
    /\ Len(Published) \in Nat \ {0}
    /\ RelyingParty.skew \in Int
    /\ \A g \in Goroutines : \A r \in RequestsOf[g] :
         /\ r.kind \in {"access", "id"}
         /\ {r.genuine, r.safe, r.csrf, r.metadata} \subseteq BOOLEAN
         /\ {r.claims.exp, r.claims.nbf, r.claims.iat} \subseteq Int \union {None, Bad}

VARIABLES
    now,
    version,      \* what the server publishes
    cached,       \* what the verifier's cache holds
    refreshMu,
    revoked,      \* the sessions the feed reports
    call          \* per goroutine: its request and where it stands

vars == <<now, version, cached, refreshMu, revoked, call>>

Versions == 0 .. Len(Published)

Keys(v) == IF v = 0 THEN {} ELSE Published[v]

\* since: the version published when the call began; got: the one it
\* refetched; judged: when its claims were; how: its outcome.
NoCall == [at |-> "idle", req |-> None, since |-> 0, got |-> 0, judged |-> 0, how |-> None]

Init ==
    /\ now = 0
    /\ version = 1
    /\ cached \in {0, 1}
    /\ refreshMu = Nobody
    /\ revoked = {}
    /\ call = [g \in Goroutines |-> NoCall]

Update(g, c) == call' = [call EXCEPT ![g] = c]

Refuse(g, how) == Update(g, [call[g] EXCEPT !.at = "done", !.how = how])

\* jws.Verify against a key set; lookupKeyID asks for the kid alone.
Verifies(r, v) == r.kid \in Keys(v) /\ (r.kind = "access" => r.genuine)

-----------------------------------------------------------------------------
\* isCsrfValid is asked only of a cookie on an unsafe method.
Screened(r) == Verdict(<<
    Check(r.source = "none", "no_credentials"),
    Check(r.source = "cookie" /\ ~r.safe /\ ~r.csrf, "csrf"),
    Check(r.alg # "EdDSA", "alg") >>)

AdmitMetadataPath(g, r) ==
    /\ call[g].at = "idle" /\ r.metadata
    /\ Update(g, [NoCall EXCEPT !.req = r, !.since = version, !.at = "authorize"])
    /\ UNCHANGED <<now, version, cached, refreshMu, revoked>>
\* The metadata document is handed on without an identity; RequireAccess, if
\* it guards that path, refuses it.
ServeMetadata(g, r) ==
    /\ call[g].at = "idle"
    /\ r.metadata
    /\ Update(g, [NoCall EXCEPT !.req = r, !.since = version, !.at = "done", !.how = "no_identity"])
    /\ UNCHANGED <<now, version, cached, refreshMu, revoked>>

\* Everything up to the key lookup; a cached key that verifies needs no lock.
Arrive(g, r) ==
    /\ call[g].at = "idle"
    /\ ~r.metadata
    /\ LET c == [NoCall EXCEPT !.req = r, !.since = version] IN
       \/ Screened(r) # "ok" /\ Update(g, [c EXCEPT !.at = "done", !.how = Screened(r)])
       \/ Screened(r) = "ok" /\ Verifies(r, cached) /\ Update(g, [c EXCEPT !.at = "judge"])
       \/ Screened(r) = "ok" /\ ~Verifies(r, cached) /\ Update(g, [c EXCEPT !.at = "lock"])
    /\ UNCHANGED <<now, version, cached, refreshMu, revoked>>

\* Another goroutine may have refetched while this one waited for the lock.
Recheck(g) ==
    /\ call[g].at = "lock"
    /\ refreshMu = Nobody
    /\ Verifies(call[g].req, cached)
    /\ Update(g, [call[g] EXCEPT !.at = "judge"])
    /\ UNCHANGED <<now, version, cached, refreshMu, revoked>>

RefetchUnlocked(g) ==
    /\ call[g].at = "lock" /\ refreshMu = Nobody
    /\ Update(g, [call[g] EXCEPT !.at = "refetch"]) /\ refreshMu' = g
    /\ UNCHANGED <<now, version, cached, revoked>>
\* v.cache.Refresh is called with the lock held.
StartRefetch(g) ==
    /\ call[g].at = "lock"
    /\ refreshMu = Nobody
    /\ ~Verifies(call[g].req, cached)
    /\ Update(g, [call[g] EXCEPT !.at = "refetch"])
    /\ refreshMu' = g
    /\ UNCHANGED <<now, version, cached, revoked>>

\* The server answers with what it publishes at that instant ...
Render(g) ==
    /\ call[g].at = "refetch"
    /\ Update(g, [call[g] EXCEPT !.at = "install", !.got = version])
    /\ UNCHANGED <<now, version, cached, refreshMu, revoked>>

\* ... which becomes the cached set; the retry is against the fetched one.
Install(g) ==
    /\ call[g].at = "install"
    /\ cached' = call[g].got
    /\ refreshMu' = Nobody
    /\ IF Verifies(call[g].req, call[g].got)
       THEN Update(g, [call[g] EXCEPT !.at = "judge"])
       ELSE Refuse(g, "signature")
    /\ UNCHANGED <<now, version, revoked>>

KeepLock(g) ==
    /\ call[g].at = "refetch" /\ Refuse(g, "refetch")
    /\ UNCHANGED <<now, version, cached, refreshMu, revoked>>
\* refreshErr: the lock is released, the verification error returned.
RefetchFails(g) ==
    /\ call[g].at = "refetch"
    /\ refreshMu' = Nobody
    /\ Refuse(g, "refetch")
    /\ UNCHANGED <<now, version, cached, revoked>>

\* Middleware has a certificate to show and never a DPoP proof; the tenant
\* header is compared last.
Judgement(r) == Verdict(<<
    Check(ValidateClaims(r.claims, Options, now) # "ok", "claims"),
    Check(VerifyTokenBinding(r.cnf, [cert |-> r.cert, dpop |-> None]) # "ok", "binding"),
    Check(r.sid # None /\ r.sid \in revoked, "revoked"),
    Check(r.header # None /\ r.header # r.claims.tenant, "tenant_header") >>)

IdJudgement(r) == Verdict(<<
    Check(~r.genuine, "bad_signature"),
    Check(ValidateIDToken(r.claims, RelyingParty, now) # "ok", "claims") >>)

Judge(g) ==
    /\ call[g].at = "judge"
    /\ LET r == call[g].req
           verdict == IF r.kind = "id" THEN IdJudgement(r) ELSE Judgement(r)
           passed == verdict = "ok"
       IN  Update(g, [call[g] EXCEPT !.judged = now,
                                     !.at = IF passed /\ r.kind = "access" THEN "authorize" ELSE "done",
                                     !.how = IF ~passed THEN verdict
                                             ELSE IF r.kind = "id" THEN "accepted" ELSE None])
    /\ UNCHANGED <<now, version, cached, refreshMu, revoked>>

\* RequireAccess: resource id, then the access check, then the handler.
Authorize(g) ==
    /\ call[g].at = "authorize"
    /\ \E how \in {"no_resource", "unavailable", "denied", "handled"} : Refuse(g, how)
    /\ UNCHANGED <<now, version, cached, refreshMu, revoked>>

-----------------------------------------------------------------------------
Rotate == version < Len(Published) /\ version' = version + 1 /\ UNCHANGED <<now, cached, refreshMu, revoked, call>>

\* The jwx cache refreshes itself at its own pace.
BackgroundRefresh ==
    cached # version /\ cached' = version /\ UNCHANGED <<now, version, refreshMu, revoked, call>>

Revoke(s) == s \notin revoked /\ revoked' = revoked \cup {s} /\ UNCHANGED <<now, version, cached, refreshMu, call>>

Tick == now < MaxTime /\ now' = now + 1 /\ UNCHANGED <<version, cached, refreshMu, revoked, call>>

Serve(g) ==
    \/ Recheck(g) \/ StartRefetch(g) \/ Render(g) \/ Install(g) \/ RefetchFails(g)
    \/ Judge(g) \/ Authorize(g)

Next ==
    \/ \E g \in Goroutines : Serve(g) \/ \E r \in RequestsOf[g] : Arrive(g, r) \/ ServeMetadata(g, r)
    \/ Rotate \/ BackgroundRefresh \/ Tick
    \/ \E s \in Sessions : Revoke(s)

Spec == Init /\ [][Next]_vars

\* Fetches end (the client's timeout), the access check answers or fails, and
\* sync.Mutex is starvation-free.
Fairness ==
    \A g \in Goroutines :
        /\ SF_vars(Recheck(g) \/ StartRefetch(g))
        /\ WF_vars(Render(g) \/ RefetchFails(g)) /\ WF_vars(Install(g))
        /\ WF_vars(Judge(g)) /\ WF_vars(Authorize(g))

FairSpec == Spec /\ Fairness

-----------------------------------------------------------------------------
TypeOK ==
    /\ now \in 0 .. MaxTime
    /\ version \in Versions \ {0}
    /\ cached \in 0 .. version
    /\ refreshMu \in Goroutines \cup {Nobody}
    /\ revoked \subseteq Sessions
    /\ \A g \in Goroutines :
         /\ call[g].at \in {"idle", "lock", "refetch", "install", "judge", "authorize", "done"}
         /\ call[g].at # "idle" => call[g].req \in RequestsOf[g]
         /\ call[g].since \in 0 .. version /\ call[g].got \in 0 .. version
         /\ call[g].judged \in 0 .. now

Ended(g, how) == call[g].at = "done" /\ call[g].how = how

\* What a request that reached the protected handler must have shown, by the
\* rules of ValidateClaims (validate.go:89-131) and the table above
\* VerifyTokenBinding: a token signed by a key the server has published, within
\* its validity, for this tenant, whose sender constraint is met by a
\* certificate alone; and a cookie on an unsafe method came with its CSRF
\* header.  No path skips a rule (verifier.go:151-173), and an ID token is
\* accepted only with its nonce (oidc_idtoken.go:227).
EntitledOnly ==
    \A g \in Goroutines :
        LET r == call[g].req  t == call[g].judged  c == r.claims
            signed == r.genuine /\ r.alg = "EdDSA" /\ \E v \in 1 .. version : r.kid \in Published[v]
        IN  /\ Ended(g, "handled") =>
                 /\ signed
                 /\ c.exp \in Int /\ t < c.exp + Leeway
                 /\ c.nbf \in Int => c.nbf <= t + Leeway
                 /\ c.tenant = Options.tenant /\ r.header \in {None, c.tenant}
                 /\ r.cnf # None => r.cnf.jkt = None /\ r.cnf.x5t # None /\ r.cnf.x5t = r.cert
                 /\ r.source = "cookie" => r.safe \/ r.csrf
                 /\ ~r.metadata
            /\ Ended(g, "accepted") =>
                 signed /\ c.exp \in Int /\ t < c.exp + MaxSkew /\ RelyingParty.nonce \in {None, c.nonce}

\* A genuine token is refused for its signature only if its key was missing
\* from what the server published at some time during the call: a stale cache
\* alone never refuses a token (verifier.go:178-183).
RotatedKeyFound ==
    \A g \in Goroutines :
        LET c == call[g] IN
        Ended(g, "signature") /\ c.req.genuine
          => \E v \in c.since .. c.got : c.req.kid \notin Keys(v)

\* Of the calls in flight, two that refetched the same version did not both
\* need it: a burst of tokens signed by a newly published key makes one fetch
\* (verifier.go:219-226).
BurstFetchesOnce ==
    \A g, h \in Goroutines :
        LET c == call[g]  d == call[h] IN
        g # h /\ c.got # 0 /\ c.got = d.got => ~(Verifies(c.req, c.got) /\ Verifies(d.req, d.got))

\* refreshAndVerify: neither a refusal nor a fetch that the cache spares.
RefetchIsApt == TypeOK /\ RotatedKeyFound /\ BurstFetchesOnce

\* Every request is answered: refreshMu is released on every path.
RequestsEnd == \A g \in Goroutines : call[g].at # "idle" ~> call[g].at = "done"
=============================================================================
