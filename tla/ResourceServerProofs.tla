------------------------ MODULE ResourceServerProofs ------------------------
(***************************************************************************)
(* Nobody gets past the guard unentitled, for any requests, options, key   *)
(* rotations, leeway and number of goroutines.                             *)
(***************************************************************************)
EXTENDS ResourceServer, WellFoundedInduction, TLAPS

(* Every set of naturals has a least element. *)
LEMMA Least ==
  ASSUME NEW T \in SUBSET Nat, T # {}
  PROVE  \E m \in T : \A k \in T : m <= k
<1> DEFINE R == {ss \in Nat \X Nat : ss[1] < ss[2]}
<1>1. IsWellFoundedOn(R, Nat)
  BY NatLessThanWellFounded, Zenon DEF OpToRel
<1>2. \A S : S \subseteq Nat /\ S # {} => \E x \in S : \A y \in S : <<y, x>> \notin R
  BY <1>1, WFMin
<1>3. PICK m \in T : \A y \in T : <<y, m>> \notin R
  BY <1>2
<1>4. \A y \in T : ~(y < m)
  BY <1>3
<1> QED
  BY <1>4

(* A verdict is "ok" when no check fails, and otherwise the reason of one that
   does. *)
LEMMA VerdictIs ==
  ASSUME NEW n \in Nat, NEW checks, DOMAIN checks = 1 .. n,
         \A i \in 1 .. n : checks[i].fails \in BOOLEAN
  PROVE  \/ Verdict(checks) = "ok" /\ \A i \in 1 .. n : ~checks[i].fails
         \/ \E i \in 1 .. n : checks[i].fails /\ Verdict(checks) = checks[i].reason
<1> DEFINE F == {i \in 1 .. n : checks[i].fails}
           First(i) == checks[i].fails /\ \A j \in 1 .. i - 1 : ~checks[j].fails
<1>1. CASE F = {}
  BY <1>1 DEF Verdict
<1>2. CASE F # {}
  <2>1. PICK m \in F : \A k \in F : m <= k
    <3>1. F \in SUBSET Nat
      OBVIOUS
    <3> HIDE DEF F
    <3> QED
      BY <1>2, <3>1, Least
  <2>2. m \in DOMAIN checks /\ First(m)
    <3>1. m \in 1 .. n /\ checks[m].fails
      BY <2>1
    <3>2. ASSUME NEW j \in 1 .. m - 1 PROVE ~checks[j].fails
      <4>1. j \in 1 .. n /\ ~(m <= j)
        BY <3>1
      <4> QED
        BY <2>1, <4>1
    <3> QED
      BY <3>1, <3>2
  <2>3. (CHOOSE i \in DOMAIN checks : First(i)) \in 1 .. n /\ First(CHOOSE i \in DOMAIN checks : First(i))
    BY <2>2, Zenon
  <2>4. Verdict(checks) = checks[CHOOSE i \in DOMAIN checks : First(i)].reason
    BY <2>2, Zenon DEF Verdict
  <2> QED
    BY <2>3, <2>4
<1> QED
  BY <1>1, <1>2

-----------------------------------------------------------------------------
(* What each table of checks means when it says "ok". *)
LEMMA ScreenedOk ==
  ASSUME NEW g \in Goroutines, NEW r \in RequestsOf[g]
  PROVE  /\ Screened(r) = "ok" => r.alg = "EdDSA" /\ (r.source = "cookie" => r.safe \/ r.csrf)
         /\ Screened(r) \notin {"handled", "accepted", "signature"}
<1> DEFINE checks == <<
             Check(r.source = "none", "no_credentials"),
             Check(r.source = "cookie" /\ ~r.safe /\ ~r.csrf, "csrf"),
             Check(r.alg # "EdDSA", "alg") >>
<1>1. DOMAIN checks = 1 .. 3 /\ \A i \in 1 .. 3 : checks[i].fails \in BOOLEAN
  <2>1. DOMAIN checks = 1 .. 3
    OBVIOUS
  <2>2. checks[1].fails \in BOOLEAN /\ checks[2].fails \in BOOLEAN /\ checks[3].fails \in BOOLEAN
    BY DEF Check
  <2> HIDE DEF checks
  <2> QED
    BY <2>1, <2>2
<1>2. /\ checks[1].reason = "no_credentials" /\ checks[2].reason = "csrf" /\ checks[3].reason = "alg"
      /\ checks[2].fails <=> (r.source = "cookie" /\ ~r.safe /\ ~r.csrf)
      /\ checks[3].fails <=> r.alg # "EdDSA"
  BY DEF Check
<1>3. Screened(r) = Verdict(checks)
  BY Zenon DEF Screened
<1> HIDE DEF checks
<1>4. \/ Verdict(checks) = "ok" /\ \A i \in 1 .. 3 : ~checks[i].fails
      \/ \E i \in 1 .. 3 : checks[i].fails /\ Verdict(checks) = checks[i].reason
  BY <1>1, VerdictIs
<1>5. \/ Verdict(checks) = "ok" /\ ~checks[2].fails /\ ~checks[3].fails
      \/ Verdict(checks) \in {"no_credentials", "csrf", "alg"}
  BY <1>2, <1>4
<1>6. r.safe \in BOOLEAN /\ r.csrf \in BOOLEAN
  BY ServerConstants
<1> QED
  BY <1>2, <1>3, <1>5, <1>6

(* An access token whose claims pass (validate.go:89-131). *)
LEMMA ValidClaims ==
  ASSUME NEW g \in Goroutines, NEW r \in RequestsOf[g], NEW t \in Nat,
         ValidateClaims(r.claims, Options, t) = "ok"
  PROVE  /\ r.claims.exp \in Int /\ t < r.claims.exp + Leeway
         /\ r.claims.nbf \in Int => r.claims.nbf <= t + Leeway
         /\ r.claims.tenant = Options.tenant
<1> DEFINE checks == <<
             Check(Unparseable(r.claims), "malformed"),
             Check(Options.tenant = None, "no_configured_tenant"),
             Check(r.claims.tenant = None \/ r.claims.tenant # Options.tenant, "tenant"),
             Check(r.claims.exp = None, "missing_exp"),
             Check(r.claims.exp \in Int /\ Expired(r.claims, t), "expired"),
             Check(r.claims.nbf \in Int /\ NotYetValid(r.claims, t), "not_yet_valid"),
             Check(Options.issuer # None /\ r.claims.issuer # Options.issuer, "issuer"),
             Check(Options.audience # None /\ ~Names(r.claims, Options.audience), "audience") >>
<1>0. {r.claims.exp, r.claims.nbf} \subseteq Int \union {None, Bad} /\ Leeway \in Nat
  BY ServerConstants, RuleConstants
<1>1. DOMAIN checks = 1 .. 8 /\ \A i \in 1 .. 8 : checks[i].fails \in BOOLEAN
  <2>1. DOMAIN checks = 1 .. 8
    OBVIOUS
  <2>2. /\ checks[1].fails \in BOOLEAN
        /\ checks[2].fails \in BOOLEAN
        /\ checks[3].fails \in BOOLEAN
        /\ checks[4].fails \in BOOLEAN
        /\ checks[5].fails \in BOOLEAN
        /\ checks[6].fails \in BOOLEAN
        /\ checks[7].fails \in BOOLEAN
        /\ checks[8].fails \in BOOLEAN
    BY DEF Check, Unparseable, Names
  <2> HIDE DEF checks
  <2> QED
    BY <2>1, <2>2
<1>2. /\ checks[1].reason = "malformed"
      /\ checks[2].reason = "no_configured_tenant"
      /\ checks[3].reason = "tenant"
      /\ checks[4].reason = "missing_exp"
      /\ checks[5].reason = "expired"
      /\ checks[6].reason = "not_yet_valid"
      /\ checks[7].reason = "issuer"
      /\ checks[8].reason = "audience"
      /\ checks[1].fails <=> (Unparseable(r.claims))
      /\ checks[3].fails <=> (r.claims.tenant = None \/ r.claims.tenant # Options.tenant)
      /\ checks[4].fails <=> (r.claims.exp = None)
      /\ checks[5].fails <=> (r.claims.exp \in Int /\ Expired(r.claims, t))
      /\ checks[6].fails <=> (r.claims.nbf \in Int /\ NotYetValid(r.claims, t))
  BY DEF Check
<1>3. ValidateClaims(r.claims, Options, t) = Verdict(checks)
  BY Zenon DEF ValidateClaims
<1> HIDE DEF checks
<1>4. \/ Verdict(checks) = "ok" /\ \A i \in 1 .. 8 : ~checks[i].fails
      \/ \E i \in 1 .. 8 : checks[i].fails /\ Verdict(checks) = checks[i].reason
  BY <1>1, VerdictIs
<1>5. \/ Verdict(checks) = "ok" /\ ~checks[1].fails /\ ~checks[3].fails /\ ~checks[4].fails /\ ~checks[5].fails /\ ~checks[6].fails
      \/ Verdict(checks) \in {"audience", "expired", "issuer", "malformed", "missing_exp", "no_configured_tenant", "not_yet_valid", "tenant"}
  BY <1>2, <1>4
<1> QED
  BY <1>0, <1>2, <1>3, <1>5 DEF Unparseable, Expired, NotYetValid

(* A sender-constrained token that passes without a proof (validate.go:263-276). *)
LEMMA BoundToken ==
  ASSUME NEW cnf, NEW cert, cnf # None, VerifyTokenBinding(cnf, [cert |-> cert, dpop |-> None]) = "ok"
  PROVE  cnf.jkt = None /\ cnf.x5t # None /\ cnf.x5t = cert
<1> DEFINE checks == <<
             Check(cnf.x5t = None /\ cnf.jkt = None, "unverifiable"),
             Check(cnf.x5t # None /\ cert = None, "no_certificate"),
             Check(cnf.x5t # None /\ cert # cnf.x5t, "other_certificate"),
             Check(cnf.jkt # None /\ None = None, "no_proof"),
             Check(cnf.jkt # None /\ None # cnf.jkt, "other_key") >>
<1>1. DOMAIN checks = 1 .. 5 /\ \A i \in 1 .. 5 : checks[i].fails \in BOOLEAN
  <2>1. DOMAIN checks = 1 .. 5
    OBVIOUS
  <2>2. /\ checks[1].fails \in BOOLEAN
        /\ checks[2].fails \in BOOLEAN
        /\ checks[3].fails \in BOOLEAN
        /\ checks[4].fails \in BOOLEAN
        /\ checks[5].fails \in BOOLEAN
    BY DEF Check
  <2> HIDE DEF checks
  <2> QED
    BY <2>1, <2>2
<1>2. /\ checks[1].reason = "unverifiable"
      /\ checks[2].reason = "no_certificate"
      /\ checks[3].reason = "other_certificate"
      /\ checks[4].reason = "no_proof"
      /\ checks[5].reason = "other_key"
      /\ checks[1].fails <=> (cnf.x5t = None /\ cnf.jkt = None)
      /\ checks[3].fails <=> (cnf.x5t # None /\ cert # cnf.x5t)
      /\ checks[4].fails <=> (cnf.jkt # None /\ None = None)
  BY DEF Check
<1>3. VerifyTokenBinding(cnf, [cert |-> cert, dpop |-> None]) = Verdict(checks)
  BY Zenon DEF VerifyTokenBinding
<1> HIDE DEF checks
<1>4. \/ Verdict(checks) = "ok" /\ \A i \in 1 .. 5 : ~checks[i].fails
      \/ \E i \in 1 .. 5 : checks[i].fails /\ Verdict(checks) = checks[i].reason
  BY <1>1, VerdictIs
<1>5. \/ Verdict(checks) = "ok" /\ ~checks[1].fails /\ ~checks[3].fails /\ ~checks[4].fails
      \/ Verdict(checks) \in {"no_certificate", "no_proof", "other_certificate", "other_key", "unverifiable"}
  BY <1>2, <1>4
<1> QED
  BY <1>2, <1>3, <1>5

(* A list of checks passes exactly when none of them fails. *)
LEMMA PassesWhen ==
  ASSUME NEW n \in Nat, NEW checks, DOMAIN checks = 1 .. n,
         \A i \in 1 .. n : checks[i].fails \in BOOLEAN /\ checks[i].reason # "ok"
  PROVE  Verdict(checks) = "ok" <=> \A i \in 1 .. n : ~checks[i].fails
<1>1. ASSUME \A i \in 1 .. n : ~checks[i].fails PROVE Verdict(checks) = "ok"
  BY <1>1 DEF Verdict
<1> QED
  BY <1>1, VerdictIs

(* Without a DPoP proof to show, the two entry points accept the same tokens
   (validate.go:197-224 and 286-321): the one for certificates alone refuses
   nothing that the full rule accepts, and accepts nothing that it refuses. *)
THEOREM BindingsAgree ==
  ASSUME NEW cnf, NEW cert
  PROVE  VerifyCertificateBinding(cnf, cert) = "ok"
           <=> VerifyTokenBinding(cnf, [cert |-> cert, dpop |-> None]) = "ok"
<1> DEFINE full == <<
             Check(cnf.x5t = None /\ cnf.jkt = None, "unverifiable"),
             Check(cnf.x5t # None /\ cert = None, "no_certificate"),
             Check(cnf.x5t # None /\ cert # cnf.x5t, "other_certificate"),
             Check(cnf.jkt # None /\ None = None, "no_proof"),
             Check(cnf.jkt # None /\ None # cnf.jkt, "other_key") >>
           alone == <<
             Check(cnf.x5t = None, "unverifiable"),
             Check(cnf.jkt # None, "unverifiable"),
             Check(cert = None, "no_certificate"),
             Check(cert # cnf.x5t, "other_certificate") >>
<1>1. CASE cnf = None
  BY <1>1 DEF VerifyCertificateBinding, VerifyTokenBinding
<1>2. CASE cnf # None
  <2>1. /\ VerifyTokenBinding(cnf, [cert |-> cert, dpop |-> None]) = Verdict(full)
        /\ VerifyCertificateBinding(cnf, cert) = Verdict(alone)
    BY <1>2, Zenon DEF VerifyTokenBinding, VerifyCertificateBinding
  <2>2. Verdict(full) = "ok" <=> cnf.jkt = None /\ cnf.x5t # None /\ cert = cnf.x5t
    <3>1. DOMAIN full = 1 .. 5
      OBVIOUS
    <3>2. /\ full[1].fails \in BOOLEAN /\ full[1].reason # "ok"
          /\ full[2].fails \in BOOLEAN /\ full[2].reason # "ok"
          /\ full[3].fails \in BOOLEAN /\ full[3].reason # "ok"
          /\ full[4].fails \in BOOLEAN /\ full[4].reason # "ok"
          /\ full[5].fails \in BOOLEAN /\ full[5].reason # "ok"
      BY DEF Check
    <3>3. /\ full[1].fails <=> (cnf.x5t = None /\ cnf.jkt = None)
          /\ full[2].fails <=> (cnf.x5t # None /\ cert = None)
          /\ full[3].fails <=> (cnf.x5t # None /\ cert # cnf.x5t)
          /\ full[4].fails <=> (cnf.jkt # None /\ None = None)
          /\ full[5].fails <=> (cnf.jkt # None /\ None # cnf.jkt)
      BY DEF Check
    <3> HIDE DEF full
    <3>4. Verdict(full) = "ok" <=> \A i \in 1 .. 5 : ~full[i].fails
      <4>1. \A i \in 1 .. 5 : full[i].fails \in BOOLEAN /\ full[i].reason # "ok"
        BY <3>2
      <4> QED
        BY <3>1, <4>1, PassesWhen
    <3>5. (\A i \in 1 .. 5 : ~full[i].fails)
             <=> ~full[1].fails /\ ~full[2].fails /\ ~full[3].fails /\ ~full[4].fails /\ ~full[5].fails
      OBVIOUS
    <3> QED
      BY <3>3, <3>4, <3>5
  <2>3. Verdict(alone) = "ok" <=> cnf.jkt = None /\ cnf.x5t # None /\ cert = cnf.x5t
    <3>1. DOMAIN alone = 1 .. 4
      OBVIOUS
    <3>2. /\ alone[1].fails \in BOOLEAN /\ alone[1].reason # "ok"
          /\ alone[2].fails \in BOOLEAN /\ alone[2].reason # "ok"
          /\ alone[3].fails \in BOOLEAN /\ alone[3].reason # "ok"
          /\ alone[4].fails \in BOOLEAN /\ alone[4].reason # "ok"
      BY DEF Check
    <3>3. /\ alone[1].fails <=> (cnf.x5t = None)
          /\ alone[2].fails <=> (cnf.jkt # None)
          /\ alone[3].fails <=> (cert = None)
          /\ alone[4].fails <=> (cert # cnf.x5t)
      BY DEF Check
    <3> HIDE DEF alone
    <3>4. Verdict(alone) = "ok" <=> \A i \in 1 .. 4 : ~alone[i].fails
      <4>1. \A i \in 1 .. 4 : alone[i].fails \in BOOLEAN /\ alone[i].reason # "ok"
        BY <3>2
      <4> QED
        BY <3>1, <4>1, PassesWhen
    <3>5. (\A i \in 1 .. 4 : ~alone[i].fails)
             <=> ~alone[1].fails /\ ~alone[2].fails /\ ~alone[3].fails /\ ~alone[4].fails
      OBVIOUS
    <3> QED
      BY <3>3, <3>4, <3>5
  <2> HIDE DEF full, alone
  <2> QED
    BY <2>1, <2>2, <2>3
<1> QED
  BY <1>1, <1>2

(* An ID token that passes (oidc_idtoken.go). *)
LEMMA ValidIDToken ==
  ASSUME NEW g \in Goroutines, NEW r \in RequestsOf[g], NEW t \in Nat,
         ValidateIDToken(r.claims, RelyingParty, t) = "ok"
  PROVE  /\ r.claims.exp \in Int /\ t < r.claims.exp + MaxSkew
         /\ RelyingParty.nonce \in {None, r.claims.nonce}
<1> DEFINE checks == <<
             Check(UnparseableIDToken(r.claims), "invalid_signature"),
             Check(r.claims.issuer # RelyingParty.issuer, "invalid_issuer"),
             Check(~Names(r.claims, RelyingParty.client), "invalid_audience"),
             Check(Len(Audiences(r.claims)) > 1 /\ r.claims.azp # RelyingParty.client, "invalid_audience"),
             Check(r.claims.exp = None, "token_expired"),
             Check(r.claims.exp \in Int /\ r.claims.exp + ClockSkew(RelyingParty.skew) <= t, "token_expired"),
             Check(r.claims.iat = None, "token_expired"),
             Check(r.claims.iat \in Int /\ r.claims.iat - ClockSkew(RelyingParty.skew) > t, "token_expired"),
             Check(r.claims.nbf \in Int /\ r.claims.nbf - ClockSkew(RelyingParty.skew) > t, "token_expired"),
             Check(RelyingParty.nonce # None /\ r.claims.nonce # RelyingParty.nonce, "nonce_mismatch") >>
<1>0. {r.claims.exp, r.claims.nbf} \subseteq Int \union {None, Bad} /\ MaxSkew \in Nat /\ RelyingParty.skew \in Int
  BY ServerConstants, RuleConstants
<1>1. DOMAIN checks = 1 .. 10 /\ \A i \in 1 .. 10 : checks[i].fails \in BOOLEAN
  <2>1. DOMAIN checks = 1 .. 10
    OBVIOUS
  <2>2. /\ checks[1].fails \in BOOLEAN
        /\ checks[2].fails \in BOOLEAN
        /\ checks[3].fails \in BOOLEAN
        /\ checks[4].fails \in BOOLEAN
        /\ checks[5].fails \in BOOLEAN
        /\ checks[6].fails \in BOOLEAN
        /\ checks[7].fails \in BOOLEAN
        /\ checks[8].fails \in BOOLEAN
        /\ checks[9].fails \in BOOLEAN
        /\ checks[10].fails \in BOOLEAN
    BY DEF Check, Names, UnparseableIDToken
  <2> HIDE DEF checks
  <2> QED
    BY <2>1, <2>2
<1>2. /\ checks[1].reason = "invalid_signature"
      /\ checks[2].reason = "invalid_issuer"
      /\ checks[3].reason = "invalid_audience"
      /\ checks[4].reason = "invalid_audience"
      /\ checks[5].reason = "token_expired"
      /\ checks[6].reason = "token_expired"
      /\ checks[7].reason = "token_expired"
      /\ checks[8].reason = "token_expired"
      /\ checks[9].reason = "token_expired"
      /\ checks[10].reason = "nonce_mismatch"
      /\ checks[1].fails <=> UnparseableIDToken(r.claims)
      /\ checks[5].fails <=> (r.claims.exp = None)
      /\ checks[6].fails <=> (r.claims.exp \in Int /\ r.claims.exp + ClockSkew(RelyingParty.skew) <= t)
      /\ checks[10].fails <=> (RelyingParty.nonce # None /\ r.claims.nonce # RelyingParty.nonce)
  BY DEF Check
<1>3. ValidateIDToken(r.claims, RelyingParty, t) = Verdict(checks)
  BY Zenon DEF ValidateIDToken
<1> HIDE DEF checks
<1>4. \/ Verdict(checks) = "ok" /\ \A i \in 1 .. 10 : ~checks[i].fails
      \/ \E i \in 1 .. 10 : checks[i].fails /\ Verdict(checks) = checks[i].reason
  BY <1>1, VerdictIs
<1>5. \/ Verdict(checks) = "ok" /\ ~checks[1].fails /\ ~checks[5].fails /\ ~checks[6].fails /\ ~checks[10].fails
      \/ Verdict(checks) \in {"invalid_audience", "invalid_issuer", "invalid_signature", "nonce_mismatch", "token_expired"}
  BY <1>2, <1>4
<1> QED
  BY <1>0, <1>2, <1>3, <1>5 DEF ClockSkew, UnparseableIDToken

(* What Middleware's checks after the signature say together. *)
LEMMA JudgedOk ==
  ASSUME NEW r
  PROVE  /\ Judgement(r) = "ok" =>
              /\ ValidateClaims(r.claims, Options, now) = "ok"
              /\ VerifyTokenBinding(r.cnf, [cert |-> r.cert, dpop |-> None]) = "ok"
              /\ r.header \in {None, r.claims.tenant}
         /\ Judgement(r) \notin {"handled", "accepted", "signature"}
<1> DEFINE checks == <<
             Check(ValidateClaims(r.claims, Options, now) # "ok", "claims"),
             Check(VerifyTokenBinding(r.cnf, [cert |-> r.cert, dpop |-> None]) # "ok", "binding"),
             Check(r.sid # None /\ r.sid \in revoked, "revoked"),
             Check(r.header # None /\ r.header # r.claims.tenant, "tenant_header") >>
<1>1. DOMAIN checks = 1 .. 4 /\ \A i \in 1 .. 4 : checks[i].fails \in BOOLEAN
  <2>1. DOMAIN checks = 1 .. 4
    OBVIOUS
  <2>2. /\ checks[1].fails \in BOOLEAN
        /\ checks[2].fails \in BOOLEAN
        /\ checks[3].fails \in BOOLEAN
        /\ checks[4].fails \in BOOLEAN
    BY DEF Check
  <2> HIDE DEF checks
  <2> QED
    BY <2>1, <2>2
<1>2. /\ checks[1].reason = "claims"
      /\ checks[2].reason = "binding"
      /\ checks[3].reason = "revoked"
      /\ checks[4].reason = "tenant_header"
      /\ checks[1].fails <=> (ValidateClaims(r.claims, Options, now) # "ok")
      /\ checks[2].fails <=> (VerifyTokenBinding(r.cnf, [cert |-> r.cert, dpop |-> None]) # "ok")
      /\ checks[4].fails <=> (r.header # None /\ r.header # r.claims.tenant)
  BY DEF Check
<1>3. Judgement(r) = Verdict(checks)
  BY Zenon DEF Judgement
<1> HIDE DEF checks
<1>4. \/ Verdict(checks) = "ok" /\ \A i \in 1 .. 4 : ~checks[i].fails
      \/ \E i \in 1 .. 4 : checks[i].fails /\ Verdict(checks) = checks[i].reason
  BY <1>1, VerdictIs
<1>5. \/ Verdict(checks) = "ok" /\ ~checks[1].fails /\ ~checks[2].fails /\ ~checks[4].fails
      \/ Verdict(checks) \in {"binding", "claims", "revoked", "tenant_header"}
  BY <1>2, <1>4
<1> QED
  BY <1>2, <1>3, <1>5

(* And what VerifyPayload's caller checks of an ID token. *)
LEMMA IdJudgedOk ==
  ASSUME NEW g \in Goroutines, NEW r \in RequestsOf[g]
  PROVE  /\ IdJudgement(r) = "ok" =>
              r.genuine /\ ValidateIDToken(r.claims, RelyingParty, now) = "ok"
         /\ IdJudgement(r) \notin {"handled", "accepted", "signature"}
<1> DEFINE checks == <<
             Check(~r.genuine, "bad_signature"),
             Check(ValidateIDToken(r.claims, RelyingParty, now) # "ok", "claims") >>
<1>0. r.genuine \in BOOLEAN
  BY ServerConstants, RuleConstants
<1>1. DOMAIN checks = 1 .. 2 /\ \A i \in 1 .. 2 : checks[i].fails \in BOOLEAN
  <2>1. DOMAIN checks = 1 .. 2
    OBVIOUS
  <2>2. /\ checks[1].fails \in BOOLEAN
        /\ checks[2].fails \in BOOLEAN
    BY DEF Check
  <2> HIDE DEF checks
  <2> QED
    BY <2>1, <2>2
<1>2. /\ checks[1].reason = "bad_signature"
      /\ checks[2].reason = "claims"
      /\ checks[1].fails <=> (~r.genuine)
      /\ checks[2].fails <=> (ValidateIDToken(r.claims, RelyingParty, now) # "ok")
  BY DEF Check
<1>3. IdJudgement(r) = Verdict(checks)
  BY Zenon DEF IdJudgement
<1> HIDE DEF checks
<1>4. \/ Verdict(checks) = "ok" /\ \A i \in 1 .. 2 : ~checks[i].fails
      \/ \E i \in 1 .. 2 : checks[i].fails /\ Verdict(checks) = checks[i].reason
  BY <1>1, VerdictIs
<1>5. \/ Verdict(checks) = "ok" /\ ~checks[1].fails /\ ~checks[2].fails
      \/ Verdict(checks) \in {"bad_signature", "claims"}
  BY <1>2, <1>4
<1> QED
  BY <1>0, <1>2, <1>3, <1>5

-----------------------------------------------------------------------------
(* The inductive invariant says, for every stage, what the request has shown by
   then.  A key set a call was verified against is one the server has published:
   that is what the bounds on cached and got are for. *)
IsCall(c) == DOMAIN c = {"at", "req", "since", "got", "judged", "how"}

Screens(r) == Screened(r) = "ok" /\ r.metadata = FALSE

Signed(r, v) ==
    /\ \E w \in 1 .. v : r.kid \in Published[w]
    /\ r.kind = "access" => r.genuine = TRUE

Entitled(r, t) ==
    /\ t \in Nat
    /\ r.kind = "access"
    /\ ValidateClaims(r.claims, Options, t) = "ok"
    /\ VerifyTokenBinding(r.cnf, [cert |-> r.cert, dpop |-> None]) = "ok"
    /\ r.header \in {None, r.claims.tenant}

Identified(r, t) ==
    /\ t \in Nat
    /\ r.genuine = TRUE
    /\ ValidateIDToken(r.claims, RelyingParty, t) = "ok"

Shown(g, c, v) ==
    /\ IsCall(c)
    /\ c.got \in 0 .. v
    /\ c.at # "idle" => c.req \in RequestsOf[g]
    /\ c.at \in {"lock", "refetch", "install", "judge", "authorize"} => Screens(c.req)
    /\ c.at \in {"judge", "authorize"} => Signed(c.req, v)
    /\ c.at = "authorize" => Entitled(c.req, c.judged)
    /\ c.at = "done" /\ c.how = "handled" =>
         Screens(c.req) /\ Signed(c.req, v) /\ Entitled(c.req, c.judged)
    /\ c.at = "done" /\ c.how = "accepted" =>
         Screens(c.req) /\ Signed(c.req, v) /\ Identified(c.req, c.judged)

Inv ==
    /\ now \in Nat
    /\ version \in 1 .. Len(Published)
    /\ cached \in 0 .. version
    /\ call = [g \in Goroutines |-> call[g]]
    /\ \A g \in Goroutines : Shown(g, call[g], version)

LEMMA VerifiedIsSigned ==
  ASSUME version \in 1 .. Len(Published), Len(Published) \in Nat,
         NEW v \in 0 .. version, NEW g \in Goroutines, NEW r \in RequestsOf[g], Verifies(r, v)
  PROVE  Signed(r, version)
<1>1. r.kid \in Keys(v) /\ r.genuine \in BOOLEAN
  BY ServerConstants DEF Verifies
<1>2. v # 0
  BY <1>1 DEF Keys
<1>3. v \in 1 .. version /\ r.kid \in Published[v]
  BY <1>1, <1>2 DEF Keys
<1> QED
  BY <1>1, <1>3 DEF Verifies, Signed

LEMMA InitInv == Init => Inv
<1> SUFFICES ASSUME Init PROVE Inv
  OBVIOUS
<1>1. version \in 1 .. Len(Published) /\ cached \in 0 .. version /\ now \in Nat
  BY ServerConstants DEF Init
<1>2. call = [g \in Goroutines |-> call[g]]
  BY DEF Init
<1>3. ASSUME NEW g \in Goroutines PROVE Shown(g, call[g], version)
  BY <1>1 DEF Init, NoCall, Shown, IsCall
<1> QED
  BY <1>1, <1>2, <1>3 DEF Inv

(* A step that moves the call of one goroutine and publishes nothing. *)
LEMMA OneMoves ==
  ASSUME Inv, NEW g \in Goroutines, NEW c, Update(g, c), Shown(g, c, version),
         now' = now, version' = version, cached' \in 0 .. version
  PROVE  Inv'
<1>1. call' = [h \in Goroutines |-> call'[h]]
  BY DEF Inv, Update
<1>2. ASSUME NEW h \in Goroutines PROVE Shown(h, call'[h], version)
  <2>1. CASE h = g
    <3>1. call'[g] = c
      BY DEF Inv, Update
    <3> QED
      BY <2>1, <3>1
  <2>2. CASE h # g
    <3>1. call'[h] = call[h]
      BY <2>2 DEF Inv, Update
    <3> QED
      BY <3>1 DEF Inv
  <2> QED
    BY <2>1, <2>2
<1> QED
  BY <1>1, <1>2 DEF Inv

LEMMA ServeInv ==
  ASSUME Inv, NEW g \in Goroutines, Serve(g)
  PROVE  Inv'
<1> DEFINE c == call[g]
           r == c.req
<1>0. Shown(g, c, version) /\ cached \in 0 .. version /\ version \in 1 .. Len(Published) /\ Len(Published) \in Nat
  BY ServerConstants DEF Inv
<1>a. ASSUME NEW how, how \notin {"handled", "accepted"}, c.at # "idle"
      PROVE  Shown(g, [c EXCEPT !.at = "done", !.how = how], version)
  <2> SUFFICES ASSUME NEW d, d = [c EXCEPT !.at = "done", !.how = how] PROVE Shown(g, d, version)
    OBVIOUS
  <2>1. IsCall(c)
    BY <1>0 DEF Shown
  <2>2. IsCall(d) /\ d.at = "done" /\ d.how = how /\ d.req = r /\ d.got = c.got
    BY <2>1 DEF IsCall
  <2> HIDE DEF c
  <2> QED
    BY <1>0, <1>a, <2>2 DEF Shown, r
<1>b. ASSUME NEW v \in 0 .. version, Verifies(r, v), c.at \in {"lock", "install"}
      PROVE  Shown(g, [c EXCEPT !.at = "judge"], version)
  <2>1. Signed(r, version)
    BY <1>0, <1>b, VerifiedIsSigned DEF Shown
  <2> QED
    BY <1>0, <1>b, <2>1 DEF Shown, IsCall
<1>1. CASE Recheck(g)
  BY <1>0, <1>1, <1>b, OneMoves DEF Recheck
<1>2. CASE StartRefetch(g)
  <2>1. Shown(g, [c EXCEPT !.at = "refetch"], version)
    BY <1>0, <1>2 DEF StartRefetch, Shown, IsCall
  <2> QED
    BY <1>0, <1>2, <2>1, OneMoves DEF StartRefetch
<1>3. CASE Render(g)
  <2>1. Shown(g, [c EXCEPT !.at = "install", !.got = version], version)
    <3> SUFFICES ASSUME NEW e, e = [c EXCEPT !.at = "install", !.got = version] PROVE Shown(g, e, version)
      OBVIOUS
    <3>1. IsCall(e) /\ e.at = "install" /\ e.req = r /\ e.got = version
      BY <1>0 DEF Shown, IsCall
    <3> HIDE DEF c
    <3> QED
      BY <1>0, <1>3, <3>1 DEF Render, Shown, c, r
  <2> QED
    BY <1>0, <1>3, <2>1, OneMoves DEF Render
<1>4. CASE Install(g)
  <2>1. c.at = "install" /\ c.got \in 0 .. version /\ cached' = c.got
    BY <1>0, <1>4 DEF Install, Shown
  <2>2. CASE Verifies(r, c.got)
    BY <1>4, <2>1, <2>2, <1>b, OneMoves DEF Install
  <2>3. CASE ~Verifies(r, c.got)
    BY <1>4, <2>1, <2>3, <1>a, OneMoves DEF Install, Refuse
  <2> QED
    BY <2>2, <2>3
<1>5. CASE RefetchFails(g)
  BY <1>0, <1>5, <1>a, OneMoves DEF RefetchFails, Refuse
<1>6. CASE Judge(g)
  <2> DEFINE id == r.kind = "id"
             verdict == IF id THEN IdJudgement(r) ELSE Judgement(r)
             passed == verdict = "ok"
             d == [c EXCEPT !.judged = now, !.at = IF passed /\ r.kind = "access" THEN "authorize" ELSE "done",
                            !.how = IF ~passed THEN verdict ELSE IF id THEN "accepted" ELSE None]
  <2>1. r \in RequestsOf[g] /\ Screens(r) /\ Signed(r, version) /\ now \in Nat
    BY <1>0, <1>6 DEF Judge, Shown, Inv
  <2>2. r.kind \in {"access", "id"}
    BY <2>1, ServerConstants
  <2>3. Update(g, d) /\ now' = now /\ version' = version /\ cached' = cached
    BY <1>6 DEF Judge
  <2>4. verdict \notin {"handled", "accepted", "signature"}
    BY <2>1, JudgedOk, IdJudgedOk
  <2>5. Shown(g, d, version)
    <3>1. CASE ~passed
      <4>1. d = [c EXCEPT !.judged = now, !.at = "done", !.how = verdict]
        BY <3>1
      <4> HIDE DEF verdict, d
      <4>2. IsCall(c)
        BY <1>0 DEF Shown
      <4>3. IsCall(d) /\ d.at = "done" /\ d.how = verdict /\ d.req = r /\ d.got = c.got
        BY <4>1, <4>2 DEF IsCall
      <4> HIDE DEF r, c
      <4> QED
        BY <1>0, <2>1, <2>4, <4>3 DEF Shown
    <3>2. CASE passed /\ id
      <4>1. Identified(r, now)
        <5>1. r.genuine /\ ValidateIDToken(r.claims, RelyingParty, now) = "ok"
          BY <2>1, <3>2, IdJudgedOk
        <5>2. r.genuine \in BOOLEAN
          BY <2>1, ServerConstants
        <5> QED
          BY <2>1, <5>1, <5>2 DEF Identified
      <4>2. d = [c EXCEPT !.judged = now, !.at = "done", !.how = "accepted"]
        BY <3>2
      <4> HIDE DEF d
      <4>3. IsCall(c)
        BY <1>0 DEF Shown
      <4>4. IsCall(d) /\ d.at = "done" /\ d.how = "accepted" /\ d.req = r /\ d.got = c.got /\ d.judged = now
        BY <4>2, <4>3 DEF IsCall
      <4> HIDE DEF r, c
      <4> QED
        BY <1>0, <2>1, <4>1, <4>4 DEF Shown
    <3>3. CASE passed /\ ~id
      <4>1. Entitled(r, now)
        BY <2>1, <2>2, <3>3, JudgedOk DEF Entitled
      <4>2. d = [c EXCEPT !.judged = now, !.at = "authorize", !.how = None]
        BY <2>2, <3>3
      <4> HIDE DEF d
      <4>3. IsCall(c)
        BY <1>0 DEF Shown
      <4>4. IsCall(d) /\ d.at = "authorize" /\ d.req = r /\ d.got = c.got /\ d.judged = now
        BY <4>2, <4>3 DEF IsCall
      <4> HIDE DEF r, c
      <4> QED
        BY <1>0, <2>1, <4>1, <4>4 DEF Shown
    <3> QED
      BY <3>1, <3>2, <3>3
  <2> HIDE DEF d
  <2> QED
    BY <1>0, <2>3, <2>5, OneMoves
<1>7. CASE Authorize(g)
  <2>1. PICK how \in {"no_resource", "unavailable", "denied", "handled"} : Refuse(g, how)
    BY <1>7 DEF Authorize
  <2>2. Shown(g, [c EXCEPT !.at = "done", !.how = how], version)
    <3> SUFFICES ASSUME NEW e, e = [c EXCEPT !.at = "done", !.how = how] PROVE Shown(g, e, version)
      OBVIOUS
    <3>1. IsCall(c) /\ c.at = "authorize"
      BY <1>0, <1>7 DEF Shown, Authorize
    <3>2. IsCall(e) /\ e.at = "done" /\ e.how = how /\ e.req = r /\ e.got = c.got /\ e.judged = c.judged
      BY <3>1 DEF IsCall
    <3> HIDE DEF c
    <3> QED
      BY <1>0, <2>1, <3>1, <3>2 DEF Shown, r
  <2> QED
    BY <1>0, <1>7, <2>1, <2>2, OneMoves DEF Authorize, Refuse
<1> QED
  BY <1>1, <1>2, <1>3, <1>4, <1>5, <1>6, <1>7 DEF Serve

LEMMA AdmitInv ==
  ASSUME Inv, NEW g \in Goroutines, NEW r \in RequestsOf[g], Arrive(g, r) \/ ServeMetadata(g, r)
  PROVE  Inv'
<1>0. cached \in 0 .. version /\ version \in 1 .. Len(Published) /\ Len(Published) \in Nat
  BY ServerConstants DEF Inv
<1>1. CASE ServeMetadata(g, r)
  <2>1. Shown(g, [NoCall EXCEPT !.req = r, !.since = version, !.at = "done", !.how = "no_identity"], version)
    <3> SUFFICES ASSUME NEW e, e = [NoCall EXCEPT !.req = r, !.since = version, !.at = "done", !.how = "no_identity"] PROVE Shown(g, e, version)
      OBVIOUS
    <3>1. IsCall(e) /\ e.at = "done" /\ e.how = "no_identity" /\ e.req = r /\ e.got = 0
      BY DEF NoCall, IsCall
    <3> QED
      BY <1>0, <3>1 DEF Shown
  <2> QED
    BY <1>0, <1>1, <2>1, OneMoves DEF ServeMetadata
<1>2. CASE Arrive(g, r)
  <2> DEFINE c == [NoCall EXCEPT !.req = r, !.since = version]
  <2>1. r.metadata = FALSE
    BY <1>2, ServerConstants DEF Arrive
  <2>2. CASE Screened(r) # "ok" /\ Update(g, [c EXCEPT !.at = "done", !.how = Screened(r)])
    <3>1. Screened(r) \notin {"handled", "accepted", "signature"}
      BY ScreenedOk
    <3>2. Shown(g, [c EXCEPT !.at = "done", !.how = Screened(r)], version)
      <4> SUFFICES ASSUME NEW e, e = [c EXCEPT !.at = "done", !.how = Screened(r)] PROVE Shown(g, e, version)
        OBVIOUS
      <4>1. IsCall(e) /\ e.at = "done" /\ e.how = Screened(r) /\ e.req = r /\ e.got = 0
        BY DEF NoCall, IsCall
      <4> QED
        BY <1>0, <3>1, <4>1 DEF Shown, Screens
    <3> QED
      BY <1>0, <1>2, <2>2, <3>2, OneMoves DEF Arrive
  <2>3. CASE Screened(r) = "ok" /\ Verifies(r, cached) /\ Update(g, [c EXCEPT !.at = "judge"])
    <3>1. Signed(r, version)
      BY <1>0, <2>3, VerifiedIsSigned
    <3>2. Shown(g, [c EXCEPT !.at = "judge"], version)
      <4> SUFFICES ASSUME NEW e, e = [c EXCEPT !.at = "judge"] PROVE Shown(g, e, version)
        OBVIOUS
      <4>1. IsCall(e) /\ e.at = "judge" /\ e.req = r /\ e.got = 0
        BY DEF NoCall, IsCall
      <4> QED
        BY <1>0, <2>1, <2>3, <3>1, <4>1 DEF Shown, Screens
    <3> QED
      BY <1>0, <1>2, <2>3, <3>2, OneMoves DEF Arrive
  <2>4. CASE Screened(r) = "ok" /\ ~Verifies(r, cached) /\ Update(g, [c EXCEPT !.at = "lock"])
    <3>1. Shown(g, [c EXCEPT !.at = "lock"], version)
      <4> SUFFICES ASSUME NEW e, e = [c EXCEPT !.at = "lock"] PROVE Shown(g, e, version)
        OBVIOUS
      <4>1. IsCall(e) /\ e.at = "lock" /\ e.req = r /\ e.got = 0
        BY DEF NoCall, IsCall
      <4> QED
        BY <1>0, <2>1, <2>4, <4>1 DEF Shown, Screens
    <3> QED
      BY <1>0, <1>2, <2>4, <3>1, OneMoves DEF Arrive
  <2> QED
    BY <1>2, <2>2, <2>3, <2>4 DEF Arrive
<1> QED
  BY <1>1, <1>2

(* What a call has shown stays shown when the server publishes more. *)
LEMMA ShownGrows ==
  ASSUME NEW g \in Goroutines, NEW c, NEW v \in Nat, Shown(g, c, v)
  PROVE  Shown(g, c, v + 1)
<1>1. \A w \in 1 .. v : w \in 1 .. v + 1
  OBVIOUS
<1>2. ASSUME NEW r, Signed(r, v) PROVE Signed(r, v + 1)
  BY <1>1, <1>2 DEF Signed
<1> QED
  BY <1>2 DEF Shown

LEMMA StepInv == Inv /\ [Next]_vars => Inv'
<1> SUFFICES ASSUME Inv, [Next]_vars PROVE Inv'
  OBVIOUS
<1>1. ASSUME NEW g \in Goroutines, Serve(g) PROVE Inv'
  BY <1>1, ServeInv
<1>2. ASSUME NEW g \in Goroutines, NEW r \in RequestsOf[g], Arrive(g, r) \/ ServeMetadata(g, r) PROVE Inv'
  BY <1>2, AdmitInv
<1>3. CASE Rotate
  <2>1. version \in Nat /\ version' = version + 1 /\ version' \in 1 .. Len(Published) /\ call' = call /\ cached' \in 0 .. version'
    BY <1>3, ServerConstants DEF Rotate, Inv
  <2>2. \A g \in Goroutines : Shown(g, call[g], version')
    BY <2>1, ShownGrows DEF Inv
  <2> QED
    BY <1>3, <2>1, <2>2 DEF Rotate, Inv
<1>4. CASE BackgroundRefresh
  BY <1>4, ServerConstants DEF BackgroundRefresh, Inv
<1>5. CASE Tick
  BY <1>5 DEF Tick, Inv
<1>6. ASSUME NEW s \in Sessions, Revoke(s) PROVE Inv'
  BY <1>6 DEF Revoke, Inv
<1>7. CASE UNCHANGED vars
  BY <1>7 DEF vars, Inv
<1> QED
  BY <1>1, <1>2, <1>3, <1>4, <1>5, <1>6, <1>7 DEF Next

LEMMA InvEntitles == Inv => EntitledOnly
<1> SUFFICES ASSUME Inv PROVE EntitledOnly
  OBVIOUS
<1> SUFFICES
      ASSUME NEW g \in Goroutines
      PROVE  LET r == call[g].req  t == call[g].judged  c == r.claims
                 signed == r.genuine /\ r.alg = "EdDSA" /\ \E v \in 1 .. version : r.kid \in Published[v]
             IN  /\ Ended(g, "handled") =>
                      /\ signed
                      /\ c.exp \in Int /\ t < c.exp + Leeway
                      /\ c.nbf \in Int => c.nbf <= t + Leeway
                      /\ c.tenant = Options.tenant /\ r.header \in {None, c.tenant}
                      /\ r.cnf # None => r.cnf.jkt = None /\ r.cnf.x5t # None /\ r.cnf.x5t = r.cert
                      /\ r.source = "cookie" => r.safe \/ r.csrf
                      /\ ~r.metadata
                 /\ Ended(g, "accepted") =>
                      signed /\ c.exp \in Int /\ t < c.exp + MaxSkew /\ RelyingParty.nonce \in {None, c.nonce}
  BY Zenon DEF EntitledOnly
<1> DEFINE r == call[g].req
           t == call[g].judged
<1>0. Shown(g, call[g], version)
  BY DEF Inv
<1>1. ASSUME Ended(g, "handled")
      PROVE  /\ r \in RequestsOf[g] /\ t \in Nat /\ Screens(r) /\ Signed(r, version) /\ Entitled(r, t)
  BY <1>0, <1>1 DEF Shown, Ended, Entitled
<1>2. ASSUME Ended(g, "accepted")
      PROVE  /\ r \in RequestsOf[g] /\ t \in Nat /\ Screens(r) /\ Signed(r, version) /\ Identified(r, t)
  BY <1>0, <1>2 DEF Shown, Ended, Identified
<1>3. ASSUME r \in RequestsOf[g], Screens(r)
      PROVE  r.alg = "EdDSA" /\ (r.source = "cookie" => r.safe \/ r.csrf) /\ ~r.metadata
  BY <1>3, ScreenedOk DEF Screens
<1>4. ASSUME r \in RequestsOf[g], t \in Nat, Entitled(r, t)
      PROVE  /\ r.claims.exp \in Int /\ t < r.claims.exp + Leeway
             /\ r.claims.nbf \in Int => r.claims.nbf <= t + Leeway
             /\ r.claims.tenant = Options.tenant /\ r.header \in {None, r.claims.tenant}
             /\ r.cnf # None => r.cnf.jkt = None /\ r.cnf.x5t # None /\ r.cnf.x5t = r.cert
  <2> HIDE DEF r, t
  <2>1. /\ r.claims.exp \in Int /\ t < r.claims.exp + Leeway
        /\ r.claims.nbf \in Int => r.claims.nbf <= t + Leeway
        /\ r.claims.tenant = Options.tenant
    BY <1>4, ValidClaims DEF Entitled
  <2>2. r.cnf # None => r.cnf.jkt = None /\ r.cnf.x5t # None /\ r.cnf.x5t = r.cert
    BY <1>4, BoundToken DEF Entitled
  <2> QED
    BY <1>4, <2>1, <2>2 DEF Entitled
<1>5. ASSUME r \in RequestsOf[g], t \in Nat, Identified(r, t)
      PROVE  /\ r.claims.exp \in Int /\ t < r.claims.exp + MaxSkew
             /\ RelyingParty.nonce \in {None, r.claims.nonce}
  <2> HIDE DEF r, t
  <2> QED
    BY <1>5, ValidIDToken DEF Identified
<1> HIDE DEF r, t
<1>6. ASSUME Ended(g, "handled") PROVE r.genuine /\ \E v \in 1 .. version : r.kid \in Published[v]
  BY <1>1, <1>6 DEF Signed, Entitled
<1>7. ASSUME Ended(g, "accepted") PROVE r.genuine /\ \E v \in 1 .. version : r.kid \in Published[v]
  BY <1>2, <1>7 DEF Signed, Identified
<1>8. Ended(g, "handled") =>
                      /\ r.genuine /\ r.alg = "EdDSA" /\ \E v \in 1 .. version : r.kid \in Published[v]
                      /\ r.claims.exp \in Int /\ t < r.claims.exp + Leeway
                      /\ r.claims.nbf \in Int => r.claims.nbf <= t + Leeway
                      /\ r.claims.tenant = Options.tenant /\ r.header \in {None, r.claims.tenant}
                      /\ r.cnf # None => r.cnf.jkt = None /\ r.cnf.x5t # None /\ r.cnf.x5t = r.cert
                      /\ r.source = "cookie" => r.safe \/ r.csrf
                      /\ ~r.metadata
  BY <1>1, <1>3, <1>4, <1>6
<1>9. Ended(g, "accepted") =>
         /\ r.genuine /\ r.alg = "EdDSA" /\ \E v \in 1 .. version : r.kid \in Published[v]
         /\ r.claims.exp \in Int /\ t < r.claims.exp + MaxSkew /\ RelyingParty.nonce \in {None, r.claims.nonce}
  BY <1>2, <1>3, <1>5, <1>7
<1> QED
  BY <1>8, <1>9, Zenon DEF r, t

(* Whoever reaches the handler, or is accepted as a user, has shown what
   EntitledOnly lists: no path through Middleware skips a rule
   (middleware/nethttp.go, internal/jwks/verifier.go:151-173), in whatever order
   goroutines, rotations and refetches interleave. *)
THEOREM EntitledAlways == Spec => []EntitledOnly
<1> QED
  BY InitInv, StepInv, InvEntitles, PTL DEF Spec

-----------------------------------------------------------------------------
(* The verifier's lock.  A call holds it exactly while it fetches, and fetches
   once. *)
LockHeld == \A g \in Goroutines : refreshMu = g <=> call[g].at \in {"refetch", "install"}

FetchedOnce ==
    \A g \in Goroutines :
        LET c == call[g] IN
        /\ c.at \in {"idle", "lock", "refetch"} => c.got = 0
        /\ c.at = "install" => c.got # 0
        /\ c.got # 0 => c.since <= c.got
        /\ c.at = "done" /\ c.how = "signature" => c.got # 0 /\ ~Verifies(c.req, c.got)

(* Once a call has installed the version still published, so is it cached; the
   set about to be installed is the latest fetched; and who fetches a version
   another call has fetched does not verify under it. *)
CacheIsLatest ==
    \A g \in Goroutines :
        LET c == call[g] IN
        /\ c.at # "install" /\ c.got = version => cached = version
        /\ c.at = "install" => \A h \in Goroutines : call[h].got <= c.got
        /\ c.at = "refetch" => \A h \in Goroutines : call[h].got = version => ~Verifies(c.req, version)

LInv == LockHeld /\ FetchedOnce /\ CacheIsLatest /\ BurstFetchesOnce
RInv == Inv /\ TypeOK /\ LInv

LEMMA InitRInv == Init => RInv
<1> SUFFICES ASSUME Init PROVE RInv
  OBVIOUS
<1>1. Inv
  BY InitInv
<1>2. \A g \in Goroutines : call[g] = NoCall
  BY DEF Init
<1>3. TypeOK
  BY <1>2, ServerConstants DEF Init, TypeOK, Versions, NoCall
<1>4. LockHeld /\ FetchedOnce /\ CacheIsLatest /\ BurstFetchesOnce
  BY <1>2, ServerConstants DEF Init, LockHeld, FetchedOnce, CacheIsLatest, BurstFetchesOnce, NoCall
<1> QED
  BY <1>1, <1>3, <1>4 DEF RInv, LInv

(* The other calls stay where they are when one moves. *)
LEMMA MovesOne ==
  ASSUME Inv, NEW g \in Goroutines, NEW c, Update(g, c)
  PROVE  \A h \in Goroutines : call'[h] = IF h = g THEN c ELSE call[h]
  BY DEF Inv, Update

(* A call that neither takes the lock nor gives it back. *)
LEMMA MovesAside ==
  ASSUME RInv, NEW g \in Goroutines, NEW c, Update(g, c), call[g].at \notin {"refetch", "install"},
         c.at \in {"lock", "judge", "authorize", "done"}, c.at = "lock" => c.got = 0,
         c.got = call[g].got, c.got # 0 => c.req = call[g].req /\ c.since = call[g].since,
         ~(c.at = "done" /\ c.how = "signature"),
         UNCHANGED <<version, cached, refreshMu>>
  PROVE  LInv'
<1>1. \A h \in Goroutines : call'[h] = IF h = g THEN c ELSE call[h]
  BY MovesOne DEF RInv
<1>2. LockHeld'
  BY <1>1 DEF RInv, LInv, LockHeld
<1>3. FetchedOnce'
  BY <1>1 DEF RInv, LInv, FetchedOnce
<1>4. CacheIsLatest'
  BY <1>1 DEF RInv, LInv, CacheIsLatest
<1>5. BurstFetchesOnce'
  BY <1>1 DEF RInv, LInv, BurstFetchesOnce
<1> QED
  BY <1>2, <1>3, <1>4, <1>5 DEF LInv

(* What the arithmetic of the versions needs. *)
LEMMA Versioned ==
  ASSUME RInv
  PROVE  /\ version \in Nat /\ version # 0 /\ cached \in Nat /\ cached <= version
         /\ \A g \in Goroutines :
              /\ call[g].got \in Nat /\ call[g].got <= version
              /\ call[g].since \in Nat /\ call[g].since <= version
              /\ IsCall(call[g])
<1>1. version \in Nat /\ version # 0
  BY ServerConstants DEF RInv, TypeOK, Versions
<1>2. \A g \in Goroutines : IsCall(call[g])
  BY DEF RInv, Inv, Shown
<1> QED
  BY <1>1, <1>2 DEF RInv, TypeOK

LEMMA StartRefetchR ==
  ASSUME RInv, NEW g \in Goroutines, StartRefetch(g)
  PROVE  LInv'
<1> DEFINE c == [call[g] EXCEPT !.at = "refetch"]
<1>1. /\ version \in Nat /\ version # 0
      /\ \A h \in Goroutines : call[h].got \in Nat /\ call[h].got <= version
      /\ IsCall(call[g])
  BY Versioned
<1>2. /\ c.at = "refetch" /\ c.req = call[g].req /\ c.got = call[g].got /\ c.since = call[g].since
  BY <1>1 DEF IsCall
<1>3. \A h \in Goroutines : call'[h] = IF h = g THEN c ELSE call[h]
  BY MovesOne DEF RInv, StartRefetch
<1> HIDE DEF c
<1>4. /\ call[g].at = "lock" /\ refreshMu = Nobody /\ refreshMu' = g
      /\ ~Verifies(call[g].req, cached) /\ version' = version /\ cached' = cached
  BY DEF StartRefetch
<1>5. \A h \in Goroutines : call[h].at \notin {"refetch", "install"}
  BY <1>4, ServerConstants DEF RInv, LInv, LockHeld
<1>6. c.got = 0
  BY <1>2, <1>4 DEF RInv, LInv, FetchedOnce
<1>7. LockHeld'
  BY <1>2, <1>3, <1>4, <1>5 DEF LockHeld
<1>8. FetchedOnce'
  BY <1>2, <1>3, <1>6 DEF RInv, LInv, FetchedOnce
<1>9. CacheIsLatest'
  <2>1. \A h \in Goroutines : call[h].got = version => ~Verifies(c.req, version)
    BY <1>2, <1>4, <1>5 DEF RInv, LInv, CacheIsLatest
  <2> QED
    BY <1>1, <1>2, <1>3, <1>4, <1>5, <1>6, <2>1 DEF RInv, LInv, CacheIsLatest
<1>10. BurstFetchesOnce'
  BY <1>2, <1>3, <1>6 DEF RInv, LInv, BurstFetchesOnce
<1> QED
  BY <1>7, <1>8, <1>9, <1>10 DEF LInv

LEMMA RenderR ==
  ASSUME RInv, NEW g \in Goroutines, Render(g)
  PROVE  LInv'
<1> DEFINE c == [call[g] EXCEPT !.at = "install", !.got = version]
<1>1. /\ version \in Nat /\ version # 0
      /\ \A h \in Goroutines : call[h].got \in Nat /\ call[h].got <= version
      /\ IsCall(call[g]) /\ call[g].since <= version
  BY Versioned
<1>2. /\ c.at = "install" /\ c.req = call[g].req /\ c.got = version /\ c.since = call[g].since
  <2> SUFFICES ASSUME NEW e, e = c
               PROVE  e.at = "install" /\ e.req = call[g].req /\ e.got = version /\ e.since = call[g].since
    OBVIOUS
  <2> QED
    BY <1>1 DEF IsCall
<1>3. \A h \in Goroutines : call'[h] = IF h = g THEN c ELSE call[h]
  BY MovesOne DEF RInv, Render
<1> HIDE DEF c
<1>4. call[g].at = "refetch" /\ UNCHANGED <<version, cached, refreshMu>>
  BY DEF Render
<1>5. \A h \in Goroutines : h # g => call[h].at \notin {"refetch", "install"}
  BY <1>4 DEF RInv, LInv, LockHeld
<1>6. \A h \in Goroutines : call[h].got = version => ~Verifies(c.req, version)
  BY <1>2, <1>4 DEF RInv, LInv, CacheIsLatest
<1>7. LockHeld'
  BY <1>2, <1>3, <1>4 DEF RInv, LInv, LockHeld
<1>8. FetchedOnce'
  BY <1>1, <1>2, <1>3 DEF RInv, LInv, FetchedOnce
<1>9. CacheIsLatest'
  BY <1>1, <1>2, <1>3, <1>4, <1>5 DEF RInv, LInv, CacheIsLatest
<1>10. BurstFetchesOnce'
  BY <1>2, <1>3, <1>6 DEF RInv, LInv, BurstFetchesOnce
<1> QED
  BY <1>7, <1>8, <1>9, <1>10 DEF LInv

LEMMA InstallR ==
  ASSUME RInv, NEW g \in Goroutines, Install(g)
  PROVE  LInv'
<1> DEFINE ok == Verifies(call[g].req, call[g].got)
           c == IF ok THEN [call[g] EXCEPT !.at = "judge"] ELSE [call[g] EXCEPT !.at = "done", !.how = "signature"]
<1>1. /\ version \in Nat /\ version # 0
      /\ \A h \in Goroutines : call[h].got \in Nat /\ call[h].got <= version
      /\ IsCall(call[g])
  BY Versioned
<1>2. /\ c.at \in {"judge", "done"} /\ c.req = call[g].req /\ c.got = call[g].got /\ c.since = call[g].since
      /\ c.at = "done" => ~ok
  <2>1. CASE ok
    <3>1. c = [call[g] EXCEPT !.at = "judge"]
      BY <2>1
    <3> HIDE DEF c
    <3> QED
      BY <1>1, <2>1, <3>1 DEF IsCall
  <2>2. CASE ~ok
    <3>1. c = [call[g] EXCEPT !.at = "done", !.how = "signature"]
      BY <2>2
    <3> HIDE DEF c
    <3> QED
      BY <1>1, <2>2, <3>1 DEF IsCall
  <2> QED
    BY <2>1, <2>2
<1>3. Update(g, c)
  BY DEF Install, Refuse
<1> HIDE DEF c
<1>4. \A h \in Goroutines : call'[h] = IF h = g THEN c ELSE call[h]
  BY <1>3, MovesOne DEF RInv
<1>5. call[g].at = "install" /\ cached' = call[g].got /\ refreshMu' = Nobody /\ version' = version
  BY DEF Install
<1>6. \A h \in Goroutines : h # g => call[h].at \notin {"refetch", "install"}
  BY <1>5 DEF RInv, LInv, LockHeld
<1>7. call[g].got # 0 /\ \A h \in Goroutines : call[h].got <= call[g].got
  BY <1>5 DEF RInv, LInv, FetchedOnce, CacheIsLatest
<1>8. LockHeld'
  BY <1>2, <1>4, <1>5, <1>6, ServerConstants DEF LockHeld
<1>9. FetchedOnce'
  <2> HIDE DEF ok
  <2>1. c.at = "done" => ~Verifies(c.req, c.got)
    BY <1>2 DEF ok
  <2>2. c.got # 0 => c.since <= c.got
    BY <1>2 DEF RInv, LInv, FetchedOnce
  <2> QED
    BY <1>2, <1>4, <1>7, <2>1, <2>2 DEF RInv, LInv, FetchedOnce
<1>10. CacheIsLatest'
  <2>1. \A h \in Goroutines : call'[h].got = call[h].got /\ call'[h].at \notin {"refetch", "install"}
    BY <1>2, <1>4, <1>6
  <2>2. \A h \in Goroutines : call[h].got = version => call[g].got = version
    BY <1>1, <1>7
  <2> QED
    BY <1>5, <2>1, <2>2 DEF CacheIsLatest
<1>11. BurstFetchesOnce'
  BY <1>2, <1>4 DEF RInv, LInv, BurstFetchesOnce
<1> QED
  BY <1>8, <1>9, <1>10, <1>11 DEF LInv

LEMMA RefetchFailsR ==
  ASSUME RInv, NEW g \in Goroutines, RefetchFails(g)
  PROVE  LInv'
<1> DEFINE c == [call[g] EXCEPT !.at = "done", !.how = "refetch"]
<1>1. /\ version \in Nat /\ version # 0 /\ IsCall(call[g])
  BY Versioned
<1>2. c.at = "done" /\ c.how = "refetch" /\ c.req = call[g].req /\ c.got = call[g].got
  <2> SUFFICES ASSUME NEW e, e = c
               PROVE  e.at = "done" /\ e.how = "refetch" /\ e.req = call[g].req /\ e.got = call[g].got
    OBVIOUS
  <2> QED
    BY <1>1 DEF IsCall
<1>3. \A h \in Goroutines : call'[h] = IF h = g THEN c ELSE call[h]
  BY MovesOne DEF RInv, RefetchFails, Refuse
<1> HIDE DEF c
<1>4. call[g].at = "refetch" /\ refreshMu' = Nobody /\ UNCHANGED <<version, cached>>
  BY DEF RefetchFails
<1>5. \A h \in Goroutines : h # g => call[h].at \notin {"refetch", "install"}
  BY <1>4 DEF RInv, LInv, LockHeld
<1>6. c.got = 0
  BY <1>2, <1>4 DEF RInv, LInv, FetchedOnce
<1>7. LockHeld'
  BY <1>2, <1>3, <1>4, <1>5, ServerConstants DEF LockHeld
<1>8. FetchedOnce'
  BY <1>2, <1>3, <1>6 DEF RInv, LInv, FetchedOnce
<1>9. CacheIsLatest'
  BY <1>1, <1>2, <1>3, <1>4, <1>5, <1>6 DEF RInv, LInv, CacheIsLatest
<1>10. BurstFetchesOnce'
  BY <1>2, <1>3, <1>6 DEF RInv, LInv, BurstFetchesOnce
<1> QED
  BY <1>7, <1>8, <1>9, <1>10 DEF LInv

LEMMA ServeR ==
  ASSUME RInv, NEW g \in Goroutines, Serve(g)
  PROVE  LInv'
<1> DEFINE c == call[g]
           r == c.req
<1>0. IsCall(c) /\ (c.at # "idle" => r \in RequestsOf[g])
  BY DEF RInv, Inv, Shown
<1>1. CASE Recheck(g)
  <2> DEFINE d == [c EXCEPT !.at = "judge"]
  <2>1. d.at = "judge" /\ d.req = r /\ d.got = c.got /\ d.since = c.since
    BY <1>0 DEF IsCall
  <2>2. Update(g, d) /\ c.at = "lock" /\ UNCHANGED <<version, cached, refreshMu>>
    BY <1>1 DEF Recheck
  <2> HIDE DEF d
  <2> QED
    BY <2>1, <2>2, MovesAside
<1>2. CASE Judge(g)
  <2> DEFINE verdict == IF r.kind = "id" THEN IdJudgement(r) ELSE Judgement(r)
             d == [c EXCEPT !.judged = now,
                            !.at = IF verdict = "ok" /\ r.kind = "access" THEN "authorize" ELSE "done",
                            !.how = IF verdict # "ok" THEN verdict ELSE IF r.kind = "id" THEN "accepted" ELSE None]
  <2>1. verdict # "signature" /\ r.kind \in {"access", "id"}
    BY <1>0, <1>2, JudgedOk, IdJudgedOk, ServerConstants DEF Judge
  <2>2. Update(g, d) /\ c.at = "judge" /\ UNCHANGED <<version, cached, refreshMu>>
    BY <1>2 DEF Judge
  <2> HIDE DEF verdict
  <2>3. /\ d.at \in {"authorize", "done"} /\ d.req = r /\ d.got = c.got /\ d.since = c.since
        /\ ~(d.at = "done" /\ d.how = "signature")
    <3> DEFINE a == IF verdict = "ok" /\ r.kind = "access" THEN "authorize" ELSE "done"
               w == IF verdict # "ok" THEN verdict ELSE IF r.kind = "id" THEN "accepted" ELSE None
    <3>1. a \in {"authorize", "done"} /\ (a = "done" => w # "signature")
      BY <2>1
    <3> SUFFICES ASSUME NEW e, e = [c EXCEPT !.judged = now, !.at = a, !.how = w]
                 PROVE  /\ e.at \in {"authorize", "done"} /\ e.req = r /\ e.got = c.got /\ e.since = c.since
                        /\ ~(e.at = "done" /\ e.how = "signature")
      OBVIOUS
    <3> HIDE DEF a, w
    <3>2. e.at = a /\ e.how = w /\ e.req = r /\ e.got = c.got /\ e.since = c.since
      BY <1>0 DEF IsCall
    <3> QED
      BY <3>1, <3>2
  <2> HIDE DEF d
  <2> QED
    BY <2>2, <2>3, MovesAside
<1>3. CASE Authorize(g)
  <2>1. PICK how \in {"no_resource", "unavailable", "denied", "handled"} : Refuse(g, how)
    BY <1>3 DEF Authorize
  <2> DEFINE d == [c EXCEPT !.at = "done", !.how = how]
  <2>2. /\ d.at = "done" /\ d.how = how /\ d.req = r /\ d.got = c.got /\ d.since = c.since
    <3> SUFFICES ASSUME NEW e, e = d
                 PROVE  e.at = "done" /\ e.how = how /\ e.req = r /\ e.got = c.got /\ e.since = c.since
      OBVIOUS
    <3> QED
      BY <1>0 DEF IsCall
  <2>3. Update(g, d) /\ c.at = "authorize" /\ UNCHANGED <<version, cached, refreshMu>>
    BY <1>3, <2>1 DEF Authorize, Refuse
  <2> HIDE DEF d
  <2> QED
    BY <2>1, <2>2, <2>3, MovesAside
<1> QED
  BY <1>1, <1>2, <1>3, StartRefetchR, RenderR, InstallR, RefetchFailsR DEF Serve

LEMMA AdmitR ==
  ASSUME RInv, NEW g \in Goroutines, NEW r \in RequestsOf[g], Arrive(g, r) \/ ServeMetadata(g, r)
  PROVE  LInv'
<1>1. call[g].at = "idle" /\ UNCHANGED <<version, cached, refreshMu>>
  BY DEF Arrive, ServeMetadata
<1>2. call[g].got = 0
  BY <1>1 DEF RInv, LInv, FetchedOnce
<1>3. ASSUME NEW c, Update(g, c), c.at \in {"lock", "judge", "done"}, c.got = 0,
             ~(c.at = "done" /\ c.how = "signature")
      PROVE  LInv'
  BY <1>1, <1>2, <1>3, MovesAside
<1>4. CASE ServeMetadata(g, r)
  <2> DEFINE c == [NoCall EXCEPT !.req = r, !.since = version, !.at = "done", !.how = "no_identity"]
  <2>1. c.at = "done" /\ c.how = "no_identity" /\ c.got = 0
    <3> SUFFICES ASSUME NEW e, e = c PROVE e.at = "done" /\ e.how = "no_identity" /\ e.got = 0
      OBVIOUS
    <3> QED
      BY DEF NoCall
  <2> QED
    BY <1>3, <1>4, <2>1 DEF ServeMetadata
<1>5. CASE Arrive(g, r)
  <2> DEFINE c == [NoCall EXCEPT !.req = r, !.since = version]
  <2>1. ASSUME NEW a \in {"lock", "judge"}, Update(g, [c EXCEPT !.at = a]) PROVE LInv'
    <3>1. PICK e : e = [c EXCEPT !.at = a]
      OBVIOUS
    <3>2. e.at = a /\ e.got = 0
      BY <3>1 DEF NoCall
    <3> QED
      BY <1>3, <2>1, <3>1, <3>2
  <2>2. ASSUME Update(g, [c EXCEPT !.at = "done", !.how = Screened(r)]) PROVE LInv'
    <3>1. PICK e : e = [c EXCEPT !.at = "done", !.how = Screened(r)]
      OBVIOUS
    <3>2. e.at = "done" /\ e.how = Screened(r) /\ e.got = 0
      BY <3>1 DEF NoCall
    <3>3. Screened(r) # "signature"
      BY ScreenedOk
    <3> QED
      BY <1>3, <2>2, <3>1, <3>2, <3>3
  <2> QED
    BY <1>5, <2>1, <2>2 DEF Arrive
<1> QED
  BY <1>4, <1>5

(* What TypeOK says of a call beyond what Shown does. *)
StageOK(c, v, t) ==
    /\ c.at \in {"idle", "lock", "refetch", "install", "judge", "authorize", "done"}
    /\ c.since \in 0 .. v /\ c.judged \in 0 .. t

LEMMA ServeStages ==
  ASSUME RInv, NEW g \in Goroutines, Serve(g)
  PROVE  \E c : Update(g, c) /\ StageOK(c, version, now)
<1> DEFINE c == call[g]
<1>0. IsCall(c) /\ StageOK(c, version, now) /\ now \in Nat
  BY DEF RInv, Inv, Shown, TypeOK, StageOK
<1>a. ASSUME NEW a \in {"refetch", "judge"}, Update(g, [c EXCEPT !.at = a])
      PROVE  \E d : Update(g, d) /\ StageOK(d, version, now)
  <2>1. StageOK([c EXCEPT !.at = a], version, now)
    BY <1>0 DEF StageOK, IsCall
  <2> QED
    BY <1>a, <2>1
<1>b. ASSUME NEW how, Refuse(g, how)
      PROVE  \E d : Update(g, d) /\ StageOK(d, version, now)
  <2>1. PICK d : d = [c EXCEPT !.at = "done", !.how = how]
    OBVIOUS
  <2>2. d.at = "done" /\ d.since = c.since /\ d.judged = c.judged
    BY <1>0, <2>1 DEF IsCall
  <2>3. StageOK(d, version, now)
    BY <1>0, <2>2 DEF StageOK
  <2> QED
    BY <1>b, <2>1, <2>3 DEF Refuse
<1>1. CASE Recheck(g)
  BY <1>1, <1>a DEF Recheck
<1>2. CASE StartRefetch(g)
  BY <1>2, <1>a DEF StartRefetch
<1>3. CASE Render(g)
  <2>1. PICK d : d = [c EXCEPT !.at = "install", !.got = version]
    OBVIOUS
  <2>2. d.at = "install" /\ d.since = c.since /\ d.judged = c.judged
    BY <1>0, <2>1 DEF IsCall
  <2>3. StageOK(d, version, now)
    BY <1>0, <2>2 DEF StageOK
  <2> QED
    BY <1>3, <2>1, <2>3 DEF Render
<1>4. CASE Install(g)
  BY <1>4, <1>a, <1>b DEF Install
<1>5. CASE RefetchFails(g)
  BY <1>5, <1>b DEF RefetchFails
<1>6. CASE Judge(g)
  <2> DEFINE r == c.req
             verdict == IF r.kind = "id" THEN IdJudgement(r) ELSE Judgement(r)
             a == IF verdict = "ok" /\ r.kind = "access" THEN "authorize" ELSE "done"
             w == IF verdict # "ok" THEN verdict ELSE IF r.kind = "id" THEN "accepted" ELSE None
  <2>1. a \in {"authorize", "done"}
    OBVIOUS
  <2>2. Update(g, [c EXCEPT !.judged = now, !.at = a, !.how = w])
    BY <1>6 DEF Judge
  <2> HIDE DEF a, w
  <2>3. PICK d : d = [c EXCEPT !.judged = now, !.at = a, !.how = w]
    OBVIOUS
  <2>4. d.at = a /\ d.since = c.since /\ d.judged = now
    BY <1>0, <2>3 DEF IsCall
  <2>5. StageOK(d, version, now)
    BY <1>0, <2>1, <2>4 DEF StageOK
  <2> QED
    BY <2>2, <2>3, <2>5
<1>7. CASE Authorize(g)
  BY <1>7, <1>b DEF Authorize
<1> QED
  BY <1>1, <1>2, <1>3, <1>4, <1>5, <1>6, <1>7 DEF Serve

LEMMA AdmitStages ==
  ASSUME RInv, NEW g \in Goroutines, NEW r \in RequestsOf[g], Arrive(g, r) \/ ServeMetadata(g, r)
  PROVE  \E c : Update(g, c) /\ StageOK(c, version, now)
<1>0. version \in Nat /\ now \in Nat
  BY Versioned DEF RInv, Inv
<1>1. ASSUME NEW a \in {"lock", "judge"}, Update(g, [NoCall EXCEPT !.req = r, !.since = version, !.at = a])
      PROVE  \E c : Update(g, c) /\ StageOK(c, version, now)
  <2>1. PICK c : c = [NoCall EXCEPT !.req = r, !.since = version, !.at = a]
    OBVIOUS
  <2>2. c.at = a /\ c.since = version /\ c.judged = 0
    BY <2>1 DEF NoCall
  <2>3. StageOK(c, version, now)
    BY <1>0, <2>2 DEF StageOK
  <2> QED
    BY <1>1, <2>1, <2>3
<1>2. ASSUME NEW how, Update(g, [NoCall EXCEPT !.req = r, !.since = version, !.at = "done", !.how = how])
      PROVE  \E c : Update(g, c) /\ StageOK(c, version, now)
  <2>1. PICK c : c = [NoCall EXCEPT !.req = r, !.since = version, !.at = "done", !.how = how]
    OBVIOUS
  <2>2. c.at = "done" /\ c.since = version /\ c.judged = 0
    BY <2>1 DEF NoCall
  <2>3. StageOK(c, version, now)
    BY <1>0, <2>2 DEF StageOK
  <2> QED
    BY <1>2, <2>1, <2>3
<1>3. CASE ServeMetadata(g, r)
  BY <1>2, <1>3 DEF ServeMetadata
<1>4. CASE Arrive(g, r)
  <2> DEFINE c == [NoCall EXCEPT !.req = r, !.since = version]
             d(a) == [NoCall EXCEPT !.req = r, !.since = version, !.at = a]
             e == [NoCall EXCEPT !.req = r, !.since = version, !.at = "done", !.how = Screened(r)]
  <2>1. \A a : [c EXCEPT !.at = a] = d(a)
    BY DEF NoCall
  <2>2. [c EXCEPT !.at = "done", !.how = Screened(r)] = e
    BY DEF NoCall
  <2>3. Update(g, d("judge")) \/ Update(g, d("lock")) \/ Update(g, e)
    <3> HIDE DEF d, e
    <3> QED
      BY <1>4, <2>1, <2>2 DEF Arrive
  <2> QED
    BY <1>1, <1>2, <2>3
<1> QED
  BY <1>3, <1>4

(* The step of one goroutine keeps the types. *)
LEMMA StagesTyped ==
  ASSUME RInv, Inv', NEW g \in Goroutines, NEW c, Update(g, c), StageOK(c, version, now),
         UNCHANGED <<now, version, revoked>>, refreshMu' \in {g, Nobody, refreshMu}
  PROVE  TypeOK'
<1>1. \A h \in Goroutines : call'[h] = IF h = g THEN c ELSE call[h]
  BY MovesOne DEF RInv
<1>2. \A h \in Goroutines : StageOK(call'[h], version, now)
  BY <1>1 DEF RInv, TypeOK, StageOK
<1>3. \A h \in Goroutines : call'[h].got \in 0 .. version' /\ (call'[h].at # "idle" => call'[h].req \in RequestsOf[h])
  BY DEF Inv, Shown
<1>4. /\ now' \in 0 .. MaxTime /\ version' \in Versions \ {0} /\ revoked' \subseteq Sessions
      /\ refreshMu' \in Goroutines \cup {Nobody}
  BY DEF RInv, TypeOK
<1>5. cached' \in 0 .. version'
  BY DEF Inv
<1> QED
  BY <1>2, <1>3, <1>4, <1>5 DEF TypeOK, StageOK

(* A step of the surroundings: a rotation, a refresh, a revocation, the clock. *)
LEMMA SurroundingsR ==
  ASSUME RInv, Inv', Rotate \/ BackgroundRefresh \/ Tick \/ (\E s \in Sessions : Revoke(s)) \/ UNCHANGED vars
  PROVE  TypeOK' /\ LInv'
<1>0. /\ version \in Nat /\ version # 0 /\ now \in Nat /\ MaxTime \in Nat /\ Len(Published) \in Nat
      /\ \A g \in Goroutines : call[g].got \in Nat /\ call[g].got <= version
  BY Versioned, ServerConstants DEF RInv, Inv
<1>1. UNCHANGED <<refreshMu, call>>
  BY DEF Rotate, BackgroundRefresh, Tick, Revoke, vars
<1>2. /\ version' \in {version, version + 1} /\ now' \in {now, now + 1} /\ now' \in 0 .. MaxTime
      /\ version' = version => cached' \in {cached, version}
      /\ revoked' \subseteq Sessions
  BY <1>0 DEF Rotate, BackgroundRefresh, Tick, Revoke, vars, RInv, TypeOK
<1>3. version' \in Versions \ {0} /\ cached' \in 0 .. version'
  BY <1>0 DEF Inv, Versions
<1>4. TypeOK'
  <2>1. \A h \in Goroutines : StageOK(call'[h], version', now')
    BY <1>0, <1>1, <1>2 DEF RInv, TypeOK, StageOK
  <2>2. \A h \in Goroutines : call'[h].got \in 0 .. version' /\ (call'[h].at # "idle" => call'[h].req \in RequestsOf[h])
    BY DEF Inv, Shown
  <2>3. refreshMu' \in Goroutines \cup {Nobody}
    BY <1>1 DEF RInv, TypeOK
  <2> QED
    BY <1>2, <1>3, <2>1, <2>2, <2>3 DEF TypeOK, StageOK
<1>5. LockHeld' /\ FetchedOnce' /\ BurstFetchesOnce'
  BY <1>1 DEF RInv, LInv, LockHeld, FetchedOnce, BurstFetchesOnce
<1>6. CacheIsLatest'
  <2>1. CASE version' = version
    BY <1>0, <1>1, <1>2, <2>1 DEF RInv, LInv, CacheIsLatest
  <2>2. CASE version' = version + 1
    <3>1. cached' = cached /\ \A h \in Goroutines : call'[h].got # version'
      BY <1>0, <1>1, <2>2 DEF Rotate, BackgroundRefresh, Tick, Revoke, vars
    <3> QED
      BY <1>0, <1>1, <2>2, <3>1 DEF RInv, LInv, CacheIsLatest
  <2> QED
    BY <1>2, <2>1, <2>2
<1> QED
  BY <1>4, <1>5, <1>6 DEF LInv

LEMMA StepRInv == RInv /\ [Next]_vars => RInv'
<1> SUFFICES ASSUME RInv, [Next]_vars PROVE RInv'
  OBVIOUS
<1>0. Inv'
  BY StepInv DEF RInv
<1>1. ASSUME NEW g \in Goroutines, Serve(g) PROVE RInv'
  <2>1. UNCHANGED <<now, version, revoked>> /\ refreshMu' \in {g, Nobody, refreshMu}
    BY <1>1 DEF Serve, Recheck, StartRefetch, Render, Install, RefetchFails, Judge, Authorize
  <2> QED
    BY <1>0, <1>1, <2>1, ServeR, ServeStages, StagesTyped DEF RInv
<1>2. ASSUME NEW g \in Goroutines, NEW r \in RequestsOf[g], Arrive(g, r) \/ ServeMetadata(g, r) PROVE RInv'
  <2>1. UNCHANGED <<now, version, revoked, refreshMu>>
    BY <1>2 DEF Arrive, ServeMetadata
  <2> QED
    BY <1>0, <1>2, <2>1, AdmitR, AdmitStages, StagesTyped DEF RInv
<1>3. CASE Rotate \/ BackgroundRefresh \/ Tick \/ (\E s \in Sessions : Revoke(s)) \/ UNCHANGED vars
  BY <1>0, <1>3, SurroundingsR DEF RInv
<1> QED
  BY <1>1, <1>2, <1>3 DEF Next

(* A genuine token is refused for its signature only when its key was missing
   from what the server published meanwhile, and of two calls that refetched the
   same version only one needed it (verifier.go:178-183 and 219-226). *)
THEOREM RefetchesAreApt == Spec => []RefetchIsApt
<1>1. RInv => RefetchIsApt
  <2> SUFFICES ASSUME RInv, NEW g \in Goroutines, Ended(g, "signature"), call[g].req.genuine
               PROVE  \E v \in call[g].since .. call[g].got : call[g].req.kid \notin Keys(v)
    BY DEF RefetchIsApt, RInv, LInv, RotatedKeyFound
  <2>1. /\ call[g].since \in Nat /\ call[g].got \in Nat /\ call[g].since <= call[g].got
        /\ ~Verifies(call[g].req, call[g].got)
    BY Versioned DEF RInv, LInv, FetchedOnce, Ended
  <2>2. call[g].req.kid \notin Keys(call[g].got)
    BY <2>1 DEF Verifies
  <2> QED
    BY <2>1, <2>2
<1> QED
  BY <1>1, InitRInv, StepRInv, PTL DEF Spec
=============================================================================
