----------------------------- MODULE TokenRules -----------------------------
(***************************************************************************)
(* The rules a token is judged by once its signature has been verified, as *)
(* operators: ValidateClaims and the sender constraint of internal/jwks    *)
(* (validate.go), with the claims as parseClaims (claims.go) delivers them *)
(* and, for relying parties, validateIDToken (oidc_idtoken.go).  Names,    *)
(* thumbprints and audiences are arbitrary values; None is an absent claim *)
(* (a nil pointer or an empty string) and Bad one that does not parse.     *)
(***************************************************************************)
EXTENDS Integers, Sequences

CONSTANTS
    None, Bad,
    Leeway,       \* ClockSkewLeeway
    MaxSkew       \* MaxIDTokenClockSkewSec

ASSUME RuleConstants == Leeway \in Nat /\ MaxSkew \in Nat \ {0} /\ None # Bad

Check(fails, reason) == [fails |-> fails, reason |-> reason]

\* The verdict of an ordered list of checks: the first that fails, or "ok".
Verdict(checks) ==
    IF \E i \in DOMAIN checks : checks[i].fails
    THEN checks[CHOOSE i \in DOMAIN checks :
                  checks[i].fails /\ \A j \in 1 .. i - 1 : ~checks[j].fails].reason
    ELSE "ok"

-----------------------------------------------------------------------------
\* The audiences a claim names; aud is a sequence when it parses.
Audiences(c) == IF c.aud \in {None, Bad} THEN <<>> ELSE c.aud

Names(c, audience) == \E i \in DOMAIN Audiences(c) : Audiences(c)[i] = audience

\* A claim of the wrong JSON type fails the parse of all claims.
Unparseable(c) == c.exp = Bad \/ c.nbf = Bad \/ c.aud = Bad \/ c.issuer = Bad \/ c.tenant = Bad

\* !now.Add(-ClockSkewLeeway).Before(exp)
Expired(c, now) == now - Leeway >= c.exp

NotYetValid(c, now) == now + Leeway < c.nbf

\* o.issuer and o.audience are None when the guard configured none.
ValidateClaims(c, o, now) == Verdict(<<
    Check(Unparseable(c), "malformed"),
    Check(o.tenant = None, "no_configured_tenant"),
    Check(c.tenant = None \/ c.tenant # o.tenant, "tenant"),
    Check(c.exp = None, "missing_exp"),
    Check(c.exp \in Int /\ Expired(c, now), "expired"),
    Check(c.nbf \in Int /\ NotYetValid(c, now), "not_yet_valid"),
    Check(o.issuer # None /\ c.issuer # o.issuer, "issuer"),
    Check(o.audience # None /\ ~Names(c, o.audience), "audience") >>)

\* cnf is None, or names a certificate (x5t), a key (jkt), both or neither.
VerifyTokenBinding(cnf, proofs) ==
    IF cnf = None THEN "ok"
    ELSE Verdict(<<
      Check(cnf.x5t = None /\ cnf.jkt = None, "unverifiable"),
      Check(cnf.x5t # None /\ proofs.cert = None, "no_certificate"),
      Check(cnf.x5t # None /\ proofs.cert # cnf.x5t, "other_certificate"),
      Check(cnf.jkt # None /\ proofs.dpop = None, "no_proof"),
      Check(cnf.jkt # None /\ proofs.dpop # cnf.jkt, "other_key") >>)

\* The entry point that has a certificate to show and no proof.
VerifyCertificateBinding(cnf, cert) ==
    IF cnf = None THEN "ok"
    ELSE Verdict(<<
      Check(cnf.x5t = None, "unverifiable"),
      Check(cnf.jkt # None, "unverifiable"),
      Check(cert = None, "no_certificate"),
      Check(cert # cnf.x5t, "other_certificate") >>)

\* resolveClockSkewSec: zero, negative and excessive values mean the maximum.
ClockSkew(sec) == IF sec <= 0 \/ sec > MaxSkew THEN MaxSkew ELSE sec

\* The ID token's claims; an aud of another shape parses, and names nobody.
UnparseableIDToken(c) ==
    c.exp = Bad \/ c.nbf = Bad \/ c.iat = Bad \/ c.issuer = Bad \/ c.azp = Bad \/ c.nonce = Bad

\* x holds the expectations of the flow; x.nonce is None when rule 6 is skipped.
ValidateIDToken(c, x, now) ==
    LET skew == ClockSkew(x.skew) IN
    Verdict(<<
      Check(UnparseableIDToken(c), "invalid_signature"),
      Check(c.issuer # x.issuer, "invalid_issuer"),
      Check(~Names(c, x.client), "invalid_audience"),
      Check(Len(Audiences(c)) > 1 /\ c.azp # x.client, "invalid_audience"),
      Check(c.exp = None, "token_expired"),
      Check(c.exp \in Int /\ c.exp + skew <= now, "token_expired"),
      Check(c.iat = None, "token_expired"),
      Check(c.iat \in Int /\ c.iat - skew > now, "token_expired"),
      Check(c.nbf \in Int /\ c.nbf - skew > now, "token_expired"),
      Check(x.nonce # None /\ c.nonce # x.nonce, "nonce_mismatch") >>)
=============================================================================
