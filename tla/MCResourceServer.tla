-------------------------- MODULE MCResourceServer --------------------------
(* One goroutine meets every kind of request; the others carry tokens of the *)
(* rotated keys.                                                             *)
EXTENDS ResourceServer, TLC

CONSTANTS g1, g2

Claims ==
    [tenant |-> "t", exp |-> 0, nbf |-> None, iat |-> 0, issuer |-> "i", aud |-> <<"rp">>,
     azp |-> None, nonce |-> "n"]

Plain(k) ==
    [kind |-> "access", kid |-> k, genuine |-> TRUE, alg |-> "EdDSA", source |-> "header", safe |-> FALSE, csrf |-> FALSE,
     metadata |-> FALSE, claims |-> Claims, cnf |-> None, cert |-> None, sid |-> None, header |-> None]

Bound(x5t, jkt) == [x5t |-> x5t, jkt |-> jkt]

Every ==
    { Plain("k1"), Plain("k2"),
      [Plain("k1") EXCEPT !.genuine = FALSE],
      [Plain("k1") EXCEPT !.kind = "id"],
      [Plain("k1") EXCEPT !.kind = "id", !.genuine = FALSE],
      [Plain("k1") EXCEPT !.kind = "id", !.claims.nonce = "other"],
      [Plain("k1") EXCEPT !.kind = "id", !.claims.iat = Bad],
      [Plain("k2") EXCEPT !.alg = "other"],
      [Plain("k1") EXCEPT !.source = "none"],
      [Plain("k1") EXCEPT !.metadata = TRUE, !.source = "none"],
      [Plain("k1") EXCEPT !.source = "cookie", !.header = "t"],
      [Plain("k1") EXCEPT !.source = "cookie", !.csrf = TRUE],
      [Plain("k1") EXCEPT !.header = "other"],
      [Plain("k1") EXCEPT !.sid = "s"],
      [Plain("k1") EXCEPT !.claims.exp = Bad],
      [Plain("k1") EXCEPT !.claims.exp = None],
      [Plain("k1") EXCEPT !.claims.exp = 1, !.claims.nbf = 2],
      [Plain("k1") EXCEPT !.claims.tenant = "other"],
      [Plain("k1") EXCEPT !.claims.aud = <<"other">>],
      [Plain("k1") EXCEPT !.cnf = Bound("a", None), !.cert = "a"],
      [Plain("k1") EXCEPT !.cnf = Bound("a", None)],
      [Plain("k1") EXCEPT !.cnf = Bound("a", "b"), !.cert = "a"],
      [Plain("k1") EXCEPT !.cnf = Bound(None, "b"), !.cert = "b"],
      [Plain("k1") EXCEPT !.cnf = Bound(None, None)] }

MCRequestsOf ==
    [g \in Goroutines |-> IF g = g1 THEN Every ELSE {Plain("k2")}]

MCOptions == [tenant |-> "t", issuer |-> "i", audience |-> "rp"]

MCRelyingParty == [issuer |-> "i", client |-> "rp", nonce |-> "n", skew |-> 0]

MCPublished == << {"k1"}, {"k2"} >>
=============================================================================
