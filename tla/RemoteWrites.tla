---------------------------- MODULE RemoteWrites ----------------------------
(***************************************************************************)
(* Requests that must not be repeated, and the reads that may be: the      *)
(* client-configuration endpoint of RFC 7592 (oidc_registration.go), whose *)
(* update rotates the token that authorizes it, and the management calls   *)
(* (management_request.go), whose writes mint or rotate something.         *)
(*                                                                         *)
(* Writers are processes that share one registration and start with its    *)
(* token, as the replicas of a service do; each keeps the token and the    *)
(* metadata an answered update returned, and updates from the last it      *)
(* read, as UpdateClientRegistration's documentation says.  The server and *)
(* the network are external: a request whose answer is no verdict (a       *)
(* transport failure, a timeout, a 5xx, a 408, a 429, a 200 that does not  *)
(* decode) was carried out, was not, or still may be.                      *)
(*                                                                         *)
(* Of a registration there is the number of updates behind it, which is    *)
(* also its token, and whether the members the SDK has no field for        *)
(* (Extra) are still in it.                                                *)
(*                                                                         *)
(* RetryAny is a faulty variant of MayRetry.                               *)
(***************************************************************************)
EXTENDS Naturals, FiniteSets

CONSTANTS
    Writers,
    MaxAttempts,
    MaxCalls      \* bound on the calls of all together

RemoteConstants == MaxAttempts \in Nat \ {0} /\ MaxCalls \in Nat

RegistrationOps == {"read", "update", "delete"}
Writes == {"update", "delete", "mint"}          \* "mint": a management POST, PUT, PATCH or DELETE
Operations == Writes \cup {"read", "list"}      \* "list": a management GET

VARIABLES
    reg,       \* the registration on the server
    token,     \* the token each process holds
    copy,      \* the registration each process was last shown
    sent,      \* the request each process waits for
    late,      \* requests given up that the server may still carry out
    calls,     \* calls begun, by which they are numbered
    write      \* history: the last write of each process, how it ended, how often it
               \* took effect, whether its token was current when it began and nobody
               \* else wrote the registration since, and how the last read after it ended

remote == <<reg, token, copy, sent, late, calls, write>>

Idle(w) == sent[w].op = "none"
NoCopy == [known |-> FALSE, base |-> 0, extra |-> TRUE]
Waiting(op, n, tok, body) == [op |-> op, n |-> n, attempt |-> 1, token |-> tok, body |-> body]
Opening(op, n, alone) ==
    [op |-> op, n |-> n, end |-> "none", landed |-> 0, alone |-> alone, read |-> "none"]

WInit ==
    /\ reg = [there |-> TRUE, version |-> 0, extra |-> TRUE]
    /\ token = [w \in Writers |-> 0]
    /\ copy = [w \in Writers |-> NoCopy]
    /\ sent = [w \in Writers |-> Waiting("none", 0, 0, NoCopy)]
    /\ late = {}
    /\ calls = 0
    /\ write = [w \in Writers |-> Opening("none", 0, TRUE)]

-----------------------------------------------------------------------------
\* wireMembers and updateBody: what the read carried, the server-stated members
\* apart.
UpdateBody(shown) == shown

Begin(w, op) ==
    /\ Idle(w) /\ calls < MaxCalls
    /\ op = "update" => copy[w].known
    /\ calls' = calls + 1
    /\ sent' = [sent EXCEPT ![w] =
                  Waiting(op, calls + 1, token[w],
                          IF op = "update" THEN UpdateBody(copy[w]) ELSE NoCopy)]
    /\ write' = IF op \notin Writes THEN write
                ELSE [write EXCEPT ![w] = Opening(op, calls + 1, reg.there /\ token[w] = reg.version)]
    /\ UNCHANGED <<reg, token, copy, late>>

\* Closed, another origin, or no session: no request leaves.
RefuseLocally(w) ==
    /\ Idle(w) /\ calls < MaxCalls
    /\ calls' = calls + 1
    /\ UNCHANGED <<reg, token, copy, sent, late, write>>

-----------------------------------------------------------------------------
\* The server.  A registration request needs the current token; an update
\* replaces the whole registration and the token.
Authorized(m) == m.op \in RegistrationOps => reg.there /\ m.token = reg.version

CarriedOut(m) ==
    CASE m.op = "update" -> [reg EXCEPT !.version = @ + 1, !.extra = m.body.extra]
      [] m.op = "delete" -> [reg EXCEPT !.there = FALSE]
      [] OTHER -> reg

\* What the histories say once the request m of w is carried out.
Noted(w, m) ==
    IF m.op \notin Writes THEN write
    ELSE [x \in Writers |->
            IF x = w /\ m.n = write[x].n THEN [write[x] EXCEPT !.landed = @ + 1]
            ELSE [write[x] EXCEPT !.alone = @ /\ m.op \notin RegistrationOps]]

\* How a call of w ends, in the histories h.
Ended(h, w, how) ==
    CASE sent[w].op \in Writes -> [h EXCEPT ![w].end = how]
      [] sent[w].op = "read" -> [h EXCEPT ![w].read = how]
      [] OTHER -> h

Return(w) == sent' = [sent EXCEPT ![w] = Waiting("none", 0, 0, NoCopy)]

-----------------------------------------------------------------------------
\* A 2xx that decodes.  An update's answer carries the rotated token.
Succeed(w) ==
    /\ ~Idle(w) /\ Authorized(sent[w])
    /\ reg' = CarriedOut(sent[w])
    /\ write' = Ended(Noted(w, sent[w]), w, "ok")
    /\ token' = IF sent[w].op = "update" THEN [token EXCEPT ![w] = reg'.version] ELSE token
    /\ copy' = IF sent[w].op \in {"read", "update"}
                THEN [copy EXCEPT ![w] = [known |-> TRUE, base |-> reg'.version, extra |-> reg'.extra]]
                ELSE copy
    /\ Return(w)
    /\ UNCHANGED <<late, calls>>

\* 401 invalid_token, metadata the server does not accept, or any decisive
\* refusal of a management request.
Refuse(w) ==
    /\ ~Idle(w)
    /\ sent[w].op \in {"read", "delete"} => ~Authorized(sent[w])
    /\ write' = Ended(write, w, "refused")
    /\ Return(w)
    /\ UNCHANGED <<reg, token, copy, late, calls>>

\* Only a read is repeated when the answer is no verdict, unless its context ends
\* or the answer has an OAuth error body, which ends it at any status.
RetryAny(m) == m.attempt < MaxAttempts
MayRetry(m) == m.op \notin Writes /\ m.attempt < MaxAttempts

NoVerdict(w) ==
    /\ ~Idle(w)
    /\ LET m == sent[w] IN
       \E fate \in {"landed", "lost", "late"} :
          /\ fate = "landed" => Authorized(m)
          /\ fate = "late" => m.op \in Writes
          /\ reg' = IF fate = "landed" THEN CarriedOut(m) ELSE reg
          /\ late' = IF fate = "late" THEN late \cup {[from |-> w, request |-> m]} ELSE late
          /\ LET h == IF fate = "landed" THEN Noted(w, m) ELSE write IN
             \/ MayRetry(m) /\ sent' = [sent EXCEPT ![w].attempt = @ + 1] /\ write' = h
             \/ Return(w) /\ write' = Ended(h, w, "unsure")
    /\ UNCHANGED <<token, copy, calls>>

\* A request that was given up reaches the server after all, or never does.
LandLate(r) ==
    /\ r \in late
    /\ late' = late \ {r}
    /\ \/ /\ Authorized(r.request)
          /\ reg' = CarriedOut(r.request)
          /\ write' = Noted(r.from, r.request)
       \/ UNCHANGED <<reg, write>>
    /\ UNCHANGED <<token, copy, sent, calls>>

WNext ==
    \/ \E w \in Writers :
          \/ \E op \in Operations : Begin(w, op)
          \/ RefuseLocally(w) \/ Succeed(w) \/ Refuse(w) \/ NoVerdict(w)
    \/ \E r \in late : LandLate(r)

-----------------------------------------------------------------------------
Copies == [known : BOOLEAN, base : Nat, extra : BOOLEAN]
Requests == [op : Operations \cup {"none"}, n : Nat, attempt : Nat, token : Nat, body : Copies]

TypeOK ==
    /\ reg \in [there : BOOLEAN, version : Nat, extra : BOOLEAN]
    /\ token \in [Writers -> Nat]
    /\ copy \in [Writers -> Copies]
    /\ sent \in [Writers -> Requests] /\ \A w \in Writers : sent[w].attempt <= MaxAttempts
    /\ late \subseteq [from : Writers, request : Requests]
    /\ calls \in 0 .. MaxCalls
    /\ write \in [Writers -> [op : Writes \cup {"none"}, n : Nat, landed : Nat, alone : BOOLEAN,
                              end : {"none", "ok", "refused", "unsure"},
                              read : {"none", "ok", "refused", "unsure"}]]

\* How a write ended is so for good: refused, it has not taken effect and never
\* will; successful, it has (oidc_registration.go: "a retry after a lost 204
\* would read 401 and report a successful deletion as a failure").
VerdictsTrue ==
    \A w \in Writers :
        /\ write[w].end = "refused" =>
              write[w].landed = 0 /\ \A r \in late : r.from = w => r.request.n # write[w].n
        /\ write[w].end = "ok" => write[w].landed = 1

\* No call takes effect twice, whatever became of its answer (management_request
\* .go: "generating a certificate twice mints two").
AtMostOnce == \A w \in Writers : write[w].landed <= 1

\* After an update or a delete with no verdict, a read that is refused means that
\* it landed, when its token was good and nobody else wrote (oidc_registration.go:
\* "a 401 means the update landed").
LossIsFoundOut ==
    \A w \in Writers :
        /\ write[w].op \in RegistrationOps /\ write[w].end = "unsure"
        /\ write[w].alone /\ write[w].read = "refused"
        => write[w].landed = 1

\* A write is made at most once and its end can be believed.
WritesOnce == TypeOK /\ VerdictsTrue /\ AtMostOnce /\ LossIsFoundOut

\* An update replaces the registration it was made from, the members without a
\* field included: nobody's update is overwritten unread.
BuildsOnLatest ==
    reg'.version # reg.version =>
        /\ reg'.extra
        /\ \/ \E w \in Writers : sent[w].op = "update" /\ sent[w].body.base = reg.version
           \/ \E r \in late : r.request.op = "update" /\ r.request.body.base = reg.version
=============================================================================
