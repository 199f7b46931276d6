---------------------------- MODULE SessionProofs ----------------------------
(***************************************************************************)
(* The credential state a Client shares, for any goroutines, principals    *)
(* and number of sessions: what one call at a time keeps is about the      *)
(* principal the next request acts as, and a call that overlaps a change   *)
(* of the guard never writes to the new one.                               *)
(***************************************************************************)
EXTENDS Session, TLAPS

SignIns == {"login", "passkey", "sso"}

(* Where a call of each operation can be. *)
LegalCalls ==
    {<<"none", "idle">>, <<"opaque", "start">>, <<"login", "report">>, <<"login", "scope">>,
     <<"sso", "forget">>, <<"rpc", "again">>, <<"rpc", "last">>, <<"device", "clear">>,
     <<"device", "adopt">>, <<"adopt", "adopt">>}
    \cup (SignIns \X {"wire", "absorb", "seed"})
    \cup ({"refresh", "rpc"} \X {"lock", "posted", "store"})
    \cup ({"rpc", "logout", "device", "adopt", "check", "enroll"} \X {"wire"})

Labels == {"idle", "start", "wire", "absorb", "seed", "report", "scope", "forget",
           "lock", "posted", "store", "again", "last", "clear", "adopt"}
Calls == [at : Labels, op : AllOps \cup {"none"}, who : Principals \cup {None},
          key : Questions \cup {None}, tok : Nat, sent : Nat, g : Nat,
          left : Nat, met : BOOLEAN]
CallOf(at, op, who, key, tok, sent, g, left, met) ==
    [at |-> at, op |-> op, who |-> who, key |-> key, tok |-> tok, sent |-> sent, g |-> g,
     left |-> left, met |-> met]
Guards == [hasAny : BOOLEAN, access : Nat, mu : Procs \cup {None}]
Cookies == [who : Users, torn : {"no"} \cup Undecodable]

(* A call reads no cookie the server has not set and no guard there is not, and
   who signs in is a user. *)
Legal(c, cookies, gs) ==
    /\ c \in Calls /\ <<c.op, c.at>> \in LegalCalls
    /\ c.tok <= cookies /\ c.sent <= cookies /\ c.g \in 1 .. gs
    /\ c.op \in SignIns \cup {"opaque"} => c.who \in Users
    /\ c.at = "posted" => c.who \in Users \cup {None}
    /\ c.op = "check" => c.key \in Questions
    /\ c.op = "enroll" => c.who \in Users

OwnerTyped == owner \in Seq(Cookies) /\ Len(owner) <= MaxCookies
JarTyped == jar \in 0 .. Len(owner)
GuardsTyped ==
    /\ guards \in Seq(Guards) /\ Len(guards) # 0
    /\ \A i \in 1 .. Len(guards) : guards[i].access <= Len(owner)
KeptTyped ==
    /\ memo \in [Questions -> Principals \cup {None}]
    /\ scope \in Users \cup {None} /\ home \in Users \cup {None}
    /\ device \in {None, Device} /\ adopted \in {None, Service}
    /\ closed \in BOOLEAN
CallsTyped ==
    /\ call \in [Procs -> Calls]
    /\ \A p \in Procs : Legal(call[p], Len(owner), Len(guards))
Typed == OwnerTyped /\ JarTyped /\ GuardsTyped /\ KeptTyped /\ CallsTyped

-----------------------------------------------------------------------------
(* The guard in use, and which operation failed to decode the answer that set the
   cookie in the jar. *)
Base == guards[Current]
Torn == IF jar = 0 THEN "none" ELSE owner[jar].torn

(* Between calls, what is kept is about one principal.  A scope is reported only
   by a login, which seeds the guard; a torn SSO cookie leaves the guard behind,
   so that no later refresh renews the jar under the old scope. *)
MemoOk == adopted = None /\ Torn # "sso" => \A k \in Questions : memo[k] \in {None, ActsAs}
ScopeOk ==
    scope # None =>
        /\ Base.hasAny
        /\ IF Torn = "sso" THEN Base.access # jar ELSE scope = CookieOwner /\ home = scope
GuardOk == jar # 0 /\ Torn \notin Undecodable /\ Base.hasAny => Base.access = jar
BearerOk == device = None \/ adopted = None
Settled == MemoOk /\ ScopeOk /\ GuardOk /\ BearerOk

Forgotten == memo = NoDecision /\ scope = None /\ device = None

(* What the session is like while one call is under way, and no other. *)
Phase(c) ==
    /\ c.at \in {"idle", "start", "wire", "lock", "posted", "again", "last"} => Settled
    /\ c.op \in {"opaque", "login", "passkey", "logout"} => Forgotten
    /\ c.op = "check" => c.who = ActsAs
    /\ c.at \in {"absorb", "seed", "report", "scope", "forget", "store"} =>
         jar # 0 /\ Torn = "no" /\ BearerOk
    /\ c.at = "seed" => c.tok = jar /\ c.g = Current
    /\ c.at \in {"report", "scope", "forget"} => GuardOk
    /\ c.op = "login" /\ c.at # "wire" => owner[jar].who = c.who
    /\ c.at \in {"report", "scope"} => Base.hasAny
    /\ c.at = "scope" => home = c.who
    /\ c.at \in {"lock", "posted", "store"} => memo = NoDecision /\ c.g = Current
    /\ c.at \in {"lock", "posted"} => jar # 0 /\ c.tok = jar
    /\ c.at = "posted" => c.who = CookieOwner /\ (Base.hasAny => Base.access = jar)
    /\ c.at = "store" => ScopeOk /\ (c.op = "rpc" => c.sent # jar)
    /\ c.at = "again" => Torn \in Undecodable \/ Base.access # c.sent
    /\ c.at = "last" => Torn \in Undecodable \/ c.tok # c.sent
    /\ c.at = "clear" => adopted = None /\ ~Base.hasAny
    /\ c.op = "device" /\ c.at = "adopt" => Forgotten /\ adopted = None /\ ~Base.hasAny
    /\ c.op = "adopt" /\ c.at = "adopt" => scope = None /\ device = None /\ GuardOk

OthersIdle(p) == \A q \in Procs \ {p} : Idle(q)

(* As long as no two calls have met, at most one is under way. *)
Solo ==
    Alone =>
        /\ Quiet => Settled
        /\ \A p \in Procs : ~Idle(p) => OthersIdle(p) /\ Phase(call[p])

SInv == Typed /\ Solo

-----------------------------------------------------------------------------
(* What is legal stays so while cookies and guards are added. *)
LEMMA LegalGrows ==
  ASSUME NEW c, NEW i \in Nat, NEW j \in Nat, NEW k \in Nat, NEW l \in Nat, i <= k, j <= l, Legal(c, i, j)
  PROVE  Legal(c, k, l)
<1>1. c.tok \in Nat /\ c.sent \in Nat /\ c.g \in Nat
  BY DEF Legal, Calls
<1> QED
  BY <1>1 DEF Legal

(* A call under way is replaced by another stage of it. *)
LEMMA CallsStep ==
  ASSUME Typed, NEW p \in Procs, NEW r, Legal(r, Len(owner'), Len(guards')),
         call' = [call EXCEPT ![p] = r],
         Len(owner') \in Nat, Len(owner) <= Len(owner'),
         Len(guards') \in Nat, Len(guards) <= Len(guards')
  PROVE  CallsTyped'
<1>1. Len(owner) \in Nat /\ Len(guards) \in Nat
  BY DEF Typed, OwnerTyped, GuardsTyped
<1>2. r \in Calls
  BY DEF Legal
<1>3. call' \in [Procs -> Calls]
  BY <1>2 DEF Typed, CallsTyped
<1>4. ASSUME NEW q \in Procs PROVE Legal(call'[q], Len(owner'), Len(guards'))
  <2>1. CASE q = p
    BY <2>1 DEF Typed, CallsTyped
  <2>2. CASE q # p
    <3>1. call'[q] = call[q] /\ Legal(call[q], Len(owner), Len(guards))
      BY <2>2 DEF Typed, CallsTyped
    <3>2. Legal(call[q], Len(owner'), Len(guards'))
      BY <1>1, <3>1, LegalGrows
    <3> QED
      BY <3>1, <3>2
  <2> QED
    BY <2>1, <2>2
<1> QED
  BY <1>3, <1>4 DEF CallsTyped

(* What holds of the only call under way is all there is to show. *)
LEMMA SoloStep ==
  ASSUME SInv, NEW p \in Procs, NEW r, call' = [call EXCEPT ![p] = r],
         ~r.met => ~call[p].met /\ (Idle(p) => OthersIdle(p)),
         Phase(call[p]) => Phase(call[p])',
         Typed'
  PROVE  SInv'
<1>1. SUFFICES ASSUME Alone' PROVE (Quiet => Settled)' /\ \A q \in Procs : ~Idle(q)' => OthersIdle(q)' /\ Phase(call[q])'
  BY DEF SInv, Solo
<1>2. call'[p] = r /\ \A q \in Procs \ {p} : call'[q] = call[q]
  BY DEF SInv, Typed, CallsTyped
<1>3. Alone
  BY <1>1, <1>2 DEF Alone
<1>4. OthersIdle(p)
  BY <1>1, <1>2, <1>3 DEF SInv, Solo, Alone
<1>5. Phase(call[p])
  <2>1. CASE Idle(p)
    <3>1. Quiet
      BY <1>4, <2>1 DEF Quiet, OthersIdle
    <3>2. Settled
      BY <1>3, <3>1 DEF SInv, Solo
    <3>3. call[p].at = "idle" /\ call[p].op = "none"
      BY <2>1 DEF SInv, Typed, CallsTyped, Legal, LegalCalls, Idle, SignIns
    <3> QED
      BY <3>2, <3>3 DEF Phase
  <2>2. CASE ~Idle(p)
    BY <1>3, <2>2 DEF SInv, Solo
  <2> QED
    BY <2>1, <2>2
<1>6. Phase(call[p])'
  BY <1>5
<1>7. \A q \in Procs \ {p} : Idle(q)'
  BY <1>2, <1>4 DEF OthersIdle, Idle
<1>8. ASSUME Quiet' PROVE Settled'
  <2>1. call'[p].at = "idle"
    BY <1>8 DEF Quiet, Idle
  <2> QED
    BY <1>6, <2>1 DEF Phase
<1> QED
  BY <1>6, <1>7, <1>8 DEF OthersIdle

(* A call that becomes r; it is without an overlap only if there was none. *)
Becomes(p, r) ==
    /\ call' = [call EXCEPT ![p] = r]
    /\ ~r.met => ~call[p].met /\ (Idle(p) => OthersIdle(p))

LEMMA Step ==
  ASSUME SInv, NEW p \in Procs, NEW r, Becomes(p, r),
         Legal(r, Len(owner'), Len(guards')),
         OwnerTyped', JarTyped', GuardsTyped', KeptTyped',
         Len(owner) <= Len(owner'), Len(guards) <= Len(guards'),
         Phase(call[p]) => Phase(call[p])'
  PROVE  SInv'
<1>1. Len(owner') \in Nat /\ Len(guards') \in Nat
  BY DEF OwnerTyped, GuardsTyped
<1>2. CallsTyped'
  BY <1>1, CallsStep DEF SInv, Becomes
<1>3. Typed'
  BY <1>2 DEF Typed
<1> QED
  BY <1>3, SoloStep DEF Becomes

LEMMA KeepStep ==
  ASSUME SInv, NEW p \in Procs, NEW r, Becomes(p, r), UNCHANGED <<owner, guards>>,
         Legal(r, Len(owner), Len(guards)), JarTyped', KeptTyped',
         Phase(call[p]) => Phase(call[p])'
  PROVE  SInv'
<1>1. Len(owner) \in Nat /\ Len(guards) \in Nat
  BY DEF SInv, Typed, OwnerTyped, GuardsTyped
<1>2. OwnerTyped' /\ GuardsTyped'
  BY DEF SInv, Typed, OwnerTyped, GuardsTyped
<1>3. Legal(r, Len(owner'), Len(guards'))
  OBVIOUS
<1> QED
  BY <1>1, <1>2, <1>3, Step

-----------------------------------------------------------------------------
(* The stages of a call. *)
LEMMA CallIs ==
  ASSUME Typed, NEW p \in Procs
  PROVE  LET c == call[p] IN
         /\ c \in Calls /\ Legal(c, Len(owner), Len(guards))
         /\ c = CallOf(c.at, c.op, c.who, c.key, c.tok, c.sent, c.g, c.left, c.met)
  BY DEF Typed, CallsTyped, Calls, CallOf

(* What a call enters with. *)
LEMMA CalledIs ==
  ASSUME Typed, NEW p \in Procs, NEW op, MayCall(p, op)
  PROVE  \E m \in BOOLEAN, l \in Nat :
           /\ Called(p) = CallOf("idle", "none", None, None, 0, 0, 1, l, m)
           /\ ~m => ~call[p].met /\ OthersIdle(p)
<1>1. call[p].left \in Nat /\ call[p].left > 0
  BY DEF Typed, CallsTyped, Calls, MayCall
<1>2. call[p].left - 1 \in Nat
  BY <1>1
<1>3. PICK m \in BOOLEAN : m = (call[p].met \/ \E q \in Procs \ {p} : ~Idle(q))
  OBVIOUS
<1>4. ~m => ~call[p].met /\ OthersIdle(p)
  BY <1>3 DEF OthersIdle
<1>5. Called(p) = CallOf("idle", "none", None, None, 0, 0, 1, call[p].left - 1, m)
  BY <1>3 DEF Called, AtRest, CallOf
<1> QED
  BY <1>2, <1>4, <1>5

LEMMA EnterIs ==
  ASSUME Typed, NEW p \in Procs, NEW op, NEW at, NEW who, MayCall(p, op), Enter(p, op, at, who)
  PROVE  \E m \in BOOLEAN, l \in Nat :
           Becomes(p, CallOf(at, op, who, None, 0, 0, 1, l, m))
<1>1. PICK m \in BOOLEAN, l \in Nat :
        /\ Called(p) = CallOf("idle", "none", None, None, 0, 0, 1, l, m)
        /\ ~m => ~call[p].met /\ OthersIdle(p)
  BY CalledIs
<1>2. [[[Called(p) EXCEPT !.op = op] EXCEPT !.at = at] EXCEPT !.who = who]
        = CallOf(at, op, who, None, 0, 0, 1, l, m)
  <2>1. [Called(p) EXCEPT !.op = op] = CallOf("idle", op, None, None, 0, 0, 1, l, m)
    BY <1>1 DEF CallOf
  <2>2. [CallOf("idle", op, None, None, 0, 0, 1, l, m) EXCEPT !.at = at] = CallOf(at, op, None, None, 0, 0, 1, l, m)
    BY DEF CallOf
  <2>3. [CallOf(at, op, None, None, 0, 0, 1, l, m) EXCEPT !.who = who] = CallOf(at, op, who, None, 0, 0, 1, l, m)
    BY DEF CallOf
  <2> QED
    BY <2>1, <2>2, <2>3
<1>3. [Called(p) EXCEPT !.op = op, !.at = at, !.who = who]
        = [[[Called(p) EXCEPT !.op = op] EXCEPT !.at = at] EXCEPT !.who = who]
  OBVIOUS
<1>4. call' = [call EXCEPT ![p] = CallOf(at, op, who, None, 0, 0, 1, l, m)]
  BY <1>2, <1>3 DEF Enter
<1>5. CallOf(at, op, who, None, 0, 0, 1, l, m).met = m
  BY DEF CallOf
<1> QED
  BY <1>1, <1>4, <1>5 DEF Becomes

(* A call that ends, at once or after all. *)
LEMMA RestIs ==
  ASSUME Typed, NEW p \in Procs,
         \/ \E op : MayCall(p, op) /\ EnterAndReturn(p)
         \/ ~Idle(p) /\ Return(p)
  PROVE  \E m \in BOOLEAN, l \in Nat :
           LET r == CallOf("idle", "none", None, None, 0, 0, 1, l, m) IN
           Becomes(p, r) /\ Legal(r, Len(owner), Len(guards))
<1> DEFINE R(m, l) == CallOf("idle", "none", None, None, 0, 0, 1, l, m)
<1>1. ASSUME NEW m \in BOOLEAN, NEW l \in Nat PROVE Legal(R(m, l), Len(owner), Len(guards)) /\ R(m, l).met = m
  BY DEF Legal, Calls, Labels, LegalCalls, AllOps, Principals, SignIns, CallOf, Typed, OwnerTyped, GuardsTyped
<1>2. CASE \E op : MayCall(p, op) /\ EnterAndReturn(p)
  <2>1. PICK m \in BOOLEAN, l \in Nat :
          Called(p) = R(m, l) /\ (~m => ~call[p].met /\ OthersIdle(p))
    BY <1>2, CalledIs
  <2> QED
    BY <1>1, <1>2, <2>1 DEF Becomes, EnterAndReturn
<1>3. CASE ~Idle(p) /\ Return(p)
  <2>1. call[p].left \in Nat /\ call[p].met \in BOOLEAN
    BY DEF Typed, CallsTyped, Calls
  <2>2. AtRest(call[p].left, call[p].met) = R(call[p].met, call[p].left)
    BY DEF AtRest, CallOf
  <2> QED
    BY <1>1, <1>3, <2>1, <2>2 DEF Becomes, Return
<1> QED
  BY <1>2, <1>3

(* A call under way that goes on from another place. *)
LEMMA GotoIs ==
  ASSUME Typed, NEW p \in Procs, NEW label, ~Idle(p), Goto(p, label)
  PROVE  LET c == call[p] IN
         Becomes(p, CallOf(label, c.op, c.who, c.key, c.tok, c.sent, c.g, c.left, c.met))
<1> DEFINE c == call[p]
           r == CallOf(label, c.op, c.who, c.key, c.tok, c.sent, c.g, c.left, c.met)
<1>1. [c EXCEPT !.at = label] = r
  <2>1. c = CallOf(c.at, c.op, c.who, c.key, c.tok, c.sent, c.g, c.left, c.met)
    BY CallIs
  <2>2. [CallOf(c.at, c.op, c.who, c.key, c.tok, c.sent, c.g, c.left, c.met) EXCEPT !.at = label] = r
    BY DEF CallOf
  <2> QED
    BY <2>1, <2>2
<1>2. call' = [call EXCEPT ![p] = [c EXCEPT !.at = label]]
  BY DEF Goto
<1>3. r.met = c.met
  BY DEF CallOf
<1> QED
  BY <1>1, <1>2, <1>3 DEF Becomes

(* A call under way that goes on with other fields. *)
LEMMA SetField ==
  ASSUME Typed, NEW p \in Procs, NEW c, NEW v
  PROVE  /\ [[call EXCEPT ![p] = c] EXCEPT ![p].at = v] = [call EXCEPT ![p] = [c EXCEPT !.at = v]]
         /\ [[call EXCEPT ![p] = c] EXCEPT ![p].who = v] = [call EXCEPT ![p] = [c EXCEPT !.who = v]]
         /\ [[call EXCEPT ![p] = c] EXCEPT ![p].tok = v] = [call EXCEPT ![p] = [c EXCEPT !.tok = v]]
         /\ [[call EXCEPT ![p] = c] EXCEPT ![p].g = v] = [call EXCEPT ![p] = [c EXCEPT !.g = v]]
         /\ [[call EXCEPT ![p] = c] EXCEPT ![p].op = v] = [call EXCEPT ![p] = [c EXCEPT !.op = v]]
  BY DEF Typed, CallsTyped

LEMMA MoveOne ==
  ASSUME Typed, NEW p \in Procs, NEW v
  PROVE  LET c == call[p] IN
         /\ [call EXCEPT ![p].at = v]
              = [call EXCEPT ![p] = CallOf(v, c.op, c.who, c.key, c.tok, c.sent, c.g, c.left, c.met)]
         /\ [call EXCEPT ![p].op = v]
              = [call EXCEPT ![p] = CallOf(c.at, v, c.who, c.key, c.tok, c.sent, c.g, c.left, c.met)]
         /\ [call EXCEPT ![p].who = v]
              = [call EXCEPT ![p] = CallOf(c.at, c.op, v, c.key, c.tok, c.sent, c.g, c.left, c.met)]
<1> DEFINE c == call[p]
           C(at, op, who) == CallOf(at, op, who, c.key, c.tok, c.sent, c.g, c.left, c.met)
<1>1. c = C(c.at, c.op, c.who)
  BY CallIs
<1>2. /\ [C(c.at, c.op, c.who) EXCEPT !.at = v] = C(v, c.op, c.who)
      /\ [C(c.at, c.op, c.who) EXCEPT !.op = v] = C(c.at, v, c.who)
      /\ [C(c.at, c.op, c.who) EXCEPT !.who = v] = C(c.at, c.op, v)
  BY DEF CallOf
<1> HIDE DEF C
<1>3. /\ [c EXCEPT !.at = v] = C(v, c.op, c.who)
      /\ [c EXCEPT !.op = v] = C(c.at, v, c.who)
      /\ [c EXCEPT !.who = v] = C(c.at, c.op, v)
  BY <1>1, <1>2
<1> QED
  BY <1>3 DEF C

LEMMA MoveOpAt ==
  ASSUME Typed, NEW p \in Procs, NEW a, NEW b
  PROVE  LET c == call[p] IN
         [call EXCEPT ![p].op = a, ![p].at = b]
           = [call EXCEPT ![p] = CallOf(b, a, c.who, c.key, c.tok, c.sent, c.g, c.left, c.met)]
<1> DEFINE c == call[p]
           first == CallOf(c.at, a, c.who, c.key, c.tok, c.sent, c.g, c.left, c.met)
           second == CallOf(b, a, c.who, c.key, c.tok, c.sent, c.g, c.left, c.met)
<1>1. [call EXCEPT ![p].op = a] = [call EXCEPT ![p] = first]
  BY MoveOne
<1>2. [first EXCEPT !.at = b] = second
  BY DEF CallOf
<1> HIDE DEF first, second
<1>3. [[call EXCEPT ![p] = first] EXCEPT ![p].at = b]
        = [call EXCEPT ![p] = [first EXCEPT !.at = b]]
  BY SetField
<1>4. [[call EXCEPT ![p].op = a] EXCEPT ![p].at = b] = [call EXCEPT ![p] = second]
  BY <1>1, <1>2, <1>3, Zenon
<1>5. [call EXCEPT ![p].op = a, ![p].at = b] = [[call EXCEPT ![p].op = a] EXCEPT ![p].at = b]
  OBVIOUS
<1> QED
  BY <1>4, <1>5 DEF second

LEMMA MoveAtWho ==
  ASSUME Typed, NEW p \in Procs, NEW a, NEW b
  PROVE  LET c == call[p] IN
         [call EXCEPT ![p].at = a, ![p].who = b]
           = [call EXCEPT ![p] = CallOf(a, c.op, b, c.key, c.tok, c.sent, c.g, c.left, c.met)]
<1> DEFINE c == call[p]
           first == CallOf(a, c.op, c.who, c.key, c.tok, c.sent, c.g, c.left, c.met)
           second == CallOf(a, c.op, b, c.key, c.tok, c.sent, c.g, c.left, c.met)
<1>1. [call EXCEPT ![p].at = a] = [call EXCEPT ![p] = first]
  BY MoveOne
<1>2. [first EXCEPT !.who = b] = second
  BY DEF CallOf
<1> HIDE DEF first, second
<1>3. [[call EXCEPT ![p] = first] EXCEPT ![p].who = b]
        = [call EXCEPT ![p] = [first EXCEPT !.who = b]]
  BY SetField
<1>4. [[call EXCEPT ![p].at = a] EXCEPT ![p].who = b] = [call EXCEPT ![p] = second]
  BY <1>1, <1>2, <1>3, Zenon
<1>5. [call EXCEPT ![p].at = a, ![p].who = b] = [[call EXCEPT ![p].at = a] EXCEPT ![p].who = b]
  OBVIOUS
<1> QED
  BY <1>4, <1>5 DEF second

LEMMA MovesOneCall ==
  ASSUME Typed, NEW p \in Procs, NEW a, NEW b,
         call' = [call EXCEPT ![p].at = a, ![p].who = b]
  PROVE  \E v : call' = [call EXCEPT ![p] = v]
<1>1. [call EXCEPT ![p].at = a, ![p].who = b]
        = [call EXCEPT ![p] = CallOf(a, call[p].op, b, call[p].key, call[p].tok, call[p].sent,
                                     call[p].g, call[p].left, call[p].met)]
  BY MoveAtWho
<1> QED
  BY <1>1

LEMMA MoveAtTok ==
  ASSUME Typed, NEW p \in Procs, NEW a, NEW b
  PROVE  LET c == call[p] IN
         [call EXCEPT ![p].at = a, ![p].tok = b]
           = [call EXCEPT ![p] = CallOf(a, c.op, c.who, c.key, b, c.sent, c.g, c.left, c.met)]
<1> DEFINE c == call[p]
           first == CallOf(a, c.op, c.who, c.key, c.tok, c.sent, c.g, c.left, c.met)
           second == CallOf(a, c.op, c.who, c.key, b, c.sent, c.g, c.left, c.met)
<1>1. [call EXCEPT ![p].at = a] = [call EXCEPT ![p] = first]
  BY MoveOne
<1>2. [first EXCEPT !.tok = b] = second
  BY DEF CallOf
<1> HIDE DEF first, second
<1>3. [[call EXCEPT ![p] = first] EXCEPT ![p].tok = b]
        = [call EXCEPT ![p] = [first EXCEPT !.tok = b]]
  BY SetField
<1>4. [[call EXCEPT ![p].at = a] EXCEPT ![p].tok = b] = [call EXCEPT ![p] = second]
  BY <1>1, <1>2, <1>3, Zenon
<1>5. [call EXCEPT ![p].at = a, ![p].tok = b] = [[call EXCEPT ![p].at = a] EXCEPT ![p].tok = b]
  OBVIOUS
<1> QED
  BY <1>4, <1>5 DEF second

LEMMA MoveAtTokG ==
  ASSUME Typed, NEW p \in Procs, NEW a, NEW b, NEW d
  PROVE  LET c == call[p] IN
         [call EXCEPT ![p].at = a, ![p].tok = b, ![p].g = d]
           = [call EXCEPT ![p] = CallOf(a, c.op, c.who, c.key, b, c.sent, d, c.left, c.met)]
<1> DEFINE c == call[p]
           first == CallOf(a, c.op, c.who, c.key, c.tok, c.sent, c.g, c.left, c.met)
           second == CallOf(a, c.op, c.who, c.key, b, c.sent, c.g, c.left, c.met)
           third == CallOf(a, c.op, c.who, c.key, b, c.sent, d, c.left, c.met)
<1>1. [call EXCEPT ![p].at = a] = [call EXCEPT ![p] = first]
  BY MoveOne
<1>2. [first EXCEPT !.tok = b] = second
  BY DEF CallOf
<1>3. [second EXCEPT !.g = d] = third
  BY DEF CallOf
<1> HIDE DEF first, second, third
<1>4. [[call EXCEPT ![p] = first] EXCEPT ![p].tok = b]
        = [call EXCEPT ![p] = [first EXCEPT !.tok = b]]
  BY SetField
<1>5. [[call EXCEPT ![p].at = a] EXCEPT ![p].tok = b] = [call EXCEPT ![p] = second]
  BY <1>1, <1>2, <1>4, Zenon
<1>6. [[call EXCEPT ![p] = second] EXCEPT ![p].g = d] = [call EXCEPT ![p] = [second EXCEPT !.g = d]]
  BY SetField
<1>7. [[[call EXCEPT ![p].at = a] EXCEPT ![p].tok = b] EXCEPT ![p].g = d] = [call EXCEPT ![p] = third]
  BY <1>3, <1>5, <1>6, Zenon
<1>8. [call EXCEPT ![p].at = a, ![p].tok = b, ![p].g = d] = [[[call EXCEPT ![p].at = a] EXCEPT ![p].tok = b] EXCEPT ![p].g = d]
  OBVIOUS
<1> QED
  BY <1>7, <1>8 DEF third

-----------------------------------------------------------------------------
(* A cookie that is set is the newest, and in the jar. *)
LEMMA CookieSet ==
  ASSUME Typed, NEW u \in Users, NEW t \in {"no"} \cup Undecodable, SetCookie(u, t)
  PROVE  /\ OwnerTyped' /\ JarTyped' /\ Len(owner) <= Len(owner')
         /\ jar' # 0 /\ jar' > Len(owner)
         /\ owner'[jar'].who = u /\ Torn' = t
<1>1. owner \in Seq(Cookies) /\ Len(owner) \in Nat /\ Len(owner) < MaxCookies
  BY SessionConstants DEF Typed, OwnerTyped, SetCookie
<1>2. [who |-> u, torn |-> t] \in Cookies
  BY DEF Cookies
<1>3. /\ owner' = Append(owner, [who |-> u, torn |-> t]) /\ jar' = Len(owner) + 1
  BY DEF SetCookie
<1>4. /\ owner' \in Seq(Cookies) /\ Len(owner') = Len(owner) + 1
      /\ owner'[Len(owner) + 1] = [who |-> u, torn |-> t]
  BY <1>1, <1>2, <1>3
<1>5. Len(owner') <= MaxCookies
  BY <1>1, <1>4, SessionConstants
<1> QED
  BY <1>1, <1>3, <1>4, <1>5 DEF OwnerTyped, JarTyped, Torn

(* One guard changes. *)
LEMMA GuardSet ==
  ASSUME Typed, NEW g \in 1 .. Len(guards), NEW r \in Guards, r.access <= Len(owner'),
         Len(owner') \in Nat, Len(owner) <= Len(owner'),
         guards' = [guards EXCEPT ![g] = r]
  PROVE  /\ GuardsTyped' /\ Len(guards') = Len(guards) /\ Current' = Current
         /\ Base' = IF g = Current THEN r ELSE Base
<1>1. guards \in Seq(Guards) /\ Len(guards) \in Nat \ {0} /\ Len(owner) \in Nat
  BY DEF Typed, GuardsTyped, OwnerTyped
<1>2. guards' \in Seq(Guards) /\ Len(guards') = Len(guards)
  BY <1>1
<1>3. ASSUME NEW i \in 1 .. Len(guards) PROVE guards'[i] = IF i = g THEN r ELSE guards[i]
  BY <1>1
<1>4. ASSUME NEW i \in 1 .. Len(guards) PROVE guards'[i].access <= Len(owner')
  <2>1. guards[i] \in Guards /\ guards[i].access <= Len(owner)
    BY <1>1 DEF Typed, GuardsTyped
  <2>2. guards[i].access \in Nat
    BY <2>1 DEF Guards
  <2> QED
    BY <1>1, <1>3, <2>1, <2>2
<1>5. Len(guards) \in 1 .. Len(guards)
  BY <1>1
<1> QED
  BY <1>1, <1>2, <1>3, <1>4, <1>5 DEF GuardsTyped, Base, Current

(* The guard is replaced by a fresh one. *)
LEMMA GuardReplaced ==
  ASSUME Typed, owner' = owner, guards' = Append(guards, FreshGuard)
  PROVE  GuardsTyped' /\ Len(guards) <= Len(guards') /\ Base' = FreshGuard
<1>1. guards \in Seq(Guards) /\ Len(guards) \in Nat \ {0} /\ Len(owner) \in Nat
  BY DEF Typed, GuardsTyped, OwnerTyped
<1>2. FreshGuard \in Guards /\ FreshGuard.access = 0
  BY DEF FreshGuard, Guards
<1>3. guards' \in Seq(Guards) /\ Len(guards') = Len(guards) + 1
  BY <1>1, <1>2
<1>4. /\ guards'[Len(guards) + 1] = FreshGuard
      /\ \A i \in 1 .. Len(guards) : guards'[i] = guards[i]
  BY <1>1, <1>2
<1>5. ASSUME NEW i \in 1 .. Len(guards') PROVE guards'[i].access <= Len(owner')
  BY <1>1, <1>2, <1>3, <1>4 DEF Typed, GuardsTyped
<1> QED
  BY <1>1, <1>3, <1>4, <1>5 DEF GuardsTyped, Base, Current

-----------------------------------------------------------------------------
(* The login family. *)
LEMMA ForgetTypes ==
  ASSUME Typed, Forget, UNCHANGED <<home, adopted, closed>>
  PROVE  KeptTyped' /\ Forgotten'
  BY DEF Typed, KeptTyped, Forget, Forgotten, NoDecision

(* Logout, and every operation of the family but SSO, forgets as it begins. *)
LEMMA ForgetfulBegin ==
  ASSUME SInv, NEW p \in Procs, NEW op, NEW at, NEW who,
         MayCall(p, op), Forget, Enter(p, op, at, who),
         UNCHANGED <<owner, jar, guards, adopted, closed, home>>,
         \/ <<op, at>> \in {<<"login", "wire">>, <<"opaque", "start">>, <<"passkey", "wire">>} /\ who \in Users
         \/ op = "logout" /\ at = "wire" /\ who = None
  PROVE  SInv'
<1>1. PICK m \in BOOLEAN, l \in Nat : Becomes(p, CallOf(at, op, who, None, 0, 0, 1, l, m))
  BY EnterIs DEF SInv
<1> DEFINE r == CallOf(at, op, who, None, 0, 0, 1, l, m)
<1>2. Legal(r, Len(owner), Len(guards))
  BY DEF CallOf, SInv, Typed, OwnerTyped, GuardsTyped, Legal, Calls, Labels, LegalCalls, AllOps,
     Principals, SignIns
<1>3. KeptTyped' /\ Forgotten'
  BY ForgetTypes DEF SInv
<1>4. Phase(call[p]) => Phase(call[p])'
  <2>1. call'[p] = r
    BY <1>1 DEF SInv, Typed, CallsTyped, Becomes
  <2> QED
    BY <2>1, <1>3 DEF CallOf, MayCall, Idle, Phase, Forgotten, Settled, MemoOk, ScopeOk, GuardOk, BearerOk,
       Base, Torn, Current, NoDecision
<1> QED
  BY <1>1, <1>2, <1>3, <1>4, KeepStep DEF SInv, Typed, JarTyped

(* The others change nothing yet. *)
LEMMA PlainBegin ==
  ASSUME SInv, NEW p \in Procs, NEW op, NEW who,
         MayCall(p, op), Enter(p, op, "wire", who), UNCHANGED <<owner, session>>,
         \/ op \in {"sso", "enroll"} /\ who \in Users
         \/ op \in {"device", "adopt"} /\ who \in {Device, Service}
  PROVE  SInv'
<1>1. PICK m \in BOOLEAN, l \in Nat : Becomes(p, CallOf("wire", op, who, None, 0, 0, 1, l, m))
  BY EnterIs DEF SInv
<1> DEFINE r == CallOf("wire", op, who, None, 0, 0, 1, l, m)
<1>2. Legal(r, Len(owner), Len(guards))
  BY DEF CallOf, SInv, Typed, OwnerTyped, GuardsTyped, Legal, Calls, Labels, LegalCalls, AllOps,
     Principals, SignIns
<1>3. Phase(call[p]) => Phase(call[p])'
  <2>1. call'[p] = r
    BY <1>1 DEF SInv, Typed, CallsTyped, Becomes
  <2> QED
    BY <2>1 DEF session, CallOf, MayCall, Idle, Phase, Forgotten, Settled, MemoOk, ScopeOk, GuardOk, BearerOk,
       Base, Torn, Current, CookieOwner, ActsAs, Bearer
<1> QED
  BY <1>1, <1>2, <1>3, KeepStep DEF session, SInv, Typed, JarTyped, KeptTyped

(* A call that ends and leaves things as they should be between calls. *)
LEMMA RestStep ==
  ASSUME SInv, NEW p \in Procs,
         \/ \E op : MayCall(p, op) /\ EnterAndReturn(p)
         \/ ~Idle(p) /\ Return(p),
         OwnerTyped', JarTyped', GuardsTyped', KeptTyped',
         Len(owner) <= Len(owner'), Len(guards) <= Len(guards'),
         Phase(call[p]) => Settled'
  PROVE  SInv'
<1>1. PICK m \in BOOLEAN, l \in Nat :
        LET r == CallOf("idle", "none", None, None, 0, 0, 1, l, m) IN
        Becomes(p, r) /\ Legal(r, Len(owner), Len(guards))
  BY RestIs DEF SInv
<1> DEFINE r == CallOf("idle", "none", None, None, 0, 0, 1, l, m)
<1>2. Legal(r, Len(owner'), Len(guards'))
  <2>1. Len(owner) \in Nat /\ Len(guards) \in Nat /\ Len(owner') \in Nat /\ Len(guards') \in Nat
    BY DEF SInv, Typed, OwnerTyped, GuardsTyped
  <2> QED
    BY <1>1, <2>1 DEF Legal, CallOf
<1>3. Phase(call[p]) => Phase(call[p])'
  <2>1. call'[p] = r
    BY <1>1 DEF SInv, Typed, CallsTyped, Becomes
  <2> QED
    BY <2>1 DEF CallOf, Phase
<1> QED
  BY <1>1, <1>2, <1>3, Step

LEMMA Unmoved ==
  ASSUME SInv, UNCHANGED <<owner, guards>>
  PROVE  /\ OwnerTyped' /\ GuardsTyped' /\ Len(owner) <= Len(owner') /\ Len(guards) <= Len(guards')
         /\ jar' = jar => JarTyped'
  BY DEF SInv, Typed, OwnerTyped, GuardsTyped, JarTyped

LEMMA BeginFamily ==
  ASSUME SInv, NEW p \in Procs, NEW u \in Users,
         BeginLogin(p, u) \/ BeginOpaque(p, u) \/ BeginPasskey(p, u) \/ BeginSso(p, u)
  PROVE  SInv'
<1>1. CASE BeginLogin(p, u)
  BY <1>1, ForgetfulBegin DEF BeginLogin
<1>2. CASE BeginOpaque(p, u)
  BY <1>2, ForgetfulBegin DEF BeginOpaque
<1>3. CASE BeginPasskey(p, u)
  BY <1>3, ForgetfulBegin DEF BeginPasskey
<1>4. CASE BeginSso(p, u)
  BY <1>4, PlainBegin DEF BeginSso
<1> QED
  BY <1>1, <1>2, <1>3, <1>4

LEMMA BeginLogoutStep ==
  ASSUME SInv, NEW p \in Procs, BeginLogout(p)
  PROVE  SInv'
<1>1. CASE jar = 0
  <2>1. KeptTyped' /\ Forgotten'
    BY ForgetTypes DEF BeginLogout, SInv
  <2>2. Settled'
    BY <1>1, <2>1 DEF BeginLogout, Forgotten, Settled, MemoOk, ScopeOk, GuardOk, BearerOk, NoDecision
  <2> QED
    BY <1>1, <2>1, <2>2, Unmoved, RestStep DEF BeginLogout
<1>2. CASE jar # 0
  BY <1>2, ForgetfulBegin DEF BeginLogout
<1> QED
  BY <1>1, <1>2

LEMMA BeginOthers ==
  ASSUME SInv, NEW p \in Procs, BeginDevice(p) \/ BeginAdopt(p) \/ BeginEnroll(p)
  PROVE  SInv'
<1>1. CASE BeginDevice(p)
  BY <1>1, PlainBegin DEF BeginDevice
<1>2. CASE BeginAdopt(p)
  BY <1>2, PlainBegin DEF BeginAdopt
<1>3. CASE BeginEnroll(p)
  <2>1. CASE home = None \/ closed
    <3>1. KeptTyped'
      BY <1>3 DEF BeginEnroll, session, SInv, Typed, KeptTyped
    <3>2. Phase(call[p]) => Settled'
      BY <1>3 DEF BeginEnroll, MayCall, Idle, session, Phase, Settled, MemoOk, ScopeOk, GuardOk, BearerOk,
         Base, Torn, Current, CookieOwner, ActsAs, Bearer
    <3> QED
      BY <1>3, <2>1, <3>1, <3>2, Unmoved, RestStep DEF BeginEnroll, session
  <2>2. CASE ~(home = None \/ closed)
    BY <1>3, <2>2, PlainBegin DEF BeginEnroll, SInv, Typed, KeptTyped
  <2> QED
    BY <2>1, <2>2
<1> QED
  BY <1>1, <1>2, <1>3

LEMMA CloseStep ==
  ASSUME SInv, NEW p \in Procs, Close(p)
  PROVE  SInv'
<1>1. KeptTyped'
  BY DEF Close, SInv, Typed, KeptTyped, NoDecision
<1>2. Phase(call[p]) => Settled'
  BY DEF Close, MayCall, Idle, Phase, Settled, MemoOk, ScopeOk, GuardOk, BearerOk, NoDecision,
     Base, Torn, Current, CookieOwner, ActsAs, Bearer
<1> QED
  BY <1>1, <1>2, Unmoved, RestStep DEF Close

-----------------------------------------------------------------------------
(* The login family goes on. *)
LEMMA LegalMove ==
  ASSUME Typed, NEW p \in Procs, NEW at \in Labels, <<call[p].op, at>> \in LegalCalls, at # "posted"
  PROVE  LET c == call[p] IN
         Legal(CallOf(at, c.op, c.who, c.key, c.tok, c.sent, c.g, c.left, c.met), Len(owner), Len(guards))
  BY CallIs DEF Legal, Calls, CallOf

LEMMA RefusedStep ==
  ASSUME SInv, NEW p \in Procs, Refused(p)
  PROVE  SInv'
<1>1. ~Idle(p) /\ Return(p) /\ KeptTyped' /\ OwnerTyped' /\ JarTyped' /\ Len(owner) <= Len(owner')
  BY DEF Refused, Idle, SInv, Typed, KeptTyped, OwnerTyped, JarTyped
<1>2. CASE call[p].at = "posted"
  <2> DEFINE g == call[p].g
             r == [guards[g] EXCEPT !.mu = None]
  <2>1. g \in 1 .. Len(guards) /\ guards' = [guards EXCEPT ![g] = r]
    BY <1>2, CallIs DEF Refused, SInv, Legal
  <2>2. guards[g] \in Guards /\ guards[g].access <= Len(owner)
    BY <2>1 DEF SInv, Typed, GuardsTyped
  <2>3. r \in Guards /\ r.access = guards[g].access /\ r.hasAny = guards[g].hasAny
    BY <2>2 DEF Guards
  <2>4. GuardsTyped' /\ Len(guards') = Len(guards) /\ Base' = IF g = Current THEN r ELSE Base
    <3>1. Len(owner') \in Nat /\ r.access <= Len(owner') /\ Len(owner) <= Len(owner')
      BY <1>1, <2>2, <2>3 DEF Refused, OwnerTyped
    <3> HIDE DEF r, g
    <3> QED
      BY <2>1, <2>3, <3>1, GuardSet DEF SInv
  <2>5. Base'.access = Base.access /\ Base'.hasAny = Base.hasAny
    BY <2>3, <2>4 DEF Base, Current
  <2>6. Phase(call[p]) => Settled'
    BY <1>2, <2>5 DEF Refused, Phase, Settled, MemoOk, ScopeOk, GuardOk, BearerOk, Torn, CookieOwner, ActsAs, Bearer
  <2>7. Len(guards) <= Len(guards')
    BY <2>4 DEF GuardsTyped
  <2> QED
    BY <1>1, <2>4, <2>6, <2>7, RestStep
<1>3. CASE call[p].at # "posted"
  <2>1. Phase(call[p]) => Settled'
    BY <1>3 DEF Refused, Phase, Settled, MemoOk, ScopeOk, GuardOk, BearerOk, Base, Current, Torn, CookieOwner, ActsAs, Bearer
  <2> QED
    BY <1>1, <1>3, <2>1, Unmoved, RestStep DEF Refused
<1> QED
  BY <1>2, <1>3

LEMMA OpaqueSteps ==
  ASSUME SInv, NEW p \in Procs, OpaqueStarted(p) \/ OpaqueFallsBack(p)
  PROVE  SInv'
<1> DEFINE c == call[p]
           r == CallOf("wire", "login", c.who, c.key, c.tok, c.sent, c.g, c.left, c.met)
<1>1. c.op = "opaque" /\ c.at = "start" /\ ~Idle(p)
  BY DEF OpaqueStarted, OpaqueFallsBack, At, Idle
<1>2. Legal(r, Len(owner), Len(guards)) /\ r.met = c.met
  BY <1>1, CallIs DEF SInv, Legal, CallOf, Calls, Labels, LegalCalls, AllOps, SignIns
<1>3. ASSUME call' = [call EXCEPT ![p].op = "login", ![p].at = "wire"],
             KeptTyped', UNCHANGED <<owner, jar, guards>>, Phase(c) => Forgotten' /\ GuardOk'
      PROVE  SInv'
  <2>1. call' = [call EXCEPT ![p] = r]
    <3>1. Typed
      BY DEF SInv
    <3>2. [call EXCEPT ![p].op = "login", ![p].at = "wire"] = [call EXCEPT ![p] = r]
      <4>1. \A a, b : [call EXCEPT ![p].op = a, ![p].at = b]
               = [call EXCEPT ![p] = CallOf(b, a, c.who, c.key, c.tok, c.sent, c.g, c.left, c.met)]
        BY <3>1, MoveOpAt
      <4> QED
        BY <4>1, Zenon
    <3> QED
      BY <1>3, <3>2
  <2>2. Becomes(p, r)
    BY <1>1, <1>2, <2>1 DEF Becomes
  <2>3. call'[p] = r
    BY <2>1 DEF SInv, Typed, CallsTyped
  <2>4. Phase(c) => Phase(call[p])'
    BY <1>3, <2>3 DEF CallOf, Phase, Forgotten, Settled, MemoOk, ScopeOk, BearerOk, NoDecision
  <2> HIDE DEF r, c
  <2> QED
    BY <1>2, <1>3, <2>2, <2>4, Unmoved, KeepStep DEF c
<1>4. CASE OpaqueStarted(p)
  <2>1. Phase(c) => Forgotten' /\ GuardOk'
    BY <1>1, <1>4 DEF OpaqueStarted, session, Phase, Settled, Forgotten, GuardOk, Base, Torn, Current
  <2> QED
    BY <1>3, <1>4, <2>1 DEF OpaqueStarted, session, SInv, Typed, KeptTyped
<1>5. CASE OpaqueFallsBack(p) /\ closed
  <2>1. Phase(c) => Settled'
    BY <1>1, <1>5 DEF OpaqueFallsBack, Phase, Settled, MemoOk, ScopeOk, GuardOk, BearerOk, Base, Current, Torn,
       CookieOwner, ActsAs, Bearer
  <2>2. KeptTyped'
    BY <1>5 DEF OpaqueFallsBack, SInv, Typed, KeptTyped
  <2> QED
    BY <1>1, <1>5, <2>1, <2>2, Unmoved, RestStep DEF OpaqueFallsBack
<1>6. CASE OpaqueFallsBack(p) /\ ~closed
  <2>1. KeptTyped' /\ Forgotten'
    BY <1>6, ForgetTypes DEF OpaqueFallsBack, SInv
  <2>2. Phase(c) => GuardOk'
    BY <1>1, <1>6 DEF OpaqueFallsBack, Phase, Settled, GuardOk, Base, Torn, Current
  <2> QED
    BY <1>3, <1>6, <2>1, <2>2 DEF OpaqueFallsBack
<1> QED
  BY <1>4, <1>5, <1>6

LEMMA GuardsStay ==
  ASSUME Typed, guards' = guards, OwnerTyped', Len(owner) <= Len(owner')
  PROVE  GuardsTyped' /\ Len(guards) <= Len(guards')
<1>1. guards \in Seq(Guards) /\ Len(guards) \in Nat /\ Len(owner) \in Nat /\ Len(owner') \in Nat
  BY DEF Typed, GuardsTyped, OwnerTyped
<1>2. ASSUME NEW i \in 1 .. Len(guards) PROVE guards[i].access <= Len(owner')
  <2>1. guards[i] \in Guards /\ guards[i].access <= Len(owner)
    BY <1>1 DEF Typed, GuardsTyped
  <2>2. guards[i].access \in Nat
    BY <2>1 DEF Guards
  <2> QED
    BY <1>1, <2>1, <2>2
<1> QED
  BY <1>1, <1>2 DEF Typed, GuardsTyped

LEMMA SignedInStep ==
  ASSUME SInv, NEW p \in Procs, SignedIn(p)
  PROVE  SInv'
<1> DEFINE c == call[p]
           r == CallOf("absorb", c.op, c.who, c.key, c.tok, c.sent, c.g, c.left, c.met)
<1>1. c.op \in SignIns /\ c.at = "wire" /\ ~Idle(p) /\ c.who \in Users /\ Goto(p, "absorb")
  BY CallIs DEF SignedIn, Idle, SInv, Legal, SignIns
<1>2. /\ OwnerTyped' /\ JarTyped' /\ Len(owner) <= Len(owner')
      /\ jar' # 0 /\ owner'[jar'].who = c.who /\ Torn' = "no"
  BY <1>1, CookieSet DEF SignedIn, SInv
<1>3. Becomes(p, r)
  BY <1>1, GotoIs DEF SInv
<1>4. Legal(r, Len(owner), Len(guards))
  BY <1>1, LegalMove DEF SInv, Labels, LegalCalls
<1>5. Legal(r, Len(owner'), Len(guards'))
  <2>1. Len(owner) \in Nat /\ Len(guards) \in Nat /\ Len(owner') \in Nat /\ Len(guards') = Len(guards)
    BY <1>2 DEF SignedIn, SInv, Typed, OwnerTyped, GuardsTyped
  <2> HIDE DEF r
  <2> QED
    BY <1>2, <1>4, <2>1, LegalGrows
<1>6. GuardsTyped' /\ KeptTyped' /\ Len(guards) <= Len(guards')
  BY <1>2, GuardsStay DEF SignedIn, SInv, Typed, KeptTyped
<1>7. Phase(c) => Phase(call[p])'
  <2>1. call'[p] = r
    BY <1>3 DEF SInv, Typed, CallsTyped, Becomes
  <2> QED
    BY <1>1, <1>2, <2>1 DEF SignedIn, SignIns, CallOf, Phase, Forgotten, Settled, BearerOk, NoDecision
<1> HIDE DEF r
<1> QED
  BY <1>2, <1>3, <1>5, <1>6, <1>7, Step

LEMMA SignedInUndecodableStep ==
  ASSUME SInv, NEW p \in Procs, SignedInUndecodable(p)
  PROVE  SInv'
<1> DEFINE c == call[p]
<1>1. c.op \in SignIns \cap Undecodable /\ c.at = "wire" /\ ~Idle(p) /\ c.who \in Users /\ Return(p)
  BY CallIs DEF SignedInUndecodable, Idle, SInv, Legal, SignIns
<1>2. /\ OwnerTyped' /\ JarTyped' /\ Len(owner) <= Len(owner')
      /\ jar' # 0 /\ jar' > Len(owner) /\ Torn' = c.op
  BY <1>1, CookieSet DEF SignedInUndecodable, SInv
<1>3. GuardsTyped' /\ KeptTyped' /\ Len(guards) <= Len(guards')
  BY <1>2, GuardsStay DEF SignedInUndecodable, SInv, Typed, KeptTyped
<1>4. Base' = Base /\ Base.access <= Len(owner) /\ Base.access \in Nat /\ Len(owner) \in Nat /\ jar' \in Nat
  <2>1. Len(guards) \in 1 .. Len(guards) /\ guards[Len(guards)] \in Guards
    BY DEF SInv, Typed, GuardsTyped
  <2> QED
    BY <1>2, <2>1 DEF SignedInUndecodable, Base, Current, SInv, Typed, GuardsTyped, Guards, OwnerTyped, JarTyped
<1>5. Base'.access # jar'
  BY <1>2, <1>4
<1>6. Phase(c) => Settled'
  <2> HIDE DEF Base, Torn
  <2>1. CASE c.op = "sso"
    BY <1>1, <1>2, <1>4, <1>5, <2>1 DEF SignedInUndecodable, Phase, Settled, MemoOk, ScopeOk, GuardOk, BearerOk
  <2>2. CASE c.op # "sso"
    BY <1>1, <1>2, <1>4, <1>5, <2>2 DEF SignIns, SignedInUndecodable, Phase, Forgotten, Settled, MemoOk, ScopeOk, GuardOk,
       BearerOk, NoDecision
  <2> QED
    BY <2>1, <2>2
<1> QED
  BY <1>1, <1>2, <1>3, <1>6, RestStep

LEMMA AbsorbStep ==
  ASSUME SInv, NEW p \in Procs, Absorb(p)
  PROVE  SInv'
<1> DEFINE c == call[p]
           r == CallOf("seed", c.op, c.who, c.key, jar, c.sent, Current, c.left, c.met)
<1>1. c.op \in SignIns /\ c.at = "absorb" /\ ~Idle(p)
  BY CallIs DEF Absorb, Idle, SInv, Legal, SignIns, LegalCalls
<1>2. KeptTyped' /\ JarTyped' /\ UNCHANGED <<owner, jar, guards, memo, scope, home, device, adopted>>
  BY DEF Absorb, session, SInv, Typed, KeptTyped, JarTyped
<1>3. CASE jar = 0
  BY <1>1, <1>2, <1>3, Unmoved, RestStep DEF Absorb, Phase
<1>4. CASE jar # 0
  <2>1. call' = [call EXCEPT ![p] = r]
    <3>1. \A a, b, d : [call EXCEPT ![p].at = a, ![p].tok = b, ![p].g = d]
             = [call EXCEPT ![p] = CallOf(a, c.op, c.who, c.key, b, c.sent, d, c.left, c.met)]
      BY MoveAtTokG DEF SInv
    <3>2. [call EXCEPT ![p].at = "seed", ![p].tok = jar, ![p].g = Current] = [call EXCEPT ![p] = r]
      BY <3>1, Zenon
    <3> QED
      BY <1>4, <3>2 DEF Absorb
  <2>2. Becomes(p, r)
    BY <1>1, <2>1 DEF Becomes, CallOf
  <2>3. Legal(r, Len(owner), Len(guards))
    <3>1. jar \in Nat /\ jar <= Len(owner) /\ Current \in Nat /\ Current \in 1 .. Len(guards)
      BY DEF SInv, Typed, JarTyped, OwnerTyped, GuardsTyped, Current
    <3>2. c \in Calls /\ Legal(c, Len(owner), Len(guards))
      BY CallIs DEF SInv
    <3> HIDE DEF c
    <3>3. r \in Calls
      BY <3>1, <3>2 DEF Calls, CallOf, Labels
    <3>4. <<c.op, "seed">> \in LegalCalls
      BY <1>1 DEF LegalCalls
    <3> QED
      BY <1>1, <3>1, <3>2, <3>3, <3>4 DEF Legal, CallOf
  <2>4. Phase(c) => Phase(call[p])'
    <3>1. call'[p] = r
      BY <2>1 DEF SInv, Typed, CallsTyped
    <3> QED
      BY <1>1, <1>2, <1>4, <3>1 DEF SignIns, CallOf, Phase, Forgotten, BearerOk, Torn, Current
  <2> HIDE DEF r
  <2> QED
    BY <1>2, <2>2, <2>3, <2>4, KeepStep
<1> QED
  BY <1>3, <1>4

LEMMA SeedStep ==
  ASSUME SInv, NEW p \in Procs, Seed(p)
  PROVE  SInv'
<1> DEFINE c == call[p]
           g == c.g
           seeded == [[guards[g] EXCEPT !.access = c.tok] EXCEPT !.hasAny = TRUE]
           r(label) == CallOf(label, c.op, c.who, c.key, c.tok, c.sent, c.g, c.left, c.met)
<1>1. c.op \in SignIns /\ c.at = "seed" /\ ~Idle(p)
  BY CallIs DEF Seed, Idle, SInv, Legal, SignIns, LegalCalls
<1>2. /\ KeptTyped' /\ JarTyped' /\ OwnerTyped' /\ Len(owner) <= Len(owner') /\ Len(owner') \in Nat
      /\ UNCHANGED <<owner, jar, memo, scope, home, device, adopted>>
  BY DEF Seed, SInv, Typed, KeptTyped, JarTyped, OwnerTyped
<1>3. g \in 1 .. Len(guards) /\ c.tok \in Nat /\ c.tok <= Len(owner)
  BY CallIs DEF SInv, Legal, Calls
<1>4. guards[g] \in Guards /\ guards \in Seq(Guards)
  BY <1>3 DEF SInv, Typed, GuardsTyped
<1>5. seeded \in Guards /\ seeded.access = c.tok /\ seeded.hasAny = TRUE
  BY <1>3, <1>4 DEF Guards
<1>6. guards' = [guards EXCEPT ![g] = seeded]
  BY <1>3, <1>4 DEF Seed
<1>7. GuardsTyped' /\ Len(guards') = Len(guards) /\ (g = Current => Base' = seeded) /\ Len(guards) <= Len(guards')
  <2> HIDE DEF seeded, g
  <2>1. GuardsTyped' /\ Len(guards') = Len(guards) /\ (g = Current => Base' = seeded)
    BY <1>2, <1>3, <1>5, <1>6, GuardSet DEF SInv, g
  <2> QED
    BY <2>1 DEF GuardsTyped
<1>8. CASE c.op \in {"login", "sso"}
  <2> DEFINE label == IF c.op = "login" THEN "report" ELSE "forget"
  <2>1. Goto(p, label)
    BY <1>8 DEF Seed
  <2>2. Becomes(p, r(label))
    BY <1>1, <2>1, GotoIs DEF SInv
  <2>3. Legal(r(label), Len(owner), Len(guards))
    BY <1>1, <1>8, LegalMove DEF SInv, Labels, LegalCalls
  <2>4. Phase(c) => Phase(call[p])'
    <3>1. call'[p] = r(label)
      BY <2>2 DEF SInv, Typed, CallsTyped, Becomes
    <3> HIDE DEF seeded
    <3>2. c.g = Current => Base'.hasAny /\ Base'.access = c.tok
      BY <1>5, <1>7
    <3>3. Torn' = Torn
      BY <1>2 DEF Torn
    <3> HIDE DEF c
    <3>4. CASE c.op = "login"
      BY <1>1, <1>2, <3>1, <3>2, <3>3, <3>4 DEF c, CallOf, Phase, Forgotten, BearerOk, GuardOk
    <3>5. CASE c.op = "sso"
      BY <1>1, <1>2, <3>1, <3>2, <3>3, <3>5 DEF c, CallOf, Phase, Forgotten, BearerOk, GuardOk
    <3> QED
      BY <1>8, <3>4, <3>5
  <2> HIDE DEF r
  <2> QED
    BY <1>2, <1>7, <2>2, <2>3, <2>4, Step
<1>9. CASE c.op = "passkey"
  <2>1. Return(p)
    BY <1>9 DEF Seed
  <2>2. Phase(c) => Settled'
    <3> HIDE DEF seeded
    <3>1. c.g = Current => Base'.hasAny /\ Base'.access = c.tok
      BY <1>5, <1>7
    <3> QED
      BY <1>1, <1>2, <1>9, <3>1 DEF Phase, Settled, Forgotten, MemoOk, ScopeOk, BearerOk, GuardOk, NoDecision
  <2> QED
    BY <1>1, <1>2, <1>7, <2>1, <2>2, RestStep
<1> QED
  BY <1>1, <1>8, <1>9 DEF SignIns

LEMMA ReportSteps ==
  ASSUME SInv, NEW p \in Procs, ReportHome(p) \/ ReportScope(p) \/ ForgetLast(p)
  PROVE  SInv'
<1> DEFINE c == call[p]
<1>1. CASE ReportHome(p)
  <2> DEFINE r == CallOf("scope", c.op, c.who, c.key, c.tok, c.sent, c.g, c.left, c.met)
  <2>1. c.op = "login" /\ c.at = "report" /\ ~Idle(p) /\ c.who \in Users
    BY <1>1, CallIs DEF ReportHome, Idle, SInv, Legal, SignIns, LegalCalls
  <2>2. Becomes(p, r)
    BY <1>1, <2>1, GotoIs DEF ReportHome, SInv
  <2>3. Legal(r, Len(owner), Len(guards))
    BY <2>1, LegalMove DEF SInv, Labels, LegalCalls
  <2>4. KeptTyped' /\ JarTyped'
    BY <1>1, <2>1 DEF ReportHome, SInv, Typed, KeptTyped, JarTyped
  <2>5. Phase(c) => Phase(call[p])'
    <3>1. call'[p] = r
      BY <2>2 DEF SInv, Typed, CallsTyped, Becomes
    <3> QED
      BY <1>1, <2>1, <3>1 DEF ReportHome, CallOf, Phase, Forgotten, BearerOk, GuardOk, Torn, Base, Current
  <2> HIDE DEF r
  <2> QED
    BY <1>1, <2>2, <2>3, <2>4, <2>5, KeepStep DEF ReportHome
<1>2. CASE ReportScope(p)
  <2>1. c.op = "login" /\ c.at = "scope" /\ ~Idle(p) /\ c.who \in Users
    BY <1>2, CallIs DEF ReportScope, Idle, SInv, Legal, SignIns, LegalCalls
  <2>2. KeptTyped'
    BY <1>2, <2>1 DEF ReportScope, SInv, Typed, KeptTyped
  <2>3. Phase(c) => Settled'
    BY <1>2, <2>1 DEF ReportScope, Phase, Forgotten, Settled, MemoOk, ScopeOk, GuardOk, BearerOk,
       Base, Torn, Current, CookieOwner, ActsAs, Bearer, NoDecision
  <2> QED
    BY <1>2, <2>1, <2>2, <2>3, Unmoved, RestStep DEF ReportScope
<1>3. CASE ForgetLast(p)
  <2>1. c.at = "forget" /\ ~Idle(p)
    BY <1>3 DEF ForgetLast, Idle
  <2>2. KeptTyped' /\ Forgotten'
    BY <1>3, ForgetTypes DEF ForgetLast, SInv
  <2>3. Phase(c) => Settled'
    BY <1>3, <2>1, <2>2 DEF ForgetLast, Phase, Forgotten, Settled, MemoOk, ScopeOk, GuardOk, BearerOk,
       Base, Torn, Current, NoDecision
  <2> QED
    BY <1>3, <2>1, <2>2, <2>3, Unmoved, RestStep DEF ForgetLast
<1> QED
  BY <1>1, <1>2, <1>3

-----------------------------------------------------------------------------
(* Logout, the device token and the adopted token. *)
LEMMA LoggedOutStep ==
  ASSUME SInv, NEW p \in Procs, LoggedOut(p)
  PROVE  SInv'
<1>1. call[p].op = "logout" /\ call[p].at = "wire" /\ ~Idle(p) /\ Return(p)
  BY DEF LoggedOut, At, Idle
<1>2. KeptTyped' /\ JarTyped' /\ OwnerTyped' /\ Len(owner) <= Len(owner')
  BY DEF LoggedOut, SInv, Typed, KeptTyped, JarTyped, OwnerTyped
<1>3. GuardsTyped' /\ Len(guards) <= Len(guards') /\ Base' = FreshGuard
  BY GuardReplaced DEF LoggedOut, SInv
<1>4. Phase(call[p]) => Settled'
  <2> HIDE DEF Base
  <2> QED
    BY <1>1, <1>3 DEF LoggedOut, FreshGuard, Phase, Forgotten, Settled, MemoOk, ScopeOk, GuardOk, BearerOk, NoDecision
<1> QED
  BY <1>1, <1>2, <1>3, <1>4, RestStep

LEMMA DeviceSteps ==
  ASSUME SInv, NEW p \in Procs, DeviceAnswered(p) \/ DeviceClear(p) \/ DeviceAdopt(p)
  PROVE  SInv'
<1> DEFINE c == call[p]
           r(label) == CallOf(label, c.op, c.who, c.key, c.tok, c.sent, c.g, c.left, c.met)
<1>1. c.op = "device" /\ ~Idle(p) /\ c \in Calls
  BY CallIs DEF DeviceAnswered, DeviceClear, DeviceAdopt, At, Idle, SInv
<1>2. OwnerTyped' /\ JarTyped' /\ Len(owner) <= Len(owner') /\ owner' = owner /\ jar' = jar
  BY DEF DeviceAnswered, DeviceClear, DeviceAdopt, SInv, Typed, OwnerTyped, JarTyped
<1>3. CASE DeviceAnswered(p)
  <2>1. GuardsTyped' /\ Len(guards) <= Len(guards') /\ Base' = FreshGuard
    BY <1>3, GuardReplaced DEF DeviceAnswered, SInv
  <2>2. Becomes(p, r("clear"))
    BY <1>1, <1>3, GotoIs DEF DeviceAnswered, SInv
  <2>3. Legal(r("clear"), Len(owner), Len(guards))
    BY <1>1, LegalMove DEF SInv, Labels, LegalCalls
  <2>4. Legal(r("clear"), Len(owner'), Len(guards'))
    <3>1. Len(owner) \in Nat /\ Len(guards) \in Nat /\ Len(owner') \in Nat /\ Len(guards') \in Nat
      BY <1>2, <2>1 DEF SInv, Typed, OwnerTyped, GuardsTyped
    <3> HIDE DEF r
    <3> QED
      BY <1>2, <2>1, <2>3, <3>1, LegalGrows
  <2>5. KeptTyped'
    BY <1>3 DEF DeviceAnswered, SInv, Typed, KeptTyped
  <2>6. Phase(c) => Phase(call[p])'
    <3>1. call'[p] = r("clear")
      BY <2>2 DEF SInv, Typed, CallsTyped, Becomes
    <3> HIDE DEF Base
    <3> QED
      BY <1>1, <1>3, <2>1, <3>1 DEF DeviceAnswered, FreshGuard, CallOf, Phase
  <2> HIDE DEF r
  <2> QED
    BY <1>2, <2>1, <2>2, <2>4, <2>5, <2>6, Step
<1>4. CASE DeviceClear(p)
  <2>1. KeptTyped' /\ Forgotten'
    BY <1>4, ForgetTypes DEF DeviceClear, SInv
  <2>2. Becomes(p, r("adopt"))
    BY <1>1, <1>4, GotoIs DEF DeviceClear, SInv
  <2>3. Legal(r("adopt"), Len(owner), Len(guards))
    BY <1>1, LegalMove DEF SInv, Labels, LegalCalls
  <2>4. Phase(c) => Phase(call[p])'
    <3>1. call'[p] = r("adopt")
      BY <2>2 DEF SInv, Typed, CallsTyped, Becomes
    <3> QED
      BY <1>1, <1>4, <2>1, <3>1 DEF DeviceClear, At, CallOf, Phase, Base, Current
  <2> HIDE DEF r
  <2> QED
    BY <1>2, <1>4, <2>1, <2>2, <2>3, <2>4, KeepStep DEF DeviceClear
<1>5. CASE DeviceAdopt(p)
  <2>1. KeptTyped'
    BY <1>5 DEF DeviceAdopt, SInv, Typed, KeptTyped
  <2>2. Phase(c) => Settled'
    BY <1>1, <1>5 DEF DeviceAdopt, At, Phase, Forgotten, NoDecision, Settled, MemoOk, ScopeOk, GuardOk, BearerOk,
       Base, Current
  <2> QED
    BY <1>1, <1>2, <1>5, <2>1, <2>2, Unmoved, RestStep DEF DeviceAdopt
<1> QED
  BY <1>3, <1>4, <1>5

LEMMA AdoptSteps ==
  ASSUME SInv, NEW p \in Procs, Granted(p) \/ GrantAdopt(p)
  PROVE  SInv'
<1> DEFINE c == call[p]
           r == CallOf("adopt", c.op, c.who, c.key, c.tok, c.sent, c.g, c.left, c.met)
<1>1. c.op = "adopt" /\ ~Idle(p)
  BY DEF Granted, GrantAdopt, At, Idle
<1>2. CASE Granted(p)
  <2>1. KeptTyped' /\ JarTyped'
    BY <1>2 DEF Granted, SInv, Typed, KeptTyped, JarTyped
  <2>2. Becomes(p, r)
    BY <1>1, <1>2, GotoIs DEF Granted, SInv
  <2>3. Legal(r, Len(owner), Len(guards))
    BY <1>1, LegalMove DEF SInv, Labels, LegalCalls
  <2>4. Phase(c) => Phase(call[p])'
    <3>1. call'[p] = r
      BY <2>2 DEF SInv, Typed, CallsTyped, Becomes
    <3> QED
      BY <1>1, <1>2, <3>1 DEF Granted, At, CallOf, Phase, Settled, GuardOk, Torn, Base, Current
  <2> HIDE DEF r
  <2> QED
    BY <1>2, <2>1, <2>2, <2>3, <2>4, KeepStep DEF Granted
<1>3. CASE GrantAdopt(p)
  <2>1. KeptTyped' /\ JarTyped'
    BY <1>3, SessionConstants DEF GrantAdopt, SInv, Typed, KeptTyped, JarTyped
  <2>2. Phase(c) => Settled'
    BY <1>1, <1>3, SessionConstants DEF Principals, GrantAdopt, At, Phase, Settled, MemoOk, ScopeOk, GuardOk, BearerOk, Torn, Base, Current
  <2> QED
    BY <1>1, <1>3, <2>1, <2>2, Unmoved, RestStep DEF GrantAdopt
<1> QED
  BY <1>2, <1>3

-----------------------------------------------------------------------------
(* The decisions. *)
LEMMA ActsAsTyped == Typed => ActsAs \in Principals \cup {None} /\ CookieOwner \in Users \cup {None}
<1> SUFFICES ASSUME Typed PROVE ActsAs \in Principals \cup {None} /\ CookieOwner \in Users \cup {None}
  OBVIOUS
<1>1. jar # 0 => owner[jar] \in Cookies
  BY DEF Typed, OwnerTyped, JarTyped
<1> QED
  BY <1>1 DEF Typed, KeptTyped, ActsAs, CookieOwner, Bearer, Principals, Cookies

LEMMA BeginCheckStep ==
  ASSUME SInv, NEW p \in Procs, NEW k \in Questions, BeginCheck(p, k)
  PROVE  SInv'
<1>1. KeptTyped' /\ JarTyped' /\ UNCHANGED <<owner, guards, jar, memo, scope, home, device, adopted>>
  BY DEF BeginCheck, session, SInv, Typed, KeptTyped, JarTyped
<1>2. Phase(call[p]) => Settled'
  BY <1>1 DEF BeginCheck, MayCall, Idle, Phase, Settled, MemoOk, ScopeOk, GuardOk, BearerOk, Base, Current, Torn,
     CookieOwner, ActsAs, Bearer
<1>3. CASE memo[k] # None
  BY <1>1, <1>2, <1>3, Unmoved, RestStep DEF BeginCheck
<1>4. CASE memo[k] = None
  <2>1. PICK m \in BOOLEAN, l \in Nat :
          /\ Called(p) = CallOf("idle", "none", None, None, 0, 0, 1, l, m)
          /\ ~m => ~call[p].met /\ OthersIdle(p)
    BY CalledIs DEF BeginCheck, SInv
  <2> DEFINE r == CallOf("wire", "check", ActsAs, k, 0, 0, 1, l, m)
  <2>2. [Called(p) EXCEPT !.op = "check", !.at = "wire", !.who = ActsAs, !.key = k] = r
    <3>1. [Called(p) EXCEPT !.op = "check"] = CallOf("idle", "check", None, None, 0, 0, 1, l, m)
      BY <2>1 DEF CallOf
    <3>2. [CallOf("idle", "check", None, None, 0, 0, 1, l, m) EXCEPT !.at = "wire"]
            = CallOf("wire", "check", None, None, 0, 0, 1, l, m)
      BY DEF CallOf
    <3>3. [CallOf("wire", "check", None, None, 0, 0, 1, l, m) EXCEPT !.who = ActsAs]
            = CallOf("wire", "check", ActsAs, None, 0, 0, 1, l, m)
      BY DEF CallOf
    <3>4. [CallOf("wire", "check", ActsAs, None, 0, 0, 1, l, m) EXCEPT !.key = k] = r
      BY DEF CallOf
    <3> HIDE DEF r
    <3>5. [Called(p) EXCEPT !.op = "check", !.at = "wire", !.who = ActsAs, !.key = k]
            = [[[[Called(p) EXCEPT !.op = "check"] EXCEPT !.at = "wire"] EXCEPT !.who = ActsAs] EXCEPT !.key = k]
      OBVIOUS
    <3> QED
      BY <3>1, <3>2, <3>3, <3>4, <3>5
  <2>3. Becomes(p, r)
    <3>1. call' = [call EXCEPT ![p] = r]
      BY <1>4, <2>2 DEF BeginCheck
    <3> QED
      BY <2>1, <3>1 DEF Becomes, CallOf
  <2>4. Legal(r, Len(owner), Len(guards))
    <3>1. ActsAs \in Principals \cup {None}
      BY ActsAsTyped DEF SInv
    <3>2. Len(owner) \in Nat /\ Len(guards) \in Nat /\ Len(guards) # 0
      BY DEF SInv, Typed, OwnerTyped, GuardsTyped
    <3> HIDE DEF ActsAs
    <3> QED
      BY <3>1, <3>2 DEF CallOf, Legal, Calls, Labels, LegalCalls, AllOps, SignIns
  <2>5. Phase(call[p]) => Phase(call[p])'
    <3>1. call'[p] = r
      BY <2>3 DEF SInv, Typed, CallsTyped, Becomes
    <3>2. ActsAs' = ActsAs
      BY <1>1 DEF ActsAs, CookieOwner, Bearer
    <3> HIDE DEF ActsAs
    <3> QED
      BY <1>2, <3>1, <3>2 DEF CallOf, Phase
  <2> HIDE DEF r
  <2> QED
    BY <1>1, <2>3, <2>4, <2>5, KeepStep
<1> QED
  BY <1>3, <1>4

LEMMA ResendStep ==
  ASSUME SInv, NEW p \in Procs, Resend(p)
  PROVE  SInv'
<1> DEFINE c == call[p]
           r == CallOf(c.at, c.op, ActsAs, c.key, c.tok, c.sent, c.g, c.left, c.met)
<1>1. c.op = "check" /\ c.at = "wire" /\ ~Idle(p)
  BY DEF Resend, At, Idle
<1>2. KeptTyped' /\ JarTyped' /\ UNCHANGED <<owner, guards, jar, memo, scope, home, device, adopted>>
  BY DEF Resend, session, SInv, Typed, KeptTyped, JarTyped
<1>3. Becomes(p, r)
  <2>1. \A v : [call EXCEPT ![p].who = v]
           = [call EXCEPT ![p] = CallOf(c.at, c.op, v, c.key, c.tok, c.sent, c.g, c.left, c.met)]
    BY MoveOne DEF SInv
  <2>2. [call EXCEPT ![p].who = ActsAs] = [call EXCEPT ![p] = r]
    BY <2>1, Zenon
  <2> QED
    BY <1>1, <2>2 DEF Resend, Becomes, CallOf
<1>4. Legal(r, Len(owner), Len(guards))
  <2>1. ActsAs \in Principals \cup {None} /\ Legal(c, Len(owner), Len(guards))
    BY ActsAsTyped, CallIs DEF SInv
  <2> HIDE DEF ActsAs, c
  <2> QED
    BY <1>1, <2>1 DEF CallOf, Legal, Calls, SignIns
<1>5. Phase(c) => Phase(call[p])'
  <2>1. call'[p] = r
    BY <1>3 DEF SInv, Typed, CallsTyped, Becomes
  <2>2. ActsAs' = ActsAs
    BY <1>2 DEF ActsAs, CookieOwner, Bearer
  <2>3. Settled => Settled'
    BY <1>2, <2>2 DEF Settled, MemoOk, ScopeOk, GuardOk, BearerOk, Base, Current, Torn, CookieOwner
  <2> HIDE DEF ActsAs
  <2> QED
    BY <1>1, <2>1, <2>2, <2>3 DEF CallOf, Phase
<1> HIDE DEF r
<1> QED
  BY <1>2, <1>3, <1>4, <1>5, KeepStep

LEMMA DecidedStep ==
  ASSUME SInv, NEW p \in Procs, Decided(p)
  PROVE  SInv'
<1>1. /\ call[p].op = "check" /\ call[p].at = "wire" /\ ~Idle(p) /\ Return(p)
      /\ call[p].key \in Questions /\ call[p].who \in Principals
  BY CallIs DEF Decided, At, Idle, SInv, Legal, Calls
<1>2. KeptTyped'
  BY <1>1 DEF Decided, SInv, Typed, KeptTyped
<1>3. Phase(call[p]) => Settled'
  <2>1. ActsAs' = ActsAs /\ CookieOwner' = CookieOwner /\ Torn' = Torn /\ Base' = Base
    BY DEF Decided, ActsAs, CookieOwner, Bearer, Torn, Base, Current
  <2>2. \A k \in Questions : memo'[k] = IF k = call[p].key THEN call[p].who ELSE memo[k]
    BY <1>1 DEF Decided, SInv, Typed, KeptTyped
  <2> HIDE DEF ActsAs, CookieOwner, Torn, Base
  <2> QED
    BY <1>1, <2>1, <2>2 DEF Decided, Phase, Settled, MemoOk, ScopeOk, GuardOk, BearerOk
<1> QED
  BY <1>1, <1>2, <1>3, Unmoved, RestStep DEF Decided

-----------------------------------------------------------------------------
(* The refresh, of the application or of an RPC. *)
LEMMA LockLegal ==
  ASSUME Typed, NEW c \in Calls, Legal(c, Len(owner), Len(guards)), c.op \in {"refresh", "rpc"}
  PROVE  Legal(CallOf("lock", c.op, c.who, c.key, jar, c.sent, Current, c.left, c.met), Len(owner), Len(guards))
<1> DEFINE r == CallOf("lock", c.op, c.who, c.key, jar, c.sent, Current, c.left, c.met)
<1>1. jar \in Nat /\ jar <= Len(owner) /\ Current \in Nat /\ Current \in 1 .. Len(guards)
  BY DEF Typed, JarTyped, OwnerTyped, GuardsTyped, Current
<1>2. r \in Calls
  BY <1>1 DEF Calls, CallOf, Labels
<1>3. <<c.op, "lock">> \in LegalCalls
  BY DEF LegalCalls
<1> QED
  BY <1>1, <1>2, <1>3 DEF Legal, CallOf, SignIns

LEMMA BeginRefreshStep ==
  ASSUME SInv, NEW p \in Procs, BeginRefresh(p)
  PROVE  SInv'
<1>1. KeptTyped' /\ JarTyped' /\ UNCHANGED <<owner, guards, jar, scope, home, device, adopted>> /\ memo' = NoDecision
  BY DEF BeginRefresh, SInv, Typed, KeptTyped, JarTyped, NoDecision
<1>2. Phase(call[p]) => Settled'
  BY <1>1 DEF BeginRefresh, MayCall, Idle, Phase, Settled, MemoOk, ScopeOk, GuardOk, BearerOk, Base, Current, Torn,
     CookieOwner, ActsAs, Bearer, NoDecision
<1>3. CASE jar = 0
  BY <1>1, <1>2, <1>3, Unmoved, RestStep DEF BeginRefresh
<1>4. CASE jar # 0
  <2>1. PICK m \in BOOLEAN, l \in Nat :
          /\ Called(p) = CallOf("idle", "none", None, None, 0, 0, 1, l, m)
          /\ ~m => ~call[p].met /\ OthersIdle(p)
    BY CalledIs DEF BeginRefresh, SInv
  <2> DEFINE r == CallOf("lock", "refresh", None, None, jar, 0, Current, l, m)
  <2>2. [Called(p) EXCEPT !.op = "refresh", !.at = "lock", !.tok = jar, !.g = Current] = r
    <3>1. [Called(p) EXCEPT !.op = "refresh"] = CallOf("idle", "refresh", None, None, 0, 0, 1, l, m)
      BY <2>1 DEF CallOf
    <3>2. [CallOf("idle", "refresh", None, None, 0, 0, 1, l, m) EXCEPT !.at = "lock"]
            = CallOf("lock", "refresh", None, None, 0, 0, 1, l, m)
      BY DEF CallOf
    <3>3. [CallOf("lock", "refresh", None, None, 0, 0, 1, l, m) EXCEPT !.tok = jar]
            = CallOf("lock", "refresh", None, None, jar, 0, 1, l, m)
      BY DEF CallOf
    <3>4. [CallOf("lock", "refresh", None, None, jar, 0, 1, l, m) EXCEPT !.g = Current] = r
      BY DEF CallOf
    <3> HIDE DEF r
    <3>5. [Called(p) EXCEPT !.op = "refresh", !.at = "lock", !.tok = jar, !.g = Current]
            = [[[[Called(p) EXCEPT !.op = "refresh"] EXCEPT !.at = "lock"] EXCEPT !.tok = jar] EXCEPT !.g = Current]
      OBVIOUS
    <3> QED
      BY <3>1, <3>2, <3>3, <3>4, <3>5
  <2>3. Becomes(p, r)
    <3>1. call' = [call EXCEPT ![p] = r]
      BY <1>4, <2>2 DEF BeginRefresh
    <3> QED
      BY <2>1, <3>1 DEF Becomes, CallOf
  <2>4. Legal(r, Len(owner), Len(guards))
    <3>1. jar \in Nat /\ jar <= Len(owner) /\ Current \in Nat /\ Current \in 1 .. Len(guards)
      BY DEF SInv, Typed, JarTyped, OwnerTyped, GuardsTyped, Current
    <3>2. Len(owner) \in Nat
      BY DEF SInv, Typed, OwnerTyped
    <3> QED
      BY <3>1, <3>2 DEF CallOf, Legal, Calls, Labels, LegalCalls, AllOps, SignIns
  <2>5. Phase(call[p]) => Phase(call[p])'
    <3>1. call'[p] = r
      BY <2>3 DEF SInv, Typed, CallsTyped, Becomes
    <3> QED
      BY <1>1, <1>2, <1>4, <3>1 DEF CallOf, Phase, Current
  <2> HIDE DEF r
  <2> QED
    BY <1>1, <2>3, <2>4, <2>5, KeepStep
<1> QED
  BY <1>3, <1>4

LEMMA UnauthenticatedStep ==
  ASSUME SInv, NEW p \in Procs, Unauthenticated(p)
  PROVE  SInv'
<1> DEFINE c == call[p]
           r == CallOf("lock", c.op, c.who, c.key, jar, c.sent, Current, c.left, c.met)
<1>1. c.op = "rpc" /\ c.at = "wire" /\ ~Idle(p) /\ c \in Calls /\ Legal(c, Len(owner), Len(guards))
  BY CallIs DEF Unauthenticated, At, Idle, SInv
<1>2. /\ KeptTyped' /\ JarTyped' /\ UNCHANGED <<owner, guards, jar, scope, home, device, adopted>>
      /\ memo' = NoDecision \/ (closed /\ memo' = memo)
  BY DEF Unauthenticated, SInv, Typed, KeptTyped, JarTyped, NoDecision
<1>3. Phase(c) => Settled'
  BY <1>1, <1>2 DEF Phase, Settled, MemoOk, ScopeOk, GuardOk, BearerOk, Base, Current, Torn,
     CookieOwner, ActsAs, Bearer, NoDecision
<1>4. CASE closed \/ jar = 0
  BY <1>1, <1>2, <1>3, <1>4, Unmoved, RestStep DEF Unauthenticated
<1>5. CASE ~(closed \/ jar = 0)
  <2>1. Becomes(p, r)
    <3>1. \A a, b, d : [call EXCEPT ![p].at = a, ![p].tok = b, ![p].g = d]
             = [call EXCEPT ![p] = CallOf(a, c.op, c.who, c.key, b, c.sent, d, c.left, c.met)]
      BY MoveAtTokG DEF SInv
    <3>2. [call EXCEPT ![p].at = "lock", ![p].tok = jar, ![p].g = Current] = [call EXCEPT ![p] = r]
      BY <3>1, Zenon
    <3> QED
      BY <1>1, <1>5, <3>2 DEF Unauthenticated, Becomes, CallOf
  <2>2. Legal(r, Len(owner), Len(guards))
    BY <1>1, LockLegal DEF SInv
  <2>3. Phase(c) => Phase(call[p])'
    <3>1. call'[p] = r
      BY <2>1 DEF SInv, Typed, CallsTyped, Becomes
    <3> QED
      BY <1>1, <1>2, <1>3, <1>5, <3>1 DEF CallOf, Phase, Current
  <2> HIDE DEF r
  <2> QED
    BY <1>2, <2>1, <2>2, <2>3, KeepStep
<1> QED
  BY <1>4, <1>5

LEMMA BeginRpcStep ==
  ASSUME SInv, NEW p \in Procs, BeginRpc(p)
  PROVE  SInv'
<1>1. KeptTyped' /\ JarTyped' /\ UNCHANGED <<owner, guards, jar, memo, scope, home, device, adopted>>
  BY DEF BeginRpc, session, SInv, Typed, KeptTyped, JarTyped
<1>2. Phase(call[p]) => Settled'
  BY <1>1 DEF BeginRpc, MayCall, Idle, Phase, Settled, MemoOk, ScopeOk, GuardOk, BearerOk, Base, Current, Torn,
     CookieOwner, ActsAs, Bearer
<1>3. CASE EnterAndReturn(p)
  BY <1>1, <1>2, <1>3, Unmoved, RestStep DEF BeginRpc
<1>4. CASE call' = [call EXCEPT ![p] = [Called(p) EXCEPT !.op = "rpc", !.at = "wire", !.sent = CachedToken]]
  <2>1. PICK m \in BOOLEAN, l \in Nat :
          /\ Called(p) = CallOf("idle", "none", None, None, 0, 0, 1, l, m)
          /\ ~m => ~call[p].met /\ OthersIdle(p)
    BY CalledIs DEF BeginRpc, SInv
  <2> DEFINE r == CallOf("wire", "rpc", None, None, 0, CachedToken, 1, l, m)
  <2>2. [Called(p) EXCEPT !.op = "rpc", !.at = "wire", !.sent = CachedToken] = r
    <3>1. [Called(p) EXCEPT !.op = "rpc"] = CallOf("idle", "rpc", None, None, 0, 0, 1, l, m)
      BY <2>1 DEF CallOf
    <3>2. [CallOf("idle", "rpc", None, None, 0, 0, 1, l, m) EXCEPT !.at = "wire"]
            = CallOf("wire", "rpc", None, None, 0, 0, 1, l, m)
      BY DEF CallOf
    <3>3. [CallOf("wire", "rpc", None, None, 0, 0, 1, l, m) EXCEPT !.sent = CachedToken] = r
      BY DEF CallOf
    <3> HIDE DEF r
    <3>4. [Called(p) EXCEPT !.op = "rpc", !.at = "wire", !.sent = CachedToken]
            = [[[Called(p) EXCEPT !.op = "rpc"] EXCEPT !.at = "wire"] EXCEPT !.sent = CachedToken]
      OBVIOUS
    <3> QED
      BY <3>1, <3>2, <3>3, <3>4
  <2>3. Becomes(p, r)
    <3>1. call' = [call EXCEPT ![p] = r]
      BY <1>4, <2>2
    <3> QED
      BY <2>1, <3>1 DEF Becomes, CallOf
  <2>4. Legal(r, Len(owner), Len(guards))
    <3>1. /\ Len(owner) \in Nat /\ Len(guards) \in Nat /\ Len(guards) # 0
          /\ CachedToken \in Nat /\ CachedToken <= Len(owner)
      <4>1. Len(guards) \in 1 .. Len(guards) /\ guards[Len(guards)] \in Guards
        BY DEF SInv, Typed, GuardsTyped
      <4> QED
        BY <4>1 DEF SInv, Typed, OwnerTyped, GuardsTyped, CachedToken, Current, Guards
    <3> HIDE DEF CachedToken
    <3> QED
      BY <3>1 DEF CallOf, Legal, Calls, Labels, LegalCalls, AllOps, SignIns
  <2>5. Phase(call[p]) => Phase(call[p])'
    <3>1. call'[p] = r
      BY <2>3 DEF SInv, Typed, CallsTyped, Becomes
    <3> QED
      BY <1>2, <3>1 DEF CallOf, Phase
  <2> HIDE DEF r
  <2> QED
    BY <1>1, <2>3, <2>4, <2>5, KeepStep
<1> QED
  BY <1>3, <1>4 DEF BeginRpc

LEMMA RpcAgainStep ==
  ASSUME SInv, NEW p \in Procs, RpcAgain(p)
  PROVE  SInv'
<1> DEFINE c == call[p]
           r == CallOf("last", c.op, c.who, c.key, CachedToken, c.sent, c.g, c.left, c.met)
<1>1. c.op = "rpc" /\ c.at = "again" /\ ~Idle(p) /\ c \in Calls /\ Legal(c, Len(owner), Len(guards))
  BY CallIs DEF RpcAgain, At, Idle, SInv
<1>2. KeptTyped' /\ JarTyped' /\ UNCHANGED <<owner, guards, jar, memo, scope, home, device, adopted>>
  BY DEF RpcAgain, session, SInv, Typed, KeptTyped, JarTyped
<1>3. Becomes(p, r)
  <2>1. \A a, b : [call EXCEPT ![p].at = a, ![p].tok = b]
           = [call EXCEPT ![p] = CallOf(a, c.op, c.who, c.key, b, c.sent, c.g, c.left, c.met)]
    BY MoveAtTok DEF SInv
  <2>2. [call EXCEPT ![p].at = "last", ![p].tok = CachedToken] = [call EXCEPT ![p] = r]
    BY <2>1, Zenon
  <2> QED
    BY <1>1, <2>2 DEF RpcAgain, Becomes, CallOf
<1>4. Legal(r, Len(owner), Len(guards))
  <2>1. CachedToken \in Nat /\ CachedToken <= Len(owner)
    <3>1. Len(guards) \in 1 .. Len(guards) /\ guards[Len(guards)] \in Guards
      BY DEF SInv, Typed, GuardsTyped
    <3> QED
      BY <3>1 DEF SInv, Typed, GuardsTyped, CachedToken, Current, Guards
  <2> HIDE DEF CachedToken, c
  <2> QED
    BY <1>1, <2>1 DEF CallOf, Legal, Calls, Labels, LegalCalls, SignIns
<1>5. Phase(c) => Phase(call[p])'
  <2>1. call'[p] = r
    BY <1>3 DEF SInv, Typed, CallsTyped, Becomes
  <2>2. Settled => Settled'
    BY <1>2 DEF Settled, MemoOk, ScopeOk, GuardOk, BearerOk, Base, Current, Torn, CookieOwner, ActsAs, Bearer
  <2> QED
    BY <1>1, <1>2, <2>1, <2>2 DEF CallOf, Phase, CachedToken, Base, Torn
<1> HIDE DEF r
<1> QED
  BY <1>2, <1>3, <1>4, <1>5, KeepStep

(* The guard's critical section. *)
LEMMA LockGuardStep ==
  ASSUME SInv, NEW p \in Procs, LockGuard(p)
  PROVE  SInv'
<1> DEFINE c == call[p]
           g == c.g
           locked == [guards[g] EXCEPT !.mu = p]
           r == CallOf("posted", c.op, CookieOwner, c.key, c.tok, c.sent, c.g, c.left, c.met)
           again == CallOf("again", c.op, c.who, c.key, c.tok, c.sent, c.g, c.left, c.met)
<1>1. /\ c.op \in {"refresh", "rpc"} /\ c.at = "lock" /\ ~Idle(p) /\ c \in Calls
      /\ Legal(c, Len(owner), Len(guards)) /\ g \in 1 .. Len(guards)
  BY CallIs DEF LockGuard, Idle, SInv, Legal, LegalCalls, SignIns
<1>2. /\ KeptTyped' /\ JarTyped' /\ OwnerTyped' /\ Len(owner) <= Len(owner') /\ Len(owner') \in Nat
      /\ UNCHANGED <<owner, jar, memo, scope, home, device, adopted>>
      /\ Torn' = Torn /\ CookieOwner' = CookieOwner /\ ActsAs' = ActsAs
  BY DEF LockGuard, SInv, Typed, KeptTyped, JarTyped, OwnerTyped, Torn, CookieOwner, ActsAs, Bearer
<1>3. CASE guards[g].hasAny /\ guards[g].access # c.tok
  <2>1. Refreshed(p) /\ guards' = guards
    BY <1>3 DEF LockGuard
  <2>2. Phase(c) => Settled' /\ Torn \in Undecodable
    BY <1>1, <1>2, <1>3, <2>1 DEF Phase, Settled, MemoOk, ScopeOk, GuardOk, BearerOk, Base, Current
  <2>3. CASE c.op = "rpc"
    <3>1. Becomes(p, again)
      BY <1>1, <2>1, <2>3, GotoIs DEF Refreshed, SInv
    <3>2. Legal(again, Len(owner), Len(guards))
      BY <1>1, <2>3, LegalMove DEF SInv, Labels, LegalCalls
    <3>3. Phase(c) => Phase(call[p])'
      <4>1. call'[p] = again
        BY <3>1 DEF SInv, Typed, CallsTyped, Becomes
      <4> HIDE DEF Torn
      <4> QED
        BY <1>2, <2>2, <2>3, <4>1 DEF CallOf, Phase
    <3> HIDE DEF again
    <3> QED
      BY <1>2, <2>1, <3>1, <3>2, <3>3, KeepStep
  <2>4. CASE c.op # "rpc"
    BY <1>1, <1>2, <2>1, <2>2, <2>4, Unmoved, RestStep DEF Refreshed
  <2> QED
    BY <2>3, <2>4
<1>4. CASE ~(guards[g].hasAny /\ guards[g].access # c.tok)
  <2>1. guards' = [guards EXCEPT ![g] = locked]
        /\ call' = [call EXCEPT ![p].at = "posted", ![p].who = CookieOwner]
    BY <1>4 DEF LockGuard
  <2>2. guards[g] \in Guards /\ guards[g].access <= Len(owner)
    BY <1>1 DEF SInv, Typed, GuardsTyped
  <2>3. locked \in Guards /\ locked.access = guards[g].access /\ locked.hasAny = guards[g].hasAny
    BY <2>2 DEF Guards
  <2>4. GuardsTyped' /\ Len(guards') = Len(guards) /\ Base' = (IF g = Current THEN locked ELSE Base)
    <3>1. locked.access <= Len(owner')
      BY <1>2, <2>2, <2>3
    <3> HIDE DEF locked, g
    <3> QED
      BY <1>1, <1>2, <2>1, <2>3, <3>1, GuardSet DEF SInv
  <2>5. Base'.access = Base.access /\ Base'.hasAny = Base.hasAny /\ Current' = Current
    BY <2>3, <2>4 DEF Base, Current
  <2>6. Becomes(p, r)
    <3>1. \A a, b : [call EXCEPT ![p].at = a, ![p].who = b]
             = [call EXCEPT ![p] = CallOf(a, c.op, b, c.key, c.tok, c.sent, c.g, c.left, c.met)]
      BY MoveAtWho DEF SInv
    <3>2. [call EXCEPT ![p].at = "posted", ![p].who = CookieOwner] = [call EXCEPT ![p] = r]
      BY <3>1, Zenon
    <3> QED
      BY <1>1, <2>1, <3>2 DEF Becomes, CallOf
  <2>7. Legal(r, Len(owner'), Len(guards'))
    <3>1. CookieOwner \in Users \cup {None}
      BY ActsAsTyped DEF SInv
    <3> HIDE DEF c, CookieOwner
    <3> QED
      BY <1>1, <1>2, <2>4, <3>1 DEF CallOf, Legal, Calls, Labels, LegalCalls, SignIns, Principals
  <2>8. Phase(c) => Phase(call[p])'
    <3>1. call'[p] = r
      BY <2>6 DEF SInv, Typed, CallsTyped, Becomes
    <3>2. g = Current => Base = guards[g]
      BY DEF Base
    <3> HIDE DEF Torn, CookieOwner, ActsAs, Base
    <3>3. Phase(c) => Settled'
      BY <1>1, <1>2, <2>5 DEF Phase, Settled, MemoOk, ScopeOk, GuardOk, BearerOk
    <3> QED
      BY <1>1, <1>2, <1>4, <2>5, <3>1, <3>2, <3>3 DEF CallOf, Phase
  <2>9. Len(guards) <= Len(guards')
    BY <2>4 DEF GuardsTyped
  <2> HIDE DEF r
  <2> QED
    BY <1>2, <2>4, <2>6, <2>7, <2>8, <2>9, Step
<1> QED
  BY <1>3, <1>4

LEMMA RenewedStep ==
  ASSUME SInv, NEW p \in Procs, Renewed(p)
  PROVE  SInv'
<1> DEFINE c == call[p]
           r == CallOf("store", c.op, c.who, c.key, c.tok, c.sent, c.g, c.left, c.met)
<1>1. /\ c.op \in {"refresh", "rpc"} /\ c.at = "posted" /\ ~Idle(p) /\ c.who \in Users /\ c.who # None
      /\ Goto(p, "store") /\ c.sent \in Nat /\ c.sent <= Len(owner)
  BY CallIs DEF Renewed, Idle, SInv, Legal, LegalCalls, SignIns, Calls
<1>2. /\ OwnerTyped' /\ JarTyped' /\ Len(owner) <= Len(owner')
      /\ jar' # 0 /\ jar' > Len(owner) /\ owner'[jar'].who = c.who /\ Torn' = "no"
  BY <1>1, CookieSet DEF Renewed, SInv
<1>3. Becomes(p, r)
  BY <1>1, GotoIs DEF SInv
<1>4. Legal(r, Len(owner), Len(guards))
  BY <1>1, LegalMove DEF SInv, Labels, LegalCalls
<1>5. GuardsTyped' /\ KeptTyped' /\ Len(guards) <= Len(guards')
  BY <1>2, GuardsStay DEF Renewed, SInv, Typed, KeptTyped
<1>6. Legal(r, Len(owner'), Len(guards'))
  <2>1. Len(owner) \in Nat /\ Len(guards) \in Nat /\ Len(owner') \in Nat /\ Len(guards') \in Nat
    BY <1>2, <1>5 DEF SInv, Typed, OwnerTyped, GuardsTyped
  <2> HIDE DEF r
  <2> QED
    BY <1>2, <1>4, <1>5, <2>1, LegalGrows
<1>7. Phase(c) => Phase(call[p])'
  <2>1. call'[p] = r
    BY <1>3 DEF SInv, Typed, CallsTyped, Becomes
  <2>2. /\ Base' = Base /\ c.sent # jar'
        /\ UNCHANGED <<guards, memo, scope, device, adopted, home>>
    BY <1>1, <1>2 DEF Renewed, Base, Current, OwnerTyped, JarTyped, SInv, Typed
  <2>3. CookieOwner' = (IF device # None THEN None ELSE c.who)
    BY <1>2, <2>2 DEF CookieOwner
  <2>4. Phase(c) => device = None /\ (Torn = "sso" => scope = None) /\ (scope # None => scope = c.who)
    BY <1>1 DEF Phase, Settled, ScopeOk, CookieOwner
  <2> HIDE DEF Base, Torn, CookieOwner
  <2>5. Phase(c) => ScopeOk'
    BY <1>1, <1>2, <2>2, <2>3, <2>4 DEF Phase, Settled, ScopeOk
  <2> QED
    BY <1>1, <1>2, <2>1, <2>2, <2>5 DEF CallOf, Phase, Settled, BearerOk, Current, NoDecision
<1> HIDE DEF r
<1> QED
  BY <1>2, <1>3, <1>5, <1>6, <1>7, Step

LEMMA RenewedUndecodableStep ==
  ASSUME SInv, NEW p \in Procs, RenewedUndecodable(p)
  PROVE  SInv'
<1> DEFINE c == call[p]
           g == c.g
           freed == [guards[g] EXCEPT !.mu = None]
<1>1. /\ c.at = "posted" /\ ~Idle(p) /\ c.who \in Users /\ c.who # None /\ Return(p)
      /\ g \in 1 .. Len(guards) /\ "refresh" \in Undecodable
  BY CallIs DEF RenewedUndecodable, Idle, SInv, Legal
<1>2. /\ OwnerTyped' /\ JarTyped' /\ Len(owner) <= Len(owner') /\ Len(owner') \in Nat
      /\ jar' # 0 /\ owner'[jar'].who = c.who /\ Torn' = "refresh"
  <2>1. SetCookie(c.who, "refresh")
    BY DEF RenewedUndecodable
  <2>2. /\ OwnerTyped' /\ JarTyped' /\ Len(owner) <= Len(owner')
        /\ jar' # 0 /\ owner'[jar'].who = c.who /\ Torn' = "refresh"
    BY <1>1, <2>1, CookieSet DEF SInv
  <2> QED
    BY <2>2 DEF OwnerTyped
<1>3. guards' = [guards EXCEPT ![g] = freed]
  BY DEF RenewedUndecodable
<1>4. guards[g] \in Guards /\ guards[g].access <= Len(owner) /\ Len(owner) \in Nat
  BY <1>1 DEF SInv, Typed, GuardsTyped, OwnerTyped
<1>5. /\ freed \in Guards /\ freed.access = guards[g].access /\ freed.hasAny = guards[g].hasAny
      /\ freed.access \in Nat
  BY <1>4 DEF Guards
<1>6. GuardsTyped' /\ Len(guards') = Len(guards) /\ Base' = (IF g = Current THEN freed ELSE Base)
  <2>1. freed.access <= Len(owner')
    BY <1>2, <1>4, <1>5
  <2> HIDE DEF freed, g
  <2> QED
    BY <1>1, <1>2, <1>3, <1>5, <2>1, GuardSet DEF SInv
<1>7. Base'.access = Base.access /\ Base'.hasAny = Base.hasAny
  BY <1>5, <1>6 DEF Base, Current
<1>8. KeptTyped' /\ UNCHANGED <<memo, scope, device, adopted, home>>
  BY DEF RenewedUndecodable, SInv, Typed, KeptTyped
<1>9. Phase(c) => Settled'
  <2>1. CookieOwner' = (IF device # None THEN None ELSE c.who)
    BY <1>2, <1>8 DEF CookieOwner
  <2>2. Phase(c) => device = None /\ (Torn = "sso" => scope = None) /\ (scope # None => scope = c.who)
    BY <1>1 DEF Phase, Settled, ScopeOk, CookieOwner
  <2> HIDE DEF Base, Torn, CookieOwner, freed
  <2> QED
    BY <1>1, <1>2, <1>7, <1>8, <2>1, <2>2 DEF Phase, Settled, MemoOk, ScopeOk, GuardOk, BearerOk, NoDecision
<1>10. Len(guards) <= Len(guards')
  BY <1>6 DEF GuardsTyped
<1> QED
  BY <1>1, <1>2, <1>6, <1>8, <1>9, <1>10, RestStep

LEMMA StoreStep ==
  ASSUME SInv, NEW p \in Procs, Store(p)
  PROVE  SInv'
<1> DEFINE c == call[p]
           g == c.g
           stored == IF jar = 0 THEN [guards[g] EXCEPT !.mu = None]
                     ELSE [hasAny |-> TRUE, access |-> jar, mu |-> None]
           again == CallOf("again", c.op, c.who, c.key, c.tok, c.sent, c.g, c.left, c.met)
<1>1. /\ c.op \in {"refresh", "rpc"} /\ c.at = "store" /\ ~Idle(p)
      /\ Legal(c, Len(owner), Len(guards)) /\ g \in 1 .. Len(guards)
  BY CallIs DEF Store, Idle, SInv, Legal, LegalCalls, SignIns
<1>2. /\ KeptTyped' /\ JarTyped' /\ OwnerTyped' /\ Len(owner) <= Len(owner') /\ Len(owner') \in Nat
      /\ UNCHANGED <<owner, jar, memo, scope, home, device, adopted>>
      /\ Torn' = Torn /\ CookieOwner' = CookieOwner /\ ActsAs' = ActsAs
  BY DEF Store, SInv, Typed, KeptTyped, JarTyped, OwnerTyped, Torn, CookieOwner, ActsAs, Bearer
<1>3. guards' = [guards EXCEPT ![g] = stored]
  BY DEF Store
<1>4. guards[g] \in Guards /\ guards[g].access <= Len(owner) /\ jar \in Nat /\ jar <= Len(owner)
  BY <1>1 DEF SInv, Typed, GuardsTyped, OwnerTyped, JarTyped
<1>5. /\ stored \in Guards /\ stored.access <= Len(owner')
      /\ jar # 0 => stored.hasAny = TRUE /\ stored.access = jar
  <2>1. CASE jar = 0
    BY <1>2, <1>4, <2>1 DEF Guards
  <2>2. CASE jar # 0
    BY <1>2, <1>4, <2>2 DEF Guards
  <2> QED
    BY <2>1, <2>2
<1>6. GuardsTyped' /\ Len(guards') = Len(guards) /\ Base' = (IF g = Current THEN stored ELSE Base)
  <2> HIDE DEF stored, g
  <2> QED
    BY <1>1, <1>2, <1>3, <1>5, GuardSet DEF SInv
<1>7. Len(guards) <= Len(guards')
  BY <1>6 DEF GuardsTyped
<1>8. Phase(c) => jar # 0 /\ Base'.hasAny = TRUE /\ Base'.access = jar
  BY <1>1, <1>5, <1>6 DEF Phase
<1>9. Phase(c) => Settled'
  <2> HIDE DEF stored, Base, Torn, CookieOwner, ActsAs
  <2> QED
    BY <1>1, <1>2, <1>8 DEF Phase, Settled, MemoOk, ScopeOk, GuardOk, BearerOk, NoDecision
<1>10. CASE c.op = "rpc" /\ jar # 0
  <2>1. Goto(p, "again")
    BY <1>10 DEF Store, Refreshed
  <2>2. Becomes(p, again)
    BY <1>1, <2>1, GotoIs DEF SInv
  <2>3. Legal(again, Len(owner), Len(guards))
    BY <1>1, <1>10, LegalMove DEF SInv, Labels, LegalCalls
  <2>4. Phase(c) => Phase(call[p])'
    <3>1. call'[p] = again
      BY <2>2 DEF SInv, Typed, CallsTyped, Becomes
    <3> HIDE DEF stored, Base, Torn
    <3> QED
      BY <1>1, <1>2, <1>8, <1>9, <1>10, <3>1 DEF CallOf, Phase
  <2>5. Legal(again, Len(owner'), Len(guards'))
    BY <1>2, <1>6, <2>3
  <2> HIDE DEF again, stored
  <2> QED
    BY <1>2, <1>6, <1>7, <2>2, <2>4, <2>5, Step
<1>11. CASE ~(c.op = "rpc" /\ jar # 0)
  <2>1. Return(p)
    BY <1>11 DEF Store, Refreshed
  <2> HIDE DEF stored
  <2> QED
    BY <1>1, <1>2, <1>6, <1>7, <1>9, <2>1, RestStep
<1> QED
  BY <1>10, <1>11

-----------------------------------------------------------------------------
(* A decision that reaches its TTL leaves nothing behind. *)
LEMMA ExpireStep ==
  ASSUME SInv, NEW k \in Questions, Expire(k)
  PROVE  SInv'
<1>1. UNCHANGED <<owner, jar, guards, scope, device, adopted, closed, call, home>>
  BY DEF Expire
<1>2. memo' = [memo EXCEPT ![k] = None] /\ memo \in [Questions -> Principals \cup {None}]
  BY DEF Expire, SInv, Typed, KeptTyped
<1>3. Typed'
  BY <1>1, <1>2 DEF SInv, Typed, OwnerTyped, JarTyped, GuardsTyped, KeptTyped, CallsTyped
<1>4. Base' = Base /\ Torn' = Torn /\ CookieOwner' = CookieOwner /\ ActsAs' = ActsAs
  BY <1>1 DEF Base, Current, Torn, CookieOwner, ActsAs, Bearer
<1>5. memo = NoDecision => memo' = NoDecision
  BY <1>2 DEF NoDecision
<1> HIDE DEF Base, Torn, CookieOwner, ActsAs, NoDecision
<1>6. Settled => Settled'
  BY <1>1, <1>2, <1>4 DEF Settled, MemoOk, ScopeOk, GuardOk, BearerOk
<1>7. ASSUME NEW p \in Procs, Phase(call[p]) PROVE Phase(call[p])'
  BY <1>1, <1>4, <1>5, <1>6, <1>7 DEF Phase, Forgotten, BearerOk, GuardOk, ScopeOk, Current
<1>8. Alone' = Alone /\ Quiet' = Quiet /\ \A p \in Procs : Idle(p)' = Idle(p) /\ OthersIdle(p)' = OthersIdle(p)
  BY <1>1 DEF Alone, Quiet, Idle, OthersIdle
<1>9. Solo'
  BY <1>6, <1>7, <1>8 DEF SInv, Solo
<1> QED
  BY <1>3, <1>9 DEF SInv

LEMMA InitSInv == Init => SInv
<1> SUFFICES ASSUME Init PROVE SInv
  OBVIOUS
<1>1. PICK calls \in Workloads : call = [p \in Procs |-> AtRest(calls[p], FALSE)]
  BY DEF Init
<1>2. calls \in [Procs -> Nat]
  BY SessionConstants
<1>3. owner = <<>> /\ jar = 0 /\ guards = <<FreshGuard>> /\ Len(owner) = 0 /\ Len(guards) = 1 /\ guards[1] = FreshGuard
  BY DEF Init
<1>4. OwnerTyped /\ JarTyped
  BY <1>3, SessionConstants DEF OwnerTyped, JarTyped
<1>5. GuardsTyped
  <2>1. FreshGuard \in Guards /\ FreshGuard.access = 0
    BY DEF FreshGuard, Guards
  <2> QED
    BY <1>3, <2>1 DEF GuardsTyped
<1>6. KeptTyped
  BY DEF Init, KeptTyped, NoDecision
<1>7. ASSUME NEW p \in Procs
      PROVE  call[p] \in Calls /\ Legal(call[p], Len(owner), Len(guards)) /\ Idle(p)
  <2>1. call[p] = AtRest(calls[p], FALSE) /\ calls[p] \in Nat
    BY <1>1, <1>2
  <2>2. call[p] = CallOf("idle", "none", None, None, 0, 0, 1, calls[p], FALSE)
    BY <2>1 DEF AtRest, CallOf
  <2> DEFINE r == CallOf("idle", "none", None, None, 0, 0, 1, calls[p], FALSE)
  <2>3. r \in Calls /\ r.at = "idle"
    BY <2>1 DEF CallOf, Calls, Labels, AllOps, Principals
  <2>4. Legal(r, 0, 1)
    BY <2>3 DEF CallOf, Legal, LegalCalls, SignIns
  <2> QED
    BY <1>3, <2>2, <2>3, <2>4 DEF Idle
<1>8. CallsTyped
  BY <1>1, <1>7 DEF CallsTyped
<1>9. Settled
  BY <1>3 DEF Init, Settled, MemoOk, ScopeOk, GuardOk, BearerOk, NoDecision
<1> QED
  BY <1>4, <1>5, <1>6, <1>7, <1>8, <1>9 DEF SInv, Typed, Solo

LEMMA ProgressStep ==
  ASSUME SInv, NEW p \in Procs, Progress(p)
  PROVE  SInv'
<1>1. CASE Refused(p) \/ OpaqueStarted(p) \/ OpaqueFallsBack(p)
  BY <1>1, RefusedStep, OpaqueSteps
<1>2. CASE SignedIn(p) \/ SignedInUndecodable(p) \/ Absorb(p) \/ Seed(p)
  BY <1>2, SignedInStep, SignedInUndecodableStep, AbsorbStep, SeedStep
<1>3. CASE ReportHome(p) \/ ReportScope(p) \/ ForgetLast(p)
  BY <1>3, ReportSteps
<1>4. CASE LockGuard(p) \/ Renewed(p) \/ RenewedUndecodable(p) \/ Store(p)
  BY <1>4, LockGuardStep, RenewedStep, RenewedUndecodableStep, StoreStep
<1>5. CASE Unauthenticated(p) \/ RpcAgain(p) \/ LoggedOut(p)
  BY <1>5, UnauthenticatedStep, RpcAgainStep, LoggedOutStep
<1>6. CASE DeviceAnswered(p) \/ DeviceClear(p) \/ DeviceAdopt(p) \/ Granted(p) \/ GrantAdopt(p) \/ Decided(p)
  BY <1>6, DeviceSteps, AdoptSteps, DecidedStep
<1> QED
  BY <1>1, <1>2, <1>3, <1>4, <1>5, <1>6 DEF Progress

LEMMA NextSInv == SInv /\ [Next]_vars => SInv'
<1> SUFFICES ASSUME SInv, [Next]_vars PROVE SInv'
  OBVIOUS
<1>1. ASSUME NEW p \in Procs, NEW u \in Users,
             BeginLogin(p, u) \/ BeginOpaque(p, u) \/ BeginPasskey(p, u) \/ BeginSso(p, u)
      PROVE  SInv'
  BY <1>1, BeginFamily
<1>2. ASSUME NEW p \in Procs, NEW k \in Questions, BeginCheck(p, k) PROVE SInv'
  BY <1>2, BeginCheckStep
<1>3. ASSUME NEW p \in Procs,
             \/ BeginRefresh(p) \/ BeginLogout(p) \/ BeginDevice(p) \/ BeginAdopt(p)
             \/ BeginRpc(p) \/ BeginEnroll(p) \/ Close(p) \/ Resend(p)
      PROVE  SInv'
  BY <1>3, BeginRefreshStep, BeginLogoutStep, BeginOthers, BeginRpcStep, CloseStep, ResendStep
<1>4. ASSUME NEW p \in Procs, Progress(p) PROVE SInv'
  BY <1>4, ProgressStep
<1>5. ASSUME NEW k \in Questions, Expire(k) PROVE SInv'
  BY <1>5, ExpireStep
<1>6. CASE UNCHANGED vars
  <2>1. UNCHANGED <<owner, jar, guards, memo, scope, home, device, adopted, closed, call>>
    BY <1>6 DEF vars, session
  <2>2. Typed'
    BY <2>1 DEF SInv, Typed, OwnerTyped, JarTyped, GuardsTyped, KeptTyped, CallsTyped
  <2>3. UNCHANGED <<Current, Torn, CookieOwner, ActsAs, Bearer>>
    BY <2>1 DEF Current, Torn, CookieOwner, ActsAs, Bearer
  <2>4. UNCHANGED Base /\ (BearerOk' <=> BearerOk) /\ (Forgotten' <=> Forgotten)
    BY <2>1, <2>3 DEF Base, BearerOk, Forgotten
  <2>5. Settled' <=> Settled
    BY <2>1, <2>3, <2>4 DEF Settled, MemoOk, ScopeOk, GuardOk
  <2>6. (ScopeOk' <=> ScopeOk) /\ (GuardOk' <=> GuardOk)
    BY <2>1, <2>3, <2>4 DEF ScopeOk, GuardOk
  <2>7. ASSUME NEW p \in Procs, Phase(call[p]) PROVE Phase(call[p])'
    BY <2>1, <2>3, <2>4, <2>5, <2>6, <2>7 DEF Phase
  <2>8. /\ Alone' <=> Alone
        /\ Quiet' <=> Quiet
        /\ \A p \in Procs : (Idle(p)' <=> Idle(p)) /\ (OthersIdle(p)' <=> OthersIdle(p))
    BY <2>1 DEF Alone, Quiet, Idle, OthersIdle
  <2>9. Solo'
    BY <2>5, <2>7, <2>8 DEF SInv, Solo
  <2> QED
    BY <2>2, <2>9 DEF SInv
<1> QED
  BY <1>1, <1>2, <1>3, <1>4, <1>5, <1>6 DEF Next

LEMMA AlwaysSInv == Spec => []SInv
  BY InitSInv, NextSInv, PTL DEF Spec

LEMMA IsSeq ==
  ASSUME NEW S, NEW n \in Nat, NEW s \in [1 .. n -> S]
  PROVE  s \in Seq(S)
  OBVIOUS

LEMMA TypesImplied == Typed => TypeOK
<1> SUFFICES ASSUME Typed PROVE TypeOK
  OBVIOUS
<1>1. owner \in Seq([who : Users, torn : {"no", "login", "passkey", "sso", "refresh"}])
  <2>1. owner \in [1 .. Len(owner) -> Cookies] /\ Len(owner) \in Nat
    BY DEF Typed, OwnerTyped
  <2>2. Cookies \subseteq [who : Users, torn : {"no", "login", "passkey", "sso", "refresh"}]
    BY SessionConstants DEF Cookies
  <2>3. owner \in [1 .. Len(owner) -> [who : Users, torn : {"no", "login", "passkey", "sso", "refresh"}]]
    BY <2>1, <2>2
  <2> QED
    BY <2>1, <2>3, IsSeq
<1>2. guards \in Seq([hasAny : BOOLEAN, access : 0 .. Len(owner), mu : Procs \cup {None}])
  <2>1. guards \in [1 .. Len(guards) -> Guards] /\ Len(guards) \in Nat /\ Len(owner) \in Nat
    BY DEF Typed, GuardsTyped, OwnerTyped
  <2>2. ASSUME NEW i \in 1 .. Len(guards)
        PROVE  guards[i] \in [hasAny : BOOLEAN, access : 0 .. Len(owner), mu : Procs \cup {None}]
    BY <2>1 DEF Typed, GuardsTyped, Guards
  <2>3. guards \in [1 .. Len(guards) -> [hasAny : BOOLEAN, access : 0 .. Len(owner), mu : Procs \cup {None}]]
    BY <2>1, <2>2
  <2> QED
    BY <2>1, <2>3, IsSeq
<1>3. ASSUME NEW p \in Procs
      PROVE  /\ call[p] \in Calls /\ {call[p].tok, call[p].sent} \subseteq 0 .. Len(owner)
             /\ call[p].g \in 1 .. Len(guards)
  <2>1. call[p] \in Calls /\ Legal(call[p], Len(owner), Len(guards)) /\ Len(owner) \in Nat
    BY CallIs DEF Typed, OwnerTyped
  <2>2. call[p].tok \in Nat /\ call[p].sent \in Nat
    BY <2>1 DEF Calls
  <2> QED
    BY <2>1, <2>2 DEF Legal
<1> QED
  BY <1>1, <1>2, <1>3 DEF Typed, OwnerTyped, JarTyped, KeptTyped, TypeOK, Calls, Labels

(* However calls that do not overlap follow one another, whichever fail and
   whatever they leave undecoded: decisions, reach, baseline and bearer are about
   the principal that the next request acts as, and an RPC is repeated with news. *)
THEOREM KeptIsCurrent == Spec => []NothingStale
<1>1. SInv => NothingStale
  <2> SUFFICES ASSUME SInv PROVE NothingStale
    OBVIOUS
  <2>1. TypeOK
    BY TypesImplied DEF SInv
  <2>2. \A ops : TornBy(ops) <=> jar # 0 /\ Torn \in ops
    BY DEF TornBy, Torn
  <2>3. OneAtATime => Settled
    BY DEF OneAtATime, SInv, Solo
  <2> HIDE DEF Torn
  <2>4. Torn = "sso" => jar # 0
    BY DEF Torn
  <2>5. MemoIsCurrent
    BY <2>2, <2>3, <2>4 DEF MemoIsCurrent, Settled, MemoOk
  <2>6. ScopeIsCurrent
    BY <2>2, <2>3, <2>4 DEF ScopeIsCurrent, Settled, ScopeOk
  <2>7. GuardFollowsJar
    BY <2>2, <2>3 DEF GuardFollowsJar, Settled, GuardOk, Base
  <2>8. OneBearer
    BY <2>3 DEF OneBearer, Settled, BearerOk
  <2>9. RetryBringsNews
    <3> SUFFICES ASSUME Alone, ~TornBy(Undecodable), NEW p \in Procs, At(p, "rpc", "last")
                 PROVE  call[p].tok # call[p].sent
      BY DEF RetryBringsNews
    <3>1. Phase(call[p])
      BY DEF SInv, Solo, At, Idle
    <3>2. Torn \in Undecodable => jar # 0
      BY SessionConstants DEF Torn
    <3> QED
      BY <2>2, <3>1, <3>2 DEF At, Phase
  <2> QED
    BY <2>1, <2>5, <2>6, <2>7, <2>8, <2>9 DEF NothingStale
<1> QED
  BY <1>1, AlwaysSInv, PTL

(* Any number of calls may overlap here: one that loaded the guard before Logout or
   AuthenticateDevice replaced it never writes to the one in use. *)
THEOREM LateWritesKeptOut == Spec => LateWritesStayOut
<1> DEFINE Late(p) ==
      call[p].g # Current /\ call'[p] # call[p] /\ call[p].at \in {"seed", "lock", "posted", "store"}
        => guards'[Current] = guards[Current]
<1>1. ASSUME SInv, Next, NEW p \in Procs, call[p].g # Current, call'[p] # call[p],
             call[p].at \in {"seed", "lock", "posted", "store"}
      PROVE  guards'[Current] = guards[Current]
  <2>1. call \in [Procs -> Calls] /\ guards \in Seq(Guards) /\ Len(guards) # 0
    BY <1>1 DEF SInv, Typed, CallsTyped, GuardsTyped
  <2>2. Current \in 1 .. Len(guards) /\ call[p].g \in 1 .. Len(guards)
    <3>1. Current \in 1 .. Len(guards)
      BY <2>1 DEF Current
    <3>2. call[p].g \in 1 .. Len(guards)
      <4>1. Typed
        BY <1>1 DEF SInv
      <4>2. Legal(call[p], Len(owner), Len(guards))
        BY <4>1, CallIs
      <4> QED
        BY <4>2 DEF Legal
    <3> QED
      BY <3>1, <3>2
  <2>3. ASSUME NEW v, guards' = [guards EXCEPT ![call[p].g] = v] PROVE guards'[Current] = guards[Current]
    BY <1>1, <2>1, <2>2, <2>3
  <2>4. ~Idle(p) /\ call[p].at \in {"seed", "lock", "posted", "store"}
    BY <1>1 DEF Idle
  <2>5. ASSUME NEW q \in Procs, \E v : call' = [call EXCEPT ![q] = v] PROVE q = p
    BY <1>1, <2>1, <2>5
  <2>6. ASSUME NEW q \in Procs, NEW u \in Users,
               BeginLogin(q, u) \/ BeginOpaque(q, u) \/ BeginPasskey(q, u) \/ BeginSso(q, u)
        PROVE  FALSE
    BY <2>4, <2>5, <2>6 DEF BeginLogin, BeginOpaque, BeginPasskey, BeginSso, Enter, MayCall
  <2>7. ASSUME NEW q \in Procs, NEW k \in Questions, BeginCheck(q, k) PROVE FALSE
    BY <2>4, <2>5, <2>7 DEF BeginCheck, EnterAndReturn, MayCall
  <2>8. ASSUME NEW q \in Procs,
               \/ BeginRefresh(q) \/ BeginLogout(q) \/ BeginDevice(q) \/ BeginAdopt(q)
               \/ BeginRpc(q) \/ BeginEnroll(q) \/ Close(q)
        PROVE  FALSE
    BY <2>4, <2>5, <2>8 DEF BeginRefresh, BeginLogout, BeginDevice, BeginAdopt, BeginRpc, BeginEnroll, Close,
       Enter, EnterAndReturn, MayCall
  <2>9. ASSUME NEW q \in Procs, Resend(q) PROVE FALSE
    BY <2>4, <2>5, <2>9 DEF Resend, At
  <2>10. ASSUME NEW q \in Procs, Seed(q) \/ LockGuard(q) \/ Renewed(q) \/ RenewedUndecodable(q)
                                  \/ Store(q) \/ Refused(q)
         PROVE  guards'[Current] = guards[Current]
    <3>1. q = p
      <4>1. CASE Seed(q)
        <5>1. call[q].op \in SignIns
          BY <1>1, <4>1, CallIs DEF SInv, Legal, LegalCalls, SignIns, Seed
        <5> QED
          BY <2>5, <4>1, <5>1 DEF Seed, SignIns, Goto, Return
      <4>2. CASE LockGuard(q)
        <5> DEFINE g == call[q].g
        <5>1. CASE guards[g].hasAny /\ guards[g].access # call[q].tok
          <6>1. Goto(q, "again") \/ Return(q)
            BY <4>2, <5>1 DEF LockGuard, Refreshed
          <6>2. \E v : call' = [call EXCEPT ![q] = v]
            BY <6>1 DEF Goto, Return
          <6> QED
            BY <2>5, <6>2
        <5>2. CASE ~(guards[g].hasAny /\ guards[g].access # call[q].tok)
          <6>1. Typed
            BY <1>1 DEF SInv
          <6>2. call' = [call EXCEPT ![q].at = "posted", ![q].who = CookieOwner]
            BY <4>2, <5>2 DEF LockGuard
          <6>3. PICK v : call' = [call EXCEPT ![q] = v]
            BY <6>1, <6>2, MovesOneCall
          <6> QED
            BY <2>5, <6>3
        <5> QED
          BY <5>1, <5>2
      <4>3. CASE Renewed(q) \/ RenewedUndecodable(q) \/ Store(q) \/ Refused(q)
        BY <2>5, <4>3 DEF Renewed, RenewedUndecodable, Store, Refused, Goto, Return, Refreshed
      <4> QED
        BY <2>10, <4>1, <4>2, <4>3
    <3>2. CASE Seed(p)
      BY <2>1, <2>2, <2>3, <3>2 DEF Seed
    <3>3. CASE LockGuard(p)
      BY <2>1, <2>2, <2>3, <3>3 DEF LockGuard
    <3>4. CASE Renewed(p) \/ RenewedUndecodable(p)
      BY <2>1, <2>2, <2>3, <3>4 DEF Renewed, RenewedUndecodable
    <3>5. CASE Store(p)
      BY <2>1, <2>2, <2>3, <3>5 DEF Store
    <3>6. CASE Refused(p)
      BY <2>1, <2>2, <2>3, <3>6 DEF Refused
    <3> QED
      BY <2>10, <3>1, <3>2, <3>3, <3>4, <3>5, <3>6
  <2>11. ASSUME NEW q \in Procs,
                \/ OpaqueStarted(q) \/ OpaqueFallsBack(q) \/ SignedIn(q) \/ SignedInUndecodable(q) \/ Absorb(q)
                \/ ReportHome(q) \/ ReportScope(q) \/ ForgetLast(q)
         PROVE  FALSE
    BY <2>4, <2>5, <2>11 DEF OpaqueStarted, OpaqueFallsBack, SignedIn, SignedInUndecodable, Absorb,
       ReportHome, ReportScope, ForgetLast, At, Goto, Return
  <2>12. ASSUME NEW q \in Procs,
                \/ Unauthenticated(q) \/ RpcAgain(q) \/ LoggedOut(q) \/ DeviceAnswered(q) \/ DeviceClear(q)
                \/ DeviceAdopt(q) \/ Granted(q) \/ GrantAdopt(q) \/ Decided(q)
         PROVE  FALSE
    BY <2>4, <2>5, <2>12 DEF Unauthenticated, RpcAgain, LoggedOut, DeviceAnswered, DeviceClear, DeviceAdopt,
       Granted, GrantAdopt, Decided, At, Goto, Return
  <2>13. ASSUME NEW k \in Questions, Expire(k) PROVE FALSE
    BY <1>1, <2>13 DEF Expire
  <2> QED
    BY <1>1, <2>6, <2>7, <2>8, <2>9, <2>10, <2>11, <2>12, <2>13 DEF Next, Progress
<1>2. SInv /\ [Next]_vars => [\A p \in Procs : Late(p)]_vars
  <2> SUFFICES ASSUME SInv, Next, NEW p \in Procs PROVE Late(p)
    OBVIOUS
  <2> QED
    BY <1>1
<1> QED
  BY <1>2, AlwaysSInv, PTL DEF Spec, LateWritesStayOut
=============================================================================
