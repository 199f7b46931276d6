-------------------------- MODULE ReconcileProofs --------------------------
(***************************************************************************)
(* Apply, from any deviations of the tenant, under any number of faults    *)
(* and any number of writes of another administrator.                      *)
(***************************************************************************)
EXTENDS Reconcile, SequenceTheorems, TLAPS

Steps == [thing : Things, change : {"create", "update"}]
Held == [at : {"parent", "child", "tenant"}, inherits : BOOLEAN, tenants : {Everywhere, Confined}]
Tenants == [listed : [Listed -> {"absent", "other", "stated"}],
            stray : {"absent", "there", "touched"},
            bound : [Bindings -> Held \union {Unbound}],
            accounts : Seq({"foreign", "other", "stated"}),
            cap : 1 .. Cap, stored : 0 .. 2, segment : Nat]

(* The place of a thing in the order computeSteps plans them in. *)
Rank == [parent |-> 1, child |-> 2, scope |-> 3, permission |-> 4, role |-> 5, grant |-> 6,
         group |-> 7, groupRole |-> 8, user |-> 9, userRole |-> 10, member |-> 11,
         account |-> 12, accountRole |-> 13, policy |-> 14, segment |-> 15, profile |-> 16]

Sorted(steps) ==
    \A i, j \in DOMAIN steps : i < j => Rank[steps[i].thing] < Rank[steps[j].thing]

Pending == {h.thing : h \in Range(todo)}
Create(x) == [thing |-> x, change |-> "create"]
Update(x) == [thing |-> x, change |-> "update"]

(* What the plan looks for, and what the server keeps: a child lies below its
   parent, and a role is bound to a subject that both exist. *)
Present(t, x) == IF x = "account" THEN Ours(t.accounts) # {} ELSE t.listed[x] # "absent"
Sound(t) ==
    /\ t.listed["child"] # "absent" => t.listed["parent"] # "absent"
    /\ \A b \in Bindings : t.bound[b] # Unbound => Present(t, "role") /\ Present(t, SubjectOf[b])

Referred == UNION {Needs[x] : x \in Things}
Findable == Named \union {"account"}

-----------------------------------------------------------------------------
(* The inductive invariant, in parts.  The first holds whatever happens. *)
Typed ==
    /\ server \in Tenants /\ snap \in Tenants
    /\ todo \in Seq(Steps)
    /\ phase \in {"idle", "accounts", "network", "planning", "running"}
    /\ stage \in {"first", "assign", "restore"}
    /\ resolved \in [Things -> Things \union {"none"}]
    /\ version \in Nat
    /\ report \in {"none", "complete", "failed", "restored", "restoreFailed", "refused"}
    /\ faults \in 0 .. MaxFaults /\ meddling \in 0 .. MaxMeddling
    /\ disturbed \in BOOLEAN /\ theirs \in BOOLEAN
    /\ mishap \in {"none", "refused", "unsure"}

(* Where an Apply can be: only a rebind is under way in two requests, and an
   Apply goes on after a mishap only to restore a binding. *)
InStep ==
    /\ phase # "running" => todo = <<>> /\ stage = "first"
    /\ phase # "idle" => report = "none"
    /\ phase # "idle" /\ stage # "restore" => mishap = "none"
    /\ stage # "first" => todo # <<>> /\ Head(todo).thing \in Bindings
                          /\ Head(todo).change = "update"

(* What a reader has seen of the tenant is still there. *)
Reading == phase \in {"accounts", "network", "planning"}
SeenIsThere ==
    Reading =>
        /\ snap.bound = server.bound
        /\ \A x \in Listed \ {"segment"} : snap.listed[x] = server.listed[x]
        /\ \A x \in Findable : Present(snap, x) => Present(server, x)
        /\ snap.segment <= server.segment

(* The steps left are in order, and what they refer to has been found, was
   made, or is among them. *)
Wired ==
    /\ Sorted(todo)
    /\ \A x \in Things : resolved[x] \in {x, "none"}
    /\ \A x \in Findable : resolved[x] = x => Present(server, x)
    /\ \A x \in Findable : Update(x) \in Range(todo) => resolved[x] = x
    /\ phase = "running" => \A n \in Referred \ Pending : resolved[n] = n

(* A binding that was read is as it was, or as it was wanted, but while a
   rebind is under way; the unknown fate of a request excepted. *)
BindingsHold ==
    mishap # "unsure" =>
        \A b \in Bindings : snap.bound[b] # Unbound =>
            \/ server.bound[b] \in {snap.bound[b], Bound(b, snap.bound[b].tenants)}
            \/ stage # "first" /\ Head(todo).thing = b
            \/ report = "restoreFailed"

(* A change of the segment leaves the version that was read behind. *)
VersionsGrow ==
    /\ phase \in {"planning", "running"} => snap.segment <= server.segment
    /\ theirs => /\ phase \notin {"accounts", "network"}
                 /\ server.listed["segment"] = "other"
                 /\ snap.segment < server.segment

BInv == Typed /\ Sound(server) /\ InStep /\ SeenIsThere /\ Wired /\ BindingsHold
        /\ VersionsGrow /\ StrayUntouched

-----------------------------------------------------------------------------
(* The second part is about an Apply during which nobody else has written. *)
ReadTruly ==
    Reading =>
        /\ snap = [server EXCEPT !.accounts = snap.accounts]
        /\ Len(snap.accounts) <= Len(server.accounts)
        /\ \A i \in DOMAIN snap.accounts : snap.accounts[i] = server.accounts[i]
        /\ phase # "accounts" => snap.accounts = server.accounts

StatedOrPending ==
    /\ \A x \in Named \ Pending : server.listed[x] = "stated"
    /\ \A x \in (Listed \ Named) \ Pending : server.listed[x] # "absent"
    /\ \A b \in Bindings \ Pending : server.bound[b] = Bound(b, server.bound[b].tenants)
    /\ "account" \notin Pending => \E i \in Ours(server.accounts) : server.accounts[i] = "stated"
    /\ "policy" \notin Pending => server.cap = Cap
    /\ "profile" \notin Pending => (snap.cap = Cap => server.stored = Timeout)

NewIsMissing ==
    /\ \A x \in Named : Create(x) \in Range(todo) => server.listed[x] = "absent"
    /\ \A b \in Bindings : Create(b) \in Range(todo) => server.bound[b] = Unbound
    /\ Create("account") \in Range(todo) => Ours(server.accounts) = {}

VersionsKnown ==
    /\ version = server.segment
    /\ "segment" \in Pending => snap.segment = server.segment

Alone ==
    ~disturbed =>
        /\ ReadTruly
        /\ phase = "running" => /\ StatedOrPending /\ NewIsMissing /\ VersionsKnown
                                /\ ~Ambiguous(server.accounts)

AInv == BInv /\ Alone /\ CompleteMeansStated /\ FailsOnlyForCause
-----------------------------------------------------------------------------
(* The things, and the order they are planned in. *)
LEMMA ThingsAre ==
  Things = {"parent", "child", "scope", "permission", "role", "grant", "group", "groupRole",
            "user", "userRole", "member", "account", "accountRole", "policy", "segment", "profile"}
  BY DEF Things, Needs

LEMMA RankIs ==
  /\ Rank["parent"] = 1 /\ Rank["child"] = 2 /\ Rank["scope"] = 3 /\ Rank["permission"] = 4
  /\ Rank["role"] = 5 /\ Rank["grant"] = 6 /\ Rank["group"] = 7 /\ Rank["groupRole"] = 8
  /\ Rank["user"] = 9 /\ Rank["userRole"] = 10 /\ Rank["member"] = 11 /\ Rank["account"] = 12
  /\ Rank["accountRole"] = 13 /\ Rank["policy"] = 14 /\ Rank["segment"] = 15
  /\ Rank["profile"] = 16
  BY DEF Rank

LEMMA RankOrders ==
  /\ \A x \in Things : Rank[x] \in 1 .. 16
  /\ \A x, y \in Things : Rank[x] = Rank[y] => x = y
<1>1. \A x \in Things : Rank[x] \in 1 .. 16
  BY ThingsAre, RankIs
<1>2. \A x, y \in Things : Rank[x] = Rank[y] => x = y
  BY ThingsAre, RankIs
<1> QED
  BY <1>1, <1>2

LEMMA NeedsAre ==
  /\ Needs["parent"] = {} /\ Needs["child"] = {"parent"} /\ Needs["scope"] = {"child"}
  /\ Needs["permission"] = {} /\ Needs["role"] = {}
  /\ Needs["grant"] = {"role", "permission", "scope"} /\ Needs["group"] = {}
  /\ Needs["groupRole"] = {"role", "group"} /\ Needs["user"] = {}
  /\ Needs["userRole"] = {"role", "user", "child"} /\ Needs["member"] = {"group", "user"}
  /\ Needs["account"] = {} /\ Needs["accountRole"] = {"role", "account", "child"}
  /\ Needs["policy"] = {} /\ Needs["segment"] = {} /\ Needs["profile"] = {"segment"}
  BY DEF Needs

(* What a thing refers to is planned before it. *)
LEMMA NeedsFirst ==
  ASSUME NEW x \in Things, NEW n \in Needs[x]
  PROVE  n \in Things /\ Rank[n] < Rank[x]
  BY ThingsAre, RankIs, NeedsAre

(* Nothing refers to more than these. *)
LEMMA ReferredAre ==
  Referred = {"parent", "child", "permission", "role", "scope", "group", "user", "account",
              "segment"}
  BY ThingsAre, NeedsAre DEF Referred
-----------------------------------------------------------------------------
(* The steps left: taking the first one away, and planning one more. *)
LEMMA TailLeaves ==
  ASSUME NEW q \in Seq(Steps), q # <<>>, Sorted(q)
  PROVE  /\ Head(q) \in Range(q) /\ Head(q) \in Steps
         /\ Tail(q) \in Seq(Steps) /\ Sorted(Tail(q))
         /\ Range(Tail(q)) = Range(q) \ {Head(q)}
         /\ \A h \in Range(q) : h \in Steps /\ (h # Head(q) => Rank[Head(q).thing] < Rank[h.thing])
<1>1. /\ Len(q) \in Nat \ {0} /\ DOMAIN q = 1 .. Len(q) /\ Head(q) = q[1]
      /\ \A i \in 1 .. Len(q) : q[i] \in Steps
  OBVIOUS
<1>2. /\ Tail(q) \in Seq(Steps) /\ Len(Tail(q)) = Len(q) - 1 /\ DOMAIN Tail(q) = 1 .. Len(q) - 1
      /\ \A i \in 1 .. Len(q) - 1 : Tail(q)[i] = q[i + 1]
  BY HeadTailProperties
<1>3. Sorted(Tail(q))
  <2> SUFFICES ASSUME NEW i \in 1 .. Len(q) - 1, NEW j \in 1 .. Len(q) - 1, i < j
               PROVE  Rank[Tail(q)[i].thing] < Rank[Tail(q)[j].thing]
    BY <1>2 DEF Sorted
  <2>1. i + 1 \in DOMAIN q /\ j + 1 \in DOMAIN q /\ i + 1 < j + 1
    BY <1>1
  <2> QED
    BY <1>2, <2>1 DEF Sorted
<1>4. ASSUME NEW i \in 2 .. Len(q) PROVE Rank[Head(q).thing] < Rank[q[i].thing]
  <2>1. 1 \in DOMAIN q /\ i \in DOMAIN q /\ 1 < i
    BY <1>1
  <2> QED
    BY <1>1, <2>1 DEF Sorted
<1>5. ASSUME NEW h \in Range(q)
      PROVE  h \in Steps /\ (h # Head(q) => Rank[Head(q).thing] < Rank[h.thing])
  <2>1. PICK i \in 1 .. Len(q) : h = q[i]
    BY <1>1 DEF Range
  <2> QED
    BY <1>1, <1>4, <2>1
<1>6. Rank[Head(q).thing] \in Nat
  <2>1. Head(q) \in Steps
    BY <1>1
  <2>2. Head(q).thing \in Things
    BY <2>1 DEF Steps
  <2>3. Rank[Head(q).thing] \in 1 .. 16
    BY <2>2, RankOrders
  <2> QED
    BY <2>3
<1>7. Range(Tail(q)) = Range(q) \ {Head(q)}
  <2>1. ASSUME NEW h \in Range(Tail(q)) PROVE h \in Range(q) /\ h # Head(q)
    <3>1. PICK i \in 1 .. Len(q) - 1 : h = Tail(q)[i]
      BY <1>2, <2>1 DEF Range
    <3>2. i + 1 \in 2 .. Len(q) /\ h = q[i + 1]
      BY <1>1, <1>2, <3>1
    <3> QED
      BY <1>1, <1>4, <1>6, <3>2 DEF Range
  <2>2. ASSUME NEW h \in Range(q), h # Head(q) PROVE h \in Range(Tail(q))
    <3>1. PICK i \in 1 .. Len(q) : h = q[i]
      BY <1>1, <2>2 DEF Range
    <3>2. i - 1 \in 1 .. Len(q) - 1 /\ Tail(q)[i - 1] = q[i]
      BY <1>1, <1>2, <2>2, <3>1
    <3> QED
      BY <1>2, <3>1, <3>2 DEF Range
  <2> QED
    BY <2>1, <2>2
<1>8. Head(q) \in Range(q) /\ Head(q) \in Steps
  <2>1. 1 \in DOMAIN q
    BY <1>1
  <2> QED
    BY <1>1, <2>1 DEF Range
<1> QED
  BY <1>2, <1>3, <1>5, <1>7, <1>8

(* What is planned for a thing. *)
Planned(s, x) ==
    CASE x \in Named -> PlanNamed(s, x)
      [] x \in {"scope", "grant", "member"} -> PlanPresence(s, x)
      [] x \in Bindings -> planRoleBinding(s, x)
      [] x = "account" -> PlanAccount(s)
      [] x = "policy" -> PlanPolicy(s)
      [] x = "profile" -> PlanProfile(s)

LEMMA PlannedIs ==
  ASSUME NEW s
  PROVE  /\ \A x \in Named : Planned(s, x) = PlanNamed(s, x)
         /\ \A x \in {"scope", "grant", "member"} : Planned(s, x) = PlanPresence(s, x)
         /\ \A b \in Bindings : Planned(s, b) = planRoleBinding(s, b)
         /\ Planned(s, "account") = PlanAccount(s)
         /\ Planned(s, "policy") = PlanPolicy(s)
         /\ Planned(s, "profile") = PlanProfile(s)
  BY DEF Planned, Named, Bindings

LEMMA StepIs ==
  /\ \A x : Step(x, "create") = <<Create(x)>> /\ Step(x, "update") = <<Update(x)>>
  /\ \A x \in Things : Create(x) \in Steps /\ Update(x) \in Steps
  /\ \A h \in Steps : h = Create(h.thing) \/ h = Update(h.thing)
  /\ \A x : Create(x).thing = x /\ Create(x).change = "create"
            /\ Update(x).thing = x /\ Update(x).change = "update"
  BY DEF Step, Create, Update, Steps

(* The ids computeSteps fills in, and the steps it can push. *)
LEMMA ResolveIs ==
  ASSUME NEW s \in Tenants
  PROVE  /\ Resolve(s) \in [Things -> Things \union {"none"}]
         /\ \A x \in Things : Resolve(s)[x] \in {x, "none"}
         /\ \A x \in Findable : Resolve(s)[x] = x => Present(s, x)
         /\ \A x \in Findable : Present(s, x) /\ Sound(s) => Resolve(s)[x] = x
         /\ Resolve(s)["scope"] = "scope" <=>
              Resolve(s)["child"] = "child" /\ s.listed["scope"] # "absent"
<1>1. s.listed["child"] # "absent" /\ s.listed["parent"] # "absent" => ChildFound(s) = "child"
  BY DEF ChildFound, Matching
<1>2. ChildFound(s) \in {"child", "none"}
  BY DEF ChildFound, Matching
<1>3. ChildFound(s) = "child" => s.listed["child"] # "absent"
  BY DEF ChildFound, Matching
<1>4. Resolve(s)["child"] = ChildFound(s)
  BY ThingsAre DEF Resolve
<1>5. \A x \in Named \ {"child"} : Resolve(s)[x] = IF s.listed[x] # "absent" THEN x ELSE "none"
  BY ThingsAre DEF Resolve, Named
<1>6. Resolve(s)["scope"] =
        IF ChildFound(s) = "child" /\ s.listed["scope"] # "absent" THEN "scope" ELSE "none"
  BY ThingsAre DEF Resolve, Named
<1>7. Resolve(s)["account"] = IF Ours(s.accounts) # {} THEN "account" ELSE "none"
  BY ThingsAre DEF Resolve, Named
<1>8. \A x \in Things \ (Findable \union {"scope"}) : Resolve(s)[x] = "none"
  BY ThingsAre DEF Resolve, Findable, Named
<1>9. \A x \in Things : Resolve(s)[x] \in {x, "none"}
  BY <1>2, <1>4, <1>5, <1>6, <1>7, <1>8 DEF Findable
<1>10. Resolve(s) \in [Things -> Things \union {"none"}]
  BY <1>9 DEF Resolve
<1>11. \A x \in Findable : Resolve(s)[x] = x => Present(s, x)
  BY <1>3, <1>4, <1>5, <1>7 DEF Findable, Named, Present
<1>12. \A x \in Findable : Present(s, x) /\ Sound(s) => Resolve(s)[x] = x
  BY <1>1, <1>4, <1>5, <1>7 DEF Findable, Named, Present, Sound
<1> QED
  BY <1>4, <1>6, <1>9, <1>10, <1>11, <1>12

(* A thing gives at most one step, of its own. *)
LEMMA PlannedOne ==
  ASSUME NEW s \in Tenants, NEW x \in Things
  PROVE  Planned(s, x) \in {<<>>, <<Create(x)>>, <<Update(x)>>}
<1> USE StepIs
<1>1. ASSUME x \in Named PROVE Planned(s, x) \in {<<>>, <<Create(x)>>, <<Update(x)>>}
  BY <1>1, PlannedIs, ResolveIs DEF PlanNamed
<1>2. ASSUME x \in {"scope", "grant", "member"}
      PROVE  Planned(s, x) \in {<<>>, <<Create(x)>>, <<Update(x)>>}
  BY <1>2, PlannedIs DEF PlanPresence
<1>3. ASSUME x \in Bindings PROVE Planned(s, x) \in {<<>>, <<Create(x)>>, <<Update(x)>>}
  BY <1>3, PlannedIs DEF planRoleBinding
<1>4. CASE x \in {"account", "policy", "profile"}
  BY <1>4, PlannedIs DEF PlanAccount, PlanPolicy, PlanProfile
<1>5. x \in Named \/ x \in {"scope", "grant", "member"} \/ x \in Bindings
        \/ x \in {"account", "policy", "profile"}
  BY ThingsAre DEF Named, Bindings
<1> QED
  BY <1>1, <1>2, <1>3, <1>4, <1>5

(* The steps for the things up to the k-th, in order. *)
Lists(q, s, k) ==
    /\ q \in Seq(Steps) /\ Sorted(q)
    /\ \A h \in Steps : h \in Range(q) <=> Rank[h.thing] <= k /\ Planned(s, h.thing) = <<h>>

LEMMA OneMore ==
  ASSUME NEW s \in Tenants, NEW k \in 0 .. 15, NEW q, Lists(q, s, k),
         NEW x \in Things, Rank[x] = k + 1
  PROVE  Lists(q \o Planned(s, x), s, k + 1)
<1>1. /\ q \in Seq(Steps) /\ Sorted(q)
      /\ \A h \in Steps : h \in Range(q) <=> Rank[h.thing] <= k /\ Planned(s, h.thing) = <<h>>
  BY DEF Lists
<1>2. ASSUME NEW h \in Steps
      PROVE  /\ h.thing \in Things /\ Rank[h.thing] \in Nat
             /\ Rank[h.thing] <= k + 1 <=> Rank[h.thing] <= k \/ h.thing = x
             /\ ~(Rank[h.thing] <= k /\ h.thing = x)
  <2>1. h.thing \in Things
    BY DEF Steps
  <2>2. Rank[h.thing] \in Nat /\ (Rank[h.thing] = k + 1 => h.thing = x)
    BY <2>1, RankOrders
  <2> QED
    BY <2>1, <2>2
<1>3. CASE Planned(s, x) = <<>>
  <2>1. q \o Planned(s, x) = q
    BY <1>1, <1>3, ConcatEmptySeq
  <2>2. ASSUME NEW h \in Steps
        PROVE  h \in Range(q) <=> Rank[h.thing] <= k + 1 /\ Planned(s, h.thing) = <<h>>
    <3>1. CASE h.thing = x
      <4>1. <<>> # <<h>>
        OBVIOUS
      <4> QED
        BY <1>1, <1>2, <1>3, <3>1, <4>1
    <3>2. CASE h.thing # x
      BY <1>1, <1>2, <3>2
    <3> QED
      BY <3>1, <3>2
  <2> QED
    BY <1>1, <2>1, <2>2 DEF Lists
<1>4. ASSUME NEW e \in {Create(x), Update(x)}, Planned(s, x) = <<e>>
      PROVE  Lists(q \o Planned(s, x), s, k + 1)
  <2> DEFINE r == Append(q, e)
  <2>1. e \in Steps /\ e.thing = x
    BY StepIs
  <2>2. q \o Planned(s, x) = r
    BY <1>1, <1>4, <2>1, AppendIsConcat
  <2>3. /\ r \in Seq(Steps) /\ Len(r) = Len(q) + 1 /\ Len(q) \in Nat
        /\ DOMAIN r = 1 .. Len(q) + 1 /\ DOMAIN q = 1 .. Len(q)
        /\ \A i \in 1 .. Len(q) : r[i] = q[i] /\ q[i] \in Steps
        /\ r[Len(q) + 1] = e
    BY <1>1, <2>1
  <2>4. ASSUME NEW i \in 1 .. Len(q) PROVE Rank[q[i].thing] < Rank[x]
    <3>1. q[i] \in Range(q) /\ q[i] \in Steps
      BY <2>3 DEF Range
    <3> QED
      BY <1>1, <1>2, <3>1
  <2>5. Sorted(r)
    <3> SUFFICES ASSUME NEW i \in 1 .. Len(q) + 1, NEW j \in 1 .. Len(q) + 1, i < j
                 PROVE  Rank[r[i].thing] < Rank[r[j].thing]
      BY <2>3 DEF Sorted
    <3>1. CASE j = Len(q) + 1
      BY <2>1, <2>3, <2>4, <3>1
    <3>2. CASE j # Len(q) + 1
      <4>1. i \in 1 .. Len(q) /\ j \in 1 .. Len(q)
        BY <2>3, <3>2
      <4> QED
        BY <1>1, <2>3, <4>1 DEF Sorted
    <3> QED
      BY <3>1, <3>2
  <2>6. Range(r) = Range(q) \union {e}
    <3>1. \A h : h \in Range(r) <=> \E i \in 1 .. Len(q) + 1 : h = r[i]
      BY <2>3 DEF Range
    <3>2. \A h : h \in Range(q) <=> \E i \in 1 .. Len(q) : h = q[i]
      BY <2>3 DEF Range
    <3>3. ASSUME NEW h \in Range(r) PROVE h \in Range(q) \union {e}
      <4>1. PICK i \in 1 .. Len(q) + 1 : h = r[i]
        BY <3>1, <3>3
      <4>2. i = Len(q) + 1 \/ i \in 1 .. Len(q)
        BY <2>3
      <4> QED
        BY <2>3, <3>2, <4>1, <4>2
    <3>4. ASSUME NEW h \in Range(q) \union {e} PROVE h \in Range(r)
      <4>1. CASE h = e
        <5>1. Len(q) + 1 \in 1 .. Len(q) + 1
          BY <2>3
        <5> QED
          BY <2>3, <3>1, <4>1, <5>1
      <4>2. CASE h \in Range(q)
        <5>1. PICK i \in 1 .. Len(q) : h = q[i]
          BY <3>2, <4>2
        <5>2. i \in 1 .. Len(q) + 1
          BY <2>3
        <5> QED
          BY <2>3, <3>1, <5>1, <5>2
      <4> QED
        BY <3>4, <4>1, <4>2
    <3> QED
      BY <3>3, <3>4
  <2>7. ASSUME NEW h \in Steps
        PROVE  h \in Range(r) <=> Rank[h.thing] <= k + 1 /\ Planned(s, h.thing) = <<h>>
    <3>1. CASE h.thing = x
      <4>1. <<e>> = <<h>> <=> e = h
        OBVIOUS
      <4> QED
        BY <1>1, <1>2, <1>4, <2>6, <3>1, <4>1
    <3>2. CASE h.thing # x
      BY <1>1, <1>2, <2>1, <2>6, <3>2
    <3> QED
      BY <3>1, <3>2
  <2> QED
    BY <2>2, <2>3, <2>5, <2>7 DEF Lists
<1> QED
  BY <1>3, <1>4, PlannedOne

(* computeSteps plans each thing in its turn. *)
LEMMA PlanLists ==
  ASSUME NEW s \in Tenants
  PROVE  LET q == computeSteps(s) IN
         /\ q \in Seq(Steps) /\ Sorted(q)
         /\ \A h \in Steps : h \in Range(q) <=> Planned(s, h.thing) = <<h>>
<1> DEFINE P(x) == Planned(s, x)
<1> DEFINE q1 == P("parent")           q2 == q1 \o P("child")       q3 == q2 \o P("scope")
           q4 == q3 \o P("permission") q5 == q4 \o P("role")        q6 == q5 \o P("grant")
           q7 == q6 \o P("group")      q8 == q7 \o P("groupRole")   q9 == q8 \o P("user")
           q10 == q9 \o P("userRole")  q11 == q10 \o P("member")    q12 == q11 \o P("account")
           q13 == q12 \o P("accountRole")  q14 == q13 \o P("policy")
           q15 == q14 \o P("segment")  q16 == q15 \o P("profile")
<1>1. computeSteps(s) = q16
  BY PlannedIs DEF computeSteps, Named, Bindings
<1>2. Lists(q1, s, 1)
  <2>1. Lists(<<>>, s, 0)
    <3>1. \A h \in Steps : Rank[h.thing] \in 1 .. 16
      BY RankOrders DEF Steps
    <3> QED
      BY <3>1 DEF Lists, Sorted, Range
  <2>2. Lists(<<>> \o P("parent"), s, 1)
    <3>1. "parent" \in Things /\ Rank["parent"] = 0 + 1 /\ 0 \in 0 .. 15 /\ 0 + 1 = 1
      BY RankIs, ThingsAre
    <3>2. Lists(<<>> \o Planned(s, "parent"), s, 0 + 1)
      BY <2>1, <3>1, OneMore
    <3> QED
      BY <3>1, <3>2
  <2>3. P("parent") \in Seq(Steps)
    <3>1. Create("parent") \in Steps /\ Update("parent") \in Steps
      BY StepIs, ThingsAre
    <3>2. Planned(s, "parent") \in {<<>>, <<Create("parent")>>, <<Update("parent")>>}
      BY PlannedOne, ThingsAre
    <3>3. <<>> \in Seq(Steps) /\ \A e \in Steps : <<e>> \in Seq(Steps)
      OBVIOUS
    <3> HIDE DEF P
    <3>4. P("parent") = Planned(s, "parent")
      BY DEF P
    <3> QED
      BY <3>1, <3>2, <3>3, <3>4, Zenon
  <2>4. <<>> \o P("parent") = P("parent")
    BY <2>3, ConcatEmptySeq
  <2> QED
    BY <2>2, <2>4
<1> HIDE DEF P, q1, q2, q3, q4, q5, q6, q7, q8, q9, q10, q11, q12, q13, q14, q15, q16
<1>3. Lists(q16, s, 16)
  <2>1. ASSUME NEW k \in 0 .. 15, NEW q, Lists(q, s, k), NEW x \in Things, Rank[x] = k + 1
        PROVE  Lists(q \o P(x), s, k + 1)
    BY <2>1, OneMore DEF P
  <2>2. Lists(q2, s, 2)
    BY <1>2, <2>1, RankIs, ThingsAre DEF q2
  <2>3. Lists(q3, s, 3)
    BY <2>1, <2>2, RankIs, ThingsAre DEF q3
  <2>4. Lists(q4, s, 4)
    BY <2>1, <2>3, RankIs, ThingsAre DEF q4
  <2>5. Lists(q5, s, 5)
    BY <2>1, <2>4, RankIs, ThingsAre DEF q5
  <2>6. Lists(q6, s, 6)
    BY <2>1, <2>5, RankIs, ThingsAre DEF q6
  <2>7. Lists(q7, s, 7)
    BY <2>1, <2>6, RankIs, ThingsAre DEF q7
  <2>8. Lists(q8, s, 8)
    BY <2>1, <2>7, RankIs, ThingsAre DEF q8
  <2>9. Lists(q9, s, 9)
    BY <2>1, <2>8, RankIs, ThingsAre DEF q9
  <2>10. Lists(q10, s, 10)
    BY <2>1, <2>9, RankIs, ThingsAre DEF q10
  <2>11. Lists(q11, s, 11)
    BY <2>1, <2>10, RankIs, ThingsAre DEF q11
  <2>12. Lists(q12, s, 12)
    BY <2>1, <2>11, RankIs, ThingsAre DEF q12
  <2>13. Lists(q13, s, 13)
    BY <2>1, <2>12, RankIs, ThingsAre DEF q13
  <2>14. Lists(q14, s, 14)
    BY <2>1, <2>13, RankIs, ThingsAre DEF q14
  <2>15. Lists(q15, s, 15)
    BY <2>1, <2>14, RankIs, ThingsAre DEF q15
  <2> QED
    BY <2>1, <2>15, RankIs, ThingsAre DEF q16
<1>4. \A h \in Steps : Rank[h.thing] <= 16
  BY RankOrders DEF Steps
<1> QED
  BY <1>1, <1>3, <1>4 DEF Lists
(* A thing without a step is found, and is as stated. *)
LEMMA NoStep ==
  ASSUME NEW s \in Tenants, NEW x \in Things, Planned(s, x) = <<>>
  PROVE  /\ x \in Referred => Resolve(s)[x] = x
         /\ x \in Named => s.listed[x] = "stated"
         /\ x \in Listed \ Named => s.listed[x] # "absent"
         /\ x \in Bindings => s.bound[x] = Bound(x, s.bound[x].tenants)
         /\ x = "account" => \E i \in Ours(s.accounts) : s.accounts[i] = "stated"
         /\ x = "policy" => s.cap = Cap
         /\ x = "profile" => (s.cap = Cap => s.stored = Timeout)
<1> USE StepIs, PlannedIs, ResolveIs
<1>0. \A e : <<e>> # <<>>
  OBVIOUS
<1>1. ASSUME x \in Named PROVE Resolve(s)[x] = x /\ s.listed[x] = "stated"
  <2>1. Resolve(s)[x] = x /\ s.listed[x] # "other"
    BY <1>0, <1>1 DEF PlanNamed
  <2>2. s.listed[x] # "absent"
    BY <1>1, <2>1 DEF Findable, Present, Named
  <2> QED
    BY <1>1, <2>1, <2>2 DEF Tenants, Listed
<1>2. ASSUME x \in {"scope", "grant", "member"}
      PROVE  s.listed[x] # "absent" /\ (x = "scope" => Resolve(s)[x] = x)
  BY <1>0, <1>2, NeedsAre DEF PlanPresence
<1>3. ASSUME x \in Bindings PROVE s.bound[x] = Bound(x, s.bound[x].tenants)
  <2>1. s.bound[x] # Unbound /\ sameBinding(s, x)
    BY <1>0, <1>3 DEF planRoleBinding
  <2>2. s.bound[x] \in Held
    BY <1>3, <2>1 DEF Tenants
  <2> QED
    BY <2>1, <2>2 DEF sameBinding, Bound, Held
<1>4. ASSUME x = "account"
      PROVE  Resolve(s)[x] = x /\ \E i \in Ours(s.accounts) : s.accounts[i] = "stated"
  <2>1. Ours(s.accounts) # {} /\ \A i \in Ours(s.accounts) : s.accounts[i] # "other"
    <3>1. PlanAccount(s) = <<>>
      BY <1>4
    <3>2. Step("account", "create") # <<>> /\ Step("account", "update") # <<>>
      BY <1>0
    <3> QED
      BY <3>1, <3>2 DEF PlanAccount
  <2>2. PICK i \in Ours(s.accounts) : TRUE
    BY <2>1
  <2>3. s.accounts[i] = "stated"
    <3>1. s.accounts \in Seq({"foreign", "other", "stated"}) /\ i \in DOMAIN s.accounts
          /\ s.accounts[i] # "foreign"
      BY DEF Tenants, Ours
    <3>2. s.accounts[i] \in {"foreign", "other", "stated"}
      BY <3>1
    <3> QED
      BY <2>1, <3>1, <3>2
  <2>4. Resolve(s)[x] = x
    <3>1. Resolve(s)["account"] = IF Ours(s.accounts) # {} THEN "account" ELSE "none"
      BY ThingsAre DEF Resolve, Named
    <3> QED
      BY <1>4, <2>1, <3>1
  <2> QED
    BY <2>3, <2>4
<1>5. ASSUME x = "policy" PROVE s.cap = Cap
  BY <1>0, <1>5 DEF PlanPolicy
<1>6. ASSUME x = "profile", s.cap = Cap PROVE s.stored = Timeout
  <2>1. s.stored # 0 /\ Effective(s.stored, s.cap) = Timeout
    BY <1>0, <1>6 DEF PlanProfile
  <2> QED
    BY <1>6, <2>1 DEF Tenants, Effective, Cap, Timeout
<1>7. x \in Referred => x \in Named \/ x = "scope" \/ x = "account"
  BY ReferredAre DEF Named
<1>8. x \in Listed \ Named => x \in {"scope", "grant", "member"}
  BY DEF Listed
<1> QED
  BY <1>1, <1>2, <1>3, <1>4, <1>5, <1>6, <1>7, <1>8

(* What is created was not found, and what is updated was. *)
LEMMA CreateStep ==
  ASSUME NEW s \in Tenants, Sound(s), NEW x \in Things, Planned(s, x) = <<Create(x)>>
  PROVE  /\ x \in Named => s.listed[x] = "absent"
         /\ x \in Bindings => s.bound[x] = Unbound
         /\ x = "account" => Ours(s.accounts) = {}
<1> USE StepIs, PlannedIs, ResolveIs
<1>1. Create(x) # Update(x)
  BY StepIs
<1>2. <<Create(x)>> # <<Update(x)>> /\ <<Create(x)>> # <<>>
  BY <1>1
<1>3. ASSUME x \in Named PROVE s.listed[x] = "absent"
  <2>1. Resolve(s)[x] = "none"
    BY <1>2, <1>3 DEF PlanNamed
  <2>2. x # "none" /\ x # "account"
    BY <1>3 DEF Named
  <2> QED
    BY <1>3, <2>1, <2>2 DEF Findable, Present
<1>4. ASSUME x \in Bindings PROVE s.bound[x] = Unbound
  <2>1. Resolve(s)["role"] = "none" \/ Resolve(s)[SubjectOf[x]] = "none" \/ s.bound[x] = Unbound
    BY <1>2, <1>4 DEF planRoleBinding
  <2>2. "role" \in Findable /\ SubjectOf[x] \in Findable /\ SubjectOf[x] # "none"
    BY <1>4 DEF Bindings, SubjectOf, Findable, Named
  <2> QED
    BY <1>4, <2>1, <2>2 DEF Sound
<1>5. ASSUME x = "account" PROVE Ours(s.accounts) = {}
  BY <1>2, <1>5 DEF PlanAccount
<1> QED
  BY <1>3, <1>4, <1>5

LEMMA UpdateStep ==
  ASSUME NEW s \in Tenants, NEW x \in Findable, Planned(s, x) = <<Update(x)>>
  PROVE  Resolve(s)[x] = x
<1> USE StepIs, PlannedIs, ResolveIs
<1>0. Findable \subseteq Things
  BY ThingsAre DEF Findable, Named
<1>1. Create(x) # Update(x)
  BY StepIs
<1>2. <<Create(x)>> # <<Update(x)>> /\ <<Update(x)>> # <<>>
  BY <1>1
<1>3. ASSUME x \in Named PROVE Resolve(s)[x] = x
  BY <1>0, <1>2, <1>3 DEF PlanNamed
<1>4. ASSUME x = "account" PROVE Resolve(s)[x] = x
  <2>1. Ours(s.accounts) # {}
    BY <1>2, <1>4 DEF PlanAccount
  <2>2. Resolve(s)["account"] = IF Ours(s.accounts) # {} THEN "account" ELSE "none"
    BY ThingsAre DEF Resolve, Named
  <2> QED
    BY <1>4, <2>1, <2>2
<1> QED
  BY <1>3, <1>4 DEF Findable-----------------------------------------------------------------------------
(* A binding as it is wanted, of one subject. *)
LEMMA BoundIs ==
  ASSUME NEW b \in Bindings, NEW where \in {Everywhere, Confined}
  PROVE  Bound(b, where) \in Held /\ Bound(b, where) # Unbound /\ Bound(b, where).tenants = where
<1>1. /\ Wanted["groupRole"] = [at |-> "tenant", inherits |-> TRUE]
      /\ Wanted["userRole"] = [at |-> "child", inherits |-> FALSE]
      /\ Wanted["accountRole"] = [at |-> "child", inherits |-> TRUE]
  BY DEF Wanted
<1>2. Wanted[b] \in [at : {"parent", "child", "tenant"}, inherits : BOOLEAN]
  <2> DEFINE S == [at : {"parent", "child", "tenant"}, inherits : BOOLEAN]
  <2>1. /\ [at |-> "tenant", inherits |-> TRUE] \in S
        /\ [at |-> "child", inherits |-> FALSE] \in S
        /\ [at |-> "child", inherits |-> TRUE] \in S
    OBVIOUS
  <2> HIDE DEF S
  <2>2. Wanted[b] \in S
    BY <1>1, <2>1 DEF Bindings
  <2> QED
    BY <2>2 DEF S
<1>3. Bound(b, where).at \in {"parent", "child", "tenant"} /\ Bound(b, where).tenants = where
  BY <1>2 DEF Bound
<1>4. Bound(b, where) \in Held
  BY <1>2 DEF Bound, Held
<1> QED
  BY <1>3, <1>4 DEF Unbound

(* The tenants an Apply may find are sound. *)
LEMMA FoundIs ==
  ASSUME NEW D
  PROVE  Found(D) \in Tenants /\ Sound(Found(D)) /\ Found(D).stray # "touched"
<1> DEFINE t == Found(D)  G == Gone(D)
<1> HIDE DEF G
<1>1. "parent" \in G => "child" \in G
  <2>1. \A X : "parent" \in WithDependents(X) <=> "parent" \in X
    BY NeedsAre DEF WithDependents
  <2>2. \A X : "parent" \in X => "child" \in WithDependents(X)
    BY NeedsAre, ThingsAre DEF WithDependents
  <2>3. \A X : X \subseteq WithDependents(X)
    BY DEF WithDependents
  <2> QED
    BY <2>1, <2>2, <2>3 DEF G, Gone
<1>2. /\ t.listed = [x \in Listed |-> IF x \in G THEN "absent"
                                   ELSE IF <<"other", x>> \in D THEN "other" ELSE "stated"]
      /\ t.stray \in {"there", "absent"}
      /\ t.cap \in 1 .. Cap /\ t.stored \in 0 .. 2 /\ t.segment = 0
  BY DEF Found, Cap, Timeout, G
<1>3. /\ t.accounts \in Seq({"foreign", "other", "stated"})
      /\ "account" \notin G => Ours(t.accounts) # {}
  <2>5. \A e \in {"other", "stated"} : 2 \in Ours(<<"foreign", e>>)
    BY DEF Ours
  <2>6. \/ "account" \in G /\ t.accounts = <<"foreign">>
        \/ \E e \in {"other", "stated"} : t.accounts = <<"foreign", e>>
    BY DEF Found, G
  <2>7. t.accounts \in Seq({"foreign", "other", "stated"})
    <3>1. <<"foreign">> \in Seq({"foreign", "other", "stated"})
      OBVIOUS
    <3>2. \A e \in {"other", "stated"} : <<"foreign", e>> \in Seq({"foreign", "other", "stated"})
      OBVIOUS
    <3> QED
      BY <2>6, <3>1, <3>2
  <2>8. "account" \notin G => Ours(t.accounts) # {}
    BY <2>5, <2>6
  <2> QED
    BY <2>7, <2>8
<1>4. \A b \in Bindings :
        /\ t.bound[b] \in Held \union {Unbound}
        /\ t.bound[b] # Unbound => "role" \notin G /\ SubjectOf[b] \notin G
  <2> SUFFICES ASSUME NEW b \in Bindings
               PROVE  /\ t.bound[b] \in Held \union {Unbound}
                      /\ t.bound[b] # Unbound => "role" \notin G /\ SubjectOf[b] \notin G
    OBVIOUS
  <2>1. t.bound[b] = IF {"role", SubjectOf[b]} \intersect G # {} THEN Unbound
                     ELSE IF <<"elsewhere", b>> \in D /\ "parent" \notin G
                     THEN [at |-> "parent", inherits |-> TRUE, tenants |-> Confined]
                     ELSE IF b \in G THEN Unbound
                     ELSE IF <<"inherit", b>> \in D
                     THEN [Bound(b, Confined) EXCEPT !.inherits = ~@]
                     ELSE Bound(b, Confined)
    BY DEF Found, G
  <2>2. Bound(b, Confined) \in Held /\ [Bound(b, Confined) EXCEPT !.inherits = ~@] \in Held
    BY BoundIs DEF Held
  <2>3. [at |-> "parent", inherits |-> TRUE, tenants |-> Confined] \in Held
    BY DEF Held
  <2> QED
    BY <2>1, <2>2, <2>3
<1>5. t \in Tenants
  <2>1. t.bound \in [Bindings -> Held \union {Unbound}]
    <3>1. t.bound = [b \in Bindings |-> t.bound[b]]
      BY DEF Found
    <3> QED
      BY <1>4, <3>1
  <2>2. t.listed \in [Listed -> {"absent", "other", "stated"}]
    BY <1>2
  <2>3. t = [listed |-> t.listed, stray |-> t.stray, bound |-> t.bound, accounts |-> t.accounts,
             cap |-> t.cap, stored |-> t.stored, segment |-> t.segment]
    BY DEF Found
  <2>4. [listed |-> t.listed, stray |-> t.stray, bound |-> t.bound, accounts |-> t.accounts,
         cap |-> t.cap, stored |-> t.stored, segment |-> t.segment] \in Tenants
    <3> HIDE DEF t
    <3> QED
      BY <1>2, <1>3, <2>1, <2>2 DEF Tenants
  <2> QED
    BY <2>3, <2>4
<1>6. Sound(t)
  <2>1. \A x \in Listed : x \notin G => t.listed[x] # "absent"
    BY <1>2
  <2>2. t.listed["child"] # "absent" => t.listed["parent"] # "absent"
    BY <1>1, <1>2 DEF Listed, Named
  <2>3. ASSUME NEW b \in Bindings, t.bound[b] # Unbound
        PROVE  Present(t, "role") /\ Present(t, SubjectOf[b])
    <3>1. "role" \notin G /\ SubjectOf[b] \notin G
      BY <1>4, <2>3
    <3>2. SubjectOf[b] \in {"group", "user", "account"}
      BY DEF Bindings, SubjectOf
    <3> QED
      BY <1>3, <2>1, <3>1, <3>2 DEF Present, Listed, Named
  <2> QED
    BY <2>2, <2>3 DEF Sound
<1> QED
  BY <1>2, <1>5, <1>6

LEMMA InitB == ASSUME Init PROVE BInv
<1>1. PICK D : server = Found(D)
  BY DEF Init
<1>2. server \in Tenants /\ Sound(server) /\ server.stray # "touched"
  BY <1>1, FoundIs
<1>3. resolved = [x \in Things |-> "none"]
  BY DEF Init, Nothing
<1>4. Pending = {} /\ Range(todo) = {} /\ todo = <<>> /\ todo \in Seq(Steps)
  BY DEF Init, Pending, Range
<1>5. Typed
  <2>1. faults \in 0 .. MaxFaults /\ meddling \in 0 .. MaxMeddling
    BY ReconcileConstants DEF Init
  <2>2. resolved \in [Things -> Things \union {"none"}]
    BY <1>3
  <2> QED
    BY <1>2, <1>4, <2>1, <2>2 DEF Init, Typed
<1>6. InStep /\ SeenIsThere /\ VersionsGrow
  BY DEF Init, InStep, SeenIsThere, Reading, VersionsGrow
<1>7. Wired
  <2>1. Sorted(todo)
    BY <1>4 DEF Sorted
  <2>2. \A x \in Findable : x # "none" /\ x \in Things
    BY ThingsAre DEF Findable, Named
  <2> QED
    BY <1>3, <1>4, <2>1, <2>2 DEF Wired, Init
<1>8. BindingsHold
  BY DEF Init, BindingsHold
<1> QED
  BY <1>2, <1>5, <1>6, <1>7, <1>8 DEF BInv, StrayUntouched-----------------------------------------------------------------------------
(* The step at the head: what it refers to is known, and nothing of it is left
   once it is done. *)
LEMMA AtHead ==
  ASSUME BInv, phase = "running", todo # <<>>
  PROVE  /\ Head(todo) \in Range(todo) /\ Head(todo) \in Steps /\ Head(todo).thing \in Things
         /\ Tail(todo) \in Seq(Steps) /\ Sorted(Tail(todo))
         /\ Range(Tail(todo)) = Range(todo) \ {Head(todo)}
         /\ {g.thing : g \in Range(Tail(todo))} = Pending \ {Head(todo).thing}
         /\ Head(todo).thing \in Pending
         /\ Known(Head(todo).thing)
         /\ \A n \in Needs[Head(todo).thing] \intersect Findable : Present(server, n)
<1> DEFINE h == Head(todo)
<1>1. todo \in Seq(Steps) /\ Sorted(todo)
      /\ (\A n \in Referred \ Pending : resolved[n] = n)
      /\ (\A x \in Findable : resolved[x] = x => Present(server, x))
  BY DEF BInv, Typed, Wired
<1>2. /\ h \in Range(todo) /\ h \in Steps
      /\ Tail(todo) \in Seq(Steps) /\ Sorted(Tail(todo))
      /\ Range(Tail(todo)) = Range(todo) \ {h}
      /\ \A g \in Range(todo) : g \in Steps /\ (g # h => Rank[h.thing] < Rank[g.thing])
  BY <1>1, TailLeaves
<1>3. h.thing \in Things
  BY <1>2 DEF Steps
<1>4. \A g \in Range(todo) : /\ g.thing \in Things
                             /\ Rank[h.thing] <= Rank[g.thing]
                             /\ g # h => g.thing # h.thing
  <2> SUFFICES ASSUME NEW g \in Range(todo)
               PROVE  /\ g.thing \in Things
                      /\ Rank[h.thing] <= Rank[g.thing]
                      /\ g # h => g.thing # h.thing
    OBVIOUS
  <2>1. g \in Steps /\ (g # h => Rank[h.thing] < Rank[g.thing])
    BY <1>2
  <2>2. g.thing \in Things
    BY <2>1 DEF Steps
  <2>3. Rank[h.thing] \in 1 .. 16 /\ Rank[g.thing] \in 1 .. 16
    BY <1>3, <2>2, RankOrders
  <2> HIDE DEF h
  <2>4. CASE g = h
    BY <2>2, <2>3, <2>4
  <2>5. CASE g # h
    <3>1. Rank[h.thing] < Rank[g.thing]
      BY <2>1, <2>5
    <3>2. Rank[h.thing] <= Rank[g.thing] /\ g.thing # h.thing
      BY <2>3, <3>1
    <3> QED
      BY <2>2, <3>2
  <2> QED
    BY <2>4, <2>5
<1>5. {g.thing : g \in Range(Tail(todo))} = Pending \ {h.thing}
  BY <1>2, <1>4 DEF Pending
<1>6. ASSUME NEW n \in Needs[h.thing] PROVE n \in Referred \ Pending
  <2>1. n \in Things /\ Rank[n] < Rank[h.thing]
    BY <1>3, NeedsFirst
  <2>2. n \notin Pending
    BY <1>3, <1>4, <2>1, RankOrders DEF Pending
  <2> QED
    BY <1>3, <2>2 DEF Referred
<1>7. Known(h.thing)
  BY <1>1, <1>6 DEF Known
<1>8. \A n \in Needs[h.thing] \intersect Findable : Present(server, n)
  BY <1>1, <1>7 DEF Known
<1>9. h.thing \in Pending
  BY <1>2 DEF Pending
<1> QED
  BY <1>2, <1>3, <1>5, <1>7, <1>8, <1>9

(* Renaming service accounts on the server: those the manifest means, before and after. *)
Restated(list) == [i \in DOMAIN list |-> IF list[i] = "other" THEN "stated" ELSE list[i]]
Lists3 == Seq({"foreign", "other", "stated"})

LEMMA ListsOfAccounts ==
  ASSUME NEW list \in Lists3
  PROVE  /\ Restated(list) \in Lists3 /\ Len(Restated(list)) = Len(list)
         /\ Ours(Restated(list)) = Ours(list)
         /\ \A i \in Ours(list) : Restated(list)[i] = "stated"
         /\ Append(list, "stated") \in Lists3
         /\ Ours(Append(list, "stated")) = Ours(list) \union {Len(list) + 1}
         /\ Append(list, "stated")[Len(list) + 1] = "stated"
         /\ \A i \in DOMAIN list : list[i] \in {"foreign", "other", "stated"}
         /\ Ours(list) \subseteq DOMAIN list /\ Len(list) \in Nat /\ DOMAIN list = 1 .. Len(list)
<1>1. Len(list) \in Nat /\ DOMAIN list = 1 .. Len(list)
      /\ \A i \in 1 .. Len(list) : list[i] \in {"foreign", "other", "stated"}
  BY DEF Lists3
<1>2. Restated(list) \in [1 .. Len(list) -> {"foreign", "other", "stated"}]
  BY <1>1 DEF Restated
<1>3. Restated(list) \in Lists3 /\ Len(Restated(list)) = Len(list)
      /\ DOMAIN Restated(list) = 1 .. Len(list)
  BY <1>1, <1>2, SeqDef, LenProperties DEF Lists3
<1>4. \A i \in 1 .. Len(list) : Restated(list)[i] = IF list[i] = "other" THEN "stated" ELSE list[i]
  BY <1>1 DEF Restated
<1>5. Ours(Restated(list)) = Ours(list) /\ \A i \in Ours(list) : Restated(list)[i] = "stated"
  BY <1>1, <1>3, <1>4 DEF Ours
<1>6. /\ Append(list, "stated") \in Lists3
      /\ DOMAIN Append(list, "stated") = 1 .. Len(list) + 1
      /\ \A i \in 1 .. Len(list) : Append(list, "stated")[i] = list[i]
      /\ Append(list, "stated")[Len(list) + 1] = "stated"
  BY AppendProperties DEF Lists3
<1>7. Ours(Append(list, "stated")) = Ours(list) \union {Len(list) + 1}
  BY <1>1, <1>6 DEF Ours
<1>8. Ours(list) \subseteq DOMAIN list
  BY DEF Ours
<1> QED
  BY <1>1, <1>3, <1>5, <1>6, <1>7, <1>8

(* What a request does to the tenant. *)
LEMMA AfterIs ==
  ASSUME NEW h \in Steps, h.thing \notin Bindings, server \in Tenants,
         h.thing = "child" => resolved["child"] # "stray" /\ resolved["parent"] # "none"
  PROVE  LET t == After(h) IN
         /\ t \in Tenants
         /\ t.bound = server.bound /\ t.stray = server.stray
         /\ \A x \in Listed : t.listed[x] = IF x = h.thing THEN "stated" ELSE server.listed[x]
         /\ t.accounts = IF h.thing # "account" THEN server.accounts
                         ELSE IF h.change = "create" THEN Append(server.accounts, "stated")
                         ELSE Restated(server.accounts)
         /\ t.segment = IF h.thing = "segment" THEN server.segment + 1 ELSE server.segment
         /\ t.cap = IF h.thing = "policy" THEN Cap ELSE server.cap
         /\ t.stored = IF h.thing = "profile" THEN Timeout ELSE server.stored
<1> DEFINE t == After(h)
<1>1. server = [listed |-> server.listed, stray |-> server.stray, bound |-> server.bound,
                accounts |-> server.accounts, cap |-> server.cap, stored |-> server.stored,
                segment |-> server.segment]
      /\ server.listed \in [Listed -> {"absent", "other", "stated"}]
      /\ server.stray \in {"absent", "there", "touched"}
      /\ server.bound \in [Bindings -> Held \union {Unbound}]
      /\ server.accounts \in Lists3
      /\ server.cap \in 1 .. Cap /\ server.stored \in 0 .. 2 /\ server.segment \in Nat
  BY DEF Tenants, Lists3
<1>2. h.thing \in Listed \union {"account", "policy", "profile"}
      /\ Listed \intersect {"account", "policy", "profile"} = {}
      /\ "segment" \in Listed /\ h.change \in {"create", "update"}
  BY ThingsAre DEF Steps, Listed, Named, Bindings
<1>3. CASE h.thing = "segment"
  <2>1. t = [server EXCEPT !.listed["segment"] = "stated", !.segment = @ + 1]
    BY <1>3 DEF After
  <2> DEFINE l == [server.listed EXCEPT !["segment"] = "stated"]
  <2>2. l \in [Listed -> {"absent", "other", "stated"}]
        /\ \A x \in Listed : l[x] = IF x = "segment" THEN "stated" ELSE server.listed[x]
    BY <1>1, <1>2
  <2>3. t = [listed |-> l, stray |-> server.stray, bound |-> server.bound,
             accounts |-> server.accounts, cap |-> server.cap, stored |-> server.stored,
             segment |-> server.segment + 1]
    <3>1. t = [server EXCEPT !.listed = l, !.segment = server.segment + 1]
      BY <1>1, <2>1
    <3> HIDE DEF l, t
    <3> QED
      BY <1>1, <3>1
  <2> HIDE DEF l, t
  <2>4. /\ t.listed = l /\ t.stray = server.stray /\ t.bound = server.bound
        /\ t.accounts = server.accounts /\ t.cap = server.cap /\ t.stored = server.stored
        /\ t.segment = server.segment + 1 /\ t \in Tenants
    BY <1>1, <2>2, <2>3 DEF Tenants, Lists3
  <2> QED
    BY <1>3, <2>2, <2>4 DEF t
<1>4. CASE h.thing = "policy"
  <2>1. t = [server EXCEPT !.cap = Cap]
    BY <1>4 DEF After
  <2>2. Cap \in 1 .. Cap
    BY DEF Cap
  <2> QED
    BY <1>1, <1>2, <1>4, <2>1, <2>2 DEF Tenants, Lists3
<1>5. CASE h.thing = "profile"
  <2>1. t = [server EXCEPT !.stored = Timeout]
    BY <1>5 DEF After
  <2>2. Timeout \in 0 .. 2
    BY DEF Timeout
  <2> QED
    BY <1>1, <1>2, <1>5, <2>1, <2>2 DEF Tenants, Lists3
<1>6. CASE h.thing = "account" /\ h.change = "create"
  <2>1. t = [server EXCEPT !.accounts = Append(server.accounts, "stated")]
    BY <1>6 DEF After
  <2>2. Append(server.accounts, "stated") \in Lists3
    BY <1>1, ListsOfAccounts
  <2> QED
    BY <1>1, <1>2, <1>6, <2>1, <2>2 DEF Tenants, Lists3
<1>7. CASE h.thing = "account" /\ h.change = "update"
  <2>1. t = [server EXCEPT !.accounts = Restated(server.accounts)]
    BY <1>7 DEF After, Restated
  <2>2. Restated(server.accounts) \in Lists3
    BY <1>1, ListsOfAccounts
  <2> QED
    BY <1>1, <1>2, <1>7, <2>1, <2>2 DEF Tenants, Lists3
<1>8. CASE h.thing \in Listed \ {"segment"}
  <2>1. t = [server EXCEPT !.listed[h.thing] = "stated"]
    BY <1>2, <1>8 DEF After
  <2> QED
    BY <1>1, <1>2, <1>8, <2>1 DEF Tenants, Lists3
<1> QED
  BY <1>2, <1>3, <1>4, <1>5, <1>6, <1>7, <1>8-----------------------------------------------------------------------------
(* What no request of an Apply takes from the tenant. *)
Served ==
    /\ server' \in Tenants /\ Sound(server')
    /\ server'.stray = server.stray
    /\ \A x \in Findable : Present(server, x) => Present(server', x)
    /\ server.segment <= server'.segment
    /\ theirs => server'.listed["segment"] = "other"

Untouched == UNCHANGED <<snap, resolved, version, meddling, disturbed, theirs, first>>

LEMMA SameServes ==
  ASSUME BInv, server' = server
  PROVE  Served
<1>1. server \in Tenants /\ server.segment \in Nat
  BY DEF BInv, Typed, Tenants
<1> QED
  BY <1>1 DEF BInv, VersionsGrow, Served

(* A request that is not about a binding. *)
LEMMA RunServes ==
  ASSUME BInv, phase = "running", todo # <<>>, Head(todo).thing \notin Bindings,
         Takes(Head(todo)), server' = After(Head(todo))
  PROVE  /\ Served
         /\ server'.bound = server.bound
         /\ Head(todo).thing \in Named => Present(server', Head(todo).thing)
         /\ Head(todo) = Create("account") => Present(server', "account")
<1> DEFINE h == Head(todo)
<1>1. /\ h \in Steps /\ h \in Range(todo) /\ Known(h.thing)
      /\ \A n \in Needs[h.thing] \intersect Findable : Present(server, n)
  BY AtHead
<1>2. h.thing = "child" => resolved["child"] # "stray" /\ resolved["parent"] # "none"
                           /\ Present(server, "parent")
  <2>1. \A x \in Things : resolved[x] \in {x, "none"}
    BY DEF BInv, Wired
  <2> QED
    BY <1>1, <2>1, NeedsAre, ThingsAre DEF Known, Findable, Named
<1>3. server \in Tenants /\ server.accounts \in Lists3 /\ server.segment \in Nat
  BY DEF BInv, Typed, Tenants, Lists3
<1> DEFINE t == After(h)
<1>4. /\ t \in Tenants
      /\ t.bound = server.bound /\ t.stray = server.stray
      /\ \A x \in Listed : t.listed[x] = IF x = h.thing THEN "stated" ELSE server.listed[x]
      /\ t.accounts = IF h.thing # "account" THEN server.accounts
                      ELSE IF h.change = "create" THEN Append(server.accounts, "stated")
                      ELSE Restated(server.accounts)
      /\ t.segment = IF h.thing = "segment" THEN server.segment + 1 ELSE server.segment
  BY <1>1, <1>2, <1>3, AfterIs
<1> HIDE DEF t
<1>5. server' = t
  BY DEF t
<1>6. Ours(server.accounts) \subseteq Ours(t.accounts)
      /\ (h = Create("account") => Ours(t.accounts) # {})
  BY <1>3, <1>4, ListsOfAccounts DEF Create
<1>7. \A x \in Findable : Present(server, x) => Present(t, x)
  BY <1>4, <1>6 DEF Present, Findable, Listed
<1>8. Sound(t)
  <2>1. t.listed["child"] # "absent" => t.listed["parent"] # "absent"
    <3>1. server.listed["child"] # "absent" => server.listed["parent"] # "absent"
      BY DEF BInv, Sound
    <3> QED
      BY <1>2, <1>4, <3>1 DEF Listed, Named, Present
  <2>2. ASSUME NEW b \in Bindings, t.bound[b] # Unbound
        PROVE  Present(t, "role") /\ Present(t, SubjectOf[b])
    <3>1. Present(server, "role") /\ Present(server, SubjectOf[b])
      BY <1>4, <2>2 DEF BInv, Sound
    <3>2. "role" \in Findable /\ SubjectOf[b] \in Findable
      BY DEF Bindings, SubjectOf, Findable, Named
    <3> QED
      BY <1>7, <3>1, <3>2
  <2> QED
    BY <2>1, <2>2 DEF Sound
<1>9. theirs => t.listed["segment"] = "other"
  <2>1. theirs => server.listed["segment"] = "other" /\ snap.segment < server.segment
    BY DEF BInv, VersionsGrow
  <2>2. theirs => h.thing # "segment"
    <3>1. CASE h = Create("segment")
      BY <2>1, <3>1 DEF Takes, Create, Named
    <3>2. CASE h = Update("segment")
      <4>1. snap.segment = server.segment
        BY <3>2 DEF Takes, Update, SegmentSent
      <4> QED
        BY <1>3, <2>1, <4>1
    <3> QED
      BY <1>1, <3>1, <3>2, StepIs
  <2> QED
    BY <1>4, <2>1, <2>2 DEF Listed, Named
<1>10. h.thing \in Named => Present(t, h.thing)
  BY <1>4 DEF Present, Listed, Named
<1>11. h = Create("account") => Present(t, "account")
  BY <1>6 DEF Present
<1> QED
  BY <1>3, <1>4, <1>5, <1>7, <1>8, <1>9, <1>10, <1>11 DEF Served

(* A request about a binding. *)
LEMMA BindingServes ==
  ASSUME BInv, NEW b \in Bindings, NEW v \in Held \union {Unbound},
         v # Unbound => Present(server, "role") /\ Present(server, SubjectOf[b]),
         server' = [server EXCEPT !.bound[b] = v]
  PROVE  /\ Served
         /\ server'.bound[b] = v
         /\ \A c \in Bindings \ {b} : server'.bound[c] = server.bound[c]
<1>1. server \in Tenants /\ server.bound \in [Bindings -> Held \union {Unbound}]
      /\ server.segment \in Nat
  BY DEF BInv, Typed, Tenants
<1> DEFINE f == [server.bound EXCEPT ![b] = v]
<1>2. server' = [server EXCEPT !.bound = f]
  BY <1>1 DEF Tenants
<1>3. f \in [Bindings -> Held \union {Unbound}]
      /\ f[b] = v /\ \A c \in Bindings \ {b} : f[c] = server.bound[c]
  BY <1>1
<1> HIDE DEF f
<1>4. /\ server' \in Tenants /\ server'.bound = f
      /\ server'.listed = server.listed /\ server'.stray = server.stray
      /\ server'.accounts = server.accounts /\ server'.segment = server.segment
  BY <1>1, <1>2, <1>3 DEF Tenants
<1>5. \A x \in Findable : Present(server', x) <=> Present(server, x)
  BY <1>4 DEF Present
<1>6. Sound(server')
  <2>1. ASSUME NEW c \in Bindings, server'.bound[c] # Unbound
        PROVE  Present(server', "role") /\ Present(server', SubjectOf[c])
    <3>1. Present(server, "role") /\ Present(server, SubjectOf[c])
      BY <1>3, <1>4, <2>1 DEF BInv, Sound
    <3>2. "role" \in Findable /\ SubjectOf[c] \in Findable
      BY DEF Bindings, SubjectOf, Findable, Named
    <3> QED
      BY <1>5, <3>1, <3>2
  <2> QED
    BY <1>4, <2>1 DEF BInv, Sound
<1> QED
  BY <1>1, <1>3, <1>4, <1>5, <1>6 DEF Served, BInv, VersionsGrow

(* An Apply that stops. *)
LEMMA Stopped ==
  ASSUME BInv, phase = "running", Served, Untouched, BindingsHold',
         NEW how \in {"none", "complete", "failed", "restored", "restoreFailed"}, Stop(how),
         faults' \in 0 .. MaxFaults, mishap' \in {"none", "refused", "unsure"}
  PROVE  BInv'
<1>1. todo' = <<>> /\ todo' \in Seq(Steps) /\ Range(todo') = {} /\ Sorted(todo')
  BY DEF Stop, Range, Sorted
<1>2. Typed'
  BY <1>1 DEF BInv, Typed, Served, Untouched, Stop
<1>3. InStep' /\ SeenIsThere'
  BY <1>1 DEF InStep, SeenIsThere, Reading, Stop
<1>4. Wired'
  BY <1>1 DEF BInv, Wired, Served, Untouched, Stop
<1>5. VersionsGrow'
  <2>1. snap.segment \in Nat /\ server.segment \in Nat /\ server'.segment \in Nat
    BY DEF BInv, Typed, Tenants, Served
  <2> QED
    BY <2>1 DEF BInv, VersionsGrow, Served, Untouched, Stop
<1>6. Sound(server)' /\ StrayUntouched'
  BY DEF Served, BInv, StrayUntouched
<1> QED
  BY <1>2, <1>3, <1>4, <1>5, <1>6 DEF BInv
(* An Apply whose step at the head is done. *)
LEMMA Advanced ==
  ASSUME BInv, phase = "running", todo # <<>>, stage # "restore", Served, Advance, NoMishap,
         UNCHANGED <<snap, meddling>>, version' \in Nat, BindingsHold',
         resolved' \in [Things -> Things \union {"none"}],
         \A x \in Things : resolved'[x] \in {x, "none"} /\ (resolved[x] = x => resolved'[x] = x),
         Head(todo).thing \in Referred => resolved'[Head(todo).thing] = Head(todo).thing,
         \A x \in Findable : resolved'[x] = x => Present(server', x)
  PROVE  BInv'
<1>1. /\ Tail(todo) \in Seq(Steps) /\ Sorted(Tail(todo))
      /\ Range(Tail(todo)) = Range(todo) \ {Head(todo)}
      /\ {g.thing : g \in Range(Tail(todo))} = Pending \ {Head(todo).thing}
      /\ Head(todo) \in Steps
  BY AtHead
<1>2. Typed'
  BY <1>1 DEF BInv, Typed, Served, Advance, NoMishap, history
<1>3. InStep'
  BY DEF BInv, InStep, Advance, NoMishap, history
<1>4. SeenIsThere'
  BY DEF SeenIsThere, Reading, Advance
<1>5. Wired'
  <2>1. Sorted(todo')
    BY <1>1 DEF Advance
  <2>2. \A x \in Findable : Update(x) \in Range(todo') => resolved'[x] = x
    <3>1. Findable \subseteq Things
      BY ThingsAre DEF Findable, Named
    <3> QED
      BY <1>1, <3>1 DEF Advance, BInv, Wired
  <2>3. \A n \in Referred \ Pending' : resolved'[n] = n
    <3>1. Pending' = Pending \ {Head(todo).thing}
      BY <1>1 DEF Advance, Pending
    <3>2. Referred \subseteq Things
      BY ReferredAre, ThingsAre
    <3> QED
      BY <3>1, <3>2 DEF BInv, Wired
  <2> QED
    BY <2>1, <2>2, <2>3 DEF Wired
<1>6. VersionsGrow'
  <2>1. snap.segment \in Nat /\ server.segment \in Nat /\ server'.segment \in Nat
    BY DEF BInv, Typed, Tenants, Served
  <2> QED
    BY <2>1 DEF BInv, VersionsGrow, Served, Advance, NoMishap, history
<1>7. Sound(server)' /\ StrayUntouched'
  BY DEF Served, BInv, StrayUntouched
<1> QED
  BY <1>2, <1>3, <1>4, <1>5, <1>6, <1>7 DEF BInv

(* An Apply that goes on with a rebind: the binding is taken away, or was not bound again. *)
LEMMA Rebinding ==
  ASSUME BInv, phase = "running", todo # <<>>, Served,
         Head(todo).thing \in Bindings, Head(todo).change = "update",
         UNCHANGED <<snap, resolved, version, phase, todo, report, meddling, disturbed, theirs, first>>,
         \/ stage' = "assign" /\ mishap' = "none"
         \/ stage' = "restore" /\ mishap' \in {"none", "refused", "unsure"},
         faults' \in 0 .. MaxFaults, BindingsHold'
  PROVE  BInv'
<1>1. Typed'
  BY DEF BInv, Typed, Served
<1>2. InStep'
  BY DEF BInv, InStep
<1>3. SeenIsThere'
  BY DEF SeenIsThere, Reading
<1>4. Wired'
  <2>1. Pending' = Pending
    BY DEF Pending
  <2> QED
    BY <2>1 DEF BInv, Wired, Served
<1>5. VersionsGrow'
  <2>1. snap.segment \in Nat /\ server.segment \in Nat /\ server'.segment \in Nat
    BY DEF BInv, Typed, Tenants, Served
  <2> QED
    BY <2>1 DEF BInv, VersionsGrow, Served
<1>6. Sound(server)' /\ StrayUntouched'
  BY DEF Served, BInv, StrayUntouched
<1> QED
  BY <1>1, <1>2, <1>3, <1>4, <1>5, <1>6 DEF BInv

(* A mishap costs a fault. *)
LEMMA MishapIs ==
  ASSUME BInv, NEW kind, Mishap(kind)
  PROVE  faults' \in 0 .. MaxFaults /\ mishap' = kind /\ UNCHANGED <<disturbed, theirs, first>>
<1>1. MaxFaults \in Nat /\ faults \in 0 .. MaxFaults
  BY ReconcileConstants DEF BInv, Typed
<1> QED
  BY <1>1 DEF Mishap

LEMMA NoMishapIs ==
  ASSUME BInv, NoMishap
  PROVE  faults' \in 0 .. MaxFaults /\ mishap' = mishap /\ UNCHANGED <<disturbed, theirs, first>>
         /\ mishap \in {"none", "refused", "unsure"}
  BY DEF BInv, Typed, NoMishap, history
-----------------------------------------------------------------------------
(* The actions, one by one. *)
LEMMA RunB ==
  ASSUME BInv, NEW h, Run(h)
  PROVE  BInv'
<1>1. phase = "running" /\ todo # <<>> /\ h = Head(todo) /\ h.thing \notin Bindings
      /\ UNCHANGED <<snap, meddling>>
  BY DEF Run
<1>2. stage = "first" /\ mishap = "none" /\ report = "none"
  BY <1>1 DEF BInv, InStep
<1>3. /\ h \in Steps /\ h \in Range(todo) /\ h.thing \in Things
  BY <1>1, AtHead
<1>4. Takes(h) /\ server' = After(h) =>
        /\ Served /\ server'.bound = server.bound
        /\ h.thing \in Named => Present(server', h.thing)
        /\ h = Create("account") => Present(server', "account")
  BY <1>1, RunServes
<1>5. server' = server => Served /\ server'.bound = server.bound
  BY SameServes
<1>6. CASE /\ Takes(h) /\ server' = After(h)
           /\ resolved' = IF resolved[h.thing] = "none"
                          THEN [resolved EXCEPT ![h.thing] = h.thing] ELSE resolved
           /\ version' = VersionAfter(h)
           /\ Advance /\ NoMishap
  <2>1. /\ resolved \in [Things -> Things \union {"none"}]
        /\ \A x \in Things : resolved[x] \in {x, "none"}
        /\ version \in Nat /\ server.segment \in Nat
    BY DEF BInv, Typed, Wired, Tenants
  <2>2. /\ resolved' \in [Things -> Things \union {"none"}]
        /\ \A x \in Things : resolved'[x] \in {x, "none"} /\ (resolved[x] = x => resolved'[x] = x)
        /\ resolved'[h.thing] = h.thing
        /\ \A x \in Things \ {h.thing} : resolved'[x] = resolved[x]
    BY <1>3, <1>6, <2>1
  <2>3. ASSUME NEW x \in Findable, resolved'[x] = x PROVE Present(server', x)
    <3>1. x \in Things
      BY ThingsAre DEF Findable, Named
    <3>2. CASE resolved[x] = x
      BY <1>4, <1>6, <3>2 DEF BInv, Wired, Served
    <3>3. CASE resolved[x] # x
      <4>1. x = h.thing
        BY <2>2, <2>3, <3>1, <3>3
      <4>2. x = "account" => h = Create("account")
        <5>1. h = Create(x) \/ h = Update(x)
          BY <1>3, <4>1, StepIs
        <5>2. h # Update(x)
          BY <1>3, <3>3 DEF BInv, Wired
        <5> QED
          BY <5>1, <5>2
      <4> QED
        BY <1>4, <1>6, <4>1, <4>2 DEF Findable
    <3> QED
      BY <3>2, <3>3
  <2>4. BindingsHold'
    BY <1>2, <1>4, <1>6, <1>1 DEF BInv, BindingsHold, Advance, NoMishap, history
  <2>5. version' \in Nat
    BY <1>6, <2>1 DEF VersionAfter
  <2> QED
    BY <1>1, <1>2, <1>4, <1>6, <2>2, <2>3, <2>4, <2>5, Advanced
<1>7. CASE /\ IF Takes(h) THEN Mishap("refused") ELSE NoMishap
           /\ Stop("failed")
           /\ UNCHANGED <<server, resolved, version>>
  <2>1. /\ faults' \in 0 .. MaxFaults /\ mishap' \in {"none", "refused", "unsure"}
        /\ UNCHANGED <<disturbed, theirs, first>> /\ mishap' # "unsure"
    BY <1>2, <1>7, MishapIs, NoMishapIs
  <2>2. BindingsHold'
    BY <1>1, <1>2, <1>7, <2>1 DEF BInv, BindingsHold, Stop
  <2> QED
    BY <1>1, <1>5, <1>7, <2>1, <2>2, Stopped DEF Untouched
<1>8. CASE /\ Takes(h) /\ Mishap("unsure")
           /\ server' = After(h)
           /\ Stop("failed")
           /\ UNCHANGED <<resolved, version>>
  <2>1. /\ faults' \in 0 .. MaxFaults /\ mishap' = "unsure"
        /\ UNCHANGED <<disturbed, theirs, first>>
    BY <1>8, MishapIs
  <2>2. BindingsHold'
    BY <2>1 DEF BindingsHold
  <2> QED
    BY <1>1, <1>4, <1>8, <2>1, <2>2, Stopped DEF Untouched
<1> QED
  BY <1>6, <1>7, <1>8 DEF Run
LEMMA UnassignB ==
  ASSUME BInv, NEW b \in Bindings, Unassign(b)
  PROVE  BInv'
<1>1. /\ phase = "running" /\ todo # <<>> /\ Head(todo) = [thing |-> b, change |-> "update"]
      /\ stage = "first" /\ UNCHANGED <<snap, resolved, version, meddling>>
  BY DEF Unassign
<1>2. mishap = "none" /\ report = "none"
  BY <1>1 DEF BInv, InStep
<1>3. server' = [server EXCEPT !.bound[b] = Unbound] =>
        Served /\ \A c \in Bindings \ {b} : server'.bound[c] = server.bound[c]
  BY BindingServes
<1>4. CASE /\ server' = [server EXCEPT !.bound[b] = Unbound]
           /\ stage' = "assign"
           /\ NoMishap /\ UNCHANGED <<phase, todo, report>>
  <2>1. /\ faults' \in 0 .. MaxFaults /\ mishap' = "none" /\ UNCHANGED <<disturbed, theirs, first>>
    BY <1>2, <1>4, NoMishapIs
  <2>2. BindingsHold'
    BY <1>1, <1>2, <1>3, <1>4 DEF BInv, BindingsHold
  <2> QED
    BY <1>1, <1>3, <1>4, <2>1, <2>2, Rebinding
<1>5. CASE Mishap("refused") /\ Stop("failed") /\ UNCHANGED server
  <2>1. /\ faults' \in 0 .. MaxFaults /\ mishap' = "refused" /\ UNCHANGED <<disturbed, theirs, first>>
    BY <1>5, MishapIs
  <2>2. BindingsHold'
    BY <1>1, <1>2, <1>5 DEF BInv, BindingsHold, Stop
  <2> QED
    BY <1>1, <1>5, <2>1, <2>2, SameServes, Stopped DEF Untouched
<1>6. CASE /\ Mishap("unsure")
           /\ server' = [server EXCEPT !.bound[b] = Unbound]
           /\ Stop("failed")
  <2>1. /\ faults' \in 0 .. MaxFaults /\ mishap' = "unsure" /\ UNCHANGED <<disturbed, theirs, first>>
    BY <1>6, MishapIs
  <2>2. BindingsHold'
    BY <2>1 DEF BindingsHold
  <2> QED
    BY <1>1, <1>3, <1>6, <2>1, <2>2, Stopped DEF Untouched
<1> QED
  BY <1>4, <1>5, <1>6 DEF Unassign

LEMMA AssignB ==
  ASSUME BInv, NEW b \in Bindings, Assign(b)
  PROVE  BInv'
<1> DEFINE h == Head(todo)
           takes == Known(b) /\ server.bound[b] = Unbound
           v == Bound(b, Carried(b, h.change))
           done == [server EXCEPT !.bound[b] = v]
<1>1. /\ phase = "running" /\ todo # <<>> /\ h.thing = b
      /\ stage = IF h.change = "update" THEN "assign" ELSE "first"
      /\ UNCHANGED <<snap, resolved, version, meddling>>
  BY DEF Assign
<1>2. mishap = "none" /\ report = "none" /\ stage # "restore"
  BY <1>1 DEF BInv, InStep
<1>3. /\ Known(b) /\ h \in Steps /\ h.change \in {"create", "update"}
      /\ \A n \in Needs[b] \intersect Findable : Present(server, n)
  BY <1>1, AtHead DEF Steps
<1>4. "role" \in Needs[b] \intersect Findable /\ SubjectOf[b] \in Needs[b] \intersect Findable
  BY NeedsAre DEF Bindings, SubjectOf, Findable, Named
<1>5. Carried(b, h.change) \in {Everywhere, Confined}
  <2>1. snap.bound[b] \in Held \union {Unbound}
    BY DEF BInv, Typed, Tenants
  <2>2. Unbound.tenants = Everywhere /\ \A w \in Held : w.tenants \in {Everywhere, Confined}
    BY DEF Unbound, Held
  <2> QED
    BY <2>1, <2>2 DEF Carried
<1>6. v \in Held /\ v # Unbound
  BY <1>5, BoundIs
<1>7. server' = done =>
        Served /\ server'.bound[b] = v /\ \A c \in Bindings \ {b} : server'.bound[c] = server.bound[c]
  <2> HIDE DEF v
  <2> QED
    BY <1>3, <1>4, <1>6, BindingServes
<1>8. ASSUME server.bound[b] = Unbound, stage = "first"
      PROVE  snap.bound[b] = Unbound
  <2>1. snap.bound[b] \in Held \union {Unbound}
    BY DEF BInv, Typed, Tenants
  <2>2. \A w \in Held : Bound(b, w.tenants) # Unbound
    BY BoundIs DEF Held
  <2> QED
    BY <1>2, <1>8, <2>1, <2>2 DEF BInv, BindingsHold
<1>9. Known(b) /\ server.bound[b] = Unbound /\ server' = done =>
        /\ snap.bound[b] # Unbound => server'.bound[b] = Bound(b, snap.bound[b].tenants)
        /\ \A c \in Bindings \ {b} : server'.bound[c] = server.bound[c]
  <2>1. h.change = "update" => Carried(b, h.change) = snap.bound[b].tenants
    BY DEF Carried
  <2> HIDE DEF done
  <2> QED
    BY <1>1, <1>3, <1>7, <1>8, <2>1
<1>10. \A c \in Bindings \ {b} : snap.bound[c] # Unbound =>
         server.bound[c] \in {snap.bound[c], Bound(c, snap.bound[c].tenants)}
  BY <1>1, <1>2 DEF BInv, BindingsHold
<1>11. CASE takes /\ server' = done /\ Advance /\ NoMishap
  <2>1. BindingsHold'
    BY <1>1, <1>9, <1>10, <1>11 DEF BindingsHold
  <2>2. b \notin Referred
    BY ReferredAre DEF Bindings
  <2>3. /\ version \in Nat /\ resolved \in [Things -> Things \union {"none"}]
        /\ \A x \in Things : resolved[x] \in {x, "none"}
        /\ \A x \in Findable : resolved[x] = x => Present(server, x)
    BY DEF BInv, Typed, Wired
  <2>4. \A x \in Findable : resolved'[x] = x => Present(server', x)
    BY <1>1, <1>7, <1>11, <2>3 DEF Served
  <2> HIDE DEF done
  <2> QED
    BY <1>1, <1>2, <1>7, <1>11, <2>1, <2>2, <2>3, <2>4, Advanced
<1>12. ASSUME AssignFails(h), UNCHANGED server, faults' \in 0 .. MaxFaults,
              mishap' \in {"none", "refused"}, UNCHANGED <<disturbed, theirs, first>>
       PROVE  BInv'
  <2>1. Served
    BY <1>12, SameServes
  <2>2. CASE h.change = "create"
    <3>1. Stop("failed")
      BY <1>12, <2>2 DEF AssignFails
    <3>2. BindingsHold'
      BY <1>1, <1>2, <1>12, <2>2, <3>1 DEF BInv, BindingsHold, Stop
    <3> QED
      BY <1>1, <1>12, <2>1, <3>1, <3>2, Stopped DEF Untouched
  <2>3. CASE h.change = "update"
    <3>1. stage' = "restore" /\ UNCHANGED <<phase, todo, report>>
      BY <1>12, <2>3 DEF AssignFails
    <3>2. BindingsHold'
      BY <1>1, <1>10, <1>12, <3>1 DEF BindingsHold
    <3> QED
      BY <1>1, <1>12, <2>1, <2>3, <3>1, <3>2, Rebinding
  <2> QED
    BY <1>3, <2>2, <2>3
<1>13. CASE /\ IF takes THEN Mishap("refused") ELSE NoMishap
            /\ AssignFails(h) /\ UNCHANGED server
  BY <1>2, <1>12, <1>13, MishapIs, NoMishapIs
<1>14. CASE takes /\ Mishap("unsure") /\ server' = done /\ AssignFails(h)
  <2>1. /\ faults' \in 0 .. MaxFaults /\ mishap' = "unsure" /\ UNCHANGED <<disturbed, theirs, first>>
    BY <1>14, MishapIs
  <2>2. BindingsHold'
    BY <2>1 DEF BindingsHold
  <2>3. Served
    BY <1>7, <1>14
  <2> HIDE DEF done
  <2>4. CASE h.change = "create"
    <3>1. Stop("failed")
      BY <1>14, <2>4 DEF AssignFails
    <3> QED
      BY <1>1, <2>1, <2>2, <2>3, <3>1, Stopped DEF Untouched
  <2>5. CASE h.change = "update"
    <3>1. stage' = "restore" /\ UNCHANGED <<phase, todo, report>>
      BY <1>14, <2>5 DEF AssignFails
    <3> QED
      BY <1>1, <2>1, <2>2, <2>3, <2>5, <3>1, Rebinding
  <2> QED
    BY <1>3, <2>4, <2>5
<1> QED
  BY <1>11, <1>13, <1>14 DEF Assign

LEMMA RestoreB ==
  ASSUME BInv, NEW b \in Bindings, Restore(b)
  PROVE  BInv'
<1> DEFINE takes == server.bound[b] = Unbound
           done == [server EXCEPT !.bound[b] = snap.bound[b]]
<1>1. /\ phase = "running" /\ todo # <<>> /\ Head(todo).thing = b /\ stage = "restore"
      /\ UNCHANGED <<snap, resolved, version, meddling>>
  BY DEF Restore
<1>2. report = "none"
  BY <1>1 DEF BInv, InStep
<1>3. Known(b) /\ \A n \in Needs[b] \intersect Findable : Present(server, n)
  BY <1>1, AtHead
<1>4. "role" \in Needs[b] \intersect Findable /\ SubjectOf[b] \in Needs[b] \intersect Findable
  BY NeedsAre DEF Bindings, SubjectOf, Findable, Named
<1>5. snap.bound[b] \in Held \union {Unbound}
  BY DEF BInv, Typed, Tenants
<1>6. server' = done =>
        /\ Served /\ server'.bound[b] = snap.bound[b]
        /\ \A c \in Bindings \ {b} : server'.bound[c] = server.bound[c]
  BY <1>3, <1>4, <1>5, BindingServes
<1>7. mishap # "unsure" => \A c \in Bindings \ {b} : snap.bound[c] # Unbound =>
        server.bound[c] \in {snap.bound[c], Bound(c, snap.bound[c].tenants)}
  BY <1>1, <1>2 DEF BInv, BindingsHold
<1> HIDE DEF done
<1>8. CASE takes /\ server' = done /\ Stop("restored") /\ NoMishap
  <2>1. /\ faults' \in 0 .. MaxFaults /\ mishap' = mishap /\ mishap' \in {"none", "refused", "unsure"}
        /\ UNCHANGED <<disturbed, theirs, first>>
    BY <1>8, NoMishapIs
  <2>2. BindingsHold'
    BY <1>1, <1>6, <1>7, <1>8, <2>1 DEF BindingsHold
  <2> QED
    BY <1>1, <1>6, <1>8, <2>1, <2>2, Stopped DEF Untouched
<1>9. CASE /\ IF takes THEN Mishap(mishap) ELSE NoMishap
           /\ Stop("restoreFailed") /\ UNCHANGED server
  <2>1. /\ faults' \in 0 .. MaxFaults /\ mishap' = mishap /\ mishap' \in {"none", "refused", "unsure"}
        /\ UNCHANGED <<disturbed, theirs, first>>
    BY <1>9, MishapIs, NoMishapIs DEF BInv, Typed
  <2>2. BindingsHold'
    BY <1>9 DEF BindingsHold, Stop
  <2> QED
    BY <1>1, <1>9, <2>1, <2>2, SameServes, Stopped DEF Untouched
<1>10. CASE takes /\ Mishap("unsure") /\ server' = done /\ Stop("restoreFailed")
  <2>1. /\ faults' \in 0 .. MaxFaults /\ mishap' = "unsure" /\ UNCHANGED <<disturbed, theirs, first>>
    BY <1>10, MishapIs
  <2>2. BindingsHold'
    BY <2>1 DEF BindingsHold
  <2> QED
    BY <1>1, <1>6, <1>10, <2>1, <2>2, Stopped DEF Untouched
<1> QED
  BY <1>8, <1>9, <1>10 DEF Restore, Restored, done

LEMMA FinishB == ASSUME BInv, Finish PROVE BInv'
<1>1. phase = "running" /\ todo = <<>> /\ Stop("complete")
      /\ UNCHANGED <<server, snap, resolved, version, faults, meddling, history>>
  BY DEF Finish
<1>2. stage = "first" /\ report = "none"
  BY <1>1 DEF BInv, InStep
<1>3. BindingsHold'
  BY <1>1, <1>2 DEF BInv, BindingsHold, history, Stop
<1>4. faults \in 0 .. MaxFaults /\ mishap \in {"none", "refused", "unsure"}
  BY DEF BInv, Typed
<1> QED
  BY <1>1, <1>3, <1>4, SameServes, Stopped DEF Untouched, history

LEMMA CrashB == ASSUME BInv, Crash PROVE BInv'
<1>1. phase = "running" /\ Mishap("unsure") /\ Stop("none")
      /\ UNCHANGED <<server, snap, resolved, version, meddling>>
  BY DEF Crash
<1>2. /\ faults' \in 0 .. MaxFaults /\ mishap' = "unsure" /\ UNCHANGED <<disturbed, theirs, first>>
  BY <1>1, MishapIs
<1>3. BindingsHold'
  BY <1>2 DEF BindingsHold
<1> QED
  BY <1>1, <1>2, <1>3, SameServes, Stopped DEF Untouched
LEMMA StartB == ASSUME BInv, Start PROVE BInv'
<1>1. /\ phase' = "accounts" /\ snap' = [server EXCEPT !.accounts = <<>>]
      /\ todo' = <<>> /\ stage' = "first" /\ resolved' = Nothing /\ version' = 0
      /\ report' = "none" /\ disturbed' = FALSE /\ theirs' = FALSE /\ mishap' = "none"
      /\ UNCHANGED <<server, faults, meddling, first>>
  BY DEF Start
<1>2. server \in Tenants /\ faults \in 0 .. MaxFaults /\ meddling \in 0 .. MaxMeddling
  BY DEF BInv, Typed
<1>3. /\ snap' \in Tenants /\ snap'.accounts = <<>>
      /\ snap'.listed = server.listed /\ snap'.bound = server.bound
      /\ snap'.segment = server.segment /\ server.segment \in Nat
  <2>1. <<>> \in Seq({"foreign", "other", "stated"})
    OBVIOUS
  <2> QED
    BY <1>1, <1>2, <2>1 DEF Tenants
<1>4. todo' \in Seq(Steps) /\ Range(todo') = {} /\ Sorted(todo')
  BY <1>1 DEF Range, Sorted
<1>5. resolved' = [x \in Things |-> "none"]
  BY <1>1 DEF Nothing
<1>6. Typed'
  <2>1. resolved' \in [Things -> Things \union {"none"}]
    BY <1>5
  <2> QED
    BY <1>1, <1>2, <1>3, <1>4, <2>1 DEF Typed
<1>7. InStep' /\ BindingsHold' /\ VersionsGrow'
  BY <1>1, <1>3 DEF InStep, BindingsHold, VersionsGrow
<1>8. SeenIsThere'
  <2>1. Ours(<<>>) = {}
    BY DEF Ours
  <2>2. \A x \in Findable : Present(snap', x) => Present(server', x)
    BY <1>1, <1>3, <2>1 DEF Present
  <2> QED
    BY <1>1, <1>3, <2>2 DEF SeenIsThere
<1>9. Wired'
  <2>1. \A x \in Findable : x # "none" /\ x \in Things
    BY ThingsAre DEF Findable, Named
  <2> QED
    BY <1>1, <1>4, <1>5, <2>1 DEF Wired
<1> QED
  BY <1>1, <1>6, <1>7, <1>8, <1>9 DEF BInv, StrayUntouched

(* A read leaves the tenant alone, and what is read is in it. *)
LEMMA ReadB ==
  ASSUME BInv, phase \in {"accounts", "network"}, phase' \in {"accounts", "network", "planning"},
         theirs => phase' # "accounts" /\ phase' # "network",
         snap' \in Tenants, snap'.bound = server.bound,
         \A x \in Listed \ {"segment"} : snap'.listed[x] = server.listed[x],
         \A x \in Findable : Present(snap', x) => Present(server, x),
         snap'.segment <= server.segment, theirs => snap'.segment < server.segment,
         UNCHANGED <<server, todo, stage, resolved, version, report, faults, meddling, history>>
  PROVE  BInv'
<1>1. Typed' /\ InStep'
  BY DEF BInv, Typed, InStep, history
<1>2. SeenIsThere'
  BY DEF SeenIsThere
<1>3. Wired'
  BY DEF BInv, Wired, Pending
<1>4. BindingsHold'
  <2>1. stage' = "first"
    BY DEF BInv, InStep
  <2> QED
    BY <2>1 DEF BindingsHold
<1>5. VersionsGrow'
  BY DEF BInv, VersionsGrow, history
<1> QED
  BY <1>1, <1>2, <1>3, <1>4, <1>5 DEF BInv, StrayUntouched

(* One page more. *)
LEMMA PageIs ==
  ASSUME snap \in Tenants, server \in Tenants, ReadPage
  PROVE  LET from == Len(snap.accounts)
             page == IF from < Len(server.accounts) THEN <<server.accounts[from + 1]>> ELSE <<>>
             got == snap.accounts \o page
         IN /\ snap' = [snap EXCEPT !.accounts = got] /\ snap' \in Tenants
            /\ snap'.accounts = got
            /\ Len(got) = IF from < Len(server.accounts) THEN from + 1 ELSE from
            /\ \A i \in 1 .. from : got[i] = snap.accounts[i]
            /\ from < Len(server.accounts) => got[from + 1] = server.accounts[from + 1]
            /\ phase' = IF from < Len(server.accounts) /\ from + 1 < Len(server.accounts)
                        THEN "accounts" ELSE "network"
<1> DEFINE from == Len(snap.accounts)
           page == IF from < Len(server.accounts) THEN <<server.accounts[from + 1]>> ELSE <<>>
           got == snap.accounts \o page
<1>1. snap.accounts \in Lists3 /\ server.accounts \in Lists3 /\ from \in Nat
      /\ Len(server.accounts) \in Nat
  BY DEF Tenants, Lists3
<1>2. snap' = [snap EXCEPT !.accounts = got] /\ phase = "accounts"
      /\ phase' = IF page = <<>> \/ Walked(got, server.accounts) THEN "network" ELSE phase
  BY DEF ReadPage
<1>3. CASE from < Len(server.accounts)
  <2> DEFINE e == server.accounts[from + 1]
  <2>1. e \in {"foreign", "other", "stated"}
    BY <1>1, <1>3 DEF Lists3
  <2>2. page = <<e>> /\ <<e>> # <<>>
    BY <1>3
  <2>3. got = Append(snap.accounts, e)
    BY <1>1, <2>1, <2>2, AppendIsConcat DEF Lists3
  <2> HIDE DEF e
  <2>4. /\ got \in Lists3 /\ Len(got) = from + 1
        /\ \A i \in 1 .. from : got[i] = snap.accounts[i]
        /\ got[from + 1] = e
    <3> HIDE DEF got
    <3> QED
      BY <1>1, <2>1, <2>3, AppendProperties DEF Lists3
  <2>5. phase' = IF from + 1 < Len(server.accounts) THEN "accounts" ELSE "network"
    <3> HIDE DEF got, page
    <3> QED
      BY <1>1, <1>2, <2>2, <2>4 DEF Walked
  <2>6. snap' \in Tenants /\ snap'.accounts = got
    <3> HIDE DEF got
    <3> QED
      BY <1>2, <2>4 DEF Tenants, Lists3
  <2> QED
    BY <1>2, <1>3, <2>4, <2>5, <2>6 DEF e
<1>4. CASE ~(from < Len(server.accounts))
  <2>1. page = <<>>
    BY <1>4
  <2>2. got = snap.accounts
    <3>1. \A q \in Lists3 : q \o <<>> = q
      BY ConcatEmptySeq DEF Lists3
    <3> QED
      BY <1>1, <2>1, <3>1
  <2> HIDE DEF got
  <2>3. snap' \in Tenants /\ snap'.accounts = got
    BY <1>1, <1>2, <2>2 DEF Tenants
  <2> QED
    BY <1>1, <1>2, <1>4, <2>1, <2>2, <2>3 DEF got
<1> QED
  BY <1>3, <1>4

LEMMA ReadPageB == ASSUME BInv, ReadPage PROVE BInv'
<1> DEFINE from == Len(snap.accounts)
<1>1. snap \in Tenants /\ server \in Tenants /\ phase = "accounts"
  BY DEF BInv, Typed, ReadPage
<1>2. PICK got : /\ snap' = [snap EXCEPT !.accounts = got] /\ snap' \in Tenants
                 /\ snap'.accounts = got
                 /\ Len(got) = IF from < Len(server.accounts) THEN from + 1 ELSE from
                 /\ \A i \in 1 .. from : got[i] = snap.accounts[i]
                 /\ from < Len(server.accounts) => got[from + 1] = server.accounts[from + 1]
                 /\ phase' \in {"accounts", "network"}
  BY <1>1, PageIs
<1>3. /\ snap'.listed = snap.listed /\ snap'.bound = snap.bound /\ snap'.segment = snap.segment
  BY <1>1, <1>2 DEF Tenants
<1>4. UNCHANGED <<server, todo, stage, resolved, version, report, faults, meddling, history>>
  BY DEF ReadPage
<1>5. /\ snap.bound = server.bound
      /\ \A x \in Listed \ {"segment"} : snap.listed[x] = server.listed[x]
      /\ \A x \in Findable : Present(snap, x) => Present(server, x)
      /\ snap.segment <= server.segment /\ ~theirs
  BY <1>1 DEF BInv, SeenIsThere, Reading, VersionsGrow
<1>6. Ours(got) # {} => Ours(server.accounts) # {}
  <2>1. got \in Lists3 /\ snap.accounts \in Lists3 /\ server.accounts \in Lists3
    BY <1>1, <1>2 DEF Tenants, Lists3
  <2>2. ASSUME NEW i \in Ours(got) PROVE Ours(server.accounts) # {}
    <3>1. i \in 1 .. Len(got) /\ got[i] # "foreign"
      BY <2>1, ListsOfAccounts DEF Ours
    <3>2. from \in Nat /\ Len(server.accounts) \in Nat
      BY <2>1, ListsOfAccounts
    <3>3. CASE i \in 1 .. from
      <4>1. i \in Ours(snap.accounts)
        BY <1>2, <2>1, <3>1, <3>3, ListsOfAccounts DEF Ours
      <4>2. Present(snap, "account") /\ "account" \in Findable
        BY <4>1 DEF Present, Findable
      <4> QED
        BY <1>5, <4>2 DEF Present
    <3>4. CASE i \notin 1 .. from
      <4>1. i = from + 1 /\ from < Len(server.accounts)
        BY <1>2, <3>1, <3>2, <3>4
      <4>2. i \in 1 .. Len(server.accounts) /\ server.accounts[i] # "foreign"
        BY <1>2, <3>1, <3>2, <4>1
      <4>3. i \in Ours(server.accounts)
        BY <2>1, <4>2, ListsOfAccounts DEF Ours
      <4> QED
        BY <4>3
    <3> QED
      BY <3>3, <3>4
  <2> QED
    BY <2>2
<1>7. \A x \in Findable : Present(snap', x) => Present(server, x)
  BY <1>2, <1>3, <1>5, <1>6 DEF Present, Findable
<1> QED
  BY <1>1, <1>2, <1>3, <1>4, <1>5, <1>7, ReadB

(* The network is read last. *)
LEMMA NetworkIs ==
  ASSUME snap \in Tenants, server \in Tenants, ReadNetwork
  PROVE  /\ snap' \in Tenants
         /\ snap'.bound = snap.bound /\ snap'.stray = snap.stray
         /\ snap'.accounts = snap.accounts
         /\ snap'.cap = server.cap /\ snap'.stored = server.stored
         /\ snap'.segment = server.segment
         /\ \A x \in Listed : snap'.listed[x] = IF x = "segment" THEN server.listed[x]
                                                ELSE snap.listed[x]
<1> DEFINE l == [snap.listed EXCEPT !["segment"] = server.listed["segment"]]
<1>1. snap.listed \in [Listed -> {"absent", "other", "stated"}]
      /\ server.listed \in [Listed -> {"absent", "other", "stated"}] /\ "segment" \in Listed
  BY DEF Tenants, Listed, Named
<1>2. l \in [Listed -> {"absent", "other", "stated"}]
      /\ \A x \in Listed : l[x] = IF x = "segment" THEN server.listed[x] ELSE snap.listed[x]
  BY <1>1
<1>3. snap' = [listed |-> l, stray |-> snap.stray, bound |-> snap.bound,
               accounts |-> snap.accounts, cap |-> server.cap, stored |-> server.stored,
               segment |-> server.segment]
  <2>1. snap' = [snap EXCEPT !.cap = server.cap, !.stored = server.stored,
                             !.segment = server.segment, !.listed["segment"] = server.listed["segment"]]
    BY DEF ReadNetwork
  <2>2. snap' = [snap EXCEPT !.cap = server.cap, !.stored = server.stored,
                             !.segment = server.segment, !.listed = l]
    BY <2>1 DEF Tenants
  <2> HIDE DEF l
  <2> QED
    BY <2>2 DEF Tenants
<1> HIDE DEF l
<1> QED
  BY <1>2, <1>3 DEF Tenants

LEMMA ReadNetworkB == ASSUME BInv, ReadNetwork PROVE BInv'
<1>1. snap \in Tenants /\ server \in Tenants /\ phase = "network" /\ phase' = "planning"
      /\ UNCHANGED <<server, todo, stage, resolved, version, report, faults, meddling, history>>
  BY DEF BInv, Typed, ReadNetwork
<1>2. /\ snap' \in Tenants
      /\ snap'.bound = snap.bound /\ snap'.accounts = snap.accounts
      /\ snap'.segment = server.segment
      /\ \A x \in Listed : snap'.listed[x] = IF x = "segment" THEN server.listed[x]
                                             ELSE snap.listed[x]
  BY <1>1, NetworkIs
<1>3. /\ snap.bound = server.bound
      /\ \A x \in Listed \ {"segment"} : snap.listed[x] = server.listed[x]
      /\ \A x \in Findable : Present(snap, x) => Present(server, x)
      /\ ~theirs
  BY <1>1 DEF BInv, SeenIsThere, Reading, VersionsGrow
<1>4. \A x \in Findable : Present(snap', x) => Present(server, x)
  BY <1>2, <1>3 DEF Present, Findable, Listed
<1>5. server.segment \in Nat
  BY <1>1 DEF Tenants
<1> QED
  BY <1>1, <1>2, <1>3, <1>4, <1>5, ReadB
LEMMA PlanPending ==
  ASSUME NEW s \in Tenants, NEW x \in Things, \A h \in Range(computeSteps(s)) : h.thing # x
  PROVE  Planned(s, x) = <<>>
<1>1. \A h \in {Create(x), Update(x)} : h \in Steps /\ h.thing = x
  BY StepIs
<1>2. \A h \in Steps : h \in Range(computeSteps(s)) <=> Planned(s, h.thing) = <<h>>
  BY PlanLists
<1> QED
  BY <1>1, <1>2, PlannedOne

LEMMA PlanB == ASSUME BInv, Plan PROVE BInv'
<1>1. /\ phase = "planning" /\ UNCHANGED <<server, snap, stage, faults, meddling, history>>
      /\ snap \in Tenants /\ todo = <<>> /\ stage = "first" /\ report = "none" /\ mishap = "none"
  BY DEF Plan, BInv, Typed, InStep
<1>2. CASE Ambiguous(snap.accounts)
  <2>1. phase' = "idle" /\ report' = "refused" /\ UNCHANGED <<todo, resolved, version>>
    BY <1>2 DEF Plan
  <2>2. Typed' /\ InStep' /\ SeenIsThere'
    BY <1>1, <2>1 DEF BInv, Typed, InStep, SeenIsThere, Reading, history
  <2>3. Wired'
    BY <1>1, <2>1 DEF BInv, Wired, Pending
  <2>4. BindingsHold' /\ VersionsGrow'
    BY <1>1, <2>1 DEF BInv, BindingsHold, VersionsGrow, history
  <2> QED
    BY <1>1, <2>2, <2>3, <2>4 DEF BInv, StrayUntouched
<1>3. CASE ~Ambiguous(snap.accounts)
  <2> DEFINE q == computeSteps(snap)
  <2>1. /\ todo' = q /\ resolved' = Resolve(snap) /\ version' = snap.segment
        /\ phase' = "running" /\ report' = report
    BY <1>3 DEF Plan
  <2>2. /\ q \in Seq(Steps) /\ Sorted(q)
        /\ \A h \in Steps : h \in Range(q) <=> Planned(snap, h.thing) = <<h>>
    BY <1>1, PlanLists
  <2>3. Typed'
    <3>1. resolved' \in [Things -> Things \union {"none"}] /\ version' \in Nat
      BY <1>1, <2>1, ResolveIs DEF Tenants
    <3> QED
      BY <1>1, <2>1, <2>2, <3>1 DEF BInv, Typed, history
  <2>4. InStep' /\ SeenIsThere'
    BY <1>1, <2>1 DEF InStep, SeenIsThere, Reading, history
  <2>5. Wired'
    <3>1. \A x \in Things : resolved'[x] \in {x, "none"}
      BY <1>1, <2>1, ResolveIs
    <3>2. \A x \in Findable : resolved'[x] = x => Present(server', x)
      <4>1. \A x \in Findable : Resolve(snap)[x] = x => Present(snap, x)
        BY <1>1, ResolveIs
      <4> QED
        BY <1>1, <2>1, <4>1 DEF BInv, SeenIsThere, Reading
    <3>3. ASSUME NEW x \in Findable, Update(x) \in Range(q) PROVE resolved'[x] = x
      <4>1. x \in Things
        BY ThingsAre DEF Findable, Named
      <4>2. Update(x) \in Steps /\ Update(x).thing = x
        BY <4>1, StepIs
      <4>3. Planned(snap, x) = <<Update(x)>>
        BY <2>2, <3>3, <4>2
      <4> QED
        BY <1>1, <2>1, <4>3, UpdateStep
    <3>4. ASSUME NEW n \in Referred, n \notin Pending' PROVE resolved'[n] = n
      <4>1. n \in Things
        BY ReferredAre, ThingsAre
      <4>2. \A h \in Range(q) : h.thing # n
        BY <2>1, <3>4 DEF Pending
      <4>3. Planned(snap, n) = <<>>
        BY <1>1, <4>1, <4>2, PlanPending
      <4> QED
        BY <1>1, <2>1, <4>1, <4>3, NoStep
    <3> QED
      BY <2>1, <2>2, <3>1, <3>2, <3>3, <3>4 DEF Wired
  <2>6. BindingsHold' /\ VersionsGrow'
    BY <1>1, <2>1 DEF BInv, BindingsHold, VersionsGrow, history
  <2> QED
    BY <1>1, <2>3, <2>4, <2>5, <2>6 DEF BInv, StrayUntouched
<1> QED
  BY <1>2, <1>3

(* Taking the first account of the list away, or putting one before it. *)
LEMMA ListMoves ==
  ASSUME NEW list \in Lists3
  PROVE  /\ list # <<>> /\ Head(list) = "foreign" =>
              Tail(list) \in Lists3 /\ (Ours(list) # {} => Ours(Tail(list)) # {})
         /\ <<"foreign">> \o list \in Lists3
         /\ Ours(list) # {} => Ours(<<"foreign">> \o list) # {}
<1>1. /\ Len(list) \in Nat /\ DOMAIN list = 1 .. Len(list) /\ Ours(list) \subseteq 1 .. Len(list)
      /\ list \in Seq({"foreign", "other", "stated"})
  BY ListsOfAccounts DEF Lists3
<1>2. ASSUME list # <<>>, Head(list) = "foreign"
      PROVE  Tail(list) \in Lists3 /\ (Ours(list) # {} => Ours(Tail(list)) # {})
  <2>1. /\ Tail(list) \in Lists3 /\ Len(Tail(list)) = Len(list) - 1 /\ list[1] = "foreign"
        /\ DOMAIN Tail(list) = 1 .. Len(list) - 1
        /\ \A i \in 1 .. Len(list) - 1 : Tail(list)[i] = list[i + 1]
    BY <1>1, <1>2, HeadTailProperties DEF Lists3
  <2>2. ASSUME NEW i \in Ours(list) PROVE i - 1 \in Ours(Tail(list))
    <3>1. i \in 1 .. Len(list) /\ list[i] # "foreign"
      BY <1>1 DEF Ours
    <3>2. i - 1 \in 1 .. Len(list) - 1 /\ (i - 1) + 1 = i
      BY <1>1, <2>1, <3>1
    <3>3. Tail(list)[i - 1] = list[i]
      BY <2>1, <3>2
    <3> QED
      BY <2>1, <3>1, <3>2, <3>3 DEF Ours
  <2> QED
    BY <2>1, <2>2
<1>3. <<"foreign">> \o list \in Lists3 /\ (Ours(list) # {} => Ours(<<"foreign">> \o list) # {})
  <2>1. /\ <<"foreign">> \in Seq({"foreign", "other", "stated"}) /\ Len(<<"foreign">>) = 1
    OBVIOUS
  <2> DEFINE r == <<"foreign">> \o list
  <2>2. /\ r \in Seq({"foreign", "other", "stated"}) /\ Len(r) = 1 + Len(list)
        /\ \A i \in 1 .. Len(r) : i > 1 => r[i] = list[i - 1]
    BY <1>1, <2>1, ConcatProperties
  <2> HIDE DEF r
  <2>3. DOMAIN r = 1 .. Len(list) + 1
    BY <1>1, <2>2
  <2>4. ASSUME NEW i \in Ours(list) PROVE i + 1 \in Ours(r)
    <3>1. i \in 1 .. Len(list) /\ list[i] # "foreign"
      BY <1>1 DEF Ours
    <3>2. i + 1 \in 1 .. Len(r) /\ i + 1 > 1 /\ (i + 1) - 1 = i
      BY <1>1, <2>2, <3>1
    <3>3. r[i + 1] = list[i]
      BY <2>2, <3>2
    <3> QED
      BY <1>1, <2>2, <2>3, <3>1, <3>2, <3>3 DEF Ours
  <2>5. r \in Lists3
    BY <2>2 DEF Lists3
  <2> QED
    BY <2>4, <2>5 DEF r
<1> QED
  BY <1>2, <1>3

(* A write of the other administrator. *)
LEMMA MeddledB ==
  ASSUME BInv, Meddle, server' \in Tenants, Sound(server'),
         server'.stray = server.stray, server'.bound = server.bound,
         \A x \in Listed \ {"segment"} : server'.listed[x] = server.listed[x],
         \A x \in Findable : Present(server, x) => Present(server', x),
         server.segment <= server'.segment,
         theirs' \in BOOLEAN,
         theirs' => /\ phase \notin {"accounts", "network"}
                    /\ server'.listed["segment"] = "other"
                    /\ snap.segment < server'.segment
  PROVE  BInv'
<1>1. /\ meddling > 0 /\ meddling' = meddling - 1 /\ disturbed' = TRUE
      /\ UNCHANGED <<phase, snap, todo, stage, resolved, version, report, faults, mishap, first>>
  BY DEF Meddle, client
<1>2. Typed'
  <2>1. meddling' \in 0 .. MaxMeddling
    BY <1>1, ReconcileConstants DEF BInv, Typed
  <2> QED
    BY <1>1, <2>1 DEF BInv, Typed
<1>3. InStep' /\ BindingsHold'
  BY <1>1 DEF BInv, InStep, BindingsHold
<1>4. snap.segment \in Nat /\ server.segment \in Nat /\ server'.segment \in Nat
  BY DEF BInv, Typed, Tenants
<1>5. SeenIsThere' /\ VersionsGrow'
  BY <1>1, <1>4 DEF BInv, SeenIsThere, Reading, VersionsGrow
<1>6. Wired'
  <2>1. Pending' = Pending
    BY <1>1 DEF Pending
  <2> QED
    BY <1>1, <2>1 DEF BInv, Wired
<1> QED
  BY <1>2, <1>3, <1>5, <1>6 DEF BInv, StrayUntouched

LEMMA ChangeAccountsB == ASSUME BInv, ChangeAccounts PROVE BInv'
<1>1. server \in Tenants /\ server.accounts \in Lists3 /\ server.segment \in Nat
      /\ theirs' = theirs /\ theirs \in BOOLEAN /\ Meddle
  BY DEF BInv, Typed, Tenants, Lists3, ChangeAccounts
<1>2. PICK list \in Lists3 : /\ server' = [server EXCEPT !.accounts = list]
                             /\ Ours(server.accounts) # {} => Ours(list) # {}
  <2>1. CASE /\ server.accounts # <<>> /\ Head(server.accounts) = "foreign"
             /\ server' = [server EXCEPT !.accounts = Tail(server.accounts)]
    BY <1>1, <2>1, ListMoves
  <2>2. CASE server' = [server EXCEPT !.accounts = <<"foreign">> \o server.accounts]
    BY <1>1, <2>2, ListMoves
  <2> QED
    BY <2>1, <2>2 DEF ChangeAccounts
<1>3. /\ server' \in Tenants /\ server'.accounts = list
      /\ server'.listed = server.listed /\ server'.bound = server.bound
      /\ server'.stray = server.stray /\ server'.segment = server.segment
  BY <1>1, <1>2 DEF Tenants, Lists3
<1>4. \A x \in Findable : Present(server, x) => Present(server', x)
  BY <1>2, <1>3 DEF Present
<1>5. Sound(server')
  <2>1. \A b \in Bindings : "role" \in Findable /\ SubjectOf[b] \in Findable
    BY DEF Bindings, SubjectOf, Findable, Named
  <2> QED
    BY <1>3, <1>4, <2>1 DEF BInv, Sound
<1> QED
  BY <1>1, <1>3, <1>4, <1>5, MeddledB DEF BInv, VersionsGrow

LEMMA ChangeSegmentB == ASSUME BInv, ChangeSegment PROVE BInv'
<1>1. /\ Meddle /\ server.listed["segment"] # "absent"
      /\ server' = [server EXCEPT !.listed["segment"] = "other", !.segment = @ + 1]
      /\ theirs' = (theirs \/ phase \in {"planning", "running"})
      /\ server \in Tenants /\ theirs \in BOOLEAN
  BY DEF ChangeSegment, BInv, Typed
<1> DEFINE l == [server.listed EXCEPT !["segment"] = "other"]
<1>2. l \in [Listed -> {"absent", "other", "stated"}] /\ "segment" \in Listed
      /\ \A x \in Listed : l[x] = IF x = "segment" THEN "other" ELSE server.listed[x]
  BY <1>1 DEF Tenants, Listed, Named
<1>3. server' = [listed |-> l, stray |-> server.stray, bound |-> server.bound,
                 accounts |-> server.accounts, cap |-> server.cap, stored |-> server.stored,
                 segment |-> server.segment + 1]
  <2>1. server' = [server EXCEPT !.listed = l, !.segment = server.segment + 1]
    BY <1>1 DEF Tenants
  <2> HIDE DEF l
  <2> QED
    BY <1>1, <2>1 DEF Tenants
<1> HIDE DEF l
<1>4. /\ server' \in Tenants /\ server'.listed = l /\ server'.bound = server.bound
      /\ server'.stray = server.stray /\ server'.accounts = server.accounts
      /\ server'.segment = server.segment + 1 /\ server.segment \in Nat
  BY <1>1, <1>2, <1>3 DEF Tenants
<1>5. \A x \in Findable : Present(server, x) => Present(server', x)
  BY <1>2, <1>4 DEF Present, Findable, Listed
<1>6. Sound(server')
  <2>1. \A b \in Bindings : "role" \in Findable /\ SubjectOf[b] \in Findable
    BY DEF Bindings, SubjectOf, Findable, Named
  <2>2. server'.listed["child"] # "absent" => server'.listed["parent"] # "absent"
    BY <1>2, <1>4 DEF BInv, Sound, Listed, Named
  <2> QED
    BY <1>4, <1>5, <2>1, <2>2 DEF BInv, Sound
<1>7. theirs' => /\ phase \notin {"accounts", "network"}
                 /\ server'.listed["segment"] = "other"
                 /\ snap.segment < server'.segment
  <2>1. snap.segment \in Nat
    BY DEF BInv, Typed, Tenants
  <2> QED
    BY <1>1, <1>2, <1>4, <2>1 DEF BInv, VersionsGrow
<1> QED
  BY <1>1, <1>2, <1>4, <1>5, <1>6, <1>7, MeddledB

(* Nothing happens. *)
LEMMA StutterB == ASSUME BInv, UNCHANGED vars PROVE BInv'
<1>1. UNCHANGED <<server, phase, snap, todo, stage, resolved, version, report, faults, meddling,
                  disturbed, theirs, mishap, first>>
  BY DEF vars, client, history
<1>2. Pending' = Pending
  BY <1>1 DEF Pending
<1> QED
  BY <1>1, <1>2 DEF BInv, Typed, InStep, SeenIsThere, Reading, Wired, BindingsHold, VersionsGrow,
                    StrayUntouched

LEMMA StepB == ASSUME BInv, [Next]_vars PROVE BInv'
  BY StartB, ReadPageB, ReadNetworkB, PlanB, RunB, UnassignB, AssignB, RestoreB, FinishB, CrashB,
     ChangeAccountsB, ChangeSegmentB, StutterB DEF Next, ApplyStep

LEMMA AlwaysB == Spec => []BInv
  BY InitB, StepB, PTL DEF Spec-----------------------------------------------------------------------------
(* An Apply during which nobody else writes. *)
Clear == StatedOrPending /\ NewIsMissing /\ VersionsKnown /\ ~Ambiguous(server.accounts)

LEMMA OneStepEach ==
  ASSUME BInv, phase = "running", todo # <<>>
  PROVE  /\ \A x : x # Head(todo).thing =>
              (Create(x) \in Range(Tail(todo)) <=> Create(x) \in Range(todo))
         /\ Create(Head(todo).thing) \notin Range(Tail(todo))
         /\ Head(todo) = Update(Head(todo).thing) => Create(Head(todo).thing) \notin Range(todo)
<1>1. /\ Range(Tail(todo)) = Range(todo) \ {Head(todo)}
      /\ {g.thing : g \in Range(Tail(todo))} = Pending \ {Head(todo).thing}
  BY AtHead
<1>2. \A x : Create(x).thing = x /\ Create(x) # Update(x)
  BY StepIs
<1>3. Create(Head(todo).thing) \notin Range(Tail(todo))
  BY <1>1, <1>2
<1> QED
  BY <1>1, <1>2, <1>3

(* No step of such an Apply is turned down by the state of the tenant. *)
LEMMA AloneTakes ==
  ASSUME BInv, phase = "running", todo # <<>>, NewIsMissing, VersionsKnown,
         Head(todo).thing \notin Bindings
  PROVE  Takes(Head(todo))
<1> DEFINE h == Head(todo)
<1>1. h \in Steps /\ h \in Range(todo) /\ Known(h.thing) /\ h.thing \in Pending
  BY AtHead
<1>2. server.cap \in 1 .. Cap
  BY DEF BInv, Typed, Tenants
<1> SUFFICES Takes(h)
  OBVIOUS
<1> HIDE DEF h
<1>3. CASE h.thing = "segment" /\ h.change = "update"
  BY <1>1, <1>3 DEF Takes, VersionsKnown, SegmentSent, Named
<1>4. CASE h.thing = "profile"
  BY <1>1, <1>2, <1>4 DEF Takes, VersionsKnown, Timeout, Cap, Named
<1>5. CASE h.thing \in Named /\ h.change = "create"
  <2>1. h = Create(h.thing)
    BY <1>5 , <1>1, StepIs
  <2>2. server.listed[h.thing] = "absent"
    BY <1>1, <1>5, <2>1 DEF NewIsMissing
  <2> QED
    BY <1>5, <2>2 DEF Takes, Named
<1>6. CASE h.thing \in {"scope", "grant", "member"}
  BY <1>1, <1>6 DEF Takes, Named
<1>7. CASE /\ ~(h.thing = "segment" /\ h.change = "update") /\ h.thing # "profile"
           /\ ~(h.thing \in Named /\ h.change = "create")
           /\ h.thing \notin {"scope", "grant", "member"}
  BY <1>7 DEF Takes
<1> QED
  BY <1>3, <1>4, <1>5, <1>6, <1>7

LEMMA RunClears ==
  ASSUME BInv, phase = "running", todo # <<>>, Clear, Head(todo).thing \notin Bindings,
         server' = After(Head(todo)), snap' = snap, version' = VersionAfter(Head(todo)),
         todo' = Tail(todo)
  PROVE  Clear'
<1> DEFINE h == Head(todo)  t == After(h)
<1>1. /\ h \in Steps /\ h \in Range(todo) /\ Known(h.thing) /\ h.thing \in Things
      /\ Range(todo') = Range(todo) \ {h}
      /\ Pending' = Pending \ {h.thing}
  BY AtHead DEF Pending
<1>2. \A x \in Things : resolved[x] \in {x, "none"}
  BY DEF BInv, Wired
<1>3. h.thing = "child" => resolved["child"] # "stray" /\ resolved["parent"] # "none"
  BY <1>1, <1>2, NeedsAre, ThingsAre DEF Known
<1>4. server \in Tenants /\ server.accounts \in Lists3 /\ server.segment \in Nat
  BY DEF BInv, Typed, Tenants, Lists3
<1>5. /\ t.bound = server.bound
      /\ \A x \in Listed : t.listed[x] = IF x = h.thing THEN "stated" ELSE server.listed[x]
      /\ t.accounts = IF h.thing # "account" THEN server.accounts
                      ELSE IF h.change = "create" THEN Append(server.accounts, "stated")
                      ELSE Restated(server.accounts)
      /\ t.segment = IF h.thing = "segment" THEN server.segment + 1 ELSE server.segment
      /\ t.cap = IF h.thing = "policy" THEN Cap ELSE server.cap
      /\ t.stored = IF h.thing = "profile" THEN Timeout ELSE server.stored
  BY <1>1, <1>3, <1>4, AfterIs
<1> HIDE DEF t
<1>6. server' = t
  BY DEF t
<1>7. /\ h.thing = "account" =>
           /\ \E i \in Ours(t.accounts) : t.accounts[i] = "stated"
      /\ ~Ambiguous(t.accounts)
  <2>1. CASE h.thing # "account"
    BY <1>5, <2>1 DEF Clear
  <2>2. CASE h = Create("account")
    <3>1. h.thing = "account" /\ h.change = "create"
      BY <2>2, StepIs
    <3>2. Ours(server.accounts) = {}
      BY <1>1, <2>2 DEF Clear, NewIsMissing
    <3>3. Ours(t.accounts) = {Len(server.accounts) + 1}
          /\ t.accounts[Len(server.accounts) + 1] = "stated"
      BY <1>4, <1>5, <3>1, <3>2, ListsOfAccounts
    <3> QED
      BY <3>3 DEF Ambiguous
  <2>3. CASE h = Update("account")
    <3>1. h.thing = "account" /\ h.change = "update"
      BY <2>3, StepIs
    <3>2. Present(server, "account")
      BY <1>1, <2>3 DEF BInv, Wired, Findable
    <3>3. /\ Ours(t.accounts) = Ours(server.accounts) /\ Ours(server.accounts) # {}
          /\ \A i \in Ours(server.accounts) : t.accounts[i] = "stated"
      BY <1>4, <1>5, <3>1, <3>2, ListsOfAccounts DEF Present
    <3> QED
      BY <3>3 DEF Clear, Ambiguous
  <2> QED
    BY <1>1, <2>1, <2>2, <2>3, StepIs
<1>8. StatedOrPending'
  <2>1. \A x \in Listed \ Pending' : t.listed[x] = IF x = h.thing THEN "stated" ELSE server.listed[x]
    BY <1>5
  <2>2. \A x \in Named \ Pending' : t.listed[x] = "stated"
    BY <1>1, <2>1 DEF Clear, StatedOrPending, Listed
  <2>3. \A x \in (Listed \ Named) \ Pending' : t.listed[x] # "absent"
    BY <1>1, <2>1 DEF Clear, StatedOrPending
  <2>4. \A b \in Bindings \ Pending' : t.bound[b] = Bound(b, t.bound[b].tenants)
    BY <1>1, <1>5 DEF Clear, StatedOrPending
  <2>5. "account" \notin Pending' => \E i \in Ours(t.accounts) : t.accounts[i] = "stated"
    BY <1>1, <1>5, <1>7 DEF Clear, StatedOrPending
  <2>6. "policy" \notin Pending' => t.cap = Cap
    BY <1>1, <1>5 DEF Clear, StatedOrPending
  <2>7. "profile" \notin Pending' => (snap.cap = Cap => t.stored = Timeout)
    BY <1>1, <1>5 DEF Clear, StatedOrPending
  <2> QED
    BY <1>6, <2>2, <2>3, <2>4, <2>5, <2>6, <2>7 DEF StatedOrPending
<1>9. NewIsMissing'
  <2>1. \A x : Create(x) \in Range(todo') => Create(x) \in Range(todo) /\ x # h.thing
    BY OneStepEach
  <2>2. \A x \in Named : Create(x) \in Range(todo') => t.listed[x] = "absent"
    BY <1>5, <2>1 DEF Clear, NewIsMissing, Listed
  <2>3. \A b \in Bindings : Create(b) \in Range(todo') => t.bound[b] = Unbound
    BY <1>5, <2>1 DEF Clear, NewIsMissing
  <2>4. Create("account") \in Range(todo') => Ours(t.accounts) = {}
    BY <1>5, <2>1 DEF Clear, NewIsMissing
  <2> QED
    BY <1>6, <2>2, <2>3, <2>4 DEF NewIsMissing
<1>10. VersionsKnown'
  BY <1>1, <1>4, <1>5, <1>6 DEF Clear, VersionsKnown, VersionAfter
<1> QED
  BY <1>6, <1>7, <1>8, <1>9, <1>10 DEF Clear

(* A binding changes while its step is at the head, or is as wanted when it is done. *)
LEMMA BindingClears ==
  ASSUME BInv, phase = "running", todo # <<>>, Clear, NEW b \in Bindings, Head(todo).thing = b,
         NEW v, server' = [server EXCEPT !.bound[b] = v], UNCHANGED <<snap, version>>,
         \/ todo' = todo /\ Head(todo) = Update(b)
         \/ todo' = Tail(todo) /\ v = Bound(b, v.tenants)
  PROVE  Clear'
<1>1. /\ Head(todo) \in Range(todo) /\ b \in Pending
      /\ Range(Tail(todo)) = Range(todo) \ {Head(todo)}
      /\ {g.thing : g \in Range(Tail(todo))} = Pending \ {b}
  BY AtHead
<1>2. server \in Tenants
  BY DEF BInv, Typed
<1>3. /\ server'.listed = server.listed /\ server'.accounts = server.accounts
      /\ server'.cap = server.cap /\ server'.stored = server.stored
      /\ server'.segment = server.segment /\ server'.bound[b] = v
      /\ \A c \in Bindings \ {b} : server'.bound[c] = server.bound[c]
  BY <1>2 DEF Tenants
<1>4. Pending' = Pending \/ (Pending' = Pending \ {b} /\ v = Bound(b, v.tenants))
  BY <1>1 DEF Pending
<1>5. \A x \in Listed \union {"account", "policy", "profile"} : x # b
  BY DEF Bindings, Listed, Named
<1>6. StatedOrPending'
  <2>1. \A c \in Bindings \ Pending' : server'.bound[c] = Bound(c, server'.bound[c].tenants)
    BY <1>1, <1>3, <1>4 DEF Clear, StatedOrPending
  <2>2. \A x \in Listed \union {"account", "policy", "profile"} : x \in Pending' <=> x \in Pending
    BY <1>4, <1>5
  <2> QED
    BY <1>3, <2>1, <2>2 DEF Clear, StatedOrPending, Listed
<1>7. NewIsMissing'
  <2>1. \A x : Create(x) \in Range(todo') => Create(x) \in Range(todo) /\ x # b
    BY <1>1, OneStepEach
  <2> QED
    BY <1>3, <2>1 DEF Clear, NewIsMissing
<1>8. VersionsKnown'
  <2>1. "segment" \in Pending' => "segment" \in Pending
    BY <1>4
  <2> QED
    BY <1>3, <2>1 DEF Clear, VersionsKnown
<1> QED
  BY <1>3, <1>6, <1>7, <1>8 DEF Clear-----------------------------------------------------------------------------
(* What an Apply knows, and says, action by action. *)
Truly == Alone /\ CompleteMeansStated /\ FailsOnlyForCause

LEMMA EndsTruly ==
  ASSUME phase' = "idle", report' # "complete",
         report' = "failed" => disturbed' \/ mishap' # "none"
  PROVE  Truly'
  BY DEF Truly, Alone, ReadTruly, Reading, CompleteMeansStated, FailsOnlyForCause

LEMMA GoesOnTruly ==
  ASSUME phase' # "idle", report' = "none", ~disturbed' => ReadTruly' /\ (phase' = "running" => Clear')
  PROVE  Truly'
  BY DEF Truly, Alone, Clear, CompleteMeansStated, FailsOnlyForCause

LEMMA StartTruly == ASSUME BInv, Start PROVE Truly'
<1>1. /\ phase' = "accounts" /\ report' = "none" /\ snap' = [server EXCEPT !.accounts = <<>>]
      /\ server' = server /\ server \in Tenants
  BY DEF Start, BInv, Typed
<1>2. ReadTruly'
  <2>1. snap'.accounts = <<>> /\ Len(server.accounts) \in Nat
    BY <1>1 DEF Tenants
  <2>2. Len(<<>>) = 0 /\ DOMAIN <<>> = {}
    OBVIOUS
  <2> QED
    BY <1>1, <2>1, <2>2 DEF ReadTruly
<1> QED
  BY <1>1, <1>2, GoesOnTruly

LEMMA ReadPageTruly == ASSUME BInv, Truly, ReadPage PROVE Truly'
<1> DEFINE from == Len(snap.accounts)
<1>1. snap \in Tenants /\ server \in Tenants /\ phase = "accounts" /\ report = "none"
      /\ UNCHANGED <<server, report, disturbed>>
  BY DEF BInv, Typed, InStep, ReadPage, history
<1>2. PICK got : /\ snap' = [snap EXCEPT !.accounts = got] /\ snap' \in Tenants
                 /\ snap'.accounts = got
                 /\ Len(got) = IF from < Len(server.accounts) THEN from + 1 ELSE from
                 /\ \A i \in 1 .. from : got[i] = snap.accounts[i]
                 /\ from < Len(server.accounts) => got[from + 1] = server.accounts[from + 1]
                 /\ phase' = IF from < Len(server.accounts) /\ from + 1 < Len(server.accounts)
                             THEN "accounts" ELSE "network"
  BY <1>1, PageIs
<1>3. ASSUME ~disturbed PROVE ReadTruly'
  <2>1. /\ snap = [server EXCEPT !.accounts = snap.accounts]
        /\ from <= Len(server.accounts)
        /\ \A i \in DOMAIN snap.accounts : snap.accounts[i] = server.accounts[i]
    BY <1>1, <1>3 DEF Truly, Alone, ReadTruly, Reading
  <2>2. /\ got \in Lists3 /\ snap.accounts \in Lists3 /\ server.accounts \in Lists3
        /\ from \in Nat /\ Len(server.accounts) \in Nat /\ DOMAIN snap.accounts = 1 .. from
        /\ DOMAIN got = 1 .. Len(got)
    BY <1>1, <1>2, ListsOfAccounts DEF Tenants, Lists3
  <2>3. Len(got) <= Len(server.accounts)
    BY <1>2, <2>1, <2>2
  <2>4. \A i \in 1 .. Len(got) : got[i] = server.accounts[i]
    <3> SUFFICES ASSUME NEW i \in 1 .. Len(got) PROVE got[i] = server.accounts[i]
      OBVIOUS
    <3>1. CASE i \in 1 .. from
      BY <1>2, <2>1, <2>2, <3>1
    <3>2. CASE i \notin 1 .. from
      <4>1. i = from + 1 /\ from < Len(server.accounts)
        BY <1>2, <2>2, <3>2
      <4> QED
        BY <1>2, <4>1
    <3> QED
      BY <3>1, <3>2
  <2>5. phase' # "accounts" => got = server.accounts
    <3>1. phase' # "accounts" => Len(got) = Len(server.accounts)
      BY <1>2, <2>1, <2>2
    <3> QED
      BY <2>2, <2>4, <3>1, SeqEqual DEF Lists3
  <2>6. snap' = [server EXCEPT !.accounts = got]
    BY <1>1, <1>2, <2>1 DEF Tenants
  <2> QED
    BY <1>1, <1>2, <2>2, <2>3, <2>4, <2>5, <2>6 DEF ReadTruly
<1> QED
  BY <1>1, <1>2, <1>3, GoesOnTruly

LEMMA ReadNetworkTruly == ASSUME BInv, Truly, ReadNetwork PROVE Truly'
<1>1. snap \in Tenants /\ server \in Tenants /\ phase = "network" /\ phase' = "planning"
      /\ report = "none" /\ UNCHANGED <<server, report, disturbed>>
  BY DEF BInv, Typed, InStep, ReadNetwork, history
<1>2. ASSUME ~disturbed PROVE ReadTruly'
  <2>1. /\ snap = [server EXCEPT !.accounts = snap.accounts] /\ snap.accounts = server.accounts
    BY <1>1, <1>2 DEF Truly, Alone, ReadTruly, Reading
  <2>2. snap = server
    BY <1>1, <2>1 DEF Tenants
  <2>3. snap' = [server EXCEPT !.cap = server.cap, !.stored = server.stored,
                   !.segment = server.segment, !.listed["segment"] = server.listed["segment"]]
    BY <2>2 DEF ReadNetwork
  <2>4. server.listed = [server.listed EXCEPT !["segment"] = server.listed["segment"]]
    BY <1>1 DEF Tenants
  <2>5. snap' = [server EXCEPT !.listed = server.listed]
    BY <1>1, <2>3, <2>4 DEF Tenants
  <2>6. snap' = server
    BY <1>1, <2>5 DEF Tenants
  <2>7. server = [server EXCEPT !.accounts = server.accounts] /\ Len(server.accounts) \in Nat
    BY <1>1 DEF Tenants
  <2> QED
    BY <1>1, <2>6, <2>7 DEF ReadTruly
<1> QED
  BY <1>1, <1>2, GoesOnTruly

LEMMA PlanTruly == ASSUME BInv, Truly, Plan PROVE Truly'
<1>1. /\ phase = "planning" /\ UNCHANGED <<server, snap, stage, faults, meddling, history>>
      /\ snap \in Tenants /\ server \in Tenants /\ Sound(server) /\ report = "none"
  BY DEF Plan, BInv, Typed, InStep
<1>2. CASE Ambiguous(snap.accounts)
  BY <1>2, EndsTruly DEF Plan
<1>3. CASE ~Ambiguous(snap.accounts)
  <2> DEFINE q == computeSteps(snap)
  <2>1. /\ todo' = q /\ version' = snap.segment /\ phase' = "running" /\ report' = report
    BY <1>3 DEF Plan
  <2>2. ASSUME ~disturbed PROVE Clear'
    <3>1. snap = server
      <4>1. snap = [server EXCEPT !.accounts = snap.accounts] /\ snap.accounts = server.accounts
        BY <1>1, <2>2 DEF Truly, Alone, ReadTruly, Reading
      <4> QED
        BY <1>1, <4>1 DEF Tenants
    <3>2. ASSUME NEW x \in Things, x \notin Pending' PROVE Planned(server, x) = <<>>
      BY <1>1, <2>1, <3>1, <3>2, PlanPending DEF Pending
    <3>3. ASSUME NEW x \in Things, Create(x) \in Range(q) PROVE Planned(server, x) = <<Create(x)>>
      <4>1. Create(x) \in Steps /\ Create(x).thing = x
        BY StepIs
      <4> QED
        BY <1>1, <3>1, <3>3, <4>1, PlanLists
    <3>4. StatedOrPending'
      <4>1. \A x \in Named \ Pending' : server.listed[x] = "stated"
        BY <1>1, <3>2, NoStep, ThingsAre DEF Named
      <4>2. \A x \in (Listed \ Named) \ Pending' : server.listed[x] # "absent"
        BY <1>1, <3>2, NoStep, ThingsAre DEF Listed
      <4>3. \A b \in Bindings \ Pending' : server.bound[b] = Bound(b, server.bound[b].tenants)
        BY <1>1, <3>2, NoStep, ThingsAre DEF Bindings
      <4>4. "account" \notin Pending' => \E i \in Ours(server.accounts) : server.accounts[i] = "stated"
        BY <1>1, <3>2, NoStep, ThingsAre
      <4>5. "policy" \notin Pending' => server.cap = Cap
        BY <1>1, <3>2, NoStep, ThingsAre
      <4>6. "profile" \notin Pending' => (server.cap = Cap => server.stored = Timeout)
        BY <1>1, <3>2, NoStep, ThingsAre
      <4> QED
        BY <1>1, <3>1, <4>1, <4>2, <4>3, <4>4, <4>5, <4>6 DEF StatedOrPending
    <3>5. NewIsMissing'
      <4>1. \A x \in Named : Create(x) \in Range(q) => server.listed[x] = "absent"
        BY <1>1, <3>3, CreateStep, ThingsAre DEF Named
      <4>2. \A b \in Bindings : Create(b) \in Range(q) => server.bound[b] = Unbound
        BY <1>1, <3>3, CreateStep, ThingsAre DEF Bindings
      <4>3. Create("account") \in Range(q) => Ours(server.accounts) = {}
        BY <1>1, <3>3, CreateStep, ThingsAre
      <4> QED
        BY <1>1, <2>1, <4>1, <4>2, <4>3 DEF NewIsMissing
    <3>6. VersionsKnown' /\ ~Ambiguous(server'.accounts)
      BY <1>1, <1>3, <2>1, <3>1 DEF VersionsKnown
    <3> QED
      BY <3>4, <3>5, <3>6 DEF Clear
  <2>3. ReadTruly' /\ disturbed' = disturbed
    BY <1>1, <2>1 DEF ReadTruly, Reading, history
  <2> QED
    BY <1>1, <2>1, <2>2, <2>3, GoesOnTruly
<1> QED
  BY <1>2, <1>3
LEMMA RunTruly == ASSUME BInv, Truly, NEW h, Run(h) PROVE Truly'
<1>1. /\ phase = "running" /\ todo # <<>> /\ h = Head(todo) /\ h.thing \notin Bindings
      /\ snap' = snap /\ report = "none"
  BY DEF Run, BInv, InStep
<1>2. ~disturbed => Clear
  BY <1>1 DEF Truly, Alone, Clear
<1>3. CASE Takes(h) /\ server' = After(h) /\ version' = VersionAfter(h) /\ Advance /\ NoMishap
  <2>1. /\ phase' = "running" /\ report' = "none" /\ disturbed' = disturbed /\ todo' = Tail(todo)
    BY <1>1, <1>3 DEF Advance, NoMishap, history
  <2>2. ReadTruly'
    BY <2>1 DEF ReadTruly, Reading
  <2>3. ~disturbed => Clear'
    BY <1>1, <1>2, <1>3, <2>1, RunClears
  <2> QED
    BY <2>1, <2>2, <2>3, GoesOnTruly
<1>4. CASE (IF Takes(h) THEN Mishap("refused") ELSE NoMishap) /\ Stop("failed")
  <2>1. phase' = "idle" /\ report' = "failed"
    BY <1>4 DEF Stop
  <2>2. CASE Takes(h)
    <3>1. mishap' = "refused"
      BY <1>4, <2>2, MishapIs
    <3> QED
      BY <2>1, <3>1, EndsTruly
  <2>3. CASE ~Takes(h)
    <3>1. disturbed
      BY <1>1, <1>2, <2>3, AloneTakes DEF Clear
    <3>2. disturbed' = disturbed
      BY <1>4, <2>3, NoMishapIs
    <3> QED
      BY <2>1, <3>1, <3>2, EndsTruly
  <2> QED
    BY <2>2, <2>3
<1>5. CASE Mishap("unsure") /\ Stop("failed")
  BY <1>5, MishapIs, EndsTruly DEF Stop
<1> QED
  BY <1>3, <1>4, <1>5 DEF Run

LEMMA UnassignTruly == ASSUME BInv, Truly, NEW b \in Bindings, Unassign(b) PROVE Truly'
<1>1. /\ phase = "running" /\ todo # <<>> /\ Head(todo) = Update(b) /\ Head(todo).thing = b
      /\ UNCHANGED <<snap, version>> /\ report = "none"
  BY StepIs DEF Unassign, BInv, InStep, Update
<1>2. CASE /\ server' = [server EXCEPT !.bound[b] = Unbound]
           /\ NoMishap /\ UNCHANGED <<phase, todo, report>>
  <2>1. disturbed' = disturbed /\ ReadTruly'
    BY <1>1, <1>2 DEF NoMishap, history, ReadTruly, Reading
  <2>2. ~disturbed => Clear'
    <3>1. ~disturbed => Clear
      BY <1>1 DEF Truly, Alone, Clear
    <3> QED
      BY <1>1, <1>2, <3>1, BindingClears
  <2> QED
    BY <1>1, <1>2, <2>1, <2>2, GoesOnTruly
<1>3. CASE Mishap("refused") /\ Stop("failed")
  BY <1>3, MishapIs, EndsTruly DEF Stop
<1>4. CASE Mishap("unsure") /\ Stop("failed")
  BY <1>4, MishapIs, EndsTruly DEF Stop
<1> QED
  BY <1>2, <1>3, <1>4 DEF Unassign

LEMMA AssignTruly == ASSUME BInv, Truly, NEW b \in Bindings, Assign(b) PROVE Truly'
<1> DEFINE h == Head(todo)
           takes == Known(b) /\ server.bound[b] = Unbound
           v == Bound(b, Carried(b, h.change))
           done == [server EXCEPT !.bound[b] = v]
<1>1. /\ phase = "running" /\ todo # <<>> /\ h.thing = b
      /\ UNCHANGED <<snap, version>> /\ report = "none"
  BY DEF Assign, BInv, InStep
<1>2. Known(b) /\ h \in Steps /\ h \in Range(todo) /\ (h = Create(b) \/ h = Update(b))
  BY <1>1, AtHead, StepIs
<1>3. ~disturbed => Clear
  BY <1>1 DEF Truly, Alone, Clear
<1>4. v = Bound(b, v.tenants)
  BY DEF Bound
<1>5. CASE takes /\ server' = done /\ Advance /\ NoMishap
  <2>1. /\ phase' = "running" /\ report' = "none" /\ disturbed' = disturbed /\ todo' = Tail(todo)
    BY <1>1, <1>5 DEF Advance, NoMishap, history
  <2>2. ReadTruly'
    BY <2>1 DEF ReadTruly, Reading
  <2>3. ~disturbed => Clear'
    <3> HIDE DEF v
    <3> QED
      BY <1>1, <1>3, <1>4, <1>5, <2>1, BindingClears
  <2> QED
    BY <2>1, <2>2, <2>3, GoesOnTruly
<1>6. CASE (IF takes THEN Mishap("refused") ELSE NoMishap) /\ AssignFails(h) /\ UNCHANGED server
  <2>1. disturbed' = disturbed /\ (takes => mishap' = "refused")
    BY <1>6, MishapIs, NoMishapIs
  <2>2. CASE h = Create(b)
    <3>1. phase' = "idle" /\ report' = "failed"
      BY <1>6, <2>2, StepIs DEF AssignFails, Stop
    <3>2. ~disturbed => takes
      BY <1>2, <1>3, <2>2 DEF Clear, NewIsMissing
    <3> QED
      BY <2>1, <3>1, <3>2, EndsTruly
  <2>3. CASE h = Update(b)
    <3>1. UNCHANGED <<phase, todo, report>>
      BY <1>6, <2>3, StepIs DEF AssignFails, Update
    <3>2. ReadTruly'
      BY <1>1, <3>1 DEF ReadTruly, Reading
    <3>3. ~disturbed => Clear'
      BY <1>1, <1>3, <1>6, <3>1 DEF Clear, StatedOrPending, NewIsMissing, VersionsKnown, Pending
    <3> QED
      BY <1>1, <2>1, <3>1, <3>2, <3>3, GoesOnTruly
  <2> QED
    BY <1>2, <2>2, <2>3
<1>7. CASE takes /\ Mishap("unsure") /\ server' = done /\ AssignFails(h)
  <2>1. disturbed' = disturbed /\ mishap' = "unsure"
    BY <1>7, MishapIs
  <2>2. CASE h = Create(b)
    <3>1. phase' = "idle" /\ report' = "failed"
      BY <1>7, <2>2, StepIs DEF AssignFails, Stop
    <3> QED
      BY <2>1, <3>1, EndsTruly
  <2>3. CASE h = Update(b)
    <3>1. UNCHANGED <<phase, todo, report>>
      BY <1>7, <2>3, StepIs DEF AssignFails, Update
    <3>2. ReadTruly'
      BY <1>1, <3>1 DEF ReadTruly, Reading
    <3>3. ~disturbed => Clear'
      <4> HIDE DEF v
      <4> QED
        BY <1>1, <1>3, <1>7, <2>3, <3>1, BindingClears
    <3> QED
      BY <1>1, <2>1, <3>1, <3>2, <3>3, GoesOnTruly
  <2> QED
    BY <1>2, <2>2, <2>3
<1> QED
  BY <1>5, <1>6, <1>7 DEF Assign

LEMMA RestoreTruly == ASSUME BInv, NEW b \in Bindings, Restore(b) PROVE Truly'
  BY EndsTruly DEF Restore, Stop

LEMMA CrashTruly == ASSUME Crash PROVE Truly'
  BY EndsTruly DEF Crash, Stop

LEMMA FinishTruly == ASSUME BInv, Truly, Finish PROVE Truly'
<1>1. /\ phase = "running" /\ todo = <<>> /\ phase' = "idle" /\ report' = "complete"
      /\ UNCHANGED <<server, snap, disturbed>>
  BY DEF Finish, Stop, history
<1>2. Pending = {}
  BY <1>1 DEF Pending, Range
<1>3. ASSUME ~disturbed
      PROVE  AsStated /\ (snap.cap = Cap => Effective(server.stored, server.cap) = Timeout)
  <2>1. StatedOrPending /\ ~Ambiguous(server.accounts)
    BY <1>1, <1>3 DEF Truly, Alone
  <2>2. server.cap = Cap /\ (snap.cap = Cap => server.stored = Timeout)
    BY <1>2, <2>1 DEF StatedOrPending
  <2>3. snap.cap = Cap => Effective(server.stored, server.cap) = Timeout
    BY <2>2 DEF Effective, Timeout, Cap
  <2> QED
    BY <1>2, <2>1, <2>2, <2>3 DEF StatedOrPending, AsStated
<1>4. (AsStated /\ (snap.cap = Cap => Effective(server.stored, server.cap) = Timeout)) =>
      (AsStated /\ (snap.cap = Cap => Effective(server.stored, server.cap) = Timeout))'
  BY <1>1 DEF AsStated
<1>5. CompleteMeansStated'
  BY <1>1, <1>3, <1>4 DEF CompleteMeansStated
<1> QED
  BY <1>1, <1>5 DEF Truly, Alone, ReadTruly, Reading, FailsOnlyForCause

LEMMA MeddleTruly == ASSUME Meddle PROVE Truly'
  BY DEF Meddle, Truly, Alone, CompleteMeansStated, FailsOnlyForCause

LEMMA StutterTruly == ASSUME Truly, UNCHANGED vars PROVE Truly'
<1>1. UNCHANGED <<server, phase, snap, todo, stage, resolved, version, report, faults, meddling,
                  disturbed, theirs, mishap, first>>
  BY DEF vars, client, history
<1>2. Pending' = Pending
  BY <1>1 DEF Pending
<1>3. Alone'
  BY <1>1, <1>2 DEF Truly, Alone, ReadTruly, Reading, StatedOrPending, NewIsMissing, VersionsKnown
<1>4. CompleteMeansStated' /\ FailsOnlyForCause'
  BY <1>1 DEF Truly, CompleteMeansStated, AsStated, FailsOnlyForCause
<1> QED
  BY <1>3, <1>4 DEF Truly

LEMMA InitTruly == ASSUME Init PROVE Truly
  BY DEF Init, Truly, Alone, ReadTruly, Reading, CompleteMeansStated, FailsOnlyForCause

LEMMA StepTruly == ASSUME BInv, Truly, [Next]_vars PROVE Truly'
  BY StartTruly, ReadPageTruly, ReadNetworkTruly, PlanTruly, RunTruly, UnassignTruly, AssignTruly,
     RestoreTruly, FinishTruly, CrashTruly, MeddleTruly, StutterTruly
  DEF Next, ApplyStep, ChangeAccounts, ChangeSegment

LEMMA AlwaysA == Spec => []AInv
<1>1. Init => AInv
  BY InitB, InitTruly DEF AInv, Truly
<1>2. AInv /\ [Next]_vars => AInv'
  BY StepB, StepTruly DEF AInv, Truly
<1> QED
  BY <1>1, <1>2, PTL DEF Spec
-----------------------------------------------------------------------------
(* Every variable keeps its type, and an Apply that has ended has no step left. *)
THEOREM TypeCorrect == Spec => []TypeOK
<1>1. ASSUME BInv PROVE TypeOK
  <2>1. /\ server \in Tenants /\ todo \in Seq(Steps)
        /\ resolved \in [Things -> Things \union {"none"}]
    BY <1>1 DEF BInv, Typed
  <2>2. Range(server.accounts) \subseteq {"foreign", "other", "stated"}
    <3>1. server.accounts \in Lists3
      BY <2>1 DEF Tenants, Lists3
    <3> QED
      BY <3>1, ListsOfAccounts DEF Range
  <2>3. \A i \in DOMAIN todo : todo[i] \in Steps
    BY <2>1
  <2>4. resolved \in [Things -> Things \union {"none", "stray"}]
    BY <2>1
  <2>5. \A b \in Bindings : server.bound[b] = Unbound \/ server.bound[b] \in Held
    BY <2>1 DEF Tenants
  <2>6. /\ server.listed \in [Listed -> {"absent", "other", "stated"}]
        /\ server.stray \in {"absent", "there", "touched"}
        /\ server.cap \in 1 .. Cap /\ server.stored \in 0 .. 2 /\ server.segment \in Nat
    BY <2>1 DEF Tenants
  <2> QED
    BY <1>1, <2>2, <2>3, <2>4, <2>5, <2>6 DEF TypeOK, BInv, Typed, InStep, Steps, Held
<1> QED
  BY <1>1, AlwaysB, PTL

(* What nobody declared, or somebody changed, is not Apply's to take: a binding that was read is
   kept or is as stated, unless the report or the history of the requests says why not; the
   other administrator's segment is not written over; a resource elsewhere is not touched. *)
THEOREM TakesNothing == Spec => []OthersUntouched
<1>1. ASSUME BInv PROVE OthersUntouched
  <2>1. BindingKept
    BY <1>1 DEF BInv, BindingKept, BindingsHold, InStep
  <2>2. AdminsChangeSurvives
    BY <1>1 DEF BInv, VersionsGrow, AdminsChangeSurvives
  <2> QED
    BY <1>1, <2>1, <2>2 DEF BInv, OthersUntouched
<1> QED
  BY <1>1, AlwaysB, PTL

(* What an Apply reports is true: complete means that the tenant is as stated, failed that
   somebody else wrote or that a request went wrong. *)
THEOREM ReportIsTrue == Spec => []ReportsTruly
<1>1. AInv => CompleteMeansStated /\ FailsOnlyForCause
  BY DEF AInv
<1>2. CompleteMeansStated /\ FailsOnlyForCause /\ TypeOK => ReportsTruly
  BY DEF ReportsTruly
<1> QED
  BY <1>1, <1>2, AlwaysA, TypeCorrect, PTL

(* No Apply makes a second account of the stated name, unless the list moved as it was walked. *)
THEOREM MakesOneAccount == Spec => OneAccount
<1>1. ASSUME AInv, [Next]_vars PROVE [Ambiguous(server'.accounts) => disturbed']_server
  <2> SUFFICES ASSUME server' # server, ~disturbed'
               PROVE  ~Ambiguous(server'.accounts)
    OBVIOUS
  <2>1. BInv /\ Truly /\ server \in Tenants
    BY <1>1 DEF AInv, Truly, BInv, Typed
  <2>2. ASSUME NEW b \in Bindings, NEW v, server' = [server EXCEPT !.bound[b] = v],
               phase = "running", disturbed' = disturbed
        PROVE  ~Ambiguous(server'.accounts)
    <3>1. server'.accounts = server.accounts
      BY <2>1, <2>2 DEF Tenants
    <3> QED
      BY <2>1, <2>2, <3>1 DEF Truly, Alone
  <2>3. ASSUME NEW h, Run(h) PROVE ~Ambiguous(server'.accounts)
    <3>1. /\ phase = "running" /\ todo # <<>> /\ h = Head(todo) /\ h.thing \notin Bindings
          /\ snap' = snap /\ server' = After(h)
      BY <2>3 DEF Run
    <3>2. disturbed' = disturbed
      BY <2>1, <2>3, MishapIs, NoMishapIs DEF Run
    <3>3. Clear
      BY <2>1, <3>1, <3>2 DEF Truly, Alone, Clear
    <3>4. h \in Steps /\ h \in Range(todo) /\ Known(h.thing)
          /\ \A x \in Things : resolved[x] \in {x, "none"}
      BY <2>1, <3>1, AtHead DEF BInv, Wired
    <3>5. h.thing = "child" => resolved["child"] # "stray" /\ resolved["parent"] # "none"
      BY <3>4, NeedsAre, ThingsAre DEF Known
    <3>6. server'.accounts = IF h.thing # "account" THEN server.accounts
                             ELSE IF h.change = "create" THEN Append(server.accounts, "stated")
                             ELSE Restated(server.accounts)
      BY <2>1, <3>1, <3>4, <3>5, AfterIs
    <3>7. server.accounts \in Lists3
      BY <2>1 DEF Tenants, Lists3
    <3>8. CASE h = Create("account")
      <4>1. Ours(server'.accounts) = {Len(server.accounts) + 1}
        BY <3>3, <3>4, <3>6, <3>7, <3>8, ListsOfAccounts, StepIs DEF Clear, NewIsMissing
      <4> QED
        BY <4>1 DEF Ambiguous
    <3>9. CASE h # Create("account")
      <4>1. Ours(server'.accounts) = Ours(server.accounts)
        BY <3>4, <3>6, <3>7, <3>9, ListsOfAccounts, StepIs DEF Create
      <4> QED
        BY <3>3, <4>1 DEF Clear, Ambiguous
    <3> QED
      BY <3>8, <3>9
  <2>4. ASSUME NEW b \in Bindings, Unassign(b) PROVE ~Ambiguous(server'.accounts)
    <3>1. phase = "running" /\ disturbed' = disturbed
          /\ server' = [server EXCEPT !.bound[b] = Unbound]
      BY <2>1, <2>4, MishapIs, NoMishapIs DEF Unassign
    <3> QED
      BY <2>2, <3>1
  <2>5. ASSUME NEW b \in Bindings, Assign(b) PROVE ~Ambiguous(server'.accounts)
    <3>1. phase = "running" /\ disturbed' = disturbed
          /\ server' = [server EXCEPT !.bound[b] = Bound(b, Carried(b, Head(todo).change))]
      BY <2>1, <2>5, MishapIs, NoMishapIs DEF Assign
    <3> QED
      BY <2>2, <3>1
  <2>6. ASSUME NEW b \in Bindings, Restore(b) PROVE ~Ambiguous(server'.accounts)
    <3>1. phase = "running" /\ disturbed' = disturbed
          /\ server' = [server EXCEPT !.bound[b] = Restored(b)]
      BY <2>1, <2>6, MishapIs, NoMishapIs DEF Restore
    <3> QED
      BY <2>2, <3>1
  <2>7. ChangeAccounts \/ ChangeSegment => disturbed'
    BY DEF ChangeAccounts, ChangeSegment, Meddle
  <2>8. Start \/ ReadPage \/ ReadNetwork \/ Plan \/ Finish \/ Crash \/ UNCHANGED vars => server' = server
    BY DEF Start, ReadPage, ReadNetwork, Plan, Finish, Crash, vars
  <2> QED
    BY <1>1, <2>3, <2>4, <2>5, <2>6, <2>7, <2>8 DEF Next, ApplyStep
<1> QED
  BY <1>1, AlwaysA, PTL DEF Spec, OneAccount
=============================================================================
