----------------------------- MODULE Reconcile -----------------------------
(***************************************************************************)
(* Reconciling a manifest against a tenant (management_reconcile*.go and   *)
(* the network part of the manifest): Apply reads the tenant, plans the    *)
(* steps, and runs them until one fails; its caller applies again.         *)
(*                                                                         *)
(* The manifest has one thing of each target, wired so that every kind of  *)
(* reference occurs.  A thing of the tenant is "absent", as "stated", or   *)
(* "other" when a stated field of it differs.  A role binding is what it   *)
(* is on the server: where it holds, whether it inherits, and the tenants  *)
(* it is confined to, which no manifest states.  Of the profile there is   *)
(* the stored Session-Timeout, and a read lowers it to the policy's cap.   *)
(*                                                                         *)
(* The server is external.  A request may be refused, or be carried out    *)
(* with its answer lost, and the process may end between two requests.     *)
(* Another administrator changes the list of service accounts or the       *)
(* network segment at any moment.                                          *)
(*                                                                         *)
(* FirstPageOnly, OnlyForNew, KeepVersion and BareRestore are faulty       *)
(* variants.                                                               *)
(***************************************************************************)
EXTENDS Naturals, Sequences, SequencesExt, FiniteSets

CONSTANTS
    Deviations,     \* the ways the tenant may differ from the manifest, at most two at once
    MaxFaults,      \* requests refused or unanswered, and crashes
    MaxMeddling     \* writes of the other administrator

ASSUME ReconcileConstants ==
    /\ IsFiniteSet(Deviations)
    /\ MaxFaults \in Nat /\ MaxMeddling \in Nat

Bindings == {"groupRole", "userRole", "accountRole"}

\* Things planned by name: found as stated, found with a field that differs, or not found.
Named == {"parent", "child", "permission", "role", "group", "user", "segment"}
Listed == Named \union {"scope", "grant", "member"}

\* What each thing of the manifest refers to.
Needs == [parent |-> {}, child |-> {"parent"}, scope |-> {"child"}, permission |-> {},
          role |-> {}, grant |-> {"role", "permission", "scope"}, group |-> {},
          groupRole |-> {"role", "group"}, user |-> {},
          userRole |-> {"role", "user", "child"}, member |-> {"group", "user"},
          account |-> {}, accountRole |-> {"role", "account", "child"},
          policy |-> {}, segment |-> {}, profile |-> {"segment"}]
Things == DOMAIN Needs

SubjectOf == [groupRole |-> "group", userRole |-> "user", accountRole |-> "account"]

Everywhere == "all the organization's tenants"
Confined == "one tenant"
Unbound == [at |-> "nowhere", inherits |-> FALSE, tenants |-> Everywhere]
Wanted == [groupRole |-> [at |-> "tenant", inherits |-> TRUE],
           userRole |-> [at |-> "child", inherits |-> FALSE],
           accountRole |-> [at |-> "child", inherits |-> TRUE]]
Bound(b, tenants) == [at |-> Wanted[b].at, inherits |-> Wanted[b].inherits, tenants |-> tenants]

Cap == 2       \* the cap the manifest states
Timeout == 1   \* the Session-Timeout it states

VARIABLES
    server,    \* the tenant
    phase,     \* where the Apply is: idle, accounts, network, planning, running
    snap,      \* what it has read
    todo,      \* the steps still to run
    stage,     \* the request a binding step is at
    resolved,  \* the server's thing each manifest key stands for
    version,   \* the segment version a profile write will send
    report,    \* how the last Apply ended
    faults, meddling,
    disturbed, \* history: the other administrator wrote since the last Apply began
    theirs,    \* history: and changed the segment after it had been read
    mishap,    \* history: the worst that befell the last Apply: none, refused, unsure
    first      \* history: the role bindings at the very start

client == <<phase, snap, todo, stage, resolved, version, report>>
history == <<disturbed, theirs, mishap, first>>
vars == <<server, client, faults, meddling, history>>

-----------------------------------------------------------------------------
\* The tenants an Apply may find.
WithDependents(X) == X \union {x \in Things : Needs[x] \intersect X # {}}

Gone(D) ==
    WithDependents(WithDependents(WithDependents({x \in Things : <<"missing", x>> \in D})))

Found(D) ==
    [listed |-> [x \in Listed |-> IF x \in Gone(D) THEN "absent"
                                  ELSE IF <<"other", x>> \in D THEN "other" ELSE "stated"],
     stray |-> IF <<"stray", "child">> \in D THEN "there" ELSE "absent",
     bound |-> [b \in Bindings |->
                  IF {"role", SubjectOf[b]} \intersect Gone(D) # {} THEN Unbound
                  ELSE IF <<"elsewhere", b>> \in D /\ "parent" \notin Gone(D)
                  THEN [at |-> "parent", inherits |-> TRUE, tenants |-> Confined]
                  ELSE IF b \in Gone(D) THEN Unbound
                  ELSE IF <<"inherit", b>> \in D
                  THEN [Bound(b, Confined) EXCEPT !.inherits = ~@]
                  ELSE Bound(b, Confined)],
     accounts |-> IF "account" \in Gone(D) THEN <<"foreign">>
                  ELSE <<"foreign", IF <<"other", "account">> \in D THEN "other" ELSE "stated">>,
     cap |-> IF <<"other", "policy">> \in D THEN 1 ELSE Cap,
     stored |-> IF "profile" \in Gone(D) THEN 0
                ELSE IF <<"other", "profile">> \in D THEN 2 ELSE Timeout,
     segment |-> 0]

Nothing == [x \in Things |-> "none"]

Init ==
    /\ \E D \in {{}} \union {{x, y} : x, y \in Deviations} : server = Found(D)
    /\ phase = "idle" /\ snap = server /\ todo = <<>> /\ stage = "first"
    /\ resolved = Nothing /\ version = 0 /\ report = "none"
    /\ faults = MaxFaults /\ meddling = MaxMeddling
    /\ disturbed = FALSE /\ theirs = FALSE /\ mishap = "none"
    /\ first = server.bound

Ours(accounts) == {i \in DOMAIN accounts : accounts[i] # "foreign"}
Ambiguous(accounts) == \E i, j \in Ours(accounts) : i # j
Effective(stored, cap) == IF stored < cap THEN stored ELSE cap

-----------------------------------------------------------------------------
\* read.  The lists nobody else changes are one action.
Start ==
    /\ phase = "idle"
    /\ phase' = "accounts"
    /\ snap' = [server EXCEPT !.accounts = <<>>]
    /\ todo' = <<>> /\ stage' = "first" /\ resolved' = Nothing /\ version' = 0
    /\ report' = "none"
    /\ disturbed' = FALSE /\ theirs' = FALSE /\ mishap' = "none"
    /\ UNCHANGED <<server, faults, meddling, first>>

\* collectPages, with one account to a page, from the offset that what came so far adds up to.
FirstPageOnly(got, list) == TRUE
Walked(got, list) == Len(got) >= Len(list)

ReadPage ==
    /\ phase = "accounts"
    /\ LET from == Len(snap.accounts)
           page == IF from < Len(server.accounts) THEN <<server.accounts[from + 1]>> ELSE <<>>
           got == snap.accounts \o page
       IN /\ snap' = [snap EXCEPT !.accounts = got]
          /\ phase' = IF page = <<>> \/ Walked(got, server.accounts) THEN "network" ELSE phase
    /\ UNCHANGED <<server, todo, stage, resolved, version, report, faults, meddling, history>>

ReadNetwork ==
    /\ phase = "network"
    /\ snap' = [snap EXCEPT !.cap = server.cap, !.stored = server.stored,
                            !.segment = server.segment, !.listed["segment"] = server.listed["segment"]]
    /\ phase' = "planning"
    /\ UNCHANGED <<server, todo, stage, resolved, version, report, faults, meddling, history>>

-----------------------------------------------------------------------------
\* computeSteps.  A pending resource has no id, and a child of one is not looked for.
Matching(s, parentID) ==
    CASE parentID = "parent" -> IF s.listed["child"] # "absent" THEN "child" ELSE "none"
      [] parentID = "none" -> IF s.stray # "absent" THEN "stray" ELSE "none"
ChildFound(s) == IF s.listed["parent"] = "absent" THEN "none" ELSE Matching(s, "parent")

Resolve(s) ==
    [x \in Things |->
        CASE x = "child" -> ChildFound(s)
          [] x \in Named \ {"child"} -> IF s.listed[x] # "absent" THEN x ELSE "none"
          [] x = "scope" -> IF ChildFound(s) = "child" /\ s.listed[x] # "absent" THEN x ELSE "none"
          [] x = "account" -> IF Ours(s.accounts) # {} THEN x ELSE "none"
          [] OTHER -> "none"]

Step(x, change) == <<[thing |-> x, change |-> change]>>

PlanNamed(s, x) ==
    CASE Resolve(s)[x] = "none" -> Step(x, "create")
      [] Resolve(s)[x] = "stray" -> Step(x, "update")
      [] Resolve(s)[x] = x -> IF s.listed[x] = "other" THEN Step(x, "update") ELSE <<>>

\* Scopes, grants and members are created, never compared any further.
OnlyForNew(s, x) ==
    IF \A n \in Needs[x] \ {"scope"} : Resolve(s)[n] = n THEN <<>> ELSE Step(x, "create")
PlanPresence(s, x) ==
    IF (\A n \in Needs[x] \ {"scope"} : Resolve(s)[n] = n) /\ s.listed[x] # "absent"
    THEN <<>> ELSE Step(x, "create")

sameBinding(s, b) ==
    /\ s.bound[b].at = Wanted[b].at
    /\ s.bound[b].inherits = Wanted[b].inherits

planRoleBinding(s, b) ==
    IF Resolve(s)["role"] = "none" \/ Resolve(s)[SubjectOf[b]] = "none" \/ s.bound[b] = Unbound
    THEN Step(b, "create")
    ELSE IF sameBinding(s, b) THEN <<>> ELSE Step(b, "update")

PlanAccount(s) ==
    IF Ours(s.accounts) = {} THEN Step("account", "create")
    ELSE IF \E i \in Ours(s.accounts) : s.accounts[i] = "other" THEN Step("account", "update")
    ELSE <<>>

PlanPolicy(s) == IF s.cap = Cap THEN <<>> ELSE Step("policy", "update")

PlanProfile(s) ==
    IF s.stored = 0 THEN Step("profile", "create")
    ELSE IF Effective(s.stored, s.cap) # Timeout THEN Step("profile", "update") ELSE <<>>

computeSteps(s) ==
    PlanNamed(s, "parent") \o PlanNamed(s, "child") \o PlanPresence(s, "scope")
    \o PlanNamed(s, "permission") \o PlanNamed(s, "role") \o PlanPresence(s, "grant")
    \o PlanNamed(s, "group") \o planRoleBinding(s, "groupRole")
    \o PlanNamed(s, "user") \o planRoleBinding(s, "userRole") \o PlanPresence(s, "member")
    \o PlanAccount(s) \o planRoleBinding(s, "accountRole")
    \o PlanPolicy(s) \o PlanNamed(s, "segment") \o PlanProfile(s)

\* Two accounts of the stated name stop the Apply before it writes.
Plan ==
    /\ phase = "planning"
    /\ IF Ambiguous(snap.accounts)
       THEN /\ phase' = "idle" /\ report' = "refused"
            /\ UNCHANGED <<todo, resolved, version>>
       ELSE /\ todo' = computeSteps(snap)
            /\ resolved' = Resolve(snap)
            /\ version' = snap.segment
            /\ phase' = "running" /\ UNCHANGED report
    /\ UNCHANGED <<server, snap, stage, faults, meddling, history>>

-----------------------------------------------------------------------------
\* The server's side of a request.  A reference to a key that has no id is refused.
Known(x) == \A n \in Needs[x] : resolved[n] = n

\* The version a segment write carries is the one that was read.
SegmentSent == snap.segment

Takes(h) ==
    CASE h.thing = "segment" /\ h.change = "update" -> SegmentSent = server.segment
      [] h.thing = "profile" -> Known("profile") /\ version = server.segment /\ Timeout <= server.cap
      [] h.thing \in Named /\ h.change = "create" -> server.listed[h.thing] = "absent"
      [] h.thing \in {"scope", "grant", "member"} -> Known(h.thing)
      [] OTHER -> TRUE

After(h) ==
    CASE h.thing = "child" /\ (resolved["child"] = "stray" \/ resolved["parent"] = "none") ->
           [server EXCEPT !.stray = "touched"]
      [] h.thing = "segment" -> [server EXCEPT !.listed["segment"] = "stated", !.segment = @ + 1]
      [] h.thing = "policy" -> [server EXCEPT !.cap = Cap]
      [] h.thing = "profile" -> [server EXCEPT !.stored = Timeout]
      [] h.thing = "account" /\ h.change = "create" -> [server EXCEPT !.accounts = Append(@, "stated")]
      [] h.thing = "account" /\ h.change = "update" -> [server EXCEPT !.accounts =
                                    [i \in DOMAIN @ |-> IF @[i] = "other" THEN "stated" ELSE @[i]]]
      [] OTHER -> [server EXCEPT !.listed[h.thing] = "stated"]

\* Something goes wrong with a request: it is refused, or it is done and the answer is lost.
Mishap(kind) ==
    /\ faults > 0 /\ faults' = faults - 1
    /\ mishap' = kind
    /\ UNCHANGED <<disturbed, theirs, first>>

NoMishap == UNCHANGED <<faults, history>>

-----------------------------------------------------------------------------
\* execute and run, one request to an action.
Stop(how) ==
    /\ phase' = "idle" /\ report' = how
    /\ todo' = <<>> /\ stage' = "first"

Advance ==
    /\ todo' = Tail(todo) /\ stage' = "first"
    /\ UNCHANGED <<phase, report>>

\* A segment write answers with the version that the profile write sends.
KeepVersion(h) == version
VersionAfter(h) == IF h.thing = "segment" THEN server.segment + 1 ELSE version

Run(h) ==
    /\ phase = "running" /\ todo # <<>> /\ h = Head(todo)
    /\ h.thing \notin Bindings
    /\ \/ /\ Takes(h)
          /\ server' = After(h)
          /\ resolved' = IF resolved[h.thing] = "none"
                          THEN [resolved EXCEPT ![h.thing] = h.thing] ELSE resolved
          /\ version' = VersionAfter(h)
          /\ Advance /\ NoMishap
       \/ /\ IF Takes(h) THEN Mishap("refused") ELSE NoMishap
          /\ Stop("failed")
          /\ UNCHANGED <<server, resolved, version>>
       \/ /\ Takes(h) /\ Mishap("unsure")
          /\ server' = After(h)
          /\ Stop("failed")
          /\ UNCHANGED <<resolved, version>>
    /\ UNCHANGED <<snap, meddling>>

\* A rebind takes the old binding away first.
Unassign(b) ==
    /\ phase = "running" /\ todo # <<>> /\ Head(todo) = [thing |-> b, change |-> "update"]
    /\ stage = "first"
    /\ \/ /\ server' = [server EXCEPT !.bound[b] = Unbound]
          /\ stage' = "assign"
          /\ NoMishap /\ UNCHANGED <<phase, todo, report>>
       \/ Mishap("refused") /\ Stop("failed") /\ UNCHANGED server
       \/ /\ Mishap("unsure")
          /\ server' = [server EXCEPT !.bound[b] = Unbound]
          /\ Stop("failed")
    /\ UNCHANGED <<snap, resolved, version, meddling>>

\* What the re-assignment and the restoring one carry over.
Carried(b, change) == IF change = "update" THEN snap.bound[b].tenants ELSE Everywhere
BareRestore(b) == [snap.bound[b] EXCEPT !.tenants = Everywhere]
Restored(b) == snap.bound[b]

AssignFails(h) ==
    IF h.change = "create" THEN Stop("failed")
    ELSE stage' = "restore" /\ UNCHANGED <<phase, todo, report>>

Assign(b) ==
    /\ phase = "running" /\ todo # <<>> /\ Head(todo).thing = b
    /\ stage = IF Head(todo).change = "update" THEN "assign" ELSE "first"
    /\ LET h == Head(todo)
           takes == Known(b) /\ server.bound[b] = Unbound
           done == [server EXCEPT !.bound[b] = Bound(b, Carried(b, h.change))]
       IN \/ takes /\ server' = done /\ Advance /\ NoMishap
          \/ /\ IF takes THEN Mishap("refused") ELSE NoMishap
             /\ AssignFails(h) /\ UNCHANGED server
          \/ takes /\ Mishap("unsure") /\ server' = done /\ AssignFails(h)
    /\ UNCHANGED <<snap, resolved, version, meddling>>

Restore(b) ==
    /\ phase = "running" /\ todo # <<>> /\ Head(todo).thing = b
    /\ stage = "restore"
    /\ LET takes == server.bound[b] = Unbound
           done == [server EXCEPT !.bound[b] = Restored(b)]
       IN \/ takes /\ server' = done /\ Stop("restored") /\ NoMishap
          \/ /\ IF takes THEN Mishap(mishap) ELSE NoMishap
             /\ Stop("restoreFailed") /\ UNCHANGED server
          \/ takes /\ Mishap("unsure") /\ server' = done /\ Stop("restoreFailed")
    /\ UNCHANGED <<snap, resolved, version, meddling>>

Finish ==
    /\ phase = "running" /\ todo = <<>>
    /\ Stop("complete")
    /\ UNCHANGED <<server, snap, resolved, version, faults, meddling, history>>

Crash ==
    /\ phase = "running"
    /\ Mishap("unsure")
    /\ Stop("none")
    /\ UNCHANGED <<server, snap, resolved, version, meddling>>

-----------------------------------------------------------------------------
\* The other administrator.
Meddle ==
    /\ meddling > 0 /\ meddling' = meddling - 1
    /\ disturbed' = TRUE
    /\ UNCHANGED <<client, faults, mishap, first>>

ChangeAccounts ==
    /\ Meddle
    /\ \/ /\ server.accounts # <<>> /\ Head(server.accounts) = "foreign"
          /\ server' = [server EXCEPT !.accounts = Tail(@)]
       \/ server' = [server EXCEPT !.accounts = <<"foreign">> \o @]
    /\ UNCHANGED theirs

ChangeSegment ==
    /\ Meddle
    /\ server.listed["segment"] # "absent"
    /\ server' = [server EXCEPT !.listed["segment"] = "other", !.segment = @ + 1]
    /\ theirs' = (theirs \/ phase \in {"planning", "running"})

ApplyStep ==
    \/ ReadPage \/ ReadNetwork \/ Plan
    \/ \E h \in Range(todo) : Run(h)
    \/ \E b \in Bindings : Unassign(b) \/ Assign(b) \/ Restore(b)
    \/ Finish

Next == Start \/ ApplyStep \/ Crash \/ ChangeAccounts \/ ChangeSegment

\* An Apply runs to its end, and its caller applies again.
Fairness == WF_vars(Start) /\ WF_vars(ApplyStep)

Spec == Init /\ [][Next]_vars /\ Fairness

-----------------------------------------------------------------------------
\* The type invariant; an Apply that has ended has no step left.
TypeOK ==
    /\ server.listed \in [Listed -> {"absent", "other", "stated"}]
    /\ server.stray \in {"absent", "there", "touched"}
    /\ \A b \in Bindings : server.bound[b] = Unbound \/
           server.bound[b] \in [at : {"parent", "child", "tenant"}, inherits : BOOLEAN,
                               tenants : {Everywhere, Confined}]
    /\ Range(server.accounts) \subseteq {"foreign", "other", "stated"}
    /\ server.cap \in 1..Cap /\ server.stored \in 0..2 /\ server.segment \in Nat
    /\ phase \in {"idle", "accounts", "network", "planning", "running"}
    /\ stage \in {"first", "assign", "restore"}
    /\ \A i \in DOMAIN todo : todo[i] \in [thing : Things, change : {"create", "update"}]
    /\ resolved \in [Things -> Things \union {"none", "stray"}]
    /\ version \in Nat
    /\ report \in {"none", "complete", "failed", "restored", "restoreFailed", "refused"}
    /\ faults \in 0..MaxFaults /\ meddling \in 0..MaxMeddling
    /\ phase # "running" => todo = <<>> /\ stage = "first"

\* Everything the manifest states is so, as far as a plan looks: it does not compare a scope's
\* description, nor a grant's effect and scopes.
AsStated ==
    /\ \A x \in Named : server.listed[x] = "stated"
    /\ \A x \in Listed \ Named : server.listed[x] # "absent"
    /\ \A b \in Bindings : server.bound[b] = Bound(b, server.bound[b].tenants)
    /\ \E i \in Ours(server.accounts) : server.accounts[i] = "stated"
    /\ ~Ambiguous(server.accounts)
    /\ server.cap = Cap

\* After an Apply that reported every step done, and during which nobody else wrote, the tenant is
\* as the manifest states; the timeout of a profile too, unless the Apply moved the cap it is
\* read under.
CompleteMeansStated ==
    report = "complete" /\ ~disturbed =>
        /\ AsStated
        /\ snap.cap = Cap => Effective(server.stored, server.cap) = Timeout

\* An Apply fails for a cause outside it: no step names a thing that has no id yet, or sends a
\* version its own earlier step replaced.
FailsOnlyForCause == report = "failed" => disturbed \/ mishap # "none"

\* What an Apply reports is true, of its success and of its failure.
ReportsTruly == TypeOK /\ CompleteMeansStated /\ FailsOnlyForCause

\* A subject that held a role when an Apply read the tenant still holds it when the Apply has
\* ended, as before or as stated, and for the same tenants; unless the report says that the
\* binding could not be restored, or the Apply did not learn what became of a request.
BindingKept ==
    phase = "idle" /\ report # "restoreFailed" /\ mishap # "unsure" =>
        \A b \in Bindings : snap.bound[b] # Unbound =>
            server.bound[b] \in {snap.bound[b], Bound(b, snap.bound[b].tenants)}

\* A segment that another administrator changed after it was read is not written over in the
\* same Apply.
AdminsChangeSurvives == theirs => server.listed["segment"] = "other"

\* A resource of the child's name that is not below the child's parent is left alone.
StrayUntouched == server.stray # "touched"

\* What nobody declared, or somebody changed, is not Apply's to take.
OthersUntouched == BindingKept /\ AdminsChangeSurvives /\ StrayUntouched

\* No Apply makes a second account of the stated name, unless the list moved as it was walked.
OneAccount == [][Ambiguous(server'.accounts) => disturbed']_server

\* Applied again and again, the manifest is reached for good, whatever failed on the way, unless
\* two accounts have its name.
Reconciles ==
    <>[](\/ AsStated /\ Effective(server.stored, server.cap) = Timeout
         \/ Ambiguous(server.accounts))

\* "Dropping [tenant_scope] would silently widen an organization-level account's reach": a subject
\* confined to some tenants at the start is never given the role in all of them.
NeverWidened ==
    \A b \in Bindings : first[b].tenants = Confined =>
        server.bound[b] = Unbound \/ server.bound[b].tenants = Confined
=============================================================================
