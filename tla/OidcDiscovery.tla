---------------------------- MODULE OidcDiscovery ----------------------------
(***************************************************************************)
(* OidcDiscover (oidc.go:234-342): the discovery document, its time to     *)
(* live, and the single flight of its fetches.  A warm cache is served     *)
(* under discoveryMu; otherwise a caller joins the fetch in the slot or    *)
(* becomes the leader of a new one.  The leader publishes the outcome and, *)
(* only if it is a document, the cache, in one critical section, and       *)
(* vacates the slot in a second, later one.                                *)
(*                                                                         *)
(* Fetches are numbered in the order they begin and a document is the      *)
(* number of the fetch that brought it.                                    *)
(*                                                                         *)
(* ServeStale, FetchAnyway and AbandonFetch are faulty variants of the     *)
(* definition that follows each and are used nowhere.                      *)
(***************************************************************************)
EXTENDS Naturals, Sequences

CONSTANTS
    Callers,      \* goroutines that call OidcDiscover on one Client
    ConfiguredTTL,\* WithOidcDiscoveryTTL
    MinTTL,       \* MinOidcDiscoveryTTL
    MaxFetches,   \* bound on the fetches begun
    MaxTime       \* bound on the clock

\* What the constants must be; the composition assumes it.
DiscoveryConstants ==
    /\ ConfiguredTTL \in Nat
    /\ MinTTL \in Nat \ {0}
    /\ MaxFetches \in Nat
    /\ MaxTime \in Nat

VARIABLES
    now,
    cached,       \* discoveryDoc, or 0, and discoveryExp
    fetchSlot,    \* discoveryFetch: a fetch, or 0
    fetches,      \* every oidcDiscoveryFetch: settled or not, err = nil or not, and when
    dpc,          \* where each caller is
    dmine,        \* the fetch each caller leads or joined, or 0 when the cache served it
    dgot,         \* the document each caller returned with, or 0 for an error
    dbegan        \* when its call began

dvars == <<now, cached, fetchSlot, fetches, dpc, dmine, dgot, dbegan>>

DInit ==
    /\ now = 0
    /\ cached = [doc |-> 0, exp |-> 0]
    /\ fetchSlot = 0
    /\ fetches = <<>>
    /\ dpc = [p \in Callers |-> "idle"]
    /\ dmine = [p \in Callers |-> 0]
    /\ dgot = [p \in Callers |-> 0]
    /\ dbegan = [p \in Callers |-> 0]

DIdle(p) == dpc[p] \in {"idle", "returned"}

\* normalizeDiscoveryTTL
TTL == IF ConfiguredTTL < MinTTL THEN MinTTL ELSE ConfiguredTTL

Warm == cached.doc # 0 /\ now < cached.exp

DCall(p, label, f) ==
    /\ DIdle(p)
    /\ dpc' = [dpc EXCEPT ![p] = label]
    /\ dmine' = [dmine EXCEPT ![p] = f]
    /\ dbegan' = [dbegan EXCEPT ![p] = now]

DReturn(p, doc) ==
    /\ dpc' = [dpc EXCEPT ![p] = "returned"]
    /\ dgot' = [dgot EXCEPT ![p] = doc]

DocOf(f) == IF fetches[f].ok THEN f ELSE 0

-----------------------------------------------------------------------------
ServeStale(p) ==
    /\ cached.doc # 0 /\ DCall(p, "returned", 0) /\ dgot' = [dgot EXCEPT ![p] = cached.doc]
    /\ UNCHANGED <<now, cached, fetchSlot, fetches>>
\* The document is cached and has not expired.
ServeCached(p) ==
    /\ Warm
    /\ DCall(p, "returned", 0)
    /\ dgot' = [dgot EXCEPT ![p] = cached.doc]
    /\ UNCHANGED <<now, cached, fetchSlot, fetches>>

FetchAnyway(p) ==
    /\ ~Warm /\ fetchSlot # 0 /\ Len(fetches) < MaxFetches
    /\ fetches' = Append(fetches, [settled |-> FALSE, ok |-> FALSE, at |-> now])
    /\ fetchSlot' = Len(fetches) + 1
    /\ DCall(p, "wire", Len(fetches) + 1) /\ UNCHANGED <<now, cached, dgot>>
\* The slot is occupied, by a live fetch or by one already settled.
JoinFetch(p) ==
    /\ ~Warm
    /\ fetchSlot # 0
    /\ DCall(p, "waiting", fetchSlot)
    /\ UNCHANGED <<now, cached, fetchSlot, fetches, dgot>>

LeadFetch(p) ==
    /\ ~Warm
    /\ fetchSlot = 0
    /\ Len(fetches) < MaxFetches
    /\ fetches' = Append(fetches, [settled |-> FALSE, ok |-> FALSE, at |-> now])
    /\ fetchSlot' = Len(fetches) + 1
    /\ DCall(p, "wire", Len(fetches) + 1)
    /\ UNCHANGED <<now, cached, dgot>>

AbandonFetch(p, success) ==
    /\ dpc[p] = "wire"
    /\ IF success
       THEN /\ fetches' = [fetches EXCEPT ![dmine[p]] = [settled |-> TRUE, ok |-> TRUE, at |-> now]]
            /\ cached' = [doc |-> dmine[p], exp |-> now + TTL]
            /\ dpc' = [dpc EXCEPT ![p] = "vacating"] /\ UNCHANGED dgot
       ELSE DReturn(p, 0) /\ UNCHANGED <<fetches, cached>>
    /\ UNCHANGED <<now, fetchSlot, dmine, dbegan>>
\* fetchOidcDiscovery returned: the document is cached and published with it;
\* an error (the leader's cancelled ctx, the transport, a status other than
\* 200, a body that is not JSON) is published and leaves the cache alone.
PublishFetch(p, success) ==
    /\ dpc[p] = "wire"
    /\ fetches' = [fetches EXCEPT ![dmine[p]] = [settled |-> TRUE, ok |-> success, at |-> now]]
    /\ cached' = IF success THEN [doc |-> dmine[p], exp |-> now + TTL] ELSE cached
    /\ dpc' = [dpc EXCEPT ![p] = "vacating"]
    /\ UNCHANGED <<now, fetchSlot, dmine, dgot, dbegan>>

\* The compare-and-clear, and the leader's return.
VacateFetch(p) ==
    /\ dpc[p] = "vacating"
    /\ fetchSlot' = IF fetchSlot = dmine[p] THEN 0 ELSE fetchSlot
    /\ DReturn(p, DocOf(dmine[p]))
    /\ UNCHANGED <<now, cached, fetches, dmine, dbegan>>

\* <-f.done, then f.doc and f.err: the caller's own ctx is not consulted.
ReceiveDoc(p) ==
    /\ dpc[p] = "waiting"
    /\ fetches[dmine[p]].settled
    /\ DReturn(p, DocOf(dmine[p]))
    /\ UNCHANGED <<now, cached, fetchSlot, fetches, dmine, dbegan>>

Tick == now < MaxTime /\ now' = now + 1 /\ UNCHANGED <<cached, fetchSlot, fetches, dpc, dmine, dgot, dbegan>>

DStep(p) ==
    \/ ServeCached(p) \/ JoinFetch(p) \/ LeadFetch(p) \/ VacateFetch(p) \/ ReceiveDoc(p)
    \/ \E success \in BOOLEAN : PublishFetch(p, success)

DSpec == DInit /\ [][Tick \/ \E p \in Callers : DStep(p)]_dvars

\* The leader's request ends (http.Client.Timeout) and goroutines are scheduled.
DFairness ==
    \A p \in Callers :
        /\ WF_dvars(\E success \in BOOLEAN : PublishFetch(p, success))
        /\ WF_dvars(VacateFetch(p)) /\ WF_dvars(ReceiveDoc(p))

-----------------------------------------------------------------------------
DTypeOK ==
    /\ now \in 0 .. MaxTime
    /\ fetches \in Seq([settled : BOOLEAN, ok : BOOLEAN, at : 0 .. MaxTime])
    /\ Len(fetches) <= MaxFetches
    /\ cached \in [doc : 0 .. Len(fetches), exp : 0 .. MaxTime + TTL]
    /\ fetchSlot \in 0 .. Len(fetches)
    /\ dpc \in [Callers -> {"idle", "waiting", "wire", "vacating", "returned"}]
    /\ dmine \in [Callers -> 0 .. Len(fetches)]
    /\ dgot \in [Callers -> 0 .. Len(fetches)]
    /\ dbegan \in [Callers -> 0 .. MaxTime]

\* A document served from the cache was fetched less than one TTL before the
\* call, and the cache is always the last document fetched, whatever failed
\* since: a failed refetch neither revives an expired document nor drops a
\* live one (oidc.go:288-293).
ServedFresh ==
    /\ \A p \in Callers :
         dpc[p] = "returned" /\ dmine[p] = 0 => dbegan[p] < fetches[dgot[p]].at + TTL
    /\ \A f \in 1 .. Len(fetches) : fetches[f].ok => f <= cached.doc

\* Every call of OidcDiscover returns, a joiner's too, although it waits on
\* f.done without its ctx (oidc.go:254-256).
DiscoverReturns == \A p \in Callers : ~DIdle(p) ~> DIdle(p)

\* The fetches are one flight at a time, shared by their joiners, failures
\* included: nobody observes "slot empty and nothing published"
\* (oidc.go:260-279).
Flight == INSTANCE SingleFlight WITH
    outcomes <- [f \in 1 .. Len(fetches) |->
                   IF ~fetches[f].settled THEN "air" ELSE IF fetches[f].ok THEN "ok" ELSE "failed"],
    aboard <- [p \in Callers |-> IF DIdle(p) THEN 0 ELSE dmine[p]],
    got <- [p \in Callers |->
              IF dpc[p] = "returned" /\ dmine[p] # 0
              THEN IF dgot[p] # 0 THEN "ok" ELSE "failed"
              ELSE "nothing"]

FetchShared == Flight!FSpec
=============================================================================
