----------------------------- MODULE OidcFlights -----------------------------
(***************************************************************************)
(* The two single flights of oidc.go together.  The leader of a refresh    *)
(* resolves the provider's configuration inside its flight (doOidcRefresh, *)
(* oidc.go:568-572): unless the caller supplied one, it calls OidcDiscover,*)
(* where it may be served, may join another goroutine's fetch or lead one. *)
(* Only then does the refresh_token grant go on the wire.  The other OIDC  *)
(* operations call OidcDiscover directly.                                  *)
(***************************************************************************)
EXTENDS OidcRefreshFlight

CONSTANTS
    Configured,   \* callers that pass OidcRefreshParams.Configuration
    Direct,       \* callers of other operations that discover
    ConfiguredTTL, MinTTL, MaxFetches, MaxTime

VARIABLES now, cached, fetchSlot, fetches, dpc, dmine, dgot, dbegan

Discovery == INSTANCE OidcDiscovery

dvars == <<now, cached, fetchSlot, fetches, dpc, dmine, dgot, dbegan>>

ASSUME DiscoveryAssumption == Discovery!DiscoveryConstants

CInit == Init /\ Discovery!DInit

\* A new flight has resolved no configuration yet.
LeadRefresh(p) ==
    /\ Discovery!DIdle(p)
    /\ Lead(p)
    /\ dpc' = [dpc EXCEPT ![p] = "idle"]
    /\ UNCHANGED <<now, cached, fetchSlot, fetches, dmine, dgot, dbegan>>

JoinRefresh(p) == Discovery!DIdle(p) /\ Join(p) /\ UNCHANGED dvars

\* The bound on the fetches leaves one to each flight that may still need it.
DirectCall(p) ==
    /\ p \in Direct
    /\ Discovery!Warm \/ fetchSlot # 0 \/ Len(fetches) + MaxFlights < MaxFetches

\* resolveOidcConfiguration inside the flight, or an operation that discovers
\* on its own account.
Discover(p) ==
    /\ \/ Idle(p) /\ (DirectCall(p) \/ ~Discovery!DIdle(p))
       \/ pc[p] = "wire" /\ p \notin Configured /\ dpc[p] # "returned"
    /\ Discovery!DStep(p)
    /\ UNCHANGED vars

\* Without a configuration the flight ends in its error, with no request sent;
\* with one, in what postToken and toTokenSet return.
PublishRefresh(p) ==
    /\ p \in Configured \/ dpc[p] = "returned"
    /\ \E success \in BOOLEAN :
         /\ success => p \in Configured \/ dgot[p] # 0
         /\ Publish(p, success)
    /\ UNCHANGED dvars

VacateRefresh(p) == Vacate(p) /\ UNCHANGED dvars

ReceiveRefresh(p) == Receive(p) /\ UNCHANGED dvars

Time == Discovery!Tick /\ UNCHANGED vars

CNext ==
    \/ \E p \in Callers :
         \/ LeadRefresh(p) \/ JoinRefresh(p) \/ Discover(p)
         \/ PublishRefresh(p) \/ VacateRefresh(p) \/ ReceiveRefresh(p)
    \/ Time

\* As in the two components; a leader inside its flight goes on with discovery.
CFairness ==
    \A p \in Callers :
        /\ WF_<<vars, dvars>>(pc[p] = "wire" /\ Discover(p))
        /\ WF_<<vars, dvars>>(~Discovery!DIdle(p) /\ Discover(p))
        /\ WF_<<vars, dvars>>(PublishRefresh(p))
        /\ WF_<<vars, dvars>>(VacateRefresh(p))
        /\ WF_<<vars, dvars>>(ReceiveRefresh(p))

CSpec == CInit /\ [][CNext]_<<vars, dvars>> /\ CFairness

-----------------------------------------------------------------------------
\* See OidcDiscovery: what the cache serves is younger than the TTL.
ServedFresh == Discovery!DTypeOK /\ Discovery!ServedFresh

\* Every refresh and every discovery returns, and the refresh slot is vacated,
\* although joiners wait without their own ctx (oidc.go:254-256, 509-515).
CallersReturn == AllReturn /\ SlotEmpties /\ Discovery!DiscoverReturns

\* See OidcDiscovery.
FetchShared == Discovery!FetchShared

\* The refresh grants are one flight at a time too (oidc.go:519-550).
RefreshFlight == INSTANCE SingleFlight WITH
    outcomes <- [f \in Flights |->
                   IF ~flights[f].settled THEN "air" ELSE IF flights[f].ok THEN "ok" ELSE "failed"],
    aboard <- [p \in Callers |-> IF Idle(p) THEN 0 ELSE mine[p]],
    got <- [p \in Callers |->
              IF pc[p] # "returned" THEN "nothing"
              ELSE IF flights[mine[p]].ok THEN "ok" ELSE "failed"]

\* A burst of refreshes, nested discoveries included, is one shared flight
\* (oidc.go:479-482).
GrantShared == RefreshFlight!FSpec
=============================================================================
