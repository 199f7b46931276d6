------------------------- MODULE OidcRefreshFlight -------------------------
(***************************************************************************)
(* The single-flight guard of OidcRefresh (oidc.go:479-566): a caller that *)
(* finds pendingRefresh set joins that future and shares its outcome, one  *)
(* that finds it empty becomes the leader of a new flight.  The leader     *)
(* publishes the outcome (f.set, f.err, close(f.done)) in one critical     *)
(* section of refreshMu and vacates the slot in a second, later one.       *)
(*                                                                         *)
(* Flights are numbered in the order they begin.  A joiner waits on f.done *)
(* alone: its own context is not consulted, and neither is the refresh     *)
(* token it passed.                                                        *)
(*                                                                         *)
(* VacateFirst and ReceiveEarly are faulty variants of the definition      *)
(* that follows each; Next uses none of them.                              *)
(***************************************************************************)
EXTENDS Naturals, Sequences

CONSTANTS
    Callers,      \* goroutines that call OidcRefresh on one Client
    RefreshTokens,
    TokenOf,      \* OidcRefreshParams.RefreshToken of each caller
    MaxFlights    \* bound on the flights begun

ASSUME FlightConstants ==
    /\ TokenOf \in [Callers -> RefreshTokens]
    /\ MaxFlights \in Nat

VARIABLES
    slot,         \* oidcState.pendingRefresh: a flight, or 0
    flights,      \* every oidcRefreshFuture: its token, settled or not, err = nil or not
    pc,           \* where each caller is
    mine          \* the flight each caller leads or joined

vars == <<slot, flights, pc, mine>>

Init ==
    /\ slot = 0
    /\ flights = <<>>
    /\ pc = [p \in Callers |-> "idle"]
    /\ mine = [p \in Callers |-> 0]

Idle(p) == pc[p] \in {"idle", "returned"}

Goto(p, label) == pc' = [pc EXCEPT ![p] = label]

-----------------------------------------------------------------------------
\* The slot is occupied, by a live flight or by one already settled.
Join(p) ==
    /\ Idle(p)
    /\ slot # 0
    /\ mine' = [mine EXCEPT ![p] = slot]
    /\ Goto(p, "waiting")
    /\ UNCHANGED <<slot, flights>>

\* The slot is empty: the caller's own refresh token goes on the wire.
Lead(p) ==
    /\ Idle(p)
    /\ slot = 0
    /\ Len(flights) < MaxFlights
    /\ flights' = Append(flights, [token |-> TokenOf[p], settled |-> FALSE, ok |-> FALSE])
    /\ slot' = Len(flights) + 1
    /\ mine' = [mine EXCEPT ![p] = Len(flights) + 1]
    /\ Goto(p, "wire")

\* f.set, f.err = set, err; close(f.done)
Settle(futures, f, success) ==
    [futures EXCEPT ![f] = [@ EXCEPT !.settled = TRUE, !.ok = success]]

VacateFirst(p, success) ==
    pc[p] = "wire" /\ slot' = 0 /\ Goto(p, "vacating") /\ UNCHANGED <<flights, mine>>
\* doOidcRefresh returned, with a token set or an error: published under
\* refreshMu, with the slot still occupied.
Publish(p, success) ==
    /\ pc[p] = "wire"
    /\ flights' = Settle(flights, mine[p], success)
    /\ Goto(p, "vacating")
    /\ UNCHANGED <<slot, mine>>

\* The compare-and-clear, and the leader's return.
Vacate(p) ==
    /\ pc[p] = "vacating"
    /\ slot' = IF slot = mine[p] THEN 0 ELSE slot
    /\ Goto(p, "returned")
    /\ UNCHANGED <<flights, mine>>

ReceiveEarly(p) == pc[p] = "waiting" /\ Goto(p, "returned") /\ UNCHANGED <<slot, flights, mine>>
\* <-f.done, then f.set and f.err.
Receive(p) ==
    /\ pc[p] = "waiting"
    /\ flights[mine[p]].settled
    /\ Goto(p, "returned")
    /\ UNCHANGED <<slot, flights, mine>>

Next ==
    \E p \in Callers :
        \/ Join(p) \/ Lead(p) \/ Vacate(p) \/ Receive(p)
        \/ \E success \in BOOLEAN : Publish(p, success)

Spec == Init /\ [][Next]_vars

-----------------------------------------------------------------------------
Flights == 1 .. Len(flights)

TypeOK ==
    /\ flights \in Seq([token : RefreshTokens, settled : BOOLEAN, ok : BOOLEAN])
    /\ Len(flights) <= MaxFlights
    /\ slot \in 0 .. Len(flights)
    /\ pc \in [Callers -> {"idle", "waiting", "wire", "vacating", "returned"}]
    /\ mine \in [Callers -> 0 .. Len(flights)]

\* One refresh_token grant at most is on the wire (oidc.go:481-482, 499).
OneGrant == \A p, q \in Callers : pc[p] = "wire" /\ pc[q] = "wire" => p = q

\* A flight whose outcome is not published occupies the slot, so no caller can
\* find "slot empty and nothing published" (oidc.go:533-535).
NothingLost == \A f \in Flights : ~flights[f].settled => slot = f

\* A caller returns with a published outcome, never with the zero value of a
\* future nobody has settled (oidc.go:528-531).
OutcomeShared ==
    \A p \in Callers : pc[p] \in {"vacating", "returned"} => flights[mine[p]].settled

\* One grant on the wire, its outcome published before the slot is vacated and
\* before anybody returns.
FlightIsSafe == TypeOK /\ OneGrant /\ NothingLost /\ OutcomeShared

\* Every caller returns.
AllReturn == \A p \in Callers : ~Idle(p) ~> Idle(p)

\* The slot is vacated: the guard becomes usable for a genuinely new refresh
\* (oidc.go:546-549).
SlotEmpties == \A f \in 1 .. MaxFlights : slot = f ~> slot # f
=============================================================================
