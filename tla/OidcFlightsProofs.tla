-------------------------- MODULE OidcFlightsProofs --------------------------
(***************************************************************************)
(* The single flights of oidc.go, for any number of callers, any refresh   *)
(* tokens and any number of flights: the guard of OidcRefresh first, then  *)
(* the composition, where resolving the configuration inside the flight    *)
(* does not disturb it.                                                    *)
(***************************************************************************)
EXTENDS OidcFlights, SequenceTheorems, TLAPS

Leads(p) == pc[p] \in {"wire", "vacating"}

Future == [token : RefreshTokens, settled : BOOLEAN, ok : BOOLEAN]

(* The slot is the flight of the one leader there is, from before its grant is
   sent until after its outcome is published. *)
LeaderHoldsSlot ==
    /\ \A p \in Callers : Leads(p) => slot = mine[p]
    /\ \A p, q \in Callers : Leads(p) /\ Leads(q) => p = q

Embarked == \A p \in Callers : pc[p] # "idle" => mine[p] # 0

(* The strengthening of OneGrant, NothingLost and OutcomeShared. *)
IInv == TypeOK /\ LeaderHoldsSlot /\ Embarked /\ NothingLost /\ OutcomeShared

-----------------------------------------------------------------------------
LEMMA InitIInv == Init => IInv
<1> SUFFICES ASSUME Init PROVE IInv
  OBVIOUS
<1> USE FlightConstants DEF Init
<1>1. TypeOK
  BY DEF TypeOK
<1>2. LeaderHoldsSlot /\ Embarked /\ OutcomeShared
  BY DEF LeaderHoldsSlot, Leads, Embarked, OutcomeShared
<1>3. NothingLost
  BY DEF NothingLost, Flights
<1> QED
  BY <1>1, <1>2, <1>3 DEF IInv

(* A new flight begins on an empty slot only, and the earlier ones keep their
   outcomes. *)
LEMMA LeadIInv ==
  ASSUME IInv, NEW p \in Callers, Lead(p)
  PROVE  IInv'
<1> DEFINE n == Len(flights)
           new == [token |-> TokenOf[p], settled |-> FALSE, ok |-> FALSE]
<1> USE FlightConstants DEF IInv, TypeOK, Lead, Goto
<1>1. /\ new \in [token : RefreshTokens, settled : BOOLEAN, ok : BOOLEAN]
      /\ n \in Nat /\ n < MaxFlights
  <2>1. TokenOf[p] \in RefreshTokens
    OBVIOUS
  <2>2. new \in [token : RefreshTokens, settled : BOOLEAN, ok : BOOLEAN]
    BY <2>1
  <2> QED
    BY <2>2
<1>2. /\ Len(flights') = n + 1
      /\ flights'[n + 1] = new
      /\ \A f \in 1 .. n : flights'[f] = flights[f]
      /\ flights' \in Seq(Future)
  BY <1>1 DEF Future
<1>3. TypeOK'
  BY <1>1, <1>2 DEF Future
<1>4. LeaderHoldsSlot' /\ Embarked'
  BY <1>1 DEF LeaderHoldsSlot, Leads, Embarked
<1>5. NothingLost'
  BY <1>1, <1>2 DEF NothingLost, Flights
<1>6. OutcomeShared'
  BY <1>1, <1>2 DEF OutcomeShared, Embarked
<1> QED
  BY <1>3, <1>4, <1>5, <1>6

(* Settling a future of a sequence of futures changes that one alone. *)
LEMMA FlightSettles ==
  ASSUME NEW s \in Seq(Future), NEW f \in 1 .. Len(s), NEW b \in BOOLEAN
  PROVE  /\ Settle(s, f, b) \in Seq(Future)
         /\ Len(Settle(s, f, b)) = Len(s)
         /\ Settle(s, f, b)[f].settled
         /\ \A g \in 1 .. Len(s) : g # f => Settle(s, f, b)[g] = s[g]
<1>1. s[f] \in Future
  OBVIOUS
<1>2. PICK new \in Future : new = [s[f] EXCEPT !.settled = TRUE, !.ok = b] /\ new.settled
  <2> DEFINE new == [s[f] EXCEPT !.settled = TRUE, !.ok = b]
  <2>1. new \in Future /\ new.settled
    BY <1>1 DEF Future
  <2> QED
    BY <2>1
<1>3. /\ [s EXCEPT ![f] = new] \in Seq(Future)
      /\ Len([s EXCEPT ![f] = new]) = Len(s)
      /\ \A g \in 1 .. Len(s) : [s EXCEPT ![f] = new][g] = IF g = f THEN new ELSE s[g]
  BY ExceptSeq
<1>4. Settle(s, f, b) = [s EXCEPT ![f] = new]
  BY <1>2 DEF Settle
<1> QED
  BY <1>2, <1>3, <1>4

(* Publishing settles the leader's flight and no other. *)
LEMMA PublishIInv ==
  ASSUME IInv, NEW p \in Callers, NEW success \in BOOLEAN, Publish(p, success)
  PROVE  IInv'
<1> DEFINE f == mine[p]
<1> USE DEF IInv, TypeOK, Publish, Goto
<1>1. flights' = Settle(flights, f, success)
  OBVIOUS
<1>2. f \in Flights /\ slot = f
  BY DEF LeaderHoldsSlot, Leads, Embarked, Flights
<1>3. /\ Len(flights') = Len(flights)
      /\ flights'[f].settled
      /\ \A g \in Flights : g # f => flights'[g] = flights[g]
      /\ flights' \in Seq(Future)
  <2>1. flights \in Seq(Future) /\ f \in 1 .. Len(flights)
    BY <1>2 DEF Flights, Future
  <2> HIDE DEF f, IInv, TypeOK, Publish, Goto
  <2> QED
    BY <1>1, <2>1, FlightSettles DEF Flights
<1>4. TypeOK'
  BY <1>3 DEF Future
<1>5. LeaderHoldsSlot' /\ Embarked'
  BY DEF LeaderHoldsSlot, Leads, Embarked
<1>6. NothingLost'
  BY <1>2, <1>3 DEF NothingLost, Flights
<1>7. OutcomeShared'
  BY <1>2, <1>3 DEF OutcomeShared, Embarked, Flights
<1> QED
  BY <1>4, <1>5, <1>6, <1>7

LEMMA NextIInv == IInv /\ [Next]_vars => IInv'
<1> SUFFICES ASSUME IInv, [Next]_vars PROVE IInv'
  OBVIOUS
<1> USE DEF IInv, TypeOK, LeaderHoldsSlot, Leads, Embarked, NothingLost, OutcomeShared, Flights
<1>1. ASSUME NEW p \in Callers, Join(p) PROVE IInv'
  BY <1>1 DEF Join, Idle, Goto
<1>2. ASSUME NEW p \in Callers, Lead(p) PROVE IInv'
  BY <1>2, LeadIInv
<1>3. ASSUME NEW p \in Callers, NEW success \in BOOLEAN, Publish(p, success) PROVE IInv'
  BY <1>3, PublishIInv
<1>4. ASSUME NEW p \in Callers, Vacate(p) PROVE IInv'
  BY <1>4 DEF Vacate, Goto
<1>5. ASSUME NEW p \in Callers, Receive(p) PROVE IInv'
  BY <1>5 DEF Receive, Goto
<1>6. CASE UNCHANGED vars
  BY <1>6 DEF vars
<1> QED
  BY <1>1, <1>2, <1>3, <1>4, <1>5, <1>6 DEF Next

LEMMA Inductive == Spec => []IInv
  BY InitIInv, NextIInv, PTL DEF Spec

(* The variables keep their types. *)
THEOREM TypeCorrect == Spec => []TypeOK
<1>1. IInv => TypeOK
  BY DEF IInv
<1> QED
  BY <1>1, Inductive, PTL

(* A burst of OidcRefresh calls puts one grant on the wire (oidc.go:481-482). *)
THEOREM SingleGrant == Spec => []OneGrant
<1>1. IInv => OneGrant
  BY DEF IInv, LeaderHoldsSlot, Leads, OneGrant
<1> QED
  BY <1>1, Inductive, PTL

(* Besides, nobody ever observes "slot empty and nothing published"
   (oidc.go:533-535), and what a caller returns with has been published
   (oidc.go:528-531). *)
THEOREM FlightSafe == Spec => []FlightIsSafe
<1>1. IInv => FlightIsSafe
  BY DEF IInv, LeaderHoldsSlot, Leads, OneGrant, FlightIsSafe
<1> QED
  BY <1>1, Inductive, PTL

-----------------------------------------------------------------------------

(* A step of the composition is a step of the flight, or leaves it alone. *)
LEMMA CNextIsNext == [CNext]_<<vars, dvars>> => [Next]_vars
<1> SUFFICES ASSUME CNext PROVE [Next]_vars
  BY DEF vars
<1>1. ASSUME NEW p \in Callers, LeadRefresh(p) PROVE Next
  BY <1>1 DEF LeadRefresh, Next
<1>2. ASSUME NEW p \in Callers, JoinRefresh(p) PROVE Next
  BY <1>2 DEF JoinRefresh, Next
<1>3. ASSUME NEW p \in Callers, Discover(p) PROVE UNCHANGED vars
  BY <1>3 DEF Discover
<1>4. ASSUME NEW p \in Callers, PublishRefresh(p) PROVE Next
  BY <1>4 DEF PublishRefresh, Next
<1>5. ASSUME NEW p \in Callers, VacateRefresh(p) PROVE Next
  BY <1>5 DEF VacateRefresh, Next
<1>6. ASSUME NEW p \in Callers, ReceiveRefresh(p) PROVE Next
  BY <1>6 DEF ReceiveRefresh, Next
<1>7. ASSUME Time PROVE UNCHANGED vars
  BY <1>7 DEF Time
<1> QED
  BY <1>1, <1>2, <1>3, <1>4, <1>5, <1>6, <1>7 DEF CNext

(* The composition implements the flight (oidc.go:568-572 runs inside
   OidcRefresh's critical path, not around it). *)
LEMMA ComposedIsFlight == CSpec => Spec
<1>1. CInit => Init
  BY DEF CInit
<1> QED
  BY <1>1, CNextIsNext, PTL DEF CSpec, Spec

(* One grant is on the wire, its outcome published before the slot is vacated
   and before anybody returns, with discovery nested in the flight. *)
THEOREM ComposedFlightSafe == CSpec => []FlightIsSafe
  BY ComposedIsFlight, FlightSafe

-----------------------------------------------------------------------------
(* The guard implements the abstract single flight.  The flight in the slot is
   the last one begun, and it is in the air while its leader's grant is. *)
Airborne ==
    /\ \A p \in Callers : pc[p] = "wire" => ~flights[mine[p]].settled
    /\ slot # 0 => slot = Len(flights)

AInv == IInv /\ Airborne

LEMMA NextAirborne == AInv /\ [Next]_vars => Airborne'
<1> SUFFICES ASSUME AInv, [Next]_vars PROVE Airborne'
  OBVIOUS
<1> USE DEF AInv, IInv, TypeOK
<1>1. ASSUME NEW p \in Callers, Join(p) PROVE Airborne'
  BY <1>1 DEF Join, Idle, Goto, Airborne
<1>2. ASSUME NEW p \in Callers, Lead(p) PROVE Airborne'
  <2> DEFINE new == [token |-> TokenOf[p], settled |-> FALSE, ok |-> FALSE]
  <2>1. flights \in Seq(Future) /\ new \in Future /\ Len(flights) \in Nat
    BY FlightConstants DEF Future
  <2>2. /\ flights' = Append(flights, new) /\ slot' = Len(flights) + 1
        /\ mine' = [mine EXCEPT ![p] = Len(flights) + 1] /\ pc' = [pc EXCEPT ![p] = "wire"] /\ slot = 0
    BY <1>2 DEF Lead, Goto
  <2>3. Len(flights') = Len(flights) + 1 /\ flights'[Len(flights) + 1] = new
    BY <2>1, <2>2
  <2>4. ASSUME NEW q \in Callers, pc'[q] = "wire" PROVE q = p
    <3>1. q # p => pc[q] = "wire"
      BY <2>2, <2>4
    <3> QED
      BY <2>1, <2>2, <3>1 DEF LeaderHoldsSlot, Leads, Embarked
  <2> QED
    BY <2>2, <2>3, <2>4 DEF Airborne
<1>3. ASSUME NEW p \in Callers, NEW success \in BOOLEAN, Publish(p, success) PROVE Airborne'
  <2>1. flights \in Seq(Future) /\ mine[p] \in 1 .. Len(flights)
    BY <1>3 DEF Future, Publish, Embarked
  <2>2. Len(flights') = Len(flights)
    BY <1>3, <2>1, FlightSettles DEF Publish
  <2>3. \A q \in Callers : pc'[q] # "wire"
    BY <1>3 DEF Publish, Goto, LeaderHoldsSlot, Leads
  <2> QED
    BY <1>3, <2>2, <2>3 DEF Airborne, Publish
<1>4. ASSUME NEW p \in Callers, Vacate(p) PROVE Airborne'
  BY <1>4 DEF Vacate, Goto, Airborne
<1>5. ASSUME NEW p \in Callers, Receive(p) PROVE Airborne'
  BY <1>5 DEF Receive, Goto, Airborne
<1>6. CASE UNCHANGED vars
  BY <1>6 DEF vars, Airborne
<1> QED
  BY <1>1, <1>2, <1>3, <1>4, <1>5, <1>6 DEF Next

LEMMA InductiveA == Spec => []AInv
<1>1. Init => AInv
  BY InitIInv DEF Init, Airborne, AInv
<1>2. AInv /\ [Next]_vars => AInv'
  BY NextAirborne, NextIInv DEF AInv
<1> QED
  BY <1>1, <1>2, PTL DEF Spec

Outcomes == {"air", "ok", "failed"}

(* A flight that begins is one more outcome, "air". *)
LEMMA OneMoreInTheAir ==
  ASSUME NEW n \in Nat, NEW a \in [1 .. n -> Outcomes], NEW b \in [1 .. n + 1 -> Outcomes],
         \A f \in 1 .. n : b[f] = a[f], b[n + 1] = "air"
  PROVE  b = Append(a, "air") /\ Len(a) = n
<1>1. a \in Seq(Outcomes) /\ Len(a) = n
  OBVIOUS
<1>2. Append(a, "air") \in [1 .. n + 1 -> Outcomes]
  <2>1. "air" \in Outcomes
    BY DEF Outcomes
  <2>2. Append(a, "air") \in Seq(Outcomes) /\ Len(Append(a, "air")) = n + 1
    BY <1>1, <2>1
  <2> QED
    BY <2>2, LenProperties
<1>3. \A f \in 1 .. n + 1 : Append(a, "air")[f] = b[f]
  BY <1>1
<1> QED
  BY <1>1, <1>2, <1>3

(* The abstract state of the grants' flight. *)
GrantOutcome(f) == IF ~flights[f].settled THEN "air" ELSE IF flights[f].ok THEN "ok" ELSE "failed"
GrantOutcomes == [f \in Flights |-> GrantOutcome(f)]
GrantAboard == [p \in Callers |-> IF Idle(p) THEN 0 ELSE mine[p]]
GrantGot ==
    [p \in Callers |->
        IF pc[p] # "returned" THEN "nothing" ELSE IF flights[mine[p]].ok THEN "ok" ELSE "failed"]

LEMMA GrantsMap ==
    /\ RefreshFlight!FInit <=>
         /\ GrantOutcomes = <<>> /\ GrantAboard = [p \in Callers |-> 0]
         /\ GrantGot = [p \in Callers |-> "nothing"]
    /\ \A p \in Callers :
         /\ /\ Len(GrantOutcomes) # 0 /\ GrantAboard[p] = 0
            /\ GrantAboard' = [GrantAboard EXCEPT ![p] = Len(GrantOutcomes)]
            /\ GrantGot' = [GrantGot EXCEPT ![p] = "nothing"] /\ GrantOutcomes' = GrantOutcomes
            => RefreshFlight!Board(p)
         /\ /\ ~(Len(GrantOutcomes) # 0 /\ GrantOutcomes[Len(GrantOutcomes)] = "air")
            /\ GrantAboard[p] = 0
            /\ GrantAboard' = [GrantAboard EXCEPT ![p] = Len(GrantOutcomes) + 1]
            /\ GrantGot' = [GrantGot EXCEPT ![p] = "nothing"]
            /\ GrantOutcomes' = Append(GrantOutcomes, "air")
            => RefreshFlight!TakeOff(p)
         /\ /\ GrantAboard[p] # 0 /\ GrantOutcomes[GrantAboard[p]] # "air"
            /\ GrantGot' = [GrantGot EXCEPT ![p] = GrantOutcomes[GrantAboard[p]]]
            /\ GrantAboard' = [GrantAboard EXCEPT ![p] = 0] /\ GrantOutcomes' = GrantOutcomes
            => RefreshFlight!Leave(p)
    /\ \A how \in {"ok", "failed"} :
         /\ Len(GrantOutcomes) # 0 /\ GrantOutcomes[Len(GrantOutcomes)] = "air"
         /\ GrantOutcomes' = [GrantOutcomes EXCEPT ![Len(GrantOutcomes)] = how]
         /\ UNCHANGED <<GrantAboard, GrantGot>>
         => RefreshFlight!Touch(how)
  BY Zenon DEF GrantOutcomes, GrantOutcome, GrantAboard, GrantGot, RefreshFlight!FInit, RefreshFlight!Board,
     RefreshFlight!TakeOff, RefreshFlight!Leave, RefreshFlight!Touch, RefreshFlight!Embark,
     RefreshFlight!InTheAir, RefreshFlight!Last

GrantTypes ==
    /\ GrantOutcomes \in [1 .. Len(flights) -> Outcomes] /\ Len(GrantOutcomes) = Len(flights)
    /\ GrantAboard \in [Callers -> Nat] /\ GrantGot \in [Callers -> {"nothing", "ok", "failed"}]
    /\ \A p \in Callers :
         /\ GrantAboard[p] = IF pc[p] \in {"idle", "returned"} THEN 0 ELSE mine[p]
         /\ GrantGot[p] = IF pc[p] # "returned" THEN "nothing"
                          ELSE IF flights[mine[p]].ok THEN "ok" ELSE "failed"
    /\ Len(flights) \in Nat

(* A function changed at one place. *)
LEMMA OneChanged ==
  ASSUME NEW S, NEW T, NEW a \in [S -> T], NEW b \in [S -> T], NEW p \in S, NEW v,
         \A q \in S : b[q] = IF q = p THEN v ELSE a[q]
  PROVE  b = [a EXCEPT ![p] = v]
  OBVIOUS

LEMMA GrantsTyped == TypeOK => GrantTypes
<1> SUFFICES ASSUME TypeOK PROVE GrantTypes
  OBVIOUS
<1>1. Len(flights) \in Nat
  BY DEF TypeOK
<1>2. GrantOutcomes \in [1 .. Len(flights) -> Outcomes]
  BY DEF GrantOutcomes, GrantOutcome, Outcomes, Flights
<1>3. Len(GrantOutcomes) = Len(flights)
  BY <1>1, <1>2
<1>4. GrantAboard \in [Callers -> Nat] /\ GrantGot \in [Callers -> {"nothing", "ok", "failed"}]
  BY <1>1 DEF GrantAboard, GrantGot, TypeOK
<1>5. \A p \in Callers :
        /\ GrantAboard[p] = IF pc[p] \in {"idle", "returned"} THEN 0 ELSE mine[p]
        /\ GrantGot[p] = IF pc[p] # "returned" THEN "nothing"
                         ELSE IF flights[mine[p]].ok THEN "ok" ELSE "failed"
  BY DEF GrantAboard, GrantGot, Idle
<1> QED
  BY <1>1, <1>2, <1>3, <1>4, <1>5 DEF GrantTypes

LEMMA GrantsTypedNext == TypeOK' => GrantTypes'
  BY GrantsTyped, PTL

(* A step of the guard is a step of the abstract flight. *)
LEMMA GrantSteps == AInv /\ AInv' /\ [Next]_vars => [RefreshFlight!FNext]_(RefreshFlight!fvars)
<1> SUFFICES ASSUME AInv, AInv', Next PROVE RefreshFlight!FNext
  <2>1. UNCHANGED vars => UNCHANGED RefreshFlight!fvars
    BY DEF vars, RefreshFlight!fvars, Flights, Idle
  <2> QED
    BY <2>1
<1>1. TypeOK /\ TypeOK'
  BY DEF AInv, IInv
<1>2. /\ GrantOutcomes \in [1 .. Len(flights) -> Outcomes] /\ Len(GrantOutcomes) = Len(flights)
      /\ GrantAboard \in [Callers -> Nat] /\ GrantGot \in [Callers -> {"nothing", "ok", "failed"}]
      /\ Len(flights) \in Nat
  BY <1>1, GrantsTyped DEF GrantTypes
<1>now. \A p \in Callers :
          /\ GrantAboard[p] = IF pc[p] \in {"idle", "returned"} THEN 0 ELSE mine[p]
          /\ GrantGot[p] = IF pc[p] # "returned" THEN "nothing"
                           ELSE IF flights[mine[p]].ok THEN "ok" ELSE "failed"
  BY <1>1, GrantsTyped DEF GrantTypes
<1>3. /\ GrantOutcomes' \in [1 .. Len(flights') -> Outcomes]
      /\ GrantAboard' \in [Callers -> Nat] /\ GrantGot' \in [Callers -> {"nothing", "ok", "failed"}]
  BY <1>1, GrantsTypedNext DEF GrantTypes
<1>next. \A p \in Callers :
           /\ GrantAboard'[p] = IF pc'[p] \in {"idle", "returned"} THEN 0 ELSE mine'[p]
           /\ GrantGot'[p] = IF pc'[p] # "returned" THEN "nothing"
                             ELSE IF flights'[mine'[p]].ok THEN "ok" ELSE "failed"
  BY <1>1, GrantsTypedNext DEF GrantTypes
<1>4. ASSUME NEW p \in Callers, Join(p) PROVE RefreshFlight!Board(p)
  <2>1. /\ slot = Len(flights) /\ slot # 0 /\ flights' = flights
        /\ mine' = [mine EXCEPT ![p] = slot] /\ pc' = [pc EXCEPT ![p] = "waiting"]
        /\ pc[p] \in {"idle", "returned"}
    BY <1>4 DEF Join, Goto, Idle, AInv, Airborne
  <2>2. GrantOutcomes' = GrantOutcomes
    BY <2>1 DEF GrantOutcomes, GrantOutcome, Flights
  <2>3. \A q \in Callers : /\ pc'[q] = (IF q = p THEN "waiting" ELSE pc[q])
                           /\ mine'[q] = IF q = p THEN slot ELSE mine[q]
    BY <1>1, <2>1 DEF TypeOK
  <2>4. GrantAboard[p] = 0 /\ GrantAboard' = [GrantAboard EXCEPT ![p] = Len(GrantOutcomes)]
    <3>1. GrantAboard[p] = 0 /\ Len(GrantOutcomes) = slot
      BY <1>2, <1>now, <2>1
    <3>2. \A q \in Callers : GrantAboard'[q] = IF q = p THEN Len(GrantOutcomes) ELSE GrantAboard[q]
      BY <1>now, <1>next, <2>3, <3>1
    <3> QED
      BY <1>2, <1>3, <3>1, <3>2, OneChanged
  <2>5. GrantGot' = [GrantGot EXCEPT ![p] = "nothing"]
    <3>1. \A q \in Callers : GrantGot'[q] = IF q = p THEN "nothing" ELSE GrantGot[q]
      BY <1>now, <1>next, <2>1, <2>3
    <3> QED
      BY <1>2, <1>3, <3>1, OneChanged
  <2> QED
    BY <1>2, <2>1, <2>2, <2>4, <2>5, GrantsMap
<1>5. ASSUME NEW p \in Callers, Lead(p) PROVE RefreshFlight!TakeOff(p)
  <2> DEFINE n == Len(flights)
             new == [token |-> TokenOf[p], settled |-> FALSE, ok |-> FALSE]
  <2>1. /\ slot = 0 /\ flights' = Append(flights, new)
        /\ mine' = [mine EXCEPT ![p] = n + 1] /\ pc' = [pc EXCEPT ![p] = "wire"]
        /\ pc[p] \in {"idle", "returned"}
    BY <1>5 DEF Lead, Goto, Idle
  <2>2. flights \in Seq(Future) /\ new \in Future
    BY <1>1, FlightConstants DEF Future, TypeOK
  <2>3. /\ Len(flights') = n + 1 /\ flights'[n + 1] = new
        /\ \A f \in 1 .. n : flights'[f] = flights[f]
    BY <2>1, <2>2
  <2>4. GrantOutcomes' = Append(GrantOutcomes, "air")
    <3>1. \A f \in 1 .. n : GrantOutcomes'[f] = GrantOutcomes[f]
      BY <2>3, <1>2 DEF GrantOutcomes, GrantOutcome, Flights
    <3>2. GrantOutcomes'[n + 1] = "air"
      BY <2>3, <1>2 DEF GrantOutcomes, GrantOutcome, Flights
    <3> QED
      BY <1>2, <1>3, <2>3, <3>1, <3>2, OneMoreInTheAir
  <2>5. \A q \in Callers : /\ pc'[q] = (IF q = p THEN "wire" ELSE pc[q])
                           /\ mine'[q] = IF q = p THEN n + 1 ELSE mine[q]
    BY <1>1, <2>1 DEF TypeOK
  <2>6. GrantAboard[p] = 0 /\ GrantAboard' = [GrantAboard EXCEPT ![p] = n + 1]
    <3>1. GrantAboard[p] = 0
      BY <1>now, <2>1, <2>5
    <3>2. \A q \in Callers : GrantAboard'[q] = IF q = p THEN n + 1 ELSE GrantAboard[q]
      BY <1>now, <1>next, <2>1, <2>5
    <3> QED
      BY <1>2, <1>3, <3>1, <3>2, OneChanged
  <2>7. \A q \in Callers : pc[q] = "returned" => mine[q] \in 1 .. n
    BY <1>1, <1>2 DEF AInv, IInv, Embarked, TypeOK
  <2>8. GrantGot' = [GrantGot EXCEPT ![p] = "nothing"]
    <3>1. \A q \in Callers : GrantGot'[q] = IF q = p THEN "nothing" ELSE GrantGot[q]
      BY <1>now, <1>next, <2>1, <2>3, <2>5, <2>7
    <3> QED
      BY <1>2, <1>3, <3>1, OneChanged
  <2>9. ~(Len(GrantOutcomes) # 0 /\ GrantOutcomes[Len(GrantOutcomes)] = "air")
    <3>1. \A f \in 1 .. n : flights[f].settled
      BY <1>2, <2>1 DEF AInv, IInv, NothingLost, Flights
    <3> QED
      BY <1>2, <3>1 DEF GrantOutcomes, GrantOutcome, Flights
  <2> QED
    BY <1>2, <2>4, <2>6, <2>8, <2>9, GrantsMap
<1>6. ASSUME NEW p \in Callers, NEW success \in BOOLEAN, Publish(p, success)
      PROVE  RefreshFlight!Touch(IF success THEN "ok" ELSE "failed")
  <2> DEFINE n == Len(flights)
             how == IF success THEN "ok" ELSE "failed"
  <2>1. /\ pc[p] = "wire" /\ mine[p] = n /\ n # 0 /\ ~flights[n].settled
        /\ flights' = Settle(flights, n, success) /\ mine' = mine /\ pc' = [pc EXCEPT ![p] = "vacating"]
    BY <1>6 DEF Publish, Goto, AInv, IInv, LeaderHoldsSlot, Leads, Embarked, Airborne
  <2>2. flights \in Seq(Future) /\ n \in 1 .. n
    BY <1>1, <1>2, <2>1 DEF Future, TypeOK
  <2>3. /\ Len(flights') = n /\ flights'[n].settled
        /\ \A f \in 1 .. n : f # n => flights'[f] = flights[f]
    BY <2>1, <2>2, FlightSettles
  <2>4. flights'[n].ok = success
    <3>1. flights[n] \in Future
      BY <2>2
    <3>2. PICK new \in Future : new = [flights[n] EXCEPT !.settled = TRUE, !.ok = success] /\ new.ok = success
      <4> DEFINE new == [flights[n] EXCEPT !.settled = TRUE, !.ok = success]
      <4>1. new \in Future /\ new.ok = success
        BY <3>1 DEF Future
      <4> QED
        BY <4>1
    <3>3. [flights EXCEPT ![n] = new][n] = new
      BY <2>2, ExceptSeq
    <3> QED
      BY <2>1, <3>2, <3>3 DEF Settle
  <2>5. GrantOutcomes[n] = "air" /\ GrantOutcomes'[n] = how
    BY <2>1, <2>2, <2>3, <2>4 DEF GrantOutcomes, GrantOutcome, Flights
  <2>6. \A f \in 1 .. n : f # n => GrantOutcomes'[f] = GrantOutcomes[f]
    BY <2>3 DEF GrantOutcomes, GrantOutcome, Flights
  <2>7. GrantOutcomes' = [GrantOutcomes EXCEPT ![n] = how]
    BY <1>2, <1>3, <2>3, <2>5, <2>6
  <2>8. \A q \in Callers : pc'[q] = (IF q = p THEN "vacating" ELSE pc[q])
    BY <1>1, <2>1 DEF TypeOK
  <2>9. GrantAboard' = GrantAboard
    <3>1. \A q \in Callers : GrantAboard'[q] = GrantAboard[q]
      BY <1>now, <1>next, <2>1, <2>8
    <3> QED
      BY <1>2, <1>3, <3>1, OneChanged
  <2>10. \A q \in Callers : pc[q] = "returned" => mine[q] \in 1 .. n /\ mine[q] # n
    <3>1. \A q \in Callers : pc[q] = "returned" => flights[mine[q]].settled /\ mine[q] \in 1 .. n
      BY <1>1, <1>2 DEF AInv, IInv, OutcomeShared, Embarked, TypeOK
    <3> QED
      BY <2>1, <3>1
  <2>11. GrantGot' = GrantGot
    <3>1. \A q \in Callers : GrantGot'[q] = GrantGot[q]
      BY <1>now, <1>next, <2>1, <2>3, <2>8, <2>10
    <3> QED
      BY <1>2, <1>3, <3>1, OneChanged
  <2>12. how \in {"ok", "failed"}
    OBVIOUS
  <2> HIDE DEF n, how
  <2> QED
    BY <1>2, <2>1, <2>5, <2>7, <2>9, <2>11, <2>12, GrantsMap DEF n, how
<1>7. ASSUME NEW p \in Callers, Vacate(p) \/ Receive(p) PROVE RefreshFlight!Leave(p)
  <2> DEFINE f == mine[p]
  <2>1. /\ flights' = flights /\ mine' = mine /\ pc' = [pc EXCEPT ![p] = "returned"]
        /\ pc[p] \in {"vacating", "waiting"} /\ f # 0
    BY <1>7 DEF Vacate, Receive, Goto, AInv, IInv, Embarked
  <2>2. flights[f].settled
    BY <1>7 DEF Vacate, Receive, AInv, IInv, OutcomeShared
  <2>3. f \in 1 .. Len(flights)
    BY <1>1, <1>2, <2>1 DEF TypeOK
  <2>4. GrantOutcomes' = GrantOutcomes
    BY <2>1 DEF GrantOutcomes, GrantOutcome, Flights
  <2>5. \A q \in Callers : pc'[q] = (IF q = p THEN "returned" ELSE pc[q])
    BY <1>1, <2>1 DEF TypeOK
  <2>6. GrantAboard[p] = f /\ GrantAboard' = [GrantAboard EXCEPT ![p] = 0]
    <3>1. GrantAboard[p] = f
      BY <1>now, <2>1, <2>5
    <3>2. \A q \in Callers : GrantAboard'[q] = IF q = p THEN 0 ELSE GrantAboard[q]
      BY <1>now, <1>next, <2>1, <2>5
    <3> QED
      BY <1>2, <1>3, <3>1, <3>2, OneChanged
  <2>7. GrantOutcomes[f] = IF flights[f].ok THEN "ok" ELSE "failed"
    BY <2>2, <2>3 DEF GrantOutcomes, GrantOutcome, Flights
  <2>8. GrantGot' = [GrantGot EXCEPT ![p] = GrantOutcomes[f]]
    <3>1. \A q \in Callers : GrantGot'[q] = IF q = p THEN GrantOutcomes[f] ELSE GrantGot[q]
      BY <1>now, <1>next, <2>1, <2>5, <2>7
    <3> QED
      BY <1>2, <1>3, <3>1, OneChanged
  <2>9. GrantOutcomes[f] # "air"
    BY <2>7
  <2> QED
    BY <2>1, <2>4, <2>6, <2>8, <2>9, GrantsMap
<1> QED
  BY <1>4, <1>5, <1>6, <1>7 DEF Next, RefreshFlight!FNext

(* oidc.go:479-482, 519-550: a burst of refreshes is one shared flight, for any
   callers, tokens and number of flights, discovery nested in the leader's. *)
THEOREM GrantsAreShared == CSpec => GrantShared
<1>1. Init => RefreshFlight!FInit
  BY GrantsMap DEF Init, GrantOutcomes, GrantAboard, GrantGot, Flights, Idle
<1>2. Spec => GrantShared
  BY <1>1, GrantSteps, InductiveA, PTL DEF Spec, GrantShared, RefreshFlight!FSpec
<1> QED
  BY <1>2, ComposedIsFlight

-----------------------------------------------------------------------------
(* The discovery cache.  A flight that begins forgets its leader's last answer;
   the other steps of the composition are the cache's own or leave it alone. *)
DForget(p) ==
    /\ Discovery!DIdle(p)
    /\ dpc' = [dpc EXCEPT ![p] = "idle"]
    /\ UNCHANGED <<now, cached, fetchSlot, fetches, dmine, dgot, dbegan>>

DNext == Discovery!Tick \/ \E p \in Callers : Discovery!DStep(p) \/ DForget(p)

LEMMA CNextDiscovers == [CNext]_<<vars, dvars>> => [DNext]_dvars
<1> SUFFICES ASSUME CNext PROVE [DNext]_dvars
  BY DEF dvars
<1>1. ASSUME NEW p \in Callers, LeadRefresh(p) PROVE DNext
  BY <1>1 DEF LeadRefresh, DNext, DForget
<1>2. ASSUME NEW p \in Callers, JoinRefresh(p) PROVE UNCHANGED dvars
  BY <1>2 DEF JoinRefresh
<1>3. ASSUME NEW p \in Callers, Discover(p) PROVE DNext
  BY <1>3 DEF Discover, DNext
<1>4. ASSUME NEW p \in Callers, PublishRefresh(p) PROVE UNCHANGED dvars
  BY <1>4 DEF PublishRefresh
<1>5. ASSUME NEW p \in Callers, VacateRefresh(p) PROVE UNCHANGED dvars
  BY <1>5 DEF VacateRefresh
<1>6. ASSUME NEW p \in Callers, ReceiveRefresh(p) PROVE UNCHANGED dvars
  BY <1>6 DEF ReceiveRefresh
<1>7. ASSUME Time PROVE DNext
  BY <1>7 DEF Time, DNext
<1> QED
  BY <1>1, <1>2, <1>3, <1>4, <1>5, <1>6, <1>7 DEF CNext

DLeads(p) == dpc[p] \in {"wire", "vacating"}

Fetch == [settled : BOOLEAN, ok : BOOLEAN, at : 0 .. MaxTime]

(* The slot is the fetch of the one leader there is, and the last one begun. *)
FetcherHoldsSlot ==
    /\ \A p \in Callers : DLeads(p) => fetchSlot # 0 /\ fetchSlot = dmine[p]
    /\ \A p, q \in Callers : DLeads(p) /\ DLeads(q) => p = q
    /\ fetchSlot # 0 => fetchSlot = Len(fetches)

(* A fetch that has not settled occupies the slot, and whoever returns from a
   fetch that has settled returns with what it brought. *)
FetchesLand ==
    /\ \A f \in 1 .. Len(fetches) : ~fetches[f].settled => fetchSlot = f /\ ~fetches[f].ok
    /\ \A p \in Callers :
         /\ dpc[p] = "waiting" => dmine[p] # 0
         /\ dpc[p] = "wire" => ~fetches[dmine[p]].settled
         /\ dpc[p] = "vacating" => fetches[dmine[p]].settled
         /\ dpc[p] = "returned" /\ dmine[p] # 0 =>
              fetches[dmine[p]].settled /\ dgot[p] = Discovery!DocOf(dmine[p])

(* The cache expires one TTL after its document was fetched, and a caller served
   from it was given a document. *)
CacheIsADoc ==
    /\ cached.doc # 0 => fetches[cached.doc].ok /\ cached.exp = fetches[cached.doc].at + Discovery!TTL
    /\ \A p \in Callers : dpc[p] = "returned" /\ dmine[p] = 0 => dgot[p] # 0 /\ fetches[dgot[p]].ok

DInv == Discovery!DTypeOK /\ FetcherHoldsSlot /\ FetchesLand /\ CacheIsADoc /\ Discovery!ServedFresh

LEMMA InitDInv == Discovery!DInit => DInv
<1> SUFFICES ASSUME Discovery!DInit PROVE DInv
  OBVIOUS
<1> USE DiscoveryAssumption DEF Discovery!DInit, Discovery!DiscoveryConstants
<1>1. Discovery!TTL \in Nat
  BY DEF Discovery!TTL
<1>2. 0 \in 0 .. MaxTime /\ 0 \in 0 .. MaxTime + Discovery!TTL
  BY <1>1
<1>3. fetches \in Seq([settled : BOOLEAN, ok : BOOLEAN, at : 0 .. MaxTime]) /\ Len(fetches) = 0
  OBVIOUS
<1>4. Discovery!DTypeOK
  BY <1>2, <1>3 DEF Discovery!DTypeOK
<1> QED
  BY <1>3, <1>4 DEF DInv, FetcherHoldsSlot, DLeads, FetchesLand, CacheIsADoc, Discovery!ServedFresh

(* A step of one caller that begins no fetch and settles none. *)
LEMMA CallerDInv ==
  ASSUME DInv, NEW p \in Callers,
         \/ Discovery!ServeCached(p) \/ Discovery!JoinFetch(p) \/ Discovery!VacateFetch(p)
         \/ Discovery!ReceiveDoc(p) \/ DForget(p)
  PROVE  DInv'
<1> USE DiscoveryAssumption DEF DInv, Discovery!DTypeOK, Discovery!DiscoveryConstants
<1>1. fetches' = fetches /\ cached' = cached /\ now' = now /\ Len(fetches) \in Nat
  BY DEF Discovery!ServeCached, Discovery!JoinFetch, Discovery!VacateFetch, Discovery!ReceiveDoc, DForget
<1>2. \A f \in 1 .. Len(fetches) : fetches[f].at \in Nat /\ fetches[f].ok \in BOOLEAN /\ fetches[f].settled \in BOOLEAN
  <2>1. \A f \in 1 .. Len(fetches) : fetches[f] \in Fetch
    BY ElementOfSeq DEF Fetch
  <2> QED
    BY <2>1 DEF Fetch
<1>3. CASE Discovery!ServeCached(p)
  <2> USE <1>3 DEF Discovery!ServeCached, Discovery!DCall
  <2>1. Discovery!DTypeOK'
    OBVIOUS
  <2>2. FetcherHoldsSlot'
    BY DEF FetcherHoldsSlot, DLeads
  <2>3. FetchesLand'
    BY DEF FetchesLand, Discovery!DocOf
  <2>4. CacheIsADoc'
    BY DEF CacheIsADoc, Discovery!Warm
  <2>5. Discovery!ServedFresh'
    BY <1>2 DEF Discovery!ServedFresh, CacheIsADoc, Discovery!Warm
  <2> QED
    BY <2>1, <2>2, <2>3, <2>4, <2>5
<1>4. CASE Discovery!JoinFetch(p)
  <2> USE <1>4 DEF Discovery!JoinFetch, Discovery!DCall
  <2>1. Discovery!DTypeOK'
    OBVIOUS
  <2>2. FetcherHoldsSlot'
    BY DEF FetcherHoldsSlot, DLeads
  <2>3. FetchesLand'
    BY DEF FetchesLand, Discovery!DocOf
  <2>4. CacheIsADoc' /\ Discovery!ServedFresh'
    BY DEF CacheIsADoc, Discovery!ServedFresh
  <2> QED
    BY <2>1, <2>2, <2>3, <2>4
<1>5. CASE Discovery!VacateFetch(p)
  <2> USE <1>5 DEF Discovery!VacateFetch, Discovery!DReturn
  <2>1. fetchSlot = dmine[p] /\ fetchSlot' = 0 /\ dmine[p] \in 1 .. Len(fetches)
    BY DEF FetcherHoldsSlot, DLeads
  <2>2. Discovery!DocOf(dmine[p]) \in 0 .. Len(fetches)
    BY <2>1 DEF Discovery!DocOf
  <2>3. Discovery!DTypeOK'
    BY <2>1, <2>2
  <2>4. FetcherHoldsSlot'
    BY <2>1 DEF FetcherHoldsSlot, DLeads
  <2>5. FetchesLand'
    BY <2>1 DEF FetchesLand, Discovery!DocOf
  <2>6. CacheIsADoc'
    BY <2>1 DEF CacheIsADoc
  <2>7. Discovery!ServedFresh'
    BY <2>1 DEF Discovery!ServedFresh
  <2> QED
    BY <2>3, <2>4, <2>5, <2>6, <2>7
<1>6. CASE Discovery!ReceiveDoc(p)
  <2> USE <1>6 DEF Discovery!ReceiveDoc, Discovery!DReturn
  <2>1. dmine[p] \in 1 .. Len(fetches)
    BY DEF FetchesLand
  <2>2. Discovery!DocOf(dmine[p]) \in 0 .. Len(fetches)
    BY <2>1 DEF Discovery!DocOf
  <2>3. Discovery!DTypeOK'
    BY <2>2
  <2>4. FetcherHoldsSlot'
    BY DEF FetcherHoldsSlot, DLeads
  <2>5. FetchesLand'
    BY DEF FetchesLand, Discovery!DocOf
  <2>6. \A q \in Callers : q # p =>
          dpc'[q] = dpc[q] /\ dmine'[q] = dmine[q] /\ dgot'[q] = dgot[q] /\ dbegan'[q] = dbegan[q]
    OBVIOUS
  <2>7. dmine'[p] # 0
    BY <2>1
  <2>8. CacheIsADoc'
    BY <1>1, <2>6, <2>7 DEF CacheIsADoc
  <2>9. Discovery!ServedFresh'
    BY <1>1, <2>6, <2>7 DEF Discovery!ServedFresh
  <2> QED
    BY <2>3, <2>4, <2>5, <2>8, <2>9
<1>7. CASE DForget(p)
  <2> USE <1>7 DEF DForget
  <2>1. Discovery!DTypeOK'
    OBVIOUS
  <2>2. FetcherHoldsSlot' /\ FetchesLand' /\ CacheIsADoc' /\ Discovery!ServedFresh'
    BY DEF FetcherHoldsSlot, DLeads, FetchesLand, Discovery!DocOf, CacheIsADoc, Discovery!ServedFresh
  <2> QED
    BY <2>1, <2>2
<1> QED
  BY <1>3, <1>4, <1>5, <1>6, <1>7

(* A fetch begins when the slot is empty, and those before it keep their outcome. *)
LEMMA LeadDInv ==
  ASSUME DInv, NEW p \in Callers, Discovery!LeadFetch(p)
  PROVE  DInv'
<1> DEFINE n == Len(fetches)
           new == [settled |-> FALSE, ok |-> FALSE, at |-> now]
<1> USE DiscoveryAssumption DEF Discovery!DiscoveryConstants
<1>1. /\ fetchSlot = 0 /\ fetches' = Append(fetches, new) /\ fetchSlot' = n + 1 /\ n < MaxFetches
      /\ dpc' = [dpc EXCEPT ![p] = "wire"] /\ dmine' = [dmine EXCEPT ![p] = n + 1]
      /\ dbegan' = [dbegan EXCEPT ![p] = now] /\ now' = now /\ cached' = cached /\ dgot' = dgot
  BY DEF Discovery!LeadFetch, Discovery!DCall
<1>2. /\ now \in 0 .. MaxTime /\ fetches \in Seq(Fetch) /\ n \in Nat
      /\ cached \in [doc : 0 .. n, exp : 0 .. MaxTime + Discovery!TTL]
      /\ dpc \in [Callers -> {"idle", "waiting", "wire", "vacating", "returned"}]
      /\ dmine \in [Callers -> 0 .. n] /\ dgot \in [Callers -> 0 .. n]
      /\ dbegan \in [Callers -> 0 .. MaxTime]
  BY DEF DInv, Discovery!DTypeOK, Fetch
<1>3. new \in Fetch
  BY <1>2 DEF Fetch
<1>4. /\ fetches' \in Seq(Fetch) /\ Len(fetches') = n + 1 /\ fetches'[n + 1] = new
      /\ \A f \in 1 .. n : fetches'[f] = fetches[f]
  BY <1>1, <1>2, <1>3
<1>5. 0 .. n \subseteq 0 .. n + 1 /\ n + 1 \in 0 .. n + 1
  BY <1>2
<1>6. /\ cached' \in [doc : 0 .. n + 1, exp : 0 .. MaxTime + Discovery!TTL]
      /\ dmine' \in [Callers -> 0 .. n + 1] /\ dgot' \in [Callers -> 0 .. n + 1]
  BY <1>1, <1>2, <1>5
<1> HIDE DEF new
<1>7. Discovery!DTypeOK'
  BY <1>1, <1>2, <1>4, <1>6 DEF Discovery!DTypeOK, Discovery!TTL, Fetch
<1>8. \A q \in Callers : dpc[q] \notin {"wire", "vacating"}
  BY <1>1 DEF DInv, FetcherHoldsSlot, DLeads
<1>9. \A q \in Callers : /\ dpc'[q] = (IF q = p THEN "wire" ELSE dpc[q])
                         /\ dmine'[q] = IF q = p THEN n + 1 ELSE dmine[q]
  BY <1>1, <1>2
<1>10. FetcherHoldsSlot'
  BY <1>1, <1>2, <1>4, <1>8, <1>9 DEF FetcherHoldsSlot, DLeads
<1>11. \A f \in 1 .. n : fetches[f].settled
  BY <1>1, <1>2 DEF DInv, FetchesLand
<1>12. ~new.settled /\ ~new.ok /\ new.at = now
  BY DEF new
<1>13. FetchesLand'
  <2>1. \A f \in 1 .. n + 1 : ~fetches'[f].settled => f = n + 1 /\ ~fetches'[f].ok
    BY <1>4, <1>11, <1>12
  <2>2. ASSUME NEW q \in Callers, q # p, dmine[q] # 0
        PROVE  fetches'[dmine[q]] = fetches[dmine[q]]
    <3>1. dmine[q] \in 1 .. n
      BY <1>2, <2>2
    <3> QED
      BY <1>4, <3>1
  <2>3. \A q \in Callers :
         /\ dpc'[q] = "waiting" => dmine'[q] # 0
         /\ dpc'[q] = "wire" => ~fetches'[dmine'[q]].settled
         /\ dpc'[q] # "vacating"
         /\ dpc'[q] = "returned" /\ dmine'[q] # 0 =>
              fetches'[dmine'[q]].settled /\ dgot'[q] = (IF fetches'[dmine'[q]].ok THEN dmine'[q] ELSE 0)
    <3> SUFFICES ASSUME NEW q \in Callers
                 PROVE  /\ dpc'[q] = "waiting" => dmine'[q] # 0
                        /\ dpc'[q] = "wire" => ~fetches'[dmine'[q]].settled
                        /\ dpc'[q] # "vacating"
                        /\ dpc'[q] = "returned" /\ dmine'[q] # 0 =>
                             /\ fetches'[dmine'[q]].settled
                             /\ dgot'[q] = IF fetches'[dmine'[q]].ok THEN dmine'[q] ELSE 0
      OBVIOUS
    <3>1. CASE q = p
      BY <1>2, <1>4, <1>9, <1>12, <3>1
    <3>2. CASE q # p
      <4>1. dpc'[q] = dpc[q] /\ dmine'[q] = dmine[q] /\ dgot'[q] = dgot[q]
        BY <1>1, <1>9, <3>2
      <4>2. dmine[q] # 0 => fetches'[dmine[q]] = fetches[dmine[q]]
        BY <2>2, <3>2
      <4> QED
        BY <1>8, <4>1, <4>2 DEF DInv, FetchesLand, Discovery!DocOf
    <3> QED
      BY <3>1, <3>2
  <2> QED
    BY <1>1, <1>4, <2>1, <2>3 DEF FetchesLand, Discovery!DocOf
<1>14. \A q \in Callers : dgot[q] # 0 => fetches'[dgot[q]] = fetches[dgot[q]]
  BY <1>2, <1>4
<1>15. CacheIsADoc'
  <2>1. cached.doc # 0 => fetches'[cached.doc] = fetches[cached.doc]
    BY <1>2, <1>4
  <2> QED
    BY <1>1, <1>2, <1>9, <1>14, <2>1 DEF DInv, CacheIsADoc, Discovery!TTL
<1>16. Discovery!ServedFresh'
  <2>1. \A f \in 1 .. n + 1 : fetches'[f].ok => f <= cached.doc
    BY <1>4, <1>12 DEF DInv, Discovery!ServedFresh
  <2>2. \A q \in Callers : dpc'[q] = "returned" /\ dmine'[q] = 0 =>
                             dbegan'[q] = dbegan[q] /\ dgot'[q] = dgot[q] /\ dgot[q] # 0
                             /\ dbegan[q] < fetches[dgot[q]].at + Discovery!TTL
    BY <1>1, <1>2, <1>9 DEF DInv, Discovery!ServedFresh, CacheIsADoc
  <2> QED
    BY <1>1, <1>4, <1>14, <2>1, <2>2 DEF Discovery!ServedFresh, Discovery!TTL
<1> QED
  BY <1>7, <1>10, <1>13, <1>15, <1>16 DEF DInv

(* A fetch that is published was in the air, so nobody has returned from it; a
   document is the youngest there is. *)
LEMMA PublishDInv ==
  ASSUME DInv, NEW p \in Callers, NEW success \in BOOLEAN, Discovery!PublishFetch(p, success)
  PROVE  DInv'
<1> DEFINE n == Len(fetches)
           new == [settled |-> TRUE, ok |-> success, at |-> now]
<1> USE DiscoveryAssumption DEF Discovery!DiscoveryConstants
<1>1. /\ dpc[p] = "wire" /\ dmine[p] = n /\ n # 0 /\ fetchSlot = n /\ ~fetches[n].settled
      /\ fetches' = [fetches EXCEPT ![n] = new]
      /\ cached' = IF success THEN [doc |-> n, exp |-> now + Discovery!TTL] ELSE cached
      /\ dpc' = [dpc EXCEPT ![p] = "vacating"]
      /\ UNCHANGED <<now, fetchSlot, dmine, dgot, dbegan>>
  BY DEF Discovery!PublishFetch, DInv, FetcherHoldsSlot, DLeads, FetchesLand
<1>2. /\ now \in 0 .. MaxTime /\ fetches \in Seq(Fetch) /\ n \in Nat /\ n <= MaxFetches
      /\ cached \in [doc : 0 .. n, exp : 0 .. MaxTime + Discovery!TTL]
      /\ dpc \in [Callers -> {"idle", "waiting", "wire", "vacating", "returned"}]
      /\ dmine \in [Callers -> 0 .. n] /\ dgot \in [Callers -> 0 .. n]
      /\ dbegan \in [Callers -> 0 .. MaxTime]
  BY DEF DInv, Discovery!DTypeOK, Fetch
<1>3. Discovery!TTL \in Nat
  BY DEF Discovery!TTL
<1>4. /\ fetches' \in Seq(Fetch) /\ Len(fetches') = n /\ fetches'[n] = new
      /\ \A f \in 1 .. n : f # n => fetches'[f] = fetches[f]
  <2>1. n \in 1 .. Len(fetches) /\ new \in Fetch
    BY <1>1, <1>2 DEF Fetch
  <2> HIDE DEF n, new
  <2>2. /\ [fetches EXCEPT ![n] = new] \in Seq(Fetch)
        /\ Len([fetches EXCEPT ![n] = new]) = Len(fetches)
        /\ \A j \in 1 .. Len(fetches) : [fetches EXCEPT ![n] = new][j] = IF j = n THEN new ELSE fetches[j]
    BY <1>2, <2>1, ExceptSeq
  <2> QED
    BY <1>1, <2>1, <2>2 DEF n
<1>5. new.settled /\ new.ok = success /\ new.at = now
  OBVIOUS
<1> HIDE DEF new
<1>6. cached' \in [doc : 0 .. n, exp : 0 .. MaxTime + Discovery!TTL]
  BY <1>1, <1>2, <1>3
<1>7. Discovery!DTypeOK'
  BY <1>1, <1>2, <1>4, <1>6 DEF Discovery!DTypeOK, Discovery!TTL, Fetch
<1>8. \A q \in Callers : dpc'[q] = (IF q = p THEN "vacating" ELSE dpc[q])
  BY <1>1, <1>2
<1>9. FetcherHoldsSlot'
  BY <1>1, <1>4, <1>8 DEF DInv, FetcherHoldsSlot, DLeads
<1>10. \A f \in 1 .. n : fetches[f].ok => f # n
  BY <1>1, <1>2 DEF DInv, FetchesLand
<1>11. FetchesLand'
  <2>1. \A f \in 1 .. n : fetches'[f].settled
    BY <1>1, <1>2, <1>4, <1>5 DEF DInv, FetchesLand
  <2>2. \A q \in Callers : dpc'[q] # "wire" /\ (dpc'[q] = "waiting" => dmine[q] # 0)
    BY <1>1, <1>8 DEF DInv, FetcherHoldsSlot, DLeads, FetchesLand
  <2>3. ASSUME NEW q \in Callers, dpc'[q] = "returned", dmine[q] # 0
        PROVE  dgot[q] = IF fetches'[dmine[q]].ok THEN dmine[q] ELSE 0
    <3>1. dpc[q] = "returned" /\ dmine[q] \in 1 .. n
      BY <1>2, <1>8, <2>3
    <3>2. fetches[dmine[q]].settled /\ dgot[q] = IF fetches[dmine[q]].ok THEN dmine[q] ELSE 0
      BY <3>1, <2>3 DEF DInv, FetchesLand, Discovery!DocOf
    <3>3. dmine[q] # n
      BY <1>1, <3>2
    <3> QED
      BY <1>4, <3>1, <3>2, <3>3
  <2>4. ASSUME NEW q \in Callers, dpc'[q] \in {"vacating", "returned"}, dmine[q] # 0
        PROVE  fetches'[dmine[q]].settled
    BY <1>2, <2>1, <2>4
  <2>5. \A q \in Callers : dpc'[q] = "vacating" => dmine[q] # 0
    BY <1>1, <1>8 DEF DInv, FetcherHoldsSlot, DLeads
  <2> QED
    BY <1>1, <1>4, <2>1, <2>2, <2>3, <2>4, <2>5 DEF FetchesLand, Discovery!DocOf
<1>12. \A q \in Callers : dpc'[q] = "returned" /\ dmine[q] = 0 =>
                           /\ dpc[q] = "returned" /\ dgot[q] # 0 /\ fetches[dgot[q]].ok
                           /\ fetches'[dgot[q]] = fetches[dgot[q]]
  <2> SUFFICES ASSUME NEW q \in Callers, dpc'[q] = "returned", dmine[q] = 0
               PROVE  /\ dpc[q] = "returned" /\ dgot[q] # 0 /\ fetches[dgot[q]].ok
                      /\ fetches'[dgot[q]] = fetches[dgot[q]]
    OBVIOUS
  <2>1. dpc[q] = "returned"
    BY <1>8
  <2>2. dgot[q] # 0 /\ fetches[dgot[q]].ok
    BY <2>1 DEF DInv, CacheIsADoc
  <2>3. dgot[q] \in 1 .. n
    BY <1>2, <2>2
  <2> QED
    BY <1>4, <1>10, <2>1, <2>2, <2>3
<1>13. CacheIsADoc'
  <2>1. cached'.doc # 0 => fetches'[cached'.doc].ok /\ cached'.exp = fetches'[cached'.doc].at + Discovery!TTL
    <3>1. CASE success
      BY <1>1, <1>4, <1>5, <3>1
    <3>2. CASE ~success
      <4> SUFFICES ASSUME cached.doc # 0
                   PROVE  fetches'[cached.doc].ok /\ cached.exp = fetches'[cached.doc].at + Discovery!TTL
        BY <1>1, <3>2
      <4>1. cached.doc \in 1 .. n /\ fetches[cached.doc].ok /\ cached.exp = fetches[cached.doc].at + Discovery!TTL
        BY <1>2 DEF DInv, CacheIsADoc
      <4> QED
        BY <1>4, <1>10, <4>1
    <3> QED
      BY <3>1, <3>2
  <2> QED
    BY <1>1, <1>12, <2>1 DEF CacheIsADoc, Discovery!TTL
<1>14. Discovery!ServedFresh'
  <2>1. \A f \in 1 .. n : fetches'[f].ok => f <= cached'.doc
    <3>1. CASE success
      BY <1>1, <1>2, <3>1
    <3>2. CASE ~success
      <4>1. \A f \in 1 .. n : fetches'[f].ok => fetches[f].ok
        BY <1>4, <1>5, <3>2
      <4> QED
        BY <1>1, <3>2, <4>1 DEF DInv, Discovery!ServedFresh
    <3> QED
      BY <3>1, <3>2
  <2>2. \A q \in Callers : dpc'[q] = "returned" /\ dmine[q] = 0 =>
                            dbegan[q] < fetches'[dgot[q]].at + Discovery!TTL
    BY <1>12 DEF DInv, Discovery!ServedFresh
  <2> QED
    BY <1>1, <1>4, <2>1, <2>2 DEF Discovery!ServedFresh, Discovery!TTL
<1> QED
  BY <1>7, <1>9, <1>11, <1>13, <1>14 DEF DInv

LEMMA NextDInv == DInv /\ [DNext]_dvars => DInv'
<1> SUFFICES ASSUME DInv, [DNext]_dvars PROVE DInv'
  OBVIOUS
<1>1. ASSUME NEW p \in Callers, Discovery!DStep(p) PROVE DInv'
  BY <1>1, CallerDInv, LeadDInv, PublishDInv DEF Discovery!DStep
<1>2. ASSUME NEW p \in Callers, DForget(p) PROVE DInv'
  BY <1>2, CallerDInv
<1>3. ASSUME Discovery!Tick PROVE DInv'
  <2> USE <1>3 DEF Discovery!Tick
  <2>1. Discovery!DTypeOK'
    BY DiscoveryAssumption DEF DInv, Discovery!DTypeOK, Discovery!DiscoveryConstants, Discovery!TTL
  <2> QED
    BY <2>1 DEF DInv, FetcherHoldsSlot, DLeads, FetchesLand, Discovery!DocOf, CacheIsADoc, Discovery!ServedFresh,
       Discovery!TTL
<1>4. CASE UNCHANGED dvars
  BY <1>4 DEF dvars, DInv, Discovery!DTypeOK, FetcherHoldsSlot, DLeads, FetchesLand, Discovery!DocOf, CacheIsADoc,
     Discovery!ServedFresh, Discovery!TTL
<1> QED
  BY <1>1, <1>2, <1>3, <1>4 DEF DNext

LEMMA InductiveD == CSpec => []DInv
  BY InitDInv, NextDInv, CNextDiscovers, PTL DEF CSpec, CInit

(* oidc.go:234-342: what OidcDiscover serves from the cache is younger than the
   TTL, and no failed refetch revives an expired document or drops a live one. *)
THEOREM DocumentsAreFresh == CSpec => []ServedFresh
<1>1. DInv => ServedFresh
  BY DEF DInv, ServedFresh
<1> QED
  BY <1>1, InductiveD, PTL

-----------------------------------------------------------------------------
(* The fetches are an abstract single flight too. *)
FetchOutcome(f) == IF ~fetches[f].settled THEN "air" ELSE IF fetches[f].ok THEN "ok" ELSE "failed"
FetchOutcomes == [f \in 1 .. Len(fetches) |-> FetchOutcome(f)]
FetchAboard == [p \in Callers |-> IF Discovery!DIdle(p) THEN 0 ELSE dmine[p]]
FetchGot ==
    [p \in Callers |->
        IF dpc[p] = "returned" /\ dmine[p] # 0
        THEN IF dgot[p] # 0 THEN "ok" ELSE "failed"
        ELSE "nothing"]

LEMMA FetchesMap ==
    /\ Discovery!Flight!FInit <=>
         /\ FetchOutcomes = <<>> /\ FetchAboard = [p \in Callers |-> 0]
         /\ FetchGot = [p \in Callers |-> "nothing"]
    /\ \A p \in Callers :
         /\ /\ Len(FetchOutcomes) # 0 /\ FetchAboard[p] = 0
            /\ FetchAboard' = [FetchAboard EXCEPT ![p] = Len(FetchOutcomes)]
            /\ FetchGot' = [FetchGot EXCEPT ![p] = "nothing"] /\ FetchOutcomes' = FetchOutcomes
            => Discovery!Flight!Board(p)
         /\ /\ ~(Len(FetchOutcomes) # 0 /\ FetchOutcomes[Len(FetchOutcomes)] = "air")
            /\ FetchAboard[p] = 0
            /\ FetchAboard' = [FetchAboard EXCEPT ![p] = Len(FetchOutcomes) + 1]
            /\ FetchGot' = [FetchGot EXCEPT ![p] = "nothing"]
            /\ FetchOutcomes' = Append(FetchOutcomes, "air")
            => Discovery!Flight!TakeOff(p)
         /\ /\ FetchAboard[p] # 0 /\ FetchOutcomes[FetchAboard[p]] # "air"
            /\ FetchGot' = [FetchGot EXCEPT ![p] = FetchOutcomes[FetchAboard[p]]]
            /\ FetchAboard' = [FetchAboard EXCEPT ![p] = 0] /\ FetchOutcomes' = FetchOutcomes
            => Discovery!Flight!Leave(p)
         /\ /\ FetchAboard[p] = 0 /\ FetchGot' = [FetchGot EXCEPT ![p] = "nothing"]
            /\ FetchAboard' = FetchAboard /\ FetchOutcomes' = FetchOutcomes
            => Discovery!Flight!Forget(p)
    /\ \A how \in {"ok", "failed"} :
         /\ Len(FetchOutcomes) # 0 /\ FetchOutcomes[Len(FetchOutcomes)] = "air"
         /\ FetchOutcomes' = [FetchOutcomes EXCEPT ![Len(FetchOutcomes)] = how]
         /\ UNCHANGED <<FetchAboard, FetchGot>>
         => Discovery!Flight!Touch(how)
  BY Zenon DEF FetchOutcomes, FetchOutcome, FetchAboard, FetchGot, Discovery!Flight!FInit, Discovery!Flight!Board,
     Discovery!Flight!TakeOff, Discovery!Flight!Leave, Discovery!Flight!Forget, Discovery!Flight!Touch,
     Discovery!Flight!Embark, Discovery!Flight!InTheAir, Discovery!Flight!Last

FetchTypes ==
    /\ FetchOutcomes \in [1 .. Len(fetches) -> Outcomes] /\ Len(FetchOutcomes) = Len(fetches)
    /\ FetchAboard \in [Callers -> Nat] /\ FetchGot \in [Callers -> {"nothing", "ok", "failed"}]
    /\ \A p \in Callers :
         /\ FetchAboard[p] = IF dpc[p] \in {"idle", "returned"} THEN 0 ELSE dmine[p]
         /\ FetchGot[p] = IF dpc[p] = "returned" /\ dmine[p] # 0
                          THEN IF dgot[p] # 0 THEN "ok" ELSE "failed"
                          ELSE "nothing"
    /\ \A f \in 1 .. Len(fetches) : FetchOutcomes[f] = FetchOutcome(f)
    /\ Len(fetches) \in Nat

LEMMA FetchesTyped == Discovery!DTypeOK => FetchTypes
<1> SUFFICES ASSUME Discovery!DTypeOK PROVE FetchTypes
  OBVIOUS
<1>1. Len(fetches) \in Nat
  BY DEF Discovery!DTypeOK
<1>2. FetchOutcomes \in [1 .. Len(fetches) -> Outcomes]
  BY DEF FetchOutcomes, FetchOutcome, Outcomes
<1>3. Len(FetchOutcomes) = Len(fetches)
  BY <1>1, <1>2
<1>4. FetchAboard \in [Callers -> Nat] /\ FetchGot \in [Callers -> {"nothing", "ok", "failed"}]
  BY <1>1 DEF FetchAboard, FetchGot, Discovery!DTypeOK
<1>5. \A p \in Callers :
        /\ FetchAboard[p] = IF dpc[p] \in {"idle", "returned"} THEN 0 ELSE dmine[p]
        /\ FetchGot[p] = IF dpc[p] = "returned" /\ dmine[p] # 0
                         THEN IF dgot[p] # 0 THEN "ok" ELSE "failed"
                         ELSE "nothing"
  BY DEF FetchAboard, FetchGot, Discovery!DIdle
<1>6. \A f \in 1 .. Len(fetches) : FetchOutcomes[f] = FetchOutcome(f)
  BY DEF FetchOutcomes
<1> QED
  BY <1>1, <1>2, <1>3, <1>4, <1>5, <1>6 DEF FetchTypes

LEMMA FetchesTypedNext == Discovery!DTypeOK' => FetchTypes'
  BY FetchesTyped, PTL

(* Nothing of a caller's flight changes when nothing it is made of does. *)
LEMMA FetchSame ==
  ASSUME FetchTypes, FetchTypes', fetches' = fetches
  PROVE  FetchOutcomes' = FetchOutcomes
  BY DEF FetchOutcomes, FetchOutcome

(* A step of one caller that boards a fetch, or is served, or forgets. *)
LEMMA FetchCaller ==
  ASSUME FetchTypes, FetchTypes', NEW p \in Callers, NEW a \in Nat, NEW g \in {"nothing", "ok", "failed"},
         FetchAboard'[p] = a, FetchGot'[p] = g,
         \A q \in Callers : q # p => dpc'[q] = dpc[q] /\ dmine'[q] = dmine[q] /\ dgot'[q] = dgot[q]
  PROVE  FetchAboard' = [FetchAboard EXCEPT ![p] = a] /\ FetchGot' = [FetchGot EXCEPT ![p] = g]
<1>1. ASSUME NEW q \in Callers, q # p
      PROVE  FetchAboard'[q] = FetchAboard[q] /\ FetchGot'[q] = FetchGot[q]
  <2>1. dpc'[q] = dpc[q] /\ dmine'[q] = dmine[q] /\ dgot'[q] = dgot[q]
    BY <1>1
  <2>2. FetchAboard'[q] = FetchAboard[q]
    BY <2>1 DEF FetchTypes
  <2>3. FetchGot'[q] = FetchGot[q]
    BY <2>1 DEF FetchTypes
  <2> QED
    BY <2>2, <2>3
<1>2. \A q \in Callers : FetchAboard'[q] = (IF q = p THEN a ELSE FetchAboard[q])
  BY <1>1
<1>3. \A q \in Callers : FetchGot'[q] = (IF q = p THEN g ELSE FetchGot[q])
  BY <1>1
<1>4. /\ FetchAboard \in [Callers -> Nat] /\ FetchAboard' \in [Callers -> Nat]
      /\ FetchGot \in [Callers -> {"nothing", "ok", "failed"}]
      /\ FetchGot' \in [Callers -> {"nothing", "ok", "failed"}]
  BY DEF FetchTypes
<1> QED
  BY <1>2, <1>3, <1>4, OneChanged

LEMMA FetchSteps == DInv /\ DInv' /\ [DNext]_dvars => [Discovery!Flight!FNext]_(Discovery!Flight!fvars)
<1> SUFFICES ASSUME DInv, DInv', DNext
             PROVE  Discovery!Flight!FNext \/ UNCHANGED Discovery!Flight!fvars
  <2>1. UNCHANGED dvars => UNCHANGED Discovery!Flight!fvars
    BY DEF dvars, Discovery!Flight!fvars, Discovery!DIdle
  <2> QED
    BY <2>1
<1>1. /\ FetchTypes /\ FetchTypes'
  BY FetchesTyped, FetchesTypedNext DEF DInv
<1>2. /\ Len(FetchOutcomes) = Len(fetches) /\ Len(fetches) \in Nat
      /\ fetches \in Seq(Fetch)
      /\ dpc \in [Callers -> {"idle", "waiting", "wire", "vacating", "returned"}]
      /\ dmine \in [Callers -> 0 .. Len(fetches)] /\ dgot \in [Callers -> 0 .. Len(fetches)]
  BY <1>1 DEF FetchTypes, DInv, Discovery!DTypeOK, Fetch
<1>outcomes.
      /\ \A f \in 1 .. Len(fetches) :
           FetchOutcomes[f] = IF ~fetches[f].settled THEN "air" ELSE IF fetches[f].ok THEN "ok" ELSE "failed"
      /\ \A f \in 1 .. Len(fetches') :
           FetchOutcomes'[f] = IF ~fetches'[f].settled THEN "air" ELSE IF fetches'[f].ok THEN "ok" ELSE "failed"
  BY <1>1 DEF FetchTypes, FetchOutcome
<1>callers.
      /\ \A p \in Callers :
           /\ FetchAboard[p] = IF dpc[p] \in {"idle", "returned"} THEN 0 ELSE dmine[p]
           /\ FetchGot[p] = IF dpc[p] = "returned" /\ dmine[p] # 0
                            THEN IF dgot[p] # 0 THEN "ok" ELSE "failed"
                            ELSE "nothing"
      /\ \A p \in Callers :
           /\ FetchAboard'[p] = IF dpc'[p] \in {"idle", "returned"} THEN 0 ELSE dmine'[p]
           /\ FetchGot'[p] = IF dpc'[p] = "returned" /\ dmine'[p] # 0
                             THEN IF dgot'[p] # 0 THEN "ok" ELSE "failed"
                             ELSE "nothing"
  BY <1>1 DEF FetchTypes
<1>3. ASSUME Discovery!Tick PROVE UNCHANGED Discovery!Flight!fvars
  BY <1>3 DEF Discovery!Tick, Discovery!Flight!fvars, Discovery!DIdle
<1>4. ASSUME NEW p \in Callers, DForget(p) \/ Discovery!ServeCached(p) PROVE Discovery!Flight!Forget(p)
  <2>1. /\ fetches' = fetches /\ dpc[p] \in {"idle", "returned"} /\ dpc'[p] \in {"idle", "returned"}
        /\ dpc'[p] = "idle" \/ dmine'[p] = 0
        /\ \A q \in Callers : q # p => dpc'[q] = dpc[q] /\ dmine'[q] = dmine[q] /\ dgot'[q] = dgot[q]
    BY <1>2, <1>4 DEF DForget, Discovery!ServeCached, Discovery!DCall, Discovery!DIdle
  <2>2. FetchAboard[p] = 0 /\ FetchAboard'[p] = 0 /\ FetchGot'[p] = "nothing"
    BY <1>1, <2>1 DEF FetchTypes
  <2>3. FetchAboard' = [FetchAboard EXCEPT ![p] = 0] /\ FetchGot' = [FetchGot EXCEPT ![p] = "nothing"]
    BY <1>1, <2>1, <2>2, FetchCaller
  <2>4. FetchAboard' = FetchAboard
    BY <1>1, <2>2, <2>3 DEF FetchTypes
  <2> QED
    BY <1>1, <2>1, <2>2, <2>3, <2>4, FetchSame, FetchesMap
<1>5. ASSUME NEW p \in Callers, Discovery!JoinFetch(p) PROVE Discovery!Flight!Board(p)
  <2>1. /\ fetches' = fetches /\ dpc[p] \in {"idle", "returned"} /\ dpc'[p] = "waiting"
        /\ dmine'[p] = Len(fetches) /\ Len(fetches) # 0
        /\ \A q \in Callers : q # p => dpc'[q] = dpc[q] /\ dmine'[q] = dmine[q] /\ dgot'[q] = dgot[q]
    BY <1>2, <1>5 DEF Discovery!JoinFetch, Discovery!DCall, Discovery!DIdle, DInv, FetcherHoldsSlot
  <2>2. FetchAboard[p] = 0 /\ FetchAboard'[p] = Len(fetches) /\ FetchGot'[p] = "nothing"
    BY <1>1, <2>1 DEF FetchTypes
  <2>3. /\ FetchAboard' = [FetchAboard EXCEPT ![p] = Len(fetches)]
        /\ FetchGot' = [FetchGot EXCEPT ![p] = "nothing"]
    BY <1>1, <1>2, <2>1, <2>2, FetchCaller
  <2> QED
    BY <1>1, <1>2, <2>1, <2>2, <2>3, FetchSame, FetchesMap
<1>6. ASSUME NEW p \in Callers, Discovery!LeadFetch(p) PROVE Discovery!Flight!TakeOff(p)
  <2> DEFINE n == Len(fetches)
             new == [settled |-> FALSE, ok |-> FALSE, at |-> now]
  <2>1. /\ fetches' = Append(fetches, new) /\ fetchSlot = 0
        /\ dpc[p] \in {"idle", "returned"} /\ dpc'[p] = "wire" /\ dmine'[p] = n + 1
        /\ \A q \in Callers : q # p => dpc'[q] = dpc[q] /\ dmine'[q] = dmine[q] /\ dgot'[q] = dgot[q]
    BY <1>2, <1>6 DEF Discovery!LeadFetch, Discovery!DCall, Discovery!DIdle
  <2>2. new \in Fetch /\ ~new.settled
    BY DEF DInv, Discovery!DTypeOK, Fetch
  <2> HIDE DEF new
  <2>3. /\ Len(fetches') = n + 1 /\ fetches'[n + 1] = new
        /\ \A f \in 1 .. n : fetches'[f] = fetches[f]
    BY <1>2, <2>1, <2>2
  <2>4. FetchOutcomes' = Append(FetchOutcomes, "air")
    <3>1. ASSUME NEW f \in 1 .. n PROVE FetchOutcomes'[f] = FetchOutcomes[f]
      <4>1. f \in 1 .. Len(fetches) /\ f \in 1 .. Len(fetches') /\ fetches'[f] = fetches[f]
        BY <1>2, <2>3
      <4> QED
        BY <1>outcomes, <4>1
    <3>2. FetchOutcomes'[n + 1] = "air"
      BY <1>1, <1>2, <2>2, <2>3 DEF FetchTypes, FetchOutcome
    <3>3. FetchOutcomes \in [1 .. n -> Outcomes] /\ FetchOutcomes' \in [1 .. n + 1 -> Outcomes]
      BY <1>1, <2>3 DEF FetchTypes
    <3> QED
      BY <1>2, <3>1, <3>2, <3>3, OneMoreInTheAir
  <2>5. FetchAboard[p] = 0 /\ FetchAboard'[p] = n + 1 /\ FetchGot'[p] = "nothing"
    BY <1>1, <2>1 DEF FetchTypes
  <2>6. FetchAboard' = [FetchAboard EXCEPT ![p] = n + 1] /\ FetchGot' = [FetchGot EXCEPT ![p] = "nothing"]
    BY <1>1, <1>2, <2>1, <2>5, FetchCaller
  <2>7. ~(Len(FetchOutcomes) # 0 /\ FetchOutcomes[Len(FetchOutcomes)] = "air")
    <3>1. \A f \in 1 .. n : fetches[f].settled
      BY <1>2, <2>1 DEF DInv, FetchesLand
    <3> QED
      BY <1>outcomes, <1>2, <3>1
  <2> QED
    BY <1>2, <2>4, <2>5, <2>6, <2>7, FetchesMap
<1>7. ASSUME NEW p \in Callers, NEW success \in BOOLEAN, Discovery!PublishFetch(p, success)
      PROVE  Discovery!Flight!FNext
  <2> DEFINE n == Len(fetches)
             how == IF success THEN "ok" ELSE "failed"
             new == [settled |-> TRUE, ok |-> success, at |-> now]
  <2>1. /\ dpc[p] = "wire" /\ dmine[p] = n /\ n # 0 /\ ~fetches[n].settled
        /\ fetches' = [fetches EXCEPT ![n] = new]
        /\ dpc' = [dpc EXCEPT ![p] = "vacating"] /\ dmine' = dmine /\ dgot' = dgot
    BY <1>7 DEF Discovery!PublishFetch, DInv, FetcherHoldsSlot, DLeads, FetchesLand
  <2>2. new \in Fetch /\ new.settled /\ new.ok = success
    BY DEF DInv, Discovery!DTypeOK, Fetch
  <2> HIDE DEF new
  <2>3. /\ Len(fetches') = n /\ fetches'[n] = new
        /\ \A f \in 1 .. n : f # n => fetches'[f] = fetches[f]
    BY <1>2, <2>1, <2>2, ExceptSeq
  <2>4. FetchOutcomes[n] = "air" /\ FetchOutcomes'[n] = how
    BY <1>outcomes, <1>2, <2>1, <2>2, <2>3
  <2>5. ASSUME NEW f \in 1 .. n, f # n PROVE FetchOutcomes'[f] = FetchOutcomes[f]
    <3>1. f \in 1 .. Len(fetches) /\ f \in 1 .. Len(fetches') /\ fetches'[f] = fetches[f]
      BY <1>2, <2>3, <2>5
    <3> QED
      BY <1>outcomes, <3>1
  <2>6. FetchOutcomes' = [FetchOutcomes EXCEPT ![n] = how]
    <3>1. FetchOutcomes \in [1 .. n -> Outcomes] /\ FetchOutcomes' \in [1 .. n -> Outcomes]
      BY <1>1, <2>3 DEF FetchTypes
    <3> QED
      BY <2>4, <2>5, <3>1, OneChanged
  <2>7. \A q \in Callers : dpc'[q] = (IF q = p THEN "vacating" ELSE dpc[q])
    BY <1>2, <2>1
  <2>8. \A q \in Callers : FetchAboard'[q] = FetchAboard[q] /\ FetchGot'[q] = FetchGot[q]
    BY <1>callers, <2>1, <2>7
  <2>9. FetchAboard' = FetchAboard /\ FetchGot' = FetchGot
    BY <1>1, <2>8 DEF FetchTypes
  <2>10. how \in {"ok", "failed"}
    OBVIOUS
  <2> HIDE DEF n, how
  <2>11. Discovery!Flight!Touch(how)
    BY <1>2, <2>1, <2>4, <2>6, <2>9, <2>10, FetchesMap DEF n
  <2> QED
    BY <2>10, <2>11 DEF Discovery!Flight!FNext
<1>8. ASSUME NEW p \in Callers, Discovery!VacateFetch(p) \/ Discovery!ReceiveDoc(p) PROVE Discovery!Flight!Leave(p)
  <2> DEFINE f == dmine[p]
  <2>1. /\ fetches' = fetches /\ dpc[p] \in {"vacating", "waiting"} /\ dpc'[p] = "returned"
        /\ dmine'[p] = f /\ f # 0 /\ fetches[f].settled
        /\ dgot'[p] = (IF fetches[f].ok THEN f ELSE 0)
        /\ \A q \in Callers : q # p => dpc'[q] = dpc[q] /\ dmine'[q] = dmine[q] /\ dgot'[q] = dgot[q]
    BY <1>2, <1>8 DEF Discovery!VacateFetch, Discovery!ReceiveDoc, Discovery!DReturn, Discovery!DocOf,
       DInv, FetcherHoldsSlot, DLeads, FetchesLand
  <2>2. f \in 1 .. Len(fetches)
    BY <1>2, <2>1
  <2>3. FetchOutcomes[f] = IF fetches[f].ok THEN "ok" ELSE "failed"
    BY <1>1, <2>1, <2>2 DEF FetchTypes, FetchOutcome
  <2>4. FetchAboard[p] = f /\ FetchAboard'[p] = 0 /\ FetchGot'[p] = FetchOutcomes[f]
    BY <1>1, <2>1, <2>3 DEF FetchTypes
  <2>5. FetchOutcomes[f] # "air" /\ FetchOutcomes[f] \in {"nothing", "ok", "failed"}
    BY <2>3
  <2> HIDE DEF f
  <2>6. FetchAboard' = [FetchAboard EXCEPT ![p] = 0] /\ FetchGot' = [FetchGot EXCEPT ![p] = FetchOutcomes[f]]
    BY <1>1, <2>1, <2>4, <2>5, FetchCaller
  <2> QED
    BY <1>1, <2>1, <2>4, <2>5, <2>6, FetchSame, FetchesMap
<1> QED
  BY <1>3, <1>4, <1>5, <1>6, <1>7, <1>8 DEF DNext, Discovery!DStep, Discovery!Flight!FNext

(* oidc.go:256-287: the discovery fetches are one flight at a time, failures
   included, whoever asks and however the flights nest. *)
THEOREM FetchesAreShared == CSpec => FetchShared
<1>1. Discovery!DInit => Discovery!Flight!FInit
  BY FetchesMap DEF Discovery!DInit, FetchOutcomes, FetchAboard, FetchGot, Discovery!DIdle
<1> QED
  BY <1>1, FetchSteps, CNextDiscovers, InductiveD, PTL
  DEF CSpec, CInit, FetchShared, Discovery!FetchShared, Discovery!Flight!FSpec
=============================================================================
