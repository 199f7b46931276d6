------------------------- MODULE RefreshGuardProofs -------------------------
(***************************************************************************)
(* The guard's properties for any number of callers, any bound on the      *)
(* tokens and any admitted faults, and that the guard implements           *)
(* TokenRotation.                                                          *)
(***************************************************************************)
EXTENDS RefreshGuard, TLAPS

(* A caller inside RefreshIfNeeded past the double-check holds mu, and nobody
   else does. *)
HolderInside ==
    \A p \in Callers : pc[p] \in {"wire", "storing"} <=> holder = p

(* The books of the server: a token it has consumed it had issued, and the
   jar's refresh token is unconsumed, and the last one issued, unless a reply
   was lost. *)
BooksInOrder ==
    /\ jar <= issued
    /\ \A t \in spent : t <= issued
    /\ lost \subseteq spent
    /\ IF jar \in spent THEN jar \in lost ELSE jar = issued
    /\ \A p \in Callers : observed[p] <= jar
    /\ \A p \in Callers : pc[p] = "wire" => sent[p] = jar

(* The strengthening of OneInFlight and NoReplay that every step preserves. *)
IInv == TypeOK /\ HolderInside /\ BooksInOrder

(* The guard's cache is the jar, except while the holder is about to store or
   the jar's token is torn; an empty guard means the session has not been
   refreshed yet. *)
CacheIsJar ==
    ~torn /\ (\A p \in Callers : pc[p] # "storing")
       => IF guard.hasAny THEN guard.access = jar ELSE jar = 1

(* A request is sent for the very token it replaces, unless that one is torn. *)
WireForObserved == torn \/ \A p \in Callers : pc[p] = "wire" => observed[p] = jar

StoringRotated == \A p \in Callers : pc[p] = "storing" => jar # observed[p]

(* The strengthening of SuccessMeansRotated. *)
RInv == IInv /\ CacheIsJar /\ WireForObserved /\ StoringRotated /\ SuccessMeansRotated

-----------------------------------------------------------------------------
LEMMA InitIInv == Init => IInv
<1> SUFFICES ASSUME Init PROVE IInv
  OBVIOUS
<1> USE CallersAssumption, BoundAssumption DEF Init
<1>1. guard \in [hasAny : BOOLEAN, access : 0 .. MaxToken]
  <2>1. CASE guard = [hasAny |-> TRUE, access |-> 1]
    BY <2>1
  <2>2. CASE guard = [hasAny |-> FALSE, access |-> 0]
    BY <2>2
  <2> QED
    BY <2>1, <2>2
<1>2. TypeOK
  <2>1. torn \in BOOLEAN
    OBVIOUS
  <2> QED
    BY <1>1, <2>1 DEF TypeOK, Tokens
<1>3. HolderInside
  BY DEF HolderInside
<1>4. BooksInOrder
  BY DEF BooksInOrder
<1> QED
  BY <1>2, <1>3, <1>4 DEF IInv

(* A rotation keeps the server's books in type, and its token is a new one. *)
LEMMA RotatesTyped ==
  ASSUME NEW p \in Callers, IInv, pc[p] = "wire", Rotates(p)
  PROVE  /\ sent[p] = jar /\ sent[p] \in Tokens
         /\ issued' = issued + 1 /\ issued' \in Tokens
         /\ spent' \subseteq Tokens
         /\ \A t \in spent' : t <= issued
<1> USE BoundAssumption DEF IInv, TypeOK, BooksInOrder
<1>1. sent[p] = jar /\ jar \in Tokens /\ jar <= issued
  OBVIOUS
<1>2. issued' = issued + 1 /\ spent' = spent \cup {sent[p]} /\ issued < MaxToken
  BY DEF Rotates
<1>3. issued' \in Tokens
  BY <1>2 DEF Tokens
<1> QED
  BY <1>1, <1>2, <1>3

(* Every step of the guard, faults included, preserves the invariant. *)
LEMMA NextIInv == IInv /\ [Next]_vars => IInv'
<1> SUFFICES ASSUME IInv, [Next]_vars PROVE IInv'
  OBVIOUS
<1> USE CallersAssumption, BoundAssumption DEF IInv, TypeOK, HolderInside, BooksInOrder, Tokens
<1> DEFINE RT(p) == /\ sent[p] = jar /\ sent[p] \in Tokens
                    /\ issued' = issued + 1 /\ issued' \in Tokens
                    /\ spent' \subseteq Tokens
                    /\ \A t \in spent' : t <= issued
<1>1. ASSUME NEW p \in Callers, Begin(p) PROVE IInv'
  BY <1>1 DEF Begin, Idle, Goto
<1>2. ASSUME NEW p \in Callers, ReturnCached(p) PROVE IInv'
  BY <1>2 DEF ReturnCached, MuFree, Goto
<1>3. ASSUME NEW p \in Callers, SendRefresh(p) PROVE IInv'
  BY <1>3 DEF SendRefresh, MuFree, Goto
<1>4. ASSUME NEW p \in Callers, Answered(p) PROVE IInv'
  <2>0. RT(p)
    BY <1>4, RotatesTyped DEF Answered
  <2>1. TypeOK'
    BY <1>4, <2>0 DEF Answered, Rotates, Goto
  <2>2. HolderInside'
    BY <1>4 DEF Answered, Rotates, Goto
  <2>3. BooksInOrder'
    BY <1>4, <2>0 DEF Answered, Rotates, Goto
  <2> QED
    BY <2>1, <2>2, <2>3
<1>5. ASSUME NEW p \in Callers, AnsweredBadBody(p) PROVE IInv'
  <2>0. RT(p)
    BY <1>5, RotatesTyped DEF AnsweredBadBody
  <2>1. TypeOK'
    BY <1>5, <2>0 DEF AnsweredBadBody, Rotates, GiveUp, Goto
  <2>2. HolderInside'
    BY <1>5 DEF AnsweredBadBody, Rotates, GiveUp, Goto
  <2>3. BooksInOrder'
    BY <1>5, <2>0 DEF AnsweredBadBody, Rotates, GiveUp, Goto
  <2> QED
    BY <2>1, <2>2, <2>3
<1>6. ASSUME NEW p \in Callers, ReplyLost(p) PROVE IInv'
  <2>0. RT(p)
    BY <1>6, RotatesTyped DEF ReplyLost
  <2>1. TypeOK'
    BY <1>6, <2>0 DEF ReplyLost, Rotates, GiveUp, Goto
  <2>2. HolderInside'
    BY <1>6 DEF ReplyLost, Rotates, GiveUp, Goto
  <2>3. BooksInOrder'
    BY <1>6, <2>0 DEF ReplyLost, Rotates, GiveUp, Goto
  <2> QED
    BY <2>1, <2>2, <2>3
<1>7. ASSUME NEW p \in Callers, Refused(p) PROVE IInv'
  BY <1>7 DEF Refused, GiveUp, Goto
<1>8. ASSUME NEW p \in Callers, Store(p) PROVE IInv'
  BY <1>8 DEF Store, Goto
<1>9. CASE UNCHANGED vars
  BY <1>9 DEF vars
<1> QED
  BY <1>1, <1>2, <1>3, <1>4, <1>5, <1>6, <1>7, <1>8, <1>9 DEF Next

LEMMA Inductive == Spec => []IInv
  BY InitIInv, NextIInv, PTL DEF Spec

(* The variables keep their types on every path of RefreshIfNeeded. *)
THEOREM TypeCorrect == Spec => []TypeOK
<1>1. IInv => TypeOK
  BY DEF IInv
<1> QED
  BY <1>1, Inductive, PTL

(* However many goroutines call Refresh, one request at most is in flight
   (guard.go:1-5). *)
THEOREM SingleFlight == Spec => []OneInFlight
<1>1. IInv => OneInFlight
  BY DEF IInv, HolderInside, OneInFlight
<1> QED
  BY <1>1, Inductive, PTL

(* The guard never makes the session replay a refresh token. *)
THEOREM ReplayFree == Spec => []NoReplay
<1>1. IInv => NoReplay
  BY DEF IInv, BooksInOrder, NoReplay
<1> QED
  BY <1>1, Inductive, PTL

(* The three together: the guard is safe. *)
THEOREM GuardSafe == Spec => []GuardIsSafe
  BY TypeCorrect, SingleFlight, ReplayFree, PTL DEF GuardIsSafe

-----------------------------------------------------------------------------
LEMMA InitRInv == Init => RInv
<1> SUFFICES ASSUME Init PROVE RInv
  OBVIOUS
<1>1. IInv
  BY InitIInv
<1>2. CacheIsJar
  BY DEF Init, CacheIsJar
<1>3. WireForObserved /\ StoringRotated /\ SuccessMeansRotated
  BY DEF Init, WireForObserved, StoringRotated, SuccessMeansRotated, SuccessAlwaysRotates
<1> QED
  BY <1>1, <1>2, <1>3 DEF RInv

(* A request is only sent for the token that is current: the cache equals the
   jar when mu is free, so missing the double-check means observed = jar.  Only
   a torn token makes an exception. *)
LEMMA SentForCurrent ==
  ASSUME NEW p \in Callers, RInv, SendRefresh(p)
  PROVE  observed[p] = jar \/ torn
<1>1. \A q \in Callers : pc[q] # "storing"
  BY CallersAssumption DEF RInv, IInv, HolderInside, SendRefresh, MuFree
<1>2. CASE guard.hasAny
  BY <1>1, <1>2 DEF RInv, CacheIsJar, SendRefresh, CacheHit
<1>3. CASE ~guard.hasAny
  BY <1>1, <1>3 DEF RInv, IInv, TypeOK, Tokens, BooksInOrder, CacheIsJar
<1> QED
  BY <1>2, <1>3 DEF RInv, IInv, TypeOK

(* A double-check that hits means the jar has moved on. *)
LEMMA HitMeansRotated ==
  ASSUME NEW p \in Callers, RInv, ReturnCached(p)
  PROVE  observed[p] # jar \/ torn
<1>1. \A q \in Callers : pc[q] # "storing"
  BY CallersAssumption DEF RInv, IInv, HolderInside, ReturnCached, MuFree
<1> QED
  BY <1>1 DEF RInv, CacheIsJar, ReturnCached, CacheHit

LEMMA NextRInv == RInv /\ [Next]_vars => RInv'
<1> SUFFICES ASSUME RInv, [Next]_vars PROVE RInv'
  OBVIOUS
<1>0. IInv'
  BY NextIInv DEF RInv
<1> USE <1>0, CallersAssumption
        DEF RInv, IInv, TypeOK, HolderInside, Tokens,
            CacheIsJar, WireForObserved, StoringRotated, SuccessMeansRotated, SuccessAlwaysRotates
<1>1. ASSUME NEW p \in Callers, Begin(p) PROVE RInv'
  BY <1>1 DEF Begin, Idle, Goto
<1>2. ASSUME NEW p \in Callers, ReturnCached(p) PROVE RInv'
  BY <1>2, HitMeansRotated DEF ReturnCached, MuFree, Goto
<1>3. ASSUME NEW p \in Callers, SendRefresh(p) PROVE RInv'
  BY <1>3, SentForCurrent DEF SendRefresh, MuFree, Goto
<1>4. ASSUME NEW p \in Callers, Answered(p) PROVE RInv'
  <2>1. jar' = issued + 1 /\ \A q \in Callers : observed'[q] = observed[q] /\ observed[q] <= issued
    BY <1>4 DEF Answered, BooksInOrder
  <2>2. \A q \in Callers : jar' # observed'[q]
    BY <2>1
  <2>3. pc' = [pc EXCEPT ![p] = "storing"] /\ holder = p
    BY <1>4 DEF Answered, Goto
  <2>4. WireForObserved'
    BY <2>3
  <2>5. CacheIsJar'
    BY <2>3
  <2> QED
    BY <2>2, <2>4, <2>5
<1>5. ASSUME NEW p \in Callers, AnsweredBadBody(p) PROVE RInv'
  <2>1. jar' = issued + 1 /\ \A q \in Callers : observed'[q] = observed[q] /\ observed[q] <= issued
    BY <1>5 DEF AnsweredBadBody, BooksInOrder
  <2>2. torn'
    BY <1>5 DEF AnsweredBadBody
  <2>3. StoringRotated'
    BY <2>1
  <2> QED
    BY <2>2, <2>3
<1>6. ASSUME NEW p \in Callers, ReplyLost(p) PROVE RInv'
  BY <1>6 DEF ReplyLost, GiveUp, Goto
<1>7. ASSUME NEW p \in Callers, Refused(p) PROVE RInv'
  BY <1>7 DEF Refused, GiveUp, Goto
<1>8. ASSUME NEW p \in Callers, Store(p) PROVE RInv'
  BY <1>8 DEF Store, Goto
<1>9. CASE UNCHANGED vars
  BY <1>9 DEF vars
<1> QED
  BY <1>1, <1>2, <1>3, <1>4, <1>5, <1>6, <1>7, <1>8, <1>9 DEF Next

(* A Refresh that succeeds has left the token its caller observed behind
   (guard.go:55-58), unless that token is torn. *)
THEOREM RotatedOnSuccess == Spec => []SuccessMeansRotated
<1>1. RInv => SuccessMeansRotated
  BY DEF RInv
<1> QED
  BY <1>1, InitRInv, NextRInv, PTL DEF Spec

(* ... and the guard implements the compare-and-rotate register: whatever the
   interleaving, callers see each token replaced once (guard.go:48-62). *)
THEOREM ImplementsRotation == Spec => AtomicRotation
<1>1. Init => Rotation!AInit
  BY DEF Init, Rotation!AInit
<1>2. RInv /\ [Next]_vars => [Rotation!ANext]_(Rotation!avars)
  <2> SUFFICES ASSUME RInv, [Next]_vars PROVE [Rotation!ANext]_(Rotation!avars)
    OBVIOUS
  <2> USE DEF RInv, IInv, TypeOK, Tokens
  <2>1. ASSUME NEW p \in Callers, Begin(p) PROVE Rotation!Observe(p)
    BY <2>1 DEF Begin, Idle, Goto, Rotation!Observe
  <2>2. ASSUME NEW p \in Callers, ReturnCached(p) PROVE Rotation!CatchUp(p)
    BY <2>2, HitMeansRotated DEF ReturnCached, Goto, Rotation!CatchUp
  <2>3. ASSUME NEW p \in Callers, SendRefresh(p) PROVE UNCHANGED Rotation!avars
    BY <2>3 DEF SendRefresh, Goto, Rotation!avars
  <2>4. ASSUME NEW p \in Callers, Answered(p) PROVE Rotation!Rotate(p)
    BY <2>4 DEF Answered, Rotates, Goto, WireForObserved, BooksInOrder, Rotation!Rotate
  <2>5. ASSUME NEW p \in Callers, AnsweredBadBody(p) PROVE Rotation!Tear(p)
    BY <2>5 DEF AnsweredBadBody, Rotates, GiveUp, Goto, WireForObserved, BooksInOrder, Rotation!Tear
  <2>6. ASSUME NEW p \in Callers, ReplyLost(p) PROVE Rotation!Fail(p)
    BY <2>6 DEF ReplyLost, GiveUp, Goto, Rotation!Fail
  <2>7. ASSUME NEW p \in Callers, Refused(p) PROVE Rotation!Fail(p)
    BY <2>7 DEF Refused, GiveUp, Goto, Rotation!Fail
  <2>8. ASSUME NEW p \in Callers, Store(p) PROVE UNCHANGED Rotation!avars
    BY <2>8 DEF Store, Goto, Rotation!avars
  <2>9. CASE UNCHANGED vars
    BY <2>9 DEF vars, Rotation!avars
  <2> QED
    BY <2>1, <2>2, <2>3, <2>4, <2>5, <2>6, <2>7, <2>8, <2>9 DEF Next, Rotation!ANext
<1> QED
  BY <1>1, <1>2, InitRInv, NextRInv, PTL DEF Spec, AtomicRotation, Rotation!ASpec
=============================================================================
