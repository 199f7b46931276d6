------------------------- MODULE SsfReceiverProofs -------------------------
(***************************************************************************)
(* The security event receiver, for any SETs, callers, keys and limits and *)
(* any order in which pollers, pushers, fetches and the store meet.        *)
(***************************************************************************)
EXTENDS SsfReceiver, TLAPS, NaturalsInduction, WellFoundedInduction

Good == Sets \ (Malformed \union Unsound)

(* What was heard of a SET: it was returned or is about to be, or its key could
   not be had. *)
Heard(s) == s \in returned \union refusedKeys \/ \E c \in Callers : s \in call[c].events

(* A call accepts nothing while there is something left to judge, and a fetch is
   made for a SET that is left to judge. *)
PhasesInOrder ==
    \A c \in Callers :
        /\ call[c].at \in {"filling", "refetching"} => call[c].todo # {}
        /\ call[c].todo # {} => call[c].events = {}
        /\ call[c].at = "idle" => call[c] = Resting

(* Whatever a call refused, it refused for a reason. *)
RefusedForCause ==
    \A c \in Callers, s \in Good : s \in call[c].refused => Heard(s)

(* The store remembers an acceptance for the whole window. *)
AcceptanceKept ==
    \A s \in Sets : acceptedAt[s] # 0 =>
        seen[s] = acceptedAt[s] + Window \/ now >= acceptedAt[s] + Window

(* A failed fetch is counted no earlier than it began, and a refetch is counted
   before it begins. *)
FailuresCounted ==
    /\ failedAt <= lastCounted
    /\ \A c \in Callers : call[c].at = "refetching" => call[c].since <= lastCounted

Phased == TypeOK /\ PhasesInOrder
IInv ==
    /\ Phased /\ RecordedReturned /\ NothingDroppedUnheard
    /\ RefusedForCause /\ AcceptanceKept /\ FailuresCounted

CallRecords(t) ==
    [at : {"idle", "judging", "filling", "refetching"}, polls : BOOLEAN, todo : SUBSET Sets,
     judged : SUBSET Sets, events : SUBSET Sets, refused : SUBSET Sets, since : 0 .. t]

-----------------------------------------------------------------------------
(* Every set of SETs has a first. *)
LEMMA FirstIs ==
  ASSUME NEW S \in SUBSET Sets, S # {}
  PROVE  First(S) \in S
<1> DEFINE R == {ss \in Nat \X Nat : ss[1] < ss[2]}
<1>1. IsWellFoundedOn(R, Nat)
  BY NatLessThanWellFounded, Zenon DEF OpToRel
<1>2. \A T : T \subseteq Nat /\ T # {} => \E x \in T : \A y \in T : <<y, x>> \notin R
  BY <1>1, WFMin
<1>3. S \subseteq Nat
  BY SsfConstants
<1>4. PICK m \in S : \A y \in S : <<y, m>> \notin R
  BY <1>2, <1>3
<1>5. \A y \in S : ~(y < m)
  BY <1>3, <1>4
<1>6. \A y \in S : m <= y
  BY <1>3, <1>5
<1> QED
  BY <1>6, Zenon DEF First

(* What a step may do to the callers, the history and the store. *)
Effects ==
    /\ now' \in Nat /\ now <= now'
    /\ returned \subseteq returned' /\ refusedKeys \subseteq refusedKeys'
    /\ \A c \in Callers : call[c].events \subseteq call'[c].events \union returned'
    /\ \A c \in Callers, s \in Good :
         s \in call'[c].refused => s \in call[c].refused \union refusedKeys' \/ seen[s] > now
    /\ \A c \in Callers, s \in Sets : s \in call'[c].events \ call[c].events => seen[s] <= now
    /\ \A s \in Sets :
         \/ seen'[s] = seen[s] /\ acceptedAt'[s] = acceptedAt[s]
         \/ seen'[s] = 0 /\ seen[s] <= now /\ acceptedAt'[s] = acceptedAt[s]
         \/ /\ seen[s] <= now /\ seen'[s] = now + Window /\ acceptedAt'[s] = now
            /\ \E c \in Callers : s \in call'[c].events
    /\ \A s \in owed' \union (Sets \ offered') :
         \/ s \in owed \union (Sets \ offered)
         \/ \E c \in Callers : s \in call[c].events \union call[c].refused

(* What it may do to the account of the fetches. *)
Fetches ==
    /\ lastCounted <= lastCounted'
    /\ failedAt' = failedAt \/ failedAt' <= lastCounted'
    /\ \A c \in Callers :
         /\ call'[c].since # call[c].since /\ call'[c].since # 0 => ~Limited
         /\ call'[c].at = "refetching" => call'[c].since <= lastCounted'

LEMMA InitIInv == Init => IInv
<1> SUFFICES ASSUME Init PROVE IInv
  OBVIOUS
<1> USE SsfConstants DEF Init
<1>1. call \in [Callers -> CallRecords(now)] /\ \A c \in Callers : call[c] = Resting
  BY DEF Resting, CallRecords
<1>2. TypeOK
  <2>1. 0 \in 0 .. MaxTime + Window
    OBVIOUS
  <2>2. \A c \in Callers : call[c].at = "idle" /\ holder # c
    BY <1>1 DEF Resting, Callers
  <2> QED
    BY <1>1, <2>1, <2>2 DEF TypeOK, CallRecords
<1> QED
  BY <1>1, <1>2 DEF IInv, Phased, PhasesInOrder, RecordedReturned, NothingDroppedUnheard, RefusedForCause,
     AcceptanceKept, FailuresCounted, Resting

-----------------------------------------------------------------------------
(* A step of one caller: what becomes of its record decides about the types. *)
LEMMA CallerTypes ==
  ASSUME Phased, NEW c \in Callers, NEW r \in CallRecords(now),
         call' = [call EXCEPT ![c] = r], now' = now,
         r.at \in {"filling", "refetching"} => holder' = c /\ r.todo # {},
         r.at \in {"idle", "judging"} => holder' = (IF holder = c THEN NoCaller ELSE holder),
         holder \in {c, NoCaller} \/ holder' = holder,
         r.todo # {} => r.events = {},
         r.at = "idle" => r = Resting
  PROVE  /\ call' \in [Callers -> CallRecords(now')]
         /\ \A d \in Callers : call'[d] = IF d = c THEN r ELSE call[d]
         /\ holder' \in Callers \union {NoCaller}
         /\ \A d \in Callers : holder' = d <=> call'[d].at \in {"filling", "refetching"}
         /\ PhasesInOrder'
<1> USE SsfConstants DEF Phased
<1>1. call \in [Callers -> CallRecords(now)]
  BY DEF TypeOK, CallRecords
<1>2. /\ call' \in [Callers -> CallRecords(now')]
      /\ \A d \in Callers : call'[d] = IF d = c THEN r ELSE call[d]
  BY <1>1
<1>3. r.at \in {"idle", "judging", "filling", "refetching"}
  BY DEF CallRecords
<1>4. holder' \in Callers \union {NoCaller}
  BY <1>3 DEF TypeOK
<1>5. NoCaller \notin Callers
  BY DEF Callers
<1>6. \A d \in Callers : holder' = d <=> call'[d].at \in {"filling", "refetching"}
  BY <1>2, <1>3, <1>5 DEF TypeOK
<1>7. PhasesInOrder'
  BY <1>2 DEF PhasesInOrder
<1> QED
  BY <1>2, <1>4, <1>6, <1>7

(* A step that touches neither the clock, the transmitter, the history nor the
   store, and leaves a caller with nothing new but what it refused for a reason. *)
LEMMA QuietStep ==
  ASSUME Phased, FailuresCounted, NEW c \in Callers, NEW r \in CallRecords(now),
         call' = [call EXCEPT ![c] = r], UNCHANGED <<now, peer, store, returned>>,
         keys' \subseteq published, fetchedAt' \in 0 .. now,
         lastCounted' \in lastCounted .. now, failedAt' \in 0 .. lastCounted',
         refusedKeys' \in SUBSET Sets, refusedKeys \subseteq refusedKeys',
         r.at \in {"filling", "refetching"} => holder' = c /\ r.todo # {},
         r.at \in {"idle", "judging"} => holder' = (IF holder = c THEN NoCaller ELSE holder),
         holder \in {c, NoCaller} \/ holder' = holder,
         r.todo # {} => r.events = {},
         r.at = "idle" => r = Resting,
         r.events = call[c].events,
         \A s \in Good : s \in r.refused => s \in call[c].refused \union refusedKeys',
         r.since # call[c].since /\ r.since # 0 => ~Limited,
         r.at = "refetching" => r.since <= lastCounted'
  PROVE  TypeOK' /\ PhasesInOrder' /\ Effects /\ Fetches
<1> USE SsfConstants
<1>1. /\ call' \in [Callers -> CallRecords(now')]
      /\ \A d \in Callers : call'[d] = IF d = c THEN r ELSE call[d]
      /\ holder' \in Callers \union {NoCaller}
      /\ \A d \in Callers : holder' = d <=> call'[d].at \in {"filling", "refetching"}
      /\ PhasesInOrder'
  BY CallerTypes
<1>2. /\ now \in Nat /\ lastCounted \in Nat /\ failedAt \in Nat /\ lastCounted' \in Nat
      /\ lastCounted <= lastCounted' /\ failedAt' \in 0 .. now
  BY DEF Phased, TypeOK
<1>3. TypeOK'
  BY <1>1, <1>2 DEF Phased, TypeOK, CallRecords, peer, store
<1>4. \A d \in Callers, s \in Good :
         s \in call'[d].refused => s \in call[d].refused \union refusedKeys'
  BY <1>1
<1>5. \A d \in Callers : call'[d].events = call[d].events
  BY <1>1
<1>6. Effects
  BY <1>2, <1>4, <1>5 DEF Effects, peer, store
<1>7. \A d \in Callers : call[d].since \in Nat
  BY DEF Phased, TypeOK
<1>8. Fetches
  BY <1>1, <1>2, <1>7 DEF Fetches, FailuresCounted
<1> QED
  BY <1>1, <1>3, <1>6, <1>8

LEMMA Records ==
  ASSUME Phased, NEW c \in Callers
  PROVE  /\ call[c] \in CallRecords(now)
         /\ Resting \in CallRecords(now)
         /\ call \in [Callers -> CallRecords(now)]
         /\ now \in Nat /\ now # 0
         /\ lastCounted \in Nat /\ lastCounted <= now
<1>1. call \in [Callers -> CallRecords(now)] /\ now \in Nat /\ now # 0
  BY SsfConstants DEF Phased, TypeOK, CallRecords
<1>2. Resting \in CallRecords(now)
  BY <1>1 DEF Resting, CallRecords
<1> QED
  BY <1>1, <1>2 DEF Phased, TypeOK

(* The caller's record under each verdict of judge. *)
LEMMA RefuseStep ==
  ASSUME Phased, FailuresCounted, NEW c \in Callers, Judging(c),
         Refuse(c, Current(c)), UNCHANGED <<now, peer, cache, holder, returned, failedAt>>,
         refusedKeys' \in SUBSET Sets, refusedKeys \subseteq refusedKeys',
         Current(c) \in Good => Current(c) \in refusedKeys'
  PROVE  TypeOK' /\ PhasesInOrder' /\ Effects /\ Fetches
<1> DEFINE s == Current(c)
           r == [call[c] EXCEPT !.todo = @ \ {s}, !.refused = @ \union {s}]
<1>1. call[c] \in CallRecords(now) /\ call \in [Callers -> CallRecords(now)]
  BY Records
<1>2. s \in call[c].todo
  BY <1>1, FirstIs DEF Judging, Current, CallRecords
<1>3. r \in CallRecords(now)
  BY <1>1, <1>2 DEF CallRecords
<1>4. /\ r.at = "judging" /\ r.events = call[c].events /\ r.since = call[c].since
      /\ r.todo = call[c].todo \ {s} /\ r.refused = call[c].refused \union {s}
  BY <1>1 DEF CallRecords, Judging
<1>5. call' = [call EXCEPT ![c] = r]
  BY <1>1 DEF Refuse
<1>6. call[c].events = {}
  BY DEF Judging, Phased, PhasesInOrder
<1> HIDE DEF r, s
<1>7. /\ UNCHANGED <<now, peer, store, returned>>
      /\ keys' \subseteq published /\ fetchedAt' \in 0 .. now
      /\ lastCounted' \in lastCounted .. now /\ failedAt' \in 0 .. lastCounted'
      /\ holder' = holder /\ holder # c
  BY DEF Refuse, Phased, TypeOK, FailuresCounted, cache, store, Judging
<1>8. \A t \in Good : t \in r.refused => t \in call[c].refused \union refusedKeys'
  BY <1>4 DEF s
<1> QED
  BY <1>3, <1>4, <1>5, <1>6, <1>7, <1>8, QuietStep

LEMMA PassStep ==
  ASSUME Phased, FailuresCounted, NEW c \in Callers, Judging(c),
         Pass(c, Current(c)), UNCHANGED <<now, peer, cache, holder, returned, refusedKeys, failedAt>>
  PROVE  TypeOK' /\ PhasesInOrder' /\ Effects /\ Fetches
<1> DEFINE s == Current(c)
           r == [call[c] EXCEPT !.todo = @ \ {s}, !.judged = @ \union {s}]
<1>1. call[c] \in CallRecords(now) /\ call \in [Callers -> CallRecords(now)]
  BY Records
<1>2. s \in call[c].todo
  BY <1>1, FirstIs DEF Judging, Current, CallRecords
<1>3. r \in CallRecords(now)
  BY <1>1, <1>2 DEF CallRecords
<1>4. /\ r.at = "judging" /\ r.events = call[c].events /\ r.since = call[c].since
      /\ r.todo = call[c].todo \ {s} /\ r.refused = call[c].refused
  BY <1>1 DEF CallRecords, Judging
<1>5. call' = [call EXCEPT ![c] = r]
  BY <1>1 DEF Pass
<1>6. call[c].events = {}
  BY DEF Judging, Phased, PhasesInOrder
<1> HIDE DEF r, s
<1>7. /\ UNCHANGED <<now, peer, store, returned>>
      /\ keys' \subseteq published /\ fetchedAt' \in 0 .. now
      /\ lastCounted' \in lastCounted .. now /\ failedAt' \in 0 .. lastCounted'
      /\ refusedKeys' = refusedKeys /\ refusedKeys \in SUBSET Sets
      /\ holder' = holder /\ holder # c
  BY DEF Pass, Phased, TypeOK, FailuresCounted, cache, store, Judging
<1> QED
  BY <1>3, <1>4, <1>5, <1>6, <1>7, QuietStep

Kept == TypeOK' /\ PhasesInOrder' /\ Effects /\ Fetches

(* A call that ends with nothing recorded. *)
LEMMA AbortStep ==
  ASSUME Phased, FailuresCounted, NEW c \in Callers, call[c].todo # {},
         Abort(c), UNCHANGED <<now, peer, returned, refusedKeys>>,
         holder' = (IF holder = c THEN NoCaller ELSE holder), keys' = keys, fetchedAt' = fetchedAt,
         lastCounted' \in lastCounted .. now, failedAt' \in 0 .. lastCounted'
  PROVE  Kept
<1>1. Resting \in CallRecords(now) /\ call[c] \in CallRecords(now)
  BY Records
<1>2. /\ UNCHANGED <<now, peer, store, returned>>
      /\ call' = [call EXCEPT ![c] = Resting]
      /\ keys' \subseteq published /\ fetchedAt' \in 0 .. now
      /\ refusedKeys' = refusedKeys /\ refusedKeys \in SUBSET Sets
  BY DEF Abort, Phased, TypeOK, store
<1>3. call[c].events = {}
  BY DEF Phased, PhasesInOrder
<1>4. /\ Resting.at = "idle" /\ Resting.todo = {} /\ Resting.events = {} /\ Resting.refused = {}
      /\ Resting.since = 0
  BY DEF Resting
<1>5. holder \in {c, NoCaller} \/ holder' = holder
  OBVIOUS
<1> QED
  BY <1>1, <1>2, <1>3, <1>4, <1>5, QuietStep DEF Kept

LEMMA JudgeEarlyKeeps ==
  ASSUME Phased, FailuresCounted, NEW c \in Callers, JudgeEarly(c)
  PROVE  Kept
<1>1. Judging(c) /\ Refuse(c, Current(c)) /\ UNCHANGED <<now, peer, cache, holder, returned, failedAt>>
  BY DEF JudgeEarly
<1>2. refusedKeys' = refusedKeys /\ refusedKeys \in SUBSET Sets /\ Current(c) \notin Good
  BY DEF JudgeEarly, Phased, TypeOK, Good
<1> QED
  BY <1>1, <1>2, RefuseStep DEF Kept

LEMMA FillLimitedKeeps ==
  ASSUME Phased, FailuresCounted, NEW c \in Callers, FillLimited(c)
  PROVE  Kept
<1>1. /\ call[c].todo # {} /\ Abort(c) /\ UNCHANGED <<now, peer, returned, refusedKeys>>
      /\ keys' = keys /\ fetchedAt' = fetchedAt /\ lastCounted' = lastCounted /\ failedAt' = failedAt
      /\ holder' = holder /\ holder # c
  BY DEF FillLimited, Looking, Judging, cache
<1>2. lastCounted' \in lastCounted .. now /\ failedAt' \in 0 .. lastCounted'
  BY <1>1 DEF Phased, TypeOK, FailuresCounted
<1> QED
  BY <1>1, <1>2, AbortStep

LEMMA FetchFailsKeeps ==
  ASSUME Phased, FailuresCounted, NEW c \in Callers, FetchFails(c)
  PROVE  Kept
<1>1. /\ call[c].todo # {} /\ Abort(c) /\ UNCHANGED <<now, peer, returned, refusedKeys>>
      /\ keys' = keys /\ fetchedAt' = fetchedAt /\ holder = c /\ holder' = NoCaller
      /\ lastCounted' = (IF call[c].at = "filling" THEN now ELSE lastCounted)
      /\ failedAt' = call[c].since
  BY DEF FetchFails, Fetching, Phased, PhasesInOrder, CountFailure, Released
<1>2. call[c].since \in 0 .. now /\ lastCounted \in Nat /\ now \in Nat /\ lastCounted <= now
  BY Records DEF CallRecords
<1>3. call[c].at = "refetching" => call[c].since <= lastCounted
  BY DEF FailuresCounted
<1>4. call[c].at \in {"filling", "refetching"}
  BY DEF FetchFails, Fetching
<1>5. lastCounted' \in lastCounted .. now /\ failedAt' \in 0 .. lastCounted'
  BY <1>1, <1>2, <1>3, <1>4
<1> QED
  BY <1>1, <1>5, AbortStep

LEMMA KeyCachedKeeps ==
  ASSUME Phased, FailuresCounted, NEW c \in Callers, KeyCached(c)
  PROVE  Kept
<1>1. Judging(c) /\ UNCHANGED <<now, peer, cache, holder, returned, refusedKeys, failedAt>>
  BY DEF KeyCached, Looking
<1>2. refusedKeys \in SUBSET Sets /\ refusedKeys' = refusedKeys
  BY DEF KeyCached, Phased, TypeOK
<1>3. CASE Current(c) \in Unsound
  <2>1. Refuse(c, Current(c)) /\ Current(c) \notin Good
    BY <1>3 DEF KeyCached, Conclude, Good
  <2> QED
    BY <1>1, <1>2, <2>1, RefuseStep DEF Kept
<1>4. CASE Current(c) \notin Unsound
  <2>1. Pass(c, Current(c))
    BY <1>4 DEF KeyCached, Conclude
  <2> QED
    BY <1>1, <2>1, PassStep DEF Kept
<1> QED
  BY <1>3, <1>4

LEMMA CurrentIs ==
  ASSUME Phased, NEW c \in Callers, call[c].todo # {}
  PROVE  Current(c) \in call[c].todo /\ Current(c) \in Sets
<1>1. call[c].todo \in SUBSET Sets
  BY Records DEF CallRecords
<1> QED
  BY <1>1, FirstIs DEF Current

LEMMA UnknownKidKeeps ==
  ASSUME Phased, FailuresCounted, NEW c \in Callers, UnknownKid(c)
  PROVE  Kept
<1>1. /\ Judging(c) /\ Refuse(c, Current(c)) /\ UNCHANGED <<now, peer, cache, holder, returned, failedAt>>
      /\ refusedKeys' = refusedKeys \union {Current(c)}
  BY DEF UnknownKid, Looking
<1>2. Current(c) \in Sets
  BY <1>1, CurrentIs DEF Judging
<1>3. refusedKeys' \in SUBSET Sets
  BY <1>1, <1>2 DEF Phased, TypeOK
<1> QED
  BY <1>1, <1>3, RefuseStep DEF Kept

(* A fetch begins only when the limit allows it. *)
LEMMA StartFillKeeps ==
  ASSUME Phased, FailuresCounted, NEW c \in Callers, StartFill(c)
  PROVE  Kept
<1> DEFINE r == [call[c] EXCEPT !.at = "filling", !.since = now]
<1>1. call[c] \in CallRecords(now) /\ call \in [Callers -> CallRecords(now)] /\ now \in Nat
  BY Records
<1>1a. now \in 0 .. now
  BY <1>1
<1>2. /\ r \in CallRecords(now)
      /\ r.at = "filling" /\ r.events = call[c].events /\ r.refused = call[c].refused
      /\ r.todo = call[c].todo
  BY <1>1, <1>1a DEF CallRecords
<1>2a. call' = [call EXCEPT ![c] = r]
  BY <1>1 DEF CallRecords, StartFill
<1>3. /\ UNCHANGED <<now, peer, store, returned>>
      /\ keys' \subseteq published /\ fetchedAt' \in 0 .. now
      /\ lastCounted' \in lastCounted .. now /\ failedAt' \in 0 .. lastCounted'
      /\ refusedKeys' = refusedKeys /\ refusedKeys \in SUBSET Sets
      /\ holder' = c /\ holder = NoCaller /\ call[c].todo # {} /\ ~Limited
  BY DEF StartFill, Looking, Judging, Phased, TypeOK, FailuresCounted, cache, store
<1>4. call[c].events = {}
  BY <1>3 DEF Phased, PhasesInOrder
<1> HIDE DEF r
<1> QED
  BY <1>2, <1>2a, <1>3, <1>4, QuietStep DEF Kept

LEMMA StartRefetchKeeps ==
  ASSUME Phased, FailuresCounted, NEW c \in Callers, StartRefetch(c)
  PROVE  Kept
<1> DEFINE r == [call[c] EXCEPT !.at = "refetching", !.since = now]
<1>1. call[c] \in CallRecords(now) /\ call \in [Callers -> CallRecords(now)] /\ now \in Nat
  BY Records
<1>1a. now \in 0 .. now
  BY <1>1
<1>2. /\ r \in CallRecords(now)
      /\ r.at = "refetching" /\ r.events = call[c].events /\ r.refused = call[c].refused
      /\ r.todo = call[c].todo /\ r.since = now
  BY <1>1, <1>1a DEF CallRecords
<1>2a. call' = [call EXCEPT ![c] = r]
  BY <1>1 DEF CallRecords, StartRefetch
<1>3. /\ UNCHANGED <<now, peer, store, returned>>
      /\ keys' \subseteq published /\ fetchedAt' \in 0 .. now
      /\ lastCounted' = now /\ failedAt' \in 0 .. lastCounted' /\ lastCounted' \in lastCounted .. now
      /\ refusedKeys' = refusedKeys /\ refusedKeys \in SUBSET Sets
      /\ holder' = c /\ holder = NoCaller /\ call[c].todo # {} /\ ~Limited
  BY <1>1 DEF StartRefetch, Looking, Judging, Phased, TypeOK, FailuresCounted, store
<1>4. call[c].events = {}
  BY <1>3 DEF Phased, PhasesInOrder
<1> HIDE DEF r
<1>5. r.since <= lastCounted'
  BY <1>1, <1>2, <1>3
<1> QED
  BY <1>2, <1>2a, <1>3, <1>4, <1>5, QuietStep DEF Kept

(* The key set arrives: the mutex is kept for one more fetch, or the SET is judged. *)
LEMMA FetchedKeeps ==
  ASSUME Phased, FailuresCounted, NEW c \in Callers, Fetched(c)
  PROVE  Kept
<1> DEFINE s == Current(c)
           known == KidOf[s] \in published
           again == ~known /\ call[c].at = "filling" /\ ~Limited
<1>1. /\ call[c] \in CallRecords(now) /\ call \in [Callers -> CallRecords(now)]
      /\ now \in Nat /\ now \in 0 .. now /\ 0 \in 0 .. now
      /\ lastCounted \in Nat /\ lastCounted <= now
  BY Records
<1>2. call[c].todo # {} /\ s \in call[c].todo /\ s \in Sets /\ call[c].events = {}
  BY CurrentIs DEF Fetched, Fetching, Phased, PhasesInOrder
<1>3. /\ UNCHANGED <<now, peer, store, returned>> /\ holder = c
      /\ keys' \subseteq published /\ fetchedAt' \in 0 .. now
      /\ failedAt' = failedAt /\ refusedKeys \in SUBSET Sets
  BY <1>1 DEF Fetched, Fetching, Phased, TypeOK
<1>4. failedAt \in 0 .. lastCounted /\ failedAt \in 0 .. now
  BY <1>1 DEF Phased, TypeOK, FailuresCounted
<1>5. CASE again
  <2> DEFINE r == [call[c] EXCEPT !.at = "refetching", !.since = now]
  <2>1. /\ r \in CallRecords(now)
        /\ r.at = "refetching" /\ r.events = call[c].events /\ r.refused = call[c].refused
        /\ r.todo = call[c].todo /\ r.since = now
    BY <1>1 DEF CallRecords
  <2>2. /\ call' = [call EXCEPT ![c] = r] /\ lastCounted' = now
        /\ holder' = c /\ refusedKeys' = refusedKeys /\ ~Limited
    BY <1>5 DEF Fetched
  <2>3. /\ lastCounted' \in lastCounted .. now /\ failedAt' \in 0 .. lastCounted' /\ r.since <= lastCounted'
    BY <1>1, <1>3, <1>4, <2>1, <2>2
  <2> HIDE DEF r
  <2> QED
    BY <1>2, <1>3, <2>1, <2>2, <2>3, QuietStep DEF Kept
<1>6. CASE ~again
  <2> DEFINE j == IF known /\ s \notin Unsound THEN call[c].judged \union {s} ELSE call[c].judged
             f == IF known /\ s \notin Unsound THEN call[c].refused ELSE call[c].refused \union {s}
             r == [call[c] EXCEPT !.at = "judging", !.since = 0, !.todo = @ \ {s},
                                  !.judged = j, !.refused = f]
  <2>1. call[c].judged \in SUBSET Sets /\ call[c].refused \in SUBSET Sets
    BY <1>1 DEF CallRecords
  <2>2. j \in SUBSET Sets /\ f \in SUBSET Sets
    BY <1>2, <2>1
  <2>3. /\ lastCounted' = lastCounted /\ holder' = NoCaller
        /\ refusedKeys' = IF known THEN refusedKeys ELSE refusedKeys \union {s}
    BY <1>6 DEF Fetched
  <2>8. call' = [call EXCEPT ![c] = r]
    BY <1>6 DEF Fetched
  <2>4. \A t \in Good : t \in f => t \in call[c].refused \union refusedKeys'
    BY <2>3 DEF Good
  <2> HIDE DEF j, f
  <2>5. /\ r \in CallRecords(now)
        /\ r.at = "judging" /\ r.events = call[c].events /\ r.refused = f
        /\ r.since = 0
    BY <1>1, <2>2 DEF CallRecords
  <2>6. refusedKeys' \in SUBSET Sets /\ refusedKeys \subseteq refusedKeys'
    BY <1>2, <1>3, <2>3
  <2>7. lastCounted' \in lastCounted .. now /\ failedAt' \in 0 .. lastCounted'
    BY <1>1, <1>3, <1>4, <2>3
  <2> HIDE DEF r
  <2> QED
    BY <1>2, <1>3, <2>3, <2>4, <2>5, <2>6, <2>7, <2>8, QuietStep DEF Kept
<1> QED
  BY <1>5, <1>6

LEMMA StoreFailsKeeps ==
  ASSUME Phased, FailuresCounted, NEW c \in Callers, StoreFails(c)
  PROVE  Kept
<1> DEFINE r == [call[c] EXCEPT !.judged = {}]
<1>1. call[c] \in CallRecords(now) /\ call \in [Callers -> CallRecords(now)]
  BY Records
<1>2. /\ r \in CallRecords(now) /\ call' = [call EXCEPT ![c] = r]
      /\ r.at = "judging" /\ r.events = call[c].events /\ r.refused = call[c].refused
      /\ r.todo = {} /\ r.since = call[c].since
  BY <1>1 DEF CallRecords, StoreFails, Recording
<1>3. /\ UNCHANGED <<now, peer, store, returned>>
      /\ keys' \subseteq published /\ fetchedAt' \in 0 .. now
      /\ lastCounted' \in lastCounted .. now /\ failedAt' \in 0 .. lastCounted'
      /\ refusedKeys' = refusedKeys /\ refusedKeys \in SUBSET Sets
      /\ holder' = holder /\ holder # c
  BY DEF StoreFails, Recording, Phased, TypeOK, FailuresCounted, cache, store
<1> HIDE DEF r
<1> QED
  BY <1>2, <1>3, QuietStep DEF Kept

LEMMA VerifyKeeps ==
  ASSUME Phased, FailuresCounted, NEW c \in Callers, NEW s \in Sets, Verify(c, s)
  PROVE  Kept
<1> DEFINE r == [call[c] EXCEPT !.at = "judging", !.todo = {s}]
<1>1. /\ call[c] \in CallRecords(now) /\ call \in [Callers -> CallRecords(now)]
      /\ call[c].events = {} /\ call[c].at = "idle"
  BY Records DEF Verify, Resting
<1>2. /\ r \in CallRecords(now)
      /\ r.at = "judging" /\ r.events = call[c].events /\ r.refused = call[c].refused
      /\ r.since = call[c].since
  BY <1>1 DEF CallRecords
<1>3. call' = [call EXCEPT ![c] = r]
  BY <1>1 DEF Verify, CallRecords
<1>4. /\ UNCHANGED <<now, peer, store, returned>>
      /\ keys' \subseteq published /\ fetchedAt' \in 0 .. now
      /\ lastCounted' \in lastCounted .. now /\ failedAt' \in 0 .. lastCounted'
      /\ refusedKeys' = refusedKeys /\ refusedKeys \in SUBSET Sets
      /\ holder' = holder /\ holder # c
  BY <1>1 DEF Verify, Phased, TypeOK, FailuresCounted, cache, store
<1> HIDE DEF r
<1> QED
  BY <1>1, <1>2, <1>3, <1>4, QuietStep DEF Kept

(* Step 9: the store forgets what is past its window before it is asked. *)
LEMMA CheckAndRecordKeeps ==
  ASSUME Phased, FailuresCounted, NEW c \in Callers, CheckAndRecord(c)
  PROVE  Kept
<1> USE SsfConstants
<1> DEFINE s == First(call[c].judged)
           ra == [call[c] EXCEPT !.judged = @ \ {s}, !.events = @ \union {s}]
           rr == [call[c] EXCEPT !.judged = @ \ {s}, !.refused = @ \union {s}]
           r == IF Swept[s] = 0 THEN ra ELSE rr
<1>1. /\ call[c] \in CallRecords(now) /\ call \in [Callers -> CallRecords(now)]
      /\ now \in Nat /\ lastCounted \in Nat /\ now \in 0 .. now
  BY Records
<1>2. s \in Sets
  <2>1. call[c].judged \in SUBSET Sets /\ call[c].judged # {}
    BY <1>1 DEF CallRecords, CheckAndRecord, Recording
  <2> QED
    BY <2>1, FirstIs
<1>3. call[c].at = "judging" /\ call[c].todo = {} /\ holder # c
  BY DEF CheckAndRecord, Recording, Phased, TypeOK
<1> HIDE DEF s
<1>4. /\ ra \in CallRecords(now) /\ rr \in CallRecords(now)
      /\ ra.at = "judging" /\ ra.todo = {} /\ ra.since = call[c].since
      /\ ra.events = call[c].events \union {s} /\ ra.refused = call[c].refused
      /\ rr.at = "judging" /\ rr.todo = {} /\ rr.since = call[c].since
      /\ rr.events = call[c].events /\ rr.refused = call[c].refused \union {s}
  BY <1>1, <1>2, <1>3 DEF CallRecords
<1>5. call' = [call EXCEPT ![c] = r]
  BY <1>1 DEF CheckAndRecord, s, CallRecords
<1> HIDE DEF ra, rr
<1>6. /\ r \in CallRecords(now) /\ r.at = "judging" /\ r.todo = {} /\ r.since = call[c].since
      /\ call[c].events \subseteq r.events
  BY <1>4
<1>7. /\ now' = now /\ UNCHANGED <<peer, cache, holder, returned, refusedKeys, failedAt>>
  BY DEF CheckAndRecord
<1>8. \A d \in Callers : call'[d] = IF d = c THEN r ELSE call[d]
  BY <1>1, <1>5
<1>9. /\ call' \in [Callers -> CallRecords(now')]
      /\ holder' \in Callers \union {NoCaller}
      /\ \A d \in Callers : holder' = d <=> call'[d].at \in {"filling", "refetching"}
      /\ PhasesInOrder'
  <2> HIDE DEF r
  <2> QED
    BY <1>3, <1>5, <1>6, <1>7, CallerTypes
<1>10. /\ Swept \in [Sets -> 0 .. MaxTime + Window]
       /\ \A t \in Sets : Swept[t] = IF seen[t] > now THEN seen[t] ELSE 0
       /\ now <= MaxTime /\ now + Window \in 0 .. MaxTime + Window
       /\ acceptedAt \in [Sets -> 0 .. now] /\ seen \in [Sets -> Nat]
  <2>1. 0 \in 0 .. MaxTime + Window
    OBVIOUS
  <2> QED
    BY <1>1, <2>1 DEF Swept, Phased, TypeOK
<1>11. /\ seen' = IF Swept[s] = 0 THEN [Swept EXCEPT ![s] = now + Window] ELSE Swept
       /\ acceptedAt' = IF Swept[s] = 0 THEN [acceptedAt EXCEPT ![s] = now] ELSE acceptedAt
  BY DEF CheckAndRecord, s, Remembered
<1>12. seen' \in [Sets -> 0 .. MaxTime + Window] /\ acceptedAt' \in [Sets -> 0 .. now']
  BY <1>1, <1>7, <1>10, <1>11
<1>13. TypeOK'
  BY <1>7, <1>9, <1>12 DEF Phased, TypeOK, CallRecords, peer, cache
<1>14. Swept[s] = 0 <=> seen[s] <= now
  BY <1>1, <1>2, <1>10
<1>15. \A d \in Callers : /\ call[d].events \subseteq call'[d].events
                          /\ \A t \in call'[d].events \ call[d].events : t = s /\ seen[s] <= now
                          /\ \A t \in call'[d].refused \ call[d].refused : t = s /\ seen[s] > now
  BY <1>1, <1>2, <1>4, <1>8, <1>10, <1>14
<1>16. \A t \in Sets :
         \/ seen'[t] = seen[t] /\ acceptedAt'[t] = acceptedAt[t]
         \/ seen'[t] = 0 /\ seen[t] <= now /\ acceptedAt'[t] = acceptedAt[t]
         \/ /\ seen[t] <= now /\ seen'[t] = now + Window /\ acceptedAt'[t] = now
            /\ \E d \in Callers : t \in call'[d].events
  <2>1. Swept[s] = 0 => s \in call'[c].events
    BY <1>4, <1>8
  <2> SUFFICES ASSUME NEW t \in Sets
               PROVE  \/ seen'[t] = seen[t] /\ acceptedAt'[t] = acceptedAt[t]
                      \/ seen'[t] = 0 /\ seen[t] <= now /\ acceptedAt'[t] = acceptedAt[t]
                      \/ /\ seen[t] <= now /\ seen'[t] = now + Window /\ acceptedAt'[t] = now
                         /\ \E d \in Callers : t \in call'[d].events
    OBVIOUS
  <2>2. seen[t] \in Nat /\ Swept[t] = IF seen[t] > now THEN seen[t] ELSE 0
    BY <1>10
  <2>3. CASE t = s /\ Swept[s] = 0
    BY <1>10, <1>11, <1>14, <2>1, <2>3
  <2>4. CASE ~(t = s /\ Swept[s] = 0)
    <3>1. seen'[t] = Swept[t] /\ acceptedAt'[t] = acceptedAt[t]
      BY <1>10, <1>11, <2>4
    <3> QED
      BY <1>1, <2>2, <3>1
  <2> QED
    BY <2>3, <2>4
<1>17. Effects
  BY <1>1, <1>7, <1>15, <1>16 DEF Effects, peer, Good
<1>18. Fetches
  <2>1. \A d \in Callers : call'[d].since = call[d].since /\ (call'[d].at = "refetching" => call[d].at = "refetching")
    BY <1>6, <1>8
  <2> QED
    BY <1>1, <1>7, <2>1 DEF Fetches, FailuresCounted, cache
<1> QED
  BY <1>9, <1>13, <1>17, <1>18 DEF Kept

(* A poll tells the transmitter only what it owed it. *)
LEMMA PollKeeps ==
  ASSUME Phased, FailuresCounted, NEW c \in Callers, Poll(c)
  PROVE  Kept
<1> DEFINE r == [call[c] EXCEPT !.at = "judging", !.polls = TRUE, !.todo = offered \ owed]
<1>1. /\ call[c] \in CallRecords(now) /\ call \in [Callers -> CallRecords(now)]
      /\ call[c].events = {} /\ call[c].at = "idle"
      /\ now \in Nat /\ lastCounted \in Nat
  BY Records DEF Poll, Resting
<1>2. offered \subseteq Sets /\ owed \subseteq Sets
  BY DEF Phased, TypeOK
<1>3. /\ r \in CallRecords(now)
      /\ r.at = "judging" /\ r.events = call[c].events /\ r.refused = call[c].refused
      /\ r.since = call[c].since
  BY <1>1, <1>2 DEF CallRecords
<1>4. call' = [call EXCEPT ![c] = r]
  BY <1>1 DEF Poll, CallRecords
<1> HIDE DEF r
<1>5. /\ now' = now /\ UNCHANGED <<published, cache, holder, store, returned, refusedKeys, failedAt>>
      /\ offered' = offered \ owed /\ owed' = {} /\ holder # c
  BY <1>1 DEF Poll, Phased, TypeOK
<1>6. /\ call' \in [Callers -> CallRecords(now')]
      /\ \A d \in Callers : call'[d] = IF d = c THEN r ELSE call[d]
      /\ holder' \in Callers \union {NoCaller}
      /\ \A d \in Callers : holder' = d <=> call'[d].at \in {"filling", "refetching"}
      /\ PhasesInOrder'
  BY <1>1, <1>3, <1>4, <1>5, CallerTypes
<1>7. TypeOK'
  BY <1>2, <1>5, <1>6 DEF Phased, TypeOK, CallRecords, cache, store
<1>8. \A d \in Callers :
        /\ call'[d].events = call[d].events /\ call'[d].refused = call[d].refused
        /\ call'[d].since = call[d].since /\ (call'[d].at = "refetching" => call[d].at = "refetching")
  BY <1>3, <1>6
<1>9. owed' \union (Sets \ offered') \subseteq owed \union (Sets \ offered)
  BY <1>2, <1>5
<1>10. Effects
  BY <1>1, <1>5, <1>8, <1>9 DEF Effects, store
<1>11. Fetches
  BY <1>1, <1>5, <1>8 DEF Fetches, FailuresCounted, cache
<1> QED
  BY <1>6, <1>7, <1>10, <1>11 DEF Kept

(* What a call returns is settled with the transmitter, and nothing else is. *)
LEMMA ReturnKeeps ==
  ASSUME Phased, FailuresCounted, NEW c \in Callers, Return(c)
  PROVE  Kept
<1>1. /\ call[c] \in CallRecords(now) /\ Resting \in CallRecords(now)
      /\ now \in Nat /\ lastCounted \in Nat
      /\ call[c].events \subseteq Sets /\ call[c].refused \subseteq Sets
  BY Records DEF CallRecords
<1>2. /\ Resting.at = "idle" /\ Resting.todo = {} /\ Resting.events = {}
      /\ Resting.refused = {} /\ Resting.since = 0
  BY DEF Resting
<1>3. /\ now' = now /\ UNCHANGED <<published, cache, holder, store, refusedKeys, failedAt>>
      /\ returned' = returned \union call[c].events /\ holder # c
      /\ call' = [call EXCEPT ![c] = Resting]
  BY DEF Return, Phased, TypeOK
<1>4. \/ owed' = owed \union call[c].events \union call[c].refused /\ offered' = offered
      \/ offered' = offered \ (call[c].events \union call[c].refused) /\ owed' = owed
  BY DEF Return
<1>5. /\ call' \in [Callers -> CallRecords(now')]
      /\ \A d \in Callers : call'[d] = IF d = c THEN Resting ELSE call[d]
      /\ holder' \in Callers \union {NoCaller}
      /\ \A d \in Callers : holder' = d <=> call'[d].at \in {"filling", "refetching"}
      /\ PhasesInOrder'
  BY <1>1, <1>2, <1>3, CallerTypes
<1>6. TypeOK'
  BY <1>1, <1>3, <1>4, <1>5 DEF Phased, TypeOK, CallRecords, cache, store
<1>7. \A t \in owed' \union (Sets \ offered') :
        t \in owed \union (Sets \ offered) \/ t \in call[c].events \union call[c].refused
  BY <1>4
<1>8. \A d \in Callers : /\ call[d].events \subseteq call'[d].events \union returned'
                         /\ call'[d].events \subseteq call[d].events
                         /\ call'[d].refused \subseteq call[d].refused
  BY <1>2, <1>3, <1>5
<1>9. Effects
  BY <1>1, <1>3, <1>7, <1>8 DEF Effects, store
<1>10. Fetches
  BY <1>1, <1>2, <1>3, <1>5 DEF Fetches, FailuresCounted, cache
<1> QED
  BY <1>5, <1>6, <1>9, <1>10 DEF Kept

LEMMA TickKeeps ==
  ASSUME Phased, FailuresCounted, Tick
  PROVE  Kept
<1> USE SsfConstants
<1>1. /\ now \in 1 .. MaxTime /\ now < MaxTime /\ now' = now + 1 /\ lastCounted \in Nat
      /\ UNCHANGED <<peer, cache, holder, call, store, returned, refusedKeys, failedAt>>
  BY DEF Tick, Phased, TypeOK
<1>2. now' \in 1 .. MaxTime /\ 0 .. now \subseteq 0 .. now'
  BY <1>1
<1>3. fetchedAt' \in 0 .. now' /\ lastCounted' \in 0 .. now' /\ failedAt' \in 0 .. now'
  BY <1>1, <1>2 DEF Phased, TypeOK, cache
<1>4. acceptedAt' \in [Sets -> 0 .. now']
  BY <1>1, <1>2 DEF Phased, TypeOK, store
<1>5. call' \in [Callers -> CallRecords(now')]
  <2>1. CallRecords(now) \subseteq CallRecords(now')
    BY <1>2 DEF CallRecords
  <2>2. call \in [Callers -> CallRecords(now)]
    BY DEF Phased, TypeOK, CallRecords
  <2> QED
    BY <1>1, <2>1, <2>2
<1>6. TypeOK'
  BY <1>1, <1>2, <1>3, <1>4, <1>5 DEF Phased, TypeOK, CallRecords, peer, cache, store
<1>7. PhasesInOrder'
  BY <1>1 DEF Phased, PhasesInOrder
<1>8. Effects
  BY <1>1 DEF Effects, peer, store
<1>9. Fetches
  BY <1>1 DEF Fetches, FailuresCounted, cache
<1> QED
  BY <1>6, <1>7, <1>8, <1>9 DEF Kept

LEMMA PublishKeeps ==
  ASSUME Phased, FailuresCounted, NEW k \in Kids, Publish(k)
  PROVE  Kept
<1>1. /\ UNCHANGED <<now, offered, owed, cache, holder, call, store, returned, refusedKeys, failedAt>>
      /\ published' = published \union {k} /\ now \in Nat /\ lastCounted \in Nat
  BY Records DEF Publish, Phased, TypeOK
<1>2. TypeOK'
  BY <1>1 DEF Phased, TypeOK, cache, store
<1>3. PhasesInOrder'
  BY <1>1 DEF Phased, PhasesInOrder
<1>4. Effects
  BY <1>1 DEF Effects, store
<1>5. Fetches
  BY <1>1 DEF Fetches, FailuresCounted, cache
<1> QED
  BY <1>2, <1>3, <1>4, <1>5 DEF Kept

-----------------------------------------------------------------------------
LEMMA StepKept ==
  ASSUME Phased, FailuresCounted, Next
  PROVE  Kept
<1>1. ASSUME NEW k \in Kids, Publish(k) PROVE Kept
  BY <1>1, PublishKeeps
<1>2. CASE Tick
  BY <1>2, TickKeeps
<1>3. ASSUME NEW c \in Callers, NEW s \in Sets, Verify(c, s) PROVE Kept
  BY <1>3, VerifyKeeps
<1>4. ASSUME NEW c \in Callers, Poll(c) PROVE Kept
  BY <1>4, PollKeeps
<1>5. ASSUME NEW c \in Callers, JudgeEarly(c) PROVE Kept
  BY <1>5, JudgeEarlyKeeps
<1>6. ASSUME NEW c \in Callers, Lookup(c) PROVE Kept
  <2>1. CASE FillLimited(c)
    BY <2>1, FillLimitedKeeps
  <2>2. CASE StartFill(c)
    BY <2>2, StartFillKeeps
  <2>3. CASE KeyCached(c)
    BY <2>3, KeyCachedKeeps
  <2>4. CASE UnknownKid(c)
    BY <2>4, UnknownKidKeeps
  <2>5. CASE StartRefetch(c)
    BY <2>5, StartRefetchKeeps
  <2> QED
    BY <1>6, <2>1, <2>2, <2>3, <2>4, <2>5 DEF Lookup
<1>7. ASSUME NEW c \in Callers, FetchEnds(c) PROVE Kept
  BY <1>7, FetchedKeeps, FetchFailsKeeps DEF FetchEnds
<1>8. ASSUME NEW c \in Callers, Step9(c) PROVE Kept
  BY <1>8, CheckAndRecordKeeps, StoreFailsKeeps DEF Step9
<1>9. ASSUME NEW c \in Callers, Return(c) PROVE Kept
  BY <1>9, ReturnKeeps
<1> QED
  BY <1>1, <1>2, <1>3, <1>4, <1>5, <1>6, <1>7, <1>8, <1>9 DEF Next

(* What was heard stays heard, and what the store remembers it remembers for
   the window: the rest of the invariant follows from what a step may do. *)
LEMMA StepIInv ==
  ASSUME IInv, Next
  PROVE  IInv'
<1> USE SsfConstants
<1>1. Kept
  BY StepKept DEF IInv
<1>2. /\ now \in Nat /\ now' \in Nat /\ now <= now'
      /\ \A s \in Sets : seen[s] \in Nat /\ acceptedAt[s] \in Nat /\ acceptedAt[s] <= now
      /\ lastCounted \in Nat /\ lastCounted' \in Nat /\ failedAt \in Nat /\ failedAt' \in Nat
  BY <1>1 DEF IInv, Phased, TypeOK, Kept, Effects
<1>3. \A s \in Sets : Heard(s) => Heard(s)'
  BY <1>1 DEF Kept, Effects, Heard
<1>4. \A s \in Sets : (s \in returned \/ \E c \in Callers : s \in call[c].events)
                     => (s \in returned' \/ \E c \in Callers : s \in call'[c].events)
  BY <1>1 DEF Kept, Effects
<1>5. RecordedReturned'
  <2> SUFFICES ASSUME NEW s \in Sets, seen'[s] > now'
               PROVE  s \in returned' \/ \E c \in Callers : s \in call'[c].events
    BY DEF RecordedReturned
  <2>1. CASE seen'[s] = seen[s]
    <3>1. seen[s] > now
      BY <1>2, <2>1
    <3> QED
      BY <1>4, <3>1 DEF IInv, RecordedReturned
  <2>2. CASE seen'[s] # seen[s]
    <3>1. seen'[s] # 0
      BY <1>2
    <3> QED
      BY <1>1, <2>2, <3>1 DEF Kept, Effects
  <2> QED
    BY <2>1, <2>2
<1>6. RefusedForCause'
  <2> SUFFICES ASSUME NEW c \in Callers, NEW s \in Good, s \in call'[c].refused PROVE Heard(s)'
    BY DEF RefusedForCause
  <2>1. s \in Sets
    BY DEF Good
  <2>2. s \in call[c].refused \/ s \in refusedKeys' \/ seen[s] > now
    BY <1>1 DEF Kept, Effects
  <2>3. seen[s] > now => Heard(s)
    BY <2>1 DEF IInv, RecordedReturned, Heard
  <2>4. s \in call[c].refused => Heard(s)
    BY DEF IInv, RefusedForCause
  <2> QED
    BY <1>3, <2>1, <2>2, <2>3, <2>4 DEF Heard
<1>7. NothingDroppedUnheard'
  <2> SUFFICES ASSUME NEW s \in Good, s \in owed' \union (Sets \ offered') PROVE Heard(s)'
    BY <1>1 DEF NothingDroppedUnheard, Heard, Good, Kept, TypeOK
  <2>1. s \in Sets
    BY DEF Good
  <2>2. CASE s \in owed \union (Sets \ offered)
    <3>1. Heard(s)
      BY <2>2 DEF IInv, NothingDroppedUnheard, Good, Heard
    <3> QED
      BY <1>3, <2>1, <3>1
  <2>3. CASE \E c \in Callers : s \in call[c].events \union call[c].refused
    <3>1. Heard(s)
      BY <2>3 DEF IInv, RefusedForCause, Heard
    <3> QED
      BY <1>3, <2>1, <3>1
  <2> QED
    BY <1>1, <2>2, <2>3 DEF Kept, Effects
<1>8. AcceptanceKept'
  <2> SUFFICES ASSUME NEW s \in Sets, acceptedAt'[s] # 0
               PROVE  seen'[s] = acceptedAt'[s] + Window \/ now' >= acceptedAt'[s] + Window
    BY DEF AcceptanceKept
  <2>1. acceptedAt[s] # 0 => seen[s] = acceptedAt[s] + Window \/ now >= acceptedAt[s] + Window
    BY DEF IInv, AcceptanceKept
  <2>2. \/ seen'[s] = seen[s] /\ acceptedAt'[s] = acceptedAt[s]
        \/ seen[s] <= now /\ acceptedAt'[s] = acceptedAt[s]
        \/ seen'[s] = now + Window /\ acceptedAt'[s] = now
    BY <1>1 DEF Kept, Effects
  <2>3. Window \in Nat
    OBVIOUS
  <2> QED
    BY <1>2, <2>1, <2>2, <2>3
<1>9. FailuresCounted'
  BY <1>1, <1>2 DEF Kept, Fetches, FailuresCounted, IInv
<1> QED
  BY <1>1, <1>5, <1>6, <1>7, <1>8, <1>9 DEF IInv, Phased, Kept

LEMMA Inductive == IInv /\ [Next]_vars => IInv'
<1> SUFFICES ASSUME IInv, [Next]_vars PROVE IInv'
  OBVIOUS
<1>1. CASE Next
  BY <1>1, StepIInv
<1>2. CASE UNCHANGED vars
  <2> USE <1>2 DEF vars
  <2>1. Phased'
    BY DEF IInv, Phased, TypeOK, PhasesInOrder
  <2>2. RecordedReturned' /\ NothingDroppedUnheard' /\ RefusedForCause'
    BY DEF IInv, RecordedReturned, NothingDroppedUnheard, RefusedForCause, Heard
  <2>3. AcceptanceKept' /\ FailuresCounted'
    BY DEF IInv, AcceptanceKept, FailuresCounted
  <2> QED
    BY <2>1, <2>2, <2>3 DEF IInv
<1> QED
  BY <1>1, <1>2

THEOREM Invariant == Spec => []IInv
<1> QED
  BY InitIInv, Inductive, PTL DEF Spec

(* ssf_receiver.go, Poll and SsfPollResult: whatever is refused, aborted or
   crosses another call, a jti the store remembers is one the application got or
   is about to get, and the transmitter is told to drop no sound SET that was not
   heard, or whose key the receiver could get. *)
THEOREM EventsHeard == Spec => []NoEventLost
<1>1. IInv => NoEventLost
  BY DEF IInv, Phased, NoEventLost
<1> QED
  BY <1>1, Invariant, PTL

(* CheckAndRecord: within ReplayWindow of an acceptance no call accepts the same
   jti, whichever way the two calls interleave. *)
THEOREM OncePerWindow == Spec => AcceptedOncePerWindow
<1>1. IInv /\ [Next]_vars =>
        [\A c \in Callers, s \in Sets :
           s \in call'[c].events \ call[c].events /\ acceptedAt[s] # 0
           => now >= acceptedAt[s] + Window]_vars
  <2> SUFFICES ASSUME IInv, Next, NEW c \in Callers, NEW s \in Sets,
                      s \in call'[c].events \ call[c].events, acceptedAt[s] # 0
               PROVE  now >= acceptedAt[s] + Window
    OBVIOUS
  <2>1. seen[s] <= now
    BY StepKept DEF IInv, Kept, Effects
  <2>2. seen[s] = acceptedAt[s] + Window \/ now >= acceptedAt[s] + Window
    BY DEF IInv, AcceptanceKept
  <2>3. now \in Nat /\ acceptedAt[s] \in Nat /\ Window \in Nat /\ seen[s] \in Nat
    BY SsfConstants DEF IInv, Phased, TypeOK
  <2> QED
    BY <2>1, <2>2, <2>3
<1> QED
  BY <1>1, Invariant, PTL DEF Spec, AcceptedOncePerWindow

(* keyFor: after a fetch that failed, nobody begins another within
   ssfForcedRefetchInterval of the time that one began. *)
THEOREM OutagePaced == Spec => FetchesPaced
<1>1. IInv /\ [Next]_vars =>
        [\A c \in Callers :
           call'[c].since # call[c].since /\ call'[c].since # 0 /\ failedAt # 0
           => now >= failedAt + Interval]_vars
  <2> SUFFICES ASSUME IInv, Next, NEW c \in Callers,
                      call'[c].since # call[c].since, call'[c].since # 0, failedAt # 0
               PROVE  now >= failedAt + Interval
    OBVIOUS
  <2>1. ~Limited
    BY StepKept DEF IInv, Kept, Fetches
  <2>2. failedAt <= lastCounted
    BY DEF IInv, FailuresCounted
  <2>3. now \in Nat /\ failedAt \in Nat /\ lastCounted \in Nat /\ Interval \in Nat
    BY SsfConstants DEF IInv, Phased, TypeOK
  <2> QED
    BY <2>1, <2>2, <2>3 DEF Limited
<1> QED
  BY <1>1, Invariant, PTL DEF Spec, FetchesPaced
=============================================================================
