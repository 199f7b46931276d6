---------------------------- MODULE SsfReceiver ----------------------------
(***************************************************************************)
(* The security event receiver (ssf_receiver.go): VerifySet, which judges  *)
(* one pushed SET, and Poll, which fetches a batch, judges all of it and   *)
(* only then records it.  The calls share a key cache under one mutex,     *)
(* which a call holds across its fetch, and a replay store.                *)
(*                                                                         *)
(* The transmitter is external: it offers every SET it has not been told   *)
(* about, and publishes keys.  So is the application: on its next poll it  *)
(* acknowledges what it was given and reports what was refused, as Poll's  *)
(* documentation tells it to.  SETs are numbered in the order of their     *)
(* jtis, which is the order a batch is gone through.  A poll request that  *)
(* fails changes nothing and is not an action.                             *)
(*                                                                         *)
(* The steps of judge that need no key are one fact about a SET            *)
(* (Malformed, refused before its key is looked up; Unsound, refused       *)
(* after).  The configuration document that may stand between the receiver *)
(* and its jwks_uri is part of a fetch.                                    *)
(*                                                                         *)
(* RecordAsJudged, ShortWindow, UncountedFailure and KeepsLock are faulty  *)
(* variants.                                                               *)
(***************************************************************************)
EXTENDS Naturals, FiniteSets

CONSTANTS
    Pollers,      \* goroutines that poll
    Pushers,      \* goroutines that serve the push endpoint
    NoCaller,
    Sets,         \* the SETs, in the order of their jtis
    Malformed,    \* refused at steps 1 to 3
    Unsound,      \* refused at steps 5 to 8
    Kids,
    KidOf,        \* the kid each SET names
    FirstKids,    \* the keys published at the start
    Window,       \* ReplayWindow
    MaxAge,       \* ssfJWKSMaxAge
    Interval,     \* ssfForcedRefetchInterval
    MaxTime       \* bound on the clock, which starts at 1

ASSUME SsfConstants ==
    /\ NoCaller \notin Pollers \union Pushers
    /\ Sets \subseteq Nat /\ IsFiniteSet(Sets)
    /\ Malformed \subseteq Sets /\ Unsound \subseteq Sets
    /\ KidOf \in [Sets -> Kids] /\ FirstKids \subseteq Kids
    /\ Window \in Nat \ {0} /\ MaxAge \in Nat /\ Interval \in Nat
    /\ MaxTime \in Nat \ {0}

Callers == Pollers \union Pushers

VARIABLES
    now,
    offered,      \* what the transmitter still offers
    published,    \* the kids of its key set
    owed,         \* what the next poll acknowledges or reports
    keys,         \* the cached key set
    fetchedAt,    \* when it was fetched, 0 while there is none
    lastCounted,  \* the last fetch the once-a-minute limit counts, 0 for none
    holder,       \* the caller that holds the mutex across a fetch
    call,         \* what each caller is doing
    seen,         \* the replay store: the expiry of each jti, 0 when absent
    returned,     \* history: SETs returned as events
    acceptedAt,   \* history: when each was last accepted, 0 for never
    refusedKeys,  \* history: SETs refused at step 4
    failedAt      \* history: when the last fetch to fail began, 0 for none

vars == <<now, offered, published, owed, keys, fetchedAt, lastCounted, holder, call,
          seen, returned, acceptedAt, refusedKeys, failedAt>>
cache == <<keys, fetchedAt, lastCounted>>
store == <<seen, acceptedAt>>
peer == <<offered, published, owed>>

Resting == [at |-> "idle", polls |-> FALSE, todo |-> {}, judged |-> {},
            events |-> {}, refused |-> {}, since |-> 0]

Init ==
    /\ now = 1
    /\ offered = Sets /\ published = FirstKids /\ owed = {}
    /\ keys = {} /\ fetchedAt = 0 /\ lastCounted = 0
    /\ holder = NoCaller
    /\ call = [c \in Callers |-> Resting]
    /\ seen = [s \in Sets |-> 0]
    /\ returned = {} /\ acceptedAt = [s \in Sets |-> 0]
    /\ refusedKeys = {} /\ failedAt = 0

First(S) == CHOOSE s \in S : \A t \in S : s <= t

-----------------------------------------------------------------------------
\* The transmitter and the clock.
Publish(k) ==
    /\ k \notin published
    /\ published' = published \union {k}
    /\ UNCHANGED <<now, offered, owed, cache, holder, call, store, returned, refusedKeys, failedAt>>

Tick ==
    /\ now < MaxTime
    /\ now' = now + 1
    /\ UNCHANGED <<peer, cache, holder, call, store, returned, refusedKeys, failedAt>>

-----------------------------------------------------------------------------
\* VerifySet on a SET the transmitter pushes, once more if it had no answer.
Verify(c, s) ==
    /\ call[c] = Resting
    /\ s \in offered
    /\ call' = [call EXCEPT ![c].at = "judging", ![c].todo = {s}]
    /\ UNCHANGED <<now, peer, cache, holder, store, returned, refusedKeys, failedAt>>

\* Poll: the acknowledgements go out and the batch comes back.
Poll(c) ==
    /\ call[c] = Resting
    /\ call' = [call EXCEPT ![c].at = "judging", ![c].polls = TRUE,
                            ![c].todo = offered \ owed]
    /\ offered' = offered \ owed
    /\ owed' = {}
    /\ UNCHANGED <<now, published, cache, holder, store, returned, refusedKeys, failedAt>>

Judging(c) == call[c].at = "judging" /\ call[c].todo # {} /\ holder # c
Current(c) == First(call[c].todo)

\* Errors that are no verdict: the call ends, having recorded nothing.
Abort(c) ==
    /\ call' = [call EXCEPT ![c] = Resting]
    /\ UNCHANGED <<seen, acceptedAt>>

RecordAsJudged(c, s) ==
    /\ call' = [call EXCEPT ![c].todo = @ \ {s}, ![c].judged = @ \union {s}]
    /\ seen' = [seen EXCEPT ![s] = now + Window] /\ UNCHANGED acceptedAt
\* Steps 1 to 8 passed: nothing is recorded yet.
Pass(c, s) ==
    /\ call' = [call EXCEPT ![c].todo = @ \ {s}, ![c].judged = @ \union {s}]
    /\ UNCHANGED <<seen, acceptedAt>>

Refuse(c, s) ==
    /\ call' = [call EXCEPT ![c].todo = @ \ {s}, ![c].refused = @ \union {s}]
    /\ UNCHANGED <<seen, acceptedAt>>

\* Steps 5 to 8, with the key at hand.
Conclude(c, s) == IF s \in Unsound THEN Refuse(c, s) ELSE Pass(c, s)

JudgeEarly(c) ==
    /\ Judging(c)
    /\ Current(c) \in Malformed
    /\ Refuse(c, Current(c))
    /\ UNCHANGED <<now, peer, cache, holder, returned, refusedKeys, failedAt>>

-----------------------------------------------------------------------------
\* keyFor, under the mutex.
Limited == lastCounted # 0 /\ now < lastCounted + Interval

NeedsFill == fetchedAt = 0 \/ now > fetchedAt + MaxAge

Looking(c) == Judging(c) /\ Current(c) \notin Malformed /\ holder = NoCaller

\* A fetch just failed: unjudged, without another fetch.
FillLimited(c) ==
    /\ Looking(c)
    /\ NeedsFill /\ Limited
    /\ Abort(c)
    /\ UNCHANGED <<now, peer, cache, holder, returned, refusedKeys, failedAt>>

StartFill(c) ==
    /\ Looking(c)
    /\ NeedsFill /\ ~Limited
    /\ holder' = c
    /\ call' = [call EXCEPT ![c].at = "filling", ![c].since = now]
    /\ UNCHANGED <<now, peer, cache, store, returned, refusedKeys, failedAt>>

KeyCached(c) ==
    /\ Looking(c)
    /\ ~NeedsFill /\ KidOf[Current(c)] \in keys
    /\ Conclude(c, Current(c))
    /\ UNCHANGED <<now, peer, cache, holder, returned, refusedKeys, failedAt>>

UnknownKid(c) ==
    /\ Looking(c)
    /\ ~NeedsFill /\ KidOf[Current(c)] \notin keys
    /\ Limited
    /\ Refuse(c, Current(c))
    /\ refusedKeys' = refusedKeys \union {Current(c)}
    /\ UNCHANGED <<now, peer, cache, holder, returned, failedAt>>

\* The refetch an unknown kid forces is counted before it is made.
StartRefetch(c) ==
    /\ Looking(c)
    /\ ~NeedsFill /\ KidOf[Current(c)] \notin keys
    /\ ~Limited
    /\ lastCounted' = now
    /\ holder' = c
    /\ call' = [call EXCEPT ![c].at = "refetching", ![c].since = now]
    /\ UNCHANGED <<now, peer, keys, fetchedAt, store, returned, refusedKeys, failedAt>>

Fetching(c) == holder = c /\ call[c].at \in {"filling", "refetching"}

\* The key set arrived.  The mutex stays held for the unknown-kid refetch that
\* may follow a fill, and a call that asked twice does not ask again.
Fetched(c) ==
    /\ Fetching(c)
    /\ keys' = published /\ fetchedAt' = now
    /\ LET s == Current(c)
           known == KidOf[s] \in published
           again == ~known /\ call[c].at = "filling" /\ ~Limited
       IN  /\ lastCounted' = IF again THEN now ELSE lastCounted
           /\ holder' = IF again THEN c ELSE NoCaller
           /\ refusedKeys' = IF known \/ again THEN refusedKeys ELSE refusedKeys \union {s}
           /\ call' = [call EXCEPT ![c] =
                IF again THEN [call[c] EXCEPT !.at = "refetching", !.since = now]
                ELSE [call[c] EXCEPT !.at = "judging", !.since = 0, !.todo = @ \ {s},
                                     !.judged = IF known /\ s \notin Unsound THEN @ \union {s} ELSE @,
                                     !.refused = IF known /\ s \notin Unsound THEN @ ELSE @ \union {s}]]
    /\ UNCHANGED <<now, peer, store, returned, failedAt>>

UncountedFailure(c) == lastCounted
\* A fill that fails is counted once it has failed, a refetch already was.
CountFailure(c) == IF call[c].at = "filling" THEN now ELSE lastCounted

KeepsLock(c) == holder
Released(c) == NoCaller

FetchFails(c) ==
    /\ Fetching(c)
    /\ lastCounted' = CountFailure(c)
    /\ holder' = Released(c)
    /\ failedAt' = call[c].since
    /\ Abort(c)
    /\ UNCHANGED <<now, peer, keys, fetchedAt, returned, refusedKeys>>

-----------------------------------------------------------------------------
\* Step 9, one jti at a time, once nothing is left to judge.
Recording(c) == call[c].at = "judging" /\ call[c].todo = {} /\ call[c].judged # {}

Swept == [s \in Sets |-> IF seen[s] > now THEN seen[s] ELSE 0]

ShortWindow == Window - 1
Remembered == Window

CheckAndRecord(c) ==
    LET s == First(call[c].judged) IN
    /\ Recording(c)
    /\ IF Swept[s] = 0
       THEN /\ seen' = [Swept EXCEPT ![s] = now + Remembered]
            /\ acceptedAt' = [acceptedAt EXCEPT ![s] = now]
            /\ call' = [call EXCEPT ![c].judged = @ \ {s}, ![c].events = @ \union {s}]
       ELSE /\ seen' = Swept
            /\ call' = [call EXCEPT ![c].judged = @ \ {s}, ![c].refused = @ \union {s}]
            /\ UNCHANGED acceptedAt
    /\ UNCHANGED <<now, peer, cache, holder, returned, refusedKeys, failedAt>>

\* The store cannot answer: this SET and the rest of the batch stay unjudged.
StoreFails(c) ==
    /\ Recording(c)
    /\ call' = [call EXCEPT ![c].judged = {}]
    /\ UNCHANGED <<now, peer, cache, holder, store, returned, refusedKeys, failedAt>>

\* The call returns.  The application will acknowledge a polled event, and
\* report a refused SET or acknowledge a replayed one; a push is answered on
\* the spot.
Return(c) ==
    /\ call[c].at = "judging" /\ call[c].todo = {} /\ call[c].judged = {}
    /\ returned' = returned \union call[c].events
    /\ LET settled == call[c].events \union call[c].refused IN
       IF call[c].polls
       THEN owed' = owed \union settled /\ UNCHANGED offered
       ELSE offered' = offered \ settled /\ UNCHANGED owed
    /\ call' = [call EXCEPT ![c] = Resting]
    /\ UNCHANGED <<now, published, cache, holder, store, refusedKeys, failedAt>>

Lookup(c) ==
    FillLimited(c) \/ StartFill(c) \/ KeyCached(c) \/ UnknownKid(c) \/ StartRefetch(c)
FetchEnds(c) == Fetched(c) \/ FetchFails(c)
Step9(c) == CheckAndRecord(c) \/ StoreFails(c)

Next ==
    \/ \E k \in Kids : Publish(k)
    \/ Tick
    \/ \E c \in Callers :
          \/ c \in Pushers /\ \E s \in Sets : Verify(c, s)
          \/ c \in Pollers /\ Poll(c)
          \/ JudgeEarly(c) \/ Lookup(c) \/ FetchEnds(c) \/ Step9(c) \/ Return(c)

Spec == Init /\ [][Next]_vars

\* Goroutines run, fetches end (the transport has a timeout) and a waiter gets
\* the mutex in the end, as sync.Mutex sees to it.
Fairness ==
    \A c \in Callers :
        /\ SF_vars(Lookup(c))
        /\ WF_vars(JudgeEarly(c)) /\ WF_vars(FetchEnds(c)) /\ WF_vars(Step9(c)) /\ WF_vars(Return(c))

FairSpec == Spec /\ Fairness

-----------------------------------------------------------------------------
TypeOK ==
    /\ now \in 1 .. MaxTime
    /\ offered \subseteq Sets /\ owed \subseteq Sets
    /\ published \subseteq Kids /\ keys \subseteq published
    /\ fetchedAt \in 0 .. now /\ lastCounted \in 0 .. now /\ failedAt \in 0 .. now
    /\ holder \in Callers \union {NoCaller}
    /\ call \in [Callers -> [at : {"idle", "judging", "filling", "refetching"},
                             polls : BOOLEAN, todo : SUBSET Sets, judged : SUBSET Sets,
                             events : SUBSET Sets, refused : SUBSET Sets, since : 0 .. now]]
    /\ \A c \in Callers : holder = c <=> call[c].at \in {"filling", "refetching"}
    /\ seen \in [Sets -> 0 .. MaxTime + Window]
    /\ returned \subseteq Sets /\ refusedKeys \subseteq Sets
    /\ acceptedAt \in [Sets -> 0 .. now]

\* A jti the store holds belongs to an event that was returned, or that a call
\* still running will return (ssf_receiver.go: "Poll NEVER KEEPS A JTI IT DOES
\* NOT RETURN").
RecordedReturned ==
    \A s \in Sets : seen[s] > now =>
        s \in returned \/ \E c \in Callers : s \in call[c].events

\* A SET the transmitter is told to drop, and that should have been accepted, was
\* returned, is about to be, or was refused for a key the receiver could not get
\* (Poll's documentation; SsfPollResult.Unjudged).
NothingDroppedUnheard ==
    \A s \in (owed \union (Sets \ offered)) \ (Malformed \union Unsound) :
        \/ s \in returned \union refusedKeys
        \/ \E c \in Callers : s \in call[c].events

\* Between the transmitter, the store and the callers no event gets lost.
NoEventLost == TypeOK /\ RecordedReturned /\ NothingDroppedUnheard

\* Within the window no two calls accept one jti (CheckAndRecord).
AcceptedOncePerWindow ==
    [][\A c \in Callers, s \in Sets :
         s \in call'[c].events \ call[c].events /\ acceptedAt[s] # 0
         => now >= acceptedAt[s] + Window]_vars

\* An outage costs one fetch an interval, whoever asks (keyFor).
FetchesPaced ==
    [][\A c \in Callers :
         call'[c].since # call[c].since /\ call'[c].since # 0 /\ failedAt # 0
         => now >= failedAt + Interval]_vars

\* Every call returns.
CallsReturn == \A c \in Callers : call[c].at # "idle" ~> call[c].at = "idle"
=============================================================================
