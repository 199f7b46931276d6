---------------------------- MODULE DecisionMemo ----------------------------
(***************************************************************************)
(* The opt-in memo of access decisions (decision_memo.go) under            *)
(* checkAccessWithRetry (authz.go): goroutines ask the same questions,     *)
(* the server decides, and grants change while a request is under way.     *)
(*                                                                         *)
(* Keys are questions.  A request is answered or given up within           *)
(* MaxFlight.  truth is what the server would answer, and changedAt when   *)
(* it last changed its mind.  An entry stored at 0 is absent; time starts  *)
(* at 1.                                                                   *)
(*                                                                         *)
(* KeepElement is a faulty variant.                                        *)
(***************************************************************************)
EXTENDS Naturals, Sequences, SequencesExt, FiniteSets

CONSTANTS
    Askers,      \* goroutines
    Keys,
    Disputed,    \* those whose answer an administrator may change
    TTL,         \* the clamped TTL, not 0: the memo is on
    MaxEntries,  \* maxMemoEntries
    MaxFlight,   \* how long a request may take
    MaxTime      \* bound on the clock

\* What the constants must be; the composition assumes it.
MemoConstants ==
    /\ IsFiniteSet(Keys) /\ IsFiniteSet(Askers) /\ Disputed \subseteq Keys
    /\ TTL \in Nat \ {0} /\ MaxEntries \in Nat \ {0}
    /\ MaxFlight \in Nat /\ MaxTime \in Nat \ {0}

VARIABLES now, truth, changedAt, entries, order, ask

vars == <<now, truth, changedAt, entries, order, ask>>
server == <<truth, changedAt>>
memo == <<entries, order>>

Absent == [allowed |-> FALSE, storedAt |-> 0]
Present(k) == entries[k] # Absent

Resting == [at |-> "idle"]
Sent(k) == [at |-> "sent", key |-> k, since |-> now]
Judged(k, since) == [at |-> "judged", key |-> k, since |-> since, allowed |-> truth[k]]

MInit ==
    /\ now = 1
    /\ truth = [k \in Keys |-> TRUE] /\ changedAt = [k \in Keys |-> 1]
    /\ entries = [k \in Keys |-> Absent] /\ order = <<>>
    /\ ask = [a \in Askers |-> Resting]

-----------------------------------------------------------------------------
\* The server: an administrator changes a grant, and a request is judged.
Change(k) ==
    /\ truth' = [truth EXCEPT ![k] = ~@]
    /\ changedAt' = [changedAt EXCEPT ![k] = now]
    /\ UNCHANGED <<now, memo, ask>>

Judge(a) ==
    /\ ask[a].at = "sent"
    /\ ask' = [ask EXCEPT ![a] = Judged(@.key, @.since)]
    /\ UNCHANGED <<now, server, memo>>

\* The clock waits for a request that has used up its time.
MTick ==
    /\ now < MaxTime
    /\ \A a \in Askers : ask[a] # Resting => now < ask[a].since + MaxFlight
    /\ now' = now + 1
    /\ UNCHANGED <<server, memo, ask>>

-----------------------------------------------------------------------------
\* The element of an entry, where there is one, leaves the list.
Without(k) == IF Present(k) THEN RemoveAt(order, CHOOSE i \in DOMAIN order : order[i] = k) ELSE order

\* get: a live entry answers, an expired one is dropped on the way to the server.
Live(k) == Present(k) /\ now - entries[k].storedAt < TTL

Check(a, k) ==
    /\ ask[a] = Resting
    /\ ~Live(k)
    /\ entries' = [entries EXCEPT ![k] = Absent]
    /\ order' = Without(k)
    /\ ask' = [ask EXCEPT ![a] = Sent(k)]
    /\ UNCHANGED <<now, server>>

\* set: the element of an entry that is replaced leaves the list, the new one goes to its end, and
\* the front goes when there are too many.
KeepElement(k) == Append(order, k)
Queued(k) == Append(Without(k), k)

Answer(a) ==
    /\ ask[a].at = "judged"
    /\ LET k == ask[a].key
           queue == Queued(k)
           evicted == IF Len(queue) > MaxEntries THEN {Head(queue)} ELSE {}
       IN /\ order' = IF evicted = {} THEN queue ELSE Tail(queue)
          /\ entries' = [j \in Keys |->
                           CASE j \in evicted -> Absent
                             [] j = k -> [allowed |-> ask[a].allowed, storedAt |-> now]
                             [] OTHER -> entries[j]]
    /\ ask' = [ask EXCEPT ![a] = Resting]
    /\ UNCHANGED <<now, server>>

\* A request that fails, in either direction, memoizes nothing.
Fail(a) ==
    /\ ask[a] # Resting
    /\ ask' = [ask EXCEPT ![a] = Resting]
    /\ UNCHANGED <<now, server, memo>>

Clear ==
    /\ order # <<>>
    /\ entries' = [k \in Keys |-> Absent] /\ order' = <<>>
    /\ UNCHANGED <<now, server, ask>>

MNext ==
    \/ \E k \in Disputed : Change(k)
    \/ \E a \in Askers, k \in Keys : Check(a, k)
    \/ \E a \in Askers : Judge(a) \/ Answer(a) \/ Fail(a)
    \/ Clear \/ MTick

MSpec == MInit /\ [][MNext]_vars

-----------------------------------------------------------------------------
TypeOK ==
    /\ now \in 1 .. MaxTime
    /\ truth \in [Keys -> BOOLEAN] /\ changedAt \in [Keys -> 1 .. MaxTime]
    /\ entries \in [Keys -> [allowed : BOOLEAN, storedAt : 0 .. MaxTime]]
    /\ order \in Seq(Keys)
    /\ \A a \in Askers : ask[a].at \in {"idle", "sent", "judged"}

\* The map and the list hold the same entries, each once, and no more than the limit: whatever was
\* replaced, expired on read, cleared or evicted before.
MapAgreesWithList ==
    /\ IsInjective(order)
    /\ Range(order) = {k \in Keys : Present(k)}
    /\ Len(order) <= MaxEntries

\* What is evicted was stored no later than anything that stays.
EvictsOldest ==
    \A k, j \in Keys :
        (Present(k) /\ ~Present(k)' /\ Present(j) /\ entries'[j] = entries[j]) =>
            \/ entries[k].storedAt <= entries[j].storedAt
            \/ ~Live(k)

\* An answer from the memo that the server would no longer give was true within the last TTL and
\* the time that a request may take.
StalenessBounded ==
    \A k \in Keys : Live(k) /\ entries[k].allowed # truth[k] => now < changedAt[k] + MaxFlight + TTL
=============================================================================
