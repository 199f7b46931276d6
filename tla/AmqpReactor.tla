---------------------------- MODULE AmqpReactor ----------------------------
(***************************************************************************)
(* amqp.ReactorServe (amqp/reactor.go) with its wire protocol              *)
(* (reactor_protocol.go) and its transport (reactor_transport.go).         *)
(*                                                                         *)
(* ReactorServe runs one session after another until its context is        *)
(* cancelled.  A session hands every delivery to a goroutine of its own,   *)
(* and ends when its delivery channel closes or the context is cancelled:  *)
(* it then waits for those goroutines, up to a grace, before it closes the *)
(* transport.  One replay guard serves all the sessions.  A goroutine      *)
(* reads the clock once, at its start, and judges freshness and the nonce  *)
(* by that reading, however late it gets to them.                          *)
(*                                                                         *)
(* The broker is external, as in AmqpDelivery: it delivers up to Prefetch  *)
(* unacknowledged messages and requeues them when the link goes.  A dial   *)
(* that fails changes nothing but the length of the next wait, which full  *)
(* jitter makes any length from 0 up, so neither is an action here.        *)
(*                                                                         *)
(* GuardPerSession, UnboundedDrain and CloseAtOnce are faulty variants of  *)
(* the definition that follows each.                                       *)
(***************************************************************************)
EXTENDS Integers, FiniteSets

CONSTANTS
    Messages,     \* what the broker's queue holds
    Nonces,
    NonceOf,      \* the nonce each message carries
    IssuedAt,     \* issued_at of the body with that nonce
    Authentic,    \* messages whose MAC verifies, with key_version >= 2
    Addressed,    \* messages for this tenant, naming an event of the registry
    Hanging,      \* messages on which the handler may never return
    Listen,       \* ReactorConfig.Mode is ReactorModeListen
    Skew,         \* the freshness window, in ticks
    Timeout,      \* the event's timeout_ms, in ticks
    Prefetch,
    MaxTime,      \* bound on the clock
    MaxSessions   \* bound on the sessions

ASSUME ReactorConstants ==
    /\ NonceOf \in [Messages -> Nonces]
    /\ IssuedAt \in [Nonces -> Int]
    /\ Authentic \subseteq Messages /\ Addressed \subseteq Messages
    /\ Hanging \subseteq Messages
    /\ Listen \in BOOLEAN
    /\ Skew \in Nat \ {0} /\ Timeout \in Nat /\ Prefetch \in Nat \ {0}
    /\ MaxTime \in Nat /\ MaxSessions \in Nat

VARIABLES
    now,
    place,        \* where the broker has each message
    linked,       \* the session's connection is up
    serving,      \* what ReactorServe is doing
    session,      \* sessions started so far; also the number of the last one
    cancelled,    \* its context is cancelled
    buffer,       \* deliveries received and not yet handed to a goroutine
    task,         \* the goroutine of a session for a message
    seen,         \* replayGuard.seen: the expiry of each nonce, 0 when absent
    keptUntil,    \* history: end of the retention of the nonce last handed over
    abandoned     \* history: sessions whose drain outlasted the grace

vars == <<now, place, linked, serving, session, cancelled, buffer, task, seen,
          keptUntil, abandoned>>
broker == <<place, linked, buffer>>
loop == <<serving, session, cancelled, abandoned>>
guard == <<seen, keptUntil>>

Sessions == 1 .. MaxSessions
Idle == [at |-> "none", started |-> 0]
Running(s) == {m \in Messages : task[s][m] # Idle}

Init ==
    /\ now = 0
    /\ place = [m \in Messages |-> "ready"]
    /\ linked = FALSE /\ buffer = {}
    /\ serving = "backoff" /\ session = 0 /\ cancelled = FALSE
    /\ task = [s \in Sessions |-> [m \in Messages |-> Idle]]
    /\ seen = [n \in Nonces |-> 0]
    /\ keptUntil = [n \in Nonces |-> 0]
    /\ abandoned = {}

-----------------------------------------------------------------------------
\* The broker and the caller.
Unacked == {m \in Messages : place[m] = "unacked"}

Requeued == [m \in Messages |-> IF m \in Unacked THEN "ready" ELSE place[m]]

Deliver(m) ==
    /\ linked /\ place[m] = "ready"
    /\ Cardinality(Unacked) < Prefetch
    /\ place' = [place EXCEPT ![m] = "unacked"]
    /\ buffer' = buffer \union {m}
    /\ UNCHANGED <<now, linked, loop, task, guard>>

LinkLost ==
    /\ linked
    /\ linked' = FALSE
    /\ place' = Requeued
    /\ UNCHANGED <<now, loop, buffer, task, guard>>

Cancel ==
    /\ ~cancelled
    /\ cancelled' = TRUE
    /\ UNCHANGED <<now, broker, serving, session, abandoned, task, guard>>

Tick ==
    /\ now < MaxTime
    /\ now' = now + 1
    /\ UNCHANGED <<broker, loop, task, guard>>

-----------------------------------------------------------------------------
\* The session loop.  What the broker still had for the last link is gone.
GuardPerSession ==
    /\ serving = "backoff" /\ ~cancelled /\ session < MaxSessions
    /\ serving' = "up" /\ session' = session + 1
    /\ linked' = TRUE /\ buffer' = {}
    /\ seen' = [n \in Nonces |-> 0]
    /\ UNCHANGED <<now, place, cancelled, abandoned, task, keptUntil>>
Dial ==
    /\ serving = "backoff" /\ ~cancelled
    /\ session < MaxSessions
    /\ serving' = "up"
    /\ session' = session + 1
    /\ linked' = TRUE /\ buffer' = {}
    /\ UNCHANGED <<now, place, cancelled, abandoned, task, guard>>

\* The select took a delivery: its goroutine starts and reads the clock.
Take(m) ==
    /\ serving = "up" /\ m \in buffer
    /\ buffer' = buffer \ {m}
    /\ task' = [task EXCEPT ![session][m] = [at |-> "begun", started |-> now]]
    /\ UNCHANGED <<now, place, linked, loop, guard>>

\* The select took ctx.Done, or the delivery channel is closed: drain.
LeaveLoop ==
    /\ serving = "up"
    /\ cancelled \/ ~linked
    /\ serving' = "draining"
    /\ UNCHANGED <<now, broker, session, cancelled, abandoned, task, guard>>

UnboundedDrain == FALSE /\ UNCHANGED vars
\* time.After(drainGrace) fires before the last goroutine is done.
GracePasses ==
    /\ serving = "draining" /\ session \notin abandoned
    /\ abandoned' = abandoned \union {session}
    /\ UNCHANGED <<now, broker, serving, session, cancelled, task, guard>>

CloseAtOnce == TRUE
Drained == Running(session) = {} \/ session \in abandoned

\* The deferred drain is over and the deferred Close runs.
SessionEnds ==
    /\ serving = "draining"
    /\ Drained
    /\ serving' = IF cancelled THEN "stopped" ELSE "backoff"
    /\ linked' = FALSE /\ place' = Requeued /\ buffer' = {}
    /\ UNCHANGED <<now, session, cancelled, abandoned, task, guard>>

\* Cancelled before a dial or while it waits for the next one.
GiveUp ==
    /\ serving = "backoff" /\ cancelled
    /\ serving' = "stopped"
    /\ UNCHANGED <<now, broker, session, cancelled, abandoned, task, guard>>

-----------------------------------------------------------------------------
\* One goroutine.  Its Ack or Nack reaches the broker while its own link is up.
Live(s) == linked /\ s = session

Settle(s, m, outcome) ==
    /\ task' = [task EXCEPT ![s][m] = Idle]
    /\ place' = IF Live(s) THEN [place EXCEPT ![m] = outcome] ELSE place
    /\ UNCHANGED <<now, linked, loop, buffer>>

Fresh(n, t) == t <= IssuedAt[n] + Skew /\ IssuedAt[n] <= t + Skew

\* replayGuard.prune at instant t.
Prune(t) == [n \in Nonces |-> IF t < seen[n] THEN seen[n] ELSE 0]

Begun(s, m) == task[s][m].at = "begun"
Started(s, m) == task[s][m].started
Verifies(s, m) == m \in Authentic /\ Fresh(NonceOf[m], Started(s, m))

\* claimReactorNonce: the table once the nonce of m is recorded.
Claimable(s, m) == Prune(Started(s, m))[NonceOf[m]] = 0
Retention(s, m) == Started(s, m) + 2 * Skew
Claimed(s, m) == [Prune(Started(s, m)) EXCEPT ![NonceOf[m]] = Retention(s, m)]

\* Key version, MAC or freshness: Nack, the nonce table untouched.
RefuseUnverified(s, m) ==
    /\ Begun(s, m)
    /\ ~Verifies(s, m)
    /\ Settle(s, m, "dropped")
    /\ UNCHANGED guard

RefuseReplay(s, m) ==
    /\ Begun(s, m)
    /\ Verifies(s, m) /\ ~Claimable(s, m)
    /\ seen' = Prune(Started(s, m))
    /\ Settle(s, m, "dropped")
    /\ UNCHANGED keptUntil

\* Another tenant's event, or an unknown one, found only after the claim.
RefuseMisaddressed(s, m) ==
    /\ Begun(s, m)
    /\ Verifies(s, m) /\ Claimable(s, m)
    /\ m \notin Addressed
    /\ seen' = Claimed(s, m)
    /\ Settle(s, m, "dropped")
    /\ UNCHANGED keptUntil

Admit(s, m) ==
    /\ Begun(s, m)
    /\ Verifies(s, m) /\ Claimable(s, m)
    /\ m \in Addressed
    /\ seen' = Claimed(s, m)
    /\ keptUntil' = [keptUntil EXCEPT ![NonceOf[m]] = Retention(s, m)]
    /\ task' = [task EXCEPT ![s][m].at = "handling"]
    /\ UNCHANGED <<now, broker, loop>>

\* A listener, a handler error or panic, a late or an unsendable answer: Ack
\* without a reply.
NoReply(s, m) ==
    /\ task[s][m].at = "handling"
    /\ Settle(s, m, "acked")
    /\ UNCHANGED guard

\* A sendable answer inside the deadline, which is Timeout after the start.
Answers(s, m) ==
    /\ task[s][m].at = "handling"
    /\ ~Listen
    /\ now < Started(s, m) + Timeout
    /\ task' = [task EXCEPT ![s][m].at = "replying"]
    /\ UNCHANGED <<now, broker, loop, guard>>

\* PublishReply works only while the link is up; the Ack follows either way.
Publish(s, m) ==
    /\ task[s][m].at = "replying"
    /\ task' = [task EXCEPT ![s][m].at = IF Live(s) THEN "replied" ELSE "unsent"]
    /\ UNCHANGED <<now, broker, loop, guard>>

AckReplied(s, m) ==
    /\ task[s][m].at \in {"replied", "unsent"}
    /\ Settle(s, m, "acked")
    /\ UNCHANGED guard

Decode(s, m) ==
    RefuseUnverified(s, m) \/ RefuseReplay(s, m) \/ RefuseMisaddressed(s, m) \/ Admit(s, m)
HandlerReturns(s, m) == NoReply(s, m) \/ Answers(s, m)
Finish(s, m) == Publish(s, m) \/ AckReplied(s, m)

Next ==
    \/ \E m \in Messages : Deliver(m) \/ Take(m)
    \/ LinkLost \/ Cancel \/ Tick
    \/ Dial \/ LeaveLoop \/ GracePasses \/ SessionEnds \/ GiveUp
    \/ \E s \in Sessions, m \in Messages :
          Decode(s, m) \/ HandlerReturns(s, m) \/ Finish(s, m)

Spec == Init /\ [][Next]_vars

\* The loop and its goroutines run, and the grace timer fires.  A handler is
\* owed nothing on a message of Hanging; nobody owes a cancellation, a link
\* loss or a delivery.
Fairness ==
    /\ WF_vars(LeaveLoop) /\ WF_vars(GracePasses) /\ WF_vars(SessionEnds) /\ WF_vars(GiveUp)
    /\ WF_vars(Dial)
    /\ \A m \in Messages : WF_vars(Take(m))
    /\ \A s \in Sessions, m \in Messages :
          /\ WF_vars(Decode(s, m)) /\ WF_vars(Finish(s, m))
          /\ m \notin Hanging => WF_vars(HandlerReturns(s, m))

FairSpec == Spec /\ Fairness

-----------------------------------------------------------------------------
Stages == {"none", "begun", "handling", "replying", "replied", "unsent"}

TypeOK ==
    /\ now \in 0 .. MaxTime
    /\ place \in [Messages -> {"ready", "unacked", "acked", "dropped"}]
    /\ linked \in BOOLEAN /\ cancelled \in BOOLEAN
    /\ serving \in {"backoff", "up", "draining", "stopped"}
    /\ session \in 0 .. MaxSessions
    /\ buffer \subseteq Messages
    /\ task \in [Sessions -> [Messages -> [at : Stages, started : 0 .. MaxTime]]]
    /\ seen \in [Nonces -> 0 .. MaxTime + 2 * Skew]
    /\ keptUntil \in [Nonces -> 0 .. MaxTime + 2 * Skew]
    /\ abandoned \subseteq Sessions

\* A nonce handed to the handler is not handed over again before its retention
\* has run out, through lost links, redeliveries, copies and goroutines that
\* judge by an old reading of the clock (reactor.go:316, reactor_protocol.go:486).
HandedOnce ==
    [][\A s \in Sessions, m \in Messages :
         Begun(s, m) /\ task'[s][m].at = "handling" /\ keptUntil[NonceOf[m]] > 0
         => now >= keptUntil[NonceOf[m]]]_vars

\* While a session serves, a goroutine of an earlier one still runs only if it
\* outlived that session's grace (reactor.go:360-377).
EarlierDrained ==
    /\ TypeOK
    /\ serving = "up" => \A s \in 1 .. session - 1 : Running(s) = {} \/ s \in abandoned

\* Once its context is cancelled ReactorServe returns, though a handler may
\* never do so (reactor.go:318-341, 360-377).
Stops == cancelled ~> serving = "stopped"

\* A delivery on which the handler returns does not stay unacknowledged: it is
\* answered, or the broker takes it back with the link.
Settles == \A m \in Messages \ Hanging : place[m] = "unacked" ~> place[m] # "unacked"

\* Both: what was begun comes to an end.
WindsDown == Stops /\ Settles
=============================================================================
