---------------------------- MODULE AmqpDelivery ----------------------------
(***************************************************************************)
(* amqp.Consume (amqp/consumer.go) and its replay guard (amqp/replay.go).  *)
(* The loop takes deliveries one at a time.  A delivery passes the         *)
(* signature check, then the replay guard, which records its nonce, and    *)
(* only then reaches the handler; what the handler returns decides between *)
(* Ack, Nack and Nack with requeue.                                        *)
(*                                                                         *)
(* The broker is external: it delivers up to Prefetch unacknowledged       *)
(* messages on an open channel and requeues them when the channel closes.  *)
(* A delivery the loop still buffers when the channel closes may yet be    *)
(* dispatched; its Ack or Nack then goes nowhere (deliveryAdapter drops    *)
(* the error).  Each call of Consume has a replay guard of its own.        *)
(*                                                                         *)
(* A body that verifies always parses (verifyHMAC has unmarshalled it into *)
(* a struct), so parseEvent's error path is not an outcome here.  Several  *)
(* messages may carry one nonce: copies of one signed body.                *)
(*                                                                         *)
(* ShortTtl, DropUnheard and NackNever are faulty variants of the          *)
(* definition that follows each; Next uses none of them.                   *)
(***************************************************************************)
EXTENDS Integers, FiniteSets

CONSTANTS
    Messages,     \* what the broker's queue holds
    NoMessage,
    Nonces,
    NonceOf,      \* the nonce each message carries
    IssuedAt,     \* issued_at of the body with that nonce, as the consumer's clock counts
    Acceptable,   \* messages whose signature verifies, with key_version >= 2
    Skew,         \* WithSkew, in ticks
    Prefetch,     \* WithPrefetch
    MaxTime,      \* bound on the clock
    MaxSessions   \* bound on the calls of Consume

DeliveryConstants ==
    /\ NoMessage \notin Messages
    /\ NonceOf \in [Messages -> Nonces]
    /\ IssuedAt \in [Nonces -> Int]
    /\ Acceptable \subseteq Messages
    /\ Skew \in Nat \ {0}
    /\ Prefetch \in Nat \ {0}
    /\ MaxTime \in Nat
    /\ MaxSessions \in Nat

VARIABLES
    now,          \* the consumer's clock
    place,        \* where the broker has each message
    open,         \* the channel Consume was given is open
    consuming,    \* Consume has not returned
    sessions,     \* calls of Consume so far
    buffer,       \* deliveries received and not dispatched
    current,      \* the message the handler is running on, or NoMessage
    seen,         \* replayGuard.seen: the expiry of each nonce, 0 when absent
    handled,      \* history: the nonces this Consume call gave its handler
    failing       \* history: messages whose handler last returned a plain error

vars == <<now, place, open, consuming, sessions, buffer, current, seen, handled, failing>>

Init ==
    /\ now = 0
    /\ place = [m \in Messages |-> "ready"]
    /\ open = FALSE /\ consuming = FALSE /\ sessions = 0
    /\ buffer = {}
    /\ current = NoMessage
    /\ seen = [n \in Nonces |-> 0]
    /\ handled = {} /\ failing = {}

Unacked == {m \in Messages : place[m] = "unacked"}

-----------------------------------------------------------------------------
\* A call of Consume on a fresh channel: a new replay guard, nothing buffered.
Start ==
    /\ ~consuming /\ ~open
    /\ sessions < MaxSessions
    /\ consuming' = TRUE /\ open' = TRUE
    /\ sessions' = sessions + 1
    /\ buffer' = {}
    /\ seen' = [n \in Nonces |-> 0]
    /\ handled' = {}
    /\ UNCHANGED <<now, place, current, failing>>

\* The broker pushes a message; the loop's channel takes it while Consume runs.
Deliver(m) ==
    /\ open
    /\ place[m] = "ready"
    /\ Cardinality(Unacked) < Prefetch
    /\ place' = [place EXCEPT ![m] = "unacked"]
    /\ buffer' = IF consuming THEN buffer \union {m} ELSE buffer
    /\ UNCHANGED <<now, open, consuming, sessions, current, seen, handled, failing>>

\* Connection lost, or the caller closes the channel: the broker requeues.
ChannelCloses ==
    /\ open
    /\ open' = FALSE
    /\ place' = [m \in Messages |-> IF m \in Unacked THEN "ready" ELSE place[m]]
    /\ UNCHANGED <<now, consuming, sessions, buffer, current, seen, handled, failing>>

\* The select takes ctx.Done, or the close notification, before a delivery.
ConsumeReturns ==
    /\ consuming /\ current = NoMessage
    /\ consuming' = FALSE
    /\ buffer' = {}
    /\ UNCHANGED <<now, place, open, sessions, current, seen, handled, failing>>

-----------------------------------------------------------------------------
\* |now - issued_at| <= skew
Fresh(n) == now <= IssuedAt[n] + Skew /\ IssuedAt[n] <= now + Skew

ShortTtl == Skew
\* How long a nonce is kept: the width of the freshness window.
Ttl == 2 * Skew

\* replayGuard.prune: an entry stays while now is before its expiry.
Prune == [n \in Nonces |-> IF now < seen[n] THEN seen[n] ELSE 0]

Replayed(m) == Prune[NonceOf[m]] # 0

\* Ack or Nack.  A buffered or running delivery belongs to the channel last
\* opened; once that is closed the answer is an error nobody sees.
Answer(m, outcome) ==
    place' = IF open THEN [place EXCEPT ![m] = outcome] ELSE place

\* Signature, key version or freshness: the nonce table is not consulted.
RefuseOutright(m) ==
    /\ consuming /\ current = NoMessage
    /\ m \in buffer
    /\ ~(m \in Acceptable /\ Fresh(NonceOf[m]))
    /\ buffer' = buffer \ {m}
    /\ Answer(m, "dropped")
    /\ UNCHANGED <<now, open, consuming, sessions, current, seen, handled, failing>>

DropUnheard(m) ==
    /\ consuming /\ current = NoMessage /\ m \in buffer /\ m \in Acceptable
    /\ seen' = Prune /\ buffer' = buffer \ {m} /\ Answer(m, "dropped")
    /\ UNCHANGED <<now, open, consuming, sessions, current, handled, failing>>
\* The nonce is in the table: Nack without requeue.
RefuseReplay(m) ==
    /\ consuming /\ current = NoMessage
    /\ m \in buffer
    /\ m \in Acceptable /\ Fresh(NonceOf[m])
    /\ Replayed(m)
    /\ seen' = Prune
    /\ buffer' = buffer \ {m}
    /\ Answer(m, "dropped")
    /\ UNCHANGED <<now, open, consuming, sessions, current, handled, failing>>

\* The nonce is recorded until now + Ttl and the handler is called.
Admit(m) ==
    /\ consuming /\ current = NoMessage
    /\ m \in buffer
    /\ m \in Acceptable /\ Fresh(NonceOf[m])
    /\ ~Replayed(m)
    /\ seen' = [Prune EXCEPT ![NonceOf[m]] = now + Ttl]
    /\ buffer' = buffer \ {m}
    /\ current' = m
    /\ handled' = handled \union {NonceOf[m]}
    /\ UNCHANGED <<now, place, open, consuming, sessions, failing>>

-----------------------------------------------------------------------------
\* The handler returns.
HandlerDone(outcome) ==
    /\ current # NoMessage
    /\ Answer(current, outcome)
    /\ current' = NoMessage
    /\ UNCHANGED <<now, open, consuming, sessions, buffer, seen, handled>>

Handled == HandlerDone("acked") /\ failing' = failing \ {current}

HandlerDrops == HandlerDone("dropped") /\ failing' = failing \ {current}

NackNever == HandlerDone("unacked") /\ failing' = failing \union {current}
\* A plain error: Nack with requeue.
HandlerFails == HandlerDone("ready") /\ failing' = failing \union {current}

Tick ==
    /\ now < MaxTime
    /\ now' = now + 1
    /\ UNCHANGED <<place, open, consuming, sessions, buffer, current, seen, handled, failing>>

Dispatch == \E m \in Messages : RefuseOutright(m) \/ RefuseReplay(m) \/ Admit(m)
HandlerReturns == Handled \/ HandlerDrops \/ HandlerFails

Next ==
    \/ Start
    \/ \E m \in Messages : Deliver(m)
    \/ ChannelCloses
    \/ ConsumeReturns
    \/ Dispatch
    \/ HandlerReturns
    \/ Tick

Spec == Init /\ [][Next]_vars

\* The broker delivers, the loop drains its channel and the handler returns;
\* nothing makes the channel close, Consume return or anybody call it again.
Fairness ==
    /\ \A m \in Messages : WF_vars(Deliver(m))
    /\ WF_vars(Dispatch)
    /\ WF_vars(HandlerReturns)

FairSpec == Spec /\ Fairness

-----------------------------------------------------------------------------
TypeOK ==
    /\ now \in 0 .. MaxTime
    /\ place \in [Messages -> {"ready", "unacked", "acked", "dropped"}]
    /\ open \in BOOLEAN /\ consuming \in BOOLEAN
    /\ sessions \in 0 .. MaxSessions
    /\ buffer \subseteq Messages
    /\ current \in Messages \union {NoMessage}
    /\ seen \in [Nonces -> 0 .. MaxTime + 2 * Skew]
    /\ handled \subseteq Nonces
    /\ failing \subseteq Messages

\* One Consume call gives its handler each nonce once, whatever is redelivered,
\* copied or pruned in between, with one exception.  A nonce "cannot legitimately
\* recur" once its body has aged out (replay.go:31-34), but a body handed over a
\* whole window before its stamp is still fresh at the instant its nonce expires
\* (inclusive at replay.go:72, pruned at :92): then, and only then, its nonce is
\* handed over again.
HandledOnce ==
    [][\A m \in Messages :
         LET n == NonceOf[m] IN
         current' = m /\ current # m /\ n \in handled => now = IssuedAt[n] + Skew]_vars

\* A dispatched message that verifies and is fresh leaves the queue without the
\* handler's word only when this Consume call has handed its nonce over before
\* (consumer.go:129-140).
DropsAreJustified ==
    [][\A m \in Messages :
         /\ place[m] # "dropped" /\ place'[m] = "dropped"
         /\ m \in Acceptable /\ Fresh(NonceOf[m])
         => NonceOf[m] \in handled]_vars

\* A delivery on a channel that stays open with Consume running is settled, and
\* never left unacknowledged to eat into the prefetch window.
Settles ==
    \A m \in Messages :
        open /\ consuming ~> (place[m] \in {"acked", "dropped"} \/ ~open \/ ~consuming)

\* A plain handler error is transient and retryable (consumer.go:73-78, 140):
\* while the message is fresh only the handler gives it up.
TransientRetried ==
    [][\A m \in failing :
         /\ place[m] # "dropped" /\ place'[m] = "dropped"
         /\ Fresh(NonceOf[m])
         => current = m]_vars
=============================================================================
