-------------------------------- MODULE Amqp --------------------------------
(***************************************************************************)
(* The two ends of the amqp package in one process: ReactorServe, and      *)
(* Consume with a replay guard of its own.  They work on messages of the   *)
(* same kinds and share no state: a behavior exercises one of them, the    *)
(* other at rest in its first state.                                       *)
(***************************************************************************)
EXTENDS AmqpReactor

CONSTANTS
    NoMessage,
    Acceptable,    \* messages the consumer can verify
    Credit,        \* its prefetch
    ConsumerTime   \* bound on its clock

VARIABLES focus, clock, held, open, consuming, sessions, received, current, kept, handled, failing

Consumer == INSTANCE AmqpDelivery WITH
    Prefetch <- Credit, MaxTime <- ConsumerTime,
    now <- clock, place <- held, buffer <- received, seen <- kept

ASSUME ConsumerConstants == Consumer!DeliveryConstants

consumer == <<clock, held, open, consuming, sessions, received, current, kept, handled, failing>>
amqp == <<focus, vars, consumer>>

AmqpInit ==
    /\ focus \in {"reactor", "consumer"}
    /\ Init /\ Consumer!Init

ReactorRests == UNCHANGED <<focus, vars>>
ConsumerRests == UNCHANGED <<focus, consumer>>

ReactorStep == focus = "reactor" /\ Next /\ ConsumerRests
ConsumerStep == focus = "consumer" /\ Consumer!Next /\ ReactorRests

AmqpSpec == AmqpInit /\ [][ReactorStep \/ ConsumerStep]_amqp

\* Each keeps the fairness it has on its own; at rest the consumer owes nothing,
\* and ReactorServe has not been called.
FairAmqpSpec == AmqpSpec /\ Consumer!Fairness /\ (focus = "reactor" => Fairness)

-----------------------------------------------------------------------------
\* replay.go: one call of Consume gives its handler each nonce once, but for a
\* body handed over a whole window before its stamp.
HandledOnce == Consumer!HandledOnce

\* consumer.go:129-140: what verifies and is fresh is dropped only by its
\* handler, or because its nonce was handed over before.
DropsAreJustified == Consumer!DropsAreJustified

\* consumer.go:36-70: a delivery is settled while the channel is open and
\* Consume runs.
ConsumerSettles == Consumer!Settles

\* consumer.go:73-78, 140: a plain handler error is transient and retryable.
TransientRetried == Consumer!TransientRetried
=============================================================================
