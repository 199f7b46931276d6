------------------------------ MODULE AmqpProofs ------------------------------
(***************************************************************************)
(* The two ends of the amqp package: ReactorServe and its replay guard, for *)
(* any messages, window, timeout and number of sessions; and Consume with   *)
(* the guard of its own, which shares no state with the reactor, for any    *)
(* messages, window and interleaving of broker, handler and clock.          *)
(***************************************************************************)
EXTENDS Amqp, TLAPS

(* Each of the two behaves as on its own. *)
LEMMA ServesAlone == AmqpSpec => Spec
<1>1. [ReactorStep \/ ConsumerStep]_amqp => [Next]_vars
  BY DEF amqp, ReactorStep, ConsumerStep, ReactorRests
<1> QED
  BY <1>1, PTL DEF AmqpSpec, AmqpInit, Spec

LEMMA ConsumesAlone == AmqpSpec => Consumer!Spec
<1>1. [ReactorStep \/ ConsumerStep]_amqp => [Consumer!Next]_(Consumer!vars)
  BY DEF amqp, ReactorStep, ConsumerStep, ConsumerRests, consumer, Consumer!vars
<1> QED
  BY <1>1, PTL DEF AmqpSpec, AmqpInit, Consumer!Spec

-----------------------------------------------------------------------------
(* A goroutine judges by a reading of the clock that is not in the future. *)
ReadEarlier ==
    \A s \in Sessions, m \in Messages : task[s][m].started <= now

(* The table keeps a nonce the handler was given for the whole retention, or
   the retention is over. *)
KeptForRetention ==
    \A n \in Nonces : keptUntil[n] <= seen[n] \/ keptUntil[n] <= now

(* Only the session that serves or drains may have goroutines that nobody has
   waited for. *)
OnlyLastRuns ==
    \A s \in Sessions :
        s > session \/ (s = session /\ serving \in {"up", "draining"})
          \/ Running(s) = {} \/ s \in abandoned

(* No goroutine belongs to a session that has not begun. *)
NoneAhead == \A s \in Sessions : s > session => Running(s) = {}

(* A session serves only once it has begun. *)
Serving == serving \in {"up", "draining"} => session # 0

IInv == TypeOK /\ Serving /\ ReadEarlier /\ KeptForRetention /\ OnlyLastRuns /\ NoneAhead
-----------------------------------------------------------------------------
LEMMA InitIInv == Init => IInv
<1> SUFFICES ASSUME Init PROVE IInv
  OBVIOUS
<1> USE ReactorConstants DEF Init
<1>1. task \in [Sessions -> [Messages -> [at : Stages, started : 0 .. MaxTime]]]
  BY DEF Idle, Stages
<1>2. TypeOK
  <2>1. 0 \in 0 .. MaxTime /\ 0 \in 0 .. MaxSessions /\ 0 \in 0 .. MaxTime + 2 * Skew
    OBVIOUS
  <2> QED
    BY <1>1, <2>1 DEF TypeOK
<1>3. \A s \in Sessions : Running(s) = {}
  BY DEF Running
<1> QED
  BY <1>2, <1>3 DEF IInv, ReadEarlier, KeptForRetention, OnlyLastRuns, NoneAhead, Serving, Idle

(* What pruning at a reading of the clock keeps of the table. *)
LEMMA Pruned ==
  ASSUME TypeOK, NEW t \in 0 .. now
  PROVE  /\ Prune(t) \in [Nonces -> 0 .. MaxTime + 2 * Skew]
         /\ \A n \in Nonces : \/ Prune(t)[n] = seen[n]
                              \/ Prune(t)[n] = 0 /\ seen[n] <= now
<1>1. now \in Nat /\ t \in Nat /\ t <= now /\ MaxTime + 2 * Skew \in Nat
  BY ReactorConstants DEF TypeOK
<1>2. \A n \in Nonces : seen[n] \in 0 .. MaxTime + 2 * Skew
  BY DEF TypeOK
<1> QED
  BY <1>1, <1>2 DEF Prune

(* A step of one goroutine, to its next stage or to its end. *)
LEMMA TaskSteps ==
  ASSUME TypeOK, NEW s \in Sessions, NEW m \in Messages, task[s][m].at # "none",
         NEW stage \in Stages,
         \/ task' = [task EXCEPT ![s][m].at = stage]
         \/ task' = [task EXCEPT ![s][m] = Idle]
  PROVE  /\ task' \in [Sessions -> [Messages -> [at : Stages, started : 0 .. MaxTime]]]
         /\ \A r \in Sessions : Running(r)' \subseteq Running(r)
         /\ \A r \in Sessions, k \in Messages :
              task'[r][k].started = task[r][k].started \/ task'[r][k].started = 0
<1>1. task[s][m] \in [at : Stages, started : 0 .. MaxTime] /\ task[s][m] # Idle
  BY DEF TypeOK, Idle
<1>2. Idle \in [at : Stages, started : 0 .. MaxTime]
  BY ReactorConstants DEF Idle, Stages
<1>3. PICK v \in [at : Stages, started : 0 .. MaxTime] :
        /\ task' = [task EXCEPT ![s] = [task[s] EXCEPT ![m] = v]]
        /\ v.started = task[s][m].started \/ v = Idle
  <2>1. CASE task' = [task EXCEPT ![s][m].at = stage]
    <3>1. [task[s][m] EXCEPT !.at = stage] \in [at : Stages, started : 0 .. MaxTime]
      BY <1>1
    <3> QED
      BY <1>1, <2>1, <3>1
  <2>2. CASE task' = [task EXCEPT ![s][m] = Idle]
    BY <1>2, <2>2
  <2> QED
    BY <2>1, <2>2
<1>4. task' \in [Sessions -> [Messages -> [at : Stages, started : 0 .. MaxTime]]]
  BY <1>3 DEF TypeOK
<1>5. \A r \in Sessions, k \in Messages :
        task'[r][k] = IF r = s /\ k = m THEN v ELSE task[r][k]
  BY <1>3 DEF TypeOK
<1> QED
  BY <1>1, <1>3, <1>4, <1>5 DEF Running, Idle

(* What every step of a goroutine keeps, whatever it does to the table. *)
Goroutine(s, m) ==
    /\ UNCHANGED <<now, linked, loop, buffer>>
    /\ place' \in [Messages -> {"ready", "unacked", "acked", "dropped"}]
    /\ task[s][m].at # "none"
    /\ \E stage \in Stages :
         task' = [task EXCEPT ![s][m].at = stage] \/ task' = [task EXCEPT ![s][m] = Idle]

LEMMA GoroutineSteps ==
  ASSUME TypeOK, NEW s \in Sessions, NEW m \in Messages,
         Decode(s, m) \/ HandlerReturns(s, m) \/ Finish(s, m)
  PROVE  Goroutine(s, m)
<1>1. ASSUME NEW outcome \in {"acked", "dropped"}, Settle(s, m, outcome), task[s][m].at # "none"
      PROVE  Goroutine(s, m)
  BY <1>1 DEF Settle, Goroutine, TypeOK, Stages
<1>2. ASSUME NEW stage \in Stages, task' = [task EXCEPT ![s][m].at = stage], task[s][m].at # "none",
             UNCHANGED <<now, broker, loop>>
      PROVE  Goroutine(s, m)
  BY <1>2 DEF Goroutine, TypeOK, broker
<1>3. CASE Decode(s, m)
  BY <1>1, <1>2, <1>3 DEF Decode, RefuseUnverified, RefuseReplay, RefuseMisaddressed, Admit, Begun, Stages
<1>4. CASE HandlerReturns(s, m)
  BY <1>1, <1>2, <1>4 DEF HandlerReturns, NoReply, Answers, Stages
<1>5. CASE Publish(s, m)
  <2>1. (IF Live(s) THEN "replied" ELSE "unsent") \in Stages
    BY DEF Stages
  <2> QED
    BY <1>2, <1>5, <2>1 DEF Publish
<1>6. CASE AckReplied(s, m)
  BY <1>1, <1>6 DEF AckReplied
<1> QED
  BY <1>3, <1>4, <1>5, <1>6 DEF Finish

(* What such a step does to the guard. *)
LEMMA GuardSteps ==
  ASSUME IInv, NEW s \in Sessions, NEW m \in Messages,
         Decode(s, m) \/ HandlerReturns(s, m) \/ Finish(s, m)
  PROVE  /\ seen' \in [Nonces -> 0 .. MaxTime + 2 * Skew]
         /\ keptUntil' \in [Nonces -> 0 .. MaxTime + 2 * Skew]
         /\ \A n \in Nonces : keptUntil'[n] <= seen'[n] \/ keptUntil'[n] <= now
<1> USE ReactorConstants
<1> DEFINE t == Started(s, m)
<1>1. TypeOK /\ NonceOf[m] \in Nonces
  BY DEF IInv
<1>2. t \in 0 .. now /\ t <= MaxTime
  BY <1>1 DEF IInv, ReadEarlier, TypeOK, Started
<1> HIDE DEF t
<1>3. /\ Prune(t) \in [Nonces -> 0 .. MaxTime + 2 * Skew]
      /\ \A n \in Nonces : \/ Prune(t)[n] = seen[n]
                           \/ Prune(t)[n] = 0 /\ seen[n] <= now
  BY <1>1, <1>2, Pruned
<1>4. \A n \in Nonces : keptUntil[n] <= Prune(t)[n] \/ keptUntil[n] <= now
  <2> SUFFICES ASSUME NEW n \in Nonces PROVE keptUntil[n] <= Prune(t)[n] \/ keptUntil[n] <= now
    OBVIOUS
  <2>1. keptUntil[n] \in Nat /\ seen[n] \in Nat /\ now \in Nat
    BY <1>1 DEF TypeOK
  <2>2. keptUntil[n] <= seen[n] \/ keptUntil[n] <= now
    BY DEF IInv, KeptForRetention
  <2>3. Prune(t)[n] = seen[n] \/ seen[n] <= now
    BY <1>3
  <2> QED
    BY <2>1, <2>2, <2>3
<1>5. Retention(s, m) = t + 2 * Skew /\ Retention(s, m) \in 0 .. MaxTime + 2 * Skew
  BY <1>1, <1>2 DEF Retention, TypeOK, t
<1>6. CASE UNCHANGED guard
  BY <1>1, <1>6 DEF guard, IInv, TypeOK, KeptForRetention
<1>7. CASE seen' = Prune(t) /\ keptUntil' = keptUntil
  BY <1>1, <1>3, <1>4, <1>7 DEF TypeOK
<1>8. CASE /\ seen' = [Prune(t) EXCEPT ![NonceOf[m]] = Retention(s, m)]
           /\ \/ keptUntil' = [keptUntil EXCEPT ![NonceOf[m]] = Retention(s, m)]
              \/ keptUntil' = keptUntil /\ Prune(t)[NonceOf[m]] = 0
  <2>1. seen' \in [Nonces -> 0 .. MaxTime + 2 * Skew] /\ keptUntil' \in [Nonces -> 0 .. MaxTime + 2 * Skew]
    BY <1>1, <1>3, <1>5, <1>8 DEF TypeOK
  <2>2. ASSUME NEW n \in Nonces PROVE keptUntil'[n] <= seen'[n] \/ keptUntil'[n] <= now
    <3>1. CASE n # NonceOf[m]
      BY <1>1, <1>3, <1>4, <1>8, <3>1 DEF TypeOK
    <3>2. CASE n = NonceOf[m]
      <4>1. seen'[n] = Retention(s, m)
        BY <1>1, <1>3, <1>8, <3>2
      <4>2. CASE keptUntil'[n] = Retention(s, m)
        BY <1>5, <4>1, <4>2
      <4>3. CASE keptUntil'[n] = keptUntil[n] /\ Prune(t)[n] = 0
        BY <1>1, <1>4, <4>3 DEF TypeOK
      <4> QED
        BY <1>1, <1>8, <3>2, <4>2, <4>3 DEF TypeOK
    <3> QED
      BY <3>1, <3>2
  <2> QED
    BY <2>1, <2>2
<1> QED
  BY <1>6, <1>7, <1>8 DEF Decode, RefuseUnverified, RefuseReplay, RefuseMisaddressed, Admit, HandlerReturns,
     NoReply, Answers, Finish, Publish, AckReplied, Claimed, Claimable, guard, t

LEMMA GoroutineIInv ==
  ASSUME IInv, NEW s \in Sessions, NEW m \in Messages,
         Decode(s, m) \/ HandlerReturns(s, m) \/ Finish(s, m)
  PROVE  IInv'
<1>1. TypeOK
  BY DEF IInv
<1>2. Goroutine(s, m)
  BY <1>1, GoroutineSteps
<1>3. /\ task' \in [Sessions -> [Messages -> [at : Stages, started : 0 .. MaxTime]]]
      /\ \A r \in Sessions : Running(r)' \subseteq Running(r)
      /\ \A r \in Sessions, k \in Messages :
           task'[r][k].started = task[r][k].started \/ task'[r][k].started = 0
  BY <1>1, <1>2, TaskSteps DEF Goroutine
<1>4. /\ seen' \in [Nonces -> 0 .. MaxTime + 2 * Skew]
      /\ keptUntil' \in [Nonces -> 0 .. MaxTime + 2 * Skew]
      /\ \A n \in Nonces : keptUntil'[n] <= seen'[n] \/ keptUntil'[n] <= now
  BY GuardSteps
<1>5. UNCHANGED <<now, linked, serving, session, cancelled, abandoned, buffer>>
  BY <1>2 DEF Goroutine, loop
<1>6. TypeOK'
  BY <1>1, <1>2, <1>3, <1>4, <1>5 DEF TypeOK, Goroutine
<1>7. ReadEarlier' /\ KeptForRetention'
  <2>1. now \in Nat
    BY <1>1, ReactorConstants DEF TypeOK
  <2>2. ReadEarlier'
    BY <1>3, <1>5, <2>1 DEF IInv, ReadEarlier
  <2>3. KeptForRetention'
    BY <1>1, <1>4, <1>5, <2>1 DEF IInv, TypeOK, KeptForRetention
  <2> QED
    BY <2>2, <2>3
<1>8. OnlyLastRuns' /\ NoneAhead' /\ Serving'
  BY <1>3, <1>5 DEF IInv, OnlyLastRuns, NoneAhead, Serving
<1> QED
  BY <1>6, <1>7, <1>8 DEF IInv

LEMMA TakeIInv ==
  ASSUME IInv, NEW m \in Messages, Take(m)
  PROVE  IInv'
<1> USE ReactorConstants
<1>1. /\ TypeOK /\ serving = "up"
      /\ task' = [task EXCEPT ![session][m] = [at |-> "begun", started |-> now]]
      /\ buffer' = buffer \ {m}
      /\ UNCHANGED <<now, place, linked, serving, session, cancelled, abandoned, seen, keptUntil>>
  BY DEF IInv, Take, loop, guard
<1>2. /\ task' \in [Sessions -> [Messages -> [at : Stages, started : 0 .. MaxTime]]]
      /\ \A r \in Sessions, k \in Messages :
           task'[r][k] = IF r = session /\ k = m THEN [at |-> "begun", started |-> now] ELSE task[r][k]
  BY <1>1 DEF TypeOK, Stages
<1>3. TypeOK'
  BY <1>1, <1>2 DEF TypeOK
<1>4. ReadEarlier' /\ KeptForRetention'
  BY <1>1, <1>2 DEF IInv, ReadEarlier, KeptForRetention, TypeOK
<1>5. \A r \in Sessions : r # session => Running(r)' = Running(r)
  BY <1>2 DEF Running
<1>6. OnlyLastRuns' /\ NoneAhead' /\ Serving'
  BY <1>1, <1>5 DEF IInv, OnlyLastRuns, NoneAhead, Serving, TypeOK, Sessions
<1> QED
  BY <1>3, <1>4, <1>6 DEF IInv

LEMMA NextIInv == IInv /\ [Next]_vars => IInv'
<1> SUFFICES ASSUME IInv, [Next]_vars PROVE IInv'
  OBVIOUS
<1> USE ReactorConstants
<1>1. TypeOK
  BY DEF IInv
(* The steps of the broker, the caller and the loop leave every goroutine and
   the guard alone. *)
<1>2. ASSUME UNCHANGED <<task, guard>>, now <= now', TypeOK', Serving',
             session' >= session, abandoned \subseteq abandoned',
             \A s \in Sessions : s <= session' =>
                 \/ s = session' /\ serving' \in {"up", "draining"}
                 \/ Running(s) = {} \/ s \in abandoned'
      PROVE  IInv'
  <2>1. \A s \in Sessions : Running(s)' = Running(s)
    BY <1>2 DEF Running
  <2>2. ReadEarlier' /\ KeptForRetention'
    BY <1>1, <1>2 DEF IInv, ReadEarlier, KeptForRetention, TypeOK, guard
  <2>3. NoneAhead'
    <3>1. session \in Nat /\ session' \in Nat /\ \A s \in Sessions : s \in Nat
      BY <1>1, <1>2 DEF TypeOK, Sessions
    <3> QED
      BY <1>2, <2>1, <3>1 DEF IInv, NoneAhead
  <2>4. OnlyLastRuns'
    BY <1>1, <1>2, <2>1 DEF OnlyLastRuns, TypeOK, Sessions
  <2> QED
    BY <1>2, <2>2, <2>3, <2>4 DEF IInv
<1>3. \A s \in Sessions : s <= session =>
        \/ s = session /\ serving \in {"up", "draining"}
        \/ Running(s) = {} \/ s \in abandoned
  BY <1>1 DEF IInv, OnlyLastRuns, TypeOK, Sessions
<1>4. CASE \/ \E m \in Messages : Deliver(m)
           \/ LinkLost \/ Cancel \/ Tick
  <2>1. TypeOK'
    <3>1. ASSUME NEW m \in Messages, Deliver(m) PROVE TypeOK'
      BY <1>1, <3>1 DEF TypeOK, Deliver, loop, guard
    <3>2. CASE LinkLost
      BY <1>1, <3>2 DEF TypeOK, LinkLost, Unacked, Requeued, loop, guard
    <3>3. CASE Cancel
      BY <1>1, <3>3 DEF TypeOK, Cancel, guard, broker
    <3>4. CASE Tick
      BY <1>1, <3>4 DEF TypeOK, Tick, loop, guard, broker
    <3> QED
      BY <1>4, <3>1, <3>2, <3>3, <3>4
  <2>2. UNCHANGED <<task, guard, serving, session, abandoned>> /\ now <= now' /\ Serving'
    BY <1>1, <1>4 DEF IInv, Serving, TypeOK, Deliver, LinkLost, Cancel, Tick, loop, guard, broker
  <2> QED
    BY <1>1, <1>2, <1>3, <2>1, <2>2 DEF TypeOK
<1>5. ASSUME NEW m \in Messages, Take(m) PROVE IInv'
  BY <1>5, TakeIInv
<1>6. CASE Dial
  <2>1. TypeOK' /\ UNCHANGED <<task, guard, now, abandoned>> /\ session' = session + 1 /\ serving' = "up" /\ Serving'
    BY <1>1, <1>6 DEF Serving, Dial, TypeOK, guard
  <2>2. \A s \in Sessions : s <= session => Running(s) = {} \/ s \in abandoned
    BY <1>3, <1>6 DEF Dial
  <2> QED
    BY <1>1, <1>2, <2>1, <2>2 DEF TypeOK, Sessions
<1>7. CASE LeaveLoop
  <2>1. TypeOK' /\ UNCHANGED <<task, guard, now, abandoned, session>> /\ serving' = "draining" /\ Serving'
    BY <1>1, <1>7 DEF IInv, Serving, LeaveLoop, TypeOK, guard, broker
  <2> QED
    BY <1>1, <1>2, <1>3, <1>7, <2>1 DEF LeaveLoop, TypeOK
<1>8. CASE GracePasses
  <2>1. session \in Sessions
    BY <1>1, <1>8 DEF IInv, GracePasses, Serving, TypeOK, Sessions
  <2>2. /\ TypeOK' /\ UNCHANGED <<task, guard, now, session, serving>>
        /\ abandoned' = abandoned \union {session} /\ Serving'
    BY <1>1, <1>8, <2>1 DEF IInv, Serving, GracePasses, TypeOK, guard, broker
  <2> QED
    BY <1>1, <1>2, <1>3, <2>2 DEF TypeOK
<1>9. CASE SessionEnds
  <2>1. TypeOK' /\ UNCHANGED <<task, guard, now, session, abandoned>> /\ Serving'
    BY <1>1, <1>9 DEF Serving, SessionEnds, TypeOK, Unacked, Requeued, guard
  <2> QED
    BY <1>1, <1>2, <1>3, <1>9, <2>1 DEF SessionEnds, Drained, TypeOK
<1>10. CASE GiveUp
  <2>1. TypeOK' /\ UNCHANGED <<task, guard, now, session, abandoned>> /\ Serving'
    BY <1>1, <1>10 DEF Serving, GiveUp, TypeOK, guard, broker
  <2> QED
    BY <1>1, <1>2, <1>3, <1>10, <2>1 DEF GiveUp, TypeOK
<1>11. ASSUME NEW s \in Sessions, NEW m \in Messages,
              Decode(s, m) \/ HandlerReturns(s, m) \/ Finish(s, m)
       PROVE  IInv'
  BY <1>11, GoroutineIInv
<1>12. CASE UNCHANGED vars
  <2>1. TypeOK' /\ UNCHANGED <<task, guard, now, session, abandoned, serving>> /\ Serving'
    BY <1>1, <1>12 DEF IInv, Serving, vars, TypeOK, guard
  <2> QED
    BY <1>1, <1>2, <1>3, <2>1 DEF TypeOK
<1> QED
  BY <1>4, <1>5, <1>6, <1>7, <1>8, <1>9, <1>10, <1>11, <1>12 DEF Next

LEMMA InductiveIInv == Spec => []IInv
  BY InitIInv, NextIInv, PTL DEF Spec

(* A session begins when the goroutines of the earlier ones are done, or have
   outlasted their grace (reactor.go:360-377). *)
THEOREM DrainedBefore == AmqpSpec => []EarlierDrained
<1>1. IInv => EarlierDrained
  <2> SUFFICES ASSUME IInv, serving = "up", NEW s \in 1 .. session - 1
               PROVE  Running(s) = {} \/ s \in abandoned
    BY DEF IInv, EarlierDrained
  <2>1. s \in Sessions /\ s < session
    BY ReactorConstants DEF IInv, TypeOK, Sessions
  <2> QED
    BY <2>1, ReactorConstants DEF IInv, OnlyLastRuns, TypeOK
<1> QED
  BY <1>1, InductiveIInv, ServesAlone, PTL

(* The handler is not given a nonce again before its retention is over, however
   late a goroutine of whichever session gets to it (reactor_protocol.go:486). *)
THEOREM HandedOverOnce == AmqpSpec => HandedOnce
<1> DEFINE Apart(s, m) ==
      Begun(s, m) /\ task'[s][m].at = "handling" /\ keptUntil[NonceOf[m]] > 0
      => now >= keptUntil[NonceOf[m]]
<1>1. ASSUME IInv, Next, NEW s \in Sessions, NEW m \in Messages,
             Begun(s, m), task'[s][m].at = "handling"
      PROVE  now >= keptUntil[NonceOf[m]]
  <2> USE ReactorConstants DEF IInv
  <2>1. Admit(s, m)
    <3>1. ASSUME NEW r \in Sessions, NEW k \in Messages, r # s \/ k # m, Goroutine(r, k)
          PROVE  FALSE
      <4>1. \E v : task' = [task EXCEPT ![r] = [task[r] EXCEPT ![k] = v]]
        BY <3>1 DEF Goroutine
      <4>2. task'[s][m] = task[s][m]
        BY <1>1, <3>1, <4>1 DEF TypeOK
      <4> QED
        BY <1>1, <4>2 DEF Begun
    <3>2. PICK r \in Sessions, k \in Messages : Decode(r, k) \/ HandlerReturns(r, k) \/ Finish(r, k)
      <4>1. ASSUME NEW k \in Messages, Take(k) PROVE FALSE
        BY <1>1, <4>1 DEF Take, TypeOK, Begun
      <4>2. task' # task
        BY <1>1 DEF Begun
      <4> QED
        BY <1>1, <4>1, <4>2 DEF Next, Deliver, LinkLost, Cancel, Tick, Dial, LeaveLoop, GracePasses, SessionEnds, GiveUp
    <3>3. r = s /\ k = m
      BY <1>1, <3>1, <3>2, GoroutineSteps
    <3>4. ASSUME task' = [task EXCEPT ![s][m] = Idle] PROVE FALSE
      BY <1>1, <3>4 DEF TypeOK, Idle
    <3> QED
      BY <1>1, <3>2, <3>3, <3>4 DEF Decode, RefuseUnverified, RefuseReplay, RefuseMisaddressed, Settle,
         HandlerReturns, NoReply, Answers, Finish, Publish, AckReplied, Begun
  <2>2. Claimable(s, m) /\ NonceOf[m] \in Nonces
    BY <2>1 DEF Admit
  <2>3. Started(s, m) \in 0 .. now /\ now \in Nat
    <3>1. task[s][m].started \in 0 .. MaxTime /\ task[s][m].started <= now /\ now \in Nat
      BY <1>1 DEF ReadEarlier, TypeOK
    <3> QED
      BY <3>1 DEF Started
  <2>4. seen[NonceOf[m]] <= now
    <3>1. Prune(Started(s, m))[NonceOf[m]] = 0
      BY <2>2 DEF Claimable
    <3>2. Prune(Started(s, m))[NonceOf[m]] = seen[NonceOf[m]] \/ seen[NonceOf[m]] <= now
      BY <1>1, <2>2, <2>3, Pruned
    <3> QED
      BY <2>3, <3>1, <3>2
  <2> QED
    <3>1. keptUntil[NonceOf[m]] \in Nat /\ seen[NonceOf[m]] \in Nat
      BY <1>1, <2>2 DEF TypeOK
    <3> QED
      BY <1>1, <2>2, <2>3, <2>4, <3>1 DEF KeptForRetention
<1>2. IInv /\ [Next]_vars =>
        [\A s \in Sessions, m \in Messages : Apart(s, m)]_vars
  BY <1>1
<1> QED
  BY <1>2, InductiveIInv, ServesAlone, PTL DEF Spec, HandedOnce

-----------------------------------------------------------------------------
(* The table holds only what the handler was given. *)
SeenWasHandled == \A n \in Nonces : kept[n] # 0 => n \in handled

(* The handler runs within the Consume call that was given the nonce. *)
RunningWasHandled == current # NoMessage => consuming /\ NonceOf[current] \in handled

(* A nonce given to the handler is in the table until the last tick in which its
   body is fresh, or that tick has come: in that very tick it may have expired. *)
KeptWhileFresh ==
    \A n \in handled :
        \/ kept[n] >= IssuedAt[n] + Skew
        \/ clock >= IssuedAt[n] + Skew

DeliveryInv == Consumer!TypeOK /\ SeenWasHandled /\ KeptWhileFresh

-----------------------------------------------------------------------------
USE ConsumerConstants

LEMMA PruneType ==
  Consumer!TypeOK => Consumer!Prune \in [Nonces -> 0 .. ConsumerTime + 2 * Skew]
  BY DEF Consumer!DeliveryConstants, Consumer!TypeOK, Consumer!Prune

LEMMA DeliveryInit ==
  Consumer!Init => DeliveryInv
<1> SUFFICES ASSUME Consumer!Init PROVE DeliveryInv
  OBVIOUS
<1> USE DEF Consumer!DeliveryConstants, Consumer!Init
<1>1. Consumer!TypeOK
  <2>1. 0 \in 0 .. ConsumerTime /\ 0 \in 0 .. MaxSessions /\ 0 \in 0 .. ConsumerTime + 2 * Skew
    OBVIOUS
  <2> QED
    BY <2>1 DEF Consumer!TypeOK
<1>2. SeenWasHandled /\ KeptWhileFresh
  BY DEF SeenWasHandled, KeptWhileFresh
<1> QED
  BY <1>1, <1>2 DEF DeliveryInv

(* Acknowledgements touch the broker's side alone. *)
LEMMA AnswerType ==
  ASSUME Consumer!TypeOK,
         NEW m \in Messages, NEW outcome \in {"ready", "acked", "dropped"},
         Consumer!Answer(m, outcome)
  PROVE  held' \in [Messages -> {"ready", "unacked", "acked", "dropped"}]
  BY DEF Consumer!TypeOK, Consumer!Answer

(* Pruning keeps what the two conjuncts need. *)
LEMMA PruneKeeps ==
  ASSUME DeliveryInv
  PROVE  /\ \A n \in Nonces : Consumer!Prune[n] # 0 => n \in handled
         /\ \A n \in handled : Consumer!Prune[n] >= IssuedAt[n] + Skew \/ clock >= IssuedAt[n] + Skew
<1> USE DEF Consumer!DeliveryConstants, DeliveryInv, Consumer!TypeOK, Consumer!Prune
<1>1. \A n \in Nonces : Consumer!Prune[n] # 0 => n \in handled
  BY DEF SeenWasHandled
<1>2. ASSUME NEW n \in handled
      PROVE  Consumer!Prune[n] >= IssuedAt[n] + Skew \/ clock >= IssuedAt[n] + Skew
  <2>1. n \in Nonces /\ IssuedAt[n] \in Int /\ kept[n] \in Nat
    OBVIOUS
  <2>2. kept[n] >= IssuedAt[n] + Skew \/ clock >= IssuedAt[n] + Skew
    BY DEF KeptWhileFresh
  <2> QED
    BY <2>1, <2>2
<1> QED
  BY <1>1, <1>2

LEMMA DeliveryType ==
  Consumer!TypeOK /\ [Consumer!Next]_(Consumer!vars) => Consumer!TypeOK'
<1> SUFFICES ASSUME Consumer!TypeOK, [Consumer!Next]_(Consumer!vars) PROVE Consumer!TypeOK'
  OBVIOUS
<1> USE DEF Consumer!DeliveryConstants, Consumer!TypeOK
<1>1. CASE Consumer!Start
  BY <1>1 DEF Consumer!Start
<1>2. ASSUME NEW m \in Messages, Consumer!Deliver(m) PROVE Consumer!TypeOK'
  BY <1>2 DEF Consumer!Deliver
<1>3. CASE Consumer!ChannelCloses
  BY <1>3 DEF Consumer!ChannelCloses, Consumer!Unacked
<1>4. CASE Consumer!ConsumeReturns
  BY <1>4 DEF Consumer!ConsumeReturns
<1>5. ASSUME NEW m \in Messages, Consumer!RefuseOutright(m) PROVE Consumer!TypeOK'
  BY <1>5, AnswerType DEF Consumer!RefuseOutright
<1>6. ASSUME NEW m \in Messages, Consumer!RefuseReplay(m) PROVE Consumer!TypeOK'
  BY <1>6, AnswerType, PruneType DEF Consumer!RefuseReplay
<1>7. ASSUME NEW m \in Messages, Consumer!Admit(m) PROVE Consumer!TypeOK'
  <2>1. kept' \in [Nonces -> 0 .. ConsumerTime + 2 * Skew]
    <3>1. clock + Consumer!Ttl \in 0 .. ConsumerTime + 2 * Skew
      BY DEF Consumer!Ttl
    <3>2. Consumer!Prune \in [Nonces -> 0 .. ConsumerTime + 2 * Skew]
      BY PruneType
    <3> QED
      BY <1>7, <3>1, <3>2 DEF Consumer!Admit
  <2> QED
    BY <1>7, <2>1 DEF Consumer!Admit
<1>8. CASE Consumer!HandlerReturns
  <2>1. current \in Messages
    BY <1>8 DEF Consumer!HandlerReturns, Consumer!Handled, Consumer!HandlerDrops,
           Consumer!HandlerFails, Consumer!HandlerDone
  <2>2. held' \in [Messages -> {"ready", "unacked", "acked", "dropped"}]
    BY <1>8, <2>1, AnswerType DEF Consumer!HandlerReturns, Consumer!Handled,
           Consumer!HandlerDrops, Consumer!HandlerFails, Consumer!HandlerDone
  <2> QED
    BY <1>8, <2>1, <2>2 DEF Consumer!HandlerReturns, Consumer!Handled,
           Consumer!HandlerDrops, Consumer!HandlerFails, Consumer!HandlerDone
<1>9. CASE Consumer!Tick
  BY <1>9 DEF Consumer!Tick
<1>10. CASE UNCHANGED Consumer!vars
  BY <1>10 DEF Consumer!vars
<1> QED
  BY <1>1, <1>2, <1>3, <1>4, <1>5, <1>6, <1>7, <1>8, <1>9, <1>10
     DEF Consumer!Next, Consumer!Dispatch

(* The variables keep their types. *)
THEOREM DeliveryTyped ==
  AmqpSpec => []Consumer!TypeOK
<1>1. Consumer!Init => Consumer!TypeOK
  BY DeliveryInit DEF DeliveryInv
<1> QED
  BY <1>1, DeliveryType, ConsumesAlone, PTL DEF Consumer!Spec

-----------------------------------------------------------------------------
(* Every step but Start, Admit, RefuseReplay and Tick leaves the guard alone. *)
DeliverySteps ==
    \/ Consumer!Start \/ Consumer!Tick
    \/ \E m \in Messages : Consumer!RefuseReplay(m) \/ Consumer!Admit(m)

LEMMA OtherSteps ==
  [Consumer!Next]_(Consumer!vars) => DeliverySteps \/ UNCHANGED <<clock, kept, handled>>
  BY DEF Consumer!Next, DeliverySteps, Consumer!Deliver, Consumer!ChannelCloses,
         Consumer!ConsumeReturns, Consumer!Dispatch, Consumer!RefuseOutright,
         Consumer!HandlerReturns, Consumer!Handled, Consumer!HandlerDrops,
         Consumer!HandlerFails, Consumer!HandlerDone, Consumer!vars

(* What Admit does to the guard. *)
LEMMA AdmitRecords ==
  ASSUME Consumer!TypeOK, NEW m \in Messages, Consumer!Admit(m)
  PROVE  /\ NonceOf[m] \in Nonces /\ Consumer!Fresh(NonceOf[m])
         /\ kept'[NonceOf[m]] = clock + Consumer!Ttl
         /\ \A k \in Nonces : k # NonceOf[m] => kept'[k] = Consumer!Prune[k]
         /\ handled' = handled \union {NonceOf[m]}
         /\ clock' = clock
<1>1. Consumer!Prune \in [Nonces -> 0 .. ConsumerTime + 2 * Skew]
  BY PruneType
<1> QED
  BY <1>1 DEF Consumer!DeliveryConstants, Consumer!Admit

LEMMA NextRunning ==
  Consumer!TypeOK /\ RunningWasHandled /\ [Consumer!Next]_(Consumer!vars) => RunningWasHandled'
<1> SUFFICES ASSUME Consumer!TypeOK, RunningWasHandled, [Consumer!Next]_(Consumer!vars)
             PROVE  RunningWasHandled'
  OBVIOUS
<1> USE DEF RunningWasHandled
<1>1. ASSUME UNCHANGED <<current, consuming, handled>> PROVE RunningWasHandled'
  BY <1>1
<1>2. CASE Consumer!Start \/ Consumer!ConsumeReturns
  BY <1>2 DEF Consumer!Start, Consumer!ConsumeReturns
<1>3. ASSUME NEW m \in Messages, Consumer!Admit(m) PROVE RunningWasHandled'
  BY <1>3, AdmitRecords DEF Consumer!Admit
<1>4. CASE Consumer!HandlerReturns
  BY <1>4 DEF Consumer!HandlerReturns, Consumer!Handled, Consumer!HandlerDrops,
         Consumer!HandlerFails, Consumer!HandlerDone
<1>5. ASSUME NEW m \in Messages,
             Consumer!Deliver(m) \/ Consumer!RefuseOutright(m) \/ Consumer!RefuseReplay(m)
      PROVE  RunningWasHandled'
  BY <1>1, <1>5 DEF Consumer!Deliver, Consumer!RefuseOutright, Consumer!RefuseReplay
<1>6. CASE Consumer!ChannelCloses \/ Consumer!Tick \/ UNCHANGED Consumer!vars
  BY <1>1, <1>6 DEF Consumer!ChannelCloses, Consumer!Tick, Consumer!vars
<1> QED
  BY <1>2, <1>3, <1>4, <1>5, <1>6 DEF Consumer!Next, Consumer!Dispatch

LEMMA NextSeen ==
  Consumer!TypeOK /\ SeenWasHandled /\ [Consumer!Next]_(Consumer!vars) => SeenWasHandled'
<1> SUFFICES ASSUME Consumer!TypeOK, SeenWasHandled, [Consumer!Next]_(Consumer!vars)
             PROVE  SeenWasHandled'
  OBVIOUS
<1> USE DEF SeenWasHandled
<1>1. \A n \in Nonces : Consumer!Prune[n] # 0 => n \in handled
  BY DEF Consumer!Prune
<1>2. CASE UNCHANGED <<clock, kept, handled>>
  BY <1>2
<1>3. CASE Consumer!Start \/ Consumer!Tick
  BY <1>3 DEF Consumer!Start, Consumer!Tick
<1>4. ASSUME NEW m \in Messages, Consumer!RefuseReplay(m) PROVE SeenWasHandled'
  BY <1>1, <1>4 DEF Consumer!RefuseReplay
<1>5. ASSUME NEW m \in Messages, Consumer!Admit(m) PROVE SeenWasHandled'
  BY <1>1, <1>5, AdmitRecords
<1> QED
  BY <1>2, <1>3, <1>4, <1>5, OtherSteps DEF DeliverySteps

(* A fresh, verified message is dropped unheard only when this Consume call has
   handed its nonce over before (consumer.go:129-140). *)
THEOREM DropsJustified ==
  AmqpSpec => DropsAreJustified
<1> DEFINE Inv == Consumer!TypeOK /\ SeenWasHandled /\ RunningWasHandled
           Justified == \A m \in Messages :
             /\ held[m] # "dropped" /\ held'[m] = "dropped"
             /\ m \in Acceptable /\ Consumer!Fresh(NonceOf[m])
             => NonceOf[m] \in handled
<1>1. Consumer!Init => Inv
  BY DeliveryInit DEF DeliveryInv, Consumer!Init, RunningWasHandled
<1>2. Inv /\ [Consumer!Next]_(Consumer!vars) => Inv'
  BY DeliveryType, NextSeen, NextRunning
<1>3. Inv /\ [Consumer!Next]_(Consumer!vars) => Justified
  <2> SUFFICES ASSUME Inv, [Consumer!Next]_(Consumer!vars), NEW m \in Messages,
                      held[m] # "dropped", held'[m] = "dropped",
                      m \in Acceptable, Consumer!Fresh(NonceOf[m])
               PROVE  NonceOf[m] \in handled
    OBVIOUS
  <2> USE DEF Consumer!DeliveryConstants, Consumer!TypeOK
  <2>1. CASE Consumer!HandlerReturns
    <3>1. current = m /\ current # NoMessage
      BY <2>1 DEF Consumer!HandlerReturns, Consumer!Handled, Consumer!HandlerDrops,
             Consumer!HandlerFails, Consumer!HandlerDone, Consumer!Answer
    <3> QED
      BY <3>1 DEF RunningWasHandled
  <2>2. ASSUME NEW k \in Messages, Consumer!RefuseOutright(k) PROVE FALSE
    BY <2>2 DEF Consumer!RefuseOutright, Consumer!Answer
  <2>3. ASSUME NEW k \in Messages, Consumer!RefuseReplay(k) PROVE NonceOf[m] \in handled
    <3>1. k = m /\ Consumer!Prune[NonceOf[m]] # 0
      BY <2>3 DEF Consumer!RefuseReplay, Consumer!Answer, Consumer!Replayed
    <3>2. NonceOf[m] \in Nonces /\ kept[NonceOf[m]] # 0
      BY <3>1 DEF Consumer!Prune
    <3> QED
      BY <3>2 DEF SeenWasHandled
  <2>4. ASSUME NEW k \in Messages, Consumer!Deliver(k) \/ Consumer!Admit(k) PROVE FALSE
    BY <2>4 DEF Consumer!Deliver, Consumer!Admit
  <2>5. CASE \/ Consumer!Start \/ Consumer!ChannelCloses \/ Consumer!ConsumeReturns
             \/ Consumer!Tick \/ UNCHANGED Consumer!vars
    BY <2>5 DEF Consumer!Start, Consumer!ChannelCloses, Consumer!ConsumeReturns,
           Consumer!Tick, Consumer!vars
  <2> QED
    BY <2>1, <2>2, <2>3, <2>4, <2>5 DEF Consumer!Next, Consumer!Dispatch
<1> QED
  BY <1>1, <1>2, <1>3, ConsumesAlone, PTL DEF Consumer!Spec, DropsAreJustified,
     Consumer!DropsAreJustified

-----------------------------------------------------------------------------
LEMMA DeliveryNext ==
  DeliveryInv /\ [Consumer!Next]_(Consumer!vars) => DeliveryInv'
<1> SUFFICES ASSUME DeliveryInv, [Consumer!Next]_(Consumer!vars) PROVE KeptWhileFresh'
  BY DeliveryType, NextSeen DEF DeliveryInv
<1> USE DEF Consumer!DeliveryConstants, DeliveryInv, Consumer!TypeOK
<1>2. CASE UNCHANGED <<clock, kept, handled>>
  BY <1>2 DEF KeptWhileFresh
<1>3. CASE Consumer!Start \/ Consumer!Tick
  BY <1>3 DEF Consumer!Start, Consumer!Tick, KeptWhileFresh
<1>4. ASSUME NEW m \in Messages, Consumer!RefuseReplay(m) PROVE KeptWhileFresh'
  BY <1>4, PruneKeeps DEF Consumer!RefuseReplay, KeptWhileFresh
<1>5. ASSUME NEW m \in Messages, Consumer!Admit(m) PROVE KeptWhileFresh'
  <2> SUFFICES ASSUME NEW k \in handled'
               PROVE  kept'[k] >= IssuedAt[k] + Skew \/ clock' >= IssuedAt[k] + Skew
    BY DEF KeptWhileFresh
  <2>1. CASE k = NonceOf[m]
    BY <2>1, <1>5, AdmitRecords DEF Consumer!Ttl, Consumer!Fresh
  <2>2. CASE k # NonceOf[m]
    BY <2>2, <1>5, AdmitRecords, PruneKeeps
  <2> QED
    BY <2>1, <2>2
<1> QED
  BY <1>2, <1>3, <1>4, <1>5, OtherSteps DEF DeliverySteps

LEMMA DeliveryInductive ==
  AmqpSpec => []DeliveryInv
  BY DeliveryInit, DeliveryNext, ConsumesAlone, PTL DEF Consumer!Spec

(* What a step of the loop needs of the invariant. *)
LEMMA AdmitsOnce ==
  ASSUME DeliveryInv, [Consumer!Next]_(Consumer!vars),
         NEW m \in Messages, current' = m, current # m, NonceOf[m] \in handled
  PROVE  clock = IssuedAt[NonceOf[m]] + Skew
<1> USE DEF Consumer!DeliveryConstants, DeliveryInv, Consumer!TypeOK
<1>1. Consumer!Admit(m)
  BY DEF Consumer!Next, Consumer!Start, Consumer!Deliver, Consumer!ChannelCloses,
         Consumer!ConsumeReturns, Consumer!Dispatch, Consumer!RefuseOutright,
         Consumer!RefuseReplay, Consumer!Admit, Consumer!HandlerReturns, Consumer!Handled,
         Consumer!HandlerDrops, Consumer!HandlerFails, Consumer!HandlerDone, Consumer!Tick,
         Consumer!vars
<1>2. NonceOf[m] \in Nonces /\ Consumer!Fresh(NonceOf[m]) /\ Consumer!Prune[NonceOf[m]] = 0
  BY <1>1 DEF Consumer!Admit, Consumer!Replayed
<1>3. clock <= IssuedAt[NonceOf[m]] + Skew
  BY <1>2 DEF Consumer!Fresh
<1>4. clock >= IssuedAt[NonceOf[m]] + Skew
  BY <1>2, PruneKeeps
<1> QED
  BY <1>2, <1>3, <1>4

(* The handler is given each nonce once by one call of Consume, for any messages,
   stamps and window, but for a body handed over a whole window before its stamp:
   its nonce expires at the last instant of its freshness and may be handed over
   again then (replay.go:31-34 against :72 and :92). *)
THEOREM NonceOnce ==
  AmqpSpec => HandledOnce
<1> DEFINE Once == \A m \in Messages :
             LET n == NonceOf[m] IN
             current' = m /\ current # m /\ n \in handled => clock = IssuedAt[n] + Skew
<1>1. DeliveryInv /\ [Consumer!Next]_(Consumer!vars) => [Once]_(Consumer!vars)
  BY AdmitsOnce
<1> QED
  BY <1>1, DeliveryInductive, ConsumesAlone, PTL DEF Consumer!Spec, HandledOnce, Consumer!HandledOnce
=============================================================================
