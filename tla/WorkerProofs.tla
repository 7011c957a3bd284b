---------------------------- MODULE WorkerProofs ----------------------------
(***************************************************************************)
(* Proofs about Worker for every value of its constants: any number of     *)
(* messages, copies, processes, goroutines and failures.                   *)
(***************************************************************************)
EXTENDS Worker, TLAPS

\* Every variable keeps its type, whatever step the worker takes.
THEOREM TypeCorrect == Spec => []TypeOK
<1>1. Init => TypeOK
  BY NumberAssumption DEF Init, TypeOK, Points
<1>2. TypeOK /\ [Next]_vars => TypeOK'
  <2> SUFFICES ASSUME TypeOK, [Next]_vars PROVE TypeOK'
    OBVIOUS
  <2> USE CarriesAssumption, ProcessOfAssumption, NumberAssumption
      DEF TypeOK, Terminal, Points, Jobs, Fault, Errs, Succeeds, Write, Goto,
          CopyOf, MessageOf, ContextLive
  <2>1. ASSUME NEW c \in Copies, Publish(c) PROVE TypeOK'
    BY <2>1 DEF Publish, database, process, local, observed
  <2>2. ASSUME NEW h \in Handlers, HandlerStep(h) PROVE TypeOK'
    <3>1. ASSUME NEW c \in Copies, Receive(h, c) PROVE TypeOK'
      BY <3>1 DEF Receive, database, process, observed
    <3>2. CASE Acquire(h)
      BY <3>2 DEF Acquire, database, broker, process, observed
    <3>3. CASE ReadStatus(h)
      BY <3>3 DEF ReadStatus, Decided, database, broker, process, observed
    <3>4. CASE InsertClaim(h)
      BY <3>4 DEF InsertClaim, Claimed, broker, process, observed
    <3>5. CASE RereadStatus(h)
      BY <3>5 DEF RereadStatus, Decided, ClaimAfterConflict, database, broker, process, observed
    <3>6. CASE OperatorHandles(h)
      BY <3>6 DEF OperatorHandles, database, broker, process, observed
    <3>7. CASE CallReturns(h)
      BY <3>7 DEF CallReturns, Returns, AfterCall, IsPermanent, database, broker, process, observed
    <3>8. CASE ReleaseClaim(h)
      BY <3>8 DEF ReleaseClaim, Released, broker, process, observed
    <3>9. CASE MarkSent(h)
      BY <3>9 DEF MarkSent, Mark, AfterMark, MarkIfAccepted, broker, process, observed
    <3>10. CASE MarkFailed(h)
      BY <3>10 DEF MarkFailed, Mark, AfterMark, MarkIfAccepted, broker, process, observed
    <3>11. CASE DeadLetter(h)
      BY <3>11 DEF DeadLetter, Claimed, AfterDeadLetter, MarkIfAccepted, database, broker,
                   process, observed
    <3>12. CASE PublishDLQ(h)
      BY <3>12 DEF PublishDLQ, database, process, observed
    <3>13. CASE Ack(h)
      BY <3>13 DEF Ack, Finish, database, process, observed
    <3>14. CASE Nack(h)
      BY <3>14 DEF Nack, Finish, Requeue, database, process, observed
    <3> QED
      BY <2>2, <3>1, <3>2, <3>3, <3>4, <3>5, <3>6, <3>7, <3>8, <3>9, <3>10, <3>11,
         <3>12, <3>13, <3>14 DEF HandlerStep
  <2>3. ASSUME NEW w \in Workers, ProcessStep(w) PROVE TypeOK'
    <3>1. ASSUME ProcessEnds(w), faultsLeft' \in 0 .. MaxFaults PROVE TypeOK'
      BY <3>1 DEF ProcessEnds, Requeue, database, observed
    <3>2. CASE Crash(w)
      BY <3>1, <3>2 DEF Crash
    <3>3. CASE Stop(w)
      BY <3>3 DEF Stop, database, broker, local, observed
    <3>4. CASE Exit(w)
      BY <3>1, <3>4 DEF Exit
    <3>5. CASE LoseConnection(w)
      BY <3>5 DEF LoseConnection, Requeue, database, local, observed
    <3>6. CASE Start(w)
      BY <3>6 DEF Start, database, broker, local, observed
    <3> QED
      BY <2>3, <3>2, <3>3, <3>4, <3>5, <3>6 DEF ProcessStep
  <2>4. CASE UNCHANGED vars
    BY <2>4 DEF vars, database, broker, process, local, observed
  <2> QED
    BY <2>1, <2>2, <2>3, <2>4 DEF Next, Quiescent
<1> QED
  BY <1>1, <1>2, PTL DEF Spec

-----------------------------------------------------------------------------
\* A step of the worker preserves the inductive invariant.  The claim row is
\* deleted only by the goroutine that is alone in the operator call for its
\* message; a final status is kept by the guard of every update.
LEMMA SafetyStep ==
    ASSUME TypeOK, TypeOK', Safety, [Next]_vars
    PROVE  Safety'
<1> USE CarriesAssumption
    DEF TypeOK, Terminal, Jobs, Goto, CopyOf, MessageOf, Safety, OperatorCallExclusive,
        AckedMeansDecided, FailedMeansRejected, DLQAfterDecision, PointsJustified
<1>1. ASSUME NEW c \in Copies, Publish(c) PROVE Safety'
  BY <1>1 DEF Publish, database, process, local, observed
<1>2. ASSUME NEW h \in Handlers, HandlerStep(h) PROVE Safety'
  <2>1. ASSUME NEW c \in Copies, Receive(h, c) PROVE Safety'
    BY <2>1 DEF Receive, database, process, observed
  <2>2. CASE Acquire(h)
    BY <2>2 DEF Acquire, database, broker, observed
  <2>3. CASE ReadStatus(h)
    BY <2>3 DEF ReadStatus, Decided, database, broker, observed
  <2>4. CASE InsertClaim(h)
    BY <2>4, SMTT(30) DEF InsertClaim, Claimed, Write, broker, observed
  <2>5. CASE RereadStatus(h)
    BY <2>5 DEF RereadStatus, Decided, ClaimAfterConflict, database, broker, observed
  <2>6. CASE OperatorHandles(h)
    BY <2>6 DEF OperatorHandles, database, broker, observed
  <2>7. CASE CallReturns(h)
    BY <2>7 DEF CallReturns, Returns, AfterCall, IsPermanent, database, broker, observed
  <2>8. CASE ReleaseClaim(h)
    BY <2>8 DEF ReleaseClaim, Released, broker, observed
  <2>9. CASE MarkSent(h)
    BY <2>9, SMTT(30) DEF MarkSent, Mark, AfterMark, Write, MarkIfAccepted, broker, observed
  <2>10. CASE MarkFailed(h)
    BY <2>10, SMTT(30) DEF MarkFailed, Mark, AfterMark, Write, MarkIfAccepted, broker, observed
  <2>11. CASE DeadLetter(h)
    BY <2>11, SMTT(30) DEF DeadLetter, Claimed, AfterDeadLetter, Write, MarkIfAccepted, database, broker, observed
  <2>12. CASE PublishDLQ(h)
    BY <2>12 DEF PublishDLQ, database, observed
  <2>13. CASE Ack(h)
    BY <2>13 DEF Ack, Finish, database, observed
  <2>14. CASE Nack(h)
    BY <2>14 DEF Nack, Finish, Requeue, database, observed
  <2> QED
    BY <1>2, <2>1, <2>2, <2>3, <2>4, <2>5, <2>6, <2>7, <2>8, <2>9, <2>10, <2>11,
       <2>12, <2>13, <2>14 DEF HandlerStep
<1>3. ASSUME NEW w \in Workers, ProcessStep(w) PROVE Safety'
  <2>1. ASSUME ProcessEnds(w) PROVE Safety'
    BY <2>1 DEF ProcessEnds, Requeue, database, observed
  <2>2. CASE Crash(w)
    BY <2>1, <2>2 DEF Crash
  <2>3. CASE Stop(w)
    BY <2>3 DEF Stop, database, broker, local, observed
  <2>4. CASE Exit(w)
    BY <2>1, <2>4 DEF Exit
  <2>5. CASE LoseConnection(w)
    BY <2>5 DEF LoseConnection, Requeue, database, local, observed
  <2>6. CASE Start(w)
    BY <2>6 DEF Start, database, broker, local, observed
  <2> QED
    BY <1>3, <2>2, <2>3, <2>4, <2>5, <2>6 DEF ProcessStep
<1>4. CASE UNCHANGED vars
  BY <1>4 DEF vars, database, broker, process, local, observed
<1> QED
  BY <1>1, <1>2, <1>3, <1>4 DEF Next, Quiescent

\* The inductive invariant holds in every reachable state.
THEOREM SafetyHolds == Spec => []Safety
<1>1. Init => Safety
  BY DEF Init, Safety, OperatorCallExclusive, AckedMeansDecided, FailedMeansRejected,
         DLQAfterDecision, PointsJustified
<1>2. TypeOK /\ TypeOK' /\ Safety /\ [Next]_vars => Safety'
  BY SafetyStep
<1> QED
  BY <1>1, <1>2, TypeCorrect, PTL DEF Spec

\* At no time are two goroutines in the operator call for one message.
THEOREM OperatorCallExclusiveHolds == Spec => []OperatorCallExclusive
BY SafetyHolds, PTL DEF Safety

\* No failure makes the queue lose a message that is still undecided.
THEOREM AckedMeansDecidedHolds == Spec => []AckedMeansDecided
BY SafetyHolds, PTL DEF Safety

\* `failed` is recorded only for messages the operator refused.
THEOREM FailedMeansRejectedHolds == Spec => []FailedMeansRejected
BY SafetyHolds, PTL DEF Safety

\* sms.dlq never gets a copy of an undecided message.
THEOREM DLQAfterDecisionHolds == Spec => []DLQAfterDecision
BY SafetyHolds, PTL DEF Safety

\* No step of any goroutine overwrites a final status.
THEOREM DecisionIsFinalHolds == Spec => DecisionIsFinal
<1>1. ASSUME TypeOK, [Next]_vars
      PROVE  [\A m \in Messages : status[m] \in Terminal => status'[m] = status[m]]_vars
  <2> SUFFICES ASSUME Next, NEW m \in Messages, status[m] \in Terminal
               PROVE  status'[m] = status[m]
    BY <1>1
  <2> USE <1>1 DEF TypeOK, Terminal
  <2>1. ASSUME NEW h \in Handlers, HandlerStep(h) PROVE status'[m] = status[m]
    <3>1. CASE UNCHANGED status
      BY <3>1
    <3>2. CASE MarkSent(h) \/ MarkFailed(h) \/ DeadLetter(h)
      BY <3>2 DEF MarkSent, MarkFailed, Mark, DeadLetter, MarkIfAccepted, database
    <3> QED
      BY <2>1, <3>1, <3>2 DEF HandlerStep, Receive, Acquire, ReadStatus, InsertClaim,
         RereadStatus, OperatorHandles, CallReturns, ReleaseClaim, PublishDLQ, Ack,
         Nack, Finish, database
  <2>2. ASSUME NEW w \in Workers, ProcessStep(w) PROVE status'[m] = status[m]
    BY <2>2 DEF ProcessStep, Crash, Stop, Exit, LoseConnection, Start, ProcessEnds, database
  <2>3. ASSUME NEW c \in Copies, Publish(c) PROVE status'[m] = status[m]
    BY <2>3 DEF Publish, database
  <2> QED
    BY <2>1, <2>2, <2>3 DEF Next, Quiescent, vars, database
<1> QED
  BY <1>1, TypeCorrect, PTL DEF Spec, DecisionIsFinal

-----------------------------------------------------------------------------
\* A step of a goroutine between taking a copy and answering for it.
LEMMA HoldersStay ==
    ASSUME TypeOK, TypeOK', UnackedIsHeld,
           UNCHANGED <<where, up, connected, job>>,
           \A h \in Handlers : pc'[h] = "idle" <=> pc[h] = "idle"
    PROVE  UnackedIsHeld'
<1>1. \A h \in Handlers, c \in Copies : Holds(h, c)' <=> Holds(h, c)
  BY DEF Holds, CopyOf
<1> QED
  BY <1>1 DEF UnackedIsHeld

LEMMA WorkingStays ==
    ASSUME TypeOK, TypeOK', UnackedIsHeld, NEW h \in Handlers,
           \/ Acquire(h) \/ ReadStatus(h) \/ InsertClaim(h) \/ RereadStatus(h)
           \/ OperatorHandles(h) \/ CallReturns(h) \/ ReleaseClaim(h)
           \/ MarkSent(h) \/ MarkFailed(h) \/ DeadLetter(h) \/ PublishDLQ(h)
    PROVE  UnackedIsHeld'
<1>1. /\ UNCHANGED <<where, up, connected, job>>
      /\ pc[h] # "idle" /\ (pc' = pc \/ \E p \in Points \ {"idle"} : pc' = [pc EXCEPT ![h] = p])
  <2> USE DEF Points, Goto, database, broker, process
  <2>1. CASE Acquire(h) \/ ReadStatus(h) \/ InsertClaim(h) \/ RereadStatus(h)
    BY <2>1 DEF Acquire, ReadStatus, InsertClaim, RereadStatus, ClaimAfterConflict
  <2>2. CASE OperatorHandles(h) \/ CallReturns(h) \/ ReleaseClaim(h)
    BY <2>2 DEF OperatorHandles, CallReturns, AfterCall, ReleaseClaim
  <2>3. CASE MarkSent(h) \/ MarkFailed(h)
    BY <2>3 DEF MarkSent, MarkFailed, Mark, AfterMark
  <2>4. CASE DeadLetter(h) \/ PublishDLQ(h)
    BY <2>4 DEF DeadLetter, AfterDeadLetter, PublishDLQ
  <2> QED
    BY <2>1, <2>2, <2>3, <2>4
<1>2. \A g \in Handlers : pc'[g] = "idle" <=> pc[g] = "idle"
  BY <1>1 DEF TypeOK
<1> QED
  BY <1>1, <1>2, HoldersStay

\* The goroutine that takes a copy is the first to have it: while it was in the
\* queue, nobody held it.
LEMMA ReceiveHolds ==
    ASSUME TypeOK, TypeOK', UnackedIsHeld, NEW h \in Handlers, NEW c \in Copies, Receive(h, c)
    PROVE  UnackedIsHeld'
<1> USE ProcessOfAssumption DEF TypeOK
<1>1. \A g \in Handlers : ~Holds(g, c)
  BY DEF UnackedIsHeld, Receive
<1>2. /\ pc[h] = "idle" /\ up[ProcessOf[h]] # "down" /\ connected[ProcessOf[h]]
      /\ where' = [where EXCEPT ![c] = "unacked"] /\ pc' = [pc EXCEPT ![h] = "waiting"]
      /\ job' = [job EXCEPT ![h] = [copy |-> c, redelivered |-> redelivered[c]]]
      /\ UNCHANGED <<up, connected>>
  BY DEF Receive, Goto, process
<1>3. \A g \in Handlers, d \in Copies : Holds(g, d)' <=> Holds(g, d) \/ (g = h /\ d = c)
  BY <1>2 DEF Holds, CopyOf
<1>4. \A d \in Copies : ~Holds(h, d)
  BY <1>2 DEF Holds
<1> QED
  BY <1>1, <1>2, <1>3, <1>4 DEF UnackedIsHeld

\* The answer takes the copy from RabbitMQ's list if the goroutine held it, and
\* has no effect if it did not.
LEMMA AnswerHolds ==
    ASSUME TypeOK, TypeOK', UnackedIsHeld, NEW h \in Handlers, Ack(h) \/ Nack(h)
    PROVE  UnackedIsHeld'
<1> USE ProcessOfAssumption DEF TypeOK
<1>1. /\ pc[h] # "idle" /\ pc' = [pc EXCEPT ![h] = "idle"] /\ job' = [job EXCEPT ![h] = NoJob]
      /\ UNCHANGED <<up, connected>>
  BY DEF Ack, Nack, Finish, Goto, process
<1>2. job[h] \in Jobs /\ CopyOf(h) \in Copies
  BY <1>1 DEF Jobs, CopyOf
<1>3. \A d \in Copies : where'[d] = "unacked" <=>
                            where[d] = "unacked" /\ ~(connected[ProcessOf[h]] /\ d = CopyOf(h))
  BY <1>2 DEF Ack, Nack, Finish, Requeue
<1>4. \A g \in Handlers, d \in Copies : Holds(g, d)' <=> Holds(g, d) /\ g # h
  BY <1>1 DEF Holds, CopyOf
<1>5. \A d \in Copies : Holds(h, d) <=> connected[ProcessOf[h]] /\ d = CopyOf(h)
  BY <1>1 DEF Holds
<1> QED
  BY <1>1, <1>3, <1>4, <1>5 DEF UnackedIsHeld

\* What a process had over its connection is requeued with it, and nothing else.
LEMMA ConnectionEndHolds ==
    ASSUME TypeOK, TypeOK', UnackedIsHeld, NEW w \in Workers,
           connected' = [connected EXCEPT ![w] = FALSE], Requeue(Unacked(w)),
           \A h \in Handlers : ProcessOf[h] # w => pc'[h] = pc[h] /\ job'[h] = job[h],
           \A h \in Handlers : up'[ProcessOf[h]] = "down" => pc'[h] = "idle"
    PROVE  UnackedIsHeld'
<1> USE ProcessOfAssumption DEF TypeOK
<1>1. \A d \in Copies : d \in Unacked(w) <=> \E h \in Handlers : ProcessOf[h] = w /\ Holds(h, d)
  BY DEF Unacked, Holds
<1>2. \A d \in Copies : where'[d] = IF d \in Unacked(w) THEN "ready" ELSE where[d]
  BY DEF Requeue
<1>3. \A g \in Handlers, d \in Copies : Holds(g, d)' <=> Holds(g, d) /\ ProcessOf[g] # w
  BY DEF Holds, CopyOf
<1>4. \A d \in Copies : where'[d] = "unacked" <=> \E h \in Handlers : Holds(h, d) /\ ProcessOf[h] # w
  BY <1>1, <1>2 DEF UnackedIsHeld
<1> QED
  BY <1>3, <1>4 DEF UnackedIsHeld

LEMMA ProcessHolds ==
    ASSUME TypeOK, TypeOK', UnackedIsHeld, NEW w \in Workers, ProcessStep(w)
    PROVE  UnackedIsHeld'
<1> USE ProcessOfAssumption DEF TypeOK
<1>1. CASE ProcessEnds(w)
  <2>1. /\ connected' = [connected EXCEPT ![w] = FALSE] /\ Requeue(Unacked(w))
        /\ up' = [up EXCEPT ![w] = "down"]
        /\ pc' = [h \in Handlers |-> IF ProcessOf[h] = w THEN "idle" ELSE pc[h]]
        /\ job' = [h \in Handlers |-> IF ProcessOf[h] = w THEN NoJob ELSE job[h]]
    BY <1>1 DEF ProcessEnds
  <2>2. \A h \in Handlers : up'[ProcessOf[h]] = "down" => pc'[h] = "idle"
    BY <2>1 DEF UnackedIsHeld
  <2>3. \A h \in Handlers : ProcessOf[h] # w => pc'[h] = pc[h] /\ job'[h] = job[h]
    BY <2>1
  <2> QED
    BY <2>1, <2>2, <2>3, ConnectionEndHolds
<1>2. CASE LoseConnection(w)
  <2>1. /\ connected' = [connected EXCEPT ![w] = FALSE] /\ Requeue(Unacked(w))
        /\ UNCHANGED <<up, pc, job>>
    BY <1>2 DEF LoseConnection, local
  <2> QED
    BY <2>1, ConnectionEndHolds DEF UnackedIsHeld
<1>3. CASE Stop(w)
  <2>1. up' = [up EXCEPT ![w] = "stopping"] /\ UNCHANGED <<where, connected, pc, job>>
    BY <1>3 DEF Stop, broker, local
  <2>2. \A h \in Handlers, c \in Copies : Holds(h, c)' <=> Holds(h, c)
    BY <2>1 DEF Holds, CopyOf
  <2> QED
    BY <2>1, <2>2 DEF UnackedIsHeld
<1>4. CASE Start(w)
  <2>1. /\ up[w] = "down" /\ up' = [up EXCEPT ![w] = "running"]
        /\ connected' = [connected EXCEPT ![w] = TRUE] /\ UNCHANGED <<where, pc, job>>
    BY <1>4 DEF Start, broker, local
  <2>2. \A h \in Handlers : ProcessOf[h] = w => pc[h] = "idle"
    BY <2>1 DEF UnackedIsHeld
  <2>3. \A h \in Handlers, c \in Copies : Holds(h, c)' <=> Holds(h, c)
    BY <2>1, <2>2 DEF Holds, CopyOf
  <2> QED
    BY <2>1, <2>3 DEF UnackedIsHeld
<1> QED
  BY <1>1, <1>2, <1>3, <1>4 DEF ProcessStep, Crash, Exit

\* Every delivered copy is in the hands of one goroutine, which alone can answer.
THEOREM UnackedIsHeldHolds == Spec => []UnackedIsHeld
<1>1. Init => UnackedIsHeld
  BY DEF Init, UnackedIsHeld, Holds
<1>2. TypeOK /\ TypeOK' /\ UnackedIsHeld /\ [Next]_vars => UnackedIsHeld'
  <2> SUFFICES ASSUME TypeOK, TypeOK', UnackedIsHeld, [Next]_vars PROVE UnackedIsHeld'
    OBVIOUS
  <2>1. ASSUME NEW c \in Copies, Publish(c) PROVE UnackedIsHeld'
    <3>1. /\ where[c] = "outbox" /\ where' = [where EXCEPT ![c] = "ready"]
          /\ UNCHANGED <<up, connected, pc, job>>
      BY <2>1 DEF Publish, process, local
    <3>2. \A h \in Handlers, d \in Copies : Holds(h, d)' <=> Holds(h, d)
      BY <3>1 DEF Holds, CopyOf
    <3> QED
      BY <3>1, <3>2 DEF UnackedIsHeld, TypeOK
  <2>2. ASSUME NEW h \in Handlers, HandlerStep(h) PROVE UnackedIsHeld'
    BY <2>2, ReceiveHolds, WorkingStays, AnswerHolds DEF HandlerStep
  <2>3. CASE UNCHANGED vars
    BY <2>3, HoldersStay DEF vars, broker, process, local
  <2> QED
    BY <2>1, <2>2, <2>3, ProcessHolds DEF Next, Quiescent
<1> QED
  BY <1>1, <1>2, TypeCorrect, PTL DEF Spec

-----------------------------------------------------------------------------
\* The claim row has one owner until the answer of the operator is written down,
\* and after that none; who takes the claim over does so beside the owner.
LEMMA ClaimOwnedStep ==
    ASSUME TypeOK, TypeOK', Safety, ClaimOwned, [Next]_vars
    PROVE  ClaimOwned'
<1> USE CarriesAssumption
    DEF TypeOK, Jobs, Goto, CopyOf, MessageOf, ClaimOwned, Owning, Settled
<1>1. ASSUME NEW c \in Copies, Publish(c) PROVE ClaimOwned'
  BY <1>1 DEF Publish, database, process, local, observed
<1>2. ASSUME NEW h \in Handlers, HandlerStep(h) PROVE ClaimOwned'
  <2>1. ASSUME NEW c \in Copies, Receive(h, c) PROVE ClaimOwned'
    BY <2>1 DEF Receive, database, process, observed
  <2>2. CASE Acquire(h)
    BY <2>2 DEF Acquire, database, broker, observed
  <2>3. CASE ReadStatus(h)
    BY <2>3, SMTT(30) DEF ReadStatus, database, broker, observed
  <2>4. CASE InsertClaim(h)
    BY <2>4, SMTT(30) DEF InsertClaim, Claimed, Write, Safety, PointsJustified, broker, observed
  <2>5. CASE RereadStatus(h)
    BY <2>5 DEF RereadStatus, ClaimAfterConflict, database, broker
  <2>6. CASE OperatorHandles(h)
    BY <2>6 DEF OperatorHandles, database, broker
  <2>7. CASE CallReturns(h)
    BY <2>7 DEF CallReturns, Returns, AfterCall, IsPermanent, database, broker, observed
  <2>8. CASE ReleaseClaim(h)
    BY <2>8 DEF ReleaseClaim, Released, broker, observed
  <2>9. CASE MarkSent(h)
    BY <2>9 DEF MarkSent, Mark, AfterMark, Write, MarkIfAccepted, broker, observed
  <2>10. CASE MarkFailed(h)
    BY <2>10 DEF MarkFailed, Mark, AfterMark, Write, MarkIfAccepted, broker, observed
  <2>11. CASE DeadLetter(h)
    BY <2>11 DEF DeadLetter, Claimed, AfterDeadLetter, Write, MarkIfAccepted, database, broker, observed
  <2>12. CASE PublishDLQ(h)
    BY <2>12, SMTT(30) DEF PublishDLQ, database, observed
  <2>13. CASE Ack(h)
    BY <2>13 DEF Ack, Finish, database, observed
  <2>14. CASE Nack(h)
    BY <2>14 DEF Nack, Finish, database, observed
  <2> QED
    BY <1>2, <2>1, <2>2, <2>3, <2>4, <2>5, <2>6, <2>7, <2>8, <2>9, <2>10, <2>11,
       <2>12, <2>13, <2>14 DEF HandlerStep
<1>3. ASSUME NEW w \in Workers, ProcessStep(w) PROVE ClaimOwned'
  <2>1. ASSUME ProcessEnds(w) PROVE ClaimOwned'
    BY <2>1 DEF ProcessEnds, database, observed
  <2>2. CASE Crash(w)
    BY <2>1, <2>2 DEF Crash
  <2>3. CASE Stop(w)
    BY <2>3 DEF Stop, database, broker, local, observed
  <2>4. CASE Exit(w)
    BY <2>1, <2>4 DEF Exit
  <2>5. CASE LoseConnection(w)
    BY <2>5 DEF LoseConnection, database, local, observed
  <2>6. CASE Start(w)
    BY <2>6 DEF Start, database, broker, local, observed
  <2> QED
    BY <1>3, <2>2, <2>3, <2>4, <2>5, <2>6 DEF ProcessStep
<1>4. CASE UNCHANGED vars
  BY <1>4 DEF vars, database, broker, process, local, observed
<1> QED
  BY <1>1, <1>2, <1>3, <1>4 DEF Next, Quiescent

LEMMA ClaimOwnedHolds == Spec => []ClaimOwned
<1>1. Init => ClaimOwned
  BY DEF Init, ClaimOwned, Owning, Settled
<1>2. TypeOK /\ TypeOK' /\ Safety /\ ClaimOwned /\ [Next]_vars => ClaimOwned'
  BY ClaimOwnedStep
<1> QED
  BY <1>1, <1>2, TypeCorrect, SafetyHolds, PTL DEF Spec

-----------------------------------------------------------------------------
\* What has disturbed the deliveries of a message is never undone.
LEMMA DisturbedStays ==
    ASSUME TypeOK, TypeOK', [Next]_vars, NEW m \in Messages, Disturbed(m)
    PROVE  Disturbed(m)'
<1>1. faultsLeft' <= faultsLeft
  <2> USE DEF TypeOK, Fault, Errs, Succeeds, Write
  <2>1. ASSUME NEW h \in Handlers, HandlerStep(h) PROVE faultsLeft' <= faultsLeft
    BY <2>1 DEF HandlerStep, Receive, Acquire, ReadStatus, InsertClaim, RereadStatus,
         OperatorHandles, CallReturns, Returns, ReleaseClaim, MarkSent, MarkFailed, Mark,
         DeadLetter, PublishDLQ, Ack, Nack, Finish
  <2>2. ASSUME NEW w \in Workers, ProcessStep(w) PROVE faultsLeft' <= faultsLeft
    BY <2>2 DEF ProcessStep, Crash, Stop, Exit, LoseConnection, Start
  <2> QED
    BY <2>1, <2>2 DEF Next, Publish, Quiescent, vars
<1>2. \A c \in Copies : where[c] # "outbox" => where'[c] # "outbox"
  <2> USE DEF TypeOK
  <2>1. ASSUME NEW h \in Handlers, HandlerStep(h), NEW c \in Copies, where[c] # "outbox"
        PROVE  where'[c] # "outbox"
    BY <2>1 DEF HandlerStep, Receive, Acquire, ReadStatus, InsertClaim, RereadStatus,
         OperatorHandles, CallReturns, ReleaseClaim, MarkSent, MarkFailed, Mark,
         DeadLetter, PublishDLQ, Ack, Nack, Finish, Requeue, broker
  <2>2. ASSUME NEW w \in Workers, ProcessStep(w), NEW c \in Copies, where[c] # "outbox"
        PROVE  where'[c] # "outbox"
    BY <2>2 DEF ProcessStep, Crash, Stop, Exit, LoseConnection, Start, ProcessEnds, Requeue, broker
  <2> QED
    BY <2>1, <2>2 DEF Next, Publish, Quiescent, vars, broker
<1> QED
  BY <1>1, <1>2, NumberAssumption DEF Disturbed, TypeOK

\* The first delivery of an undisturbed message is the only one: its goroutine
\* finds no claim, so nobody takes one over.
LEMMA CalmStep ==
    ASSUME TypeOK, TypeOK', Safety, UnackedIsHeld, Calm, [Next]_vars
    PROVE  Calm'
<1> DEFINE Fresh(m) == \A c \in Copies : Carries[c] = m => where[c] \in {"outbox", "ready"}
           Working(h, m) == pc[h] # "idle" /\ MessageOf(h) = m
           First(h, m) == /\ ~job[h].redelivered
                          /\ answer[h] # "error"
                          /\ pc[h] \in {"waiting", "readStatus", "insertClaim", "calling",
                                        "markSent", "markFailed", "ack"}
                          /\ pc[h] \in {"waiting", "readStatus", "insertClaim"}
                               => m \notin processed
           CalmFor(m) == /\ m \notin resumed
                         /\ \A w \in Workers : up[w] = "running" /\ connected[w]
                         /\ \A c \in Copies : Carries[c] = m => ~redelivered[c]
                         /\ Fresh(m) => m \notin processed
                         /\ \A h \in Handlers : Working(h, m) => First(h, m)
<1> SUFFICES ASSUME NEW m \in Messages, ~Disturbed(m)' PROVE CalmFor(m)'
  BY DEF Calm
<1>1. ~Disturbed(m)
  <2> SUFFICES ASSUME Disturbed(m) PROVE Disturbed(m)'
    OBVIOUS
  <2> QED
    BY DisturbedStays
<1>2. CalmFor(m)
  BY <1>1 DEF Calm
<1>3. faultsLeft = MaxFaults /\ faultsLeft' = MaxFaults
  <2>1. ~(faultsLeft < MaxFaults) /\ ~(faultsLeft' < MaxFaults)
    BY <1>1 DEF Disturbed
  <2>2. faultsLeft \in 0 .. MaxFaults /\ faultsLeft' \in 0 .. MaxFaults
    BY DEF TypeOK
  <2> QED
    BY <2>1, <2>2, NumberAssumption
<1>4. ASSUME NEW c \in Copies, NEW d \in Copies, Carries[c] = m, where[c] # "outbox",
             Carries[d] = m, where[d] # "outbox"
      PROVE  c = d
  BY <1>1, <1>4 DEF Disturbed
<1> USE CarriesAssumption, ProcessOfAssumption, NumberAssumption DEF TypeOK, Jobs
<1>5. ASSUME NEW h \in Handlers, Working(h, m)
      PROVE  /\ CopyOf(h) \in Copies /\ where[CopyOf(h)] = "unacked"
             /\ \A g \in Handlers : Working(g, m) => g = h
  <2>1. \A g \in Handlers : Working(g, m) => /\ CopyOf(g) \in Copies /\ Carries[CopyOf(g)] = m
                                              /\ Holds(g, CopyOf(g))
    BY <1>2 DEF Holds, CopyOf, MessageOf
  <2>2. \A g \in Handlers : Working(g, m) => where[CopyOf(g)] = "unacked"
    BY <2>1 DEF UnackedIsHeld
  <2>3. \A g \in Handlers : Working(g, m) => CopyOf(g) = CopyOf(h)
    BY <1>4, <1>5, <2>1, <2>2
  <2> QED
    BY <1>5, <2>1, <2>2, <2>3 DEF UnackedIsHeld
<1>6. ASSUME NEW c \in Copies, Publish(c) PROVE CalmFor(m)'
  BY <1>2, <1>6 DEF Publish, database, process, local, observed, MessageOf
<1>7. ASSUME NEW h \in Handlers, HandlerStep(h) PROVE CalmFor(m)'
  <2>1. UNCHANGED <<up, connected>>
    BY <1>7 DEF HandlerStep, Receive, Acquire, ReadStatus, InsertClaim, RereadStatus,
         OperatorHandles, CallReturns, ReleaseClaim, MarkSent, MarkFailed, Mark, DeadLetter,
         PublishDLQ, Ack, Nack, Finish, process
  <2>2. \A g \in Handlers : g # h => pc'[g] = pc[g] /\ job'[g] = job[g] /\ answer'[g] = answer[g]
    BY <1>7 DEF HandlerStep, Receive, Acquire, ReadStatus, InsertClaim, RereadStatus, Goto,
         OperatorHandles, CallReturns, ReleaseClaim, MarkSent, MarkFailed, Mark, DeadLetter,
         PublishDLQ, Ack, Nack, Finish
  <2>3. CASE pc[h] # "idle" /\ MessageOf(h) # m
    <3>1. /\ m \in processed' <=> m \in processed
          /\ m \in resumed' <=> m \in resumed
          /\ \A c \in Copies : Carries[c] = m => where'[c] = where[c] /\ redelivered'[c] = redelivered[c]
          /\ ~Working(h, m)'
      <4> USE <2>3 DEF MessageOf, CopyOf
      <4>1. m \in processed' <=> m \in processed
        BY <1>7 DEF HandlerStep, Receive, Acquire, ReadStatus, InsertClaim, Claimed, RereadStatus,
             OperatorHandles, CallReturns, ReleaseClaim, Released, MarkSent, MarkFailed, Mark,
             DeadLetter, PublishDLQ, Ack, Nack, Finish, database
      <4>2. m \in resumed' <=> m \in resumed
        BY <1>7 DEF HandlerStep, Receive, Acquire, ReadStatus, InsertClaim, RereadStatus,
             OperatorHandles, CallReturns, ReleaseClaim, MarkSent, MarkFailed, Mark,
             DeadLetter, PublishDLQ, Ack, Nack, Finish, observed
      <4>3. \A c \in Copies : Carries[c] = m => where'[c] = where[c] /\ redelivered'[c] = redelivered[c]
        BY <1>7 DEF HandlerStep, Receive, Acquire, ReadStatus, InsertClaim, RereadStatus,
             OperatorHandles, CallReturns, ReleaseClaim, MarkSent, MarkFailed, Mark,
             DeadLetter, PublishDLQ, Ack, Nack, Finish, Requeue, broker
      <4>4. ~Working(h, m)'
        BY <1>7 DEF HandlerStep, Receive, Acquire, ReadStatus, InsertClaim, RereadStatus,
             OperatorHandles, CallReturns, ReleaseClaim, MarkSent, MarkFailed, Mark,
             DeadLetter, PublishDLQ, Ack, Nack, Finish, Goto
      <4> QED
        BY <4>1, <4>2, <4>3, <4>4
    <3> QED
      BY <1>2, <2>1, <2>2, <3>1 DEF MessageOf
  <2>4. ASSUME NEW c \in Copies, Receive(h, c) PROVE CalmFor(m)'
    <3>1. /\ pc[h] = "idle" /\ where[c] = "ready" /\ where' = [where EXCEPT ![c] = "unacked"]
          /\ pc' = [pc EXCEPT ![h] = "waiting"] /\ answer' = answer
          /\ job' = [job EXCEPT ![h] = [copy |-> c, redelivered |-> redelivered[c]]]
          /\ UNCHANGED <<processed, redelivered, resumed>>
      BY <2>4 DEF Receive, Goto, database, observed
    <3>2. CASE Carries[c] = m
      <4>1. m \notin processed
        <5>1. \A d \in Copies : Carries[d] = m => where[d] \in {"outbox", "ready"}
          BY <1>4, <3>1, <3>2
        <5> QED
          BY <5>1, <1>2
      <4>2. ~Fresh(m)'
        BY <3>1, <3>2
      <4>3. answer[h] = "none"
        BY <3>1 DEF Safety, PointsJustified
      <4> QED
        BY <1>2, <2>1, <2>2, <3>1, <3>2, <4>1, <4>2, <4>3 DEF MessageOf
    <3>3. CASE Carries[c] # m
      BY <1>2, <2>1, <2>2, <3>1, <3>3 DEF MessageOf
    <3> QED
      BY <3>2, <3>3
  <2>5. CASE Working(h, m)
    <3>1. /\ m \notin resumed /\ Working(h, m) /\ First(h, m)
          /\ CopyOf(h) \in Copies /\ Carries[CopyOf(h)] = m
          /\ where[CopyOf(h)] = "unacked" /\ ContextLive(h) /\ connected[ProcessOf[h]]
          /\ \A g \in Handlers : Working(g, m) => g = h
      BY <1>2, <1>5, <2>5 DEF ContextLive, MessageOf, CopyOf
    <3>2. SUFFICES /\ m \notin resumed'
                   /\ UNCHANGED redelivered
                   /\ where' = where \/ where' = [where EXCEPT ![CopyOf(h)] = "gone"]
                   /\ Working(h, m)' => job' = job /\ First(h, m)'
      BY <1>2, <2>1, <2>2, <3>1 DEF MessageOf
    <3>3. ~ShouldDeadLetter(h)
      BY <3>1 DEF ShouldDeadLetter, DeliveryAttemptCount, AttemptLimit
    <3>4. ~Fault("db") /\ ~Fault("operator") /\ ~Fault("markFailed")
      BY <1>3 DEF Fault
    <3> USE <3>1, <3>3, <3>4 DEF Goto, MessageOf, Errs, Write, broker
    <3>5. CASE Acquire(h)
      BY <3>5 DEF Acquire, observed, database
    <3>6. CASE ReadStatus(h)
      BY <3>6 DEF ReadStatus, observed, database
    <3>7. CASE InsertClaim(h)
      BY <3>7 DEF InsertClaim, observed
    <3>8. CASE OperatorHandles(h)
      BY <3>8 DEF OperatorHandles
    <3>9. CASE CallReturns(h)
      BY <3>9 DEF CallReturns, Returns, AfterCall, IsPermanent, observed
    <3>10. CASE MarkSent(h) \/ MarkFailed(h)
      BY <3>10 DEF MarkSent, MarkFailed, Mark, AfterMark, observed
    <3>11. CASE Ack(h)
      BY <3>11 DEF Ack, Finish, observed
    <3>12. /\ ~RereadStatus(h) /\ ~ReleaseClaim(h) /\ ~DeadLetter(h) /\ ~PublishDLQ(h)
           /\ ~Nack(h) /\ \A c \in Copies : ~Receive(h, c)
      BY DEF RereadStatus, ReleaseClaim, DeadLetter, PublishDLQ, Nack, Finish, Receive
    <3> QED
      BY <1>7, <3>5, <3>6, <3>7, <3>8, <3>9, <3>10, <3>11, <3>12 DEF HandlerStep
  <2>6. pc[h] = "idle" => \E c \in Copies : Receive(h, c)
    BY <1>7 DEF HandlerStep, Acquire, ReadStatus, InsertClaim, RereadStatus, OperatorHandles,
         CallReturns, ReleaseClaim, MarkSent, MarkFailed, Mark, DeadLetter, PublishDLQ, Ack, Nack,
         Finish
  <2> QED
    BY <2>3, <2>4, <2>5, <2>6
<1>8. ASSUME NEW w \in Workers PROVE ~ProcessStep(w)
  <2>1. up[w] = "running" /\ connected[w]
    BY <1>2
  <2> QED
    BY <1>3, <2>1 DEF ProcessStep, Crash, Stop, Exit, LoseConnection, Start, Fault
<1>9. CASE UNCHANGED vars
  BY <1>2, <1>9 DEF vars, database, broker, process, local, observed, MessageOf
<1> QED
  BY <1>6, <1>7, <1>8, <1>9 DEF Next, Quiescent

\* Without a failure or a second publication nobody takes a claim over, and only
\* who has taken one over records `sent` without the operator's answer.
THEOREM SentIsExplainedHolds == Spec => []SentIsExplained
<1>1. Init => Calm
  BY DEF Init, Calm
<1>2. TypeOK /\ TypeOK' /\ Safety /\ UnackedIsHeld /\ Calm /\ [Next]_vars => Calm'
  BY CalmStep
<1>3. ClaimOwned /\ Calm => SentIsExplained
  BY DEF ClaimOwned, Calm, SentIsExplained
<1> QED
  BY <1>1, <1>2, <1>3, TypeCorrect, SafetyHolds, UnackedIsHeldHolds, ClaimOwnedHolds, PTL DEF Spec

\* A message whose answer is recorded is not given to the operator again, unless
\* it was marked sent by who took its claim over.
THEOREM NoCallAfterAnswerHolds == Spec => NoCallAfterAnswer
<1>1. ASSUME TypeOK, ClaimOwned, [Next]_vars
      PROVE  [\A h \in Handlers, m \in Messages :
                 pc[h] # "calling" /\ pc'[h] = "calling" /\ m = MessageOf(h)
                    => /\ status[m] # "failed"
                       /\ status[m] = "sent" => m \in resumed]_vars
  <2> SUFFICES ASSUME Next, NEW h \in Handlers, NEW m \in Messages,
                      pc[h] # "calling", pc'[h] = "calling", m = MessageOf(h)
               PROVE  m \notin processed
    <3>1. CASE UNCHANGED vars
      BY <3>1 DEF vars, local
    <3>2. CASE Next
      BY <1>1, <3>2 DEF ClaimOwned, Settled
    <3> QED
      BY <1>1, <3>1, <3>2
  <2> USE <1>1 DEF TypeOK, Goto
  <2>1. ASSUME NEW g \in Handlers, HandlerStep(g) PROVE g = h /\ InsertClaim(h)
    BY <2>1 DEF HandlerStep, Receive, Acquire, ReadStatus, InsertClaim, RereadStatus,
         ClaimAfterConflict, OperatorHandles, CallReturns, AfterCall, ReleaseClaim, MarkSent,
         MarkFailed, Mark, AfterMark, DeadLetter, AfterDeadLetter, PublishDLQ, Ack, Nack, Finish
  <2>2. ~(\E c \in Copies : Publish(c)) /\ ~(\E w \in Workers : ProcessStep(w)) /\ ~Quiescent
    BY DEF Publish, ProcessStep, Crash, Stop, Exit, LoseConnection, Start, ProcessEnds,
           local, Quiescent, vars
  <2>3. InsertClaim(h)
    BY <2>1, <2>2 DEF Next
  <2>4. MessageOf(h) \in processed => pc'[h] \in {"rereadStatus", "nack"}
    BY <2>3 DEF InsertClaim
  <2> QED
    BY <2>4
<1> QED
  BY <1>1, ClaimOwnedHolds, TypeCorrect, PTL DEF Spec, NoCallAfterAnswer
=============================================================================
