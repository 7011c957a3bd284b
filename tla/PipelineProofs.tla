--------------------------- MODULE PipelineProofs ---------------------------
(***************************************************************************)
(* Proofs about Pipeline for any number of accounts, sends, relays,        *)
(* workers, goroutines and failures: every part behaves as its own module  *)
(* says, so what is proved there holds here, and no committed send is lost *)
(* between the parts.                                                      *)
(***************************************************************************)
EXTENDS Pipeline, FiniteSetTheorems, TLAPS

\* A step of the pipeline is a step of the API or leaves it alone.
LEMMA APIStep == [Next]_vars => [API!Next]_(API!vars)
<1> SUFFICES ASSUME [Next]_vars, ~API!Next PROVE UNCHANGED API!vars
  OBVIOUS
<1>1. UNCHANGED api
  BY DEF Next, vars, ServeRequest, ExpireCache, RelayOutbox, RelayLife, LockExpires,
         Deliver, WorkerLife, Quiescent, API!Next, API!Requests
<1> QED
  BY <1>1 DEF api, API!vars, API!store

\* A step of the pipeline is a step of the relays, with the commit of a send as
\* the creation of its event, or leaves them alone.
LEMMA OutboxStep == [Next]_vars => [Outbox!Next]_(Outbox!vars)
<1> SUFFICES ASSUME [Next]_vars, ~Outbox!Next PROVE UNCHANGED Outbox!vars
  OBVIOUS
<1>1. UNCHANGED outbox
  <2>1. ASSUME NEW s \in Sends, ServeRequest(s) PROVE UNCHANGED outbox
    BY <2>1, EventAssumption DEF ServeRequest, CommitRows, Outbox!Next, Outbox!Events
  <2> QED
    BY <2>1 DEF Next, vars, ExpireCache, RelayOutbox, RelayLife, LockExpires,
                Deliver, WorkerLife, Quiescent, Outbox!Next
<1> QED
  BY <1>1 DEF outbox, Outbox!vars, Outbox!relay

\* The assumptions of OutboxRelay, as it states them.
LEMMA OutboxParameters ==
    /\ /\ Cardinality(Sends) \in Nat
       /\ BatchSize \in Nat \ {0}
       /\ MarkPublishedMaxAttempts \in Nat \ {0}
       /\ MaxRelayFaults \in Nat
       /\ MaxCopies \in Nat \ {0}
    /\ /\ Slow \subseteq Outbox!Events
       /\ UnstableRelays \subseteq Relays
BY OutboxAssumption

\* The event a poll works on is one of its batch.
LEMMA CurrentOfPoll ==
    ASSUME Outbox!TypeOK, NEW r \in Relays, poll[r] \notin {"poll", "down"}
    PROVE  Outbox!Current(r) \in batch[r] /\ Outbox!Current(r) \in Outbox!Events
BY OutboxParameters, Outbox!CurrentInBatch

\* A relay gets one copy of one event enqueued at a time, within the bound.
LEMMA CopiesStep ==
    ASSUME Outbox!TypeOK, NEW r \in Relays, Outbox!RelayStep(r)
    PROVE  \/ copies' = copies
           \/ \E e \in Outbox!Events :
                 /\ e \in batch[r]
                 /\ copies[e] + 1 \in 1 .. MaxCopies
                 /\ copies' = [copies EXCEPT ![e] = copies[e] + 1]
<1>1. CASE Outbox!PublishEvent(r)
  <2>1. \/ copies' = copies
        \/ /\ copies[Outbox!Current(r)] < MaxCopies
           /\ copies' = [copies EXCEPT ![Outbox!Current(r)] = @ + 1]
    BY <1>1 DEF Outbox!PublishEvent
  <2>2. Outbox!Current(r) \in batch[r] /\ Outbox!Current(r) \in Outbox!Events
    <3>1. poll[r] \notin {"poll", "down"}
      BY <1>1 DEF Outbox!PublishEvent
    <3> QED
      BY <3>1, CurrentOfPoll
  <2> QED
    BY <2>1, <2>2, OutboxAssumption DEF Outbox!TypeOK
<1>2. CASE ~Outbox!PublishEvent(r)
  BY <1>2 DEF Outbox!RelayStep, Outbox!ClaimBatch, Outbox!CheckPublished,
              Outbox!MarkPublished, Outbox!VerifyMark, Outbox!RecordFailure
<1> QED
  BY <1>1, <1>2

\* A step of the pipeline is a step of the workers, with an enqueued copy as its
\* publication, or leaves them alone.
LEMMA DeliveryStep ==
    Outbox!TypeOK /\ [Next]_vars => [Delivery!Next]_(Delivery!vars)
<1> SUFFICES ASSUME Outbox!TypeOK, [Next]_vars, ~Delivery!Next PROVE UNCHANGED Delivery!vars
  OBVIOUS
<1>1. UNCHANGED delivery
  <2>1. ASSUME NEW r \in Relays, RelayOutbox(r) PROVE UNCHANGED delivery
    <3>1. ASSUME NEW s \in Sends, copies'[EventOf[s]] # copies[EventOf[s]]
          PROVE  <<s, copies'[EventOf[s]]>> \in Copies
      <4>1. PICK e \in Outbox!Events :
              /\ copies[e] + 1 \in 1 .. MaxCopies
              /\ copies' = [copies EXCEPT ![e] = copies[e] + 1]
        BY <2>1, <3>1, CopiesStep DEF RelayOutbox
      <4>2. copies'[EventOf[s]] \in 1 .. MaxCopies
        BY <3>1, <4>1, EventAssumption DEF Outbox!TypeOK, Outbox!Events
      <4> QED
        BY <4>2 DEF Copies
    <3> QED
      BY <2>1, <3>1 DEF RelayOutbox, EnqueueCopies, Delivery!Next
  <2> QED
    BY <2>1 DEF Next, vars, ServeRequest, ExpireCache, RelayLife, LockExpires,
                Deliver, WorkerLife, Quiescent, Delivery!Next
<1> QED
  BY <1>1 DEF delivery, Delivery!vars, Delivery!database, Delivery!broker,
              Delivery!process, Delivery!local, Delivery!observed

-----------------------------------------------------------------------------
\* The API part behaves as SmsSend.
THEOREM APIImplemented == Spec => API!Spec
<1>1. Init => API!Init
  BY DEF Init
<1> QED
  BY <1>1, APIStep, PTL DEF Spec, API!Spec

\* The relay part behaves as OutboxRelay.
THEOREM OutboxImplemented == Spec => Outbox!Spec
<1>1. Init => Outbox!Init
  BY DEF Init
<1> QED
  BY <1>1, OutboxStep, PTL DEF Spec, Outbox!Spec

\* So the events of the pipeline keep what is proved of OutboxRelay.
LEMMA OutboxHolds == Spec => [](Outbox!TypeOK /\ Outbox!Safety)
BY OutboxParameters, OutboxImplemented, Outbox!TypeCorrect, Outbox!SafetyHolds, PTL

\* The worker part behaves as Worker.
THEOREM DeliveryImplemented == Spec => Delivery!Spec
<1>1. Init => Delivery!Init
  BY DEF Init
<1> QED
  BY <1>1, DeliveryStep, OutboxHolds, PTL DEF Spec, Delivery!Spec

\* The assumptions of Worker, as it states them.
LEMMA DeliveryParameters ==
    /\ Carries \in [Copies -> Sends]
    /\ ProcessOf \in [Handlers -> Workers]
    /\ NoJob \notin Delivery!Jobs
    /\ /\ PoolSize \in Nat \ {0}
       /\ MaxDeliveryAttempts \in [Workers -> Nat]
       /\ MaxWorkerFaults \in Nat
    /\ UnstableWorkers \subseteq Workers
BY DeliveryAssumption DEF Carries, Copies

\* So the messages of the pipeline keep what is proved of Worker.
LEMMA DeliveryHolds == Spec => [](Delivery!TypeOK /\ Delivery!Safety)
BY DeliveryParameters, DeliveryImplemented, Delivery!TypeCorrect, Delivery!SafetyHolds, PTL

-----------------------------------------------------------------------------
\* What a step of each part does to what the parts share.  A request commits
\* itself together with its event, or nothing.
LEMMA ServeShared ==
    ASSUME NEW s \in Sends, ServeRequest(s)
    PROVE  /\ UNCHANGED delivery
           /\ UNCHANGED <<batch, copies>>
           /\ \/ committed' = committed /\ event' = event
              \/ /\ committed' = committed \cup {s}
                 /\ event' = [event EXCEPT ![EventOf[s]] = "pending"]
<1>1. committed' = committed \/ committed' = committed \cup {s}
  BY DEF ServeRequest, API!Arrive, API!RequestStep, API!Crash, API!LookupCache,
         API!LookupDB, API!ClaimKey, API!ReadRow, API!ShareAccount, API!LockAccount,
         API!WriteRows, API!SetCache, API!AbortVictim, API!Answer, API!Commit, API!store
<1> QED
  BY <1>1 DEF ServeRequest, CommitRows, Outbox!Create, Outbox!relay, outbox

\* A relay creates no event and takes up no event that has not been created.
LEMMA RelayShared ==
    ASSUME Outbox!TypeOK, NEW r \in Relays, Outbox!RelayStep(r)
    PROVE  /\ \A e \in Outbox!Events : event'[e] = "absent" <=> event[e] = "absent"
           /\ \A q \in Relays : \A e \in batch'[q] : e \in batch[q] \/ event[e] = "pending"
<1> USE DEF Outbox!TypeOK
<1>1. CASE Outbox!ClaimBatch(r)
  BY <1>1 DEF Outbox!ClaimBatch, Outbox!IsBatch, Outbox!Claimable
<1>2. CASE Outbox!MarkPublished(r)
  BY <1>2 DEF Outbox!MarkPublished, Outbox!NextEvent
<1>3. CASE ~Outbox!ClaimBatch(r) /\ ~Outbox!MarkPublished(r)
  BY <1>3 DEF Outbox!RelayStep, Outbox!CheckPublished, Outbox!PublishEvent,
              Outbox!VerifyMark, Outbox!RecordFailure, Outbox!NextEvent
<1> QED
  BY <1>1, <1>2, <1>3

\* A worker's step neither publishes nor unpublishes a copy, and a goroutine
\* that is at work has a published one.
LEMMA HandlerShared ==
    ASSUME Delivery!TypeOK, NEW h \in Handlers, Delivery!HandlerStep(h),
           \A g \in Handlers : handler[g] # "idle" => where[job[g].copy] # "outbox"
    PROVE  /\ \A c \in Copies : where'[c] = "outbox" <=> where[c] = "outbox"
           /\ \A g \in Handlers : handler'[g] # "idle" => where'[job'[g].copy] # "outbox"
           /\ accepted' \cup rejected' \cup dlq' \subseteq
                 accepted \cup rejected \cup dlq
                    \cup {Carries[c] : c \in {d \in Copies : where[d] # "outbox"}}
<1> USE DEF Delivery!TypeOK, Delivery!Jobs
<1>1. \A g \in Handlers : handler[g] # "idle" => job[g].copy \in Copies
  OBVIOUS
<1>2. CASE \E c \in Copies : Delivery!Receive(h, c)
  BY <1>1, <1>2 DEF Delivery!Receive, Delivery!Goto, Delivery!observed
<1>3. CASE Delivery!OperatorHandles(h)
  BY <1>1, <1>3 DEF Delivery!OperatorHandles, Delivery!MessageOf, Delivery!broker, Delivery!observed
<1>4. CASE Delivery!PublishDLQ(h)
  BY <1>1, <1>4 DEF Delivery!PublishDLQ, Delivery!MessageOf, Delivery!Goto, Delivery!observed
<1>5. CASE Delivery!Ack(h)
  BY <1>1, <1>5 DEF Delivery!Ack, Delivery!Finish, Delivery!CopyOf, Delivery!Goto, Delivery!observed
<1>6. CASE Delivery!Nack(h)
  BY <1>1, <1>6 DEF Delivery!Nack, Delivery!Finish, Delivery!CopyOf, Delivery!Requeue,
                    Delivery!Goto, Delivery!observed
<1>7. CASE \/ Delivery!Acquire(h) \/ Delivery!ReadStatus(h) \/ Delivery!InsertClaim(h)
           \/ Delivery!RereadStatus(h) \/ Delivery!CallReturns(h) \/ Delivery!ReleaseClaim(h)
           \/ Delivery!MarkSent(h) \/ Delivery!MarkFailed(h) \/ Delivery!DeadLetter(h)
  <2>1. /\ handler[h] # "idle"
        /\ UNCHANGED <<where, dlq, accepted, rejected, job>>
        /\ \A g \in Handlers : g # h => handler'[g] = handler[g]
    BY <1>7 DEF Delivery!Acquire, Delivery!ReadStatus, Delivery!InsertClaim,
         Delivery!RereadStatus, Delivery!CallReturns, Delivery!ReleaseClaim, Delivery!MarkSent,
         Delivery!MarkFailed, Delivery!DeadLetter, Delivery!Mark, Delivery!Goto,
         Delivery!broker, Delivery!observed
  <2> QED
    BY <2>1
<1> QED
  BY <1>2, <1>3, <1>4, <1>5, <1>6, <1>7 DEF Delivery!HandlerStep

\* The same of what happens to a worker process.
LEMMA ProcessShared ==
    ASSUME Delivery!TypeOK, NEW w \in Workers, Delivery!ProcessStep(w),
           \A g \in Handlers : handler[g] # "idle" => where[job[g].copy] # "outbox"
    PROVE  /\ \A c \in Copies : where'[c] = "outbox" <=> where[c] = "outbox"
           /\ \A g \in Handlers : handler'[g] # "idle" => where'[job'[g].copy] # "outbox"
           /\ UNCHANGED <<accepted, rejected, dlq>>
<1> USE DEF Delivery!TypeOK, Delivery!Jobs
<1>1. \A c \in Delivery!Unacked(w) : c \in Copies => where[c] # "outbox"
  BY DEF Delivery!Unacked, Delivery!CopyOf
<1>2. CASE Delivery!Crash(w) \/ Delivery!Exit(w)
  BY <1>1, <1>2 DEF Delivery!Crash, Delivery!Exit, Delivery!ProcessEnds, Delivery!Requeue,
                    Delivery!observed
<1>3. CASE Delivery!LoseConnection(w)
  BY <1>1, <1>3 DEF Delivery!LoseConnection, Delivery!Requeue, Delivery!observed, Delivery!local
<1>4. CASE Delivery!Stop(w) \/ Delivery!Start(w)
  BY <1>4 DEF Delivery!Stop, Delivery!Start, Delivery!broker, Delivery!observed, Delivery!local
<1> QED
  BY <1>2, <1>3, <1>4 DEF Delivery!ProcessStep

\* What is in a batch is an event.
LEMMA OutboxStepTyped ==
    ASSUME Outbox!TypeOK, NEW r \in Relays, Outbox!RelayStep(r)
    PROVE  \A q \in Relays : batch'[q] \subseteq Outbox!Events
<1> USE DEF Outbox!TypeOK
<1>1. CASE Outbox!ClaimBatch(r)
  BY <1>1 DEF Outbox!ClaimBatch
<1>2. CASE ~Outbox!ClaimBatch(r)
  BY <1>2 DEF Outbox!RelayStep, Outbox!CheckPublished, Outbox!PublishEvent,
              Outbox!MarkPublished, Outbox!VerifyMark, Outbox!RecordFailure, Outbox!NextEvent
<1> QED
  BY <1>1, <1>2

-----------------------------------------------------------------------------
(* The abstract life of a message.                                         *)

Working(h) == Carries[job[h].copy]

\* A step of a goroutine writes one final status over `accepted`, or brings one
\* message to the operator, or sets one aside, or takes over the claim of one that
\* is undecided, or does none of this.
LEMMA HandlerEffect ==
    ASSUME Delivery!TypeOK, NEW h \in Handlers, Delivery!HandlerStep(h)
    PROVE  \/ UNCHANGED <<status, accepted, rejected, resumed, dlq>>
           \/ /\ handler[h] # "idle" /\ UNCHANGED <<accepted, rejected, resumed, dlq>>
              /\ status[Working(h)] = "accepted"
              /\ \E s \in Delivery!Terminal :
                    /\ <<handler[h], s>> \in {<<"markSent", "sent">>, <<"markFailed", "failed">>,
                                              <<"deadLetter", "dead_lettered">>}
                    /\ status' = [status EXCEPT ![Working(h)] = s]
           \/ /\ handler[h] = "calling" /\ UNCHANGED <<status, resumed, dlq>>
              /\ \/ accepted' = accepted \cup {Working(h)} /\ UNCHANGED rejected
                 \/ /\ Working(h) \notin accepted
                    /\ rejected' = rejected \cup {Working(h)} /\ UNCHANGED accepted
           \/ /\ handler[h] = "publishDLQ" /\ UNCHANGED <<status, accepted, rejected, resumed>>
              /\ dlq' = dlq \cup {Working(h)}
           \/ /\ handler[h] # "idle" /\ UNCHANGED <<status, accepted, rejected, dlq>>
              /\ status[Working(h)] = "accepted"
              /\ resumed' = resumed \cup {Working(h)}
<1> USE DEF Working, Delivery!MessageOf
<1>1. CASE Delivery!MarkSent(h)
  BY <1>1 DEF Delivery!MarkSent, Delivery!Mark, Delivery!MarkIfAccepted, Delivery!Terminal,
              Delivery!observed, Delivery!broker
<1>2. CASE Delivery!MarkFailed(h)
  BY <1>2 DEF Delivery!MarkFailed, Delivery!Mark, Delivery!MarkIfAccepted, Delivery!Terminal,
              Delivery!observed, Delivery!broker
<1>3. CASE Delivery!DeadLetter(h)
  BY <1>3 DEF Delivery!DeadLetter, Delivery!MarkIfAccepted, Delivery!Terminal,
              Delivery!database, Delivery!observed, Delivery!broker
<1>4. CASE Delivery!OperatorHandles(h)
  BY <1>4 DEF Delivery!OperatorHandles, Delivery!database, Delivery!broker, Delivery!observed
<1>5. CASE Delivery!PublishDLQ(h)
  BY <1>5 DEF Delivery!PublishDLQ, Delivery!database, Delivery!observed
<1>6. CASE \/ \E c \in Copies : Delivery!Receive(h, c)
           \/ Delivery!Acquire(h) \/ Delivery!ReadStatus(h) \/ Delivery!InsertClaim(h)
           \/ Delivery!CallReturns(h) \/ Delivery!ReleaseClaim(h)
           \/ Delivery!Ack(h) \/ Delivery!Nack(h)
  BY <1>6 DEF Delivery!Receive, Delivery!Acquire, Delivery!ReadStatus, Delivery!InsertClaim,
       Delivery!CallReturns, Delivery!ReleaseClaim, Delivery!Ack,
       Delivery!Nack, Delivery!Finish, Delivery!database, Delivery!broker, Delivery!observed
<1>7. CASE Delivery!RereadStatus(h)
  <2>1. handler[h] # "idle" /\ UNCHANGED <<status, accepted, rejected, dlq>>
    BY <1>7 DEF Delivery!RereadStatus, Delivery!database, Delivery!broker
  <2>2. \/ resumed' = resumed
        \/ /\ status[Working(h)] \notin Delivery!Terminal
           /\ resumed' = resumed \cup {Working(h)}
    BY <1>7 DEF Delivery!RereadStatus, Delivery!Decided
  <2>3. Working(h) \in Sends
    BY <2>1, DeliveryParameters DEF Delivery!TypeOK, Delivery!Jobs
  <2> QED
    BY <2>1, <2>2, <2>3 DEF Delivery!TypeOK
<1> QED
  BY <1>1, <1>2, <1>3, <1>4, <1>5, <1>6, <1>7 DEF Delivery!HandlerStep

\* What happens to a process does nothing to a message.
LEMMA ProcessEffect ==
    ASSUME NEW w \in Workers, Delivery!ProcessStep(w)
    PROVE  UNCHANGED <<status, accepted, rejected, resumed, dlq>>
BY DEF Delivery!ProcessStep, Delivery!Crash, Delivery!Stop, Delivery!Exit,
       Delivery!LoseConnection, Delivery!Start, Delivery!ProcessEnds, Delivery!Requeue,
       Delivery!database, Delivery!broker, Delivery!observed

-----------------------------------------------------------------------------
\* No step makes the parts disagree, and none delivers what is not paid for.
LEMMA AgreementStep ==
    ASSUME Outbox!TypeOK, Delivery!TypeOK, PartsAgree, OnlyCommittedDelivered, [Next]_vars
    PROVE  PartsAgree' /\ OnlyCommittedDelivered'
<1> USE DEF PartsAgree, OnlyCommittedDelivered
<1>0. /\ \A s \in Sends : EventOf[s] \in Outbox!Events
      /\ \A s, t \in Sends : EventOf[s] = EventOf[t] => s = t
      /\ \A c \in Copies : c[1] \in Sends /\ c[2] \in 1 .. MaxCopies /\ Carries[c] = c[1]
      /\ MaxCopies \in Nat \ {0}
  BY EventAssumption, OutboxAssumption DEF Outbox!Events, Copies, Carries
<1>1. ASSUME NEW s \in Sends, ServeRequest(s) PROVE PartsAgree' /\ OnlyCommittedDelivered'
  BY <1>0, <1>1, ServeShared DEF delivery, Outbox!TypeOK
<1>2. ASSUME NEW r \in Relays, RelayOutbox(r) PROVE PartsAgree' /\ OnlyCommittedDelivered'
  <2>1. /\ committed' = committed
        /\ \A e \in Outbox!Events : event'[e] = "absent" <=> event[e] = "absent"
        /\ \A q \in Relays : \A e \in batch'[q] : e \in batch[q] \/ event[e] = "pending"
        /\ Outbox!TypeOK
    BY <1>2, RelayShared DEF RelayOutbox, api
  <2>2. \A q \in Relays : batch'[q] \subseteq Outbox!Events
    BY <1>2, OutboxStepTyped DEF RelayOutbox
  <2>3. CASE copies' = copies
    <3>1. UNCHANGED delivery
      BY <1>2, <2>3 DEF RelayOutbox, EnqueueCopies
    <3> QED
      BY <1>0, <2>1, <2>2, <2>3, <3>1 DEF delivery
  <2>4. CASE copies' # copies
    <3>1. PICK e \in Outbox!Events :
            /\ e \in batch[r]
            /\ copies[e] + 1 \in 1 .. MaxCopies
            /\ copies' = [copies EXCEPT ![e] = copies[e] + 1]
      BY <1>2, <2>4, CopiesStep DEF RelayOutbox
    <3>2. PICK s \in Sends : /\ copies'[EventOf[s]] # copies[EventOf[s]]
                             /\ Delivery!Publish(<<s, copies'[EventOf[s]]>>)
      BY <1>2, <2>4 DEF RelayOutbox, EnqueueCopies
    <3>3. EventOf[s] = e
      BY <1>0, <3>1, <3>2 DEF Outbox!TypeOK
    <3>4. /\ <<s, copies[e] + 1>> \in Copies
          /\ where' = [where EXCEPT ![<<s, copies[e] + 1>>] = "ready"]
          /\ UNCHANGED <<status, handler, job, accepted, rejected, dlq>>
      BY <3>1, <3>2, <3>3 DEF Copies, Delivery!Publish, Delivery!database, Delivery!local,
                              Delivery!observed, Outbox!TypeOK
    <3>5. event[e] # "absent" /\ s \in committed
      BY <3>1, <3>3
    <3>6. \A c \in Copies : where'[c] # "outbox" <=> c[2] <= copies'[EventOf[c[1]]]
      <4> SUFFICES ASSUME NEW c \in Copies
                   PROVE  where'[c] # "outbox" <=> c[2] <= copies'[EventOf[c[1]]]
        OBVIOUS
      <4>1. c = <<c[1], c[2]>>
        BY DEF Copies
      <4>2. CASE c[1] # s
        BY <1>0, <3>1, <3>3, <3>4, <4>1, <4>2 DEF Delivery!TypeOK, Outbox!TypeOK
      <4>3. CASE c[1] = s
        <5>1. copies'[EventOf[c[1]]] = copies[e] + 1 /\ copies[e] \in Nat
          BY <3>1, <3>3, <4>3 DEF Outbox!TypeOK
        <5>2. CASE c[2] = copies[e] + 1
          BY <3>4, <4>1, <4>3, <5>1, <5>2 DEF Delivery!TypeOK
        <5>3. CASE c[2] # copies[e] + 1
          <6>1. where'[c] = where[c]
            BY <3>4, <4>1, <5>3 DEF Delivery!TypeOK
          <6>2. c[2] \in Nat
            BY <1>0
          <6> QED
            BY <3>3, <4>3, <5>1, <5>3, <6>1, <6>2
        <5> QED
          BY <5>2, <5>3
      <4> QED
        BY <4>2, <4>3
    <3>7. \A c \in Copies : where'[c] # "outbox" => c[1] \in committed'
      <4> SUFFICES ASSUME NEW c \in Copies, where'[c] # "outbox" PROVE c[1] \in committed
        BY <2>1
      <4>1. CASE where[c] # "outbox"
        BY <4>1
      <4>2. CASE where[c] = "outbox"
        BY <3>4, <3>5, <4>2 DEF Delivery!TypeOK
      <4> QED
        BY <4>1, <4>2
    <3>8. \A h \in Handlers : handler'[h] # "idle" => where'[job'[h].copy] # "outbox"
      BY <3>4 DEF Delivery!TypeOK, Delivery!Jobs
    <3>9. \A f \in Outbox!Events : copies'[f] > 0 => event'[f] # "absent"
      BY <2>1, <3>1, <3>5 DEF Outbox!TypeOK
    <3>10. \A q \in Relays : \A f \in batch'[q] : event'[f] # "absent"
      BY <2>1, <2>2
    <3> QED
      BY <1>0, <2>1, <3>4, <3>6, <3>7, <3>8, <3>9, <3>10
  <2> QED
    BY <2>3, <2>4
<1>3. ASSUME NEW h \in Handlers, Deliver(h) PROVE PartsAgree' /\ OnlyCommittedDelivered'
  <2>1. UNCHANGED <<committed, event, batch, copies>>
    BY <1>3 DEF Deliver, api, outbox
  <2>2. \A s \in Sends : status'[s] # "accepted" => s \in committed
    <3>1. CASE UNCHANGED status
      BY <3>1
    <3>2. CASE /\ handler[h] # "idle"
               /\ \E s \in Delivery!Terminal : status' = [status EXCEPT ![Working(h)] = s]
      <4>1. Working(h) \in committed
        BY <1>0, <3>2 DEF Working, Delivery!TypeOK, Delivery!Jobs
      <4> QED
        BY <3>2, <4>1 DEF Delivery!TypeOK
    <3> QED
      BY <1>3, <3>1, <3>2, HandlerEffect DEF Deliver
  <2> QED
    BY <1>0, <1>3, <2>1, <2>2, HandlerShared DEF Deliver
<1>4. ASSUME NEW w \in Workers, WorkerLife(w) PROVE PartsAgree' /\ OnlyCommittedDelivered'
  <2>1. UNCHANGED <<committed, event, batch, copies>>
    BY <1>4 DEF WorkerLife, api, outbox
  <2> QED
    BY <1>0, <1>4, <2>1, ProcessShared, ProcessEffect DEF WorkerLife
<1>5. ASSUME NEW r \in Relays, RelayLife(r) PROVE PartsAgree' /\ OnlyCommittedDelivered'
  BY <1>5 DEF RelayLife, Outbox!RelayLife, Outbox!Crash, Outbox!LoseConnection, Outbox!Start,
            Outbox!relay, api, delivery, Outbox!TypeOK
<1>6. ASSUME NEW e \in Outbox!Events, LockExpires(e) PROVE PartsAgree' /\ OnlyCommittedDelivered'
  BY <1>6 DEF LockExpires, Outbox!LockExpires, Outbox!relay, api, delivery
<1>7. ASSUME NEW slot \in API!Slots, ExpireCache(slot) PROVE PartsAgree' /\ OnlyCommittedDelivered'
  BY <1>7 DEF ExpireCache, API!ExpireCache, API!store, outbox, delivery
<1>8. CASE UNCHANGED vars
  BY <1>8 DEF vars, api, outbox, delivery
<1> QED
  BY <1>1, <1>2, <1>3, <1>4, <1>5, <1>6, <1>7, <1>8 DEF Next, Quiescent

\* The agreement holds in every reachable state.
LEMMA Agreement == Spec => [](PartsAgree /\ OnlyCommittedDelivered)
<1>1. Init => PartsAgree /\ OnlyCommittedDelivered
  <2> SUFFICES ASSUME Init PROVE PartsAgree /\ OnlyCommittedDelivered
    OBVIOUS
  <2>1. /\ committed = {} /\ event = [e \in Outbox!Events |-> "absent"]
        /\ \A s \in Sends : EventOf[s] \in Outbox!Events
        /\ batch = [r \in Relays |-> {}] /\ copies = [e \in Outbox!Events |-> 0]
        /\ where = [c \in Copies |-> "outbox"] /\ handler = [h \in Handlers |-> "idle"]
        /\ accepted = {} /\ rejected = {} /\ dlq = {}
        /\ status = [s \in Sends |-> "accepted"]
    BY EventAssumption DEF Init, API!Init, Outbox!Init, Delivery!Init, Outbox!Events
  <2>2. \A c \in Copies : c[1] \in Sends /\ c[2] \in 1 .. MaxCopies
    BY DEF Copies
  <2> QED
    BY <2>1, <2>2, OutboxAssumption DEF PartsAgree, OnlyCommittedDelivered
<1> QED
  BY <1>1, AgreementStep, OutboxHolds, DeliveryHolds, PTL DEF Spec

\* The assumptions of SmsSend, as it states them, for an API without topups.
LEMMA APIParameters ==
    /\ /\ Sends \cap {} = {}
       /\ AccountOf \in [API!Requests -> Accounts]
       /\ KeyOf \in [Sends -> Keys \cup {None}]
       /\ [t \in {} |-> 0] \in [{} -> 1 .. MaxBalance]
    /\ /\ MaxBalance \in Nat \ {0}
       /\ MaxAPIFaults \in Nat
       /\ InitialBalance \in [Accounts -> 0 .. MaxBalance]
    /\ /\ None \notin Keys \cup API!Requests
       /\ Placeholder \notin API!Requests \cup {None}
<1>1. API!Requests = Sends
  BY DEF API!Requests
<1> QED
  BY <1>1, APIAssumption

\* Its set operators are those of this module.
LEMMA SameSetOperators ==
    \A S : (API!IsFiniteSet(S) <=> IsFiniteSet(S)) /\ API!Cardinality(S) = Cardinality(S)
BY DEF API!IsFiniteSet, IsFiniteSet, API!Cardinality, Cardinality

\* So the accounts and the answers of the pipeline keep what is proved of SmsSend.
LEMMA APIHolds ==
    Spec => [](/\ API!TypeOK /\ API!Safety
               /\ API!IsFiniteSet(committed) /\ API!BalanceMatchesLedger)
BY APIParameters, APIImplemented, API!TypeCorrect, API!SafetyHolds, API!LedgerHolds, PTL

\* Nothing is delivered that has not been paid for.
THEOREM OnlyPaidDeliveredHolds == Spec => []OnlyPaidDelivered
<1>1. /\ API!TypeOK /\ API!IsFiniteSet(committed) /\ API!BalanceMatchesLedger
      /\ OnlyCommittedDelivered
      => OnlyPaidDelivered
  <2> SUFFICES ASSUME API!TypeOK, IsFiniteSet(committed), API!BalanceMatchesLedger,
                      OnlyCommittedDelivered, NEW a \in Accounts
               PROVE  API!Cost * Cardinality({s \in Sends : AccountOf[s] = a /\ Queued(s)})
                          <= InitialBalance[a] - balance[a]
    BY SameSetOperators DEF OnlyPaidDelivered
  <2> DEFINE Q == {s \in Sends : AccountOf[s] = a /\ Queued(s)}
             L == {s \in committed : AccountOf[s] = a}
  <2>1. L \in SUBSET Sends /\ IsFiniteSet(L) /\ Q \subseteq L
    BY FS_Subset DEF API!TypeOK, API!Requests, OnlyCommittedDelivered, Queued
  <2>2. Cardinality(Q) \in Nat /\ Cardinality(L) \in Nat /\ Cardinality(Q) <= Cardinality(L)
    BY <2>1, FS_Subset, FS_CardinalityType
  <2>3. API!Total(L) = 0 - API!Cost * Cardinality(L)
    <3>1. API!IsFiniteSet(L)
      BY <2>1, SameSetOperators
    <3>2. API!Total(L) = 0 - API!Cost * API!Cardinality(L)
      BY <2>1, <3>1, APIParameters, API!TotalOfSends
    <3> QED
      BY <3>2, SameSetOperators
  <2>4. balance[a] = InitialBalance[a] + API!Total(L)
    BY DEF API!BalanceMatchesLedger
  <2>5. balance[a] \in Int /\ InitialBalance[a] \in Int
    BY APIAssumption DEF API!TypeOK
  <2> HIDE DEF Q, L
  <2> QED
    BY <2>2, <2>3, <2>4, <2>5 DEF API!Cost, Q
<1> QED
  BY <1>1, APIHolds, Agreement, PTL

\* So does the list of copies RabbitMQ waits for an answer to.
LEMMA CopiesHeld == Spec => []Delivery!UnackedIsHeld
BY DeliveryParameters, DeliveryImplemented, Delivery!UnackedIsHeldHolds, PTL

\* Between the commit of a send and the decision of its message there is always
\* an event to publish, a copy to deliver or a goroutine that has to answer for one.
THEOREM NothingIsLostHolds == Spec => []NothingIsLost
<1>1. Outbox!TypeOK /\ Outbox!Safety /\ Delivery!TypeOK /\ Delivery!Safety /\ PartsAgree
      /\ Delivery!UnackedIsHeld /\ committed \subseteq Sends => \A s \in committed : Kept(s)
  <2> SUFFICES ASSUME Outbox!TypeOK, Outbox!Safety, Delivery!TypeOK, Delivery!Safety,
                      Delivery!UnackedIsHeld, PartsAgree, NEW s \in Sends, s \in committed,
                      event[EventOf[s]] # "pending",
                      status[s] \notin Delivery!Terminal
               PROVE  \E c \in Copies :
                         /\ c[1] = s
                         /\ where[c] = "ready" \/ \E h \in Handlers : Delivery!Holds(h, c)
    BY DEF Kept
  <2>1. EventOf[s] \in Outbox!Events /\ event[EventOf[s]] = "published"
    BY EventAssumption DEF PartsAgree, Outbox!TypeOK, Outbox!Events
  <2>2. copies[EventOf[s]] \in Nat /\ copies[EventOf[s]] > 0
    BY <2>1 DEF Outbox!TypeOK, Outbox!Safety, Outbox!PublishedMeansEnqueued
  <2>3. <<s, 1>> \in Copies
    BY OutboxAssumption DEF Copies
  <2>4. where[<<s, 1>>] # "outbox"
    BY <2>2, <2>3 DEF PartsAgree
  <2>5. where[<<s, 1>>] # "gone"
    BY <2>3 DEF Delivery!Safety, Delivery!AckedMeansDecided, Carries
  <2>6. where[<<s, 1>>] = "unacked" => \E h \in Handlers : Delivery!Holds(h, <<s, 1>>)
    BY <2>3 DEF Delivery!UnackedIsHeld
  <2> QED
    BY <2>3, <2>4, <2>5, <2>6 DEF Delivery!TypeOK
<1>2. Spec => [](committed \subseteq Sends)
  <2>1. Init => committed \subseteq Sends
    BY DEF Init, API!Init
  <2>2. committed \subseteq Sends /\ [Next]_vars => (committed \subseteq Sends)'
    BY ServeShared DEF Next, vars, api, ExpireCache, API!ExpireCache, API!store, RelayOutbox,
       RelayLife, LockExpires, Deliver, WorkerLife, Quiescent
  <2> QED
    BY <2>1, <2>2, PTL DEF Spec
<1>3. API!Safety => \A s \in Sends : reply[s] = "202" => message[s] \in committed
  BY DEF API!Safety, API!AnswersAgree, API!Requests
<1>4. (\A s \in committed : Kept(s)) /\ (\A s \in Sends : reply[s] = "202" => message[s] \in committed)
      => NothingIsLost
  BY DEF NothingIsLost
<1> QED
  BY <1>1, <1>2, <1>3, <1>4, Agreement, APIHolds, OutboxHolds, DeliveryHolds, CopiesHeld, PTL

\* What sms.dlq holds is decided.
THEOREM DeadLettersDecided == Spec => []DLQAfterDecision
<1>1. Delivery!Safety => DLQAfterDecision
  BY DEF Delivery!Safety, DLQAfterDecision
<1> QED
  BY <1>1, DeliveryHolds, PTL

\* Behind the relay, an undisturbed message is one that was enqueued once and met
\* no failure of a worker.
LEMMA TwoCopies ==
    ASSUME Outbox!TypeOK, PartsAgree, Outbox!CopiesArePaidFor, Delivery!TypeOK,
           NEW s \in Sends, Delivery!Disturbed(s)
    PROVE  \/ EventOf[s] \in Slow
           \/ relayFaults < MaxRelayFaults
           \/ workerFaults < MaxWorkerFaults
<1> SUFFICES ASSUME EventOf[s] \notin Slow, ~(relayFaults < MaxRelayFaults),
                    ~(workerFaults < MaxWorkerFaults)
             PROVE  FALSE
  OBVIOUS
<1>1. PICK c, d \in Copies : /\ c # d /\ Carries[c] = s /\ Carries[d] = s
                             /\ where[c] # "outbox" /\ where[d] # "outbox"
  BY DEF Delivery!Disturbed
<1>2. /\ c = <<s, c[2]>> /\ d = <<s, d[2]>> /\ c[2] # d[2]
      /\ c[2] \in Nat \ {0} /\ d[2] \in Nat \ {0}
  BY <1>1, OutboxParameters DEF Carries, Copies
<1>3. c[2] <= copies[EventOf[s]] /\ d[2] <= copies[EventOf[s]]
  BY <1>1, <1>2 DEF PartsAgree
<1>4. EventOf[s] \in Outbox!Events \ Slow
  BY EventAssumption DEF Outbox!Events
<1>5. copies[EventOf[s]] \in Nat /\ copies[EventOf[s]] <= 1 + (MaxRelayFaults - relayFaults)
  BY <1>4 DEF Outbox!TypeOK, Outbox!CopiesArePaidFor
<1>6. relayFaults \in 0 .. MaxRelayFaults /\ MaxRelayFaults \in Nat
  BY OutboxParameters DEF Outbox!TypeOK
<1> QED
  BY <1>2, <1>3, <1>5, <1>6

\* Without a failure `sent` is the operator's word, at any limit on the attempts and
\* behind any number of relays: no poll publishes a message twice, and a message
\* that is delivered once is never taken over.
THEOREM FailureFreeSentHolds == Spec => []FailureFreeSentIsAccepted
<1>1. /\ Outbox!TypeOK /\ Outbox!CopiesArePaidFor /\ Delivery!TypeOK
      /\ Delivery!SentIsExplained /\ PartsAgree
      => FailureFreeSentIsAccepted
  BY TwoCopies DEF Delivery!SentIsExplained, FailureFreeSentIsAccepted
<1>2. Spec => []Outbox!CopiesArePaidFor
  BY OutboxParameters, OutboxImplemented, Outbox!CopiesArePaidForHolds, PTL
<1>3. Spec => []Delivery!SentIsExplained
  BY DeliveryParameters, DeliveryImplemented, Delivery!SentIsExplainedHolds, PTL
<1> QED
  BY <1>1, <1>2, <1>3, Agreement, OutboxHolds, DeliveryHolds, PTL

\* A step of the pipeline does to a message what MessageLifecycle allows.
LEMMA LifecycleStep ==
    ASSUME Delivery!TypeOK, Delivery!Safety, Delivery!ClaimOwned, PartsAgree,
           OnlyCommittedDelivered, Outbox!TypeOK, [Next]_vars
    PROVE  [Lifecycle!Next]_(Lifecycle!vars)
<1> DEFINE st == [s \in Sends |-> IF s \in committed THEN status[s] ELSE "none"]
<1> USE DEF Lifecycle!vars
<1>1. ASSUME NEW s \in Sends, ServeRequest(s) PROVE [Lifecycle!Next]_(Lifecycle!vars)
  <2>1. UNCHANGED <<status, accepted, rejected, resumed, dlq>>
    BY <1>1, ServeShared DEF delivery
  <2>2. CASE committed' = committed
    BY <2>1, <2>2
  <2>3. CASE committed' = committed \cup {s} /\ s \notin committed
    <3>1. status[s] = "accepted"
      BY <2>3 DEF OnlyCommittedDelivered
    <3>2. st[s] = "none" /\ st' = [st EXCEPT ![s] = "accepted"]
      BY <2>1, <2>3, <3>1
    <3>3. Lifecycle!Accept(s)
      BY <2>1, <3>2 DEF Lifecycle!Accept
    <3> QED
      BY <3>3 DEF Lifecycle!Next
  <2> QED
    BY <1>1, <2>2, <2>3, ServeShared
<1>2. ASSUME NEW h \in Handlers, Deliver(h) PROVE [Lifecycle!Next]_(Lifecycle!vars)
  <2> DEFINE m == Working(h)
  <2>1. committed' = committed
    BY <1>2 DEF Deliver, api
  <2>2. CASE UNCHANGED <<status, accepted, rejected, resumed, dlq>>
    BY <2>1, <2>2
  <2>3. handler[h] # "idle" => m \in Sends /\ m \in committed /\ st[m] = status[m]
    <3>1. handler[h] # "idle" => job[h].copy \in Copies /\ where[job[h].copy] # "outbox"
      BY DEF PartsAgree, Delivery!TypeOK, Delivery!Jobs
    <3> QED
      BY <3>1 DEF OnlyCommittedDelivered, Working, Carries, Copies
  <2>4. ASSUME handler[h] # "idle", UNCHANGED <<accepted, rejected, resumed, dlq>>,
               status[m] = "accepted", NEW s \in Delivery!Terminal,
               <<handler[h], s>> \in {<<"markSent", "sent">>, <<"markFailed", "failed">>,
                                     <<"deadLetter", "dead_lettered">>},
               status' = [status EXCEPT ![m] = s]
        PROVE  [Lifecycle!Next]_(Lifecycle!vars)
    <3>1. st' = [st EXCEPT ![m] = s] /\ st[m] = "accepted"
      BY <2>1, <2>3, <2>4 DEF Delivery!TypeOK
    <3>2. (s = "sent" => m \in accepted \cup resumed) /\ (s = "failed" => m \in rejected)
      BY <2>4 DEF Working, Delivery!MessageOf, Delivery!ClaimOwned, Delivery!Safety,
                  Delivery!PointsJustified
    <3>3. Lifecycle!Decide(m, s)
      BY <2>4, <3>1, <3>2 DEF Lifecycle!Decide
    <3>4. s \in Lifecycle!Final
      BY DEF Delivery!Terminal, Lifecycle!Final
    <3> QED
      BY <2>3, <2>4, <3>3, <3>4 DEF Lifecycle!Next
  <2>5. CASE /\ handler[h] = "calling" /\ UNCHANGED <<status, resumed, dlq>>
             /\ \/ accepted' = accepted \cup {m} /\ UNCHANGED rejected
                \/ /\ m \notin accepted
                   /\ rejected' = rejected \cup {m} /\ UNCHANGED accepted
    <3>1. \/ status[m] \in {"accepted", "dead_lettered"}
          \/ status[m] = "sent" /\ m \in resumed
      BY <2>3, <2>5 DEF Working, Delivery!MessageOf, Delivery!ClaimOwned, Delivery!Settled,
                        Delivery!TypeOK, Delivery!Terminal
    <3>2. st' = st
      BY <2>1, <2>5
    <3>3. Lifecycle!Handle(m)
      BY <2>3, <2>5, <3>1, <3>2 DEF Lifecycle!Handle
    <3> QED
      BY <2>3, <2>5, <3>3 DEF Lifecycle!Next
  <2>6. CASE /\ handler[h] = "publishDLQ" /\ UNCHANGED <<status, accepted, rejected, resumed>>
             /\ dlq' = dlq \cup {m}
    <3>1. status[m] \in Lifecycle!Final
      BY <2>6 DEF Working, Delivery!MessageOf, Delivery!Safety, Delivery!PointsJustified,
                  Delivery!Terminal, Lifecycle!Final
    <3>2. st' = st
      BY <2>1, <2>6
    <3>3. Lifecycle!SetAside(m)
      BY <2>3, <2>6, <3>1, <3>2 DEF Lifecycle!SetAside
    <3> QED
      BY <2>3, <2>6, <3>3 DEF Lifecycle!Next
  <2>7. CASE /\ handler[h] # "idle" /\ UNCHANGED <<status, accepted, rejected, dlq>>
             /\ status[m] = "accepted"
             /\ resumed' = resumed \cup {m}
    <3>1. st' = st
      BY <2>1, <2>7
    <3>2. Lifecycle!Presume(m)
      BY <2>3, <2>7, <3>1 DEF Lifecycle!Presume
    <3> QED
      BY <2>3, <2>7, <3>2 DEF Lifecycle!Next
  <2> QED
    BY <1>2, <2>2, <2>4, <2>5, <2>6, <2>7, HandlerEffect DEF Deliver
<1>3. CASE \/ \E r \in Relays : RelayOutbox(r) \/ RelayLife(r)
           \/ \E e \in Outbox!Events : LockExpires(e)
           \/ \E slot \in API!Slots : ExpireCache(slot)
           \/ \E w \in Workers : WorkerLife(w)
           \/ UNCHANGED vars
  <2>1. UNCHANGED <<committed, status, accepted, rejected, resumed, dlq>>
    BY <1>3, ProcessEffect DEF RelayOutbox, EnqueueCopies, Delivery!Publish, RelayLife,
       LockExpires, ExpireCache, API!ExpireCache, API!store, WorkerLife, vars, api, delivery,
       Delivery!database, Delivery!observed
  <2> QED
    BY <2>1
<1> QED
  BY <1>1, <1>2, <1>3 DEF Next, Quiescent

\* The pipeline implements MessageLifecycle, whatever the limits on the attempts.
THEOREM LifecycleImplemented == Spec => ImplementsLifecycle
<1>1. Init => Lifecycle!Init
  BY DEF Init, API!Init, Delivery!Init, Lifecycle!Init
<1>2. Spec => []Delivery!ClaimOwned
  BY DeliveryParameters, DeliveryImplemented, Delivery!ClaimOwnedHolds, PTL
<1>3. /\ Delivery!TypeOK /\ Delivery!Safety /\ Delivery!ClaimOwned /\ PartsAgree
      /\ OnlyCommittedDelivered /\ Outbox!TypeOK /\ [Next]_vars
      => [Lifecycle!Next]_(Lifecycle!vars)
  BY LifecycleStep
<1> QED
  BY <1>1, <1>2, <1>3, Agreement, OutboxHolds, DeliveryHolds, PTL
     DEF Spec, ImplementsLifecycle, Lifecycle!Spec
=============================================================================
