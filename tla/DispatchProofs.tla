--------------------------- MODULE DispatchProofs ---------------------------
(***************************************************************************)
(* Proofs about Dispatch for any queues, pool sizes, deliveries, breaker   *)
(* settings and failures.                                                  *)
(***************************************************************************)
EXTENDS Dispatch, FiniteSetTheorems, TLAPS

USE DispatchAssumption DEF pools, outside

LEMMA InitTyped == Init => TypeOK
<1> SUFFICES ASSUME Init PROVE TypeOK
  OBVIOUS
<1>1. operatorUp \in BOOLEAN /\ cancelled \in BOOLEAN /\ connected \in BOOLEAN
  BY DEF Init
<1> QED
  BY <1>1 DEF Init, TypeOK, Places, Generation

\* What the outcome of a call does to the breaker.
LEMMA AccountTyped ==
    ASSUME TypeOK, NEW d \in Deliveries, NEW o \in BOOLEAN, Account(d, o)
    PROVE  /\ breaker' \in [state : {"closed", "open", "half"}, requests : 0 .. MaxRequests,
                             failures : 0 .. Threshold - 1, successes : 0 .. MaxRequests]
           /\ current' \subseteq current
<1> USE DEF TypeOK
<1>1. OnSuccess \in [state : {"closed", "open", "half"}, requests : 0 .. MaxRequests,
                     failures : 0 .. Threshold - 1, successes : 0 .. MaxRequests]
  <2>1. CASE breaker.state = "half" /\ breaker.successes + 1 >= MaxRequests
    BY <2>1 DEF OnSuccess, Generation
  <2>2. CASE breaker.state = "half" /\ ~(breaker.successes + 1 >= MaxRequests)
    <3>1. OnSuccess = [breaker EXCEPT !.successes = breaker.successes + 1, !.failures = 0]
      BY <2>2 DEF OnSuccess
    <3>2. breaker.successes + 1 \in 0 .. MaxRequests /\ 0 \in 0 .. Threshold - 1
      BY <2>2
    <3> QED
      BY <3>1, <3>2
  <2>3. CASE breaker.state # "half"
    <3>1. OnSuccess = [breaker EXCEPT !.successes = breaker.successes, !.failures = 0]
      BY <2>3 DEF OnSuccess
    <3>2. 0 \in 0 .. Threshold - 1
      OBVIOUS
    <3> QED
      BY <3>1, <3>2
  <2> QED
    BY <2>1, <2>2, <2>3
<1>2. OnFailure \in [state : {"closed", "open", "half"}, requests : 0 .. MaxRequests,
                     failures : 0 .. Threshold - 1, successes : 0 .. MaxRequests]
  BY DEF OnFailure, Generation, Trips
<1>4. breaker' = breaker \/ breaker' = OnSuccess \/ breaker' = OnFailure
  BY DEF Account
<1>5. current' \subseteq current
  BY DEF Account
<1> QED
  BY <1>1, <1>2, <1>4, <1>5

\* What a call's end may be, without the choice of its outcome.
LEMMA EndCallSplit ==
    ASSUME TypeOK, NEW d \in Deliveries, EndCall(d)
    PROVE  /\ place[d] = "calling"
           /\ \E o \in BOOLEAN : Account(d, o)
           /\ \E p \in {"ack", "nack"} : place' = [place EXCEPT ![d] = p]
           /\ faultsLeft' \in 0 .. MaxFaults
           /\ UNCHANGED <<pools, outside, consuming, main>>
<1>1. \E o \in BOOLEAN : Account(d, o)
  BY DEF EndCall
<1>2. faultsLeft' \in 0 .. MaxFaults
  <2>1. Fault \/ UNCHANGED faultsLeft
    BY DEF EndCall
  <2> QED
    BY <2>1 DEF Fault, TypeOK
<1>3. \E p \in {"ack", "nack"} : place' = [place EXCEPT ![d] = p]
  BY DEF EndCall
<1> QED
  BY <1>1, <1>2, <1>3 DEF EndCall

LEMMA HandleTyped == ASSUME TypeOK, NEW d \in Deliveries, Handle(d) PROVE TypeOK'
<1> USE DEF Step
<1>1. CASE Deliver(d) \/ Consume(d)
  BY <1>1 DEF TypeOK, Places, Deliver, Consume
<1>2. CASE Acquire(d)
  BY <1>2 DEF TypeOK, Places, Acquire, Pool
<1>3. CASE AcquireCancelled(d)
  BY <1>3 DEF TypeOK, Places, AcquireCancelled, TokensOf
<1>4. CASE BeginCall(d)
  <2>1. breaker' \in [state : {"closed", "open", "half"}, requests : 0 .. MaxRequests,
                      failures : 0 .. Threshold - 1, successes : 0 .. MaxRequests]
    BY <1>4 DEF TypeOK, BeginCall, Refused
  <2>2. place' \in [Deliveries -> Places] /\ current' \subseteq Deliveries
    BY <1>4 DEF TypeOK, Places, BeginCall
  <2> QED
    BY <1>4, <2>1, <2>2 DEF TypeOK, BeginCall
<1>5. CASE EndCall(d)
  <2>1. current' \subseteq Deliveries
    BY <1>5, EndCallSplit, AccountTyped DEF TypeOK
  <2>2. place' \in [Deliveries -> Places]
    BY <1>5, EndCallSplit DEF TypeOK, Places
  <2>3. breaker' \in [state : {"closed", "open", "half"}, requests : 0 .. MaxRequests,
                      failures : 0 .. Threshold - 1, successes : 0 .. MaxRequests]
    BY <1>5, EndCallSplit, AccountTyped
  <2> QED
    BY <1>5, <2>1, <2>2, <2>3, EndCallSplit DEF TypeOK
<1>6. CASE Answer(d)
  BY <1>6 DEF TypeOK, Places, Answer, Leaves
<1> QED
  BY <1>1, <1>2, <1>3, <1>4, <1>5, <1>6 DEF Handle

LEMMA OtherTyped ==
    ASSUME TypeOK,
           \/ \E q \in Queues : ConsumerEnds(q) \/ Release(q)
           \/ HalfOpen \/ IntervalEnds \/ OperatorFails \/ OperatorRecovers
           \/ LoseConnection \/ Signal \/ Drain \/ UNCHANGED vars
    PROVE  TypeOK'
<1>1. ASSUME NEW q \in Queues, ConsumerEnds(q) PROVE TypeOK'
  BY <1>1 DEF TypeOK, ConsumerEnds
<1>2. ASSUME NEW q \in Queues, Release(q) PROVE TypeOK'
  BY <1>2 DEF TypeOK, Release, Released, Pool
<1>3. CASE HalfOpen \/ IntervalEnds
  BY <1>3 DEF TypeOK, HalfOpen, IntervalEnds, Generation
<1>4. CASE OperatorFails \/ OperatorRecovers
  <2>1. operatorUp' \in BOOLEAN
    BY <1>4 DEF OperatorFails, OperatorRecovers
  <2> QED
    BY <1>4, <2>1 DEF TypeOK, OperatorFails, OperatorRecovers, Fault
<1>5. CASE Signal
  <2>1. cancelled' \in BOOLEAN
    BY <1>5 DEF Signal
  <2> QED
    BY <1>5, <2>1 DEF TypeOK, Signal
<1>6. CASE Drain \/ UNCHANGED vars
  BY <1>6 DEF TypeOK, Drain, vars
<1>7. CASE LoseConnection
  <2>1. connected' \in BOOLEAN /\ place' \in [Deliveries -> Places]
    BY <1>7 DEF TypeOK, Places, LoseConnection
  <2> QED
    BY <1>7, <2>1 DEF TypeOK, LoseConnection, Fault
<1> QED
  BY <1>1, <1>2, <1>3, <1>4, <1>5, <1>6, <1>7

LEMMA NextTyped == TypeOK /\ [Next]_vars => TypeOK'
BY HandleTyped, OtherTyped DEF Next

\* Type correctness of every variable.
THEOREM TypeCorrect == Spec => []TypeOK
BY InitTyped, NextTyped, PTL DEF Spec

-----------------------------------------------------------------------------
LEMMA HoldingFinite == \A q : IsFiniteSet(Holding(q)) /\ Cardinality(Holding(q)) \in Nat
BY FS_Subset, FS_CardinalityType DEF Holding

\* Steps that leave the pools alone.
LEMMA PoolsStay ==
    ASSUME PoolsExact, UNCHANGED pools,
           \A d \in Deliveries : place'[d] \in {"running", "calling", "ack", "nack"}
                                   <=> place[d] \in {"running", "calling", "ack", "nack"}
    PROVE  PoolsExact'
<1>1. \A q : Holding(q)' = Holding(q)
  BY DEF Holding
<1> QED
  BY <1>1 DEF PoolsExact, Slots

LEMMA AcquireExact == ASSUME TypeOK, PoolsExact, NEW d \in Deliveries, Acquire(d) PROVE PoolsExact'
<1> DEFINE p == QueueOf[d]
<1>1. p \in Queues /\ tokens[p] < Size[p] /\ tokens' = [tokens EXCEPT ![p] = @ + 1]
      /\ place[d] = "waiting" /\ place' = [place EXCEPT ![d] = "running"] /\ leaving' = leaving
  BY DEF Acquire, Step, Pool
<1>2. Holding(p)' = Holding(p) \cup {d} /\ d \notin Holding(p)
  BY <1>1 DEF Holding, TypeOK
<1>3. Cardinality(Holding(p)') = Cardinality(Holding(p)) + 1
  BY <1>2, HoldingFinite, FS_AddElement
<1>4. \A q \in Queues : q # p => Holding(q)' = Holding(q)
  BY <1>1 DEF Holding, TypeOK
<1> HIDE DEF p
<1>5. SUFFICES ASSUME NEW q \in Queues PROVE (tokens[q] = Slots(q) /\ Slots(q) <= Size[q])'
  BY DEF PoolsExact
<1>6. tokens[q] = Cardinality(Holding(q)) + leaving[q] /\ tokens[q] <= Size[q]
  BY DEF PoolsExact, Slots
<1>7. tokens[q] \in Nat /\ leaving[q] \in Nat /\ Size[q] \in Nat /\ Cardinality(Holding(q)) \in Nat
  BY HoldingFinite DEF TypeOK
<1>8. tokens'[q] = Cardinality(Holding(q)') + leaving'[q] /\ tokens'[q] <= Size[q]
  <2>1. CASE q = p
    BY <1>1, <1>3, <1>6, <1>7, <2>1 DEF TypeOK
  <2>2. CASE q # p
    BY <1>1, <1>4, <1>6, <2>2 DEF TypeOK
  <2> QED
    BY <2>1, <2>2
<1> QED
  BY <1>8 DEF Slots

LEMMA AnswerExact == ASSUME TypeOK, PoolsExact, NEW d \in Deliveries, Answer(d) PROVE PoolsExact'
<1> DEFINE p == QueueOf[d]
<1>1. p \in Queues /\ tokens' = tokens /\ leaving' = [leaving EXCEPT ![p] = @ + 1]
      /\ place[d] \in {"ack", "nack"} /\ place'[d] \in {"done", "queue"}
      /\ \A c \in Deliveries : c # d => place'[c] = place[c]
  BY DEF Answer, Step, Leaves, TypeOK
<1>2. Holding(p)' = Holding(p) \ {d} /\ d \in Holding(p)
  BY <1>1 DEF Holding
<1>3. Cardinality(Holding(p)') = Cardinality(Holding(p)) - 1
  <2> DEFINE S == Holding(p)
  <2>1. IsFiniteSet(S)
    BY <1>1, HoldingFinite
  <2> HIDE DEF S
  <2>2. d \in S => Cardinality(S \ {d}) = Cardinality(S) - 1
    BY <2>1, FS_RemoveElement, Zenon
  <2> QED
    BY <1>2, <2>2 DEF S
<1>4. \A q \in Queues : q # p => Holding(q)' = Holding(q)
  BY <1>1 DEF Holding
<1> HIDE DEF p
<1>5. SUFFICES ASSUME NEW q \in Queues PROVE (tokens[q] = Slots(q) /\ Slots(q) <= Size[q])'
  BY DEF PoolsExact
<1>6. tokens[q] = Cardinality(Holding(q)) + leaving[q] /\ tokens[q] <= Size[q]
  BY DEF PoolsExact, Slots
<1>7. tokens[q] \in Nat /\ leaving[q] \in Nat /\ Cardinality(Holding(q)) \in Nat
  BY HoldingFinite DEF TypeOK
<1>8. tokens'[q] = Cardinality(Holding(q)') + leaving'[q] /\ tokens'[q] <= Size[q]
  <2>1. CASE q = p
    BY <1>1, <1>3, <1>6, <1>7, <2>1 DEF TypeOK
  <2>2. CASE q # p
    BY <1>1, <1>4, <1>6, <2>2 DEF TypeOK
  <2> QED
    BY <2>1, <2>2
<1> QED
  BY <1>8 DEF Slots

LEMMA ReleaseExact == ASSUME TypeOK, PoolsExact, NEW p \in Queues, Release(p) PROVE PoolsExact'
<1>1. \A q : Holding(q)' = Holding(q)
  BY DEF Release, Holding
<1>2. SUFFICES ASSUME NEW q \in Queues PROVE (tokens[q] = Slots(q) /\ Slots(q) <= Size[q])'
  BY DEF PoolsExact
<1>3. tokens[q] = Cardinality(Holding(q)) + leaving[q] /\ tokens[q] <= Size[q]
  BY DEF PoolsExact, Slots
<1>4. tokens[q] \in Nat /\ leaving[q] \in Nat /\ Cardinality(Holding(q)) \in Nat /\ Size[q] \in Nat
  BY HoldingFinite DEF TypeOK
<1>5. leaving[p] > 0 /\ leaving' = [leaving EXCEPT ![p] = @ - 1]
      /\ tokens' = [tokens EXCEPT ![p] = IF @ > 0 THEN @ - 1 ELSE @]
  BY DEF Release, Released, Pool
<1>6. tokens'[q] = Cardinality(Holding(q)) + leaving'[q] /\ tokens'[q] <= Size[q]
  BY <1>3, <1>4, <1>5 DEF TypeOK
<1> QED
  BY <1>1, <1>6 DEF Slots

LEMMA PoolsKept == TypeOK /\ PoolsExact /\ [Next]_vars => PoolsExact'
<1> SUFFICES ASSUME TypeOK, PoolsExact, [Next]_vars PROVE PoolsExact'
  OBVIOUS
<1>1. ASSUME NEW d \in Deliveries, Deliver(d) \/ Consume(d) \/ AcquireCancelled(d) PROVE PoolsExact'
  BY <1>1, PoolsStay DEF Deliver, Consume, AcquireCancelled, TokensOf, Step, TypeOK
<1>2. ASSUME NEW d \in Deliveries, BeginCall(d) PROVE PoolsExact'
  BY <1>2, PoolsStay DEF BeginCall, Step, TypeOK
<1>3. ASSUME NEW d \in Deliveries, EndCall(d) PROVE PoolsExact'
  BY <1>3, PoolsStay, EndCallSplit DEF TypeOK
<1>4. ASSUME NEW q \in Queues, ConsumerEnds(q) PROVE PoolsExact'
  BY <1>4, PoolsStay DEF ConsumerEnds
<1>5. ASSUME \/ HalfOpen \/ IntervalEnds \/ OperatorFails \/ OperatorRecovers
             \/ LoseConnection \/ Signal \/ Drain
      PROVE  PoolsExact'
  BY <1>5, PoolsStay DEF HalfOpen, IntervalEnds, OperatorFails, OperatorRecovers,
                         LoseConnection, Signal, Drain
<1>6. ASSUME UNCHANGED vars PROVE PoolsExact'
  BY <1>6, PoolsStay DEF vars
<1>7. ASSUME NEW d \in Deliveries, Handle(d) PROVE PoolsExact'
  BY <1>1, <1>2, <1>3, <1>7, AcquireExact, AnswerExact DEF Handle
<1> QED
  BY <1>4, <1>5, <1>6, <1>7, ReleaseExact DEF Next

-----------------------------------------------------------------------------
\* What the end of a call does to the trials: one that succeeds and does not close
\* the breaker is counted among the successes, one that fails ends the trial.
LEMMA AccountCounted ==
    ASSUME TypeOK, NEW d \in Deliveries, NEW o \in BOOLEAN, Account(d, o), breaker'.state = "half"
    PROVE  /\ breaker.state = "half" /\ breaker'.requests = breaker.requests
           /\ \/ d \notin current /\ UNCHANGED <<breaker, current>>
              \/ /\ d \in current /\ current' = current \ {d}
                 /\ breaker'.successes = breaker.successes + 1
                 /\ breaker.successes + 1 < MaxRequests
<1> USE DEF TypeOK
<1>1. OnFailure.state # "half"
  BY DEF OnFailure, Generation
<1>2. OnSuccess.state = "half" =>
         /\ breaker.state = "half" /\ OnSuccess.requests = breaker.requests
         /\ OnSuccess.successes = breaker.successes + 1
         /\ breaker.successes + 1 < MaxRequests
  BY DEF OnSuccess, Generation
<1>3. CASE d \notin current
  BY <1>3 DEF Account
<1>4. CASE d \in current
  <2>1. breaker' = OnSuccess
    BY <1>1, <1>4 DEF Account
  <2> QED
    BY <1>2, <1>4, <2>1 DEF Account
<1> QED
  BY <1>3, <1>4

\* The calls under way, by where their goroutines are.
LEMMA CurrentKept ==
    ASSUME TypeOK, TrialsCounted, [Next]_vars
    PROVE  \A d \in current' : place'[d] = "calling"
<1> USE DEF TypeOK, TrialsCounted, Step
<1>1. ASSUME NEW d \in Deliveries, BeginCall(d) PROVE \A c \in current' : place'[c] = "calling"
  BY <1>1 DEF BeginCall
<1>2. ASSUME NEW d \in Deliveries, EndCall(d) PROVE \A c \in current' : place'[c] = "calling"
  <2>1. PICK o \in BOOLEAN : Account(d, o)
    BY <1>2, EndCallSplit
  <2>2. current' \subseteq current \ {d}
    BY <2>1 DEF Account
  <2> QED
    BY <1>2, <2>2, EndCallSplit
<1>3. ASSUME NEW d \in Deliveries, Handle(d) PROVE \A c \in current' : place'[c] = "calling"
  BY <1>1, <1>2, <1>3 DEF Handle, Deliver, Consume, Acquire, AcquireCancelled, Answer
<1>4. CASE HalfOpen \/ IntervalEnds
  BY <1>4 DEF HalfOpen, IntervalEnds
<1>5. CASE UNCHANGED <<place, current>>
  BY <1>5
<1>6. CASE LoseConnection
  BY <1>6 DEF LoseConnection
<1> QED
  BY <1>3, <1>4, <1>5, <1>6
     DEF Next, ConsumerEnds, Release, OperatorFails, OperatorRecovers, Signal, Drain, vars

LEMMA TrialsKept == TypeOK /\ TrialsCounted /\ [Next]_vars => TrialsCounted'
<1> DEFINE Counted == /\ breaker.requests = Cardinality(current) + breaker.successes
                      /\ breaker.successes < MaxRequests
<1> SUFFICES ASSUME TypeOK, TrialsCounted, [Next]_vars, breaker'.state = "half"
             PROVE  Counted'
  BY CurrentKept DEF TrialsCounted
<1>1. /\ IsFiniteSet(current) /\ Cardinality(current) \in Nat
      /\ breaker.requests \in Nat /\ breaker.successes \in Nat
  BY FS_Subset, FS_CardinalityType DEF TypeOK
<1>2. ASSUME NEW d \in Deliveries, BeginCall(d) PROVE Counted'
  <2>1. CASE place[d] = "running" /\ current' = current \cup {d} /\ breaker.state = "half"
             /\ breaker' = [breaker EXCEPT !.requests = @ + 1]
    <3>1. /\ Counted /\ breaker'.requests = breaker.requests + 1
          /\ breaker'.successes = breaker.successes
      BY <2>1 DEF TrialsCounted, TypeOK
    <3>2. d \notin current
      BY <2>1 DEF TrialsCounted
    <3>3. Cardinality(current') = Cardinality(current) + 1
      BY <1>1, <2>1, <3>2, FS_AddElement
    <3> QED
      BY <1>1, <3>1, <3>3
  <2>2. CASE UNCHANGED <<breaker, current>>
    BY <2>2 DEF TrialsCounted
  <2> QED
    BY <1>2, <2>1, <2>2 DEF BeginCall, Step
<1>3. ASSUME NEW d \in Deliveries, EndCall(d) PROVE Counted'
  <2>1. PICK o \in BOOLEAN : Account(d, o)
    BY <1>3, EndCallSplit
  <2>2. CASE UNCHANGED <<breaker, current>>
    BY <2>2 DEF TrialsCounted
  <2>3. CASE ~UNCHANGED <<breaker, current>>
    <3>1. /\ breaker.state = "half" /\ breaker'.requests = breaker.requests
          /\ d \in current /\ current' = current \ {d}
          /\ breaker'.successes = breaker.successes + 1
          /\ breaker.successes + 1 < MaxRequests
      BY <2>1, <2>3, AccountCounted
    <3>2. Cardinality(current') = Cardinality(current) - 1
      BY <1>1, <3>1, FS_RemoveElement
    <3> QED
      BY <1>1, <3>1, <3>2 DEF TrialsCounted
  <2> QED
    BY <2>2, <2>3
<1>4. ASSUME UNCHANGED <<breaker, current>> PROVE Counted'
  BY <1>4 DEF TrialsCounted
<1>5. ASSUME HalfOpen \/ IntervalEnds PROVE Counted'
  <2>1. current' = {} /\ breaker'.requests = 0 /\ breaker'.successes = 0
    BY <1>5 DEF HalfOpen, IntervalEnds, Generation
  <2> QED
    BY <2>1, FS_EmptySet
<1> HIDE DEF Counted
<1>6. ASSUME NEW d \in Deliveries, Handle(d) PROVE Counted'
  BY <1>2, <1>3, <1>4, <1>6 DEF Handle, Deliver, Consume, Acquire, AcquireCancelled, Answer
<1>7. ASSUME NEW q \in Queues, ConsumerEnds(q) \/ Release(q) PROVE Counted'
  BY <1>4, <1>7 DEF ConsumerEnds, Release
<1>8. ASSUME \/ OperatorFails \/ OperatorRecovers \/ LoseConnection
             \/ Signal \/ Drain \/ UNCHANGED vars
      PROVE  Counted'
  BY <1>4, <1>8 DEF OperatorFails, OperatorRecovers, LoseConnection, Signal, Drain, vars
<1> QED
  BY <1>5, <1>6, <1>7, <1>8 DEF Next

LEMMA DrainKept ==
    TypeOK /\ DrainInOrder /\ DrainedMeansDone /\ [Next]_vars
        => DrainInOrder' /\ DrainedMeansDone'
<1> SUFFICES ASSUME TypeOK, DrainInOrder, DrainedMeansDone, [Next]_vars
             PROVE  DrainInOrder' /\ DrainedMeansDone'
  OBVIOUS
<1> USE DEF DrainInOrder, DrainedMeansDone
<1>1. ASSUME NEW d \in Deliveries, Handle(d) PROVE DrainInOrder' /\ DrainedMeansDone'
  <2>1. UNCHANGED <<consuming, main>>
    BY <1>1 DEF Handle, Deliver, Consume, Acquire, AcquireCancelled, BeginCall, EndCall, Answer
  <2>2. CASE main = "drained"
    <3>1. consuming = {} /\ place[d] \notin {"waiting", "running", "calling", "ack", "nack"}
      BY <2>2 DEF GoroutinesDone, Goroutines
    <3>2. Deliver(d)
      BY <1>1, <3>1 DEF Handle, Consume, Acquire, AcquireCancelled, BeginCall, EndCall, Answer, Step
    <3>3. Goroutines' = {} /\ leaving' = leaving
      BY <2>2, <3>2 DEF Deliver, Step, Goroutines, GoroutinesDone, TypeOK
    <3> QED
      BY <2>1, <2>2, <3>3 DEF GoroutinesDone
  <2>3. CASE main # "drained"
    BY <2>1, <2>3
  <2> QED
    BY <2>2, <2>3
<1>2. ASSUME NEW q \in Queues, ConsumerEnds(q) PROVE DrainInOrder' /\ DrainedMeansDone'
  BY <1>2 DEF ConsumerEnds, GoroutinesDone, Goroutines
<1>3. ASSUME NEW q \in Queues, Release(q) PROVE DrainInOrder' /\ DrainedMeansDone'
  <2>1. main # "drained"
    BY <1>3 DEF Release, GoroutinesDone, TypeOK
  <2> QED
    BY <1>3, <2>1 DEF Release
<1>4. ASSUME HalfOpen \/ IntervalEnds \/ OperatorFails \/ OperatorRecovers
      PROVE  DrainInOrder' /\ DrainedMeansDone'
  BY <1>4 DEF HalfOpen, IntervalEnds, OperatorFails, OperatorRecovers, GoroutinesDone, Goroutines
<1>5. ASSUME Signal PROVE DrainInOrder' /\ DrainedMeansDone'
  BY <1>5 DEF Signal
<1>6. ASSUME Drain PROVE DrainInOrder' /\ DrainedMeansDone'
  BY <1>6 DEF Drain, ConsumersDone, GoroutinesDone, Goroutines
<1>7. ASSUME UNCHANGED vars PROVE DrainInOrder' /\ DrainedMeansDone'
  BY <1>7 DEF vars, GoroutinesDone, Goroutines
<1>8. ASSUME LoseConnection PROVE DrainInOrder' /\ DrainedMeansDone'
  <2>1. Goroutines' = Goroutines
    BY <1>8 DEF LoseConnection, Goroutines
  <2> QED
    BY <1>8, <2>1 DEF LoseConnection, GoroutinesDone
<1> QED
  BY <1>1, <1>2, <1>3, <1>4, <1>5, <1>6, <1>7, <1>8 DEF Next

-----------------------------------------------------------------------------
LEMMA InitSafe == Init => Safety
<1> SUFFICES ASSUME Init PROVE Safety
  OBVIOUS
<1>1. \A q \in Queues : Holding(q) = {} /\ tokens[q] = 0 /\ leaving[q] = 0 /\ Size[q] \in Nat
  BY DEF Init, Holding
<1>2. PoolsExact
  BY <1>1, FS_EmptySet DEF PoolsExact, Slots
<1>3. TrialsCounted /\ DrainInOrder /\ DrainedMeansDone
  BY DEF Init, Generation, TrialsCounted, DrainInOrder, DrainedMeansDone
<1> QED
  BY <1>2, <1>3 DEF Safety

\* The inductive invariant.
THEOREM SafetyHolds == Spec => [](TypeOK /\ Safety)
<1>1. Init => TypeOK /\ Safety
  BY InitTyped, InitSafe
<1>2. TypeOK /\ Safety /\ [Next]_vars => (TypeOK /\ Safety)'
  BY NextTyped, PoolsKept, TrialsKept, DrainKept DEF Safety
<1> QED
  BY <1>1, <1>2, PTL DEF Spec

\* The semaphores count the goroutines that work, of their own queue only.
THEOREM PoolsAreExact == Spec => []PoolsExact
<1>1. TypeOK /\ Safety => PoolsExact
  BY DEF Safety
<1> QED
  BY <1>1, SafetyHolds, PTL

\* A half-open breaker lets MaxRequests calls through and does not get stuck.
THEOREM TrialsAreBounded == Spec => []TrialsBounded
<1>1. TypeOK /\ Safety => TrialsBounded
  <2> SUFFICES ASSUME TypeOK, Safety, breaker.state = "half"
               PROVE  /\ Cardinality(current) <= MaxRequests
                      /\ Refused => \E d \in current : place[d] = "calling"
    BY DEF TrialsBounded
  <2>1. /\ IsFiniteSet(current) /\ Cardinality(current) \in Nat
        /\ breaker.requests \in 0 .. MaxRequests /\ breaker.successes \in Nat
    BY FS_Subset, FS_CardinalityType DEF TypeOK
  <2>2. /\ breaker.requests = Cardinality(current) + breaker.successes
        /\ breaker.successes < MaxRequests
        /\ \A d \in current : place[d] = "calling"
    BY DEF Safety, TrialsCounted
  <2>3. Refused => Cardinality(current) > 0
    BY <2>1, <2>2 DEF Refused
  <2>4. current = {} => Cardinality(current) = 0
    BY FS_EmptySet
  <2> QED
    BY <2>1, <2>2, <2>3, <2>4
<1> QED
  BY <1>1, SafetyHolds, PTL

\* A process that has drained has no goroutine left.
THEOREM DrainIsComplete == Spec => []DrainedMeansDone
<1>1. TypeOK /\ Safety => DrainedMeansDone
  BY DEF Safety
<1> QED
  BY <1>1, SafetyHolds, PTL
=============================================================================
