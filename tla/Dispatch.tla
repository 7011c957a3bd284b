------------------------------ MODULE Dispatch ------------------------------
(***************************************************************************)
(* How one worker process spreads its deliveries (internal/worker          *)
(* bulkhead.go, RunConsumer in processor.go, cmd/worker): a consumer per   *)
(* queue starts a goroutine per delivery, a pool per queue limits how many *)
(* of them work, and one circuit breaker (internal/operator                *)
(* circuit_breaker.go) stands before the operator calls of all of them.    *)
(*                                                                         *)
(* What a goroutine does in the database is the matter of Worker; here it  *)
(* is one copy per message, a call, and the answer to RabbitMQ.  The       *)
(* breaker is gobreaker's, as far as the code relies on it.                *)
(***************************************************************************)
EXTENDS Integers, FiniteSets

CONSTANTS
    Queues,      \* the two work queues
    Deliveries,  \* messages, one copy each
    QueueOf,     \* queue of a delivery
    Size,        \* pool size of a queue
    Prefetch,    \* unacknowledged deliveries a consumer may hold
    Refusals,    \* messages the operator refuses (4xx)
    Threshold,   \* consecutive failures that open the breaker
    MaxRequests, \* calls a half-open breaker lets through
    MaxFaults    \* how often the operator goes down, an answer is lost or the
                 \* connection breaks

ASSUME DispatchAssumption ==
    /\ IsFiniteSet(Deliveries)
    /\ QueueOf \in [Deliveries -> Queues]
    /\ Size \in [Queues -> Nat \ {0}]
    /\ Prefetch \in Nat \ {0}
    /\ Refusals \subseteq Deliveries
    /\ Threshold \in Nat \ {0} /\ MaxRequests \in Nat \ {0}
    /\ MaxFaults \in Nat

VARIABLES
    place,      \* where a delivery is, and what its goroutine does next
    tokens,     \* in the semaphore of a queue
    leaving,    \* goroutines that have answered RabbitMQ and hold their slot
    breaker,    \* state and counts of the current generation
    current,    \* calls under way that began in the current generation
    operatorUp, \* the operator takes messages
    cancelled,  \* the run context
    connected,  \* the RabbitMQ connection is open
    consuming,  \* queues whose consumer is running
    main,       \* "run", or what main waits for after the signal
    faultsLeft

pools   == <<tokens, leaving>>
outside == <<operatorUp, cancelled, connected>>
vars    == <<place, pools, breaker, current, outside, consuming, main, faultsLeft>>

Places == {"queue", "buffer", "waiting", "running", "calling", "ack", "nack", "done"}

TypeOK ==
    /\ place \in [Deliveries -> Places]
    /\ tokens \in [Queues -> Nat]
    /\ leaving \in [Queues -> Nat]
    /\ breaker \in [state : {"closed", "open", "half"}, requests : 0 .. MaxRequests,
                    failures : 0 .. Threshold - 1, successes : 0 .. MaxRequests]
    /\ current \subseteq Deliveries
    /\ operatorUp \in BOOLEAN /\ cancelled \in BOOLEAN /\ connected \in BOOLEAN
    /\ consuming \subseteq Queues
    /\ main \in {"run", "consumers", "goroutines", "drained"}
    /\ faultsLeft \in 0 .. MaxFaults

Generation(s) == [state |-> s, requests |-> 0, failures |-> 0, successes |-> 0]

Init ==
    /\ place = [d \in Deliveries |-> "queue"]
    /\ tokens = [q \in Queues |-> 0]
    /\ leaving = [q \in Queues |-> 0]
    /\ breaker = Generation("closed")
    /\ current = {}
    /\ operatorUp = TRUE
    /\ cancelled = FALSE
    /\ connected = TRUE
    /\ consuming = Queues
    /\ main = "run"
    /\ faultsLeft = MaxFaults

-----------------------------------------------------------------------------
Step(d, from, to) == place[d] = from /\ place' = [place EXCEPT ![d] = to]

Fault == faultsLeft > 0 /\ faultsLeft' = faultsLeft - 1

Unacked(q) == {d \in Deliveries : QueueOf[d] = q /\ place[d] \notin {"queue", "done"}}

\* RabbitMQ pushes a copy, within the prefetch count of the consumer.
Deliver(d) ==
    /\ connected
    /\ Cardinality(Unacked(QueueOf[d])) < Prefetch
    /\ Step(d, "queue", "buffer")
    /\ UNCHANGED <<pools, breaker, current, outside, consuming, main, faultsLeft>>

\* The consumer takes it and starts a goroutine: it may do so even when the
\* context is cancelled, since Go picks any case of a select that is ready.
Consume(d) ==
    /\ QueueOf[d] \in consuming
    /\ Step(d, "buffer", "waiting")
    /\ UNCHANGED <<pools, breaker, current, outside, consuming, main, faultsLeft>>

\* RunConsumer returns: its context is cancelled or its deliveries are closed.
ConsumerEnds(q) ==
    /\ cancelled \/ ~connected
    /\ q \in consuming
    /\ consuming' = consuming \ {q}
    /\ UNCHANGED <<place, pools, breaker, current, outside, main, faultsLeft>>

\* Whose semaphore a goroutine of the queue uses.
Pool(q) == q

Acquire(d) ==
    LET p == Pool(QueueOf[d]) IN
    /\ tokens[p] < Size[p]
    /\ tokens' = [tokens EXCEPT ![p] = @ + 1]
    /\ Step(d, "waiting", "running")
    /\ UNCHANGED <<leaving, breaker, current, outside, consuming, main, faultsLeft>>

\* Taking a token out of an empty semaphore does nothing.
Released(q) == [tokens EXCEPT ![Pool(q)] = IF @ > 0 THEN @ - 1 ELSE @]

\* Variant (defect): the release is deferred before the slot is there.
TokensUnacquired(q) == Released(q)

\* What a goroutine without a slot leaves of the tokens: all of them.
TokensOf(q) == tokens

\* The context ends the wait for a slot; the copy is handed back.
AcquireCancelled(d) ==
    /\ cancelled
    /\ Step(d, "waiting", "queue")
    /\ tokens' = TokensOf(QueueOf[d])
    /\ UNCHANGED <<leaving, breaker, current, outside, consuming, main, faultsLeft>>

-----------------------------------------------------------------------------
(* The operator call behind the breaker.                                   *)

\* Variant (defect): a half-open breaker lets everybody through.
RefusedIfOpen == breaker.state = "open"

\* ErrOpenState, ErrTooManyRequests
Refused ==
    \/ breaker.state = "open"
    \/ breaker.state = "half" /\ breaker.requests >= MaxRequests

\* A refused call is an error of the transient kind; on a cancelled context the
\* statements before the call fail already.  The counts of a closed breaker that
\* nobody reads are left out.
BeginCall(d) ==
    /\ \/ /\ ~cancelled /\ ~Refused
          /\ Step(d, "running", "calling")
          /\ current' = current \cup {d}
          /\ breaker' = IF breaker.state = "half"
                           THEN [breaker EXCEPT !.requests = @ + 1] ELSE breaker
       \/ /\ cancelled \/ Refused
          /\ Step(d, "running", "nack")
          /\ UNCHANGED <<breaker, current>>
    /\ UNCHANGED <<pools, outside, consuming, main, faultsLeft>>

OnSuccess ==
    IF breaker.state = "half" /\ breaker.successes + 1 >= MaxRequests
       THEN Generation("closed")
       ELSE [breaker EXCEPT !.successes = IF breaker.state = "half" THEN @ + 1 ELSE @,
                            !.failures = 0]

\* Variant (defect): one failure more than configured.
TripsLate(failures) == failures > Threshold

\* ReadyToTrip
Trips(failures) == failures >= Threshold

OnFailure ==
    IF breaker.state = "half" \/ Trips(breaker.failures + 1)
       THEN Generation("open")
       ELSE [breaker EXCEPT !.failures = @ + 1]

\* The outcome of a call goes to the counts, unless they have been cleared since
\* it began; a new state clears them.
Account(d, outcome) ==
    /\ breaker' = IF d \notin current THEN breaker
                  ELSE IF outcome THEN OnSuccess ELSE OnFailure
    /\ current' = IF breaker'.state = breaker.state THEN current \ {d} ELSE {}

\* The call returns: with an answer if the operator is up, otherwise, or if an
\* answer is lost, with an error.  To the breaker a refusal by the operator is an
\* error like any other, although it settles the message.  Once the context is
\* cancelled the outcome is not recorded and the copy is handed back.
EndCall(d) ==
    /\ place[d] = "calling"
    /\ \/ /\ operatorUp /\ UNCHANGED faultsLeft
          /\ Account(d, d \notin Refusals)
          /\ place' = [place EXCEPT ![d] = IF cancelled THEN "nack" ELSE "ack"]
       \/ /\ IF operatorUp /\ ~cancelled THEN Fault ELSE UNCHANGED faultsLeft
          /\ Account(d, FALSE)
          /\ place' = [place EXCEPT ![d] = "nack"]
    /\ UNCHANGED <<pools, outside, consuming, main>>

\* The breaker's timeout has passed; the next call, or the metrics of the worker,
\* finds it half open.
HalfOpen ==
    /\ breaker.state = "open"
    /\ breaker' = Generation("half") /\ current' = {}
    /\ UNCHANGED <<place, pools, outside, consuming, main, faultsLeft>>

\* The counts of a closed breaker are cleared after an interval, if there is one.
IntervalEnds ==
    /\ breaker.state = "closed"
    /\ breaker' = Generation("closed") /\ current' = {}
    /\ UNCHANGED <<place, pools, outside, consuming, main, faultsLeft>>

-----------------------------------------------------------------------------
\* Variant (defect): a copy that is handed back keeps its slot.
LeavesOnAck(d) == place[d] = "ack"

\* The goroutine's slot is given back on every way out.
Leaves(d) == TRUE

\* handleDelivery answers RabbitMQ as it returns; over a lost connection it can
\* not, and the copy is back in the queue already ...
Answer(d) ==
    /\ Step(d, "ack", IF connected THEN "done" ELSE "queue") \/ Step(d, "nack", "queue")
    /\ leaving' = [leaving EXCEPT ![QueueOf[d]] = IF Leaves(d) THEN @ + 1 ELSE @]
    /\ UNCHANGED <<tokens, breaker, current, outside, consuming, main, faultsLeft>>

\* ... and then the slot is released.
Release(q) ==
    /\ leaving[q] > 0
    /\ leaving' = [leaving EXCEPT ![q] = @ - 1]
    /\ tokens' = Released(q)
    /\ UNCHANGED <<place, breaker, current, outside, consuming, main, faultsLeft>>

\* The operator goes down and comes back.
OperatorFails ==
    /\ operatorUp /\ Fault
    /\ operatorUp' = FALSE
    /\ UNCHANGED <<place, pools, breaker, current, cancelled, connected, consuming, main>>

OperatorRecovers ==
    /\ ~operatorUp
    /\ operatorUp' = TRUE
    /\ UNCHANGED <<place, pools, breaker, current, cancelled, connected, consuming, main,
                   faultsLeft>>

\* The connection breaks: what the library has buffered is dropped, the goroutines
\* run on.  No delivery comes any more and nothing reconnects.
LoseConnection ==
    /\ connected /\ Fault
    /\ connected' = FALSE
    /\ place' = [d \in Deliveries |-> IF place[d] = "buffer" THEN "queue" ELSE place[d]]
    /\ UNCHANGED <<pools, breaker, current, operatorUp, cancelled, consuming, main>>

Goroutines ==
    {d \in Deliveries : place[d] \in {"waiting", "running", "calling", "ack", "nack"}}

Signal ==
    /\ main = "run"
    /\ main' = "consumers"
    /\ cancelled' = TRUE
    /\ UNCHANGED <<place, pools, breaker, current, operatorUp, connected, consuming, faultsLeft>>

\* Variant (defect): main does not wait for the consumers.
ConsumersDoneAlways == TRUE

\* wg.Wait()
ConsumersDone == consuming = {}

\* processor.Wait()
GoroutinesDone == Goroutines = {} /\ \A q \in Queues : leaving[q] = 0

Drain ==
    /\ \/ main = "consumers" /\ ConsumersDone /\ main' = "goroutines"
       \/ main = "goroutines" /\ GoroutinesDone /\ main' = "drained"
    /\ UNCHANGED <<place, pools, breaker, current, outside, consuming, faultsLeft>>

-----------------------------------------------------------------------------
Handle(d) ==
    \/ Deliver(d)
    \/ Consume(d)
    \/ Acquire(d)
    \/ AcquireCancelled(d)
    \/ BeginCall(d)
    \/ EndCall(d)
    \/ Answer(d)

Next ==
    \/ \E d \in Deliveries : Handle(d)
    \/ \E q \in Queues : ConsumerEnds(q) \/ Release(q)
    \/ HalfOpen \/ IntervalEnds
    \/ OperatorFails \/ OperatorRecovers \/ LoseConnection
    \/ Signal \/ Drain

\* Goroutines run, calls end (HTTP timeout), time passes for the breaker, and an
\* operator that is down comes back.
Fairness ==
    /\ \A d \in Deliveries : WF_vars(Handle(d))
    /\ \A q \in Queues : WF_vars(ConsumerEnds(q)) /\ WF_vars(Release(q))
    /\ WF_vars(HalfOpen) /\ WF_vars(OperatorRecovers) /\ WF_vars(Drain)

Spec == Init /\ [][Next]_vars
FairSpec == Spec /\ Fairness
-----------------------------------------------------------------------------
(* Properties.                                                             *)

\* Goroutines of a queue that hold a slot.
Holding(q) == {d \in Deliveries : QueueOf[d] = q /\ place[d] \in {"running", "calling", "ack", "nack"}}

Slots(q) == Cardinality(Holding(q)) + leaving[q]

\* The tokens of a pool are exactly the goroutines of its own queue that hold a
\* slot, and never more than its size: no release is lost or made twice, and a
\* flood of one queue takes no slot from the other.
PoolsExact == \A q \in Queues : tokens[q] = Slots(q) /\ Slots(q) <= Size[q]

\* A half-open breaker has no more than MaxRequests calls under way, late calls
\* of earlier generations apart, however many goroutines race for them; and when
\* it lets no further one through, one is under way whose end decides its state:
\* it has no timeout, so a trial that was counted and never ends would close the
\* way to the operator for good.
TrialsBounded ==
    breaker.state = "half" =>
        /\ Cardinality(current) <= MaxRequests
        /\ Refused => \E d \in current : place[d] = "calling"

\* When main has waited for consumers and goroutines, none of them is left and
\* none comes: no copy is given up half handled by a process that drained.
DrainedMeansDone == main = "drained" => consuming = {} /\ GoroutinesDone

\* Every message is settled in the end, whatever the breaker does while the
\* operator is away, unless the process is stopped or cut off: the requeued copies
\* of one queue or of the other do not starve anybody for good.
EverySettled == \A d \in Deliveries : <>(place[d] = "done" \/ cancelled \/ ~connected)

\* What the proofs add: the requests a half-open breaker has counted are the calls
\* under way and those that succeeded, too few yet to close it.
TrialsCounted ==
    /\ \A d \in current : place[d] = "calling"
    /\ breaker.state = "half" =>
          /\ breaker.requests = Cardinality(current) + breaker.successes
          /\ breaker.successes < MaxRequests

\* Consumers and goroutines end before main goes on.
DrainInOrder == main \in {"goroutines", "drained"} => consuming = {}

Safety == PoolsExact /\ TrialsCounted /\ DrainInOrder /\ DrainedMeansDone
=============================================================================
