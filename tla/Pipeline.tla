------------------------------ MODULE Pipeline ------------------------------
(***************************************************************************)
(* From the request to the final status: the API's send transaction, the   *)
(* outbox relay and the delivery worker, put together from their own       *)
(* modules (cmd/api, cmd/outbox-relay, cmd/worker).                        *)
(*                                                                         *)
(* The parts share three things.  The commit of a send writes its message  *)
(* and its outbox event: SmsSend's commit is OutboxRelay's Create.  A copy *)
(* the relay gets enqueued is one the worker may receive: the broker's     *)
(* half of PublishEvent is Worker's Publish.  And the worker's sms_messages*)
(* are the rows the sends have committed.  Everything else is a step of    *)
(* one part that the others do not see.  Each part has failures of its own *)
(* kind and number.                                                        *)
(***************************************************************************)
EXTENDS Naturals, FiniteSets

CONSTANTS
    Accounts, Keys, Sends, AccountOf, KeyOf, InitialBalance, MaxBalance,
    None, Placeholder, APIFaults, MaxAPIFaults,
    EventOf,  \* EventOf[s]: the place of the event of s in created_at order
    Relays, BatchSize, MarkPublishedMaxAttempts, Slow, UnstableRelays,
    RelayFaults, MaxRelayFaults, MaxCopies,
    Workers, Handlers, ProcessOf, NoJob, PoolSize, MaxDeliveryAttempts,
    UnstableWorkers, WorkerFaults, MaxWorkerFaults

\* The n-th publication of the event of a send carries its message.
Copies  == Sends \X (1 .. MaxCopies)
Carries == [c \in Copies |-> c[1]]

ASSUME EventAssumption ==
    /\ EventOf \in [Sends -> 1 .. Cardinality(Sends)]
    /\ \A s, t \in Sends : EventOf[s] = EventOf[t] => s = t

VARIABLES
    balance, committed, idem, cache, request, seen, reply, message, apiFaults,
    event, locked, relayConnected, poll, batch, tries, copies, confirmed, relayFaults,
    status, processed, where, redelivered, attempts, dlq, up, connected,
    handler, job, answer, accepted, rejected, resumed, workerFaults

api      == <<balance, committed, idem, cache, request, seen, reply, message, apiFaults>>
outbox   == <<event, locked, relayConnected, poll, batch, tries, copies, confirmed,
              relayFaults>>
delivery == <<status, processed, where, redelivered, attempts, dlq, up, connected,
              handler, job, answer, accepted, rejected, resumed, workerFaults>>
vars     == <<api, outbox, delivery>>

\* The parts, with what is proved about them.
API == INSTANCE SmsSendProofs WITH
           Topups <- {}, AmountOf <- [t \in {} |-> 0],
           Faults <- APIFaults, MaxFaults <- MaxAPIFaults,
           pc <- request, faultsLeft <- apiFaults

Outbox == INSTANCE OutboxRelayProofs WITH
           NumEvents <- Cardinality(Sends), Unstable <- UnstableRelays,
           Faults <- RelayFaults, MaxFaults <- MaxRelayFaults,
           status <- event, connected <- relayConnected, pc <- poll,
           faultsLeft <- relayFaults

Delivery == INSTANCE WorkerProofs WITH
           Messages <- Sends, Unstable <- UnstableWorkers,
           Faults <- WorkerFaults, MaxFaults <- MaxWorkerFaults,
           pc <- handler, faultsLeft <- workerFaults

ASSUME APIAssumption ==
    /\ AccountOf \in [Sends -> Accounts]
    /\ KeyOf \in [Sends -> Keys \cup {None}]
    /\ MaxBalance \in Nat \ {0} /\ MaxAPIFaults \in Nat
    /\ InitialBalance \in [Accounts -> 0 .. MaxBalance]
    /\ None \notin Keys \cup Sends /\ Placeholder \notin Sends \cup {None}
ASSUME OutboxAssumption ==
    /\ Cardinality(Sends) \in Nat
    /\ BatchSize \in Nat \ {0} /\ MarkPublishedMaxAttempts \in Nat \ {0}
    /\ MaxRelayFaults \in Nat /\ MaxCopies \in Nat \ {0}
    /\ Slow \subseteq Outbox!Events /\ UnstableRelays \subseteq Relays
ASSUME DeliveryAssumption ==
    /\ ProcessOf \in [Handlers -> Workers] /\ NoJob \notin Delivery!Jobs
    /\ PoolSize \in Nat \ {0} /\ MaxDeliveryAttempts \in [Workers -> Nat] /\ MaxWorkerFaults \in Nat
    /\ UnstableWorkers \subseteq Workers

Init == API!Init /\ Outbox!Init /\ Delivery!Init

-----------------------------------------------------------------------------
\* Variant (defect): the event is written in a transaction of its own, which
\* stays even if that of the send is rolled back.
CommitRowsApart(s) ==
    IF request[s] = "write" /\ request'[s] # "write"
       THEN Outbox!Create(EventOf[s]) ELSE UNCHANGED outbox

\* What the last step of a send transaction leaves for the relay: the event, if
\* it has committed.
CommitRows(s) ==
    IF s \in committed' \ committed THEN Outbox!Create(EventOf[s]) ELSE UNCHANGED outbox

\* A step of a request, of SendSMS above all: its commit leaves the message and
\* the event, any other end leaves neither.
ServeRequest(s) ==
    /\ API!Arrive(s) \/ API!RequestStep(s) \/ API!Crash(s)
    /\ CommitRows(s)
    /\ UNCHANGED delivery

ExpireCache(slot) == API!ExpireCache(slot) /\ UNCHANGED <<outbox, delivery>>

\* The broker puts the copies a step of a relay has got enqueued, one at most,
\* into its queue.
EnqueueCopies ==
    \/ copies' = copies /\ UNCHANGED delivery
    \/ \E s \in Sends : /\ copies'[EventOf[s]] # copies[EventOf[s]]
                        /\ Delivery!Publish(<<s, copies'[EventOf[s]]>>)

\* A step of a poll: its publications are the worker's copies.
RelayOutbox(r) ==
    /\ Outbox!RelayStep(r)
    /\ EnqueueCopies
    /\ UNCHANGED api

RelayLife(r) == Outbox!RelayLife(r) /\ UNCHANGED <<api, delivery>>

LockExpires(e) == Outbox!LockExpires(e) /\ UNCHANGED <<api, delivery>>

Deliver(h)    == Delivery!HandlerStep(h) /\ UNCHANGED <<api, outbox>>
WorkerLife(w) == Delivery!ProcessStep(w) /\ UNCHANGED <<api, outbox>>

\* Every request has ended, every event is published, every copy acknowledged.
Quiescent ==
    /\ \A s \in Sends : request[s] = "done" /\ (s \in committed => event[EventOf[s]] = "published")
    /\ \A r \in Relays : poll[r] \in {"poll", "down"}
    /\ \A c \in Copies : where[c] \in {"outbox", "gone"}
    /\ \A h \in Handlers : handler[h] = "idle"
    /\ UNCHANGED vars

Next ==
    \/ \E s \in Sends : ServeRequest(s)
    \/ \E slot \in API!Slots : ExpireCache(slot)
    \/ \E r \in Relays : RelayOutbox(r) \/ RelayLife(r)
    \/ \E e \in Outbox!Events : LockExpires(e)
    \/ \E h \in Handlers : Deliver(h)
    \/ \E w \in Workers : WorkerLife(w)
    \/ Quiescent

Spec == Init /\ [][Next]_vars

\* The fairness of the parts: relays poll, locks expire, goroutines run and a
\* worker that was told to stop ends.
FairSpec ==
    /\ Spec
    /\ \A r \in Relays : WF_vars(RelayOutbox(r))
    /\ \A e \in Outbox!Events : WF_vars(LockExpires(e))
    /\ \A h \in Handlers : WF_vars(Deliver(h))
    /\ \A w \in Workers : WF_vars(Delivery!Exit(w) /\ UNCHANGED <<api, outbox>>)
-----------------------------------------------------------------------------
(* Properties.                                                             *)

\* The event of s is still to be published, or RabbitMQ has a copy of its message
\* to deliver, or a goroutine has one and a connection to answer on, or the
\* message is decided.
Kept(s) ==
    \/ event[EventOf[s]] = "pending"
    \/ \E c \in Copies :
          /\ c[1] = s
          /\ where[c] = "ready" \/ \E h \in Handlers : Delivery!Holds(h, c)
    \/ status[s] \in Delivery!Terminal

\* A committed send is never lost on the way, whatever fails, crashes or is cut
\* off in the three processes; and the message that a client was told is accepted
\* is one of those, its own or that of the key.
NothingIsLost ==
    /\ \A s \in committed : Kept(s)
    /\ \A s \in Sends : reply[s] = "202" => message[s] \in committed

\* Only what is committed gets to the queue, the operator, sms.dlq or a status.
OnlyCommittedDelivered ==
    /\ \A c \in Copies : where[c] # "outbox" => c[1] \in committed
    /\ accepted \cup rejected \cup dlq \subseteq committed
    /\ \A s \in Sends : status[s] # "accepted" => s \in committed

Queued(s) == \E c \in Copies : c[1] = s /\ where[c] # "outbox"

\* Nothing reaches the queue, the operator, sms.dlq or a final status that has
\* not been paid for: the account has been charged for every message of its own
\* that RabbitMQ has got, however the three processes interleave and fail.
OnlyPaidDelivered ==
    /\ OnlyCommittedDelivered
    /\ \A a \in Accounts :
          API!Cost * Cardinality({s \in Sends : AccountOf[s] = a /\ Queued(s)})
              <= InitialBalance[a] - balance[a]

\* What the two invariants above rest on: the parts agree about what they share.
PartsAgree ==
    /\ \A s \in Sends : s \in committed <=> event[EventOf[s]] # "absent"
    /\ \A r \in Relays : \A e \in batch[r] : event[e] # "absent"
    /\ \A e \in Outbox!Events : copies[e] > 0 => event[e] # "absent"
    /\ \A c \in Copies : where[c] # "outbox" <=> c[2] <= copies[EventOf[c[1]]]
    /\ \A h \in Handlers : handler[h] # "idle" => where[job[h].copy] # "outbox"

\* The copy in sms.dlq is published after the final status is committed.
DLQAfterDecision == Delivery!DLQAfterDecision

\* As long as nothing fails and no poll outlives its lock, `sent` means that the
\* operator has accepted the message, whatever the limit on the attempts and
\* however relays, workers and requests interleave.
FailureFreeSentIsAccepted ==
    \A s \in Sends : status[s] = "sent" =>
        \/ s \in accepted
        \/ EventOf[s] \in Slow
        \/ relayFaults < MaxRelayFaults
        \/ workerFaults < MaxWorkerFaults

\* The three processes together do to a message what MessageLifecycle says and
\* nothing else: every commit, poll, publication, claim, call, update, crash and
\* redelivery is one of its steps or leaves the message as it was.
Lifecycle == INSTANCE MessageLifecycle WITH
                 Messages <- Sends,
                 state <- [s \in Sends |-> IF s \in committed THEN status[s] ELSE "none"],
                 taken <- accepted, refused <- rejected, presumed <- resumed,
                 deadLetters <- dlq

ImplementsLifecycle == Lifecycle!Spec

\* What a client was told is accepted is eventually decided: sent, failed or
\* dead-lettered, unless a relay that has lost its connection polls on.
AcceptedIsDecided ==
    \A s, m \in Sends :
        reply[s] = "202" /\ message[s] = m
            ~> status[m] \in Delivery!Terminal \/ Outbox!CutOffRelay
=============================================================================
