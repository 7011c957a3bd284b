------------------------------- MODULE Worker -------------------------------
(***************************************************************************)
(* The delivery worker: goroutines that take copies of an accepted message *)
(* from one RabbitMQ queue, claim the message in Postgres, call the        *)
(* operator and record the outcome (internal/worker, cmd/worker).          *)
(*                                                                         *)
(* A copy is one publication of a message by the outbox relay; the relay   *)
(* publishes at least once, so a message may have several.  Every database *)
(* statement, broker call and operator call is a step of its own, and each *)
(* may fail without effect or take effect and still return an error.       *)
(***************************************************************************)
EXTENDS Naturals, FiniteSets

CONSTANTS
    Messages,            \* rows of sms_messages
    Copies,              \* publications of those messages by the relay
    Carries,             \* Carries[c]: the message in the payload of copy c
    Workers,             \* worker processes
    Handlers,            \* handler goroutines
    ProcessOf,           \* ProcessOf[h]: the process goroutine h runs in
    NoJob,               \* the job of an idle goroutine
    PoolSize,            \* size of the bulkhead semaphore of the queue
    MaxDeliveryAttempts, \* WORKER_MAX_DELIVERY_ATTEMPTS of a process, 0 turns it off
    Unstable,            \* workers that may crash, be stopped or cut off
    Faults,              \* the classes of failure that may happen
    MaxFaults            \* how many failures happen in all

Jobs == [copy : Copies, redelivered : BOOLEAN]

ASSUME CarriesAssumption   == Carries \in [Copies -> Messages]
ASSUME ProcessOfAssumption == ProcessOf \in [Handlers -> Workers]
ASSUME NoJobAssumption     == NoJob \notin Jobs
ASSUME NumberAssumption    == /\ PoolSize \in Nat \ {0}
                              /\ MaxDeliveryAttempts \in [Workers -> Nat]
                              /\ MaxFaults \in Nat
ASSUME FaultAssumption     == Unstable \subseteq Workers

VARIABLES
    status,      \* sms_messages.status
    processed,   \* processed_consumer_events: the messages that are claimed
    where,       \* where a copy is: with the relay, in the queue, delivered
    redelivered, \* the redelivered flag the broker keeps with a copy
    attempts,    \* how often a copy was handed back (capped; the doc's count)
    dlq,         \* messages of which sms.dlq holds a copy
    up,          \* phase of a worker process
    connected,   \* whether its RabbitMQ connection is open
    pc,          \* control point of a handler goroutine
    job,         \* the delivery it works on, with the flag it arrived with
    answer,      \* what the operator has answered to its request
    accepted,    \* messages the operator has accepted
    rejected,    \* messages the operator has answered with a 4xx
    resumed,     \* messages whose claim a goroutine has taken over (history)
    faultsLeft   \* failures that may still happen

database == <<status, processed>>
broker   == <<where, redelivered, attempts, dlq>>
process  == <<up, connected>>
local    == <<pc, job, answer>>
observed == <<accepted, rejected, resumed>>
vars     == <<database, broker, process, local, observed, faultsLeft>>

Terminal == {"sent", "failed", "dead_lettered"}
Points   == {"idle", "waiting", "readStatus", "insertClaim", "rereadStatus",
             "calling", "release", "markSent", "markFailed", "deadLetter",
             "publishDLQ", "ack", "nack"}

TypeOK ==
    /\ status \in [Messages -> {"accepted"} \cup Terminal]
    /\ processed \subseteq Messages
    /\ where \in [Copies -> {"outbox", "ready", "unacked", "gone"}]
    /\ redelivered \in [Copies -> BOOLEAN]
    /\ attempts \in [Copies -> Nat]
    /\ dlq \subseteq Messages
    /\ up \in [Workers -> {"running", "stopping", "down"}]
    /\ connected \in [Workers -> BOOLEAN]
    /\ pc \in [Handlers -> Points]
    /\ job \in [Handlers -> Jobs \cup {NoJob}]
    /\ answer \in [Handlers -> {"none", "accepted", "rejected", "error"}]
    /\ accepted \subseteq Messages
    /\ rejected \subseteq Messages
    /\ resumed \subseteq Messages
    /\ faultsLeft \in 0 .. MaxFaults
    /\ \A h \in Handlers : pc[h] # "idle" => job[h] \in Jobs

Init ==
    /\ status = [m \in Messages |-> "accepted"]
    /\ processed = {}
    /\ where = [c \in Copies |-> "outbox"]
    /\ redelivered = [c \in Copies |-> FALSE]
    /\ attempts = [c \in Copies |-> 0]
    /\ dlq = {}
    /\ up = [w \in Workers |-> "running"]
    /\ connected = [w \in Workers |-> TRUE]
    /\ pc = [h \in Handlers |-> "idle"]
    /\ job = [h \in Handlers |-> NoJob]
    /\ answer = [h \in Handlers |-> "none"]
    /\ accepted = {}
    /\ rejected = {}
    /\ resumed = {}
    /\ faultsLeft = MaxFaults

-----------------------------------------------------------------------------
(* What a goroutine sees and how its calls end.                            *)

CopyOf(h)    == job[h].copy
MessageOf(h) == Carries[job[h].copy]

\* The run context of the process is cancelled by SIGTERM.
ContextLive(h) == up[ProcessOf[h]] = "running"

Goto(h, point) == pc' = [pc EXCEPT ![h] = point]

Fault(class) == /\ class \in Faults
                /\ faultsLeft > 0
                /\ faultsLeft' = faultsLeft - 1

\* A call of the given class returns an error: because something failed, or,
\* once the run context is cancelled, because of that alone.
Errs(h, class) == IF ContextLive(h) THEN Fault(class) ELSE UNCHANGED faultsLeft

\* A call returns without error, which takes a live context.
Succeeds(h) == ContextLive(h) /\ UNCHANGED faultsLeft

\* A write that returns `ok`: without an error it has been applied, with one
\* it may or may not have been (the answer to the commit was lost).  A write
\* issued on a cancelled context is never applied.
Write(h, class, applied, ok) ==
    \/ ok /\ applied /\ Succeeds(h)
    \/ ~ok /\ Errs(h, class) /\ (applied => ContextLive(h))

\* x-death is written by the broker when it dead-letters a copy; none of the
\* queues declares a dead-letter exchange, so it is never there and the count
\* falls back on the redelivered flag.
DeliveryAttemptCount(h) == IF job[h].redelivered THEN 1 ELSE 0

\* The setting of the process, read from its environment when it starts.
AttemptLimit(h) == MaxDeliveryAttempts[ProcessOf[h]]

ShouldDeadLetter(h) ==
    /\ AttemptLimit(h) > 0
    /\ DeliveryAttemptCount(h) >= AttemptLimit(h)

\* Goroutines of the process of h that hold a slot of the bulkhead.
Running(h) == {g \in Handlers : /\ ProcessOf[g] = ProcessOf[h]
                                /\ pc[g] \notin {"idle", "waiting"}}

\* Variant (defect): the status guard of the UPDATE is missing.
MarkAlways(m, s) == status' = [status EXCEPT ![m] = s]

\* UPDATE sms_messages SET status WHERE id = m AND status = 'accepted'.
MarkIfAccepted(m, s) ==
    status' = IF status[m] = "accepted" THEN [status EXCEPT ![m] = s] ELSE status

\* GetByAccountAndIDTx and the switch on the status it returns.
Decided(h) == status[MessageOf(h)] \in Terminal

\* INSERT INTO processed_consumer_events ... ON CONFLICT DO NOTHING.
Claimed(m) == processed \cup {m}

\* DeleteClaim: DELETE FROM processed_consumer_events WHERE message_id = m.
Released(m) == processed \ {m}

-----------------------------------------------------------------------------
(* The broker and the relay.                                               *)

\* The relay's publication of a copy is enqueued.
Publish(c) ==
    /\ where[c] = "outbox"
    /\ where' = [where EXCEPT ![c] = "ready"]
    /\ UNCHANGED <<database, redelivered, attempts, dlq, process, local,
                   observed, faultsLeft>>

\* The broker puts unacknowledged copies back, marked as redelivered.
Requeue(cs) ==
    /\ where' = [c \in Copies |-> IF c \in cs THEN "ready" ELSE where[c]]
    /\ redelivered' = [c \in Copies |-> c \in cs \/ redelivered[c]]

\* Copies delivered to w over the connection it has now.
Unacked(w) == {CopyOf(h) : h \in {g \in Handlers : /\ ProcessOf[g] = w
                                                   /\ pc[g] # "idle"
                                                   /\ connected[w]}}

\* RunConsumer takes a delivery and starts a goroutine for it.  A consumer
\* whose context is cancelled may still win the select with a delivery.
Receive(h, c) ==
    /\ pc[h] = "idle"
    /\ up[ProcessOf[h]] # "down"
    /\ connected[ProcessOf[h]]
    /\ where[c] = "ready"
    /\ where' = [where EXCEPT ![c] = "unacked"]
    /\ job' = [job EXCEPT ![h] = [copy |-> c, redelivered |-> redelivered[c]]]
    /\ Goto(h, "waiting")
    /\ UNCHANGED <<database, redelivered, attempts, dlq, process, answer,
                   observed, faultsLeft>>

\* Bulkhead.Acquire: a free slot, or the cancelled context sends it back.
Acquire(h) ==
    /\ pc[h] = "waiting"
    /\ \/ /\ Cardinality(Running(h)) < PoolSize
          /\ Goto(h, IF ShouldDeadLetter(h) THEN "deadLetter" ELSE "readStatus")
       \/ ~ContextLive(h) /\ Goto(h, "nack")
    /\ UNCHANGED <<database, broker, process, job, answer, observed, faultsLeft>>

-----------------------------------------------------------------------------
(* claimDelivery: one transaction, read committed.                         *)

\* The first read of the status.
ReadStatus(h) ==
    /\ pc[h] = "readStatus"
    /\ \/ /\ Succeeds(h)
          /\ Goto(h, IF Decided(h) THEN "ack" ELSE "insertClaim")
       \/ Errs(h, "db") /\ Goto(h, "nack")
    /\ UNCHANGED <<database, broker, process, job, answer, observed>>

\* MarkProcessedIfNew and, when the row is new, the commit that follows.  A
\* conflicting insert waits for the other transaction to end, so insertion and
\* commit are one step.
InsertClaim(h) ==
    /\ pc[h] = "insertClaim"
    /\ \/ /\ MessageOf(h) \notin processed
          /\ \E applied, ok \in BOOLEAN :
                /\ Write(h, "db", applied, ok)
                /\ processed' = IF applied THEN Claimed(MessageOf(h)) ELSE processed
                /\ Goto(h, IF ok THEN "calling" ELSE "nack")
       \/ /\ MessageOf(h) \in processed
          /\ \/ Succeeds(h) /\ Goto(h, "rereadStatus")
             \/ Errs(h, "db") /\ Goto(h, "nack")
          /\ UNCHANGED processed
    /\ UNCHANGED <<status, broker, process, job, answer, observed>>

\* Variant (defect): resuming repeats the operator call.
ClaimAfterConflictCalls(h) == IF job[h].redelivered THEN "calling" ELSE "nack"

\* Variant (defect): a redelivered copy waits for the claim like any other.
ClaimAfterConflictWaits(h) == "nack"

\* claimResume goes straight to markSent, claimInProgress back to the queue.
ClaimAfterConflict(h) == IF job[h].redelivered THEN "markSent" ELSE "nack"

\* The second read, after a conflict: done, resume or in progress.
RereadStatus(h) ==
    /\ pc[h] = "rereadStatus"
    /\ \/ /\ Succeeds(h)
          /\ Goto(h, IF Decided(h) THEN "ack" ELSE ClaimAfterConflict(h))
          /\ resumed' = IF ~Decided(h) /\ ClaimAfterConflict(h) = "markSent"
                           THEN resumed \cup {MessageOf(h)} ELSE resumed
       \/ Errs(h, "db") /\ Goto(h, "nack") /\ UNCHANGED resumed
    /\ UNCHANGED <<database, broker, process, job, answer, accepted, rejected>>

-----------------------------------------------------------------------------
(* The operator call and what follows it.                                  *)

\* The operator handles the request of h.  A message it has accepted before
\* is answered like the first time (idempotent by message_id).
OperatorHandles(h) ==
    /\ pc[h] = "calling"
    /\ answer[h] = "none"
    /\ \/ /\ answer' = [answer EXCEPT ![h] = "accepted"]
          /\ accepted' = accepted \cup {MessageOf(h)}
          /\ UNCHANGED <<rejected, faultsLeft>>
       \/ /\ MessageOf(h) \notin accepted
          /\ answer' = [answer EXCEPT ![h] = "rejected"]
          /\ rejected' = rejected \cup {MessageOf(h)}
          /\ UNCHANGED <<accepted, faultsLeft>>
       \/ /\ MessageOf(h) \notin accepted
          /\ answer' = [answer EXCEPT ![h] = "error"]
          /\ Fault("operator")
          /\ UNCHANGED <<accepted, rejected>>
    /\ UNCHANGED <<database, broker, process, pc, job, resumed>>

\* HTTPClient.Send returns a reference, a permanent error, or a transient one (a
\* 5xx, a lost answer, a timeout, an open circuit, a cancelled context).
Returns(h, result) ==
    \/ result \in {"accepted", "rejected"} /\ result = answer[h] /\ Succeeds(h)
    \/ result = "error" /\ answer[h] = "error" /\ UNCHANGED faultsLeft
    \/ result = "error" /\ answer[h] # "error" /\ Errs(h, "operator")

\* Variant (defect): whatever is not a refusal counts as sent.
AfterCallHopes(result) == IF result = "rejected" THEN "markFailed" ELSE "markSent"

\* Variant (defect): a 5xx counts as permanent.
IsPermanentToo(result) == result \in {"rejected", "error"}

\* operator.IsPermanent: the operator answered with a 4xx.
IsPermanent(result) == result = "rejected"

\* What follows the operator call.
AfterCall(result) ==
    IF result = "accepted" THEN "markSent"
    ELSE IF IsPermanent(result) THEN "markFailed" ELSE "release"

CallReturns(h) ==
    /\ pc[h] = "calling"
    /\ \E result \in {"accepted", "rejected", "error"} :
          /\ Returns(h, result)
          /\ Goto(h, AfterCall(result))
    /\ answer' = [answer EXCEPT ![h] = "none"]
    /\ UNCHANGED <<database, broker, process, job, observed>>

\* releaseClaim: an error is only logged, the copy is requeued either way.
ReleaseClaim(h) ==
    /\ pc[h] = "release"
    /\ \E applied, ok \in BOOLEAN :
          /\ Write(h, "db", applied, ok)
          /\ processed' = IF applied THEN Released(MessageOf(h)) ELSE processed
    /\ Goto(h, "nack")
    /\ UNCHANGED <<status, broker, process, job, answer, observed>>

\* Variant (defect): an error of the update is logged and the copy acked.
AfterMarkAcks(ok) == "ack"

\* An error of the update requeues the copy, success acknowledges it.
AfterMark(ok) == IF ok THEN "ack" ELSE "nack"

\* One transaction around one guarded update.
Mark(h, point, s, class) ==
    /\ pc[h] = point
    /\ \E applied, ok \in BOOLEAN :
          /\ Write(h, class, applied, ok)
          /\ IF applied THEN MarkIfAccepted(MessageOf(h), s) ELSE UNCHANGED status
          /\ Goto(h, AfterMark(ok))
    /\ UNCHANGED <<processed, broker, process, job, answer, observed>>

\* Variant (defect): the claim is given back once the message is sent.
MarkSentReleasing(h) ==
    /\ pc[h] = "markSent"
    /\ Succeeds(h)
    /\ MarkIfAccepted(MessageOf(h), "sent")
    /\ processed' = Released(MessageOf(h))
    /\ Goto(h, "ack")
    /\ UNCHANGED <<broker, process, job, answer, observed>>

MarkSent(h) == Mark(h, "markSent", "sent", "db")

MarkFailed(h) == Mark(h, "markFailed", "failed", "markFailed")

-----------------------------------------------------------------------------
(* deadLetter: the transaction, then the copy to sms.dlq.                  *)

\* Variant (defect): the copy is published whatever the transaction did.
AfterDeadLetterPublishes(ok) == "publishDLQ"

\* The copy is published only after the commit.
AfterDeadLetter(ok) == IF ok THEN "publishDLQ" ELSE "nack"

\* The transaction: the guarded update and the claim row.
DeadLetter(h) ==
    /\ pc[h] = "deadLetter"
    /\ \E applied, ok \in BOOLEAN :
          /\ Write(h, "db", applied, ok)
          /\ IF applied
                THEN /\ MarkIfAccepted(MessageOf(h), "dead_lettered")
                     /\ processed' = Claimed(MessageOf(h))
                ELSE UNCHANGED database
          /\ Goto(h, AfterDeadLetter(ok))
    /\ UNCHANGED <<broker, process, job, answer, observed>>

\* PublishToDLQ needs the connection; an error requeues the copy.
PublishDLQ(h) ==
    /\ pc[h] = "publishDLQ"
    /\ \/ /\ connected[ProcessOf[h]]
          /\ \E applied, ok \in BOOLEAN :
                /\ Write(h, "dlq", applied, ok)
                /\ dlq' = IF applied THEN dlq \cup {MessageOf(h)} ELSE dlq
                /\ Goto(h, IF ok THEN "ack" ELSE "nack")
       \/ /\ ~connected[ProcessOf[h]]
          /\ Goto(h, "nack")
          /\ UNCHANGED <<dlq, faultsLeft>>
    /\ UNCHANGED <<database, where, redelivered, attempts, process, job, answer,
                   observed>>

-----------------------------------------------------------------------------
(* The deferred acknowledgement; the slot of the bulkhead is then free.    *)
(* Over a lost connection it has no effect: the copy is back in the queue. *)

Finish(h, point) ==
    /\ pc[h] = point
    /\ Goto(h, "idle")
    /\ job' = [job EXCEPT ![h] = NoJob]
    /\ UNCHANGED <<database, dlq, process, answer, observed, faultsLeft>>

Ack(h) ==
    /\ Finish(h, "ack")
    /\ where' = IF connected[ProcessOf[h]]
                   THEN [where EXCEPT ![CopyOf(h)] = "gone"] ELSE where
    /\ UNCHANGED <<redelivered, attempts>>

Nack(h) ==
    /\ Finish(h, "nack")
    /\ IF connected[ProcessOf[h]]
          THEN /\ Requeue({CopyOf(h)})
               /\ attempts' = [attempts EXCEPT ![CopyOf(h)] =
                                  IF \E w \in Workers : @ < MaxDeliveryAttempts[w]
                                     THEN @ + 1 ELSE @]
          ELSE UNCHANGED <<where, redelivered, attempts>>

-----------------------------------------------------------------------------
(* Process life: crash, SIGTERM, lost connection, restart.                 *)

\* The process ends: its goroutines are gone, the broker requeues their copies.
ProcessEnds(w) ==
    /\ up' = [up EXCEPT ![w] = "down"]
    /\ connected' = [connected EXCEPT ![w] = FALSE]
    /\ Requeue(Unacked(w))
    /\ pc' = [h \in Handlers |-> IF ProcessOf[h] = w THEN "idle" ELSE pc[h]]
    /\ job' = [h \in Handlers |-> IF ProcessOf[h] = w THEN NoJob ELSE job[h]]
    /\ answer' = [h \in Handlers |-> IF ProcessOf[h] = w THEN "none" ELSE answer[h]]
    /\ UNCHANGED <<database, attempts, dlq, observed>>

Crash(w) ==
    /\ w \in Unstable
    /\ up[w] = "running"
    /\ Fault("crash")
    /\ ProcessEnds(w)

\* SIGTERM cancels the run context; the goroutines are waited for ...  It is
\* also the only way out for a process that has lost its connection, and then
\* not counted as a failure.
Stop(w) ==
    /\ w \in Unstable
    /\ up[w] = "running"
    /\ IF connected[w] THEN Fault("stop") ELSE UNCHANGED faultsLeft
    /\ up' = [up EXCEPT ![w] = "stopping"]
    /\ UNCHANGED <<database, broker, connected, local, observed>>

\* ... until they are done or the shutdown timeout has passed.
Exit(w) ==
    /\ up[w] = "stopping"
    /\ ProcessEnds(w)
    /\ UNCHANGED faultsLeft

\* The connection breaks: the copies are requeued while their goroutines run
\* on.  RunConsumer returns and nothing reconnects until a restart.
LoseConnection(w) ==
    /\ w \in Unstable
    /\ up[w] # "down"
    /\ connected[w]
    /\ Fault("connection")
    /\ connected' = [connected EXCEPT ![w] = FALSE]
    /\ Requeue(Unacked(w))
    /\ UNCHANGED <<database, attempts, dlq, up, local, observed>>

Start(w) ==
    /\ up[w] = "down"
    /\ up' = [up EXCEPT ![w] = "running"]
    /\ connected' = [connected EXCEPT ![w] = TRUE]
    /\ UNCHANGED <<database, broker, local, observed, faultsLeft>>

-----------------------------------------------------------------------------
HandlerStep(h) ==
    \/ \E c \in Copies : Receive(h, c)
    \/ Acquire(h)
    \/ ReadStatus(h)
    \/ InsertClaim(h)
    \/ RereadStatus(h)
    \/ OperatorHandles(h)
    \/ CallReturns(h)
    \/ ReleaseClaim(h)
    \/ MarkSent(h)
    \/ MarkFailed(h)
    \/ DeadLetter(h)
    \/ PublishDLQ(h)
    \/ Ack(h)
    \/ Nack(h)

ProcessStep(w) == Crash(w) \/ Stop(w) \/ Exit(w) \/ LoseConnection(w) \/ Start(w)

\* Every copy that was published is acknowledged: nothing is left to do.
Quiescent == /\ \A c \in Copies : where[c] = "gone"
             /\ \A h \in Handlers : pc[h] = "idle"
             /\ UNCHANGED vars

Next ==
    \/ \E c \in Copies : Publish(c)
    \/ \E h \in Handlers : HandlerStep(h)
    \/ \E w \in Workers : ProcessStep(w)
    \/ Quiescent

Spec == Init /\ [][Next]_vars

\* Goroutines are scheduled, the operator answers or its client times out, and
\* the shutdown timeout ends a process that was told to stop.  Nothing in the
\* repository restarts a process, so Start is not fair; the relay's Publish is
\* its own component's concern.
FairSpec == /\ Spec
            /\ \A h \in Handlers : WF_vars(HandlerStep(h))
            /\ \A w \in Workers : WF_vars(Exit(w))
-----------------------------------------------------------------------------
(* Properties.                                                             *)

\* Two goroutines are never in the operator call (or about to give their claim
\* back) for the same message: the row of processed_consumer_events excludes.
OperatorCallExclusive ==
    \A g, h \in Handlers :
        /\ pc[g] \in {"calling", "release"}
        /\ pc[h] \in {"calling", "release"}
        /\ MessageOf(g) = MessageOf(h)
        => g = h

\* A copy leaves the queue only when its message has a final status: no crash,
\* error or race between the acknowledgement and the commit loses a message.
AckedMeansDecided ==
    \A c \in Copies : where[c] = "gone" => status[Carries[c]] \in Terminal

\* A final status is never overwritten, whichever goroutines race to write it.
DecisionIsFinal ==
    [][\A m \in Messages : status[m] \in Terminal => status'[m] = status[m]]_vars

\* `failed` is only ever recorded for a message the operator has refused.
FailedMeansRejected ==
    \A m \in Messages : status[m] = "failed" => m \in rejected

\* The copy in sms.dlq is published after the final status is committed.
DLQAfterDecision ==
    \A m \in dlq : status[m] \in Terminal

\* What makes the invariants above inductive: a goroutine in the operator call
\* owns the claim row, one about to acknowledge (or to publish to sms.dlq) has
\* seen a final status, one about to mark a failure has seen the refusal.
PointsJustified ==
    \A h \in Handlers :
        /\ pc[h] \in {"calling", "release"} => MessageOf(h) \in processed
        /\ pc[h] # "calling" => answer[h] = "none"
        /\ pc[h] \in {"ack", "publishDLQ"} => status[MessageOf(h)] \in Terminal
        /\ pc[h] = "calling" /\ answer[h] = "rejected" => MessageOf(h) \in rejected
        /\ pc[h] = "markFailed" => MessageOf(h) \in rejected

Safety ==
    /\ OperatorCallExclusive
    /\ AckedMeansDecided
    /\ FailedMeansRejected
    /\ DLQAfterDecision
    /\ PointsJustified

\* RabbitMQ waits for the answer to a copy exactly as long as one goroutine has
\* it over a live connection: no copy stays unacknowledged for want of one, and no
\* second goroutine can answer for it.
Holds(h, c) == pc[h] # "idle" /\ connected[ProcessOf[h]] /\ CopyOf(h) = c

UnackedIsHeld ==
    /\ \A c \in Copies : where[c] = "unacked" <=> \E h \in Handlers : Holds(h, c)
    /\ \A c \in Copies, g, h \in Handlers : Holds(g, c) /\ Holds(h, c) => g = h
    /\ \A h \in Handlers : up[ProcessOf[h]] = "down" => pc[h] = "idle"

\* `sent` is only recorded for a message the operator has accepted.
SentMeansAccepted ==
    \A m \in Messages : status[m] = "sent" => m \in accepted

\* The deliveries of m have not simply followed each other: something has failed,
\* or the relay has published m twice.
Disturbed(m) ==
    \/ faultsLeft < MaxFaults
    \/ \E c, d \in Copies : /\ c # d /\ Carries[c] = m /\ Carries[d] = m
                            /\ where[c] # "outbox" /\ where[d] # "outbox"

\* Taking over a claim is the only way to `sent` past the operator, and it takes
\* a failure or a second publication: whatever the limit on the attempts, `sent`
\* means accepted for a message that is published once and handled undisturbed.
SentIsExplained ==
    \A m \in Messages :
        /\ status[m] = "sent" => m \in accepted \/ m \in resumed
        /\ m \in resumed => Disturbed(m)

\* No operator call is started for a message whose answer is recorded; only one
\* that was marked sent by taking over its claim may still be called for, since
\* the goroutine that owns the claim can give it back after that.  (So may one
\* that was dead-lettered while a goroutine was calling.)
NoCallAfterAnswer ==
    [][\A h \in Handlers, m \in Messages :
         pc[h] # "calling" /\ pc'[h] = "calling" /\ m = MessageOf(h)
            => /\ status[m] # "failed"
               /\ status[m] = "sent" => m \in resumed]_vars

\* What they rest on: who has inserted the claim row of a message works on it
\* alone until the answer is recorded, but for those who have taken it over.
Owning == {"calling", "release", "markSent", "markFailed"}

\* m is recorded as s for good: the claim stays, and nobody is in a call for m.
Settled(m) ==
    /\ m \in processed
    /\ \A h \in Handlers : pc[h] \in {"calling", "release"} => MessageOf(h) # m

ClaimOwned ==
    /\ \A h \in Handlers :
          /\ pc[h] = "calling" /\ answer[h] = "accepted" => MessageOf(h) \in accepted
          /\ pc[h] \in Owning \ {"markSent"} => MessageOf(h) \in processed
          /\ pc[h] = "markSent" /\ MessageOf(h) \notin resumed =>
                MessageOf(h) \in processed \cap accepted
    /\ \A g, h \in Handlers :
          pc[g] \in Owning /\ pc[h] \in Owning /\ MessageOf(g) = MessageOf(h) =>
             \/ g = h
             \/ MessageOf(h) \in resumed /\ "markSent" \in {pc[g], pc[h]}
    /\ \A m \in Messages :
          /\ status[m] = "failed" \/ (status[m] = "sent" /\ m \notin resumed) => Settled(m)
          /\ status[m] = "sent" => m \in accepted \/ m \in resumed

\* ... and an undisturbed message is delivered and claimed once.
Calm ==
    \A m \in Messages : ~Disturbed(m) =>
        /\ m \notin resumed
        /\ \A w \in Workers : up[w] = "running" /\ connected[w]
        /\ \A c \in Copies : Carries[c] = m => ~redelivered[c]
        /\ (\A c \in Copies : Carries[c] = m => where[c] \in {"outbox", "ready"})
              => m \notin processed
        /\ \A h \in Handlers : pc[h] # "idle" /\ MessageOf(h) = m =>
              /\ ~job[h].redelivered
              /\ answer[h] # "error"
              /\ pc[h] \in {"waiting", "readStatus", "insertClaim", "calling",
                            "markSent", "markFailed", "ack"}
              /\ pc[h] \in {"waiting", "readStatus", "insertClaim"} => m \notin processed

\* A copy that was handed back MaxDeliveryAttempts times is dead-lettered, not
\* given to the operator again.
AttemptsBounded ==
    [][\A h \in Handlers :
         (pc[h] # "calling" /\ pc'[h] = "calling" /\ AttemptLimit(h) > 0)
            => attempts[CopyOf(h)] < AttemptLimit(h)]_vars

\* Every copy in the queue leads to a final status of its message.
EventuallyDecided ==
    \A c \in Copies :
        where[c] # "outbox" ~> status[Carries[c]] \in Terminal
=============================================================================
