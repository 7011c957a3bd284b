----------------------------- MODULE OutboxRelay -----------------------------
(***************************************************************************)
(* The outbox relay: processes that claim pending rows of outbox_events    *)
(* under a timed lock, publish them to RabbitMQ with confirms and mark     *)
(* them published (internal/outbox, internal/repository/outbox_relay.go).  *)
(*                                                                         *)
(* A row's lock carries no owner; it only says until when the row is to be *)
(* left alone.  Time is abstracted to the moment a lock expires.  A relay  *)
(* that is told to stop has its context cancelled: every further call of   *)
(* its poll fails without effect, which is what a crash at that point      *)
(* leaves behind, so Crash stands for both.                                *)
(*                                                                         *)
(* A relay dials RabbitMQ once, when its process starts.  One that loses   *)
(* that connection polls on: it claims rows, cannot publish them and gives *)
(* them back, until its process is restarted.                              *)
(***************************************************************************)
EXTENDS Naturals, FiniteSets

CONSTANTS
    Relays,                   \* relay processes
    NumEvents,                \* rows of outbox_events, numbered by created_at
    BatchSize,                \* OUTBOX_RELAY batch size
    MarkPublishedMaxAttempts, \* attempts to mark an event published (5)
    Slow,                     \* events whose poll may outlive their lock
    Unstable,                 \* relays that may crash, be stopped or cut off
    Faults,                   \* the classes of failure that may happen
    MaxFaults,                \* how many failures happen in all
    MaxCopies                 \* the copies of an event are counted up to here

Events == 1 .. NumEvents

ASSUME NumberAssumption == /\ NumEvents \in Nat
                           /\ BatchSize \in Nat \ {0}
                           /\ MarkPublishedMaxAttempts \in Nat \ {0}
                           /\ MaxFaults \in Nat
                           /\ MaxCopies \in Nat \ {0}
ASSUME RelayAssumption  == /\ Slow \subseteq Events
                           /\ Unstable \subseteq Relays

VARIABLES
    status,     \* "absent" until the sender's transaction commits the row
    locked,     \* rows whose locked_until lies in the future
    connected,  \* whether the RabbitMQ connection of a relay is open
    pc,         \* control point of a relay's poll
    batch,      \* claimed events the poll has not finished, the oldest first
    tries,      \* failed attempts of markPublishedWithRetry so far
    copies,     \* copies of an event RabbitMQ has enqueued (capped)
    confirmed,  \* events for which some Publish has returned without error
    faultsLeft  \* failures that may still happen

relay == <<pc, batch, tries>>
vars  == <<status, locked, connected, relay, copies, confirmed, faultsLeft>>

TypeOK ==
    /\ status \in [Events -> {"absent", "pending", "published"}]
    /\ locked \subseteq Events
    /\ connected \in [Relays -> BOOLEAN]
    /\ pc \in [Relays -> {"poll", "check", "publish", "mark", "verify", "record", "down"}]
    /\ batch \in [Relays -> SUBSET Events]
    /\ tries \in [Relays -> 0 .. MarkPublishedMaxAttempts - 1]
    /\ copies \in [Events -> 0 .. MaxCopies]
    /\ confirmed \subseteq Events
    /\ faultsLeft \in 0 .. MaxFaults
    /\ \A r \in Relays : pc[r] \in {"poll", "down"} <=> batch[r] = {}

Init ==
    /\ status = [e \in Events |-> "absent"]
    /\ locked = {}
    /\ connected = [r \in Relays |-> TRUE]
    /\ pc = [r \in Relays |-> "poll"]
    /\ batch = [r \in Relays |-> {}]
    /\ tries = [r \in Relays |-> 0]
    /\ copies = [e \in Events |-> 0]
    /\ confirmed = {}
    /\ faultsLeft = MaxFaults

Fault(class) == /\ class \in Faults
                /\ faultsLeft > 0
                /\ faultsLeft' = faultsLeft - 1

\* A call returns without error, and has been applied, or fails, and then it
\* may have been applied all the same.
Call(class, applied, ok) ==
    \/ ok /\ applied /\ UNCHANGED faultsLeft
    \/ ~ok /\ Fault(class)

Current(r)     == CHOOSE e \in batch[r] : \A f \in batch[r] : e <= f
Goto(r, point) == pc' = [pc EXCEPT ![r] = point]

\* The poll is through with its current event and takes the next one.
NextEvent(r) ==
    /\ batch' = [batch EXCEPT ![r] = @ \ {Current(r)}]
    /\ tries' = [tries EXCEPT ![r] = 0]
    /\ Goto(r, IF batch[r] = {Current(r)} THEN "poll" ELSE "check")

IsPublished(e) == status[e] = "published"

-----------------------------------------------------------------------------
\* The sender's transaction commits the row.
Create(e) ==
    /\ status[e] = "absent"
    /\ status' = [status EXCEPT ![e] = "pending"]
    /\ UNCHANGED <<locked, connected, relay, copies, confirmed, faultsLeft>>

\* Variant (defect): rows that are locked are claimed like the others.
ClaimableLocked == {e \in Events : status[e] = "pending"}

\* status = 'pending' AND (locked_until IS NULL OR locked_until < NOW())
Claimable == {e \in Events : status[e] = "pending" /\ e \notin locked}

\* ORDER BY created_at LIMIT BatchSize
IsBatch(S) ==
    /\ S # {}
    /\ S \subseteq Claimable
    /\ \A e \in S, f \in Claimable \ S : e < f
    /\ Cardinality(S) <= BatchSize
    /\ S = Claimable \/ Cardinality(S) = BatchSize

\* ClaimPendingBatch: FOR UPDATE SKIP LOCKED makes concurrent claims disjoint,
\* so the transaction is one step.  After an error pollOnce returns; the locks
\* may have been committed.
ClaimBatch(r) ==
    /\ pc[r] = "poll"
    /\ \E S \in SUBSET Events, applied, ok \in BOOLEAN :
          /\ IsBatch(S)
          /\ Call("db", applied, ok)
          /\ locked' = IF applied THEN locked \cup S ELSE locked
          /\ IF ok THEN /\ batch' = [batch EXCEPT ![r] = S]
                        /\ Goto(r, "check")
                   ELSE UNCHANGED <<batch, pc>>
    /\ UNCHANGED <<status, connected, tries, copies, confirmed>>

\* publishEvent first looks whether the event has been published meanwhile.
CheckPublished(r) ==
    /\ pc[r] = "check"
    /\ \/ /\ IsPublished(Current(r))
          /\ NextEvent(r)
          /\ UNCHANGED faultsLeft
       \/ /\ ~IsPublished(Current(r))
          /\ Goto(r, "publish")
          /\ UNCHANGED <<batch, tries, faultsLeft>>
       \/ /\ Fault("db")
          /\ Goto(r, "record")
          /\ UNCHANGED <<batch, tries>>
    /\ UNCHANGED <<status, locked, connected, copies, confirmed>>

\* Variant (defect): a publication whose confirm is missing counts as done.
AfterPublishIgnoresError(ok) == "mark"

\* An error of Publish is recorded, success goes on to MarkPublished.
AfterPublish(ok) == IF ok THEN "mark" ELSE "record"

\* The connection of r breaks.  RabbitMQ has no reconnect.
CutOff(r) ==
    /\ r \in Unstable
    /\ connected[r]
    /\ Fault("connection")
    /\ connected' = [connected EXCEPT ![r] = FALSE]

\* Publish: without an error the broker has confirmed the copy; with one, which
\* may be the end of the connection, it may have enqueued it all the same.  Over
\* a connection lost before every Publish fails, and that is no new failure.
PublishEvent(r) ==
    /\ pc[r] = "publish"
    /\ \E applied, ok \in BOOLEAN :
          /\ \/ connected[r] /\ Call("publish", applied, ok) /\ UNCHANGED connected
             \/ ~ok /\ CutOff(r)
             \/ ~connected[r] /\ ~applied /\ ~ok /\ UNCHANGED <<connected, faultsLeft>>
          /\ copies' = IF applied /\ copies[Current(r)] < MaxCopies
                          THEN [copies EXCEPT ![Current(r)] = @ + 1] ELSE copies
          /\ confirmed' = IF ok THEN confirmed \cup {Current(r)} ELSE confirmed
          /\ Goto(r, AfterPublish(ok))
    /\ UNCHANGED <<status, locked, batch, tries>>

\* MarkPublished; a row that is no longer pending counts as success when it is
\* published, and a row the relay has claimed is never anything else.
MarkPublished(r) ==
    /\ pc[r] = "mark"
    /\ \E applied, ok \in BOOLEAN :
          /\ Call("db", applied, ok)
          /\ IF applied /\ status[Current(r)] = "pending"
                THEN /\ status' = [status EXCEPT ![Current(r)] = "published"]
                     /\ locked' = locked \ {Current(r)}
                ELSE UNCHANGED <<status, locked>>
          /\ IF ok THEN NextEvent(r)
                   ELSE Goto(r, "verify") /\ UNCHANGED <<batch, tries>>
    /\ UNCHANGED <<connected, copies, confirmed>>

\* Variant (defect): one attempt more than configured.
IsLastTryLate(r) == tries[r] >= MarkPublishedMaxAttempts

IsLastTry(r) == tries[r] + 1 >= MarkPublishedMaxAttempts

\* After a failed attempt: published after all, another attempt, or give the
\* event up for this poll ("keeping lock for retry").
VerifyMark(r) ==
    /\ pc[r] = "verify"
    /\ \/ /\ IsPublished(Current(r))
          /\ UNCHANGED faultsLeft
          /\ NextEvent(r)
       \/ /\ IF IsPublished(Current(r)) THEN Fault("db") ELSE UNCHANGED faultsLeft
          /\ \/ IsLastTry(r) /\ NextEvent(r)
             \/ /\ ~IsLastTry(r)
                /\ Goto(r, "mark")
                /\ tries' = [tries EXCEPT ![r] = @ + 1]
                /\ UNCHANGED batch
    /\ UNCHANGED <<status, locked, connected, copies, confirmed>>

\* RecordPublishFailure sets locked_until to NULL on a row still pending,
\* whoever holds the lock by now.
Unlocked(e) == IF status[e] = "pending" THEN locked \ {e} ELSE locked

RecordFailure(r) ==
    /\ pc[r] = "record"
    /\ \E applied, ok \in BOOLEAN :
          /\ Call("db", applied, ok)
          /\ locked' = IF applied THEN Unlocked(Current(r)) ELSE locked
    /\ NextEvent(r)
    /\ UNCHANGED <<status, connected, copies, confirmed>>

\* Variant (defect): the claim query looks for rows without a lock only.
LockExpiresUnseen(e) == FALSE /\ UNCHANGED vars

\* locked_until passes.  Unless it is slow with e, a poll is through with e
\* before that.
LockExpires(e) ==
    /\ e \in locked
    /\ e \in Slow \/ \A r \in Relays : e \notin batch[r]
    /\ locked' = locked \ {e}
    /\ UNCHANGED <<status, connected, relay, copies, confirmed, faultsLeft>>

\* Between two publications the connection breaks unnoticed.
LoseConnection(r) ==
    /\ pc[r] # "down"
    /\ CutOff(r)
    /\ UNCHANGED <<status, locked, relay, copies, confirmed>>

\* The process dies or is stopped.  For a relay that is cut off this is the only
\* way out, and then not counted as a failure.
Crash(r) ==
    /\ r \in Unstable
    /\ pc[r] # "down"
    /\ IF connected[r] THEN Fault("crash") ELSE UNCHANGED faultsLeft
    /\ Goto(r, "down")
    /\ batch' = [batch EXCEPT ![r] = {}]
    /\ tries' = [tries EXCEPT ![r] = 0]
    /\ UNCHANGED <<status, locked, connected, copies, confirmed>>

\* A new process, with a connection of its own.
Start(r) ==
    /\ pc[r] = "down"
    /\ Goto(r, "poll")
    /\ connected' = [connected EXCEPT ![r] = TRUE]
    /\ UNCHANGED <<status, locked, batch, tries, copies, confirmed, faultsLeft>>

RelayStep(r) ==
    \/ ClaimBatch(r)
    \/ CheckPublished(r)
    \/ PublishEvent(r)
    \/ MarkPublished(r)
    \/ VerifyMark(r)
    \/ RecordFailure(r)

RelayLife(r) == Crash(r) \/ LoseConnection(r) \/ Start(r)

\* Every event is published and every poll is over.
Quiescent == /\ \A e \in Events : status[e] = "published"
             /\ \A r \in Relays : pc[r] \in {"poll", "down"}
             /\ UNCHANGED vars

Next ==
    \/ \E e \in Events : Create(e) \/ LockExpires(e)
    \/ \E r \in Relays : RelayStep(r) \/ RelayLife(r)
    \/ Quiescent

Spec == Init /\ [][Next]_vars

\* The loop polls on every tick and its calls return; locks expire by the
\* clock.  Nothing in the repository restarts a relay: Start is not fair.
FairSpec == /\ Spec
            /\ \A r \in Relays : WF_vars(RelayStep(r))
            /\ \A e \in Events : WF_vars(LockExpires(e))
-----------------------------------------------------------------------------
(* Properties.                                                             *)

\* No event is marked published unless RabbitMQ has taken a copy of it: the
\* relay loses no message, whatever fails between Publish and MarkPublished.
PublishedMeansEnqueued ==
    \A e \in Events : status[e] = "published" => copies[e] > 0

\* No event whose poll keeps within the lock is worked on by two relays: SKIP
\* LOCKED, locked_until and the unconditional unlock together, and whatever
\* happens to the slow events of the same batch.
ExclusiveClaim ==
    \A r, s \in Relays : r # s => batch[r] \cap batch[s] \subseteq Slow

\* What makes the two invariants above inductive: an event that is being marked
\* has been enqueued, and an event in a batch is locked until it is published.
BatchJustified ==
    /\ \A r \in Relays :
          pc[r] \in {"mark", "verify"} => copies[Current(r)] > 0
    /\ \A r \in Relays : \A e \in batch[r] \ Slow :
          e \in locked \/ status[e] = "published"

Safety == PublishedMeansEnqueued /\ ExclusiveClaim /\ BatchJustified

\* Every copy of an event beyond the first is the price of a failure, where no
\* poll outlives the lock of that event.
CopiesArePaidFor ==
    \A e \in Events \ Slow : copies[e] <= 1 + (MaxFaults - faultsLeft)

\* Its induction: the one copy that is not paid for yet belongs to an event that
\* is published or at its first attempt to be marked ...
CopyAccount ==
    /\ \A r \in Relays :
          /\ pc[r] \notin {"mark", "verify"} => tries[r] = 0
          /\ pc[r] = "publish" /\ Current(r) \notin Slow => status[Current(r)] = "pending"
          /\ \A e \in batch[r] : status[e] # "absent"
    /\ \A e \in Events \ Slow :
          /\ copies[e] <= 1 + (MaxFaults - faultsLeft)
          /\ \/ copies[e] <= MaxFaults - faultsLeft
             \/ status[e] = "published"
             \/ \E r \in Relays : /\ pc[r] = "mark" /\ tries[r] = 0
                                  /\ e = Current(r)

\* ... by a relay that is not cut off: else the loss of the connection has paid.
CutOffPaid ==
    \A r \in Relays :
        pc[r] = "mark" /\ ~connected[r] /\ Current(r) \notin Slow
            => copies[Current(r)] <= MaxFaults - faultsLeft

\* An event whose publication has been confirmed is not published again.
ConfirmedNotRepublished ==
    [][\A e \in confirmed : copies'[e] = copies[e]]_vars

\* A relay that is up and cut off.
CutOffRelay == \E r \in Relays : pc[r] # "down" /\ ~connected[r]

\* Every event of a committed send is eventually published, unless a relay that
\* has lost its connection keeps polling: it claims the event, fails and unlocks
\* it again without end, and need not leave it to the others.  The excuse is one
\* for as long as that relay is up: once it is restarted, what is pending is
\* published.
EventuallyPublished ==
    \A e \in Events :
        status[e] = "pending" ~> status[e] = "published" \/ CutOffRelay
=============================================================================
