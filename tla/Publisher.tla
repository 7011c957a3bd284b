------------------------------ MODULE Publisher ------------------------------
(***************************************************************************)
(* The RabbitMQ client of the relay and of the worker                      *)
(* (internal/broker/rabbitmq.go): Connect, Publish by concurrent callers,  *)
(* who share one channel, one mutex and one stream of confirmations, and   *)
(* Close.                                                                  *)
(*                                                                         *)
(* Frames cross three queues in order: from the client to the broker       *)
(* (wire), back to the client (inbound), and from the client library's     *)
(* reader to whoever waits (confirms).  A confirmation does not say whose  *)
(* it is: Publish takes the next one as the answer to its own message.     *)
(* Nothing ever reconnects.                                                *)
(***************************************************************************)
EXTENDS Integers, Sequences, SequencesExt

CONSTANTS
    Calls,     \* calls of Publish
    Queues,    \* the queues of the topology
    MaxFaults, \* how many failures happen in all
    Nobody,    \* who holds the mutex when no call does
    Closer     \* who holds it during Close

ASSUME PublisherAssumption ==
    /\ Nobody \notin Calls /\ Closer \notin Calls /\ Nobody # Closer
    /\ MaxFaults \in Nat

VARIABLES
    phase,      \* of Connect
    connected,  \* the connection is up
    open,       \* the channel is open
    declared,   \* queues that exist at the broker
    cancelled,  \* the run context all callers share
    holder,     \* of the mutex
    pc,         \* of a call
    target,     \* queue of a call
    result,     \* what a call has returned
    wire,       \* calls whose message is on its way to the broker
    inbound,    \* confirmations on their way back
    confirms,   \* buffered for whoever waits
    enqueued,   \* messages the broker has put into their queue
    closing,    \* Close of the channel at the broker
    faultsLeft

control == <<holder, pc, result>>
streams == <<wire, inbound, confirms>>
vars == <<phase, connected, open, declared, cancelled, control, target, streams,
          enqueued, closing, faultsLeft>>

Confirmations == [call : Calls, ack : BOOLEAN]

TypeOK ==
    /\ phase \in {"dial", "channel", "confirm", "declare", "ready", "failed"}
    /\ connected \in BOOLEAN /\ open \in BOOLEAN /\ cancelled \in BOOLEAN
    /\ declared \subseteq Queues
    /\ holder \in Calls \cup {Nobody, Closer}
    /\ pc \in [Calls -> {"new", "check", "publish", "wait", "done"}]
    /\ target \in [Calls -> Queues]
    /\ result \in [Calls -> {"none", "nil", "error"}]
    /\ wire \in Seq(Calls)
    /\ inbound \in Seq(Confirmations)
    /\ confirms \in Seq(Confirmations)
    /\ enqueued \subseteq Calls
    /\ closing \in {"no", "lock", "channel", "connection", "done"}
    /\ faultsLeft \in 0 .. MaxFaults

\* Durable queues may be left over from an earlier run.
Init ==
    /\ phase = "dial"
    /\ connected = FALSE /\ open = FALSE /\ cancelled = FALSE
    /\ declared \in SUBSET Queues
    /\ holder = Nobody
    /\ pc = [c \in Calls |-> "new"]
    /\ target \in [Calls -> Queues]
    /\ result = [c \in Calls |-> "none"]
    /\ wire = <<>> /\ inbound = <<>> /\ confirms = <<>>
    /\ enqueued = {}
    /\ closing = "no"
    /\ faultsLeft = MaxFaults

Fault == faultsLeft > 0 /\ faultsLeft' = faultsLeft - 1

-----------------------------------------------------------------------------
(* Connect.                                                                *)

Connecting(from, to) == phase = from /\ phase' = to

Dial ==
    /\ Connecting("dial", "channel")
    /\ connected' = TRUE
    /\ UNCHANGED <<open, declared, cancelled, control, target, streams, enqueued, closing, faultsLeft>>

OpenChannel ==
    /\ Connecting("channel", "confirm")
    /\ open' = TRUE
    /\ UNCHANGED <<connected, declared, cancelled, control, target, streams, enqueued, closing, faultsLeft>>

ConfirmMode ==
    /\ Connecting("confirm", "declare")
    /\ UNCHANGED <<connected, open, declared, cancelled, control, target, streams, enqueued, closing, faultsLeft>>

\* The loop is through all queues.
Topology == declared = Queues

\* One QUEUE.DECLARE, which does nothing to a queue that exists.
DeclareQueue ==
    /\ phase = "declare" /\ ~Topology
    /\ \E q \in Queues \ declared : declared' = declared \cup {q}
    /\ UNCHANGED <<phase, connected, open, cancelled, control, target, streams, enqueued, closing, faultsLeft>>

Connected ==
    /\ Topology
    /\ Connecting("declare", "ready")
    /\ UNCHANGED <<connected, open, declared, cancelled, control, target, streams, enqueued, closing, faultsLeft>>

\* Any step fails: what is open is closed, and the process gives up.
ConnectFails ==
    /\ phase \notin {"ready", "failed"}
    /\ Fault
    /\ phase' = "failed"
    /\ connected' = FALSE /\ open' = FALSE
    /\ UNCHANGED <<declared, cancelled, control, target, streams, enqueued, closing>>

-----------------------------------------------------------------------------
(* Publish.                                                                *)

\* mu.Lock(), for which a new call waits.
Lock(c) ==
    /\ phase = "ready" /\ pc[c] = "new"
    /\ holder = Nobody
    /\ holder' = c
    /\ pc' = [pc EXCEPT ![c] = "check"]
    /\ UNCHANGED <<phase, connected, open, declared, cancelled, target, result, streams, enqueued, closing, faultsLeft>>

\* Variant (defect): one way out of Publish keeps the mutex.
UnlockLeak(r) == IF r = "nil" THEN Nobody ELSE holder

\* defer mu.Unlock()
Unlock(r) == Nobody

Return(c, r) ==
    /\ holder' = Unlock(r)
    /\ pc' = [pc EXCEPT ![c] = "done"]
    /\ result' = [result EXCEPT ![c] = r]

\* Variant (defect): the context is not asked before publishing.
MayPublishAlways == TRUE

\* ctx.Done() is not ready.
MayPublish == ~cancelled

Check(c) ==
    /\ pc[c] = "check"
    /\ \/ /\ MayPublish
          /\ pc' = [pc EXCEPT ![c] = "publish"]
          /\ UNCHANGED <<holder, result>>
       \/ ~MayPublish /\ Return(c, "error")
    /\ UNCHANGED <<phase, connected, open, declared, cancelled, target, streams, enqueued, closing, faultsLeft>>

\* PublishWithContext hands the frame to the connection, or finds the channel
\* closed.
Publish(c) ==
    /\ pc[c] = "publish"
    /\ \/ /\ open
          /\ wire' = Append(wire, c)
          /\ pc' = [pc EXCEPT ![c] = "wait"]
          /\ UNCHANGED <<holder, result>>
       \/ ~open /\ Return(c, "error") /\ UNCHANGED wire
    /\ UNCHANGED <<phase, connected, open, declared, cancelled, target, inbound, confirms, enqueued, closing, faultsLeft>>

\* Variant (defect): no error is made of a nack.
VerdictRaw(a) == IF a.ack THEN "nil" ELSE "nack"

\* confirm.Ack
Verdict(a) == IF a.ack THEN "nil" ELSE "error"

\* Variant (defect): the call waits on after a nack.
TakeConfirmPastNack(c) ==
    /\ pc[c] = "wait"
    /\ confirms # <<>>
    /\ IF Head(confirms).ack THEN Return(c, "nil") ELSE UNCHANGED control
    /\ confirms' = Tail(confirms)
    /\ UNCHANGED <<phase, connected, open, declared, cancelled, target, wire, inbound, enqueued, closing, faultsLeft>>

TakeConfirm(c) ==
    /\ pc[c] = "wait"
    /\ confirms # <<>>
    /\ Return(c, Verdict(Head(confirms)))
    /\ confirms' = Tail(confirms)
    /\ UNCHANGED <<phase, connected, open, declared, cancelled, target, wire, inbound, enqueued, closing, faultsLeft>>

\* The library closes the stream with the channel; the receive then yields a
\* zero confirmation, which is no ack.
StreamEnds(c) ==
    /\ pc[c] = "wait"
    /\ ~open /\ confirms = <<>>
    /\ Return(c, "error")
    /\ UNCHANGED <<phase, connected, open, declared, cancelled, target, streams, enqueued, closing, faultsLeft>>

\* Variant (defect): a caller stops waiting after a while of its own.
GivesUpAlone == TRUE

\* ctx.Done() is ready: if a confirmation is too, Go picks either.
GivesUp == cancelled

StopWaiting(c) ==
    /\ pc[c] = "wait"
    /\ GivesUp
    /\ Return(c, "error")
    /\ UNCHANGED <<phase, connected, open, declared, cancelled, target, streams, enqueued, closing, faultsLeft>>

-----------------------------------------------------------------------------
(* The broker, the reader of the client library and the network.           *)

\* A message for a queue that does not exist is dropped, and confirmed.  The
\* broker may refuse a message.  It answers as long as the channel is open.
Broker ==
    /\ wire # <<>>
    /\ LET c == Head(wire) IN
          \E ack \in BOOLEAN :
             /\ IF ack THEN UNCHANGED faultsLeft ELSE Fault
             /\ enqueued' = IF ack /\ target[c] \in declared
                               THEN enqueued \cup {c} ELSE enqueued
             /\ inbound' = IF open THEN Append(inbound, [call |-> c, ack |-> ack])
                                   ELSE inbound
    /\ wire' = Tail(wire)
    /\ UNCHANGED <<phase, connected, open, declared, cancelled, control, target, confirms, closing>>

\* Variant (defect): a channel without buffer.
RoomNone == confirms = <<>> /\ \E c \in Calls : pc[c] = "wait"

\* make(chan amqp.Confirmation, 1)
Room == Len(confirms) < 1

\* The reader hands over a confirmation; without room it blocks, and with it
\* everything that arrives on the connection.
Reader ==
    /\ open /\ inbound # <<>> /\ Room
    /\ confirms' = Append(confirms, Head(inbound))
    /\ inbound' = Tail(inbound)
    /\ UNCHANGED <<phase, connected, open, declared, cancelled, control, target, wire, enqueued, closing, faultsLeft>>

\* The connection breaks.  What is on its way to the client is lost, what is on
\* its way to the broker is or is not.
Lose ==
    /\ phase = "ready" /\ connected
    /\ Fault
    /\ connected' = FALSE /\ open' = FALSE
    /\ inbound' = <<>>
    /\ wire' \in {wire, <<>>}
    /\ UNCHANGED <<phase, declared, cancelled, control, target, confirms, enqueued, closing>>

-----------------------------------------------------------------------------
(* Shutdown.                                                               *)

\* The signal handler cancels the run context.
Cancel ==
    /\ phase = "ready" /\ ~cancelled
    /\ cancelled' = TRUE
    /\ UNCHANGED <<phase, connected, open, declared, control, target, streams, enqueued, closing, faultsLeft>>

\* main returns when the calls have, or when the time for that is over; then
\* Close waits for the mutex.
BeginClose ==
    /\ cancelled /\ closing = "no"
    /\ closing' = "lock"
    /\ UNCHANGED <<phase, connected, open, declared, cancelled, control, target, streams, enqueued, faultsLeft>>

LockClose ==
    /\ closing = "lock" /\ holder = Nobody
    /\ holder' = Closer
    /\ closing' = "channel"
    /\ UNCHANGED <<phase, connected, open, declared, cancelled, pc, target, result, streams, enqueued, faultsLeft>>

\* channel.Close waits for the broker's answer, which comes after all that was
\* sent before; on a closed channel it is an error, which is logged.
CloseChannel ==
    /\ closing = "channel"
    /\ \/ ~open
       \/ wire = <<>> /\ inbound = <<>>
    /\ open' = FALSE
    /\ closing' = "connection"
    /\ UNCHANGED <<phase, connected, declared, cancelled, control, target, streams, enqueued, faultsLeft>>

CloseConnection ==
    /\ closing = "connection"
    /\ connected' = FALSE
    /\ holder' = Nobody
    /\ closing' = "done"
    /\ UNCHANGED <<phase, open, declared, cancelled, pc, target, result, streams, enqueued, faultsLeft>>

-----------------------------------------------------------------------------
Connect == Dial \/ OpenChannel \/ ConfirmMode \/ DeclareQueue \/ Connected \/ ConnectFails

Call(c) ==
    \/ Check(c)
    \/ Publish(c)
    \/ TakeConfirm(c)
    \/ StreamEnds(c)
    \/ StopWaiting(c)

Close == LockClose \/ CloseChannel \/ CloseConnection

Next ==
    \/ Connect
    \/ \E c \in Calls : Lock(c) \/ Call(c)
    \/ Broker \/ Reader \/ Lose
    \/ Cancel \/ BeginClose \/ Close

\* Goroutines run, Go's mutex does not starve a waiter, the library reads and the
\* broker answers on an open channel (a dead connection is found by heartbeats).
Fairness ==
    /\ \A c \in Calls : WF_vars(Lock(c)) /\ WF_vars(Call(c))
    /\ WF_vars(Broker) /\ WF_vars(Reader) /\ WF_vars(Close)

Spec == Init /\ [][Next]_vars
FairSpec == Spec /\ Fairness
-----------------------------------------------------------------------------
(* Properties.                                                             *)

\* Publish returns nil only when the message of this very call is in its queue:
\* no caller takes another's confirmation for its own, whatever calls were
\* abandoned, and no message goes to a queue that was not declared.
NilMeansEnqueued == \A c \in Calls : result[c] = "nil" => c \in enqueued

\* The reader of the client library finds room for each confirmation: it never
\* blocks the connection on one that nobody waits for any more.
ReaderNeverBlocks == ~(open /\ inbound # <<>> /\ confirms # <<>>)

\* The confirmation that a waiting call needs is on its way: its message is still
\* to be answered or its answer to be taken, unless the channel is closed and the
\* wait ends with that.  Nobody waits for what was lost or taken by another.
WaitersAreAnswered ==
    \A c \in Calls : pc[c] = "wait" /\ open =>
        \/ wire = <<c>>
        \/ \E ack \in BOOLEAN : <<[call |-> c, ack |-> ack]>> \in {inbound, confirms}

\* Every call of Publish gets the mutex and returns, during an outage and a
\* shutdown too, as long as the broker answers on an open channel.
PublishReturns == \A c \in Calls : (phase = "ready") ~> (pc[c] = "done")

\* Close comes to an end, with calls in flight, confirmations nobody has taken
\* and after the connection was lost.
CloseReturns == (closing = "lock") ~> (closing = "done")

\* What they rest on.  The mutex belongs to whoever is behind it.
MutexHeld ==
    /\ \A c \in Calls : (holder = c) <=> (pc[c] \in {"check", "publish", "wait"})
    /\ (holder = Closer) <=> (closing \in {"channel", "connection"})

\* Nothing is published before the topology is complete, and nothing comes back
\* on a closed channel.
ChannelUsed ==
    /\ phase = "ready" => declared = Queues
    /\ phase # "ready" => /\ ~cancelled /\ \A c \in Calls : pc[c] = "new"
                         /\ wire = <<>>
    /\ ~open => inbound = <<>>

\* Of all messages and confirmations under way there is one at most.
AtMostOne == Len(wire) + Len(inbound) + Len(confirms) <= 1

\* Nothing is under way.
Idle == inbound = <<>> /\ confirms = <<>> /\ (open => wire = <<>>)

\* Between calls nothing is, except once the context is cancelled: from then on
\* nobody comes to publish.
NothingLeftOver ==
    /\ \A c \in Calls : pc[c] = "publish" => Idle
    /\ (\A c \in Calls : pc[c] # "wait") => cancelled \/ Idle

\* While a call waits, what is under way is its own.
OwnAnswer ==
    \A c \in Calls : pc[c] = "wait" =>
        /\ \A i \in DOMAIN wire : wire[i] = c
        /\ \A i \in DOMAIN inbound : inbound[i].call = c
        /\ \A i \in DOMAIN confirms : confirms[i].call = c

AcksJustified ==
    /\ \A i \in DOMAIN inbound : inbound[i].ack => inbound[i].call \in enqueued
    /\ \A i \in DOMAIN confirms : confirms[i].ack => confirms[i].call \in enqueued

Safety == /\ MutexHeld
          /\ ChannelUsed
          /\ AtMostOne
          /\ NothingLeftOver
          /\ OwnAnswer
          /\ AcksJustified
          /\ NilMeansEnqueued
=============================================================================
