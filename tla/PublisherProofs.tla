--------------------------- MODULE PublisherProofs ---------------------------
(***************************************************************************)
(* Proofs about Publisher for any number of calls, queues and failures.    *)
(***************************************************************************)
EXTENDS Publisher, SequenceTheorems, TLAPS

USE PublisherAssumption

LEMMA InitTyped == Init => TypeOK
<1> SUFFICES ASSUME Init PROVE TypeOK
  OBVIOUS
<1>1. wire \in Seq(Calls) /\ inbound \in Seq(Confirmations) /\ confirms \in Seq(Confirmations)
  BY DEF Init
<1>2. connected \in BOOLEAN /\ open \in BOOLEAN /\ cancelled \in BOOLEAN
  BY DEF Init
<1> QED
  BY <1>1, <1>2 DEF Init, TypeOK

\* What a return from Publish does to the control state.
LEMMA ReturnTyped ==
    ASSUME TypeOK, NEW c \in Calls, NEW r \in {"nil", "error"}, Return(c, r)
    PROVE  /\ holder' = Nobody
           /\ pc' \in [Calls -> {"new", "check", "publish", "wait", "done"}]
           /\ result' \in [Calls -> {"none", "nil", "error"}]
           /\ \A d \in Calls : pc'[d] = IF d = c THEN "done" ELSE pc[d]
           /\ \A d \in Calls : result'[d] = IF d = c THEN r ELSE result[d]
BY DEF TypeOK, Return, Unlock

LEMMA ConnectTyped == TypeOK /\ Connect => TypeOK'
<1> SUFFICES ASSUME TypeOK, Connect PROVE TypeOK'
  OBVIOUS
<1> USE DEF TypeOK, control, streams
<1>1. CASE Dial \/ OpenChannel \/ ConfirmMode \/ Connected
  BY <1>1 DEF Dial, OpenChannel, ConfirmMode, Connected, Connecting
<1>2. CASE DeclareQueue
  BY <1>2 DEF DeclareQueue
<1>3. CASE ConnectFails
  <2>1. connected' \in BOOLEAN /\ open' \in BOOLEAN
    BY <1>3 DEF ConnectFails
  <2> QED
    BY <1>3, <2>1 DEF ConnectFails, Fault
<1> QED
  BY <1>1, <1>2, <1>3 DEF Connect

LEMMA CallTyped == ASSUME TypeOK, NEW c \in Calls, Lock(c) \/ Call(c) PROVE TypeOK'
<1> USE DEF control, streams
<1>1. CASE Lock(c)
  BY <1>1 DEF TypeOK, Lock
<1>2. CASE Check(c)
  BY <1>2, ReturnTyped DEF TypeOK, Check
<1>3. CASE Publish(c)
  <2>1. CASE open
    <3>1. wire' = Append(wire, c) /\ wire \in Seq(Calls)
      BY <1>3, <2>1 DEF TypeOK, Publish
    <3>2. wire' \in Seq(Calls)
      BY <3>1
    <3> QED
      BY <1>3, <2>1, <3>2 DEF TypeOK, Publish
  <2>2. CASE ~open
    BY <1>3, <2>2, ReturnTyped DEF TypeOK, Publish
  <2> QED
    BY <2>1, <2>2 DEF TypeOK
<1>4. CASE TakeConfirm(c)
  <2>1. confirms' \in Seq(Confirmations)
    BY <1>4 DEF TypeOK, TakeConfirm
  <2>2. Verdict(Head(confirms)) \in {"nil", "error"}
    BY DEF Verdict
  <2> QED
    BY <1>4, <2>1, <2>2, ReturnTyped DEF TypeOK, TakeConfirm
<1>5. CASE StreamEnds(c) \/ StopWaiting(c)
  BY <1>5, ReturnTyped DEF TypeOK, StreamEnds, StopWaiting
<1> QED
  BY <1>1, <1>2, <1>3, <1>4, <1>5 DEF Call

\* The broker takes the first message of the wire.
LEMMA BrokerTyped == TypeOK /\ Broker => TypeOK'
<1> SUFFICES ASSUME TypeOK, Broker PROVE TypeOK'
  OBVIOUS
<1>1. PICK ack \in BOOLEAN :
          /\ IF ack THEN UNCHANGED faultsLeft ELSE Fault
          /\ enqueued' = IF ack /\ target[Head(wire)] \in declared
                            THEN enqueued \cup {Head(wire)} ELSE enqueued
          /\ inbound' = IF open THEN Append(inbound, [call |-> Head(wire), ack |-> ack])
                               ELSE inbound
  BY DEF Broker
<1>2. Head(wire) \in Calls /\ wire' \in Seq(Calls)
  BY DEF Broker, TypeOK
<1>3. [call |-> Head(wire), ack |-> ack] \in Confirmations
  BY <1>2 DEF Confirmations
<1>4. inbound' \in Seq(Confirmations) /\ enqueued' \subseteq Calls
  BY <1>1, <1>2, <1>3 DEF TypeOK
<1>5. faultsLeft' \in 0 .. MaxFaults
  BY <1>1 DEF TypeOK, Fault
<1> QED
  BY <1>2, <1>4, <1>5 DEF Broker, TypeOK, control

LEMMA OtherTyped ==
    TypeOK /\ (Reader \/ Lose \/ Cancel \/ BeginClose \/ Close \/ UNCHANGED vars) => TypeOK'
<1> SUFFICES ASSUME TypeOK, Reader \/ Lose \/ Cancel \/ BeginClose \/ Close \/ UNCHANGED vars
             PROVE  TypeOK'
  OBVIOUS
<1> USE DEF control, streams
<1>1. CASE Reader
  <2>1. confirms' \in Seq(Confirmations) /\ inbound' \in Seq(Confirmations)
    BY <1>1 DEF Reader, TypeOK
  <2> QED
    BY <1>1, <2>1 DEF Reader, TypeOK
<1>2. CASE Lose
  <2>1. wire' \in Seq(Calls)
    <3>1. wire' = wire \/ wire' = <<>>
      BY <1>2 DEF Lose
    <3>2. wire \in Seq(Calls) /\ <<>> \in Seq(Calls)
      BY DEF TypeOK
    <3> QED
      BY <3>1, <3>2
  <2>2. inbound' \in Seq(Confirmations)
    BY <1>2 DEF Lose
  <2>3. connected' \in BOOLEAN /\ open' \in BOOLEAN
    BY <1>2 DEF Lose
  <2> QED
    BY <1>2, <2>1, <2>2, <2>3 DEF Lose, TypeOK, Fault
<1>3. CASE Cancel \/ BeginClose
  BY <1>3 DEF Cancel, BeginClose, TypeOK
<1>4. CASE Close
  BY <1>4 DEF Close, LockClose, CloseChannel, CloseConnection, TypeOK
<1>5. CASE UNCHANGED vars
  BY <1>5 DEF vars, TypeOK
<1> QED
  BY <1>1, <1>2, <1>3, <1>4, <1>5

LEMMA NextTyped == TypeOK /\ [Next]_vars => TypeOK'
BY ConnectTyped, CallTyped, BrokerTyped, OtherTyped DEF Next

\* Type correctness of every variable.
THEOREM TypeCorrect == Spec => []TypeOK
BY InitTyped, NextTyped, PTL DEF Spec

-----------------------------------------------------------------------------
(* What Safety rests on, action by action.                                 *)

\* At most one message is under way, so each stream is empty or holds one.
LEMMA Streams ==
    ASSUME TypeOK, AtMostOne
    PROVE  /\ wire # <<>> => /\ inbound = <<>> /\ confirms = <<>> /\ Tail(wire) = <<>>
                            /\ 1 \in DOMAIN wire /\ Head(wire) = wire[1] /\ Head(wire) \in Calls
           /\ inbound # <<>> => /\ wire = <<>> /\ confirms = <<>> /\ Tail(inbound) = <<>>
                               /\ 1 \in DOMAIN inbound /\ Head(inbound) = inbound[1]
                               /\ Head(inbound) \in Confirmations
           /\ confirms # <<>> => /\ wire = <<>> /\ inbound = <<>> /\ Tail(confirms) = <<>>
                                /\ 1 \in DOMAIN confirms /\ Head(confirms) = confirms[1]
                                /\ Head(confirms) \in Confirmations
<1>1. ASSUME NEW S, NEW s \in Seq(S), s # <<>>, Len(s) <= 1
      PROVE  Len(s) = 1 /\ Tail(s) = <<>> /\ 1 \in DOMAIN s /\ Head(s) = s[1] /\ Head(s) \in S
  BY <1>1, EmptySeq
<1>2. wire \in Seq(Calls) /\ inbound \in Seq(Confirmations) /\ confirms \in Seq(Confirmations)
  BY DEF TypeOK
<1>3. Len(wire) \in Nat /\ Len(inbound) \in Nat /\ Len(confirms) \in Nat
  BY <1>2
<1>4. Len(wire) <= 1 /\ Len(inbound) <= 1 /\ Len(confirms) <= 1
  BY <1>3 DEF AtMostOne
<1>5. /\ wire # <<>> => Len(wire) # 0
      /\ inbound # <<>> => Len(inbound) # 0
      /\ confirms # <<>> => Len(confirms) # 0
  BY <1>2, EmptySeq
<1>6. /\ Len(wire) = 0 => wire = <<>>
      /\ Len(inbound) = 0 => inbound = <<>>
      /\ Len(confirms) = 0 => confirms = <<>>
  BY <1>2, EmptySeq
<1>7. /\ Len(wire) # 0 => Len(inbound) = 0 /\ Len(confirms) = 0
      /\ Len(inbound) # 0 => Len(wire) = 0 /\ Len(confirms) = 0
      /\ Len(confirms) # 0 => Len(wire) = 0 /\ Len(inbound) = 0
  BY <1>3 DEF AtMostOne
<1>8. wire # <<>> => /\ Tail(wire) = <<>> /\ 1 \in DOMAIN wire
                     /\ Head(wire) = wire[1] /\ Head(wire) \in Calls
  BY <1>1, <1>2, <1>4
<1>9. inbound # <<>> => /\ Tail(inbound) = <<>> /\ 1 \in DOMAIN inbound
                        /\ Head(inbound) = inbound[1] /\ Head(inbound) \in Confirmations
  BY <1>1, <1>2, <1>4
<1>10. confirms # <<>> => /\ Tail(confirms) = <<>> /\ 1 \in DOMAIN confirms
                          /\ Head(confirms) = confirms[1] /\ Head(confirms) \in Confirmations
  BY <1>1, <1>2, <1>4
<1> QED
  BY <1>5, <1>6, <1>7, <1>8, <1>9, <1>10

LEMMA AppendOne ==
    ASSUME NEW x
    PROVE  /\ Append(<<>>, x) # <<>> /\ Len(Append(<<>>, x)) = 1
           /\ \A i \in DOMAIN Append(<<>>, x) : Append(<<>>, x)[i] = x
OBVIOUS

LEMMA LockSafe == ASSUME TypeOK, Safety, NEW c \in Calls, Lock(c) PROVE Safety'
<1> USE DEF TypeOK, Safety, Lock
<1>1. /\ holder' = c /\ \A d \in Calls : pc'[d] = IF d = c THEN "check" ELSE pc[d]
      /\ holder = Nobody /\ pc[c] = "new" /\ phase = "ready"
      /\ UNCHANGED <<wire, inbound, confirms, open, phase, declared, cancelled, enqueued, result, closing>>
  BY DEF streams
<1>2. MutexHeld'
  BY <1>1 DEF MutexHeld
<1>3. ChannelUsed' /\ AtMostOne' /\ AcksJustified' /\ NilMeansEnqueued'
  BY <1>1 DEF ChannelUsed, AtMostOne, AcksJustified, NilMeansEnqueued
<1>4. NothingLeftOver' /\ OwnAnswer'
  BY <1>1 DEF NothingLeftOver, Idle, OwnAnswer
<1> QED
  BY <1>2, <1>3, <1>4

LEMMA CheckSafe == ASSUME TypeOK, Safety, NEW c \in Calls, Check(c) PROVE Safety'
<1> USE DEF TypeOK, Safety
<1>1. /\ pc[c] = "check" /\ phase = "ready" /\ holder = c
      /\ UNCHANGED <<wire, inbound, confirms, open, phase, declared, cancelled, enqueued, closing>>
  BY DEF Check, streams, MutexHeld, ChannelUsed
<1>2. ChannelUsed' /\ AtMostOne' /\ AcksJustified'
  BY <1>1 DEF ChannelUsed, AtMostOne, AcksJustified
<1>3. CASE ~cancelled /\ pc' = [pc EXCEPT ![c] = "publish"] /\ UNCHANGED <<holder, result>>
  <2>1. MutexHeld' /\ NilMeansEnqueued' /\ OwnAnswer'
    BY <1>1, <1>3 DEF MutexHeld, NilMeansEnqueued, OwnAnswer
  <2>2. \A d \in Calls : pc[d] \notin {"publish", "wait"}
    BY <1>1 DEF MutexHeld
  <2>3. Idle
    BY <1>3, <2>2 DEF NothingLeftOver
  <2>4. NothingLeftOver'
    BY <1>1, <2>3 DEF NothingLeftOver, Idle
  <2> QED
    BY <1>2, <2>1, <2>4
<1>4. CASE Return(c, "error")
  <2>1. /\ holder' = Nobody
        /\ \A d \in Calls : pc'[d] = IF d = c THEN "done" ELSE pc[d]
        /\ \A d \in Calls : result'[d] = IF d = c THEN "error" ELSE result[d]
    BY <1>4, ReturnTyped
  <2>2. MutexHeld'
    BY <1>1, <2>1 DEF MutexHeld
  <2>3. NilMeansEnqueued' /\ OwnAnswer'
    BY <1>1, <2>1 DEF NilMeansEnqueued, OwnAnswer
  <2>4. NothingLeftOver'
    BY <1>1, <2>1 DEF NothingLeftOver, Idle
  <2> QED
    BY <1>2, <2>2, <2>3, <2>4
<1> QED
  BY <1>3, <1>4 DEF Check, MayPublish

\* A call that returns an error leaves what is under way alone.
LEMMA ErrorSafe ==
    ASSUME TypeOK, Safety, NEW c \in Calls, Return(c, "error"),
           pc[c] \in {"publish", "wait"}, cancelled \/ Idle,
           UNCHANGED <<phase, open, declared, cancelled, streams, enqueued, closing>>
    PROVE  Safety'
<1> USE DEF TypeOK, Safety, streams
<1>1. /\ holder' = Nobody /\ holder = c
      /\ \A d \in Calls : pc'[d] = IF d = c THEN "done" ELSE pc[d]
      /\ \A d \in Calls : result'[d] = IF d = c THEN "error" ELSE result[d]
  BY ReturnTyped DEF MutexHeld
<1>2. phase = "ready"
  BY DEF ChannelUsed
<1>3. ChannelUsed' /\ AtMostOne' /\ AcksJustified'
  BY <1>2 DEF ChannelUsed, AtMostOne, AcksJustified
<1>4. MutexHeld'
  BY <1>1 DEF MutexHeld
<1>5. NilMeansEnqueued' /\ OwnAnswer'
  BY <1>1 DEF NilMeansEnqueued, OwnAnswer
<1>6. NothingLeftOver'
  BY <1>1 DEF NothingLeftOver, Idle
<1> QED
  BY <1>3, <1>4, <1>5, <1>6

LEMMA PublishSafe == ASSUME TypeOK, Safety, NEW c \in Calls, Publish(c) PROVE Safety'
<1> USE DEF TypeOK, Safety
<1>1. pc[c] = "publish" /\ phase = "ready" /\ holder = c /\ Idle
  BY DEF Publish, MutexHeld, ChannelUsed, NothingLeftOver
<1>2. UNCHANGED <<phase, open, declared, cancelled, inbound, confirms, enqueued, closing>>
  BY DEF Publish
<1>3. CASE open /\ wire' = Append(wire, c) /\ pc' = [pc EXCEPT ![c] = "wait"]
           /\ UNCHANGED <<holder, result>>
  <2>1. wire = <<>> /\ inbound = <<>> /\ confirms = <<>>
    BY <1>1, <1>3 DEF Idle
  <2>2. Len(wire') = 1 /\ \A i \in DOMAIN wire' : wire'[i] = c
    BY <1>3, <2>1, AppendOne
  <2>3. MutexHeld' /\ ChannelUsed' /\ AcksJustified' /\ NilMeansEnqueued'
    BY <1>1, <1>2, <1>3 DEF MutexHeld, ChannelUsed, AcksJustified, NilMeansEnqueued
  <2>4. AtMostOne'
    BY <1>2, <2>1, <2>2 DEF AtMostOne
  <2>5. \A d \in Calls : pc[d] \in {"publish", "wait"} => d = c
    BY <1>1 DEF MutexHeld
  <2>6. OwnAnswer'
    BY <1>2, <1>3, <2>1, <2>2, <2>5 DEF OwnAnswer
  <2>7. NothingLeftOver'
    BY <1>3, <2>5 DEF NothingLeftOver
  <2> QED
    BY <2>3, <2>4, <2>6, <2>7
<1>4. CASE Return(c, "error") /\ UNCHANGED wire
  BY <1>1, <1>2, <1>4, ErrorSafe DEF streams
<1> QED
  BY <1>3, <1>4 DEF Publish

LEMMA GiveUpSafe ==
    ASSUME TypeOK, Safety, NEW c \in Calls, StreamEnds(c) \/ StopWaiting(c) PROVE Safety'
<1> USE DEF TypeOK, Safety
<1>1. /\ Return(c, "error") /\ pc[c] = "wait"
      /\ UNCHANGED <<phase, open, declared, cancelled, streams, enqueued, closing>>
  BY DEF StreamEnds, StopWaiting
<1>2. cancelled \/ Idle
  BY DEF StreamEnds, StopWaiting, GivesUp, ChannelUsed, Idle
<1> QED
  BY <1>1, <1>2, ErrorSafe

LEMMA TakeConfirmSafe ==
    ASSUME TypeOK, Safety, NEW c \in Calls, TakeConfirm(c) PROVE Safety'
<1> USE DEF TypeOK, Safety
<1>1. /\ pc[c] = "wait" /\ phase = "ready" /\ holder = c /\ confirms # <<>>
      /\ UNCHANGED <<phase, open, declared, cancelled, wire, inbound, enqueued, closing>>
  BY DEF TakeConfirm, MutexHeld, ChannelUsed
<1>2. /\ wire = <<>> /\ inbound = <<>> /\ confirms' = <<>>
      /\ 1 \in DOMAIN confirms /\ Head(confirms) = confirms[1]
  BY <1>1, Streams DEF TakeConfirm
<1> DEFINE r == Verdict(Head(confirms))
<1>3. r \in {"nil", "error"} /\ Return(c, r)
  BY DEF Verdict, TakeConfirm
<1>4. r = "nil" => c \in enqueued
  BY <1>1, <1>2 DEF Verdict, OwnAnswer, AcksJustified
<1> HIDE DEF r
<1>5. /\ holder' = Nobody
      /\ \A d \in Calls : pc'[d] = IF d = c THEN "done" ELSE pc[d]
      /\ \A d \in Calls : result'[d] = IF d = c THEN r ELSE result[d]
  BY <1>3, ReturnTyped
<1>6. MutexHeld' /\ NilMeansEnqueued'
  BY <1>1, <1>4, <1>5 DEF MutexHeld, NilMeansEnqueued
<1>7. ChannelUsed'
  BY <1>1 DEF ChannelUsed
<1>8. Idle'
  BY <1>1, <1>2 DEF Idle
<1>9. AtMostOne' /\ AcksJustified' /\ OwnAnswer'
  <2>1. wire' = <<>> /\ inbound' = <<>> /\ confirms' = <<>>
    BY <1>1, <1>2
  <2>2. Len(<<>>) = 0 /\ DOMAIN <<>> = {}
    OBVIOUS
  <2> QED
    BY <2>1, <2>2 DEF AtMostOne, AcksJustified, OwnAnswer
<1>10. NothingLeftOver'
  BY <1>8 DEF NothingLeftOver
<1> QED
  BY <1>6, <1>7, <1>9, <1>10

LEMMA BrokerSafe == ASSUME TypeOK, Safety, Broker PROVE Safety'
<1> USE DEF TypeOK, Safety
<1>1. PICK ack \in BOOLEAN :
          /\ enqueued' = IF ack /\ target[Head(wire)] \in declared
                            THEN enqueued \cup {Head(wire)} ELSE enqueued
          /\ inbound' = IF open THEN Append(inbound, [call |-> Head(wire), ack |-> ack])
                               ELSE inbound
  BY DEF Broker
<1> DEFINE m == [call |-> Head(wire), ack |-> ack]
<1>2. /\ wire # <<>> /\ wire' = Tail(wire) /\ phase = "ready"
      /\ UNCHANGED <<phase, open, declared, cancelled, holder, pc, result, confirms, closing>>
  BY DEF Broker, control, ChannelUsed
<1>3. /\ inbound = <<>> /\ confirms = <<>> /\ Tail(wire) = <<>>
      /\ 1 \in DOMAIN wire /\ Head(wire) = wire[1] /\ Head(wire) \in Calls
  BY <1>2, Streams
<1>4. target[Head(wire)] \in declared
  BY <1>2, <1>3 DEF ChannelUsed
<1>5. enqueued \subseteq enqueued' /\ (ack => Head(wire) \in enqueued')
  BY <1>1, <1>4
<1>6. MutexHeld' /\ NilMeansEnqueued'
  BY <1>2, <1>5 DEF MutexHeld, NilMeansEnqueued
<1>7. wire' = <<>> /\ confirms' = <<>> /\ Len(<<>>) = 0 /\ DOMAIN <<>> = {}
  BY <1>2, <1>3
<1>8. CASE open
  <2>1. inbound' = Append(<<>>, m)
    BY <1>1, <1>3, <1>8
  <2>2. Len(inbound') = 1 /\ \A i \in DOMAIN inbound' : inbound'[i] = m
    BY <2>1, AppendOne
  <2>3. m.call = Head(wire) /\ m.ack = ack
    OBVIOUS
  <2> HIDE DEF m
  <2>4. ChannelUsed'
    BY <1>2, <1>8 DEF ChannelUsed
  <2>5. AtMostOne'
    BY <1>7, <2>2 DEF AtMostOne
  <2>6. AcksJustified'
    BY <1>5, <1>7, <2>2, <2>3 DEF AcksJustified
  <2>7. OwnAnswer'
    BY <1>2, <1>3, <1>7, <2>2, <2>3 DEF OwnAnswer
  <2>8. NothingLeftOver'
    <3>1. ~Idle
      BY <1>2, <1>8 DEF Idle
    <3> QED
      BY <1>2, <3>1 DEF NothingLeftOver
  <2> QED
    BY <1>6, <2>4, <2>5, <2>6, <2>7, <2>8
<1>9. CASE ~open
  <2>1. inbound' = <<>>
    BY <1>1, <1>3, <1>9
  <2>2. ChannelUsed'
    BY <1>2, <1>7, <2>1 DEF ChannelUsed
  <2>3. AtMostOne' /\ AcksJustified' /\ OwnAnswer'
    BY <1>7, <2>1 DEF AtMostOne, AcksJustified, OwnAnswer
  <2>4. NothingLeftOver'
    BY <1>7, <2>1 DEF NothingLeftOver, Idle
  <2> QED
    BY <1>6, <2>2, <2>3, <2>4
<1> QED
  BY <1>8, <1>9

LEMMA ReaderSafe == ASSUME TypeOK, Safety, Reader PROVE Safety'
<1> USE DEF TypeOK, Safety
<1>1. /\ open /\ inbound # <<>>
      /\ confirms' = Append(confirms, Head(inbound)) /\ inbound' = Tail(inbound)
      /\ UNCHANGED <<phase, open, declared, cancelled, holder, pc, result, wire, enqueued, closing>>
  BY DEF Reader, control
<1>2. /\ wire = <<>> /\ confirms = <<>> /\ Tail(inbound) = <<>>
      /\ 1 \in DOMAIN inbound /\ Head(inbound) = inbound[1]
  BY <1>1, Streams
<1>3. confirms' = Append(<<>>, inbound[1])
  BY <1>1, <1>2
<1>4. Len(confirms') = 1 /\ \A i \in DOMAIN confirms' : confirms'[i] = inbound[1]
  BY <1>3, AppendOne
<1>5. wire' = <<>> /\ inbound' = <<>> /\ Len(<<>>) = 0 /\ DOMAIN <<>> = {}
  BY <1>1, <1>2
<1>6. MutexHeld' /\ NilMeansEnqueued' /\ ChannelUsed'
  BY <1>1 DEF MutexHeld, NilMeansEnqueued, ChannelUsed
<1>7. AtMostOne'
  BY <1>4, <1>5 DEF AtMostOne
<1>8. AcksJustified' /\ OwnAnswer'
  BY <1>1, <1>2, <1>4, <1>5 DEF AcksJustified, OwnAnswer
<1>9. NothingLeftOver'
  <2>1. ~Idle
    BY <1>1 DEF Idle
  <2> QED
    BY <1>1, <2>1 DEF NothingLeftOver
<1> QED
  BY <1>6, <1>7, <1>8, <1>9

LEMMA LoseSafe == ASSUME TypeOK, Safety, Lose PROVE Safety'
<1> USE DEF TypeOK, Safety
<1>1. /\ ~open' /\ inbound' = <<>> /\ phase = "ready"
      /\ UNCHANGED <<phase, declared, cancelled, holder, pc, result, confirms, enqueued, closing>>
  BY DEF Lose, control
<1>2. wire' = wire \/ wire' = <<>>
  BY DEF Lose
<1>3. Len(<<>>) = 0 /\ DOMAIN <<>> = {}
  OBVIOUS
<1>4. Len(wire) \in Nat /\ Len(inbound) \in Nat /\ Len(confirms) \in Nat
  OBVIOUS
<1>5. MutexHeld' /\ NilMeansEnqueued' /\ ChannelUsed'
  BY <1>1 DEF MutexHeld, NilMeansEnqueued, ChannelUsed
<1>6. AtMostOne'
  BY <1>1, <1>2, <1>3, <1>4 DEF AtMostOne
<1>7. AcksJustified' /\ OwnAnswer'
  BY <1>1, <1>2, <1>3 DEF AcksJustified, OwnAnswer
<1>8. Idle => Idle'
  BY <1>1 DEF Idle
<1>9. NothingLeftOver'
  BY <1>1, <1>8 DEF NothingLeftOver
<1> QED
  BY <1>5, <1>6, <1>7, <1>9

LEMMA ConnectSafe == ASSUME TypeOK, Safety, Connect PROVE Safety'
<1> USE DEF TypeOK, Safety
<1>1. /\ phase # "ready"
      /\ UNCHANGED <<cancelled, holder, pc, result, wire, inbound, confirms, enqueued, closing>>
  BY DEF Connect, Dial, OpenChannel, ConfirmMode, DeclareQueue, Connected, ConnectFails,
         Connecting, control, streams
<1>2. phase' = "ready" => declared' = Queues
  BY <1>1 DEF Connect, Dial, OpenChannel, ConfirmMode, DeclareQueue, Connected, ConnectFails,
              Connecting, Topology
<1>3. ~cancelled /\ wire = <<>> /\ \A c \in Calls : pc[c] = "new"
  BY <1>1 DEF ChannelUsed
<1>4. Idle
  BY <1>3 DEF NothingLeftOver
<1>5. ChannelUsed'
  BY <1>1, <1>2, <1>3, <1>4 DEF ChannelUsed, Idle
<1>6. MutexHeld' /\ NilMeansEnqueued' /\ AtMostOne' /\ AcksJustified' /\ OwnAnswer'
  BY <1>1 DEF MutexHeld, NilMeansEnqueued, AtMostOne, AcksJustified, OwnAnswer
<1>7. NothingLeftOver'
  BY <1>1, <1>3, <1>4 DEF NothingLeftOver, Idle
<1> QED
  BY <1>5, <1>6, <1>7

LEMMA ShutdownSafe ==
    ASSUME TypeOK, Safety, Cancel \/ BeginClose \/ Close \/ UNCHANGED vars PROVE Safety'
<1> USE DEF TypeOK, Safety
<1>1. /\ UNCHANGED <<phase, declared, pc, result, wire, inbound, confirms, enqueued>>
      /\ (open' => open) /\ (cancelled => cancelled')
      /\ (cancelled' => cancelled \/ phase = "ready")
  BY DEF Cancel, BeginClose, Close, LockClose, CloseChannel, CloseConnection, control, streams, vars
<1>2. open' # open => inbound = <<>>
  BY DEF Cancel, BeginClose, Close, LockClose, CloseChannel, CloseConnection, vars, ChannelUsed
<1>3. MutexHeld'
  BY DEF Cancel, BeginClose, Close, LockClose, CloseChannel, CloseConnection, control, vars, MutexHeld
<1>4. NilMeansEnqueued' /\ AtMostOne' /\ AcksJustified' /\ OwnAnswer'
  BY <1>1 DEF NilMeansEnqueued, AtMostOne, AcksJustified, OwnAnswer
<1>5. ChannelUsed'
  BY <1>1, <1>2 DEF ChannelUsed
<1>6. NothingLeftOver'
  BY <1>1 DEF NothingLeftOver, Idle
<1> QED
  BY <1>3, <1>4, <1>5, <1>6

-----------------------------------------------------------------------------
LEMMA InitSafe == Init => Safety
<1> SUFFICES ASSUME Init PROVE Safety
  OBVIOUS
<1>1. /\ wire = <<>> /\ inbound = <<>> /\ confirms = <<>> /\ Len(<<>>) = 0 /\ DOMAIN <<>> = {}
      /\ phase = "dial" /\ ~cancelled /\ holder = Nobody /\ closing = "no"
      /\ \A c \in Calls : pc[c] = "new" /\ result[c] = "none"
  BY DEF Init
<1>2. MutexHeld /\ ChannelUsed /\ NilMeansEnqueued
  BY <1>1 DEF MutexHeld, ChannelUsed, NilMeansEnqueued
<1>3. AtMostOne /\ OwnAnswer /\ AcksJustified
  BY <1>1 DEF AtMostOne, OwnAnswer, AcksJustified
<1>4. NothingLeftOver
  BY <1>1 DEF NothingLeftOver, Idle
<1> QED
  BY <1>2, <1>3, <1>4 DEF Safety

\* The inductive invariant.
THEOREM SafetyHolds == Spec => [](TypeOK /\ Safety)
<1>1. Init => TypeOK /\ Safety
  BY InitTyped, InitSafe
<1>2. TypeOK /\ Safety /\ [Next]_vars => (TypeOK /\ Safety)'
  <2> SUFFICES ASSUME TypeOK, Safety, [Next]_vars PROVE Safety'
    BY NextTyped
  <2>1. ASSUME NEW c \in Calls, Lock(c) \/ Call(c) PROVE Safety'
    BY <2>1, LockSafe, CheckSafe, PublishSafe, TakeConfirmSafe, GiveUpSafe DEF Call
  <2> QED
    BY <2>1, BrokerSafe, ReaderSafe, LoseSafe, ConnectSafe, ShutdownSafe DEF Next
<1> QED
  BY <1>1, <1>2, PTL DEF Spec

\* A nil from Publish vouches for this very message, for any number of
\* concurrent calls, connection losses and cancelled waits.
THEOREM NilIsTrue == Spec => []NilMeansEnqueued
<1>1. TypeOK /\ Safety => NilMeansEnqueued
  BY DEF Safety
<1> QED
  BY <1>1, SafetyHolds, PTL

\* The reader of the client library is never blocked.
THEOREM ReaderIsFree == Spec => []ReaderNeverBlocks
<1>1. TypeOK /\ Safety => ReaderNeverBlocks
  BY Streams DEF Safety, ReaderNeverBlocks
<1> QED
  BY <1>1, SafetyHolds, PTL

\* Something is under way while a call waits on an open channel.
WaitExpects == \A c \in Calls : pc[c] = "wait" /\ open =>
                   wire # <<>> \/ inbound # <<>> \/ confirms # <<>>

\* A sequence that is not empty, of one element at most, has one.
LEMMA NonEmpty ==
    ASSUME NEW S, NEW s \in Seq(S)
    PROVE  /\ s # <<>> /\ Len(s) <= 1 => Len(s) = 1
           /\ \A x \in S : Append(s, x) # <<>>
<1>1. s # <<>> /\ Len(s) <= 1 => Len(s) = 1
  <2>1. Len(s) \in Nat /\ (Len(s) = 0 => s = <<>>)
    BY EmptySeq
  <2>2. \A n \in Nat : n # 0 /\ n <= 1 => n = 1
    OBVIOUS
  <2> QED
    BY <2>1, <2>2, Zenon
<1>2. ASSUME NEW x \in S PROVE Append(s, x) # <<>>
  <2>1. Len(Append(s, x)) = Len(s) + 1 /\ Len(s) \in Nat /\ Len(<<>>) = 0
    OBVIOUS
  <2> QED
    BY <2>1
<1> QED
  BY <1>1, <1>2

LEMMA WaitExpectsStep ==
    ASSUME TypeOK, Safety, WaitExpects, [Next]_vars PROVE WaitExpects'
<1> USE DEF TypeOK
<1> SUFFICES ASSUME NEW w \in Calls, pc'[w] = "wait", open'
             PROVE  wire' # <<>> \/ inbound' # <<>> \/ confirms' # <<>>
  BY DEF WaitExpects
<1>1. CASE pc[w] = "wait" /\ open /\ UNCHANGED streams
  BY <1>1 DEF WaitExpects, streams
<1>2. ASSUME NEW c \in Calls, Lock(c) \/ Call(c), ~UNCHANGED streams
      PROVE  wire' # <<>> \/ inbound' # <<>> \/ confirms' # <<>>
  <2>1. CASE Publish(c)
    <3>1. wire' = Append(wire, c)
      BY <1>2, <2>1 DEF Publish, streams
    <3> QED
      BY <3>1
  <2>2. CASE TakeConfirm(c)
    <3>1. pc[c] = "wait" /\ pc' = [pc EXCEPT ![c] = "done"]
      BY <2>2 DEF TakeConfirm, Return
    <3>2. w # c /\ pc[w] = "wait"
      BY <3>1
    <3> QED
      BY <3>1, <3>2 DEF Safety, MutexHeld
  <2> QED
    BY <1>2, <2>1, <2>2 DEF Call, Lock, Check, StreamEnds, StopWaiting, streams
<1>3. ASSUME NEW c \in Calls, Lock(c) \/ Call(c), UNCHANGED streams
      PROVE  wire' # <<>> \/ inbound' # <<>> \/ confirms' # <<>>
  <2>1. open
    BY <1>3 DEF Lock, Call, Check, Publish, TakeConfirm, StreamEnds, StopWaiting
  <2>2. CASE pc[w] = "wait"
    BY <1>1, <1>3, <2>1, <2>2
  <2>3. CASE pc[w] # "wait"
    <3>1. Publish(c)
      BY <1>3, <2>3 DEF Lock, Call, Check, TakeConfirm, StreamEnds, StopWaiting, Return
    <3>2. wire' = Append(wire, c)
      BY <2>1, <2>3, <3>1 DEF Publish, Return
    <3> QED
      BY <3>2
  <2> QED
    BY <2>2, <2>3
<1>4. CASE Broker
  <2>1. open /\ inbound' # <<>>
    <3>1. open
      BY <1>4 DEF Broker
    <3>2. PICK a \in Confirmations : inbound' = Append(inbound, a)
      BY <1>4, <3>1 DEF Broker, Confirmations
    <3>3. inbound \in Seq(Confirmations)
      OBVIOUS
    <3> QED
      BY <3>1, <3>2, <3>3, NonEmpty
  <2> QED
    BY <2>1
<1>5. CASE Reader
  <2>1. confirms' = Append(confirms, Head(inbound)) /\ Head(inbound) \in Confirmations
    BY <1>5 DEF Reader
  <2> QED
    BY <2>1
<1>6. CASE Lose
  BY <1>6 DEF Lose
<1>7. CASE Connect
  <2>1. phase # "ready" /\ pc' = pc
    BY <1>7 DEF Connect, Dial, OpenChannel, ConfirmMode, DeclareQueue, Connected, ConnectFails,
                Connecting, control
  <2> QED
    BY <2>1 DEF Safety, ChannelUsed
<1>8. CASE Cancel \/ BeginClose \/ Close \/ UNCHANGED vars
  <2>1. pc' = pc /\ UNCHANGED streams /\ open
    BY <1>8 DEF Cancel, BeginClose, Close, LockClose, CloseChannel, CloseConnection, control, vars
  <2> QED
    BY <1>1, <2>1
<1> QED
  BY <1>2, <1>3, <1>4, <1>5, <1>6, <1>7, <1>8 DEF Next

\* What a waiting call waits for is under way, and its own.
THEOREM WaitersAreAnsweredHolds == Spec => []WaitersAreAnswered
<1>1. Init => WaitExpects
  BY DEF Init, WaitExpects
<1>2. TypeOK /\ Safety /\ WaitExpects => WaitersAreAnswered
  <2> SUFFICES ASSUME TypeOK, Safety, WaitExpects, NEW c \in Calls, pc[c] = "wait", open
               PROVE  \/ wire = <<c>>
                      \/ \E a \in BOOLEAN : <<[call |-> c, ack |-> a]>> \in {inbound, confirms}
    BY DEF WaitersAreAnswered
  <2>1. Len(wire) + Len(inbound) + Len(confirms) <= 1
    BY DEF Safety, AtMostOne
  <2>2. wire \in Seq(Calls) /\ inbound \in Seq(Confirmations) /\ confirms \in Seq(Confirmations)
    BY DEF TypeOK
  <2>3. Len(wire) \in Nat /\ Len(inbound) \in Nat /\ Len(confirms) \in Nat
    BY <2>2
  <2>4. Len(wire) <= 1 /\ Len(inbound) <= 1 /\ Len(confirms) <= 1
    BY <2>1, <2>3
  <2>5. CASE wire # <<>>
    <3>1. Len(wire) = 1
      BY <2>2, <2>4, <2>5, NonEmpty
    <3>2. wire[1] = c
      BY <2>2, <3>1 DEF Safety, OwnAnswer
    <3> QED
      BY <2>2, <3>1, <3>2
  <2>6. ASSUME NEW q \in {inbound, confirms}, q # <<>>
        PROVE  \E a \in BOOLEAN : q = <<[call |-> c, ack |-> a]>>
    <3>1. q \in Seq(Confirmations) /\ Len(q) <= 1
      BY <2>2, <2>4, <2>6
    <3>2. Len(q) = 1
      BY <2>6, <3>1, NonEmpty
    <3>3. q[1] \in Confirmations /\ q[1].call = c
      BY <3>1, <3>2 DEF Safety, OwnAnswer
    <3>4. q = <<q[1]>> /\ q[1].ack \in BOOLEAN /\ q[1] = [call |-> c, ack |-> q[1].ack]
      BY <3>1, <3>2, <3>3 DEF Confirmations
    <3> QED
      BY <3>4
  <2>7. CASE wire = <<>>
    <3>1. inbound # <<>> \/ confirms # <<>>
      BY <2>7 DEF WaitExpects
    <3> QED
      BY <2>6, <3>1
  <2> QED
    BY <2>5, <2>7
<1>3. TypeOK /\ Safety /\ WaitExpects /\ [Next]_vars => WaitExpects'
  BY WaitExpectsStep
<1> QED
  BY <1>1, <1>2, <1>3, SafetyHolds, PTL DEF Spec
=============================================================================
