-------------------------- MODULE OutboxRelayProofs --------------------------
(***************************************************************************)
(* Proofs about OutboxRelay for any number of relays, events and failures, *)
(* any batch size and any number of attempts to mark an event.             *)
(***************************************************************************)
EXTENDS OutboxRelay, WellFoundedInduction, TLAPS

\* A non-empty set of events has an oldest one: the event a poll works on is
\* one of its batch.
LEMMA OldestExists ==
    ASSUME NEW S \in SUBSET Events, S # {}
    PROVE  (CHOOSE e \in S : \A f \in S : e <= f) \in S
<1>1. S \subseteq Nat
  BY NumberAssumption DEF Events
<1>2. PICK e \in S : \A f \in S : <<f, e>> \notin OpToRel(<, Nat)
  BY <1>1, NatLessThanWellFounded, WFMin
<1>3. ASSUME NEW f \in S PROVE e <= f
  <2>1. f \in Nat /\ e \in Nat /\ <<f, e>> \in Nat \X Nat
    BY <1>1
  <2>2. ~(f < e)
    BY <1>2, <2>1 DEF OpToRel
  <2> QED
    BY <2>1, <2>2
<1> QED
  BY <1>3

LEMMA CurrentInBatch ==
    ASSUME TypeOK, NEW r \in Relays, pc[r] \notin {"poll", "down"}
    PROVE  Current(r) \in batch[r] /\ Current(r) \in Events
BY OldestExists DEF TypeOK, Current

\* What NextEvent does: the current event leaves the batch.
LEMMA NextEventStep ==
    ASSUME TypeOK, NEW r \in Relays, pc[r] \notin {"poll", "down"}, NextEvent(r)
    PROVE  /\ batch' \in [Relays -> SUBSET Events]
           /\ tries' \in [Relays -> 0 .. MarkPublishedMaxAttempts - 1]
           /\ pc' = [pc EXCEPT ![r] = pc'[r]]
           /\ batch'[r] = batch[r] \ {Current(r)}
           /\ batch' = [batch EXCEPT ![r] = batch'[r]]
           /\ \/ pc'[r] = "poll" /\ batch'[r] = {}
              \/ pc'[r] = "check" /\ batch'[r] # {}
BY CurrentInBatch, NumberAssumption DEF TypeOK, NextEvent, Goto

\* Every variable keeps its type, and a relay has a batch while it polls.
THEOREM TypeCorrect == Spec => []TypeOK
<1>1. Init => TypeOK
  BY NumberAssumption DEF Init, TypeOK
<1>2. TypeOK /\ [Next]_vars => TypeOK'
  <2> SUFFICES ASSUME TypeOK, [Next]_vars PROVE TypeOK'
    OBVIOUS
  <2> USE NumberAssumption DEF TypeOK, Fault, Call, relay
  <2>1. ASSUME NEW e \in Events, Create(e) \/ LockExpires(e) PROVE TypeOK'
    BY <2>1 DEF Create, LockExpires
  <2>2. ASSUME NEW r \in Relays, RelayStep(r) PROVE TypeOK'
    <3>1. CASE ClaimBatch(r)
      BY <3>1 DEF ClaimBatch, IsBatch, Goto
    <3>2. CASE CheckPublished(r)
      BY <3>2, NextEventStep DEF CheckPublished, IsPublished, Goto
    <3>3. CASE PublishEvent(r)
      <4>1. UNCHANGED <<status, locked, batch, tries>>
        BY <3>3 DEF PublishEvent
      <4>2. pc[r] = "publish" /\ \E point \in {"mark", "record"} : pc' = [pc EXCEPT ![r] = point]
        BY <3>3 DEF PublishEvent, AfterPublish, Goto
      <4>3. copies' \in [Events -> 0 .. MaxCopies] /\ confirmed' \subseteq Events
        BY <3>3, CurrentInBatch DEF PublishEvent
      <4>4. connected' \in [Relays -> BOOLEAN]
        BY <3>3 DEF PublishEvent, CutOff
      <4>5. faultsLeft' \in 0 .. MaxFaults
        BY <3>3 DEF PublishEvent, CutOff
      <4>6. /\ pc' \in [Relays -> {"poll", "check", "publish", "mark",
                                "verify", "record", "down"}]
            /\ \A s \in Relays : pc'[s] \in {"poll", "down"} <=> batch'[s] = {}
        BY <4>1, <4>2
      <4> QED
        BY <4>1, <4>3, <4>4, <4>5, <4>6
    <3>4. CASE MarkPublished(r)
      BY <3>4, NextEventStep, CurrentInBatch DEF MarkPublished, Goto
    <3>5. CASE VerifyMark(r)
      BY <3>5, NextEventStep DEF VerifyMark, IsPublished, IsLastTry, Goto
    <3>6. CASE RecordFailure(r)
      BY <3>6, NextEventStep DEF RecordFailure, Unlocked
    <3> QED
      BY <2>2, <3>1, <3>2, <3>3, <3>4, <3>5, <3>6 DEF RelayStep
  <2>3. ASSUME NEW r \in Relays, RelayLife(r) PROVE TypeOK'
    <3>1. CASE Crash(r)
      BY <3>1 DEF Crash, Goto
    <3>2. CASE LoseConnection(r)
      BY <3>2 DEF LoseConnection, CutOff
    <3>3. CASE Start(r)
      BY <3>3 DEF Start, Goto
    <3> QED
      BY <2>3, <3>1, <3>2, <3>3 DEF RelayLife
  <2>4. CASE UNCHANGED vars
    BY <2>4 DEF vars
  <2> QED
    BY <2>1, <2>2, <2>3, <2>4 DEF Next, Quiescent
<1> QED
  BY <1>1, <1>2, PTL DEF Spec

-----------------------------------------------------------------------------
\* The steps of a relay leave the other relays alone, and the current event of
\* a batch that does not change stays the same.
LEMMA OthersKeep ==
    ASSUME TypeOK, NEW r \in Relays, RelayStep(r), NEW s \in Relays, s # r
    PROVE  /\ pc'[s] = pc[s] /\ batch'[s] = batch[s] /\ tries'[s] = tries[s]
           /\ Current(s)' = Current(s)
<1>1. pc'[s] = pc[s] /\ batch'[s] = batch[s] /\ tries'[s] = tries[s]
  BY DEF TypeOK, RelayStep, ClaimBatch, CheckPublished, IsPublished, PublishEvent, MarkPublished,
         VerifyMark, RecordFailure, NextEvent, Goto
<1> QED
  BY <1>1 DEF Current

\* A step keeps the exclusion of claims and what it rests on: only events that
\* nobody has in a batch are claimed, and a lock is given up (by the failure
\* record, the mark or the clock) for events that are leaving theirs.
LEMMA SafetyStep ==
    ASSUME TypeOK, TypeOK', Safety, [Next]_vars
    PROVE  Safety'
<1> USE DEF TypeOK, Safety, PublishedMeansEnqueued, ExclusiveClaim, BatchJustified, relay
<1>1. ASSUME NEW e \in Events, Create(e) \/ LockExpires(e) PROVE Safety'
  BY <1>1 DEF Create, LockExpires, Current
<1>2. ASSUME NEW r \in Relays, RelayStep(r) PROVE Safety'
  <2>1. \A s \in Relays : s # r =>
          pc'[s] = pc[s] /\ batch'[s] = batch[s] /\ Current(s)' = Current(s)
    BY <1>2, OthersKeep
  <2>2. batch'[r] = batch[r] => Current(r)' = Current(r)
    BY DEF Current
  <2> USE <2>1, <2>2
  <2>3. CASE ClaimBatch(r)
    <3>1. PICK S \in SUBSET Events :
            /\ IsBatch(S)
            /\ batch'[r] = S \/ batch'[r] = batch[r]
            /\ locked \subseteq locked'
            /\ batch'[r] = S => S \subseteq locked'
      BY <2>3 DEF ClaimBatch, Call
    <3>2. /\ status' = status /\ copies' = copies
          /\ pc'[r] \in {"poll", "check"}
      BY <2>3 DEF ClaimBatch, Goto
    <3>3. \A s \in Relays : S \cap batch[s] \subseteq Slow
      BY <3>1 DEF IsBatch, Claimable
    <3>4. PublishedMeansEnqueued'
      BY <3>2
    <3>5. ExclusiveClaim'
      BY <3>1, <3>3
    <3>6. BatchJustified'
      BY <3>1, <3>2
    <3> QED
      BY <3>4, <3>5, <3>6
  <2>4. CASE CheckPublished(r)
    <3>1. /\ UNCHANGED <<status, locked, copies>>
          /\ batch'[r] \subseteq batch[r]
          /\ pc'[r] \notin {"mark", "verify"}
      BY <2>4, NextEventStep DEF CheckPublished, IsPublished, Goto
    <3> QED
      BY <3>1
  <2>5. CASE PublishEvent(r)
    <3>1. /\ UNCHANGED <<status, locked, batch>>
          /\ \A e \in Events : copies'[e] >= copies[e]
          /\ pc'[r] = "mark" => copies'[Current(r)] > 0
          /\ pc'[r] # "verify"
      BY <2>5, CurrentInBatch, NumberAssumption
         DEF PublishEvent, CutOff, AfterPublish, Goto, Call
    <3> QED
      BY <3>1, CurrentInBatch
  <2>6. CASE MarkPublished(r)
    <3>1. /\ copies' = copies
          /\ copies[Current(r)] > 0 /\ Current(r) \in Events
          /\ \/ UNCHANGED <<status, locked>>
             \/ /\ status' = [status EXCEPT ![Current(r)] = "published"]
                /\ locked' = locked \ {Current(r)}
      BY <2>6, CurrentInBatch DEF MarkPublished
    <3>2. \/ batch'[r] = batch[r] /\ pc'[r] = "verify"
          \/ batch'[r] \subseteq batch[r] /\ pc'[r] \in {"poll", "check"}
      BY <2>6, NextEventStep DEF MarkPublished, Goto
    <3>3. PublishedMeansEnqueued'
      BY <3>1
    <3>4. ExclusiveClaim'
      BY <3>2
    <3>5. BatchJustified'
      BY <3>1, <3>2
    <3> QED
      BY <3>3, <3>4, <3>5
  <2>7. CASE VerifyMark(r)
    <3>1. /\ UNCHANGED <<status, locked, copies>>
          /\ copies[Current(r)] > 0
          /\ \/ batch'[r] = batch[r] /\ pc'[r] = "mark"
             \/ batch'[r] \subseteq batch[r] /\ pc'[r] \in {"poll", "check"}
      BY <2>7, NextEventStep DEF VerifyMark, IsPublished, Goto
    <3>2. PublishedMeansEnqueued'
      BY <3>1
    <3>3. ExclusiveClaim'
      BY <3>1
    <3>4. BatchJustified'
      BY <3>1
    <3> QED
      BY <3>2, <3>3, <3>4
  <2>8. CASE RecordFailure(r)
    <3>1. /\ UNCHANGED <<status, copies>>
          /\ locked \ {Current(r)} \subseteq locked'
          /\ Current(r) \in batch[r]
          /\ batch'[r] = batch[r] \ {Current(r)}
          /\ pc'[r] \in {"poll", "check"}
      BY <2>8, NextEventStep, CurrentInBatch DEF RecordFailure, Unlocked
    <3> QED
      BY <3>1
  <2> QED
    BY <1>2, <2>3, <2>4, <2>5, <2>6, <2>7, <2>8 DEF RelayStep
<1>3. ASSUME NEW r \in Relays, RelayLife(r) PROVE Safety'
  <2>1. \A s \in Relays : batch'[s] = batch[s] => Current(s)' = Current(s)
    BY DEF Current
  <2> QED
    BY <1>3, <2>1 DEF RelayLife, Crash, LoseConnection, CutOff, Start, Goto
<1>4. CASE UNCHANGED vars
  BY <1>4 DEF vars, Current
<1> QED
  BY <1>1, <1>2, <1>3, <1>4 DEF Next, Quiescent

\* The two invariants and what they rest on hold in every reachable state.
THEOREM SafetyHolds == Spec => []Safety
<1>1. Init => Safety
  BY DEF Init, Safety, PublishedMeansEnqueued, ExclusiveClaim, BatchJustified
<1>2. TypeOK /\ TypeOK' /\ Safety /\ [Next]_vars => Safety'
  BY SafetyStep
<1> QED
  BY <1>1, <1>2, TypeCorrect, PTL DEF Spec

\* No event is marked published that RabbitMQ has not taken.
THEOREM PublishedMeansEnqueuedHolds == Spec => []PublishedMeansEnqueued
BY SafetyHolds, PTL DEF Safety

\* Relays never share an event whose lock they keep within.
THEOREM ExclusiveClaimHolds == Spec => []ExclusiveClaim
BY SafetyHolds, PTL DEF Safety

-----------------------------------------------------------------------------
\* The bookkeeping of copies: Publish adds the unpaid copy of an event nobody
\* else works on; the mark that follows, or the failure of that mark, pays it.
LEMMA CopyAccountStep ==
    ASSUME TypeOK, TypeOK', Safety, CopyAccount, CutOffPaid, [Next]_vars
    PROVE  CopyAccount'
<1> USE NumberAssumption DEF TypeOK, CopyAccount
<1> DEFINE used == MaxFaults - faultsLeft
           Marking(e) == \E s \in Relays : pc[s] = "mark" /\ tries[s] = 0 /\ e = Current(s)
           Paid(e) == copies[e] <= used \/ status[e] = "published" \/ Marking(e)
<1>a. \A e \in Events \ Slow : copies[e] <= 1 + used /\ Paid(e)
  OBVIOUS
<1>1. ASSUME NEW e \in Events, Create(e) \/ LockExpires(e) PROVE CopyAccount'
  <2>1. /\ UNCHANGED <<pc, tries, batch, copies, connected, faultsLeft>>
        /\ \A s \in Relays : Current(s)' = Current(s)
        /\ \A f \in Events : /\ status[f] # "absent" => status'[f] = status[f]
                             /\ status'[f] = "absent" => status[f] = "absent"
    BY <1>1 DEF Create, LockExpires, relay, Current
  <2>2. \A s \in Relays : pc[s] \in {"publish", "mark"} => Current(s) \in Events
    BY CurrentInBatch
  <2> QED
    BY <2>1, <2>2
<1>2. ASSUME NEW r \in Relays, RelayStep(r) PROVE CopyAccount'
  <2>1. \A s \in Relays : s # r =>
          /\ pc'[s] = pc[s] /\ batch'[s] = batch[s] /\ tries'[s] = tries[s]
          /\ Current(s)' = Current(s)
    BY <1>2, OthersKeep
  <2>2. batch'[r] = batch[r] => Current(r)' = Current(r)
    BY DEF Current
  <2>3. pc[r] # "poll" => Current(r) \in Events /\ Current(r) \in batch[r]
    BY <1>2, CurrentInBatch DEF RelayStep, ClaimBatch, CheckPublished, IsPublished, PublishEvent,
       MarkPublished, VerifyMark, RecordFailure
  <2>4. \A s \in Relays : s # r /\ pc[s] \notin {"poll", "down"} /\ pc[r] # "poll"
                            => Current(s) # Current(r) \/ Current(r) \in Slow
    BY <2>3, CurrentInBatch DEF Safety, ExclusiveClaim
  <2>5. CASE ClaimBatch(r)
    <3>1. PICK S \in SUBSET Events :
            /\ S \subseteq Claimable
            /\ batch'[r] = S \/ batch'[r] = batch[r]
      BY <2>5 DEF ClaimBatch, IsBatch
    <3>2. /\ UNCHANGED <<status, connected, tries, copies>>
          /\ pc[r] = "poll" /\ pc'[r] \in {"poll", "check"}
          /\ faultsLeft' <= faultsLeft
      BY <2>5 DEF ClaimBatch, Goto, Call, Fault
    <3> QED
      BY <2>1, <3>1, <3>2 DEF Claimable
  <2>6. CASE CheckPublished(r)
    <3>1. /\ UNCHANGED <<status, connected, copies>>
          /\ faultsLeft' <= faultsLeft
          /\ batch'[r] \subseteq batch[r]
          /\ tries'[r] = 0
          /\ pc[r] = "check"
          /\ \/ pc'[r] \in {"poll", "check", "record"}
             \/ /\ pc'[r] = "publish" /\ batch'[r] = batch[r]
                /\ status[Current(r)] = "pending"
      BY <2>6, <2>3, NextEventStep DEF CheckPublished, IsPublished, Goto, Fault, NextEvent
    <3> QED
      BY <2>1, <2>2, <3>1
  <2>7. CASE PublishEvent(r)
    <3>1. /\ UNCHANGED <<status, batch, tries>>
          /\ pc[r] = "publish" /\ tries[r] = 0 /\ pc'[r] \in {"mark", "record"}
          /\ \A e \in Events : e # Current(r) => copies'[e] = copies[e]
          /\ copies'[Current(r)] <= copies[Current(r)] + 1
          /\ \A s \in Relays : s # r => connected'[s] = connected[s]
          /\ \/ /\ faultsLeft' = faultsLeft /\ pc'[r] = "mark"
                /\ connected' = connected /\ connected[r]
             \/ faultsLeft' = faultsLeft - 1 /\ pc'[r] = "record"
             \/ faultsLeft' = faultsLeft /\ copies' = copies /\ pc'[r] = "record"
      BY <2>7, <2>3 DEF PublishEvent, CutOff, AfterPublish, Goto, Call, Fault
    <3>2. Current(r) \notin Slow => copies[Current(r)] <= used
      BY <3>1, <2>3, <2>4
    <3>3. Current(r)' = Current(r)
      BY <2>2, <3>1
    <3> QED
      BY <2>1, <2>3, <3>1, <3>2, <3>3
  <2>8. CASE MarkPublished(r)
    <3>1. /\ UNCHANGED <<connected, copies>>
          /\ pc[r] = "mark"
          /\ \/ status' = status
             \/ status' = [status EXCEPT ![Current(r)] = "published"]
          /\ \/ /\ faultsLeft' = faultsLeft
                /\ status'[Current(r)] = "published"
                /\ tries'[r] = 0 /\ batch'[r] \subseteq batch[r]
                /\ pc'[r] \in {"poll", "check"}
             \/ /\ faultsLeft' = faultsLeft - 1
                /\ tries'[r] = tries[r] /\ batch'[r] = batch[r]
                /\ pc'[r] = "verify"
      BY <2>8, <2>3, NextEventStep DEF MarkPublished, Goto, Call, Fault, NextEvent
    <3>2. \A s \in Relays : s # r /\ pc[s] = "publish" /\ Current(s) \notin Slow
                              => status'[Current(s)] = "pending"
      BY <3>1, <2>4, CurrentInBatch
    <3>3. ASSUME NEW s \in Relays
          PROVE  /\ pc'[s] \notin {"mark", "verify"} => tries'[s] = 0
                 /\ pc'[s] = "publish" /\ Current(s)' \notin Slow
                      => status'[Current(s)'] = "pending"
                 /\ \A e \in batch'[s] : status'[e] # "absent"
      <4>1. \A e \in Events : status[e] # "absent" => status'[e] # "absent"
        BY <2>3, <3>1
      <4>2. CASE s = r
        BY <3>1, <4>1, <4>2
      <4>3. CASE s # r
        BY <2>1, <3>2, <4>1, <4>3
      <4> QED
        BY <4>2, <4>3
    <3>4. ASSUME NEW e \in Events \ Slow
          PROVE  /\ copies'[e] <= 1 + (MaxFaults - faultsLeft')
                 /\ \/ copies'[e] <= MaxFaults - faultsLeft'
                    \/ status'[e] = "published"
                    \/ \E s \in Relays : pc'[s] = "mark" /\ tries'[s] = 0 /\ e = Current(s)'
      <4>1. copies'[e] = copies[e] /\ copies[e] <= 1 + used
        BY <1>a, <3>1
      <4>2. CASE e = Current(r)
        BY <2>3, <3>1, <4>1, <4>2
      <4>3. CASE e # Current(r)
        <5>1. copies[e] <= used \/ status[e] = "published" \/ Marking(e)
          BY <1>a
        <5>2. Marking(e) => \E s \in Relays : pc'[s] = "mark" /\ tries'[s] = 0 /\ e = Current(s)'
          BY <2>1, <4>3
        <5>3. status'[e] = status[e]
          BY <3>1, <4>3
        <5>4. faultsLeft' <= faultsLeft
          BY <3>1
        <5>5. CASE copies[e] <= used
          BY <4>1, <5>4, <5>5
        <5>6. CASE copies[e] > used
          <6>1. copies'[e] <= 1 + (MaxFaults - faultsLeft')
            BY <4>1, <5>4
          <6> QED
            BY <5>1, <5>2, <5>3, <5>6, <6>1
        <5> QED
          BY <4>1, <5>5, <5>6
      <4> QED
        BY <4>2, <4>3
    <3> QED
      BY <3>3, <3>4
  <2>9. CASE VerifyMark(r)
    <3>1. /\ UNCHANGED <<status, connected, copies>>
          /\ faultsLeft' <= faultsLeft
          /\ batch'[r] \subseteq batch[r]
          /\ pc[r] = "verify"
          /\ \/ pc'[r] \in {"poll", "check"} /\ tries'[r] = 0
             \/ pc'[r] = "mark" /\ batch'[r] = batch[r]
      BY <2>9, NextEventStep DEF VerifyMark, IsPublished, Goto, Fault, NextEvent
    <3> QED
      BY <2>1, <2>2, <3>1
  <2>10. CASE RecordFailure(r)
    <3>1. /\ UNCHANGED <<status, connected, copies>>
          /\ faultsLeft' <= faultsLeft
          /\ batch'[r] \subseteq batch[r]
          /\ pc[r] = "record"
          /\ pc'[r] \in {"poll", "check"} /\ tries'[r] = 0
      <4>1. pc[r] = "record" /\ NextEvent(r)
        BY <2>10 DEF RecordFailure
      <4>2. faultsLeft' <= faultsLeft
        BY <2>10 DEF RecordFailure, Call, Fault
      <4>3. UNCHANGED <<status, connected, copies>>
        BY <2>10 DEF RecordFailure
      <4>4. tries'[r] = 0
        BY <4>1 DEF NextEvent, TypeOK
      <4>5. batch'[r] \subseteq batch[r] /\ pc'[r] \in {"poll", "check"}
        BY <4>1, NextEventStep
      <4> QED
        BY <4>1, <4>2, <4>3, <4>4, <4>5
    <3> QED
      BY <2>1, <3>1
  <2> QED
    BY <1>2, <2>5, <2>6, <2>7, <2>8, <2>9, <2>10 DEF RelayStep
<1>3. ASSUME NEW r \in Relays, Crash(r) PROVE CopyAccount'
  <2>1. /\ UNCHANGED <<status, copies, connected>>
        /\ faultsLeft' = IF connected[r] THEN faultsLeft - 1 ELSE faultsLeft
        /\ pc'[r] = "down" /\ tries'[r] = 0 /\ batch'[r] = {}
        /\ \A s \in Relays : s # r =>
             /\ pc'[s] = pc[s] /\ batch'[s] = batch[s] /\ tries'[s] = tries[s]
             /\ Current(s)' = Current(s)
    BY <1>3 DEF Crash, Goto, Fault, Current
  <2>2. ASSUME NEW e \in Events \ Slow, ~connected[r], pc[r] = "mark", e = Current(r)
        PROVE  copies[e] <= used
    BY <2>2 DEF CutOffPaid
  <2> QED
    BY <2>1, <2>2
<1>4. ASSUME NEW r \in Relays, Start(r) PROVE CopyAccount'
  <2>1. /\ UNCHANGED <<status, copies, batch, tries, faultsLeft>>
        /\ connected' = [connected EXCEPT ![r] = TRUE]
        /\ pc[r] = "down" /\ pc' = [pc EXCEPT ![r] = "poll"]
        /\ \A s \in Relays : Current(s)' = Current(s)
    BY <1>4 DEF Start, Goto, Current
  <2> QED
    BY <2>1
<1>5. ASSUME NEW r \in Relays, LoseConnection(r) PROVE CopyAccount'
  <2>1. /\ UNCHANGED <<status, copies, pc, batch, tries>>
        /\ faultsLeft' = faultsLeft - 1
        /\ connected' = [connected EXCEPT ![r] = FALSE]
        /\ \A s \in Relays : Current(s)' = Current(s)
    BY <1>5 DEF LoseConnection, CutOff, Fault, relay, Current
  <2>2. \A s \in Relays : pc[s] = "mark" => Current(s) \in Events
    BY CurrentInBatch
  <2> QED
    BY <2>1, <2>2
<1>6. CASE UNCHANGED vars
  <2>1. UNCHANGED <<status, pc, batch, tries, copies, faultsLeft>>
        /\ \A s \in Relays : Current(s)' = Current(s)
    BY <1>6 DEF vars, relay, Current
  <2> QED
    BY <2>1
<1> QED
  BY <1>1, <1>2, <1>3, <1>4, <1>5, <1>6 DEF Next, RelayLife, Quiescent

\* A relay that is cut off does not publish: what it still marks has been paid for.
LEMMA CutOffPaidStep ==
    ASSUME TypeOK, TypeOK', Safety, CopyAccount, CutOffPaid, [Next]_vars
    PROVE  CutOffPaid'
<1> USE NumberAssumption DEF TypeOK, CutOffPaid
<1>1. ASSUME NEW e \in Events, Create(e) \/ LockExpires(e) PROVE CutOffPaid'
  <2>1. /\ UNCHANGED <<pc, copies, connected, faultsLeft>>
        /\ \A s \in Relays : Current(s)' = Current(s)
    BY <1>1 DEF Create, LockExpires, relay, Current
  <2> QED
    BY <2>1
<1>2. ASSUME NEW r \in Relays, RelayStep(r) PROVE CutOffPaid'
  <2>1. \A s \in Relays : s # r => pc'[s] = pc[s] /\ Current(s)' = Current(s)
    BY <1>2, OthersKeep
  <2>2. ASSUME NEW s \in Relays, s # r, pc[s] = "mark", Current(s) \notin Slow,
               pc[r] = "publish"
        PROVE  Current(s) # Current(r)
    BY <2>2, CurrentInBatch DEF Safety, ExclusiveClaim
  <2>3. CASE PublishEvent(r)
    <3>1. /\ pc[r] = "publish"
          /\ \A s \in Relays : s # r => connected'[s] = connected[s]
          /\ pc'[r] = "mark" => connected'[r]
      BY <2>3 DEF PublishEvent, CutOff, AfterPublish, Goto
    <3>2. \A e \in Events : e # Current(r) => copies'[e] = copies[e]
      BY <2>3 DEF PublishEvent
    <3>3. faultsLeft' <= faultsLeft
      BY <2>3 DEF PublishEvent, CutOff, Call, Fault
    <3> QED
      BY <2>1, <2>2, <3>1, <3>2, <3>3, CurrentInBatch
  <2>4. CASE VerifyMark(r)
    <3>1. /\ UNCHANGED <<copies, connected, status>>
          /\ faultsLeft' <= faultsLeft
          /\ pc[r] = "verify"
      BY <2>4 DEF VerifyMark, Fault
    <3>2. pc'[r] = "mark" => Current(r)' = Current(r)
      BY <2>4, <3>1, NextEventStep DEF VerifyMark, Current
    <3>3. ASSUME pc'[r] = "mark", Current(r) \notin Slow
          PROVE  copies[Current(r)] <= MaxFaults - faultsLeft'
      <4>1. Current(r) \in Events \ Slow
        BY <3>1, <3>3, CurrentInBatch
      <4>2. CASE IsPublished(Current(r))
        <5>1. faultsLeft' = faultsLeft - 1
          BY <2>4, <3>1, <3>3, <4>2, NextEventStep DEF VerifyMark, Fault
        <5>2. copies[Current(r)] <= 1 + (MaxFaults - faultsLeft)
          BY <4>1 DEF CopyAccount
        <5> QED
          BY <5>1, <5>2, <4>1
      <4>3. CASE ~IsPublished(Current(r))
        <5>1. \A s \in Relays : pc[s] = "mark" => Current(s) # Current(r)
          BY <3>1, <4>1, CurrentInBatch DEF Safety, ExclusiveClaim
        <5>2. copies[Current(r)] <= MaxFaults - faultsLeft
          BY <4>1, <4>3, <5>1 DEF IsPublished, CopyAccount
        <5> QED
          BY <5>2, <3>1, <4>1
      <4> QED
        BY <4>2, <4>3
    <3>4. \A s \in Relays : pc[s] = "mark" => Current(s) \in Events
      BY CurrentInBatch
    <3> QED
      BY <2>1, <3>1, <3>2, <3>3, <3>4
  <2>5. CASE ~PublishEvent(r) /\ ~VerifyMark(r)
    <3>1. /\ UNCHANGED <<copies, connected>>
          /\ faultsLeft' <= faultsLeft
          /\ pc'[r] # "mark"
      <4>1. CASE ClaimBatch(r)
        BY <4>1 DEF ClaimBatch, Call, Fault, Goto
      <4>2. CASE CheckPublished(r)
        BY <4>2, NextEventStep DEF CheckPublished, Fault, Goto
      <4>3. CASE MarkPublished(r)
        BY <4>3, NextEventStep DEF MarkPublished, Call, Fault, Goto
      <4>4. CASE RecordFailure(r)
        BY <4>4, NextEventStep DEF RecordFailure, Call, Fault
      <4> QED
        BY <1>2, <2>5, <4>1, <4>2, <4>3, <4>4 DEF RelayStep
    <3>2. \A s \in Relays : pc[s] = "mark" => Current(s) \in Events
      BY CurrentInBatch
    <3> QED
      BY <2>1, <3>1, <3>2
  <2> QED
    BY <2>3, <2>4, <2>5
<1>3. ASSUME NEW r \in Relays, LoseConnection(r) PROVE CutOffPaid'
  <2>1. /\ UNCHANGED <<copies, pc>>
        /\ faultsLeft' = faultsLeft - 1
        /\ \A s \in Relays : Current(s)' = Current(s)
    BY <1>3 DEF LoseConnection, CutOff, Fault, relay, Current
  <2>2. ASSUME NEW s \in Relays, pc[s] = "mark", Current(s) \notin Slow
        PROVE  copies[Current(s)] <= 1 + (MaxFaults - faultsLeft)
    BY <2>2, CurrentInBatch DEF CopyAccount
  <2> QED
    BY <2>1, <2>2
<1>4. ASSUME NEW r \in Relays, Crash(r) \/ Start(r) PROVE CutOffPaid'
  <2>1. /\ copies' = copies
        /\ faultsLeft' <= faultsLeft
        /\ pc'[r] \in {"poll", "down"}
        /\ \A s \in Relays : s # r =>
             pc'[s] = pc[s] /\ connected'[s] = connected[s] /\ Current(s)' = Current(s)
    BY <1>4 DEF Crash, Start, Goto, Fault, Current
  <2>2. \A s \in Relays : pc[s] = "mark" => Current(s) \in Events
    BY CurrentInBatch
  <2> QED
    BY <2>1, <2>2
<1>5. CASE UNCHANGED vars
  <2>1. UNCHANGED <<pc, copies, connected, faultsLeft>>
        /\ \A s \in Relays : Current(s)' = Current(s)
    BY <1>5 DEF vars, relay, Current
  <2> QED
    BY <2>1
<1> QED
  BY <1>1, <1>2, <1>3, <1>4, <1>5 DEF Next, RelayLife, Quiescent

\* Polls within the lock of an event publish it once, and once more at most for
\* every failure that has happened.
THEOREM CopiesArePaidForHolds == Spec => []CopiesArePaidFor
<1>1. Init => CopyAccount /\ CutOffPaid
  BY NumberAssumption DEF Init, CopyAccount, CutOffPaid
<1>2. TypeOK /\ TypeOK' /\ Safety /\ CopyAccount /\ CutOffPaid /\ [Next]_vars
        => CopyAccount' /\ CutOffPaid'
  BY CopyAccountStep, CutOffPaidStep
<1>3. CopyAccount => CopiesArePaidFor
  BY DEF CopyAccount, CopiesArePaidFor
<1> QED
  BY <1>1, <1>2, <1>3, TypeCorrect, SafetyHolds, PTL DEF Spec
=============================================================================
