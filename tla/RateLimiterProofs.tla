-------------------------- MODULE RateLimiterProofs --------------------------
(***************************************************************************)
(* Proofs about RateLimiter for any number of requests and failures, any   *)
(* limit, window and resolution of the clock.                              *)
(***************************************************************************)
EXTENDS RateLimiter, FiniteSetTheorems, TLAPS

USE LimiterAssumption DEF NotAdded, NoExpiry, redis

LEMMA InitTyped == Init => TypeOK
BY DEF Init, TypeOK

\* What a change of the sorted set does to the key.
LEMMA StoreTyped ==
    ASSUME TypeOK, NEW members \in SUBSET (0 .. MaxClock), Store(members)
    PROVE  window' \subseteq 0 .. MaxClock /\ expiry' \in Nat
<1>1. CASE members = {}
  BY <1>1 DEF TypeOK, Store
<1>2. CASE members # {}
  BY <1>2 DEF TypeOK, Store
<1> QED
  BY <1>1, <1>2

LEMMA NextTyped == TypeOK /\ [Next]_vars => TypeOK'
<1> SUFFICES ASSUME TypeOK, [Next]_vars PROVE TypeOK'
  OBVIOUS
<1>1. ASSUME NEW r \in Requests, Arrive(r) PROVE TypeOK'
  BY <1>1 DEF TypeOK, Arrive, Step
<1>2. ASSUME NEW r \in Requests, Trim(r) PROVE TypeOK'
  <2>1. window \ Stale(r) \in SUBSET (0 .. MaxClock) /\ Store(window \ Stale(r))
    BY <1>2 DEF TypeOK, Trim
  <2>2. window' \subseteq 0 .. MaxClock /\ expiry' \in Nat
    BY <2>1, StoreTyped
  <2> QED
    BY <1>2, <2>2 DEF TypeOK, Trim, Step
<1>3. ASSUME NEW r \in Requests, Add(r) PROVE TypeOK'
  BY <1>3 DEF TypeOK, Add, Step, Store
<1>4. ASSUME NEW r \in Requests, Expire(r) PROVE TypeOK'
  BY <1>4 DEF TypeOK, Expire, Step, Lifetime
<1>5. ASSUME NEW r \in Requests, Count(r) PROVE TypeOK'
  BY <1>5 DEF TypeOK, Count, Step
<1>6. ASSUME NEW r \in Requests, Undo(r) PROVE TypeOK'
  <2>1. window \ {stamp[r]} \in SUBSET (0 .. MaxClock)
    BY DEF TypeOK
  <2>2. window' \subseteq 0 .. MaxClock /\ expiry' \in Nat
    BY <1>6, <2>1, StoreTyped DEF TypeOK, Undo
  <2> QED
    BY <1>6, <2>2 DEF TypeOK, Undo, Step, Fault
<1>7. ASSUME NEW r \in Requests, Oldest(r) PROVE TypeOK'
  <2>1. \A d \in Nat : Seconds(d) \in Nat
    BY DEF Seconds
  <2>2. \A t \in window : WaitFor(t) \in Nat
    BY DEF TypeOK, WaitFor
  <2>3. retry' \in [Requests -> Nat]
    BY <1>7, <2>1, <2>2 DEF TypeOK, Oldest
  <2> QED
    BY <1>7, <2>3 DEF TypeOK, Oldest, Step, Fault
<1>8. ASSUME NEW r \in Requests, GiveUp(r) PROVE TypeOK'
  BY <1>8 DEF TypeOK, GiveUp, Fault
<1>9. ASSUME NEW r \in Requests, Resend(r) PROVE TypeOK'
  BY <1>9 DEF TypeOK, Resend, Fault
<1>10. ASSUME Tick PROVE TypeOK'
  <2>1. dropped' \subseteq Requests /\ window' \subseteq 0 .. MaxClock /\ expiry' \in Nat
    <3>1. CASE clock' >= expiry
      BY <1>10, <3>1 DEF TypeOK, Tick
    <3>2. CASE ~(clock' >= expiry)
      BY <1>10, <3>2 DEF TypeOK, Tick
    <3> QED
      BY <3>1, <3>2
  <2>2. clock' \in 0 .. MaxClock
    BY <1>10 DEF TypeOK, Tick
  <2> QED
    BY <1>10, <2>1, <2>2 DEF TypeOK, Tick
<1>11. ASSUME UNCHANGED vars PROVE TypeOK'
  BY <1>11 DEF TypeOK, vars
<1>12. ASSUME NEW r \in Requests, RequestStep(r) PROVE TypeOK'
  BY <1>2, <1>3, <1>4, <1>5, <1>6, <1>7, <1>12 DEF RequestStep
<1> QED
  BY <1>1, <1>8, <1>9, <1>10, <1>11, <1>12 DEF Next, AllDone

\* Type correctness of every variable.
THEOREM TypeCorrect == Spec => []TypeOK
BY InitTyped, NextTyped, PTL DEF Spec

-----------------------------------------------------------------------------
LEMMA PointsKept ==
    TypeOK /\ PointsOrdered /\ [Next]_vars => PointsOrdered'
<1> SUFFICES ASSUME TypeOK, PointsOrdered, [Next]_vars PROVE PointsOrdered'
  OBVIOUS
<1> USE DEF TypeOK, PointsOrdered
<1>1. ASSUME NEW r \in Requests, Arrive(r) PROVE PointsOrdered'
  BY <1>1 DEF Arrive, Step
<1>2. ASSUME NEW r \in Requests, RequestStep(r) PROVE PointsOrdered'
  BY <1>2 DEF RequestStep, Trim, Add, Expire, Count, Undo, Oldest, Step
<1>3. ASSUME NEW r \in Requests, GiveUp(r) \/ Resend(r) PROVE PointsOrdered'
  BY <1>3 DEF GiveUp, Resend, InPipeline
<1>4. ASSUME Tick PROVE PointsOrdered'
  BY <1>4 DEF Tick
<1>5. ASSUME UNCHANGED vars PROVE PointsOrdered'
  BY <1>5 DEF vars
<1> QED
  BY <1>1, <1>2, <1>3, <1>4, <1>5 DEF Next, AllDone

\* Twins stay twins, what is not recent stays so, and a dropped entry does.
LEMMA EscapesStay ==
    ASSUME TypeOK, [Next]_vars, NEW r \in Requests, pc[r] # "new"
    PROVE  /\ Twin(r) => Twin(r)'
           /\ Recent(r)' => Recent(r)
           /\ r \in dropped => r \in dropped'
           /\ stamp'[r] = stamp[r] /\ pc'[r] # "new"
<1> USE DEF TypeOK
<1>1. /\ \A q \in Requests : pc[q] # "new" => pc'[q] # "new" /\ stamp'[q] = stamp[q]
      /\ clock <= clock' /\ clock' \in Int
      /\ dropped \subseteq dropped'
  <2>1. ASSUME NEW q \in Requests, Arrive(q) PROVE <1>1
    BY <2>1 DEF Arrive, Step
  <2>2. ASSUME NEW q \in Requests, RequestStep(q) PROVE <1>1
    BY <2>2 DEF RequestStep, Trim, Add, Expire, Count, Undo, Oldest, Step
  <2>3. ASSUME NEW q \in Requests, GiveUp(q) \/ Resend(q) PROVE <1>1
    BY <2>3 DEF GiveUp, Resend, InPipeline
  <2>4. ASSUME Tick PROVE <1>1
    BY <2>4 DEF Tick
  <2>5. ASSUME UNCHANGED vars PROVE <1>1
    BY <2>5 DEF vars
  <2> QED
    BY <2>1, <2>2, <2>3, <2>4, <2>5 DEF Next, AllDone
<1>2. Twin(r) => Twin(r)'
  BY <1>1 DEF Twin
<1>3. Recent(r)' => Recent(r)
  BY <1>1 DEF Recent
<1> QED
  BY <1>1, <1>2, <1>3

-----------------------------------------------------------------------------
\* Trimming, like all that takes entries away, leaves the entry of a request
\* that is counted alone.
LEMMA EntriesStay ==
    TypeOK /\ PointsOrdered /\ EntriesKept /\ [Next]_vars => EntriesKept'
<1> SUFFICES ASSUME TypeOK, PointsOrdered, EntriesKept, [Next]_vars,
                    NEW r \in Requests,
                    (reply[r] = "pass"
                       \/ (reply[r] = "none" /\ pc[r] \in {"expire", "count"}))',
                    Recent(r)', ~Twin(r)', r \notin dropped'
             PROVE  /\ stamp'[r] \in window'
                    /\ (pc'[r] = "expire" \/ expiry' > stamp'[r] + Window)
  BY DEF EntriesKept
<1> DEFINE Counted == reply[r] = "pass"
                         \/ (reply[r] = "none" /\ pc[r] \in {"expire", "count"})
           Goal == /\ stamp'[r] \in window'
                   /\ (pc'[r] = "expire" \/ expiry' > stamp'[r] + Window)
<1>1. TypeOK'
  BY NextTyped
<1>2. pc[r] # "new" => /\ Recent(r) /\ ~Twin(r) /\ r \notin dropped
                       /\ stamp'[r] = stamp[r]
  BY EscapesStay
<1>3. Counted => /\ pc[r] # "new" /\ stamp[r] \in window
                 /\ (pc[r] = "expire" \/ expiry > stamp[r] + Window)
  BY <1>2 DEF EntriesKept, PointsOrdered
<1>4. stamp[r] \in 0 .. MaxClock /\ expiry \in Nat /\ clock \in Nat
  BY DEF TypeOK
<1>5. ASSUME NEW q \in Requests, Arrive(q) PROVE Goal
  <2>1. Counted /\ pc'[r] = pc[r] /\ UNCHANGED redis
    BY <1>5 DEF Arrive, Step, TypeOK, PointsOrdered
  <2> QED
    BY <1>2, <1>3, <2>1
<1>6. ASSUME NEW q \in Requests, Trim(q) PROVE Goal
  <2>1. Counted /\ pc'[r] = pc[r]
    BY <1>6 DEF Trim, Step, TypeOK, PointsOrdered
  <2>2. stamp[r] \notin Stale(q)
    BY <1>2, <1>3, <2>1 DEF Recent, Stale, TypeOK, PointsOrdered
  <2>3. stamp[r] \in window' /\ expiry' = expiry
    BY <1>3, <1>6, <2>1, <2>2 DEF Trim, Store
  <2> QED
    BY <1>2, <1>3, <2>1, <2>3
<1>7. ASSUME NEW q \in Requests, Add(q) PROVE Goal
  <2>1. CASE q = r
    BY <1>2, <1>7, <2>1 DEF Add, Step, Store, TypeOK
  <2>2. CASE q # r
    <3>1. Counted /\ pc'[r] = pc[r]
      BY <1>7, <2>2 DEF Add, Step, TypeOK
    <3>2. stamp[r] \in window' /\ expiry' = expiry
      BY <1>3, <1>7, <3>1 DEF Add, Store
    <3> QED
      BY <1>2, <1>3, <3>1, <3>2
  <2> QED
    BY <2>1, <2>2
<1>8. ASSUME NEW q \in Requests, Expire(q) PROVE Goal
  <2>1. Counted /\ window' = window /\ expiry' = clock + Lifetime
    BY <1>3, <1>8 DEF Expire, Step, TypeOK
  <2>2. stamp[r] <= clock
    BY DEF PointsOrdered
  <2> QED
    BY <1>2, <1>3, <1>4, <2>1, <2>2 DEF Lifetime
<1>9. ASSUME NEW q \in Requests, Count(q) PROVE Goal
  <2>1. Counted /\ UNCHANGED redis /\ (pc[r] = "expire" => pc'[r] = "expire")
    BY <1>9 DEF Count, Step, TypeOK, PointsOrdered
  <2> QED
    BY <1>2, <1>3, <2>1
<1>10. ASSUME NEW q \in Requests, Undo(q) PROVE Goal
  <2>1. Counted /\ pc'[r] = pc[r] /\ q # r
    BY <1>10 DEF Undo, Step, TypeOK, PointsOrdered
  <2>2. stamp[q] # stamp[r]
    BY <1>2, <1>3, <1>10, <2>1 DEF Undo, Step, Twin
  <2>3. stamp[r] \in window' /\ expiry' = expiry
    BY <1>3, <1>10, <2>1, <2>2 DEF Undo, Store
  <2> QED
    BY <1>2, <1>3, <2>1, <2>3
<1>11. ASSUME NEW q \in Requests, Oldest(q) PROVE Goal
  <2>1. Counted /\ UNCHANGED redis /\ pc'[r] = pc[r]
    BY <1>11 DEF Oldest, Step, TypeOK, PointsOrdered
  <2> QED
    BY <1>2, <1>3, <2>1
<1>12. ASSUME NEW q \in Requests, GiveUp(q) \/ Resend(q) PROVE Goal
  <2>1. Counted /\ UNCHANGED redis /\ pc'[r] = pc[r]
    BY <1>12 DEF GiveUp, Resend, InPipeline, TypeOK, PointsOrdered
  <2> QED
    BY <1>2, <1>3, <2>1
<1>13. ASSUME Tick PROVE Goal
  <2>1. Counted /\ pc'[r] = pc[r] /\ clock' = clock + 1
    BY <1>13 DEF Tick
  <2>2. CASE clock + 1 >= expiry
    <3>1. pc[r] # "expire"
      <4>1. dropped' = dropped \cup {q \in Requests : pc[q] = "expire"}
        BY <1>13, <2>1, <2>2 DEF Tick
      <4> QED
        BY <4>1
    <3>2. stamp[r] > clock + 1 - Window
      <4>1. stamp'[r] > clock' - Window
        BY DEF Recent
      <4> QED
        BY <1>2, <1>3, <1>4, <2>1, <4>1
    <3> QED
      BY <1>3, <1>4, <2>1, <2>2, <3>1, <3>2
  <2>3. CASE ~(clock + 1 >= expiry)
    BY <1>2, <1>3, <1>13, <2>1, <2>3 DEF Tick
  <2> QED
    BY <2>2, <2>3
<1>14. ASSUME UNCHANGED vars PROVE Goal
  BY <1>2, <1>3, <1>14 DEF vars
<1>15. ASSUME NEW q \in Requests, RequestStep(q) PROVE Goal
  BY <1>6, <1>7, <1>8, <1>9, <1>10, <1>11, <1>15 DEF RequestStep
<1> HIDE DEF Goal
<1>16. Goal
  BY <1>5, <1>12, <1>13, <1>14, <1>15 DEF Next, AllDone
<1> QED
  BY <1>16 DEF Goal

-----------------------------------------------------------------------------
LEMMA WindowFinite ==
    ASSUME TypeOK
    PROVE  IsFiniteSet(window) /\ Cardinality(window) \in Nat
<1>1. IsFiniteSet(0 .. MaxClock)
  <2>1. 0 \in Int /\ MaxClock \in Int
    OBVIOUS
  <2> QED
    BY <2>1, FS_Interval
<1>2. window \in SUBSET (0 .. MaxClock)
  BY DEF TypeOK
<1>3. IsFiniteSet(window)
  BY <1>1, <1>2, FS_Subset
<1> QED
  BY <1>3, FS_CardinalityType

\* The requests that are admitted and counted are no more than the entries.
LEMMA AdmittedAreEntries ==
    ASSUME TypeOK, NEW S \in SUBSET Requests,
           \A r \in S : stamp[r] \in window,
           \A r, q \in S : stamp[r] = stamp[q] => r = q
    PROVE  Cardinality(S) <= Cardinality(window)
<1> DEFINE f == [r \in S |-> stamp[r]]
<1>1. f \in Injection(S, window)
  BY DEF Injection, IsInjective
<1>2. IsFiniteSet(window)
  BY WindowFinite
<1> QED
  BY <1>1, <1>2, FS_Injection

LEMMA LimitKept ==
    TypeOK /\ PointsOrdered /\ EntriesKept /\ WithinLimit /\ [Next]_vars => WithinLimit'
<1> SUFFICES ASSUME TypeOK, PointsOrdered, EntriesKept, WithinLimit, [Next]_vars
             PROVE  WithinLimit'
  OBVIOUS
<1>1. IsFiniteSet(Admitted) /\ IsFiniteSet(Admitted') /\ Admitted' \subseteq Requests
  BY FS_Subset DEF Admitted
<1>2. ASSUME \A r \in Requests : reply'[r] = "pass" => reply[r] = "pass"
      PROVE  WithinLimit'
  <2>1. ASSUME NEW r \in Requests, r \in Admitted' PROVE r \in Admitted
    <3>1. reply[r] = "pass" /\ pc[r] # "new"
      BY <1>2, <2>1 DEF Admitted, PointsOrdered
    <3> QED
      BY <2>1, <3>1, EscapesStay DEF Admitted
  <2>2. Cardinality(Admitted') <= Cardinality(Admitted)
    BY <1>1, <2>1, FS_Subset
  <2> QED
    BY <1>1, <2>2, FS_CardinalityType DEF WithinLimit
<1>3. ASSUME NEW r \in Requests, Count(r), Within PROVE WithinLimit'
  <2>1. window' = window /\ Cardinality(window) <= Limit
    BY <1>3 DEF Count, Within, redis
  <2>2. TypeOK' /\ EntriesKept'
    BY NextTyped, EntriesStay
  <2>3. ASSUME NEW q \in Admitted' PROVE stamp'[q] \in window' /\ ~Twin(q)' /\ pc'[q] # "new"
    <3>1. q \in Requests /\ reply'[q] = "pass" /\ Recent(q)' /\ ~Twin(q)' /\ q \notin dropped'
      BY <2>3 DEF Admitted
    <3>2. PointsOrdered'
      BY PointsKept
    <3> QED
      BY <2>2, <3>1, <3>2 DEF EntriesKept, PointsOrdered
  <2>4. \A p, q \in Admitted' : stamp'[p] = stamp'[q] => p = q
    BY <1>1, <2>3 DEF Twin
  <2>5. stamp' = stamp
    BY <1>3 DEF Count
  <2>6. Cardinality(Admitted') <= Cardinality(window)
    <3> DEFINE S == Admitted'
    <3>1. S \in SUBSET Requests
      BY <1>1
    <3>2. \A p \in S : stamp[p] \in window
      BY <2>1, <2>3, <2>5
    <3>3. \A p, q \in S : stamp[p] = stamp[q] => p = q
      BY <2>4, <2>5
    <3> HIDE DEF S
    <3>4. Cardinality(S) <= Cardinality(window)
      BY <3>1, <3>2, <3>3, AdmittedAreEntries
    <3> QED
      BY <3>4 DEF S
  <2>7. Cardinality(window) \in Nat /\ Cardinality(Admitted') \in Nat
    BY <1>1, FS_CardinalityType, WindowFinite
  <2> QED
    BY <2>1, <2>6, <2>7 DEF WithinLimit
<1>4. (\E r \in Requests : Count(r) /\ Within)
        \/ (\A r \in Requests : reply'[r] = "pass" => reply[r] = "pass")
  <2>1. ASSUME NEW q \in Requests, RequestStep(q) PROVE <1>4
    BY <2>1 DEF RequestStep, Trim, Add, Expire, Count, Undo, Oldest, TypeOK
  <2>2. ASSUME NEW q \in Requests, Arrive(q) \/ GiveUp(q) \/ Resend(q) PROVE <1>4
    BY <2>2 DEF Arrive, GiveUp, Resend, TypeOK
  <2>3. ASSUME Tick \/ UNCHANGED vars PROVE <1>4
    BY <2>3 DEF Tick, vars
  <2> QED
    BY <2>1, <2>2, <2>3 DEF Next, AllDone
<1> QED
  BY <1>2, <1>3, <1>4

-----------------------------------------------------------------------------
\* An attempt, once made, is only ever repeated later.
LEMMA AttemptsGrow ==
    ASSUME TypeOK, PointsOrdered, [Next]_vars
    PROVE  \A q \in Requests :
              /\ added'[q] >= added[q]
              /\ added[q] # NotAdded => stamp'[q] = stamp[q]
<1> USE DEF TypeOK, PointsOrdered
<1> DEFINE Goal == \A q \in Requests : /\ added'[q] >= added[q]
                                       /\ added[q] # NotAdded => stamp'[q] = stamp[q]
<1>1. ASSUME NEW r \in Requests, Arrive(r) PROVE Goal
  BY <1>1 DEF Arrive, Step
<1>2. ASSUME NEW r \in Requests, RequestStep(r) PROVE Goal
  BY <1>2 DEF RequestStep, Trim, Add, Expire, Count, Undo, Oldest
<1>3. ASSUME NEW r \in Requests, GiveUp(r) \/ Resend(r) PROVE Goal
  BY <1>3 DEF GiveUp, Resend
<1>4. ASSUME Tick PROVE Goal
  BY <1>4 DEF Tick
<1>5. ASSUME UNCHANGED vars PROVE Goal
  BY <1>5 DEF vars
<1> HIDE DEF Goal
<1>6. Goal
  BY <1>1, <1>2, <1>3, <1>4, <1>5 DEF Next, AllDone
<1> QED
  BY <1>6 DEF Goal

\* What a step may put into the sorted set, and who may count it.
LEMMA EntriesCome ==
    ASSUME TypeOK, [Next]_vars, NEW t \in window', t \notin window
    PROVE  \E q \in Requests : stamp'[q] = t /\ added'[q] = clock /\ stamp[q] = t
<1> USE DEF TypeOK
<1> DEFINE Goal == \E q \in Requests : stamp'[q] = t /\ added'[q] = clock /\ stamp[q] = t
<1>1. ASSUME NEW r \in Requests, Add(r) PROVE Goal
  BY <1>1 DEF Add, Store
<1>2. ASSUME NEW r \in Requests, Trim(r) \/ Expire(r) \/ Count(r) \/ Undo(r) \/ Oldest(r)
      PROVE  Goal
  BY <1>2 DEF Trim, Expire, Count, Undo, Oldest, Store
<1>3. ASSUME NEW r \in Requests, Arrive(r) \/ GiveUp(r) \/ Resend(r) PROVE Goal
  BY <1>3 DEF Arrive, GiveUp, Resend
<1>4. ASSUME Tick \/ UNCHANGED vars PROVE Goal
  BY <1>4 DEF Tick, vars
<1> HIDE DEF Goal
<1>5. Goal
  BY <1>1, <1>2, <1>3, <1>4 DEF Next, RequestStep, AllDone
<1> QED
  BY <1>5 DEF Goal

\* A request comes to "add" through Trim, and stays between Add and Count unless
\* it comes from there.
LEMMA CountersTrim ==
    ASSUME TypeOK, [Next]_vars, NEW r \in Requests,
           pc'[r] \in {"add", "expire", "count"}
    PROVE  /\ stamp'[r] = stamp[r] /\ pc[r] # "new"
           /\ pc[r] \notin {"add", "expire", "count"} =>
                 /\ window' = window \ Stale(r)
                 /\ added' = added /\ stamp' = stamp
<1> USE DEF TypeOK
<1> DEFINE Goal == /\ stamp'[r] = stamp[r] /\ pc[r] # "new"
                   /\ pc[r] \notin {"add", "expire", "count"} =>
                         /\ window' = window \ Stale(r)
                         /\ added' = added /\ stamp' = stamp
<1>1. ASSUME NEW q \in Requests, Trim(q) PROVE Goal
  BY <1>1 DEF Trim, Step, Store
<1>2. ASSUME NEW q \in Requests, Add(q) \/ Expire(q) \/ Count(q) \/ Undo(q) \/ Oldest(q)
      PROVE  Goal
  BY <1>2 DEF Add, Expire, Count, Undo, Oldest, Step
<1>3. ASSUME NEW q \in Requests, Arrive(q) \/ GiveUp(q) \/ Resend(q) PROVE Goal
  BY <1>3 DEF Arrive, GiveUp, Resend, InPipeline, Step
<1>4. ASSUME Tick \/ UNCHANGED vars PROVE Goal
  BY <1>4 DEF Tick, vars
<1> HIDE DEF Goal
<1>5. Goal
  BY <1>1, <1>2, <1>3, <1>4 DEF Next, RequestStep, AllDone
<1> QED
  BY <1>5 DEF Goal

LEMMA JustifiedKept ==
    TypeOK /\ PointsOrdered /\ EntriesJustified /\ [Next]_vars => EntriesJustified'
<1> SUFFICES ASSUME TypeOK, PointsOrdered, EntriesJustified, [Next]_vars
             PROVE  EntriesJustified'
  OBVIOUS
<1>1. TypeOK' /\ PointsOrdered'
  BY NextTyped, PointsKept
<1>2. ASSUME NEW t \in window'
      PROVE  \E q \in Requests : stamp'[q] = t /\ added'[q] >= t
  <2>1. CASE t \in window
    <3>1. PICK q \in Requests : stamp[q] = t /\ added[q] >= t
      BY <2>1 DEF EntriesJustified
    <3>2. added[q] # NotAdded /\ added[q] \in Int /\ added'[q] \in Int /\ t \in Int
      BY <1>1, <2>1, <3>1 DEF TypeOK
    <3> QED
      BY <3>1, <3>2, AttemptsGrow
  <2>2. CASE t \notin window
    <3>1. PICK q \in Requests : stamp'[q] = t /\ added'[q] = clock /\ stamp[q] = t
      BY <2>2, EntriesCome
    <3> QED
      BY <3>1 DEF PointsOrdered, TypeOK
  <2> QED
    BY <2>1, <2>2
<1>3. ASSUME NEW r \in Requests, pc'[r] \in {"add", "expire", "count"}, NEW t \in window'
      PROVE  \E q \in Requests : stamp'[q] = t /\ added'[q] > stamp'[r] - Window
  <2>1. stamp'[r] = stamp[r] /\ stamp[r] \in Int
    BY <1>3, CountersTrim DEF TypeOK
  <2>2. CASE t \notin window
    <3>1. PICK q \in Requests : stamp'[q] = t /\ added'[q] = clock
      BY <2>2, EntriesCome
    <3>2. stamp[r] <= clock /\ clock \in Int
      BY DEF PointsOrdered, TypeOK
    <3> QED
      BY <2>1, <3>1, <3>2
  <2>3. CASE t \in window /\ pc[r] \in {"add", "expire", "count"}
    <3>1. PICK q \in Requests : stamp[q] = t /\ added[q] > stamp[r] - Window
      BY <2>3 DEF EntriesJustified, AttemptsSince
    <3>2. added[q] # NotAdded /\ added[q] \in Int /\ added'[q] \in Int
      BY <1>1, <3>1 DEF TypeOK
    <3> QED
      BY <2>1, <3>1, <3>2, AttemptsGrow
  <2>4. CASE t \in window /\ pc[r] \notin {"add", "expire", "count"}
    <3>1. t \notin Stale(r) /\ added' = added /\ stamp' = stamp
      BY <1>3, <2>4, CountersTrim
    <3>2. t > stamp[r] - Window /\ t \in Int
      BY <2>1, <2>4, <3>1 DEF Stale, TypeOK
    <3>3. PICK q \in Requests : stamp[q] = t /\ added[q] >= t
      BY <2>4 DEF EntriesJustified
    <3>4. added[q] \in Int
      BY DEF TypeOK
    <3> QED
      BY <2>1, <3>1, <3>2, <3>3, <3>4
  <2> QED
    BY <2>2, <2>3, <2>4
<1> QED
  BY <1>2, <1>3 DEF EntriesJustified, AttemptsSince

-----------------------------------------------------------------------------
\* A set whose every member is some attempt's time is no larger than the
\* attempts.
LEMMA EntriesAreAttempts ==
    ASSUME TypeOK, NEW S \in SUBSET Requests,
           \A t \in window : \E q \in S : stamp[q] = t
    PROVE  Cardinality(window) <= Cardinality(S)
<1> DEFINE f == [t \in window |-> CHOOSE q \in S : stamp[q] = t]
<1>1. \A t \in window : f[t] \in S /\ stamp[f[t]] = t
  OBVIOUS
<1>2. f \in [window -> S]
  BY <1>1
<1> HIDE DEF f
<1>3. f \in Injection(window, S)
  BY <1>1, <1>2 DEF Injection, IsInjective
<1>4. IsFiniteSet(S)
  BY FS_Subset
<1> QED
  BY <1>3, <1>4, FS_Injection

LEMMA RefusalKept ==
    TypeOK /\ PointsOrdered /\ EntriesJustified /\ RefusedMeansBusy /\ [Next]_vars
        => RefusedMeansBusy'
<1> SUFFICES ASSUME TypeOK, PointsOrdered, EntriesJustified, RefusedMeansBusy, [Next]_vars,
                    NEW r \in Requests, pc'[r] \in {"undo", "oldest"} \/ reply'[r] = "429"
             PROVE  Cardinality(AttemptsSince(r)') > Limit
  BY DEF RefusedMeansBusy
<1>1. TypeOK'
  BY NextTyped
<1>2. IsFiniteSet(AttemptsSince(r)) /\ IsFiniteSet(AttemptsSince(r)')
  BY FS_Subset DEF AttemptsSince
<1>3. pc[r] # "new"
  <2> SUFFICES ASSUME pc[r] = "new" PROVE FALSE
    OBVIOUS
  <2> USE DEF TypeOK, PointsOrdered
  <2>1. pc'[r] \in {"new", "trim"} /\ reply'[r] = "none"
    <3>1. ASSUME NEW q \in Requests, RequestStep(q) PROVE <2>1
      BY <3>1 DEF RequestStep, Trim, Add, Expire, Count, Undo, Oldest, Step
    <3>2. ASSUME NEW q \in Requests, Arrive(q) \/ GiveUp(q) \/ Resend(q) PROVE <2>1
      BY <3>2 DEF Arrive, GiveUp, Resend, InPipeline, Step
    <3>3. ASSUME Tick \/ UNCHANGED vars PROVE <2>1
      BY <3>3 DEF Tick, vars
    <3> QED
      BY <3>1, <3>2, <3>3 DEF Next, AllDone
  <2> QED
    BY <2>1
<1>4. AttemptsSince(r) \subseteq AttemptsSince(r)'
  <2>1. stamp'[r] = stamp[r]
    BY <1>3, EscapesStay
  <2> QED
    BY <1>1, <2>1, AttemptsGrow DEF AttemptsSince, TypeOK
<1>5. Cardinality(AttemptsSince(r)) <= Cardinality(AttemptsSince(r)')
  BY <1>2, <1>4, FS_Subset
<1>6. Cardinality(AttemptsSince(r)) > Limit
  <2>1. CASE pc[r] \in {"undo", "oldest"} \/ reply[r] = "429"
    BY <2>1 DEF RefusedMeansBusy
  <2>2. CASE ~(pc[r] \in {"undo", "oldest"} \/ reply[r] = "429")
    <3>1. pc[r] = "count" /\ ~Within
      <4>1. ASSUME NEW q \in Requests, RequestStep(q) PROVE <3>1
        BY <2>2, <4>1 DEF RequestStep, Trim, Add, Expire, Count, Undo, Oldest, Step, TypeOK
      <4>2. ASSUME NEW q \in Requests, Arrive(q) \/ GiveUp(q) \/ Resend(q) PROVE <3>1
        BY <2>2, <4>2 DEF Arrive, GiveUp, Resend, InPipeline, Step, TypeOK
      <4>3. ASSUME Tick \/ UNCHANGED vars PROVE <3>1
        BY <2>2, <4>3 DEF Tick, vars
      <4> QED
        BY <4>1, <4>2, <4>3 DEF Next, AllDone
    <3>2. Cardinality(window) <= Cardinality(AttemptsSince(r))
      <4>1. \A t \in window : \E q \in AttemptsSince(r) : stamp[q] = t
        BY <3>1 DEF EntriesJustified
      <4>2. AttemptsSince(r) \in SUBSET Requests
        BY DEF AttemptsSince
      <4> QED
        BY <4>1, <4>2, EntriesAreAttempts
    <3>3. Cardinality(window) \in Nat /\ Cardinality(AttemptsSince(r)) \in Nat
      BY <1>2, WindowFinite, FS_CardinalityType
    <3> QED
      BY <3>1, <3>2, <3>3 DEF Within
  <2> QED
    BY <2>1, <2>2
<1> QED
  BY <1>2, <1>5, <1>6, FS_CardinalityType

-----------------------------------------------------------------------------
LEMMA InitSafe == Init => Safety
<1> SUFFICES ASSUME Init PROVE Safety
  OBVIOUS
<1>1. PointsOrdered /\ EntriesKept /\ EntriesJustified /\ RefusedMeansBusy
  BY DEF Init, PointsOrdered, EntriesKept, EntriesJustified, RefusedMeansBusy
<1>2. Admitted = {}
  BY DEF Init, Admitted
<1>3. WithinLimit
  BY <1>2, FS_EmptySet DEF WithinLimit
<1> QED
  BY <1>1, <1>3 DEF Safety

\* The inductive invariant.
THEOREM SafetyHolds == Spec => [](TypeOK /\ Safety)
<1>1. Init => TypeOK /\ Safety
  BY InitTyped, InitSafe
<1>2. TypeOK /\ Safety /\ [Next]_vars => (TypeOK /\ Safety)'
  BY NextTyped, PointsKept, EntriesStay, JustifiedKept, LimitKept, RefusalKept DEF Safety
<1> QED
  BY <1>1, <1>2, PTL DEF Spec

\* No window ever holds more than Limit passed requests (twins and dropped
\* entries apart), for any number of concurrent requests and failures.
THEOREM LimitHolds == Spec => []WithinLimit
<1>1. TypeOK /\ Safety => WithinLimit
  BY DEF Safety
<1> QED
  BY <1>1, SafetyHolds, PTL

\* A request is only refused after more than Limit attempts.
THEOREM RefusalsJustified == Spec => []RefusedMeansBusy
<1>1. TypeOK /\ Safety => RefusedMeansBusy
  BY DEF Safety
<1> QED
  BY <1>1, SafetyHolds, PTL

-----------------------------------------------------------------------------
\* Rounding up to seconds keeps the order, and a second is one.
LEMMA SecondsMonotone ==
    ASSUME NEW d \in Nat, NEW e \in Nat, d <= e
    PROVE  Seconds(d) \in Nat /\ Seconds(e) \in Nat /\ Seconds(d) <= Seconds(e)
BY DEF Seconds

LEMMA SecondsOfSecond == Seconds(Second) = 1
BY DEF Seconds

\* What a refused request is told to wait: the oldest entry may have left the
\* window, but none lies in the future.
LEMMA WaitInRange ==
    ASSUME TypeOK, PointsOrdered, EntriesJustified, NEW t \in window
    PROVE  /\ Seconds(WaitFor(t)) >= 1
           /\ Seconds(WaitFor(t)) = 1 \/ Seconds(WaitFor(t)) <= Seconds(Window)
<1>1. t \in Nat /\ clock \in Nat
  BY DEF TypeOK
<1>2. PICK q \in Requests : stamp[q] = t
  BY DEF EntriesJustified
<1>3. t <= clock
  BY <1>2 DEF PointsOrdered
<1>4. WaitFor(t) \in Nat /\ WaitFor(t) >= Second
  BY <1>1 DEF WaitFor
<1>5. WaitFor(t) = Second \/ WaitFor(t) <= Window
  BY <1>1, <1>3 DEF WaitFor
<1>6. Seconds(WaitFor(t)) \in Nat /\ Seconds(Second) <= Seconds(WaitFor(t))
  BY <1>4, SecondsMonotone
<1>7. WaitFor(t) <= Window => Seconds(WaitFor(t)) <= Seconds(Window)
  BY <1>4, SecondsMonotone
<1> QED
  BY <1>5, <1>6, <1>7, SecondsOfSecond

LEMMA RetryKept ==
    ASSUME TypeOK, PointsOrdered, EntriesJustified, RetryAfterInRange, [Next]_vars
    PROVE  RetryAfterInRange'
<1> SUFFICES ASSUME NEW r \in Requests, reply'[r] = "429"
             PROVE  retry'[r] >= 1 /\ (retry'[r] = 1 \/ retry'[r] <= Seconds(Window))
  BY DEF RetryAfterInRange, Seconds
<1> USE DEF TypeOK
<1>1. CASE reply[r] = "429" /\ retry'[r] = retry[r]
  BY <1>1 DEF RetryAfterInRange
<1>2. CASE Oldest(r)
  <2>1. Seconds(Window) \in Nat /\ (Seconds(Window) >= 1)
    <3>1. Seconds(1) = 1
      BY DEF Seconds
    <3> QED
      BY <3>1, SecondsMonotone
  <2>2. retry'[r] = Seconds(Window) \/ \E t \in window : retry'[r] = Seconds(WaitFor(t))
    BY <1>2 DEF Oldest
  <2> QED
    BY <2>1, <2>2, WaitInRange
<1>3. Oldest(r) \/ (reply[r] = "429" /\ retry'[r] = retry[r])
  <2> USE DEF PointsOrdered
  <2>1. ASSUME NEW q \in Requests, RequestStep(q) PROVE <1>3
    BY <2>1 DEF RequestStep, Trim, Add, Expire, Count, Undo, Oldest, Step
  <2>2. ASSUME NEW q \in Requests, Arrive(q) \/ GiveUp(q) \/ Resend(q) PROVE <1>3
    BY <2>2 DEF Arrive, GiveUp, Resend
  <2>3. ASSUME Tick \/ UNCHANGED vars PROVE <1>3
    BY <2>3 DEF Tick, vars
  <2> QED
    BY <2>1, <2>2, <2>3 DEF Next, AllDone
<1> QED
  BY <1>1, <1>2, <1>3

\* A 429 always names a wait of at least a second and at most a window, whatever
\* the resolution of the clock.
THEOREM RetryAfterHolds == Spec => []RetryAfterInRange
<1>1. Init => RetryAfterInRange
  BY DEF Init, RetryAfterInRange
<1>2. TypeOK /\ Safety /\ RetryAfterInRange /\ [Next]_vars => RetryAfterInRange'
  BY RetryKept DEF Safety
<1> QED
  BY <1>1, <1>2, SafetyHolds, PTL DEF Spec
=============================================================================
