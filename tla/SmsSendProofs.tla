---------------------------- MODULE SmsSendProofs ----------------------------
(***************************************************************************)
(* Proofs about SmsSend for any accounts, keys, requests, amounts, initial *)
(* balances and failures.                                                  *)
(***************************************************************************)
EXTENDS SmsSend, FiniteSetTheorems, TLAPS

-----------------------------------------------------------------------------
(* Sums over finite sets of requests.                                      *)

\* Strong induction over the subsets of a finite set, for a set of subsets.
LEMMA SubsetInduction ==
    ASSUME NEW S, IsFiniteSet(S), NEW G,
           \A T \in SUBSET S : (\A U \in SUBSET T : U # T => U \in G) => T \in G
    PROVE  S \in G
<1> DEFINE Bad == {T \in SUBSET S : T \notin G}
<1> SUFFICES ASSUME S \notin G PROVE FALSE
  OBVIOUS
<1>1. IsWellFoundedOn(StrictSubsetOrdering(S), SUBSET S)
  <2>1. FiniteSubsetsOf(S) = SUBSET S
    BY FS_FiniteSubsetsOfFinite
  <2>2. IsWellFoundedOn(StrictSubsetOrdering(S), FiniteSubsetsOf(S))
    BY FS_StrictSubsetOrderingWellFounded
  <2> QED
    BY <2>1, <2>2
<1>2. PICK T \in Bad : \A U \in Bad : <<U, T>> \notin StrictSubsetOrdering(S)
  <2>1. Bad \subseteq SUBSET S /\ Bad # {}
    OBVIOUS
  <2> HIDE DEF Bad
  <2> QED
    BY <1>1, <2>1, WFMin
<1>3. \A U \in SUBSET T : U # T => U \in G
  BY <1>2 DEF StrictSubsetOrdering
<1> QED
  BY <1>3

\* The request the sum over a set is taken at, and what the sum as a function of
\* the subsets of a set has to satisfy.
Pick(S) == CHOOSE r \in S : TRUE
IsSum(f, S) ==
    f = [T \in SUBSET S |-> IF T = {} THEN 0 ELSE Delta(Pick(T)) + f[T \ {Pick(T)}]]

LEMMA TotalUnfolds == \A S : Total(S) = (CHOOSE f : IsSum(f, S))[S]
BY DEF Total, MapThenSumSet, MapThenFoldSet, IsSum, Pick

\* It satisfies that for no more than one value at a finite set ...
LEMMA SumUnique ==
    ASSUME NEW S, IsFiniteSet(S), NEW T, NEW U, S \subseteq T, S \subseteq U,
           NEW f, IsSum(f, T), NEW g, IsSum(g, U)
    PROVE  f[S] = g[S]
<1> DEFINE G == {R \in SUBSET S : f[R] = g[R]}
<1>1. ASSUME NEW R \in SUBSET S, \A Q \in SUBSET R : Q # R => Q \in G
      PROVE  R \in G
  <2>1. /\ f[R] = IF R = {} THEN 0 ELSE Delta(Pick(R)) + f[R \ {Pick(R)}]
        /\ g[R] = IF R = {} THEN 0 ELSE Delta(Pick(R)) + g[R \ {Pick(R)}]
    <3>1. R \in SUBSET T /\ R \in SUBSET U
      OBVIOUS
    <3> QED
      BY <3>1 DEF IsSum
  <2>2. R # {} => R \ {Pick(R)} \in G
    BY <1>1 DEF Pick
  <2> QED
    BY <2>1, <2>2
<1>2. S \in G
  <2> HIDE DEF G
  <2> QED
    BY <1>1, SubsetInduction
<1> QED
  BY <1>2

\* ... and for one, so the sum is what it is defined to be.
LEMMA SumExists ==
    ASSUME NEW S, IsFiniteSet(S)
    PROVE  \E f : IsSum(f, S)
<1> DEFINE G == {T \in SUBSET S : \E f : IsSum(f, T)}
<1>1. ASSUME NEW T \in SUBSET S, \A U \in SUBSET T : U # T => U \in G
      PROVE  T \in G
  <2> DEFINE g == [U \in SUBSET T |->
                     IF U = {} THEN 0 ELSE Delta(Pick(U)) + Total(U \ {Pick(U)})]
  <2>1. ASSUME NEW U \in SUBSET T, U # T
        PROVE  Total(U) = IF U = {} THEN 0 ELSE Delta(Pick(U)) + Total(U \ {Pick(U)})
    <3> DEFINE F(R) == CHOOSE f : IsSum(f, R)
               V == U \ {Pick(U)}
    <3>1. IsSum(F(U), U) /\ Total(U) = F(U)[U]
      BY <1>1, <2>1, TotalUnfolds
    <3>2. F(U)[U] = IF U = {} THEN 0 ELSE Delta(Pick(U)) + F(U)[V]
      BY <3>1 DEF IsSum
    <3>3. CASE U # {}
      <4>1. V \in SUBSET U /\ V \in SUBSET T /\ V # T /\ IsFiniteSet(V)
        BY <2>1, FS_Subset
      <4>2. IsSum(F(V), V) /\ Total(V) = F(V)[V]
        BY <1>1, <4>1, TotalUnfolds
      <4>3. F(U)[V] = F(V)[V]
        BY <3>1, <4>1, <4>2, SumUnique
      <4> QED
        BY <3>1, <3>2, <4>2, <4>3
    <3> QED
      BY <3>1, <3>2, <3>3
  <2>2. ASSUME NEW U \in SUBSET T, U # {} PROVE Total(U \ {Pick(U)}) = g[U \ {Pick(U)}]
    <3>1. Pick(U) \in U
      BY <2>2 DEF Pick
    <3>2. U \ {Pick(U)} \in SUBSET T /\ U \ {Pick(U)} # T
      BY <3>1
    <3> QED
      BY <2>1, <3>2
  <2>3. IsSum(g, T)
    BY <2>2 DEF IsSum
  <2> QED
    BY <2>3
<1>2. S \in G
  <2> HIDE DEF G
  <2> QED
    BY <1>1, SubsetInduction
<1> QED
  BY <1>2

LEMMA TotalDef ==
    ASSUME NEW S, IsFiniteSet(S)
    PROVE  Total(S) = IF S = {} THEN 0 ELSE Delta(Pick(S)) + Total(S \ {Pick(S)})
<1> DEFINE F(R) == CHOOSE f : IsSum(f, R)
           V == S \ {Pick(S)}
<1>1. IsFiniteSet(V) /\ V \in SUBSET S
  BY FS_Subset
<1>2. /\ IsSum(F(S), S) /\ Total(S) = F(S)[S]
      /\ IsSum(F(V), V) /\ Total(V) = F(V)[V]
  BY <1>1, SumExists, TotalUnfolds
<1>3. F(S)[V] = F(V)[V]
  BY <1>1, <1>2, SumUnique
<1>4. F(S)[S] = IF S = {} THEN 0 ELSE Delta(Pick(S)) + F(S)[V]
  BY <1>2 DEF IsSum
<1> QED
  BY <1>2, <1>3, <1>4

\* What a request adds is an integer, for a topup a positive one.
LEMMA DeltaType ==
    ASSUME NEW r \in Requests
    PROVE  Delta(r) \in Int /\ (r \in Topups => Delta(r) > 0) /\ (r \in Sends => Delta(r) = -Cost)
<1>1. r \in Topups => AmountOf[r] \in 1 .. MaxBalance
  BY RequestAssumption
<1>2. r \in Topups => r \notin Sends
  BY RequestAssumption
<1> QED
  BY <1>1, <1>2, NumberAssumption DEF Delta, Cost, Requests

\* A sum of ledger entries is an integer, and does not depend on the order.
LEMMA TotalType ==
    ASSUME NEW S \in SUBSET Requests, IsFiniteSet(S)
    PROVE  Total(S) \in Int
<1> DEFINE G == {T \in SUBSET S : Total(T) \in Int}
<1>1. ASSUME NEW T \in SUBSET S, \A U \in SUBSET T : U # T => U \in G
      PROVE  T \in G
  <2>1. IsFiniteSet(T)
    BY FS_Subset
  <2>2. CASE T = {}
    <3>1. Total(T) = 0
      BY <2>1, <2>2, TotalDef
    <3> QED
      BY <3>1
  <2>3. CASE T # {}
    <3>1. Pick(T) \in T
      BY <2>3 DEF Pick
    <3>2. Total(T \ {Pick(T)}) \in Int
      BY <1>1, <3>1
    <3> QED
      BY <2>1, <2>3, <3>1, <3>2, TotalDef, DeltaType
  <2> QED
    BY <2>2, <2>3
<1>2. S \in G
  <2> HIDE DEF G
  <2> QED
    BY <1>1, SubsetInduction
<1> QED
  BY <1>2

LEMMA TotalRemove ==
    ASSUME NEW S \in SUBSET Requests, IsFiniteSet(S), NEW r \in S
    PROVE  Total(S) = Delta(r) + Total(S \ {r})
<1> DEFINE G == {T \in SUBSET S : \A x \in T : Total(T) = Delta(x) + Total(T \ {x})}
<1>1. ASSUME NEW T \in SUBSET S, \A U \in SUBSET T : U # T => U \in G, NEW x \in T
      PROVE  Total(T) = Delta(x) + Total(T \ {x})
  <2>1. PICK p \in T : p = Pick(T)
    BY DEF Pick
  <2>2. \A U \in SUBSET T : IsFiniteSet(U) /\ Total(U) \in Int
    BY FS_Subset, TotalType
  <2>3. Total(T) = Delta(p) + Total(T \ {p})
    BY <1>1, <2>1, <2>2, TotalDef
  <2>4. CASE x = p
    BY <2>3, <2>4
  <2>5. CASE x # p
    <3>1. PICK W \in SUBSET T : W = (T \ {x}) \ {p} /\ W = (T \ {p}) \ {x}
      OBVIOUS
    <3>2. Total(T \ {p}) = Delta(x) + Total(W)
      BY <1>1, <2>1, <2>5, <3>1
    <3>3. Total(T \ {x}) = Delta(p) + Total(W)
      BY <1>1, <2>1, <2>5, <3>1
    <3>4. Delta(x) \in Int /\ Delta(p) \in Int /\ Total(W) \in Int
      BY <1>1, <2>1, <2>2, DeltaType
    <3> HIDE <3>1
    <3> QED
      BY <2>3, <3>2, <3>3, <3>4
  <2> QED
    BY <2>4, <2>5
<1>2. S \in G
  <2>1. \A T \in SUBSET S : (\A U \in SUBSET T : U # T => U \in G) => T \in G
    BY <1>1
  <2> HIDE DEF G
  <2> QED
    BY <2>1, SubsetInduction
<1> QED
  BY <1>2

\* A ledger of sends is the number of them, charged.
LEMMA TotalOfSends ==
    ASSUME NEW S \in SUBSET Sends, IsFiniteSet(S)
    PROVE  Total(S) = 0 - Cost * Cardinality(S)
<1> DEFINE G == {T \in SUBSET S : Total(T) = 0 - Cost * Cardinality(T)}
<1>1. ASSUME NEW T \in SUBSET S, \A U \in SUBSET T : U # T => U \in G
      PROVE  T \in G
  <2>1. IsFiniteSet(T) /\ T \in SUBSET Requests
    BY FS_Subset DEF Requests
  <2>2. CASE T = {}
    <3>1. Total(T) = 0 /\ Cardinality(T) = 0
      BY <2>1, <2>2, TotalDef, FS_EmptySet
    <3> QED
      BY <3>1 DEF Cost
  <2>3. CASE T # {}
    <3>1. PICK p \in T : TRUE
      BY <2>3
    <3>2. PICK U \in SUBSET T : U = T \ {p}
      OBVIOUS
    <3>3. Total(T) = Delta(p) + Total(U) /\ Delta(p) = -Cost
      BY <2>1, <3>2, TotalRemove, DeltaType
    <3>4. Total(U) = 0 - Cost * Cardinality(U)
      BY <1>1, <3>1, <3>2
    <3>5. Cardinality(U) = Cardinality(T) - 1
      BY <2>1, <3>2, FS_RemoveElement
    <3>6. Cardinality(T) \in Nat
      BY <2>1, FS_CardinalityType
    <3> QED
      BY <3>3, <3>4, <3>5, <3>6 DEF Cost
  <2> QED
    BY <2>2, <2>3
<1>2. S \in G
  <2> HIDE DEF G
  <2> QED
    BY <1>1, SubsetInduction
<1> QED
  BY <1>2

\* Without the sends a ledger adds up to as much or more, and with a further
\* topup too.
LEMMA TotalOfTopups ==
    ASSUME NEW S \in SUBSET Requests, IsFiniteSet(S)
    PROVE  Total(S) <= Total(S \cap Topups)
<1> DEFINE G == {T \in SUBSET S : Total(T) <= Total(T \cap Topups)}
<1>1. ASSUME NEW T \in SUBSET S, \A U \in SUBSET T : U # T => U \in G
      PROVE  T \in G
  <2>1. \A U \in SUBSET T : IsFiniteSet(U) /\ Total(U) \in Int
    BY FS_Subset, TotalType
  <2>2. CASE T = {}
    <3>1. T \cap Topups = T
      BY <2>2
    <3> QED
      BY <2>1, <3>1
  <2>3. CASE T # {}
    <3>1. PICK p \in T : TRUE
      BY <2>3
    <3>2. PICK U \in SUBSET T : U = T \ {p}
      OBVIOUS
    <3>3. Total(T) = Delta(p) + Total(U)
      BY <2>1, <3>1, <3>2, TotalRemove
    <3>4. Total(U) <= Total(U \cap Topups)
      BY <1>1, <3>1, <3>2
    <3>5. Delta(p) \in Int /\ Total(U) \in Int /\ Total(U \cap Topups) \in Int
      BY <2>1, DeltaType
    <3>6. CASE p \in Topups
      <4>1. (T \cap Topups) \ {p} = U \cap Topups /\ T \cap Topups \in SUBSET T
        BY <3>2
      <4>2. Total(T \cap Topups) = Delta(p) + Total((T \cap Topups) \ {p})
        BY <2>1, <3>6, <4>1, TotalRemove
      <4>3. Total(T \cap Topups) = Delta(p) + Total(U \cap Topups)
        BY <4>1, <4>2
      <4> QED
        BY <3>3, <3>4, <3>5, <4>3
    <3>7. CASE p \notin Topups
      <4>1. T \cap Topups = U \cap Topups
        BY <3>2, <3>7
      <4>2. Delta(p) < 0
        BY <3>7, DeltaType DEF Requests, Cost
      <4>3. Total(T \cap Topups) = Total(U \cap Topups)
        BY <4>1
      <4> QED
        BY <3>3, <3>4, <3>5, <4>2, <4>3
    <3> QED
      BY <3>6, <3>7
  <2> QED
    BY <2>2, <2>3
<1>2. S \in G
  <2> HIDE DEF G
  <2> QED
    BY <1>1, SubsetInduction
<1> QED
  BY <1>2

LEMMA TotalGrows ==
    ASSUME NEW S \in SUBSET Topups, IsFiniteSet(S), NEW t \in Topups
    PROVE  /\ Total(S \cup {t}) >= Total(S)
           /\ t \notin S => Total(S \cup {t}) = Delta(t) + Total(S)
<1>1. PICK U \in SUBSET Requests : U = S \cup {t} /\ IsFiniteSet(U)
  <2>1. IsFiniteSet(S \cup {t})
    BY FS_AddElement
  <2> QED
    BY <2>1 DEF Requests
<1>2. Total(S) \in Int /\ Delta(t) \in Int /\ Delta(t) > 0
  BY TotalType, DeltaType DEF Requests
<1>3. CASE t \in S
  <2>1. S \cup {t} = S
    BY <1>3
  <2> QED
    BY <1>2, <1>3, <2>1
<1>4. CASE t \notin S
  <2>1. U \ {t} = S /\ t \in U
    BY <1>1, <1>4
  <2>2. Total(U) = Delta(t) + Total(S)
    BY <1>1, <2>1, TotalRemove
  <2> QED
    BY <1>1, <1>2, <2>2
<1> QED
  BY <1>3, <1>4

-----------------------------------------------------------------------------
\* What CHECK (balance >= 0) admits is a balance: a wrapped sum is negative.
LEMMA NewBalanceRange ==
    ASSUME TypeOK, NEW r \in Requests
    PROVE  /\ AccountOf[r] \in Accounts
           /\ NewBalance(r) \in Int
           /\ NewBalance(r) >= 0 => /\ NewBalance(r) \in 0 .. MaxBalance
                                    /\ NewBalance(r) = seen[r] + Delta(r)
<1>1. seen[r] \in 0 .. MaxBalance /\ MaxBalance \in Nat /\ MaxBalance > 0
  BY NumberAssumption DEF TypeOK
<1>2. Delta(r) \in Int /\ -1 <= Delta(r) /\ Delta(r) <= MaxBalance
  <2>1. CASE r \in Sends
    BY <2>1, <1>1 DEF Delta, Cost
  <2>2. CASE r \notin Sends
    <3>1. AmountOf[r] \in 1 .. MaxBalance
      BY <2>2, RequestAssumption DEF Requests
    <3> QED
      BY <2>2, <3>1, <1>1 DEF Delta
  <2> QED
    BY <2>1, <2>2
<1>3. AccountOf[r] \in Accounts
  BY RequestAssumption
<1> QED
  BY <1>1, <1>2, <1>3 DEF NewBalance

\* The slot of a keyed request is a slot.
LEMMA SlotOfKeyed ==
    ASSUME NEW r \in Requests, Keyed(r)
    PROVE  SlotOf(r) \in Slots /\ r \in Sends
BY RequestAssumption DEF Keyed, SlotOf, Slots, Requests

\* Every variable keeps its type, the balance within BIGINT; the slots that are
\* looked up are slots because only keyed sends look one up.
THEOREM TypeCorrect == Spec => [](TypeOK /\ KeyedPoints)
<1>1. Init => TypeOK /\ KeyedPoints
  BY NumberAssumption DEF Init, TypeOK, KeyedPoints
<1>2. TypeOK /\ KeyedPoints /\ [Next]_vars => TypeOK' /\ KeyedPoints'
  <2> SUFFICES ASSUME TypeOK, KeyedPoints, [Next]_vars PROVE TypeOK' /\ KeyedPoints'
    OBVIOUS
  <2> USE NumberAssumption DEF TypeOK, Fault, Goto, store
  <2>1. ASSUME NEW r \in Requests, Arrive(r) PROVE TypeOK' /\ KeyedPoints'
    BY <2>1 DEF Arrive, KeyedPoints, Keyed
  <2>2. ASSUME NEW r \in Requests, RequestStep(r) PROVE TypeOK' /\ KeyedPoints'
    <3>2. CASE LookupCache(r)
      BY <3>2, SlotOfKeyed, NoneAssumption DEF LookupCache, Replay, Parses, KeyedPoints, Keyed
    <3>3. CASE LookupDB(r)
      BY <3>3, SlotOfKeyed DEF LookupDB, Replay, Parses, Answer, KeyedPoints, Keyed
    <3>4. CASE ClaimKey(r)
      BY <3>4 DEF ClaimKey, Answer, KeyedPoints, Keyed
    <3>5. CASE ReadRow(r)
      BY <3>5, SlotOfKeyed DEF ReadRow, Replay, Parses, Answer, KeyedPoints, Keyed
    <3>6. CASE ShareAccount(r)
      BY <3>6 DEF ShareAccount, Answer, KeyedPoints, Keyed
    <3>7. CASE LockAccount(r)
      BY <3>7, RequestAssumption DEF LockAccount, Answer, KeyedPoints, Keyed
    <3>8. CASE WriteRows(r)
      BY <3>8, SlotOfKeyed, NewBalanceRange
         DEF WriteRows, Commit, SaveBalance, Storable, Snapshot, Answer, KeyedPoints, Keyed
    <3>9. CASE SetCache(r)
      BY <3>9, SlotOfKeyed DEF SetCache, KeyedPoints, Keyed
    <3>10. CASE AbortVictim(r)
      BY <3>10 DEF AbortVictim, Answer, KeyedPoints, Keyed
    <3> QED
      BY <2>2, <3>2, <3>3, <3>4, <3>5, <3>6, <3>7, <3>8, <3>9, <3>10
         DEF RequestStep
  <2>3. ASSUME NEW r \in Requests, Crash(r) PROVE TypeOK' /\ KeyedPoints'
    BY <2>3 DEF Crash, KeyedPoints, Keyed
  <2>4. ASSUME NEW slot \in Slots, ExpireCache(slot) PROVE TypeOK' /\ KeyedPoints'
    BY <2>4 DEF ExpireCache, KeyedPoints, Keyed
  <2>5. CASE UNCHANGED vars
    BY <2>5 DEF vars, KeyedPoints, Keyed
  <2> QED
    BY <2>1, <2>2, <2>3, <2>4, <2>5 DEF Next, AllDone
<1> QED
  BY <1>1, <1>2, PTL DEF Spec
-----------------------------------------------------------------------------
\* A request moves alone: the control points and answers of the others stay, and
\* only a commit touches the tables.
LEMMA OthersKeep ==
    ASSUME TypeOK, NEW r \in Requests, Arrive(r) \/ RequestStep(r) \/ Crash(r)
    PROVE  /\ \A s \in Requests \ {r} : /\ pc'[s] = pc[s] /\ seen'[s] = seen[s]
                                        /\ reply'[s] = reply[s] /\ message'[s] = message[s]
           /\ UNCHANGED store \/ (pc[r] = "write" /\ NewBalance(r) >= 0 /\ Commit(r))
<1> USE DEF TypeOK, Goto, Answer, Replay, Parses
<1>1. CASE Arrive(r) \/ Crash(r)
  BY <1>1 DEF Arrive, Crash
<1>2. CASE RequestStep(r)
  BY <1>2 DEF RequestStep, LookupCache, LookupDB, ClaimKey, ReadRow, ShareAccount, LockAccount,
              WriteRows, Storable, SetCache, AbortVictim
<1> QED
  BY <1>1, <1>2

\* Where a step can lead: a key or an account is only taken when nothing blocks.
LEMMA Moves ==
    ASSUME TypeOK, NEW r \in Requests, Arrive(r) \/ RequestStep(r) \/ Crash(r)
    PROVE  /\ HoldsKey(r)' => \/ HoldsKey(r) /\ UNCHANGED idem
                              \/ /\ pc[r] = "claim" /\ Blockers(r) = {} /\ UNCHANGED idem
                                 /\ idem[SlotOf(r)] = None
           /\ HoldsUpdate(r)' => /\ pc[r] = "lock" /\ Blockers(r) = {}
                                 /\ seen'[r] = balance[AccountOf[r]] /\ UNCHANGED balance
                                 /\ Affordable(r)
           /\ pc'[r] = "readRow" => /\ pc[r] = "claim" /\ UNCHANGED idem
                                    /\ idem[SlotOf(r)] # None
<1> USE DEF TypeOK, Goto, Answer, Replay, Parses, HoldsKey, HoldsUpdate, store
<1>1. CASE Arrive(r) \/ Crash(r)
  BY <1>1 DEF Arrive, Crash, Keyed
<1>2. CASE RequestStep(r)
  BY <1>2 DEF RequestStep, LookupCache, LookupDB, ClaimKey, ReadRow, ShareAccount, LockAccount,
              WriteRows, SetCache, AbortVictim, Keyed
<1> QED
  BY <1>1, <1>2
\* The locks exclude, so what a transaction has read of its key and its account
\* is still true when it writes.
LEMMA LocksStep ==
    ASSUME TypeOK, KeyedPoints, LocksExclude, [Next]_vars
    PROVE  LocksExclude'
<1>1. ASSUME NEW r \in Requests, Arrive(r) \/ RequestStep(r) \/ Crash(r)
      PROVE  LocksExclude'
  <2>1. \A s \in Requests \ {r} :
          /\ pc'[s] = pc[s] /\ seen'[s] = seen[s]
          /\ HoldsKey(s)' = HoldsKey(s) /\ HoldsUpdate(s)' = HoldsUpdate(s)
    BY <1>1, OthersKeep DEF HoldsKey, HoldsUpdate, Keyed
  <2>2. ASSUME NEW s \in Requests \ {r}, SameSlot(r, s), HoldsKey(s)
        PROVE  ~HoldsKey(r)'
    <3>1. s \in Requests /\ SameSlot(s, r)
      BY <2>2 DEF SameSlot
    <3>2. ~HoldsKey(r)
      BY <2>2 DEF LocksExclude
    <3>3. pc[r] = "claim" => s \in Blockers(r)
      BY <2>2 DEF Blockers
    <3> QED
      BY <1>1, <3>2, <3>3, Moves
  <2>3. ASSUME NEW s \in Requests \ {r}, SameAccount(r, s), HoldsUpdate(s)
        PROVE  ~HoldsUpdate(r)'
    <3>1. pc[r] = "lock" => s \in Blockers(r)
      BY <2>3 DEF Blockers
    <3> QED
      BY <1>1, <3>1, Moves
  <2>4. ASSUME NEW s \in Requests, HoldsUpdate(s)'
        PROVE  seen'[s] = balance'[AccountOf[s]] /\ Affordable(s)'
    <3>1. CASE s = r
      BY <1>1, <2>4, <3>1, Moves DEF TypeOK, Affordable
    <3>2. CASE s # r
      <4>1. /\ HoldsUpdate(s) /\ seen'[s] = seen[s]
            /\ seen[s] = balance[AccountOf[s]] /\ Affordable(s)
        BY <2>1, <2>4, <3>2 DEF LocksExclude
      <4>2. CASE UNCHANGED store
        BY <4>1, <4>2 DEF store, Affordable
      <4>3. CASE pc[r] = "write" /\ Commit(r)
        <5>1. AccountOf[r] # AccountOf[s]
          BY <3>2, <4>1, <4>3 DEF LocksExclude, HoldsUpdate, SameAccount
        <5> QED
          BY <4>1, <4>3, <5>1, RequestAssumption DEF Commit, SaveBalance, TypeOK, Affordable
      <4> QED
        BY <1>1, <4>2, <4>3, OthersKeep
    <3> QED
      BY <3>1, <3>2
  <2>5. ASSUME NEW s \in Requests, HoldsKey(s)'
        PROVE  idem'[SlotOf(s)] = None
    <3>1. CASE s = r
      BY <1>1, <2>5, <3>1, Moves DEF LocksExclude
    <3>2. CASE s # r
      <4>1. HoldsKey(s) /\ idem[SlotOf(s)] = None
        BY <2>1, <2>5, <3>2 DEF LocksExclude
      <4>2. CASE UNCHANGED store
        BY <4>1, <4>2 DEF store
      <4>3. CASE pc[r] = "write" /\ Commit(r)
        <5>1. Keyed(r) => SlotOf(r) # SlotOf(s)
          BY <3>2, <4>1, <4>3 DEF LocksExclude, HoldsKey, SameSlot
        <5>2. SlotOf(s) \in Slots
          BY <4>1, SlotOfKeyed DEF HoldsKey
        <5> QED
          BY <4>1, <4>3, <5>1, <5>2 DEF Commit, SaveBalance, TypeOK
      <4> QED
        BY <1>1, <4>2, <4>3, OthersKeep
    <3> QED
      BY <3>1, <3>2
  <2>6. \A s, t \in Requests : /\ SameSlot(s, t)' = SameSlot(s, t)
                               /\ SameSlot(s, t) = SameSlot(t, s)
                               /\ SameAccount(s, t)' = SameAccount(s, t)
                               /\ SameAccount(s, t) = SameAccount(t, s)
                               /\ SlotOf(s)' = SlotOf(s)
    BY DEF SameSlot, SameAccount, SlotOf, Keyed
  <2>7. ASSUME NEW s \in Requests, NEW t \in Requests
        PROVE  /\ SameSlot(s, t)' /\ HoldsKey(s)' /\ HoldsKey(t)' => s = t
               /\ SameAccount(s, t)' /\ HoldsUpdate(s)' /\ HoldsUpdate(t)' => s = t
    BY <2>1, <2>2, <2>3, <2>6 DEF LocksExclude
  <2> QED
    BY <2>4, <2>5, <2>6, <2>7 DEF LocksExclude
<1>2. ASSUME UNCHANGED <<store, pc, seen>> PROVE LocksExclude'
  BY <1>2 DEF LocksExclude, SameSlot, SameAccount, Keyed, HoldsKey, HoldsUpdate, SlotOf, store,
              Affordable
<1> QED
  BY <1>1, <1>2 DEF Next, ExpireCache, AllDone, vars

\* A slot's row and the send that committed it determine each other: the commit
\* finds the row still missing, because its transaction holds the key.
LEMMA KeysStep ==
    ASSUME TypeOK, KeyedPoints, LocksExclude, KeysDetermine, AnswersJustified, [Next]_vars
    PROVE  /\ KeysDetermine'
           /\ committed \subseteq committed'
           /\ \A s \in Slots : idem[s] # None => idem'[s] = idem[s]
<1>1. ASSUME NEW r \in Requests, Arrive(r) \/ RequestStep(r) \/ Crash(r)
      PROVE  /\ KeysDetermine'
             /\ committed \subseteq committed'
             /\ \A s \in Slots : idem[s] # None => idem'[s] = idem[s]
  <2>1. /\ committed \subseteq committed' /\ committed' \subseteq committed \cup {r}
        /\ \A s \in Slots : idem'[s] = idem[s] \/ (Keyed(r) /\ s = SlotOf(r) /\ idem'[s] = r)
        /\ r \in committed' => \/ UNCHANGED store
                               \/ Keyed(r) => idem'[SlotOf(r)] = r
        /\ \A s \in Slots : idem[s] # None => idem'[s] = idem[s]
    <3>1. CASE UNCHANGED store
      BY <3>1 DEF store
    <3>2. CASE pc[r] = "write" /\ Commit(r)
      BY <3>2, SlotOfKeyed DEF Commit, SaveBalance, Snapshot, TypeOK, LocksExclude, HoldsKey
    <3> QED
      BY <1>1, <3>1, <3>2, OthersKeep
  <2>2. r # None
    BY NoneAssumption
  <2>3. ASSUME NEW s \in Slots, idem'[s] # None
        PROVE  idem'[s] \in committed' /\ Keyed(idem'[s]) /\ SlotOf(idem'[s]) = s
    <3>1. CASE idem'[s] = idem[s]
      BY <2>1, <2>3, <3>1 DEF KeysDetermine
    <3>2. CASE idem'[s] # idem[s]
      <4>1. Keyed(r) /\ s = SlotOf(r) /\ idem'[s] = r
        BY <2>1, <3>2
      <4>2. r \in committed'
        BY <1>1, <3>2, OthersKeep DEF store, Commit, SaveBalance
      <4> QED
        BY <4>1, <4>2
    <3> QED
      BY <3>1, <3>2
  <2>4. ASSUME NEW s \in committed', Keyed(s)
        PROVE  idem'[SlotOf(s)] = s
    <3>1. s \in Requests /\ SlotOf(s) \in Slots /\ s # None
      BY <2>1, <2>4, SlotOfKeyed, NoneAssumption DEF TypeOK
    <3>2. CASE s \in committed
      BY <2>1, <2>4, <3>1, <3>2 DEF KeysDetermine
    <3>3. CASE s \notin committed
      BY <2>1, <2>4, <3>3 DEF store
    <3> QED
      BY <3>2, <3>3
  <2>5. ASSUME NEW s \in Requests, pc'[s] = "readRow"
        PROVE  idem'[SlotOf(s)] # None
    <3>1. idem[SlotOf(s)] # None /\ pc[s] \in {"claim", "readRow"}
      BY <1>1, <2>5, OthersKeep, Moves DEF KeysDetermine
    <3>2. SlotOf(s) \in Slots
      BY <3>1, SlotOfKeyed DEF KeyedPoints
    <3> QED
      BY <2>1, <3>1, <3>2
  <2> QED
    BY <2>1, <2>3, <2>4, <2>5 DEF KeysDetermine, Keyed, SlotOf
<1>2. ASSUME UNCHANGED <<store, pc>>
      PROVE  /\ KeysDetermine'
             /\ committed \subseteq committed'
             /\ \A s \in Slots : idem[s] # None => idem'[s] = idem[s]
  BY <1>2 DEF KeysDetermine, Keyed, SlotOf, store
<1> QED
  BY <1>1, <1>2 DEF Next, ExpireCache, AllDone, vars
\* What a row found by a lookup, or by the insert it stopped, names.
LEMMA FoundRow ==
    ASSUME TypeOK, KeyedPoints, KeysDetermine, AnswersAgree, NEW r \in Requests
    PROVE  /\ pc[r] = "cache" /\ cache[SlotOf(r)] # None
                => cache[SlotOf(r)] = idem[SlotOf(r)] /\ idem[SlotOf(r)] # None
           /\ pc[r] \in {"cache", "db", "readRow"} /\ idem[SlotOf(r)] # None
                => /\ idem[SlotOf(r)] \in committed
                   /\ idem[SlotOf(r)] \in Sends
                   /\ idem[SlotOf(r)] # Placeholder
           /\ pc[r] = "readRow" => idem[SlotOf(r)] # None
<1>1. pc[r] \in {"cache", "db", "readRow"} => SlotOf(r) \in Slots
  BY SlotOfKeyed DEF KeyedPoints
<1> QED
  BY <1>1, NoneAssumption DEF TypeOK, KeysDetermine, AnswersAgree, Keyed

\* The answers stay justified, and true: a 202 names the key's message, which
\* was committed before or is now.
LEMMA AnswersStep ==
    ASSUME TypeOK, TypeOK', KeyedPoints, LocksExclude, KeysDetermine, KeysDetermine',
           AnswersJustified, AnswersAgree, [Next]_vars
    PROVE  AnswersJustified' /\ AnswersAgree'
<1>1. ASSUME NEW r \in Requests, Arrive(r) \/ RequestStep(r) \/ Crash(r)
      PROVE  AnswersJustified' /\ AnswersAgree'
  <2> DEFINE True(s) == reply'[s] = "202" =>
                 /\ message'[s] \in committed'
                 /\ message'[s] = s \/ (Keyed(s) /\ idem'[SlotOf(s)] = message'[s])
             Justified(s) ==
                 /\ pc'[s] \notin {"setCache", "done"} =>
                      s \notin committed' /\ reply'[s] = "none" /\ message'[s] = None
                 /\ pc'[s] = "setCache" => reply'[s] = "202"
                 /\ reply'[s] \in {"none", "200", "402", "500"} => message'[s] = None
                 /\ reply'[s] # "409"
  <2>1. ASSUME NEW s \in Requests \ {r} PROVE Justified(s) /\ True(s)
    <3>1. /\ pc'[s] = pc[s] /\ reply'[s] = reply[s] /\ message'[s] = message[s]
          /\ s \in committed' => s \in committed
      BY <1>1, <2>1, OthersKeep DEF store, Commit, SaveBalance
    <3>2. Keyed(s) /\ idem[SlotOf(s)] # None => idem'[SlotOf(s)] = idem[SlotOf(s)]
      BY <2>1, KeysStep, SlotOfKeyed
    <3>3. message[s] \in committed => message[s] # None
      BY NoneAssumption DEF TypeOK
    <3> QED
      BY <3>1, <3>2, <3>3, KeysStep DEF AnswersJustified, AnswersAgree
  <2>2. Justified(r) /\ True(r)
    <3> USE DEF TypeOK, Goto, Answer, Replay, Parses, store
    <3>1. CASE Arrive(r) \/ Crash(r)
      BY <3>1 DEF Arrive, Crash, AnswersJustified
    <3>2. CASE LookupCache(r)
      BY <3>2, FoundRow DEF LookupCache, AnswersJustified, KeyedPoints
    <3>3. CASE LookupDB(r)
      BY <3>3, FoundRow DEF LookupDB, AnswersJustified, KeyedPoints
    <3>4. CASE ClaimKey(r)
      BY <3>4 DEF ClaimKey, AnswersJustified
    <3>5. CASE ReadRow(r)
      BY <3>5, FoundRow DEF ReadRow, AnswersJustified, KeyedPoints
    <3>6. CASE ShareAccount(r)
      BY <3>6 DEF ShareAccount, AnswersJustified
    <3>7. CASE LockAccount(r)
      BY <3>7 DEF LockAccount, AnswersJustified
    <3>8. CASE WriteRows(r)
      BY <3>8 DEF WriteRows, Commit, SaveBalance, AnswersJustified, Keyed
    <3>9. CASE SetCache(r)
      BY <3>9 DEF SetCache, AnswersJustified, AnswersAgree
    <3>10. CASE AbortVictim(r)
      BY <3>10 DEF AbortVictim, Deadlocked, Blockers, AnswersJustified
    <3> QED
      BY <1>1, <3>1, <3>2, <3>3, <3>4, <3>5, <3>6, <3>7, <3>8, <3>9, <3>10 DEF RequestStep
  <2>3. ASSUME NEW s \in Slots, cache'[s] # None PROVE cache'[s] = idem'[s]
    <3>1. cache'[s] = cache[s] \/ (pc[r] = "setCache" /\ s = SlotOf(r) /\ cache'[s] = message[r])
      BY <1>1 DEF TypeOK, Arrive, Crash, RequestStep, LookupCache, LookupDB, ClaimKey, ReadRow,
                  ShareAccount, LockAccount, WriteRows, SetCache, AbortVictim, Answer
    <3>2. CASE cache'[s] = cache[s]
      BY <2>3, <3>2, KeysStep DEF AnswersAgree
    <3>3. CASE pc[r] = "setCache" /\ s = SlotOf(r) /\ cache'[s] = message[r]
      <4>1. Keyed(r) /\ reply[r] = "202"
        BY <3>3 DEF KeyedPoints, AnswersJustified
      <4>2. idem[s] = message[r]
        BY <3>3, <4>1 DEF AnswersAgree, KeysDetermine
      <4> QED
        BY <2>3, <3>3, <4>2, KeysStep
    <3> QED
      BY <3>1, <3>2, <3>3
  <2>4. \A s \in Requests : Justified(s) /\ True(s)
    BY <2>1, <2>2
  <2>5. AnswersJustified'
    BY <2>4 DEF AnswersJustified
  <2>6. \A s \in Requests : Keyed(s)' = Keyed(s) /\ SlotOf(s)' = SlotOf(s)
    BY DEF Keyed, SlotOf
  <2> QED
    BY <2>3, <2>4, <2>5, <2>6 DEF AnswersAgree
<1>2. ASSUME NEW slot \in Slots, ExpireCache(slot) PROVE AnswersJustified' /\ AnswersAgree'
  BY <1>2 DEF ExpireCache, store, TypeOK, AnswersJustified, AnswersAgree, Keyed, SlotOf
<1>3. CASE UNCHANGED vars
  BY <1>3 DEF vars, store, AnswersJustified, AnswersAgree, Keyed, SlotOf
<1> QED
  BY <1>1, <1>2, <1>3 DEF Next, AllDone

\* The invariant of the transactions holds in every reachable state.
THEOREM SafetyHolds == Spec => []Safety
<1>1. Init => Safety
  BY NoneAssumption DEF Init, Safety, KeyedPoints, LocksExclude, KeysDetermine, AnswersJustified,
        AnswersAgree, HoldsKey, HoldsUpdate
<1>2. /\ TypeOK /\ KeyedPoints /\ (TypeOK /\ KeyedPoints)' /\ Safety /\ [Next]_vars
      => Safety'
  BY LocksStep, KeysStep, AnswersStep DEF Safety
<1> QED
  BY <1>1, <1>2, TypeCorrect, PTL DEF Spec

\* No key is ever paid for twice.
THEOREM SingleDebitPerKeyHolds == Spec => []SingleDebitPerKey
<1>1. TypeOK /\ KeysDetermine => SingleDebitPerKey
  BY DEF TypeOK, KeysDetermine, SingleDebitPerKey, SameSlot
<1> QED
  BY <1>1, TypeCorrect, SafetyHolds, PTL DEF Safety

\* All answers for a key name its one message.
THEOREM AnswersAgreeHolds == Spec => []AnswersAgree
BY SafetyHolds, PTL DEF Safety
\* A request that is refused for want of money holds its key, and finds it unused.
THEOREM DuplicateNotRefusedHolds == Spec => DuplicateNotRefused
<1> DEFINE P == \A r \in Requests : reply[r] # "402" /\ reply'[r] = "402"
                   => \A s \in committed : ~SameSlot(r, s)
<1>1. TypeOK /\ Safety /\ [Next]_vars => P
  <2> SUFFICES ASSUME TypeOK, Safety, [Next]_vars,
                      NEW r \in Requests, reply[r] # "402", reply'[r] = "402",
                      NEW s \in committed, SameSlot(r, s)
               PROVE  FALSE
    OBVIOUS
  <2>1. Arrive(r) \/ RequestStep(r) \/ Crash(r)
    <3>1. \A t \in Requests \ {r} : ~(Arrive(t) \/ RequestStep(t) \/ Crash(t))
      BY OthersKeep
    <3> QED
      BY <3>1 DEF Next, ExpireCache, AllDone, vars
  <2>2. pc[r] = "lock"
    BY <2>1 DEF TypeOK, Arrive, RequestStep, Crash, LookupCache, LookupDB, ClaimKey, ReadRow,
                ShareAccount, LockAccount, WriteRows, SetCache, AbortVictim, Replay, Answer,
                Parses
  <2>3. idem[SlotOf(r)] = None
    BY <2>2 DEF Safety, LocksExclude, HoldsKey, SameSlot
  <2>4. idem[SlotOf(s)] = s /\ s # None
    BY NoneAssumption DEF TypeOK, Safety, KeysDetermine, SameSlot
  <2> QED
    BY <2>3, <2>4 DEF SameSlot
<1>2. P => (TRUE /\ P)
  OBVIOUS
<1> QED
  BY <1>1, TypeCorrect, SafetyHolds, PTL DEF Spec, DuplicateNotRefused

-----------------------------------------------------------------------------
\* The requests of an account that are in the ledger.
Ledger(a) == {r \in committed : AccountOf[r] = a}

\* A commit adds its entry to the ledger of one account and the same amount to
\* its balance; nothing else touches either.
LEMMA CommitEffect ==
    ASSUME TypeOK, Safety, NEW r \in Requests, pc[r] = "write", NewBalance(r) >= 0, Commit(r)
    PROVE  /\ r \notin committed /\ committed' = committed \cup {r}
           /\ AccountOf[r] \in Accounts
           /\ balance' = [balance EXCEPT ![AccountOf[r]] = balance[AccountOf[r]] + Delta(r)]
<1>1. r \notin committed
  BY DEF Safety, AnswersJustified
<1>2. balance[AccountOf[r]] = seen[r]
  BY DEF Safety, LocksExclude, HoldsUpdate
<1> QED
  BY <1>1, <1>2, NewBalanceRange DEF Commit, SaveBalance

LEMMA LedgerStep ==
    ASSUME TypeOK, TypeOK', Safety, IsFiniteSet(committed), BalanceMatchesLedger, [Next]_vars
    PROVE  IsFiniteSet(committed') /\ BalanceMatchesLedger'
<1>1. SUFFICES ASSUME NEW r \in Requests, pc[r] = "write", NewBalance(r) >= 0, Commit(r)
               PROVE  /\ IsFiniteSet(committed')
                      /\ \A a \in Accounts : balance'[a] = InitialBalance[a] + Total(Ledger(a)')
  <2>1. CASE UNCHANGED store
    BY <2>1 DEF store, BalanceMatchesLedger, Total
  <2>2. BalanceMatchesLedger' <=>
            \A a \in Accounts : balance'[a] = InitialBalance[a] + Total(Ledger(a)')
    BY DEF BalanceMatchesLedger, Ledger, Total
  <2> QED
    BY <1>1, <2>1, <2>2, OthersKeep DEF Next, ExpireCache, AllDone, vars, store
<1>2. IsFiniteSet(committed')
  BY <1>1, CommitEffect, FS_AddElement
<1>3. ASSUME NEW a \in Accounts
      PROVE  balance'[a] = InitialBalance[a] + Total(Ledger(a)')
  <2>1. balance[a] = InitialBalance[a] + Total(Ledger(a))
    BY DEF BalanceMatchesLedger, Ledger
  <2>2. CASE AccountOf[r] # a
    <3>1. Ledger(a)' = Ledger(a) /\ balance'[a] = balance[a]
      BY <1>1, <2>2, CommitEffect DEF Ledger, TypeOK
    <3> QED
      BY <2>1, <3>1
  <2>3. CASE AccountOf[r] = a
    <3>1. /\ Ledger(a)' \in SUBSET Requests /\ r \in Ledger(a)'
          /\ Ledger(a)' \ {r} = Ledger(a)
          /\ balance'[a] = balance[a] + Delta(r)
      BY <1>1, <2>3, CommitEffect DEF Ledger, TypeOK
    <3>2. IsFiniteSet(Ledger(a)') /\ IsFiniteSet(Ledger(a))
      BY <1>2, FS_Subset DEF Ledger
    <3>3. Total(Ledger(a)') = Delta(r) + Total(Ledger(a))
      BY <3>1, <3>2, TotalRemove
    <3>4. /\ Delta(r) \in Int /\ Total(Ledger(a)) \in Int
          /\ InitialBalance[a] \in Int
      BY <3>2, DeltaType, TotalType, NumberAssumption DEF Ledger, TypeOK
    <3> QED
      BY <2>1, <3>1, <3>3, <3>4
  <2> QED
    BY <2>2, <2>3
<1> QED
  BY <1>2, <1>3

\* The ledger is finite, and every balance what it says.
THEOREM LedgerHolds == Spec => [](IsFiniteSet(committed) /\ BalanceMatchesLedger)
<1>1. Init => IsFiniteSet(committed) /\ BalanceMatchesLedger
  <2> SUFFICES ASSUME Init PROVE IsFiniteSet(committed) /\ BalanceMatchesLedger
    OBVIOUS
  <2>1. IsFiniteSet({}) /\ Total({}) = 0
    BY FS_EmptySet, TotalDef
  <2>2. \A a \in Accounts : {r \in committed : AccountOf[r] = a} = {}
    BY DEF Init
  <2> QED
    BY <2>1, <2>2, NumberAssumption DEF Init, BalanceMatchesLedger
<1>2. /\ TypeOK /\ TypeOK' /\ Safety /\ [Next]_vars
      /\ IsFiniteSet(committed) /\ BalanceMatchesLedger
      => (IsFiniteSet(committed) /\ BalanceMatchesLedger)'
  BY LedgerStep
<1> QED
  BY <1>1, <1>2, TypeCorrect, SafetyHolds, PTL DEF Spec

\* Every balance is the initial one plus what the ledger says, always.
THEOREM BalanceMatchesLedgerHolds == Spec => []BalanceMatchesLedger
BY LedgerHolds, PTL

-----------------------------------------------------------------------------
\* A circle of waiting transactions: all of them hold a key, share their account
\* and want to update it.
LEMMA DeadlockShape ==
    ASSUME TypeOK, Safety, NEW r \in Requests, Deadlocked(r)
    PROVE  Keyed(r) /\ \E s \in Sends : Keyed(s) /\ SameAccount(r, s) /\ KeyOf[s] # KeyOf[r]
<1>1. PICK S \in SUBSET Requests : /\ r \in S
                                   /\ \A s \in S : Blockers(s) \cap S # {}
                                   /\ \A s \in S : \E t \in S : s \in Blockers(t)
  BY DEF Deadlocked
<1>2. \A s \in S : pc[s] \in {"share", "lock"} /\ Keyed(s)
  <2> SUFFICES ASSUME NEW s \in S PROVE pc[s] \in {"share", "lock"} /\ Keyed(s)
    OBVIOUS
  <2>1. pc[s] \in {"claim", "share", "lock"}
    BY <1>1 DEF Blockers
  <2>2. HoldsKey(s) \/ HoldsShare(s) \/ HoldsUpdate(s)
    BY <1>1 DEF Blockers
  <2> QED
    BY <2>1, <2>2 DEF HoldsKey, HoldsShare, HoldsUpdate
<1>3. PICK t \in S : t \in Blockers(r)
  BY <1>1
<1>4. t # r /\ SameAccount(r, t)
  BY <1>1, <1>2, <1>3 DEF Blockers
<1>5. HoldsKey(r) /\ HoldsKey(t)
  BY <1>1, <1>2 DEF HoldsKey
<1>6. ~SameSlot(r, t)
  BY <1>1, <1>4, <1>5 DEF Safety, LocksExclude
<1> QED
  BY <1>1, <1>2, <1>4, <1>6 DEF SameSlot, SameAccount, SlotOf, Keyed

\* Where a 500 without a failure comes from.
LEMMA ErrorOrigin ==
    ASSUME TypeOK, Safety, NEW r \in Requests, Arrive(r) \/ RequestStep(r) \/ Crash(r),
           reply'[r] = "500", faultsLeft' = MaxFaults
    PROVE  /\ UNCHANGED store
           /\ Deadlocked(r) \/ (pc[r] = "write" /\ ~Storable(r))
<1> USE DEF TypeOK, Fault, Goto, Answer, Replay, Parses
<1>1. MaxFaults \in Nat /\ ~(\E class \in Faults : Fault(class))
  BY NumberAssumption
<1>2. /\ pc[r] \notin {"setCache", "done"} => reply[r] = "none"
      /\ pc[r] = "setCache" => reply[r] = "202"
  BY DEF Safety, AnswersJustified
<1>3. CASE Arrive(r) \/ Crash(r)
  BY <1>1, <1>2, <1>3 DEF Arrive, Crash
<1>4. CASE LookupCache(r) \/ LookupDB(r) \/ ReadRow(r)
  BY <1>1, <1>2, <1>4 DEF LookupCache, LookupDB, ReadRow
<1>5. CASE ClaimKey(r) \/ ShareAccount(r) \/ LockAccount(r)
  BY <1>1, <1>2, <1>5 DEF ClaimKey, ShareAccount, LockAccount
<1>6. CASE WriteRows(r)
  BY <1>1, <1>6 DEF WriteRows
<1>7. CASE SetCache(r)
  BY <1>1, <1>2, <1>7 DEF SetCache
<1>8. CASE AbortVictim(r)
  BY <1>8 DEF AbortVictim
<1> QED
  BY <1>3, <1>4, <1>5, <1>6, <1>7, <1>8 DEF RequestStep

\* CHECK (balance >= 0) only ever refuses a sum that has wrapped, and that takes
\* a topup.
LEMMA RefusalIsOverflow ==
    ASSUME TypeOK, Safety, IsFiniteSet(committed), BalanceMatchesLedger,
           NEW r \in Requests, pc[r] = "write", ~Storable(r)
    PROVE  /\ r \in Topups
           /\ InitialBalance[AccountOf[r]] + Total(TopupsWith(r)) > MaxBalance
<1> DEFINE a == AccountOf[r]
           L == Ledger(a)
<1>1. /\ a \in Accounts /\ balance[a] = seen[r] /\ Affordable(r)
      /\ r \notin committed
  BY RequestAssumption DEF Safety, LocksExclude, AnswersJustified, HoldsUpdate
<1>2. /\ balance[a] \in 0 .. MaxBalance /\ Delta(r) \in Int
      /\ InitialBalance[a] \in Int /\ MaxBalance \in Nat
  BY <1>1, DeltaType, NumberAssumption DEF TypeOK
<1>3. balance[a] + Delta(r) > MaxBalance
  <2>1. r \in Sends => balance[a] + Delta(r) >= 0
    BY <1>1, <1>2, DeltaType DEF Affordable, Cost
  <2>2. r \notin Sends => Delta(r) > 0
    BY DeltaType DEF Requests
  <2> QED
    BY <1>1, <1>2, <2>1, <2>2 DEF Storable, NewBalance
<1>4. r \in Topups
  BY <1>2, <1>3, DeltaType DEF Requests, Cost
<1>5. /\ L \in SUBSET Requests /\ IsFiniteSet(L)
      /\ L \cap Topups \in SUBSET Topups /\ IsFiniteSet(L \cap Topups)
      /\ r \notin L \cap Topups
  BY <1>1, FS_Subset DEF Ledger, TypeOK
<1>6. /\ balance[a] = InitialBalance[a] + Total(L)
      /\ Total(L) <= Total(L \cap Topups)
  BY <1>1, <1>5, TotalOfTopups DEF BalanceMatchesLedger, Ledger
<1>7. Total(TopupsWith(r)) = Delta(r) + Total(L \cap Topups)
  <2>1. TopupsWith(r) = (L \cap Topups) \cup {r}
    BY <1>4 DEF TopupsWith, Ledger, SameAccount, TypeOK
  <2> QED
    BY <1>4, <1>5, <2>1, TotalGrows
<1>8. Total(L) \in Int /\ Total(L \cap Topups) \in Int
  BY <1>5, TotalType DEF Requests
<1> HIDE DEF L
<1> QED
  BY <1>2, <1>3, <1>4, <1>6, <1>7, <1>8

\* An explanation stays one: faults do not come back, and more topups in the
\* ledger only go further beyond the limit.
LEMMA ErrorsStep ==
    ASSUME TypeOK, TypeOK', Safety, IsFiniteSet(committed), BalanceMatchesLedger,
           ErrorsExplained, [Next]_vars
    PROVE  ErrorsExplained'
<1>1. SUFFICES ASSUME NEW r \in Requests, reply'[r] = "500", faultsLeft' = MaxFaults
               PROVE  \/ /\ r \in Topups
                         /\ InitialBalance[AccountOf[r]] + Total(TopupsWith(r)') > MaxBalance
                      \/ /\ Keyed(r)
                         /\ \E s \in Sends : /\ Keyed(s) /\ SameAccount(r, s)
                                             /\ KeyOf[s] # KeyOf[r]
  BY DEF ErrorsExplained, Total, TopupsWith, Keyed, SameAccount
<1>2. faultsLeft = MaxFaults
  BY <1>1, NumberAssumption
     DEF Next, TypeOK, vars, Arrive, RequestStep, Crash, ExpireCache, AllDone, LookupCache,
         LookupDB, ClaimKey, ReadRow, ShareAccount, LockAccount, WriteRows, SetCache,
         AbortVictim, Fault
<1>3. UNCHANGED committed \/ \E s \in Requests : committed' = committed \cup {s}
  BY OthersKeep DEF Next, ExpireCache, AllDone, vars, store, Commit
<1>4. /\ InitialBalance[AccountOf[r]] + Total(TopupsWith(r)) > MaxBalance
         => InitialBalance[AccountOf[r]] + Total(TopupsWith(r)') > MaxBalance
  <2>1. /\ TopupsWith(r) \in SUBSET Topups /\ IsFiniteSet(TopupsWith(r))
        /\ TopupsWith(r)' \in SUBSET Topups /\ IsFiniteSet(TopupsWith(r)')
    <3>1. IsFiniteSet(committed \cup {r}) /\ IsFiniteSet(committed' \cup {r})
      <4>1. IsFiniteSet(committed \cup {r})
        BY FS_AddElement
      <4>2. \A s \in Requests : IsFiniteSet(committed \cup {s})
        BY FS_AddElement
      <4>3. IsFiniteSet(committed')
        BY <1>3, <4>2
      <4> QED
        BY <4>1, <4>3, FS_AddElement
    <3>2. /\ TopupsWith(r) \subseteq committed \cup {r}
          /\ TopupsWith(r)' \subseteq committed' \cup {r}
      BY DEF TopupsWith
    <3> QED
      BY <3>1, <3>2, FS_Subset DEF TopupsWith
  <2>2. TopupsWith(r)' = TopupsWith(r) \/ \E t \in Topups : TopupsWith(r)' = TopupsWith(r) \cup {t}
    BY <1>3 DEF TopupsWith, SameAccount
  <2>3. Total(TopupsWith(r)') >= Total(TopupsWith(r))
    <3>1. Total(TopupsWith(r)) \in Int
      BY <2>1, TotalType DEF Requests
    <3> QED
      BY <2>1, <2>2, <3>1, TotalGrows
  <2>4. /\ Total(TopupsWith(r)) \in Int /\ Total(TopupsWith(r)') \in Int
        /\ InitialBalance[AccountOf[r]] \in Int /\ MaxBalance \in Int
    BY <2>1, TotalType, NumberAssumption, RequestAssumption DEF Requests
  <2> QED
    BY <2>3, <2>4
<1>5. CASE reply[r] = "500"
  BY <1>2, <1>4, <1>5 DEF ErrorsExplained
<1>6. CASE reply[r] # "500"
  <2>1. Arrive(r) \/ RequestStep(r) \/ Crash(r)
    BY <1>1, <1>6, OthersKeep DEF Next, ExpireCache, AllDone, vars
  <2>2. CASE Deadlocked(r)
    BY <2>2, DeadlockShape
  <2>3. CASE pc[r] = "write" /\ ~Storable(r)
    BY <1>4, <2>3, RefusalIsOverflow
  <2> QED
    BY <1>1, <2>1, <2>2, <2>3, ErrorOrigin
<1> QED
  BY <1>5, <1>6

\* Without a failure only overflow and deadlock are answered 500.
THEOREM ErrorsExplainedHolds == Spec => []ErrorsExplained
<1>1. Init => ErrorsExplained
  BY DEF Init, ErrorsExplained
<1>2. /\ TypeOK /\ TypeOK' /\ Safety /\ [Next]_vars
      /\ IsFiniteSet(committed) /\ BalanceMatchesLedger /\ ErrorsExplained
      => ErrorsExplained'
  BY ErrorsStep
<1> QED
  BY <1>1, <1>2, TypeCorrect, SafetyHolds, LedgerHolds, PTL DEF Spec

-----------------------------------------------------------------------------
\* No request goes back to a statement it has been through: there is no retry.
Rank == [new |-> 0, cache |-> 1, db |-> 2, claim |-> 3, readRow |-> 4, share |-> 4,
         lock |-> 5, write |-> 6, setCache |-> 7, done |-> 8]
NoRequestGoesBack ==
    [][\A r \in Requests : pc'[r] # pc[r] => Rank[pc'[r]] > Rank[pc[r]]]_vars

\* A request only moves forward, so it takes at most eight steps, each of them its
\* own: what the end of every request rests on besides the end of lock waits.
THEOREM NoRequestGoesBackHolds == Spec => NoRequestGoesBack
<1>1. TypeOK /\ [Next]_vars => [\A r \in Requests : pc'[r] # pc[r] => Rank[pc'[r]] > Rank[pc[r]]]_vars
  <2> SUFFICES ASSUME TypeOK, Next, NEW s \in Requests, pc'[s] # pc[s]
               PROVE  Rank[pc'[s]] > Rank[pc[s]]
    OBVIOUS
  <2>1. PICK r \in Requests : Arrive(r) \/ RequestStep(r) \/ Crash(r)
    BY DEF Next, ExpireCache, AllDone, vars
  <2>2. s = r
    BY <2>1, OthersKeep
  <2> USE DEF TypeOK, Goto, Answer, Rank
  <2>3. CASE Arrive(r) \/ Crash(r)
    BY <2>2, <2>3 DEF Arrive, Crash
  <2>4. CASE LookupCache(r) \/ LookupDB(r) \/ ReadRow(r) \/ SetCache(r)
    BY <2>2, <2>4 DEF LookupCache, LookupDB, ReadRow, SetCache
  <2>5. CASE ClaimKey(r) \/ ShareAccount(r) \/ LockAccount(r) \/ WriteRows(r)
    BY <2>2, <2>5 DEF ClaimKey, ShareAccount, LockAccount, WriteRows
  <2>6. CASE AbortVictim(r)
    <3>1. pc[r] \in {"claim", "share", "lock"}
      BY <2>6 DEF AbortVictim, Deadlocked, Blockers
    <3> QED
      BY <2>2, <2>6, <3>1 DEF AbortVictim
  <2> QED
    BY <2>1, <2>3, <2>4, <2>5, <2>6 DEF RequestStep
<1> QED
  BY <1>1, TypeCorrect, PTL DEF Spec, NoRequestGoesBack

-----------------------------------------------------------------------------
\* Where an answer comes from.
LEMMA AnswerOrigin ==
    ASSUME TypeOK, Safety, NEW r \in Requests, Arrive(r) \/ RequestStep(r) \/ Crash(r),
           pc'[r] = "done"
    PROVE  /\ pc[r] # "done"
           /\ reply'[r] = "202" => r \in Sends
           /\ reply'[r] = "200" => r \in Topups \cap committed'
           /\ reply'[r] = "402" => /\ r \in Sends \ committed'
                                  /\ balance[AccountOf[r]] < Cost
<1> USE DEF TypeOK, Goto, Answer, Replay, Parses, store, Safety, Requests
<1>1. pc[r] = "setCache" => Keyed(r) /\ reply[r] = "202"
  BY DEF KeyedPoints, AnswersJustified
<1>2. pc[r] \notin {"setCache", "done"} => r \notin committed /\ reply[r] = "none"
  BY DEF AnswersJustified
<1>3. CASE Arrive(r) \/ Crash(r)
  BY <1>3 DEF Arrive, Crash
<1>4. CASE LookupCache(r) \/ LookupDB(r) \/ ReadRow(r)
  BY <1>4 DEF LookupCache, LookupDB, ReadRow, KeyedPoints, Keyed
<1>5. CASE ClaimKey(r) \/ ShareAccount(r)
  BY <1>5 DEF ClaimKey, ShareAccount
<1>6. CASE LockAccount(r)
  <2>1. balance[AccountOf[r]] \in Int
    BY RequestAssumption
  <2> QED
    BY <1>2, <1>6, <2>1 DEF LockAccount, Affordable, Cost
<1>7. CASE WriteRows(r)
  BY <1>7 DEF WriteRows, Commit, SaveBalance
<1>8. CASE SetCache(r)
  BY <1>1, <1>8 DEF SetCache, Keyed
<1>9. CASE AbortVictim(r)
  BY <1>9 DEF AbortVictim, Deadlocked, Blockers
<1> QED
  BY <1>3, <1>4, <1>5, <1>6, <1>7, <1>8, <1>9 DEF RequestStep

\* One request at a time takes effect, at its commit, or is answered, when it is
\* done; every other step is invisible.
LEMMA StepImplements ==
    ASSUME TypeOK, TypeOK', Safety, Safety', NEW r \in Requests,
           Arrive(r) \/ RequestStep(r) \/ Crash(r)
    PROVE  \/ Atomic!Next
           \/ UNCHANGED <<Atomic!state, Answered(reply, "none"), Answered(message, None)>>
<1> DEFINE R == Answered(reply, "none")
           M == Answered(message, None)
<1>1. /\ R \in [Requests -> {"none", "200", "202", "402", "409", "500"}]
      /\ M \in [Requests -> Sends \cup {None}]
      /\ \A s \in Requests \ {r} : R'[s] = R[s] /\ M'[s] = M[s]
      /\ R' = [R EXCEPT ![r] = R'[r]]
      /\ M' = [M EXCEPT ![r] = M'[r]]
  <2>1. /\ R \in [Requests -> {"none", "200", "202", "402", "409", "500"}]
        /\ M \in [Requests -> Sends \cup {None}]
    BY DEF Answered, TypeOK
  <2>2. \A s \in Requests \ {r} : R'[s] = R[s] /\ M'[s] = M[s]
    BY OthersKeep DEF Answered
  <2>3. /\ R' = [s \in Requests |-> R'[s]] /\ R = [s \in Requests |-> R[s]]
        /\ M' = [s \in Requests |-> M'[s]] /\ M = [s \in Requests |-> M[s]]
    BY DEF Answered
  <2> QED
    BY <2>1, <2>2, <2>3
<1>2. pc[r] # "done"
  BY DEF Arrive, RequestStep, Crash, LookupCache, LookupDB, ClaimKey, ReadRow, ShareAccount,
         LockAccount, WriteRows, SetCache, AbortVictim, Deadlocked, Blockers
<1>3. R[r] = "none" /\ M[r] = None
  BY <1>2 DEF Answered
<1>4. UNCHANGED store \/ Atomic!TakeEffect(r)
  <2>1. ASSUME pc[r] = "write", NewBalance(r) >= 0, Commit(r) PROVE Atomic!TakeEffect(r)
    <3>1. r \notin committed
      BY <2>1 DEF Safety, AnswersJustified
    <3>2. /\ balance[AccountOf[r]] = seen[r]
          /\ Keyed(r) => idem[SlotOf(r)] = None
      BY <2>1 DEF Safety, LocksExclude, HoldsUpdate, HoldsKey
    <3>3. /\ NewBalance(r) = balance[AccountOf[r]] + Delta(r)
          /\ NewBalance(r) \in 0 .. MaxBalance
      BY <2>1, <3>2, NewBalanceRange
    <3>4. Atomic!Delta(r) = Delta(r)
      BY DEF Atomic!Delta, Delta
    <3>5. Atomic!Keyed(r) = Keyed(r) /\ Atomic!SlotOf(r) = SlotOf(r)
      BY DEF Atomic!Keyed, Keyed, Atomic!SlotOf, SlotOf
    <3> QED
      BY <2>1, <3>1, <3>2, <3>3, <3>4, <3>5 DEF Atomic!TakeEffect, Commit, SaveBalance, Snapshot
  <2> QED
    BY <2>1, OthersKeep
<1>5. CASE pc'[r] # "done"
  <2>1. R'[r] = "none" /\ M'[r] = None
    BY <1>5 DEF Answered
  <2>2. R' = R /\ M' = M
    BY <1>1, <1>3, <2>1
  <2> QED
    BY <1>3, <1>4, <2>2 DEF Atomic!Next, Atomic!Step, Atomic!Requests, Requests,
                            Atomic!state, store
<1>6. CASE pc'[r] = "done" /\ reply'[r] = "none"
  <2>1. R'[r] = "none" /\ M'[r] = None
    BY <1>6 DEF Answered, Safety, AnswersJustified
  <2>2. R' = R /\ M' = M
    BY <1>1, <1>3, <2>1
  <2> QED
    BY <1>3, <1>4, <2>2 DEF Atomic!Next, Atomic!Step, Atomic!Requests, Requests,
                            Atomic!state, store
<1>7. CASE pc'[r] = "done" /\ reply'[r] # "none"
  <2>1. R'[r] = reply'[r] /\ M'[r] = message'[r]
    BY <1>7 DEF Answered
  <2>2. Atomic!Truthful(r, reply'[r], message'[r])
    <3>1. CASE reply'[r] = "202"
      <4>1. r \in Sends
        BY <1>7, <3>1, AnswerOrigin
      <4>2. Atomic!Keyed(r) = Keyed(r)' /\ Atomic!SlotOf(r) = SlotOf(r)'
        BY DEF Atomic!Keyed, Keyed, Atomic!SlotOf, SlotOf
      <4> QED
        BY <3>1, <4>1, <4>2 DEF Atomic!Truthful, Safety, AnswersAgree
    <3>2. CASE reply'[r] = "200"
      BY <1>7, <3>2, AnswerOrigin DEF Atomic!Truthful, Safety, AnswersJustified
    <3>3. CASE reply'[r] = "402"
      BY <1>7, <3>3, AnswerOrigin DEF Atomic!Truthful, Safety, AnswersJustified
    <3>4. CASE reply'[r] = "500"
      BY <3>4 DEF Atomic!Truthful, Safety, AnswersJustified
    <3> QED
      BY <1>7, <3>1, <3>2, <3>3, <3>4 DEF TypeOK, Safety, AnswersJustified
  <2>3. Atomic!GiveAnswer(r)
    <3>1. reply'[r] \in {"200", "202", "402", "500"} /\ message'[r] \in Sends \cup {None}
      BY <1>7 DEF TypeOK, Safety, AnswersJustified
    <3> QED
      BY <1>1, <2>1, <2>2, <3>1 DEF Atomic!GiveAnswer
  <2> QED
    BY <1>3, <1>4, <2>3 DEF Atomic!Next, Atomic!Step, Atomic!Requests, Requests,
                            Atomic!state, store
<1> QED
  BY <1>5, <1>6, <1>7

\* The transactions of the API implement the atomic requests it promises.
THEOREM Refinement == Spec => ImplementsAtomicSend
<1> DEFINE view == <<Atomic!state, Answered(reply, "none"), Answered(message, None)>>
<1>1. Init => Atomic!Init
  BY DEF Init, Atomic!Init, Answered, Atomic!Slots, Slots, Atomic!Requests, Requests
<1>2. /\ TypeOK /\ (TypeOK)' /\ Safety /\ Safety' /\ [Next]_vars
      => [Atomic!Next]_view
  <2> SUFFICES ASSUME TypeOK, TypeOK', Safety, Safety', [Next]_vars
               PROVE  Atomic!Next \/ UNCHANGED view
    OBVIOUS
  <2>1. ASSUME NEW r \in Requests, Arrive(r) \/ RequestStep(r) \/ Crash(r)
        PROVE  Atomic!Next \/ UNCHANGED view
    BY <2>1, StepImplements
  <2>2. CASE UNCHANGED <<store, pc, reply, message>>
    BY <2>2 DEF store, Atomic!state, Answered
  <2> QED
    BY <2>1, <2>2 DEF Next, ExpireCache, AllDone, vars, store
<1> QED
  BY <1>1, <1>2, TypeCorrect, SafetyHolds, PTL DEF Spec, ImplementsAtomicSend, Atomic!Spec
=============================================================================
