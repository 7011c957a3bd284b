------------------------------- MODULE SmsSend -------------------------------
(***************************************************************************)
(* The accounting transactions of the API: POST /v1/sms/send with its      *)
(* optional Idempotency-Key, and POST /v1/account/topup (internal/service, *)
(* internal/repository, internal/middleware, internal/idempotency).        *)
(*                                                                         *)
(* One process per HTTP request.  A step is a statement that other         *)
(* requests can observe or wait for; the writes of a transaction become    *)
(* visible together, with its commit.  The row locks are Postgres's, read  *)
(* committed: INSERT of a key waits for an uncommitted row with that key,  *)
(* its foreign key takes FOR KEY SHARE on the account, and SELECT ... FOR  *)
(* UPDATE conflicts with both that and itself.  A message is named after   *)
(* the request that creates it.                                            *)
(***************************************************************************)
EXTENDS Integers, FiniteSets, FiniteSetsExt

CONSTANTS
    Accounts, Keys,  \* accounts, and the idempotency keys clients choose
    Sends, Topups,   \* requests, by endpoint
    AccountOf,       \* AccountOf[r]: the account of the request's token
    KeyOf,           \* KeyOf[r]: the Idempotency-Key of a send, or None
    AmountOf,        \* AmountOf[r]: the amount of a topup
    InitialBalance,  \* accounts.balance before the first request
    MaxBalance,      \* largest value of BIGINT and int64
    None,            \* no key, no row, no message
    Placeholder,     \* an idempotency row whose snapshot is still '{}'
    Faults,          \* the classes of failure that may happen
    MaxFaults        \* how many failures happen in all

Requests == Sends \cup Topups
Slots    == Accounts \X Keys
Cost     == 1

ASSUME RequestAssumption ==
    /\ Sends \cap Topups = {}
    /\ AccountOf \in [Requests -> Accounts]
    /\ KeyOf \in [Sends -> Keys \cup {None}]
    /\ AmountOf \in [Topups -> 1 .. MaxBalance]
ASSUME NumberAssumption ==
    /\ MaxBalance \in Nat \ {0}
    /\ MaxFaults \in Nat
    /\ InitialBalance \in [Accounts -> 0 .. MaxBalance]
ASSUME NoneAssumption ==
    /\ None \notin Keys \cup Requests
    /\ Placeholder \notin Requests \cup {None}

VARIABLES
    balance,    \* accounts.balance
    committed,  \* requests whose rows exist: the ledger entry and, for a send,
                \* the message and its outbox event
    idem,       \* idempotency_keys: the message in the snapshot of a slot's row
    cache,      \* the same in Redis
    pc,         \* control point of a request
    seen,       \* the balance a transaction read under its FOR UPDATE lock
    reply,      \* HTTP status of the answer
    message,    \* message_id of a 202
    faultsLeft  \* failures that may still happen

store == <<balance, committed, idem>>
vars  == <<store, cache, pc, seen, reply, message, faultsLeft>>

TypeOK ==
    /\ balance \in [Accounts -> 0 .. MaxBalance]
    /\ committed \subseteq Requests
    /\ idem \in [Slots -> Sends \cup {None, Placeholder}]
    /\ cache \in [Slots -> Sends \cup {None}]
    /\ pc \in [Requests -> {"new", "cache", "db", "claim", "readRow", "share", "lock",
                            "write", "setCache", "done"}]
    /\ seen \in [Requests -> 0 .. MaxBalance]
    /\ reply \in [Requests -> {"none", "200", "202", "402", "409", "500"}]
    /\ message \in [Requests -> Sends \cup {None}]
    /\ faultsLeft \in 0 .. MaxFaults

Init ==
    /\ balance = InitialBalance
    /\ committed = {}
    /\ idem = [s \in Slots |-> None]
    /\ cache = [s \in Slots |-> None]
    /\ pc = [r \in Requests |-> "new"]
    /\ seen = [r \in Requests |-> 0]
    /\ reply = [r \in Requests |-> "none"]
    /\ message = [r \in Requests |-> None]
    /\ faultsLeft = MaxFaults

-----------------------------------------------------------------------------
Keyed(r)  == r \in Sends /\ KeyOf[r] # None
SlotOf(r) == <<AccountOf[r], KeyOf[r]>>
SameAccount(r, s) == AccountOf[r] = AccountOf[s]
SameSlot(r, s)    == Keyed(r) /\ Keyed(s) /\ SlotOf(r) = SlotOf(s)

Fault(class) == /\ class \in Faults
                /\ faultsLeft > 0
                /\ faultsLeft' = faultsLeft - 1

Goto(r, point) == pc' = [pc EXCEPT ![r] = point]

\* The request is answered and its transaction, if any is left, rolled back.
Answer(r, code) ==
    /\ Goto(r, "done")
    /\ reply' = [reply EXCEPT ![r] = code]
    /\ UNCHANGED <<store, cache, message>>

\* What an open transaction holds, by how far it has come.
HoldsKey(r)    == Keyed(r) /\ pc[r] \in {"share", "lock", "write"}
HoldsShare(r)  == Keyed(r) /\ pc[r] \in {"lock", "write"}
HoldsUpdate(r) == pc[r] = "write"

\* Variant (defect): the account is read without FOR UPDATE.
BlockersUnlocked(r) ==
    {s \in Requests \ {r} : pc[r] = "claim" /\ SameSlot(r, s) /\ HoldsKey(s)}

\* The transactions the next statement of r has to wait for.
Blockers(r) ==
    {s \in Requests \ {r} :
        \/ pc[r] = "claim" /\ SameSlot(r, s) /\ HoldsKey(s)
        \/ pc[r] = "share" /\ SameAccount(r, s) /\ HoldsUpdate(s)
        \/ pc[r] = "lock" /\ SameAccount(r, s) /\ (HoldsShare(s) \/ HoldsUpdate(s))}

\* r waits in a circle of transactions, each of them for another.
Deadlocked(r) ==
    \E S \in SUBSET Requests :
        /\ r \in S
        /\ \A s \in S : Blockers(s) \cap S # {}
        /\ \A s \in S : \E t \in S : s \in Blockers(t)

-----------------------------------------------------------------------------
\* Variant (defect): the header is ignored.
ArriveUnkeyed(r) ==
    /\ pc[r] = "new"
    /\ Goto(r, "lock")
    /\ UNCHANGED <<store, cache, seen, reply, message, faultsLeft>>

\* The request arrives; one with a key goes through the lookup first.
Arrive(r) ==
    /\ pc[r] = "new"
    /\ Goto(r, IF Keyed(r) THEN "cache" ELSE "lock")
    /\ UNCHANGED <<store, cache, seen, reply, message, faultsLeft>>

\* ParseIdempotencyResponse: a snapshot names a message unless it is still '{}'.
Parses(row) == row # Placeholder

\* An idempotency row is found: 202 with its message, or 409 when its snapshot
\* does not parse.
Replay(r, row) ==
    /\ reply' = [reply EXCEPT ![r] = IF Parses(row) THEN "202" ELSE "409"]
    /\ message' = [message EXCEPT ![r] = IF Parses(row) THEN row ELSE None]

\* CompositeLookup asks Redis; a miss and an error both fall through.
LookupCache(r) ==
    /\ pc[r] = "cache"
    /\ \/ /\ cache[SlotOf(r)] # None
          /\ Replay(r, cache[SlotOf(r)])
          /\ Goto(r, "done")
          /\ UNCHANGED faultsLeft
       \/ /\ IF cache[SlotOf(r)] # None THEN Fault("redis") ELSE UNCHANGED faultsLeft
          /\ Goto(r, "db")
          /\ UNCHANGED <<reply, message>>
    /\ UNCHANGED <<store, cache, seen>>

\* ... then the primary; only committed rows are visible.
LookupDB(r) ==
    /\ pc[r] = "db"
    /\ \/ /\ idem[SlotOf(r)] # None
          /\ Replay(r, idem[SlotOf(r)])
          /\ Goto(r, "done")
          /\ UNCHANGED <<store, cache, faultsLeft>>
       \/ /\ idem[SlotOf(r)] = None
          /\ Goto(r, "claim")
          /\ UNCHANGED <<store, cache, reply, message, faultsLeft>>
       \/ Fault("db") /\ Answer(r, "500")
    /\ UNCHANGED seen

\* Variant (defect): after a unique violation the INSERT is tried again.
ClaimKeyAgain(r) ==
    /\ pc[r] = "claim"
    /\ Blockers(r) = {}
    /\ Goto(r, IF idem[SlotOf(r)] = None THEN "share" ELSE "claim")
    /\ UNCHANGED <<store, cache, seen, reply, message, faultsLeft>>

\* ClaimOrGet: the INSERT, once no other transaction has the key uncommitted.
\* A unique violation rolls back to the savepoint and reads the row.
ClaimKey(r) ==
    /\ pc[r] = "claim"
    /\ Blockers(r) = {}
    /\ \/ /\ Goto(r, IF idem[SlotOf(r)] = None THEN "share" ELSE "readRow")
          /\ UNCHANGED <<store, cache, reply, message, faultsLeft>>
       \/ Fault("db") /\ Answer(r, "500")
    /\ UNCHANGED seen

\* The row that was in the way; its message is cached again before the answer.
ReadRow(r) ==
    /\ pc[r] = "readRow"
    /\ \/ /\ Replay(r, idem[SlotOf(r)])
          /\ Goto(r, IF Parses(idem[SlotOf(r)]) THEN "setCache" ELSE "done")
          /\ UNCHANGED <<store, cache, faultsLeft>>
       \/ Fault("db") /\ Answer(r, "500")
    /\ UNCHANGED seen

\* The foreign key of the inserted row locks the account FOR KEY SHARE.
ShareAccount(r) ==
    /\ pc[r] = "share"
    /\ Blockers(r) = {}
    /\ \/ /\ Goto(r, "lock")
          /\ UNCHANGED <<store, cache, reply, message, faultsLeft>>
       \/ Fault("db") /\ Answer(r, "500")
    /\ UNCHANGED seen

\* Variant (defect): the balance is not compared with the cost.
AffordableAlways(r) == TRUE

Affordable(r) == r \in Sends => balance[AccountOf[r]] >= Cost

\* LockAccountForUpdate or the first half of LockAndAddBalance; a send the
\* balance does not cover ends here.
LockAccount(r) ==
    /\ pc[r] = "lock"
    /\ Blockers(r) = {}
    /\ \/ /\ Affordable(r)
          /\ Goto(r, "write")
          /\ seen' = [seen EXCEPT ![r] = balance[AccountOf[r]]]
          /\ UNCHANGED <<store, cache, reply, message, faultsLeft>>
       \/ ~Affordable(r) /\ Answer(r, "402") /\ UNCHANGED <<seen, faultsLeft>>
       \/ Fault("db") /\ Answer(r, "500") /\ UNCHANGED seen

\* What the ledger entry of r adds to the balance.
Delta(r) == IF r \in Sends THEN -Cost ELSE AmountOf[r]

\* What the ledger entries of a set of requests add up to.
Total(S) == MapThenSumSet(Delta, S)

\* model.Balance += amount on int64: a sum beyond the largest value wraps to a
\* negative one.
NewBalance(r) ==
    IF seen[r] + Delta(r) > MaxBalance
       THEN seen[r] + Delta(r) - 2 * (MaxBalance + 1) ELSE seen[r] + Delta(r)

\* Variant (defect): the table has no CHECK.
StorableAlways(r) == TRUE

\* CHECK (balance >= 0)
Storable(r) == NewBalance(r) >= 0

\* Variant (defect): the snapshot is not written in this transaction.
SnapshotMissing(r) == Placeholder

\* UpdateSnapshot: the row points to the message of r.
Snapshot(r) == r

\* DeductLockedBalance and LockAndAddBalance save the whole row.
SaveBalance(r) == balance' = [balance EXCEPT ![AccountOf[r]] = NewBalance(r)]

\* The commit makes the new balance, the ledger entry, the message, the outbox
\* event and the idempotency row visible.
Commit(r) ==
    /\ SaveBalance(r)
    /\ committed' = committed \cup {r}
    /\ idem' = IF Keyed(r) THEN [idem EXCEPT ![SlotOf(r)] = Snapshot(r)] ELSE idem

\* The remaining statements and the commit.  Any of them may fail, the answer
\* to the commit may be lost, and the CHECK may refuse the balance.
WriteRows(r) ==
    /\ pc[r] = "write"
    /\ seen' = [seen EXCEPT ![r] = 0]
    /\ \/ /\ NewBalance(r) >= 0
          /\ Commit(r)
          /\ reply' = [reply EXCEPT ![r] = IF r \in Sends THEN "202" ELSE "200"]
          /\ message' = [message EXCEPT ![r] = IF r \in Sends THEN r ELSE None]
          /\ Goto(r, IF Keyed(r) THEN "setCache" ELSE "done")
          /\ UNCHANGED <<cache, faultsLeft>>
       \/ /\ Storable(r)
          /\ Commit(r)
          /\ Fault("db")
          /\ Goto(r, "done")
          /\ reply' = [reply EXCEPT ![r] = "500"]
          /\ UNCHANGED <<cache, message>>
       \/ /\ IF Storable(r) THEN Fault("db") ELSE UNCHANGED faultsLeft
          /\ Answer(r, "500")

\* Cached after the commit; an error is ignored.
SetCache(r) ==
    /\ pc[r] = "setCache"
    /\ \/ /\ cache' = [cache EXCEPT ![SlotOf(r)] = message[r]]
          /\ UNCHANGED faultsLeft
       \/ Fault("redis") /\ UNCHANGED cache
    /\ Goto(r, "done")
    /\ UNCHANGED <<store, seen, reply, message>>

\* Postgres aborts a transaction it finds in a deadlock.
AbortVictim(r) ==
    /\ Deadlocked(r)
    /\ Answer(r, "500")
    /\ UNCHANGED <<seen, faultsLeft>>

\* The API process dies; Postgres rolls the transaction back.
Crash(r) ==
    /\ pc[r] \notin {"new", "done"}
    /\ Fault("crash")
    /\ Goto(r, "done")
    /\ seen' = [seen EXCEPT ![r] = 0]
    /\ reply' = [reply EXCEPT ![r] = "none"]
    /\ message' = [message EXCEPT ![r] = None]
    /\ UNCHANGED <<store, cache>>

\* The TTL of a cached answer passes, or Redis evicts or loses it.
ExpireCache(slot) ==
    /\ cache[slot] # None
    /\ cache' = [cache EXCEPT ![slot] = None]
    /\ UNCHANGED <<store, pc, seen, reply, message, faultsLeft>>

RequestStep(r) ==
    \/ LookupCache(r)
    \/ LookupDB(r)
    \/ ClaimKey(r)
    \/ ReadRow(r)
    \/ ShareAccount(r)
    \/ LockAccount(r)
    \/ WriteRows(r)
    \/ SetCache(r)
    \/ AbortVictim(r)

AllDone == (\A r \in Requests : pc[r] = "done") /\ UNCHANGED vars

Next ==
    \/ \E r \in Requests : Arrive(r) \/ RequestStep(r) \/ Crash(r)
    \/ \E slot \in Slots : ExpireCache(slot)
    \/ AllDone

Spec == Init /\ [][Next]_vars

\* As long as some request can go on, some request does: the server runs what it
\* has taken in, and Postgres grants a lock once nothing is in its way.
FairSpec == Spec /\ WF_vars(\E r \in Requests : RequestStep(r))
-----------------------------------------------------------------------------
(* Properties.                                                             *)

\* Two sends with the same key of an account are never both accepted and paid,
\* whatever lookups, inserts, failures and retries interleave.
SingleDebitPerKey ==
    \A r, s \in committed : SameSlot(r, s) => r = s

\* Every 202 names a message that exists, its own or the key's, so all answers
\* for one key agree; what Redis holds never differs from the table.
AnswersAgree ==
    /\ \A r \in Requests : reply[r] = "202" =>
          /\ message[r] \in committed
          /\ message[r] = r \/ (Keyed(r) /\ idem[SlotOf(r)] = message[r])
    /\ \A s \in Slots : cache[s] # None => cache[s] = idem[s]

\* A duplicate of an accepted send is not refused with a 402 even if the account
\* has run dry since: the key is settled before the balance is looked at.
DuplicateNotRefused ==
    [][\A r \in Requests :
         reply[r] # "402" /\ reply'[r] = "402"
            => \A s \in committed : ~SameSlot(r, s)]_vars

\* The balance is the initial one plus the ledger: no update is lost between
\* the locking read and the absolute value that Save writes.
BalanceMatchesLedger ==
    \A a \in Accounts :
        balance[a] = InitialBalance[a] + Total({r \in committed : AccountOf[r] = a})

\* The topups of the account of r that are in the ledger, and r.
TopupsWith(r) == {t \in Topups \cap (committed \cup {r}) : SameAccount(r, t)}

\* Without a failure a 500 has one of two causes: a topup that goes beyond BIGINT
\* with those committed so far, or a deadlock, and a deadlock takes two keys of
\* one account.  A send never fails at CHECK (balance >= 0).
ErrorsExplained ==
    \A r \in Requests :
        reply[r] = "500" /\ faultsLeft = MaxFaults =>
            \/ /\ r \in Topups
               /\ InitialBalance[AccountOf[r]] + Total(TopupsWith(r)) > MaxBalance
            \/ /\ Keyed(r)
               /\ \E s \in Sends : /\ Keyed(s) /\ SameAccount(r, s)
                                   /\ KeyOf[s] # KeyOf[r]

\* Every request that has arrived is answered (or its process has died): lock
\* waits and deadlocks end, and no request keeps trying.
EveryRequestEnds ==
    <>[](\A r \in Requests : pc[r] \in {"new", "done"})

\* A send that finds its key in flight is answered 409.
InFlightGets409 ==
    \A r \in Sends :
        (pc[r] = "claim" /\ Blockers(r) # {}) ~> reply[r] = "409"

\* What the invariants rest on.  Control: only a send with a key gets to the
\* statements about keys.
KeyedPoints ==
    \A r \in Requests :
        pc[r] \in {"cache", "db", "claim", "readRow", "share", "setCache"} => Keyed(r)

\* Locks: one transaction at a time holds a key or updates an account, and what
\* it has read of the account is still so, and enough.
LocksExclude ==
    /\ \A r, s \in Requests :
          /\ SameSlot(r, s) /\ HoldsKey(r) /\ HoldsKey(s) => r = s
          /\ SameAccount(r, s) /\ HoldsUpdate(r) /\ HoldsUpdate(s) => r = s
    /\ \A r \in Requests : HoldsUpdate(r) => seen[r] = balance[AccountOf[r]] /\ Affordable(r)
    /\ \A r \in Requests : HoldsKey(r) => idem[SlotOf(r)] = None

\* Keys: the row of a slot and the send that committed it determine each other,
\* and a row is never taken away.
KeysDetermine ==
    /\ \A s \in Slots : idem[s] # None =>
          idem[s] \in committed /\ Keyed(idem[s]) /\ SlotOf(idem[s]) = s
    /\ \A r \in committed : Keyed(r) => idem[SlotOf(r)] = r
    /\ \A r \in Requests : pc[r] = "readRow" => idem[SlotOf(r)] # None

\* Answers: nothing is committed, known or cached before its time.
AnswersJustified ==
    /\ \A r \in Requests : pc[r] \notin {"setCache", "done"} =>
          r \notin committed /\ reply[r] = "none" /\ message[r] = None
    /\ \A r \in Requests : pc[r] = "setCache" => reply[r] = "202"
    /\ \A r \in Requests : reply[r] \in {"none", "200", "402", "500"} => message[r] = None
    /\ \A r \in Requests : reply[r] # "409"

Safety == KeyedPoints /\ LocksExclude /\ KeysDetermine /\ AnswersJustified /\ AnswersAgree

\* The transactions implement the atomic requests of AtomicSend: nothing of a
\* request shows before its commit, and it is answered when it is done.
Answered(f, default) == [r \in Requests |-> IF pc[r] = "done" THEN f[r] ELSE default]

Atomic == INSTANCE AtomicSend WITH reply <- Answered(reply, "none"),
                                   message <- Answered(message, None)

ImplementsAtomicSend == Atomic!Spec
=============================================================================
