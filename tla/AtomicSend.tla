----------------------------- MODULE AtomicSend -----------------------------
(***************************************************************************)
(* What the API promises its clients about money and idempotency keys: a   *)
(* request takes effect at once or not at all, a key is used by one send,  *)
(* and an answer tells the truth.  No statement, lock or cache is visible  *)
(* here; SmsSend implements this specification.                            *)
(***************************************************************************)
EXTENDS Integers

CONSTANTS Accounts, Keys, Sends, Topups, AccountOf, KeyOf, AmountOf,
          InitialBalance, MaxBalance, Cost, None

Requests == Sends \cup Topups
Slots    == Accounts \X Keys

VARIABLES
    balance,    \* what each account can spend
    committed,  \* the requests that have taken effect
    idem,       \* the send that has used a key of an account
    reply,      \* the answer given to a request
    message     \* the message named in a 202

state == <<balance, committed, idem>>

Init ==
    /\ balance = InitialBalance
    /\ committed = {}
    /\ idem = [s \in Slots |-> None]
    /\ reply = [r \in Requests |-> "none"]
    /\ message = [r \in Requests |-> None]

Keyed(r)  == r \in Sends /\ KeyOf[r] # None
SlotOf(r) == <<AccountOf[r], KeyOf[r]>>
Delta(r)  == IF r \in Sends THEN -Cost ELSE AmountOf[r]

\* The request takes effect: money moves by exactly its amount, within the
\* limits of a balance, and a key is used for the first time.
TakeEffect(r) ==
    /\ r \notin committed
    /\ balance[AccountOf[r]] + Delta(r) \in 0 .. MaxBalance
    /\ Keyed(r) => idem[SlotOf(r)] = None
    /\ balance' = [balance EXCEPT ![AccountOf[r]] = @ + Delta(r)]
    /\ committed' = committed \cup {r}
    /\ idem' = IF Keyed(r) THEN [idem EXCEPT ![SlotOf(r)] = r] ELSE idem

\* An answer is backed by what has happened: 200 and 202 by an effect (a 202
\* by its own or by that of the send that used the key), 402 by a balance that
\* does not cover the cost.  500 promises nothing and 409 is never given.
Truthful(r, code, m) ==
    \/ code = "200" /\ r \in Topups \cap committed' /\ m = None
    \/ /\ code = "202" /\ r \in Sends /\ m \in committed'
       /\ m = r \/ (Keyed(r) /\ idem'[SlotOf(r)] = m)
    \/ /\ code = "402" /\ r \in Sends \ committed' /\ m = None
       /\ balance[AccountOf[r]] < Cost
    \/ code = "500" /\ m = None

GiveAnswer(r) ==
    \E code \in {"200", "202", "402", "500"}, m \in Sends \cup {None} :
        /\ Truthful(r, code, m)
        /\ reply' = [reply EXCEPT ![r] = code]
        /\ message' = [message EXCEPT ![r] = m]

Step(r) ==
    /\ reply[r] = "none"
    /\ TakeEffect(r) \/ UNCHANGED state
    /\ GiveAnswer(r) \/ UNCHANGED <<reply, message>>

Next == \E r \in Requests : Step(r)

Spec == Init /\ [][Next]_<<state, reply, message>>
=============================================================================
