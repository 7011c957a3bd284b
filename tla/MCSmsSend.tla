------------------------------ MODULE MCSmsSend ------------------------------
(***************************************************************************)
(* Instances of SmsSend: who asks what of which account, with which key.   *)
(***************************************************************************)
EXTENDS SmsSend, TLC

CONSTANTS a1, a2, k1, k2, s1, s2, s3, s4, t1, t2, none, placeholder

\* All sends of an account use one key: duplicates and retries.
SameKey    == [s \in Sends |-> k1]
\* A duplicate and a second key; s4 uses the first key again.
TwoKeys    == (s1 :> k1) @@ (s2 :> k1) @@ (s3 :> k2) @@ (s4 :> k1)

OneAccount  == [r \in Requests |-> a1]
\* s4 belongs to another account that has chosen the same key.
TwoAccounts == [r \in Requests |-> IF r = s4 THEN a2 ELSE a1]

\* The first account can pay for one message per key, the second for none.
BalanceOfFirst == (a1 :> 2) @@ (a2 :> 0)
Balance2   == [a \in Accounts |-> 2]
Topup2     == [t \in Topups |-> 2]
=============================================================================
