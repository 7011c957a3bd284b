-------------------------- MODULE MessageLifecycle --------------------------
(***************************************************************************)
(* What arvan promises about a message from its send to its final status   *)
(* (domain/sms.go): it exists once it is paid for, the operator is asked   *)
(* while it has not answered, the status records what the operator said,   *)
(* once, and sms.dlq holds decided messages.  One thing is given up: a     *)
(* message whose answer may have been lost can be presumed taken, and then *)
(* `sent` is what the worker presumes.  No event, copy, claim, process or  *)
(* failure is visible here; Pipeline implements this specification.        *)
(***************************************************************************)
CONSTANT Messages

VARIABLES
    state,      \* "none" before the send is committed, then the status
    taken,      \* messages the operator has accepted
    refused,    \* messages the operator has refused
    presumed,   \* messages a worker has presumed to be taken
    deadLetters \* messages with a copy in sms.dlq

vars == <<state, taken, refused, presumed, deadLetters>>

Final == {"sent", "failed", "dead_lettered"}

Init ==
    /\ state = [m \in Messages |-> "none"]
    /\ taken = {} /\ refused = {} /\ presumed = {} /\ deadLetters = {}

\* The send is committed.
Accept(m) ==
    /\ state[m] = "none"
    /\ state' = [state EXCEPT ![m] = "accepted"]
    /\ UNCHANGED <<taken, refused, presumed, deadLetters>>

\* The operator handles a message whose answer is not recorded yet; what it has
\* taken it does not refuse later.  A presumption is no answer.
Handle(m) ==
    /\ \/ state[m] \in {"accepted", "dead_lettered"}
       \/ state[m] = "sent" /\ m \in presumed
    /\ \/ taken' = taken \cup {m} /\ UNCHANGED refused
       \/ m \notin taken /\ refused' = refused \cup {m} /\ UNCHANGED taken
    /\ UNCHANGED <<state, presumed, deadLetters>>

\* While the message is undecided, it is presumed to be taken.
Presume(m) ==
    /\ state[m] = "accepted"
    /\ presumed' = presumed \cup {m}
    /\ UNCHANGED <<state, taken, refused, deadLetters>>

\* The status is decided, once: `sent` and `failed` repeat the operator's answer,
\* or `sent` the presumption.
Decide(m, s) ==
    /\ state[m] = "accepted"
    /\ s = "sent" => m \in taken \cup presumed
    /\ s = "failed" => m \in refused
    /\ state' = [state EXCEPT ![m] = s]
    /\ UNCHANGED <<taken, refused, presumed, deadLetters>>

\* A copy of a decided message is set aside.
SetAside(m) ==
    /\ state[m] \in Final
    /\ deadLetters' = deadLetters \cup {m}
    /\ UNCHANGED <<state, taken, refused, presumed>>

Next ==
    \E m \in Messages :
        \/ Accept(m) \/ Handle(m) \/ Presume(m) \/ SetAside(m)
        \/ \E s \in Final : Decide(m, s)

Spec == Init /\ [][Next]_vars
=============================================================================
