----------------------------- MODULE MCDispatch -----------------------------
\* Instances of Dispatch for TLC: two queues, three deliveries.
EXTENDS Dispatch, TLC

CONSTANTS express, standard, e1, s1, s2

MCQueueOf == (e1 :> express @@ s1 :> standard @@ s2 :> standard)
MCSize    == (express :> 1 @@ standard :> 1)
=============================================================================
