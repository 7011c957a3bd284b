------------------------------ MODULE MCWorker ------------------------------
(***************************************************************************)
(* Instances of Worker: which copy carries which message and which process *)
(* runs which goroutine.                                                   *)
(***************************************************************************)
EXTENDS Worker, TLC

CONSTANTS m1, c1, c2, w1, w2, h1, h2, h3, none

\* Copies of one message: the relay has published it more than once.
OneMessage  == [c \in Copies |-> m1]

\* Two replicas of the worker with a goroutine each.
TwoProcesses == (h1 :> w1) @@ (h2 :> w2)

\* One worker with two goroutines and a second one with a third.
Mixed == (h1 :> w1) @@ (h2 :> w1) @@ (h3 :> w2)

\* Limits on the delivery attempts: the default, two, and a rollout in which one
\* replica still runs with two and the other already with one.
Default  == [w \in Workers |-> 5]
Two      == [w \in Workers |-> 2]
Rollout  == (w1 :> 2) @@ (w2 :> 1)
=============================================================================
