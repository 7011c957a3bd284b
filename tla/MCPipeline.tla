----------------------------- MODULE MCPipeline -----------------------------
(***************************************************************************)
(* An instance of Pipeline: a send with a key, two relays, and two worker  *)
(* processes with a goroutine each.                                        *)
(***************************************************************************)
EXTENDS Pipeline, TLC

CONSTANTS a1, k1, s1, r1, r2, w1, w2, h1, h2, none, placeholder

SameAccount  == [s \in Sends |-> a1]
SameKey      == [s \in Sends |-> k1]
Balance2     == [a \in Accounts |-> 2]
Numbered     == [s \in Sends |-> 1]
\* One process takes over claims, the other dead-letters after one attempt.  The
\* attempt count is never above 1, so 2 stands for every limit above 1, also for
\* the default of 5.
Rollout      == (w1 :> 2) @@ (w2 :> 1)
TwoProcesses == (h1 :> w1) @@ (h2 :> w2)
=============================================================================
