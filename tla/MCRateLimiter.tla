---------------------------- MODULE MCRateLimiter ----------------------------
\* Instances of RateLimiter for TLC.
EXTENDS RateLimiter, TLC

CONSTANTS r1, r2, r3, r4, r5

RequestSymmetry == Permutations(Requests)
=============================================================================
