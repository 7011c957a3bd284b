---------------------------- MODULE RateLimiter ----------------------------
(***************************************************************************)
(* The sliding-window rate limiter of the API (internal/ratelimit,         *)
(* internal/middleware/ratelimit.go): one sorted set per account in Redis, *)
(* whose members and scores are the nanosecond times of requests.          *)
(*                                                                         *)
(* One process per request.  The four commands of the pipeline reach Redis *)
(* in order but are not a transaction: those of other requests, of any API *)
(* replica, come in between.  Accounts share no key, so one is enough.  A  *)
(* request may stall at any point, may share its time with another, and    *)
(* reads a clock that all replicas agree on.                               *)
(***************************************************************************)
EXTENDS Integers, FiniteSets

CONSTANTS
    Requests,  \* requests of the account
    Limit,     \* RATE_LIMIT_LIMIT
    Window,    \* RATE_LIMIT_WINDOW, in ticks of the clock
    Second,    \* ticks of a second
    MaxClock,  \* when the clock stops
    MaxFaults  \* how many failures happen in all

ASSUME LimiterAssumption ==
    /\ IsFiniteSet(Requests)
    /\ Limit \in Nat \ {0} /\ Window \in Nat \ {0} /\ Second \in Nat \ {0}
    /\ MaxClock \in Nat /\ MaxFaults \in Nat

VARIABLES
    clock,     \* time
    window,    \* members of the sorted set
    expiry,    \* when Redis drops the key
    pc,        \* next command of a request
    stamp,     \* time.Now() at its beginning
    reply,     \* what the limiter has decided
    retry,     \* the Retry-After of a 429, in seconds
    added,     \* when the entry of a request was last written (bookkeeping)
    dropped,   \* requests whose entry went with an expired key, their EXPIRE
               \* still to come (bookkeeping)
    faultsLeft \* failures that may still happen

redis == <<window, expiry>>
vars  == <<clock, redis, pc, stamp, reply, retry, added, dropped, faultsLeft>>

NoExpiry == MaxClock + Window + Second + 1
NotAdded == -Window

TypeOK ==
    /\ clock \in 0 .. MaxClock
    /\ window \subseteq 0 .. MaxClock
    /\ expiry \in Nat
    /\ pc \in [Requests -> {"new", "trim", "add", "expire", "count", "undo", "oldest", "done"}]
    /\ stamp \in [Requests -> 0 .. MaxClock]
    /\ reply \in [Requests -> {"none", "pass", "429", "500"}]
    /\ retry \in [Requests -> Nat]
    /\ added \in [Requests -> {NotAdded} \cup 0 .. MaxClock]
    /\ dropped \subseteq Requests
    /\ faultsLeft \in 0 .. MaxFaults

Init ==
    /\ clock = 0
    /\ window = {}
    /\ expiry = NoExpiry
    /\ pc = [r \in Requests |-> "new"]
    /\ stamp = [r \in Requests |-> 0]
    /\ reply = [r \in Requests |-> "none"]
    /\ retry = [r \in Requests |-> 0]
    /\ added = [r \in Requests |-> NotAdded]
    /\ dropped = {}
    /\ faultsLeft = MaxFaults

-----------------------------------------------------------------------------
Step(r, from, to) == pc[r] = from /\ pc' = [pc EXCEPT ![r] = to]

Fault == faultsLeft > 0 /\ faultsLeft' = faultsLeft - 1

\* The sorted set gets new contents; a set without members is no key at all and
\* has no time to live.
Store(members) ==
    /\ window' = members
    /\ expiry' = IF members = {} THEN NoExpiry ELSE expiry

\* Allow reads the clock.
Arrive(r) ==
    /\ Step(r, "new", "trim")
    /\ stamp' = [stamp EXCEPT ![r] = clock]
    /\ UNCHANGED <<clock, redis, reply, retry, added, dropped, faultsLeft>>

\* Variant (defect): entries that have left the window are kept.
StaleNone(r) == {}

\* The scores up to now - Window.
Stale(r) == {t \in window : t <= stamp[r] - Window}

\* ZREMRANGEBYSCORE
Trim(r) ==
    /\ Step(r, "trim", "add")
    /\ Store(window \ Stale(r))
    /\ UNCHANGED <<clock, stamp, reply, retry, added, dropped, faultsLeft>>

\* ZADD: a member that is there already stays one member.
Add(r) ==
    /\ Step(r, "add", "expire")
    /\ Store(window \cup {stamp[r]})
    /\ added' = [added EXCEPT ![r] = clock]
    /\ UNCHANGED <<clock, stamp, reply, retry, dropped, faultsLeft>>

\* Variant (defect): the key lives for half a window.
LifetimeShort == Window \div 2

\* cfg.Window + time.Second
Lifetime == Window + Second

\* EXPIRE, which does nothing to a key that is not there.
Expire(r) ==
    /\ Step(r, "expire", "count")
    /\ expiry' = IF window = {} THEN expiry ELSE clock + Lifetime
    /\ UNCHANGED <<clock, window, stamp, reply, retry, added, dropped, faultsLeft>>

\* count <= Limit: the count includes the request's own entry.
Within == Cardinality(window) <= Limit

\* ZCARD ends the pipeline: the request passes, or takes back its entry.  If the
\* client has given up on the pipeline nothing follows.
Count(r) ==
    /\ \/ reply[r] = "500" /\ Step(r, "count", "done") /\ UNCHANGED reply
       \/ /\ reply[r] = "none" /\ Within
          /\ Step(r, "count", "done")
          /\ reply' = [reply EXCEPT ![r] = "pass"]
       \/ reply[r] = "none" /\ ~Within /\ Step(r, "count", "undo") /\ UNCHANGED reply
    /\ UNCHANGED <<clock, redis, stamp, retry, added, dropped, faultsLeft>>

\* ZREM; its error, which a request cancelled by the client gets too, is ignored.
Undo(r) ==
    /\ Step(r, "undo", "oldest")
    /\ \/ Store(window \ {stamp[r]}) /\ UNCHANGED faultsLeft
       \/ Fault /\ UNCHANGED redis
    /\ UNCHANGED <<clock, stamp, reply, retry, added, dropped>>

\* Variant (defect): the age of the oldest entry for the time it has left.
WaitForAge(t) == IF clock - t < Second THEN Second ELSE clock - t + Window

\* Variant (defect): no lower bound.
WaitForAny(t) == t + Window - clock

\* time.Until(oldest + Window), at least a second.
WaitFor(t) == IF t + Window - clock < Second THEN Second ELSE t + Window - clock

\* The middleware rounds up to whole seconds.
Seconds(d) == (d + Second - 1) \div Second

\* ZRANGE 0 0; without an answer or an entry the client is to wait for a window.
Oldest(r) ==
    /\ Step(r, "oldest", "done")
    /\ \/ /\ UNCHANGED faultsLeft
          /\ \E t \in window :
                /\ \A u \in window : t <= u
                /\ retry' = [retry EXCEPT ![r] = Seconds(WaitFor(t))]
       \/ /\ IF window = {} THEN UNCHANGED faultsLeft ELSE Fault
          /\ retry' = [retry EXCEPT ![r] = Seconds(Window)]
    /\ reply' = [reply EXCEPT ![r] = "429"]
    /\ UNCHANGED <<clock, redis, stamp, added, dropped>>

InPipeline(r) == pc[r] \in {"trim", "add", "expire", "count"} /\ reply[r] = "none"

\* The pipeline fails and the request is answered 500; what Redis has not seen
\* yet it may still execute.
GiveUp(r) ==
    /\ InPipeline(r)
    /\ Fault
    /\ reply' = [reply EXCEPT ![r] = "500"]
    /\ \E point \in {pc[r], "done"} : pc' = [pc EXCEPT ![r] = point]
    /\ UNCHANGED <<clock, redis, stamp, retry, added, dropped>>

\* The connection broke and the Redis client sends the pipeline once more.
Resend(r) ==
    /\ InPipeline(r)
    /\ Fault
    /\ pc' = [pc EXCEPT ![r] = "trim"]
    /\ UNCHANGED <<clock, redis, stamp, reply, retry, added, dropped>>

\* Time passes; a key whose time has come is gone.
Tick ==
    /\ clock < MaxClock
    /\ clock' = clock + 1
    /\ IF clock' >= expiry
          THEN /\ window' = {} /\ expiry' = NoExpiry
               /\ dropped' = dropped \cup {r \in Requests : pc[r] = "expire"}
          ELSE UNCHANGED <<redis, dropped>>
    /\ UNCHANGED <<pc, stamp, reply, retry, added, faultsLeft>>

RequestStep(r) ==
    \/ Trim(r)
    \/ Add(r)
    \/ Expire(r)
    \/ Count(r)
    \/ Undo(r)
    \/ Oldest(r)

AllDone == (\A r \in Requests : pc[r] = "done") /\ UNCHANGED vars

Next ==
    \/ \E r \in Requests : Arrive(r) \/ RequestStep(r) \/ GiveUp(r) \/ Resend(r)
    \/ Tick
    \/ AllDone

Spec == Init /\ [][Next]_vars
-----------------------------------------------------------------------------
(* Properties.                                                             *)

\* Requests that arrived at the same instant share one entry in Redis.
Twin(r) ==
    \E q \in Requests \ {r} : /\ pc[r] # "new" /\ pc[q] # "new"
                              /\ stamp[q] = stamp[r]

Recent(r) == stamp[r] > clock - Window

\* Requests of the last window that passed and are counted: all that passed but
\* twins and those whose key expired between their ZADD and their EXPIRE.
Admitted ==
    {r \in Requests : reply[r] = "pass" /\ Recent(r) /\ ~Twin(r) /\ r \notin dropped}

\* At no moment have more than Limit requests of the last window passed, however
\* the pipelines of concurrent requests interleave, stall, fail or are repeated.
WithinLimit == Cardinality(Admitted) <= Limit

\* Attempts that wrote their entry after a window before r.
AttemptsSince(r) == {q \in Requests : added[q] > stamp[r] - Window}

\* A request is only refused when the account has made more than Limit attempts
\* in the window before it or since: a client below the limit is never refused,
\* although refused requests, failed ones and late ones are counted too.
RefusedMeansBusy ==
    \A r \in Requests :
        pc[r] \in {"undo", "oldest"} \/ reply[r] = "429"
            => Cardinality(AttemptsSince(r)) > Limit

\* Retry-After is at least a second and never more than a window (rounded up),
\* also when the oldest entry has left the window or been taken back meanwhile.
RetryAfterInRange ==
    \A r \in Requests :
        reply[r] = "429" => retry[r] >= 1 /\ (retry[r] = 1 \/ retry[r] <= Seconds(Window))

\* What they rest on.  Control: times lie in the past, decisions are final.
PointsOrdered ==
    \A r \in Requests :
        /\ stamp[r] <= clock
        /\ added[r] <= clock
        /\ pc[r] = "new" => reply[r] = "none" /\ added[r] = NotAdded
        /\ reply[r] \in {"pass", "429"} => pc[r] = "done"

\* The entry of a request that is counted stays until it has left the window,
\* and once its EXPIRE is executed the key does too.
EntriesKept ==
    \A r \in Requests :
        /\ reply[r] = "pass" \/ (reply[r] = "none" /\ pc[r] \in {"expire", "count"})
        /\ Recent(r) /\ ~Twin(r) /\ r \notin dropped
        => stamp[r] \in window /\ (pc[r] = "expire" \/ expiry > stamp[r] + Window)

\* Every entry is some attempt's, and what a request counts is recent.
EntriesJustified ==
    /\ \A t \in window : \E q \in Requests : stamp[q] = t /\ added[q] >= t
    /\ \A r \in Requests : pc[r] \in {"add", "expire", "count"} =>
          \A t \in window : \E q \in AttemptsSince(r) : stamp[q] = t

Safety == /\ PointsOrdered
          /\ EntriesKept
          /\ EntriesJustified
          /\ WithinLimit
          /\ RefusedMeansBusy
=============================================================================
