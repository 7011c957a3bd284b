SPECIFICATION FairSpec
CONSTANTS
    express = express  standard = standard
    e1 = e1  s1 = s1  s2 = s2
    Queues = {express, standard}
    Deliveries = {e1, s1, s2}
    QueueOf <- MCQueueOf
    Size <- MCSize
    Prefetch = 2
    Refusals = {s2}
    Threshold = 2
    MaxRequests = 1
    MaxFaults = 2
INVARIANTS PoolsExact TrialsBounded DrainedMeansDone
PROPERTIES EverySettled
CHECK_DEADLOCK FALSE
