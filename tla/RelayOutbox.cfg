SPECIFICATION FairSpec
CONSTANTS
    r1 = r1  r2 = r2
    Relays = {r1, r2}
    NumEvents = 3
    BatchSize = 2
    MarkPublishedMaxAttempts = 2
    Slow = {3}
    Unstable = {r2}
    Faults = {"db", "publish", "crash", "connection"}
    MaxFaults = 3
    MaxCopies = 5
INVARIANTS ExclusiveClaim CopiesArePaidFor PublishedMeansEnqueued
PROPERTY EventuallyPublished
