SPECIFICATION FairSpec
CONSTANTS
    c1 = c1  c2 = c2  c3 = c3
    express = express  standard = standard  dlq = dlq
    Nobody = Nobody
    Closer = Closer
    Calls = {c1, c2, c3}
    Queues = {express, standard, dlq}
    MaxFaults = 2
INVARIANTS NilMeansEnqueued ReaderNeverBlocks WaitersAreAnswered
PROPERTIES PublishReturns CloseReturns
CHECK_DEADLOCK FALSE
