SPECIFICATION FairSpec
CONSTANTS
    m1 = m1  c1 = c1  c2 = c2
    w1 = w1  w2 = w2  h1 = h1  h2 = h2  h3 = h3  none = none
    Messages = {m1}
    Copies = {c1, c2}
    Carries <- OneMessage
    Workers = {w1, w2}
    Handlers = {h1, h2, h3}
    ProcessOf <- Mixed
    NoJob = none
    PoolSize = 1
    MaxDeliveryAttempts <- Rollout
    Unstable = {w2}
    Faults = {"db", "markFailed", "operator", "dlq", "crash", "stop", "connection"}
    MaxFaults = 2
INVARIANTS OperatorCallExclusive AckedMeansDecided FailedMeansRejected SentIsExplained
PROPERTIES DecisionIsFinal NoCallAfterAnswer EventuallyDecided
