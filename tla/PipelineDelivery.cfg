SPECIFICATION FairSpec
CONSTANTS
    a1 = a1  k1 = k1  s1 = s1  r1 = r1  r2 = r2
    w1 = w1  w2 = w2  h1 = h1  h2 = h2  none = none  placeholder = placeholder
    Accounts = {a1}
    Keys = {k1}
    Sends = {s1}
    AccountOf <- SameAccount
    KeyOf <- SameKey
    InitialBalance <- Balance2
    MaxBalance = 3
    None = none
    Placeholder = placeholder
    APIFaults = {"db", "crash"}
    MaxAPIFaults = 1
    EventOf <- Numbered
    Relays = {r1, r2}
    BatchSize = 2
    MarkPublishedMaxAttempts = 2
    Slow = {}
    UnstableRelays = {r2}
    RelayFaults = {"db", "publish", "crash", "connection"}
    MaxRelayFaults = 1
    MaxCopies = 2
    Workers = {w1, w2}
    Handlers = {h1, h2}
    ProcessOf <- TwoProcesses
    NoJob = none
    PoolSize = 1
    MaxDeliveryAttempts <- Rollout
    UnstableWorkers = {w2}
    WorkerFaults = {"db", "markFailed", "operator", "dlq", "crash", "connection"}
    MaxWorkerFaults = 1
INVARIANTS NothingIsLost OnlyPaidDelivered DLQAfterDecision FailureFreeSentIsAccepted
PROPERTIES ImplementsLifecycle AcceptedIsDecided
