SPECIFICATION Spec
CONSTANTS
    m1 = m1  c1 = c1  c2 = c2
    w1 = w1  w2 = w2  h1 = h1  h2 = h2  h3 = h3  none = none
    Messages = {m1}
    Copies = {c1}
    Carries <- OneMessage
    Workers = {w1, w2}
    Handlers = {h1, h2}
    ProcessOf <- TwoProcesses
    NoJob = none
    PoolSize = 1
    MaxDeliveryAttempts <- Two
    Unstable = {w1, w2}
    Faults = {"operator"}
    MaxFaults = 2
PROPERTY AttemptsBounded
