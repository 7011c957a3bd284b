SPECIFICATION Spec
CONSTANTS
    r1 = r1  r2 = r2
    Relays = {r1}
    NumEvents = 1
    BatchSize = 2
    MarkPublishedMaxAttempts = 5
    Slow = {}
    Unstable = {}
    Faults = {"db"}
    MaxFaults = 5
    MaxCopies = 7
PROPERTY ConfirmedNotRepublished
