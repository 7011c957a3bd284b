SPECIFICATION Spec
CONSTANTS
    r1 = r1  r2 = r2  r3 = r3  r4 = r4  r5 = r5
    Requests = {r1,r2,r3}
    Limit = 1
    Window = 3
    Second = 2
    MaxClock = 5
    MaxFaults = 1
INVARIANTS WithinLimit RefusedMeansBusy RetryAfterInRange
SYMMETRY RequestSymmetry
