SPECIFICATION FairSpec
CONSTANTS
    a1 = a1  a2 = a2  k1 = k1  k2 = k2  s1 = s1  s2 = s2  s3 = s3  s4 = s4  t1 = t1  t2 = t2
    none = none  placeholder = placeholder
    Accounts = {a1}
    Keys = {k1}
    Sends = {s1, s2}
    Topups = {}
    AccountOf <- OneAccount
    KeyOf <- SameKey
    AmountOf <- Topup2
    InitialBalance <- Balance2
    MaxBalance = 3
    None = none
    Placeholder = placeholder
    Faults = {}
    MaxFaults = 0
PROPERTY InFlightGets409
