SPECIFICATION FairSpec
CONSTANTS
    a1 = a1  a2 = a2  k1 = k1  k2 = k2  s1 = s1  s2 = s2  s3 = s3  s4 = s4  t1 = t1  t2 = t2
    none = none  placeholder = placeholder
    Accounts = {a1, a2}
    Keys = {k1, k2}
    Sends = {s1, s2, s3, s4}
    Topups = {t1}
    AccountOf <- TwoAccounts
    KeyOf <- TwoKeys
    AmountOf <- Topup2
    InitialBalance <- BalanceOfFirst
    MaxBalance = 3
    None = none
    Placeholder = placeholder
    Faults = {"db", "redis", "crash"}
    MaxFaults = 1
INVARIANTS TypeOK BalanceMatchesLedger SingleDebitPerKey AnswersAgree ErrorsExplained
PROPERTIES DuplicateNotRefused ImplementsAtomicSend EveryRequestEnds
