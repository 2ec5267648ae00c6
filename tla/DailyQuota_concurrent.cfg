\* Two workers on one account: how far can the counter run over?
SPECIFICATION QuotaSpec
CONSTANTS
    w1 = w1
    w2 = w2
    acct = acct
    Anonymous = Anonymous
    Callers <- TwoCallers
    Holders <- Account
    DailyLimit <- LimitTwo
    MaxDay = 2
INVARIANTS
    CounterBound
    MidnightBound
PROPERTY OverrunBound
