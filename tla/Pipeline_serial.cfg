\* One worker; an anonymous address and an account's address of one IP, over midnight.
SPECIFICATION Spec
CONSTANTS
    w1 = w1
    w2 = w2
    p1 = p1
    s1 = s1
    s2 = s2
    acct = acct
    mine = mine
    guest = guest
    ip = ip
    Anonymous = Anonymous
    None = None
    Unknown = ip
    Holders <- Account
    DailyLimit <- LimitOne
    AccountOf <- Owners
    IpOf <- SameIp
    AnonLimit = 1
    Pollers <- OnePoller
    Callers <- OneWorker
    Addresses <- MineAndGuest
    Sessions <- OneSession
    MaxDay = 1
    MaxMails = 3
    MaxTasks = 2
    MaxFaults = 0
    MaxBroken = 0
    MaxTroubles = 0
    MaxLost = 0
CHECK_DEADLOCK FALSE
INVARIANTS
    AnonymousBudget
    DailyBudget
    CounterCoversGrants
    RemainingHonest
PROPERTY ImplementsQuota
