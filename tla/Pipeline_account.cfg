\* Two workers on one address of an account: duplicate tasks, denials, an exception or a task that breaks off; against MailReport.
SPECIFICATION Spec
CONSTANTS
    w1 = w1
    w2 = w2
    p1 = p1
    s1 = s1
    s2 = s2
    acct = acct
    mine = mine
    guest = guest
    ip = ip
    Anonymous = Anonymous
    None = None
    Unknown = unknown
    Holders <- Account
    DailyLimit <- LimitOne
    AccountOf <- Owners
    IpOf <- SameIp
    AnonLimit = 1
    Pollers <- OnePoller
    Callers <- TwoWorkers
    Addresses <- JustMine
    Sessions <- OneSession
    MaxDay = 1
    MaxMails = 2
    MaxTasks = 1
    MaxFaults = 1
    MaxBroken = 1
    MaxTroubles = 1
    MaxLost = 0
CHECK_DEADLOCK FALSE
SYMMETRY WorkerSymmetry
INVARIANTS
    TypeOK
    OneReport
    ExclusiveWork
    PaidOnce
    OpenUnpaid
PROPERTIES
    ImplementsReport
    ReportFinal
    AbandonedByTrouble
    ForgottenByTrouble
