\* One mail after another, with every answer of every lookup.
SPECIFICATION AnalyzerSpec
CONSTANTS
    DNSBL_MAX_LISTS = 6
    DomainLists = 2
    URIBL_MAX_DOMAINS = 2
    SPAM_PENALTY_CAP = 500
    Levels <- SomeLevels
    Targets <- SomeTargets
    Sizes <- SomeSizes
    SpamPoints <- SomeSpamPoints
INVARIANTS
    CapsKept
    OutageForgiven
    DmarcFair
    ResultHonest
