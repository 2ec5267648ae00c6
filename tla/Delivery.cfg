\* A message to three recipients, with three failures and four deliveries.
SPECIFICATION DeliverySpec
CONSTANTS
    own1 = own1
    own2 = own2
    foreign = foreign
    Recipients <- SomeRecipients
    Own <- SomeOwn
    None = None
    MaxAttempts = 4
    MaxFailures = 3
CHECK_DEADLOCK FALSE
INVARIANTS
    AcceptedQueued
    LeftoversBounded
    CopiesExplained
    ExactlyOnce
PROPERTY
    LeftoverByFailure
