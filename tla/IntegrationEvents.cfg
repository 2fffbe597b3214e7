\* Four commands in a scope, three of them inside one another, four events.
CONSTANTS
    MaxCommands = 4
    MaxEvents = 4
    MaxNesting = 3
SPECIFICATION Spec
INVARIANTS
    TypeOK
    OnlyCommittedPublished
    OkIsPublished
    PublishedInOrder
    LossNeedsFailedDelivery
\* The scope ends.
CHECK_DEADLOCK FALSE
