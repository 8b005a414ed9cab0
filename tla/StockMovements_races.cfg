SPECIFICATION FairSpec
CONSTANTS
    flour = flour
    bun = bun
    ghost = ghost
    here = here
    there = there
    sold = sold
    gone = gone
    undone = undone
    back = back
    Sessions = {x1, x2}
    NoSession = NoSession
    Items = {flour, bun, ghost}
    Stores = {here, there}
    Events = {sold, gone, undone, back}
    NoEvent = NoEvent
    Jobs <- AnyCall
    NoJob = NoJob
    Quantities = {1, 2, 3}
    Unlinked = {ghost}
    RawMaterials = {flour}
    AllowNegative = {}
    Opening <- SomeStock
    MaxJobs = 3
    MaxCrashes = 1
INVARIANTS
    TypeOK
    StockIsSumOfMovements
    LineAppliedOnce
    AppliedIsPosted
PROPERTIES
    Implements
    TransfersConserve
    EveryCallAnswered
CHECK_DEADLOCK FALSE
