SPECIFICATION OutboxSpec
CONSTANTS
    s1 = s1
    s2 = s2
    s3 = s3
    storeA = storeA
    storeB = storeB
    Sales = {s1, s2}
    Stores = {storeA}
    StoreOf <- OneStore
    AnyStore = AnyStore
    Requests = {r1, r2}
    NoSale = NoSale
    NoRequest = NoRequest
    CompletedSales = {s1, s2}
    CustomerSales = {s2}
    DisruptionKinds = {"crash"}
    MaxDeductions = 3
    MaxDisruptions = 1
    Drains = {d1}
    Places <- TwoPlaces
    MaxBatch = 2
SYMMETRY Interchangeable
INVARIANTS
    SyncingIsHeld
