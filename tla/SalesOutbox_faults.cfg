SPECIFICATION OutboxSpec
CONSTANTS
    s1 = s1
    s2 = s2
    s3 = s3
    storeA = storeA
    storeB = storeB
    Sales = {s1, s2, s3}
    Stores = {storeA, storeB}
    StoreOf <- TwoStores
    AnyStore = AnyStore
    Requests = {r1, r2}
    NoSale = NoSale
    NoRequest = NoRequest
    CompletedSales = {s1, s3}
    CustomerSales = {s3}
    DisruptionKinds = {"timeout", "crash", "switch", "abort", "database"}
    MaxDeductions = 3
    MaxDisruptions = 2
    Drains = {d1}
    Places <- ThreePlaces
    MaxBatch = 2
SYMMETRY Interchangeable
INVARIANTS
    SyncedIsIngested
