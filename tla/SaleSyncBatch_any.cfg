SPECIFICATION ServerFairSpec
CONSTANTS
    s1 = s1
    s2 = s2
    storeA = storeA
    Sales = {s1, s2}
    Stores = {storeA}
    StoreOf <- OneStore
    AnyStore = AnyStore
    Requests = {r1, r2}
    NoSale = NoSale
    CompletedSales = {s1}
    CustomerSales = {s2}
    DisruptionKinds = {"abort"}
    MaxDeductions = 1
    MaxDisruptions = 1
INVARIANTS
    ServerTypeOK
    AtMostOneRow
    
PROPERTIES
    EveryRequestAnswered
