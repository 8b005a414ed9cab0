SPECIFICATION Spec
CONSTANTS
    juma = juma
    asha = asha
    mosi = mosi
    rice = rice
    oil = oil
    soup = soup
    key = key
    Sessions = {x1, x2, x3}
    NoSession = NoSession
    Suppliers = {juma, asha, mosi}
    Items = {rice, oil, soup}
    Rank <- InOrder
    Sellable = {soup}
    Keys = {key}
    NoKey = NoKey
    Jobs <- AllJobs
    NoJob = NoJob
    NoRow = NoRow
    Hired = {juma, asha}
    Reachable = {juma}
    Opened <- Open
    MaxNumber = 3
    MaxJobs = 3
    MaxAborts = 1
SYMMETRY Alike
INVARIANTS
    TablesConsistent
    
    SplitIsWhole
    FulfilledIsReceived
