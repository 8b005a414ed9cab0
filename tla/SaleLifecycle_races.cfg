SPECIFICATION Spec
CONSTANTS
    table = table
    trip = trip
    ann = ann
    ben = ben
    p1 = p1
    p2 = p2
    tap1 = tap1
    tap2 = tap2
    Sessions = {x1, x2, x3}
    Sales = {table, trip}
    Deliveries = {trip}
    NoSale = NoSale
    Couriers = {ann, ben}
    NoCourier = NoCourier
    Phones = {p1, p2}
    NoPhone = NoPhone
    Actions = {tap1, tap2}
    NoAction = NoAction
    Jobs <- AllJobs
    NoJob = NoJob
    MaxJobs = 5
    MaxAborts = 1
SYMMETRY Alike
INVARIANTS
    TablesConsistent
    OkMeansReversed
    StockBackMeansReversed
