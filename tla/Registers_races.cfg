SPECIFICATION Spec
CONSTANTS
    cafe = cafe
    grill = grill
    rent = rent
    tips = tips
    jane = jane
    scan = scan
    junk = junk
    v1 = v1
    v2 = v2
    Sessions = {x1, x2, x3}
    Businesses = {cafe, grill}
    Expenses = {rent}
    Incomes = {tips}
    Customers = {jane}
    NoRow = NoRow
    Values = {v1, v2}
    Receipts = {scan, junk}
    NoReceipt = NoReceipt
    BadUploads = {junk}
    Jobs <- AllJobs
    NoJob = NoJob
    MaxJobs = 4
    MaxAborts = 1
SYMMETRY Alike
INVARIANTS
    TablesConsistent
    
    ReceiptsReadable
PROPERTIES
    RowsAreKept
