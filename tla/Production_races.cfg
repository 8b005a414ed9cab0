SPECIFICATION Spec
CONSTANTS
    flour = flour
    yeast = yeast
    bread = bread
    cake = cake
    key = key
    Sessions = {x1, x2, x3}
    NoSession = NoSession
    Items = {flour, yeast, bread, cake}
    NoItem = NoItem
    Rank <- IdOrder
    Sellable = {bread, cake}
    Dish = bread
    Ingredients = {flour, yeast, bread}
    AllowNegative = {yeast}
    Keys = {key}
    NoKey = NoKey
    Jobs <- AllJobs
    NoJob = NoJob
    NoRow = NoRow
    NoLines = NoLines
    Opening <- Stock
    Carried <- Yesterday
    MaxJobs = 3
    MaxAborts = 1
SYMMETRY Alike
INVARIANTS
    TablesConsistent
    LedgerBalances
    EventMovesStock
PROPERTIES
    NoOverdraw
