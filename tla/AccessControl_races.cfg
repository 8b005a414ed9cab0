SPECIFICATION Spec
CONSTANTS
    boss = boss
    manager = manager
    admin = admin
    rider = rider
    newcomer = newcomer
    Handlers = {x1, x2, x3}
    Users = {boss, manager, admin, rider, newcomer}
    Names = {"Owner", "Manager", "Manager2", "Spare", "Staff", "Empty", "Annex", "driver", "Main Location"}
    Codes = {manage, all}
    Manage = manage
    Wildcard = all
    Platform = Platform
    Anywhere = Anywhere
    Templates <- TemplateRows
    Jobs <- JobsByTurn
    NoJob = NoJob
    NoRow = NoRow
    Start <- StartTables
    Tokens <- StartTokens
    MaxJobs = 3
    MaxAborts = 1
INVARIANTS
    TablesConsistent
    OnlyOwnerHoldsAll
PROPERTIES
    OwnerRoleIsFixed
