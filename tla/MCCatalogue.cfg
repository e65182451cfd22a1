SPECIFICATION Spec
CONSTANTS
    None = None
    Lists = {l1, l2}
    NormalName <- MCNormalName
    OracleOf <- MCOracleOf
    Collation <- MCCollation
    BasicLands <- MCBasicLands
    OwnedRows <- MCOwnedRows
    ListRows <- MCListRows
    Quotes <- MCQuotes
    Profiles <- MCProfiles
    Budgets <- MCBudgets
    LeverageSize = 1
    SeriesLimit = 1
    MaxRows = 4
SYMMETRY Symmetry
\* A behaviour ends when the tables are full.
CHECK_DEADLOCK FALSE
INVARIANTS
    ComparisonIsExact
    PurchaseDelivers
    DashboardAgrees
    CostsAgree
    BudgetBuysMost
