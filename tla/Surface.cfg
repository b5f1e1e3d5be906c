SPECIFICATION Spec
CONSTANTS
    Requests = {r1, r2}
    Customers = {"k1", "k2"}
    MaxChanges = 2
    Accounts <- Staffing
    Exceptions = {"clients.view", "attendance.self", "reports.view", "settings.manage"}
    PlanFeatures = {"cloud_telephony", "calendar_sync"}
    MaxMoves = 2
    Invoices <- SalesAndPurchases
    Corrections <- Fixes
    Payouts <- Fees
    Platform <- RateBook
    OwnRules <- OwnRates
    RulePatches <- RateChanges
    StateCodes = {"33", "29"}
    PeriodEnd <- QuarterEnds
    Today = 5
INVARIANTS    HooksHold TaxHolds
CHECK_DEADLOCK FALSE
