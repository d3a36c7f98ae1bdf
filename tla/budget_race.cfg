SPECIFICATION FairSpec

CONSTANTS
    planner = planner
    fallback = fallback
    reviewer = reviewer
    Callers = {c1, c2}
    Models = {planner, fallback}
    Keys = {k1, k2}
    Unit = 2
    HardLimit = 3
    DailyLimit = 3
    DaysPerMonth = 1
    MaxDay = 0
    NoUsage = NoUsage
    Nobody = Nobody
    MayCrash = FALSE
    OperatorActs = TRUE
    Stages <- TwoModels
    Price <- WholePrice
    Quota <- TwoCallsEach
    Usages <- HalfUsed

INVARIANTS
    TypeOK
    KillSwitchAdmitsOne
    OneCallPerRequest
PROPERTIES
    MonthlyCap
    EveryReservationCloses
