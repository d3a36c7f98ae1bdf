SPECIFICATION Spec

CONSTANTS
    planner = planner
    fallback = fallback
    reviewer = reviewer
    Callers = {c1}
    Models = {planner, fallback, reviewer}
    Keys = {k1, k2}
    Unit = 2
    HardLimit = 6
    DailyLimit = 4
    DaysPerMonth = 2
    MaxDay = 2
    NoUsage = NoUsage
    Nobody = Nobody
    MayCrash = TRUE
    OperatorActs = TRUE
    Stages <- Pipeline
    Price <- ExpiringPrice
    Quota <- OneCallEach
    Usages <- WithinMaxima


    
    
PROPERTIES
    DailyCap
