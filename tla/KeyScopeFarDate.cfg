\* A created time past the year 9999.
SPECIFICATION Spec
CONSTANTS
    k1 = k1  k2 = k2  k3 = k3
    Keys = {k1, k2, k3}
    Threads = {}
    Steps <- DateScopeSteps
    SecretPrefix <- Prefix
    Secrets = {"s1", "s2"}
    Times = {"t1", "t2"}
    ZeroTime = "t0"
    DayOf <- DayOfTime
    Dates <- DateTexts
    FarDays = {"d2"}
    Strs <- StrSet
    ConfigStages <- RegionStages
    StrayKeyIDs = {}
    LongSegments = {}
    MaxOffers = 2
    MaxSent = 0
    NoKey = NoKey  NoMemo = NoMemo  NoMaterial = NoMaterial  NoMsg = NoMsg
INVARIANT HandoffReconstructs
CHECK_DEADLOCK FALSE
