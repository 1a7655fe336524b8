\* A key name too long for the keyid limit.
SPECIFICATION Spec
CONSTANTS
    k1 = k1  k2 = k2  k3 = k3
    Keys = {k1, k2, k3}
    Threads = {}
    Steps <- DateScopeSteps
    SecretPrefix <- Prefix
    Secrets = {"s1", "s2"}
    Times = {"t1", "t2"}
    ZeroTime = "t0"
    DayOf <- DayOfTime
    Dates <- DateTexts
    FarDays = {}
    Strs <- StrSet
    ConfigStages <- LongNameStages
    StrayKeyIDs = {}
    LongSegments = {"long"}
    MaxOffers = 2
    MaxSent = 0
    NoKey = NoKey  NoMemo = NoMemo  NoMaterial = NoMaterial  NoMsg = NoMsg
INVARIANT OwnKeyIDVerifies
CHECK_DEADLOCK FALSE
