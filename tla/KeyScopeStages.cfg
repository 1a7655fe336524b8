\* Chains of hand-offs over a ladder with two scope rungs.
SPECIFICATION Spec
CONSTANTS
    k1 = k1  k2 = k2  k3 = k3
    Keys = {k1, k2, k3}
    Threads = {}
    Steps <- TwoScopeSteps
    SecretPrefix <- Prefix
    Secrets = {"s1", "s2"}
    Times = {"t1", "t2"}
    ZeroTime = "t0"
    DayOf <- DayOfTime
    Dates <- DateTexts
    FarDays = {}
    Strs <- StrSet
    ConfigStages <- TwoScopeStages
    StrayKeyIDs = {}
    LongSegments = {}
    MaxOffers = 2
    MaxSent = 0
    NoKey = NoKey  NoMemo = NoMemo  NoMaterial = NoMaterial  NoMsg = NoMsg
INVARIANTS StageFaithful KeyIDDeterminesKey OwnKeyIDVerifies LookupFindsKey HandoffReconstructs
CHECK_DEADLOCK FALSE
