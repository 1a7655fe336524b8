\* Two goroutines share the memos of a root key and of a handed-off key, over altered and
\* stray keyids and midnight.
SPECIFICATION Spec
CONSTANTS
    k1 = k1  k2 = k2
    g1 = g1  g2 = g2
    Keys = {k1, k2}
    Threads = {g1, g2}
    Steps <- DateScopeSteps
    SecretPrefix <- Prefix
    Secrets = {"s1"}
    Times = {"t1", "t2"}
    ZeroTime = "t0"
    DayOf <- DayOfTime
    Dates <- DateTexts
    FarDays = {}
    Strs <- StrSet
    ConfigStages <- RegionStages
    StrayKeyIDs <- Strays
    LongSegments = {}
    MaxOffers = 1
    MaxSent = 1
    NoKey = NoKey  NoMemo = NoMemo  NoMaterial = NoMaterial  NoMsg = NoMsg
INVARIANTS TypeOK Inv MemoSound VerdictExact
PROPERTIES MismatchNeverDerives CallsReturn ScheduleSpec
