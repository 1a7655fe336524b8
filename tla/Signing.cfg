\* Several signers and peers, edits of covered fields and parts, every form of request.
SPECIFICATION Spec
CONSTANTS
    LowerCase <- Lower
    AlgorithmOf <- Algs
    Absent = Absent  IllTyped = IllTyped  NotParsed = NotParsed
    Unprintable = {}
    ZeroTime <- YearOne
    Second = 1  MaxInt = 7
    Keys = {"k1", "k2"}
    SignLabels = {"l1", "l2", "l3"}
    FieldTypes <- Dictionaries
    Settings <- EverySetting
    Policies <- SomePolicies
    MaxTime = 2
CHECK_DEADLOCK FALSE
INVARIANTS TypeOK AcceptedIsStatement HonestJourney
PROPERTIES SignaturesReported OthersStand
