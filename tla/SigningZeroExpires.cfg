\* A peer whose expires parameter is the year one.
SPECIFICATION Spec
CONSTANTS
    LowerCase <- Lower
    AlgorithmOf <- Algs
    Absent = Absent  IllTyped = IllTyped  NotParsed = NotParsed
    Unprintable = {}
    ZeroTime <- YearOne
    Second = 1  MaxInt = 7
    Keys = {"k1", "k2"}
    SignLabels = {"l1", "l2"}
    FieldTypes <- Dictionaries
    Settings <- ZeroPeer
    Policies <- SomePolicies
    MaxTime = 2
CHECK_DEADLOCK FALSE
INVARIANT ExpiresEnforced
