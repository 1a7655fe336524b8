\* An age bound and a tolerance whose sum exceeds the largest Go duration.
SPECIFICATION Spec
CONSTANTS
    LowerCase <- Lower
    AlgorithmOf <- Algs
    Absent = Absent  IllTyped = IllTyped  NoEntry = NoEntry  NoArrival = NoArrival
    ZeroTime <- YearOne
    DefaultMaxAge = 1  DefaultMaxBodyBytes = 1
    Second = 1  MaxInt = 7
    Unprintable = {}
    Requests = {"r1"}
    Arrivals <- ManyArrivals
    Statements <- SomeStatements
    Policies <- Patient
    KeyIDs = {"i1", "i2"}
    Tags = {"t"}
    Owner <- Owners
    MaxTime = 2
INVARIANT NoFalseReject
