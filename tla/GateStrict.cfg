\* One request of every kind, a strict policy that wants a digest of a body, or always.
SPECIFICATION Spec
CONSTANTS
    LowerCase <- Lower
    AlgorithmOf <- Algs
    Absent = Absent  IllTyped = IllTyped  NoEntry = NoEntry  NoArrival = NoArrival
    ZeroTime <- YearOne
    DefaultMaxAge = 1  DefaultMaxBodyBytes = 1
    Second = 1  MaxInt = 7
    Unprintable = {}
    Requests = {"r1"}
    Arrivals <- ManyArrivals
    Statements <- SomeStatements
    Policies <- Strict
    KeyIDs = {"i1", "i2"}
    Tags = {"t"}
    Owner <- Owners
    MaxTime = 3
INVARIANTS TypeOK ServedIsEntitled BodyBound BodyIntact NoFalseReject TooLargeIs413
PROPERTY EveryRequestAnswered
