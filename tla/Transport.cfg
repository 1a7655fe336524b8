\* Requests of every shape over two redirects, profiles of every digest mode.
SPECIFICATION Spec
CONSTANTS
    LowerCase <- Lower
    AlgorithmOf <- Algs
    Absent = Absent  IllTyped = IllTyped  NoRequest = NoRequest
    badLabel = badLabel
    Unprintable = {badLabel}
    ZeroTime <- YearOne
    Second = 1  MaxInt = 7
    DefaultMaxAge = 1  DefaultMaxBodyBytes = 2
    Calls = {"c1"}
    Offers <- SomeOffers
    Profiles <- SomeProfiles
    Key = "k1"
    Locations <- Elsewhere
    MaxHops = 2
    MaxTime = 2
CHECK_DEADLOCK FALSE
INVARIANTS TypeOK SentIsCallers SentIsSigned SignedForListed FailsOnlyByShape
