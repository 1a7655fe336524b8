\* A client, its redirect, and a server across clocks that disagree.
SPECIFICATION Spec
CONSTANTS
    LowerCase <- Lower
    AlgorithmOf <- Algs
    Absent = Absent  IllTyped = IllTyped
    NoRequest = NoRequest  NoEntry = NoEntry  NoArrival = NoArrival
    Unprintable = {}
    ZeroTime <- YearOne
    Second = 2  MaxInt = 15
    DefaultMaxAge = 4  DefaultMaxBodyBytes = 2
    Calls = {"c1"}
    Offers <- SomeOffers
    Profiles <- SomeProfiles
    Key = "k1"
    Locations <- Elsewhere
    MaxHops = 1
    Requests = {"d1"}
    Policy <- SomePolicy
    KeyIDs = {"i1"}
    Tags = {}
    Owner <- Owners
    Scheme = "https"
    Host <- ServerHost
    Skews <- Off
    OtherBodies <- Forged
    MaxTime = 7
CHECK_DEADLOCK FALSE
INVARIANTS TypeOK HonestServed
PROPERTY ChannelSpec
