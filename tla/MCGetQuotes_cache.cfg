\* Two calls, two symbols; Redis works or fails.  The clock passes every bound of AgeIsBounded, and
\* a price may stay under a stale key until it is too old to be served without the flag.
SPECIFICATION Spec
CONSTANTS
    Symbols = {s1, s2}
    Calls = {c1, c2}
    FreshTTL = 1
    StaleTTL = 4
    StepTime = 1
    Linger = 1
    Second = 2
    MaxTime = 8
    FaultModes = {TRUE, FALSE}
    NoEntry = NoEntry
    NoQuote = NoQuote
SYMMETRY Symmetry
INVARIANTS
    TypeOK
    AgeIsBounded
    TimestampIsHonest
    NothingForgotten
    StaleOutlivesFresh
PROPERTY DegradesToCache
