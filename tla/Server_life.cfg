SPECIFICATION FairSpec
CONSTANTS
    Trades = {t1, t2}
    Reads = {q1}
    Hooks = {h1, h2}
INVARIANTS
    TypeOK
PROPERTIES
    RpcsAreDrained
    HooksHaveTheTimeout
    StopsEventually
